------------------------------ MODULE MCNotices ------------------------------
(***************************************************************************)
(* From a printer's status to the notification somebody gets, on small     *)
(* instances.  The three share no state that their modules speak of, so    *)
(* they are not interleaved: each initial state picks one of them          *)
(* (service) and the others stay as they were made.                        *)
(***************************************************************************)
EXTENDS PrinterStatus, Conditions, Delivery

VARIABLE service

On(s) == service = s /\ UNCHANGED service

PrinterStatusStep ==
    /\ On("status") /\ StatusNext
    /\ UNCHANGED <<conditionVars, deliveryVars>>

ConditionsStep ==
    /\ On("conditions") /\ ConditionsNext
    /\ UNCHANGED <<statusVars, deliveryVars>>

DeliveryStep ==
    /\ On("delivery") /\ DeliveryNext
    /\ UNCHANGED <<statusVars, conditionVars>>

Init ==
    /\ service \in {"status", "conditions", "delivery"}
    /\ StatusInit /\ ConditionsInit /\ DeliveryInit
    /\ service # "conditions" => immediate /\ enabled
    /\ service # "delivery" => on

vars == <<statusVars, conditionVars, deliveryVars, service>>

Next == PrinterStatusStep \/ ConditionsStep \/ DeliveryStep

\* The fairness of each, while it is the one that runs.
Fairness ==
    /\ WF_statusVars(On("status") /\ Tick)
    /\ \A c \in Checker :
           /\ WF_statusVars(On("status") /\ CheckProceeds(c))
           /\ SF_statusVars(On("status") /\ LoopIsAnswered(c))
           /\ SF_statusVars(On("status") /\ CupsdAnswers(c))
           /\ SF_statusVars(On("status") /\ ResumeSucceeds(c))
    /\ WF_conditionVars(On("conditions") /\ SettleTick)
    /\ \A o \in Observer :
           WF_conditionVars(On("conditions") /\ (SessionProceeds(o) \/ PolledLook(o)))
    /\ WF_deliveryVars(On("delivery") /\ PassStep)
    /\ WF_deliveryVars(On("delivery") /\ RetryTick)

Spec == Init /\ [][Next]_vars /\ Fairness

TypeOK == StatusTypeOK /\ ConditionsTypeOK /\ DeliveryTypeOK
==============================================================================
