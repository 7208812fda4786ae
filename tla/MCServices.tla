----------------------------- MODULE MCServices ------------------------------
(***************************************************************************)
(* The services beside the print path, on small instances.  They share no  *)
(* state that their modules speak of, so they are not interleaved: each    *)
(* initial state picks one of them (service) and the others stay as they   *)
(* were made.                                                              *)
(***************************************************************************)
EXTENDS
    Updates, CopierSync, CopierUsage, DeviceOwner, PrintQueue, QueueSync,
    PageReconcile, Attribution, CopierImports, ReportingPeriods, InkCoverage

VARIABLE service

On(s) == service = s /\ UNCHANGED service

UpdatesStep ==
    /\ On("updates") /\ UpdatesNext
    /\ UNCHANGED <<copierSyncVars, copierUsageVars, deviceOwnerVars,
                   printQueueVars, queueSyncVars, pageReconcileVars,
                   attributionVars, copierImportsVars, reportingVars,
                   inkCoverageVars>>

CopierSyncStep ==
    /\ On("sync") /\ CopierSyncNext
    /\ UNCHANGED <<updatesVars, copierUsageVars, deviceOwnerVars,
                   printQueueVars, queueSyncVars, pageReconcileVars,
                   attributionVars, copierImportsVars, reportingVars,
                   inkCoverageVars>>

CopierUsageStep ==
    /\ On("usage") /\ CopierUsageNext
    /\ UNCHANGED <<updatesVars, copierSyncVars, deviceOwnerVars,
                   printQueueVars, queueSyncVars, pageReconcileVars,
                   attributionVars, copierImportsVars, reportingVars,
                   inkCoverageVars>>

DeviceOwnerStep ==
    /\ On("owner") /\ DeviceOwnerNext
    /\ UNCHANGED <<updatesVars, copierSyncVars, copierUsageVars,
                   printQueueVars, queueSyncVars, pageReconcileVars,
                   attributionVars, copierImportsVars, reportingVars,
                   inkCoverageVars>>

PrintQueueStep ==
    /\ On("queue") /\ PrintQueueNext
    /\ UNCHANGED <<updatesVars, copierSyncVars, copierUsageVars,
                   deviceOwnerVars, queueSyncVars, pageReconcileVars,
                   attributionVars, copierImportsVars, reportingVars,
                   inkCoverageVars>>

QueueSyncStep ==
    /\ On("address") /\ QueueSyncNext
    /\ UNCHANGED <<updatesVars, copierSyncVars, copierUsageVars,
                   deviceOwnerVars, printQueueVars, pageReconcileVars,
                   attributionVars, copierImportsVars, reportingVars,
                   inkCoverageVars>>

PageReconcileStep ==
    /\ On("pages") /\ PageReconcileNext
    /\ UNCHANGED <<updatesVars, copierSyncVars, copierUsageVars,
                   deviceOwnerVars, printQueueVars, queueSyncVars,
                   attributionVars, copierImportsVars, reportingVars,
                   inkCoverageVars>>

AttributionStep ==
    /\ On("attribution") /\ AttributionNext
    /\ UNCHANGED <<updatesVars, copierSyncVars, copierUsageVars,
                   deviceOwnerVars, printQueueVars, queueSyncVars,
                   pageReconcileVars, copierImportsVars, reportingVars,
                   inkCoverageVars>>

CopierImportsStep ==
    /\ On("imports") /\ CopierImportsNext
    /\ UNCHANGED <<updatesVars, copierSyncVars, copierUsageVars,
                   deviceOwnerVars, printQueueVars, queueSyncVars,
                   pageReconcileVars, attributionVars, reportingVars,
                   inkCoverageVars>>

ReportingPeriodsStep ==
    /\ On("periods") /\ ReportingNext
    /\ UNCHANGED <<updatesVars, copierSyncVars, copierUsageVars,
                   deviceOwnerVars, printQueueVars, queueSyncVars,
                   pageReconcileVars, attributionVars, copierImportsVars,
                   inkCoverageVars>>

InkCoverageStep ==
    /\ On("coverage") /\ InkCoverageNext
    /\ UNCHANGED <<updatesVars, copierSyncVars, copierUsageVars,
                   deviceOwnerVars, printQueueVars, queueSyncVars,
                   pageReconcileVars, attributionVars, copierImportsVars,
                   reportingVars>>

Init ==
    /\ service \in {"updates", "sync", "usage", "owner", "queue", "address",
                    "pages", "attribution", "imports", "periods", "coverage"}
    /\ UpdatesInit /\ CopierSyncInit /\ CopierUsageInit /\ DeviceOwnerInit
    /\ PrintQueueInit /\ QueueSyncInit /\ PageReconcileInit /\ AttributionInit
    /\ CopierImportsInit /\ ReportingInit /\ InkCoverageInit
    /\ service # "address" => serving = CHOOSE a \in DeviceAddress : TRUE
    /\ service # "attribution" =>
           roster = {CHOOSE a \in Address : TRUE} /\ override = NoName

vars == <<updatesVars, copierSyncVars, copierUsageVars, deviceOwnerVars,
          printQueueVars, queueSyncVars, pageReconcileVars, attributionVars,
          copierImportsVars, reportingVars, inkCoverageVars, service>>

Next ==
    \/ UpdatesStep \/ CopierSyncStep \/ CopierUsageStep \/ DeviceOwnerStep
    \/ PrintQueueStep \/ QueueSyncStep \/ PageReconcileStep \/ AttributionStep
    \/ CopierImportsStep \/ ReportingPeriodsStep \/ InkCoverageStep

Spec == Init /\ [][Next]_vars

TypeOK ==
    /\ UpdatesTypeOK /\ CopierSyncTypeOK /\ CopierUsageTypeOK
    /\ DeviceOwnerTypeOK /\ PrintQueueTypeOK /\ QueueSyncTypeOK
    /\ PageReconcileTypeOK /\ AttributionTypeOK /\ CopierImportsTypeOK
    /\ ReportingTypeOK /\ InkCoverageTypeOK
==============================================================================
