--------------------------- MODULE Services_proofs ---------------------------
(***************************************************************************)
(* The services together, as MCServices runs them: a run of all is a run   *)
(* of each by its own specification, so that what is proved of each, for   *)
(* any values of its constants, is true of the whole.                      *)
(***************************************************************************)
EXTENDS MCServices, Copiers_proofs, Pages_proofs, Admin_proofs

\* No service writes what is another's.
LEMMA StepsAreOfOne ==
    [Next]_vars =>
        /\ [UpdatesNext]_updatesVars /\ [CopierSyncNext]_copierSyncVars
        /\ [CopierUsageNext]_copierUsageVars /\ [DeviceOwnerNext]_deviceOwnerVars
        /\ [PrintQueueNext]_printQueueVars /\ [QueueSyncNext]_queueSyncVars
        /\ [PageReconcileNext]_pageReconcileVars /\ [AttributionNext]_attributionVars
        /\ [CopierImportsNext]_copierImportsVars /\ [ReportingNext]_reportingVars
        /\ [InkCoverageNext]_inkCoverageVars
  <1> SUFFICES ASSUME [Next]_vars
               PROVE
                   /\ [UpdatesNext]_updatesVars /\ [CopierSyncNext]_copierSyncVars
                   /\ [CopierUsageNext]_copierUsageVars /\ [DeviceOwnerNext]_deviceOwnerVars
                   /\ [PrintQueueNext]_printQueueVars /\ [QueueSyncNext]_queueSyncVars
                   /\ [PageReconcileNext]_pageReconcileVars /\ [AttributionNext]_attributionVars
                   /\ [CopierImportsNext]_copierImportsVars /\ [ReportingNext]_reportingVars
                   /\ [InkCoverageNext]_inkCoverageVars
    OBVIOUS
  <1>1. CASE UNCHANGED vars
    BY <1>1 DEF vars
  <1>2. CASE UpdatesStep
    BY <1>2 DEF UpdatesStep
  <1>3. CASE CopierSyncStep
    BY <1>3 DEF CopierSyncStep
  <1>4. CASE CopierUsageStep
    BY <1>4 DEF CopierUsageStep
  <1>5. CASE DeviceOwnerStep
    BY <1>5 DEF DeviceOwnerStep
  <1>6. CASE PrintQueueStep
    BY <1>6 DEF PrintQueueStep
  <1>7. CASE QueueSyncStep
    BY <1>7 DEF QueueSyncStep
  <1>8. CASE PageReconcileStep
    BY <1>8 DEF PageReconcileStep
  <1>9. CASE AttributionStep
    BY <1>9 DEF AttributionStep
  <1>10. CASE CopierImportsStep
    BY <1>10 DEF CopierImportsStep
  <1>11. CASE ReportingPeriodsStep
    BY <1>11 DEF ReportingPeriodsStep
  <1>12. CASE InkCoverageStep
    BY <1>12 DEF InkCoverageStep
  <1> QED
    BY <1>1, <1>2, <1>3, <1>4, <1>5, <1>6, <1>7, <1>8, <1>9, <1>10, <1>11, <1>12 DEF Next

LEMMA ServicesRunAlone ==
    Spec =>
        /\ UpdatesSpec /\ CopierSyncSpec /\ CopierUsageSpec /\ DeviceOwnerSpec
        /\ PrintQueueSpec /\ QueueSyncSpec /\ PageReconcileSpec /\ AttributionSpec
        /\ CopierImportsSpec /\ ReportingSpec /\ InkCoverageSpec
  <1>1. Init =>
            /\ UpdatesInit /\ CopierSyncInit /\ CopierUsageInit /\ DeviceOwnerInit
            /\ PrintQueueInit /\ QueueSyncInit /\ PageReconcileInit /\ AttributionInit
            /\ CopierImportsInit /\ ReportingInit /\ InkCoverageInit
    BY DEF Init
  <1> QED
    BY <1>1, StepsAreOfOne, PTL
    DEF Spec, UpdatesSpec, CopierSyncSpec, CopierUsageSpec, DeviceOwnerSpec, PrintQueueSpec,
        QueueSyncSpec, PageReconcileSpec, AttributionSpec, CopierImportsSpec, ReportingSpec, InkCoverageSpec

\* The variables of all services keep their types, in whichever of them runs: the
\* rows, the copies of rows that sessions hold, and what is remembered of the past.
THEOREM ServicesTyped ==
    ASSUME Batch # {}, QueuedJob # {} PROVE Spec => []TypeOK
  <1>1. /\ UpdatesInv => UpdatesTypeOK
        /\ SyncInv => CopierSyncTypeOK
        /\ UsageInv => CopierUsageTypeOK
        /\ OwnerInv => DeviceOwnerTypeOK
        /\ PrintQueueInv => PrintQueueTypeOK
        /\ QueueSyncInv => QueueSyncTypeOK
        /\ AttributionInv => AttributionTypeOK
        /\ ImportsInv => CopierImportsTypeOK
        /\ ReportingInv => ReportingTypeOK
    BY DEF UpdatesInv, SyncInv, UsageInv, OwnerInv, PrintQueueInv, QueueSyncInv,
           AttributionInv, ImportsInv, ReportingInv
  <1> QED
    BY <1>1, ServicesRunAlone, UpdatesInvHolds, SyncInvHolds, UsageInvHolds, OwnerInvHolds,
       PrintQueueInvHolds, QueueSyncInvHolds, PageReconcileTyped, AttributionInvHolds,
       ImportsInvHolds, ReportingInvHolds, InkCoverageTyped, PTL
    DEF TypeOK
==============================================================================
