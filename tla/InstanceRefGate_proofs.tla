------------------------ MODULE InstanceRefGate_proofs ------------------------
(***************************************************************************)
(* Proofs about the simple objects behind the admission webhook: what      *)
(* SonarQubeObject_proofs shows of their controllers holds whatever the    *)
(* webhook answers, and nothing is made for a namespace that was never     *)
(* listed.                                                                 *)
(***************************************************************************)
EXTENDS InstanceRefGate, SonarQubeObject_proofs

-----------------------------------------------------------------------------
(* The inductive invariant *)

GateTypes ==
    /\ policy \in Policies
    /\ seen \in Policies \cup {"missing"}
    /\ serving \in BOOLEAN
    /\ policy = "local" => seen = "local" /\ serving

\* Without a mishap and a change of the list, a resource of an unlisted namespace
\* is in nobody's hands: neither stored nor cached nor reconciled.
KeptOut ==
    Clean /\ policy = "unlisted"
        => /\ ~cr.exists /\ ~pcache.object.exists /\ pr.pc = "idle"
           /\ seen = "unlisted" /\ serving

GatedInv == IInv /\ GateTypes /\ KeptOut

-----------------------------------------------------------------------------
(* The webhook and its surroundings preserve the invariant *)

USE DEF At

LEMMA RefuseInv ==
    ASSUME IInv, Refuse
    PROVE  IInv'
<1> USE DEF IInv
<1>1. /\ UNCHANGED <<kind, cr, pcache, instance, objectVars>> /\ Spent
      /\ Proceed("idle")
  BY DEF Refuse, Spent
<1>2. pr' \in Reconciles /\ pr'.pc = "idle" /\ pr'.object = Absent
  BY <1>1, Proceeds DEF Steps
<1>3. Child!ChildType' /\ Child!Control' /\ Bounded' /\ DeletedByRecord' /\ Settled'
  BY <1>1, <1>2, WorkKeeps
<1>4. OwnTypes'
  BY <1>1 DEF OwnTypes, objectVars
<1>5. Ids'
  BY <1>1, <1>2, IdsKept DEF OldIds, OwnTypes, objectVars, Absent
<1> QED
  BY <1>3, <1>4, <1>5

LEMMA AnnotateInv ==
    ASSUME IInv, Annotate \/ Outage
    PROVE  IInv'
<1>1. /\ UNCHANGED <<kind, cr, pcache, instance, pr, objectVars>>
      /\ Fault \/ Spend("turns")
  BY DEF Annotate, Outage
<1>2. Child!ChildType' /\ Child!Control'
  BY <1>1, BudgetSpent, Child!ControlKept DEF Spent, IInv, Child!ChildType
<1> QED
  BY <1>1, <1>2, SpoiledInv

\* Every step is one of SonarQubeObject, one of the webhook's, or changes nothing
\* but the annotation.
LEMMA StepsOfObject ==
    ASSUME [GatedNext]_gatedVars
    PROVE  Refuse \/ Annotate \/ Outage \/ [Next]_vars
  BY DEF GatedNext, Apply, Remove, GatedStep, Elsewhere, SyncAnnotation, Recovery, Next,
         Step, gatedVars

\* Only a step of SonarQubeObject makes an object.
LEMMA MakingStep ==
    ASSUME IInv, [GatedNext]_gatedVars, issued' > issued
    PROVE  [Next]_vars
<1>1. issued \in Nat
  BY DEF IInv, OwnTypes
<1>2. Refuse \/ Annotate \/ Outage => UNCHANGED issued
  BY DEF Refuse, Annotate, Outage, objectVars
<1>3. ~(Refuse \/ Annotate \/ Outage)
  BY <1>1, <1>2
<1> QED
  BY <1>3, StepsOfObject

LEMMA ObjectInv ==
    ASSUME IInv, [GatedNext]_gatedVars
    PROVE  IInv'
  BY StepsOfObject, RefuseInv, AnnotateInv, NextInv

LEMMA GateTypesInv ==
    ASSUME GateTypes, [GatedNext]_gatedVars
    PROVE  GateTypes'
<1> USE DEF GateTypes, gateVars, Policies
<1>1. CASE UNCHANGED gateVars
  BY <1>1
<1>2. CASE Annotate
  BY <1>2 DEF Annotate
<1>3. CASE SyncAnnotation
  BY <1>3 DEF SyncAnnotation, Target
<1>4. CASE Outage
  BY <1>4 DEF Outage
<1>5. CASE Recovery
  BY <1>5 DEF Recovery
<1> QED
  BY <1>1, <1>2, <1>3, <1>4, <1>5
  DEF GatedNext, Apply, Remove, GatedStep, Refuse, Elsewhere, gatedVars

\* The steps of a reconcile are taken by a reconcile.
LEMMA BusyStep ==
    ASSUME Refuse \/ Lifecycle \/ Work
    PROVE  pr.pc # "idle" /\ Spent
<1>1. CASE Refuse
  BY <1>1 DEF Refuse, FinalizerSteps, Spent
<1>2. CASE Lifecycle
  <2>1. \A new, then : OwnWrite(new, then, "idle") => NoFault \/ Fault
    BY DEF OwnWrite
  <2> QED
    BY <1>2, <2>1
    DEF Lifecycle, Conclude, AddFinalizer, PublishPhase, ReleaseFinalizer, Spent
<1>3. CASE LookUp \/ LookUpWebhook \/ Create \/ CreateWebhook
  BY <1>3 DEF LookUp, LookUpWebhook, Create, CreateWebhook, CallFails, Spent
<1>4. CASE ReconcileConditions \/ SyncDescription \/ SetDefault
  BY <1>4 DEF ReconcileConditions, SyncDescription, SetDefault, CallFails, Spent
<1>5. CASE PublishReady \/ DeleteObject
  BY <1>5 DEF PublishReady, OwnWrite, DeleteObject, CallFails, Spent
<1> QED
  BY <1>1, <1>2, <1>3, <1>4, <1>5 DEF Work

LEMMA KeptOutInv ==
    ASSUME GatedInv, [GatedNext]_gatedVars
    PROVE  KeptOut'
<1> USE DEF GatedInv
<1> SUFFICES ASSUME Clean', (policy = "unlisted")'
             PROVE  KeptOut'
  BY DEF KeptOut
<1>1. ~(Fault \/ Spend("turns"))
  BY FaultSpoils
<1>2. UNCHANGED policy
  BY <1>1
  DEF GatedNext, Apply, Remove, GatedStep, Refuse, Elsewhere, Annotate, SyncAnnotation,
      Outage, Recovery, gatedVars, gateVars
<1>3. Clean => /\ ~cr.exists /\ ~pcache.object.exists /\ pr.pc = "idle"
               /\ seen = "unlisted" /\ serving /\ instance = "Ready"
  BY <1>2 DEF KeptOut, IInv, Settled
<1>4. CASE Apply \/ Remove
  <2>1. Clean
    BY <1>4, BoundedKept DEF Apply, Remove, UserApplies, UserRemoves, Spent
  <2> QED
    BY <1>3, <1>4, <2>1
    DEF Apply, Admitted, Validate, Remove, UserRemoves, UserDeletes, Editable
<1>5. CASE GatedStep
  <2>1. pr.pc # "idle" /\ Spent
    BY <1>5, BusyStep DEF GatedStep
  <2> QED
    BY <1>3, <2>1, BoundedKept
<1>6. CASE Elsewhere
  <2>1. CASE Start
    <3>1. pcache.object.exists /\ Spent
      BY <2>1 DEF Start, PickUp, Spent
    <3> QED
      BY <1>3, <3>1, BoundedKept
  <2>2. CASE ChangeInUI
    <3>1. UNCHANGED <<cr, pcache, pr>> /\ Spent
      BY <2>2 DEF ChangeInUI, Spent
    <3> QED
      BY <1>3, <1>6, <3>1, BoundedKept DEF KeptOut, Elsewhere, gateVars
  <2>3. CASE Sync
    <3>1. pcache'.object = cr /\ UNCHANGED <<cr, pr, budget>>
      BY <2>3, SameSteps, Child!SyncResourceEffect DEF Sync, IInv
    <3> QED
      BY <1>3, <1>6, <3>1, BoundedKept DEF KeptOut, Elsewhere, gateVars, Spent, NoFault
  <2> QED
    BY <1>1, <1>6, <2>1, <2>2, <2>3
    DEF Elsewhere, Turn, InstanceTurns, ManagerRestart, Restart
<1>7. CASE SyncAnnotation \/ Recovery
  <2>1. UNCHANGED <<cr, pcache, pr>> /\ UNCHANGED budget
    BY <1>7 DEF SyncAnnotation, Recovery, vars
  <2>2. Clean
    BY <2>1, BoundedKept DEF Spent, NoFault
  <2> QED
    BY <1>2, <1>3, <1>7, <2>1, <2>2 DEF SyncAnnotation, Recovery, Target, KeptOut
<1>8. CASE UNCHANGED gatedVars
  <2>1. UNCHANGED <<cr, pcache, pr, seen, serving>> /\ Clean
    BY <1>8, BoundedKept DEF gatedVars, vars, gateVars, Spent, NoFault
  <2> QED
    BY <1>3, <2>1 DEF KeptOut
<1> QED
  BY <1>1, <1>4, <1>5, <1>6, <1>7, <1>8 DEF GatedNext, Annotate, Outage

-----------------------------------------------------------------------------
(* Theorems *)

LEMMA GatedInitInv ==
    ASSUME GatedInit
    PROVE  GatedInv
<1>1. IInv
  BY InitInv DEF GatedInit
<1>2. GateTypes
  BY DEF GatedInit, GateTypes, Policies
<1>3. KeptOut
  BY DEF GatedInit, Init, NoReconcile, KeptOut
<1> QED
  BY <1>1, <1>2, <1>3 DEF GatedInv

LEMMA GatedNextInv ==
    ASSUME GatedInv, [GatedNext]_gatedVars
    PROVE  GatedInv'
  BY ObjectInv, GateTypesInv, KeptOutInv DEF GatedInv

THEOREM GatedInvariance == GatedSpec => []GatedInv
<1>1. GatedInit => GatedInv
  BY GatedInitInv
<1>2. GatedInv /\ [GatedNext]_gatedVars => GatedInv'
  BY GatedNextInv
<1> QED
  BY <1>1, <1>2, PTL DEF GatedSpec

\* The types, at most one object of a name unless it is a webhook, and every id in
\* a status one that SonarQube gave away.
THEOREM GateTypeCorrect == GatedSpec => []GateTypeOK
<1>1. GatedInv => GateTypeOK
  BY TypesHold DEF GatedInv, GateTypes, GateTypeOK
<1> QED
  BY <1>1, GatedInvariance, PTL

\* Objects of all kinds are made only while the stored resource carries the
\* finalizer, however stale the informer's copy is and whatever users do.
THEOREM CreationIsGuarded == GatedSpec => CreatedUnderFinalizer
<1>1. GatedInv /\ [GatedNext]_gatedVars
        => [issued' > issued => cr.exists /\ cr.finalizer]_vars
  <2> SUFFICES ASSUME GatedInv, [GatedNext]_gatedVars, issued' > issued
               PROVE  cr.exists /\ cr.finalizer
    OBVIOUS
  <2>1. [Next]_vars
    BY MakingStep DEF GatedInv
  <2> QED
    BY <2>1, MadeUnderFinalizer DEF GatedInv
<1> QED
  BY <1>1, GatedInvariance, PTL DEF GatedSpec, CreatedUnderFinalizer

\* A deletion without a failed call on an instance that is there takes the recorded
\* object along, unless SonarQube keeps it: stale copies cannot break that.
THEOREM DeletionSettles == GatedSpec => RecordedDeleted
<1>1. GatedInv /\ [GatedNext]_gatedVars
        => [cr.finalizer /\ ~cr'.exists
              => \/ kind = "built-in"
                 \/ kind = "group" /\ objects = {}
                 \/ Recorded /\ cr.id \notin objects
                 \/ pr.kept
                 \/ budget.faults < MaxFaults \/ budget.turns < MaxTurns]_vars
  <2> SUFFICES ASSUME GatedInv, [GatedNext]_gatedVars, cr.finalizer, ~cr'.exists
               PROVE  \/ kind = "built-in"
                      \/ kind = "group" /\ objects = {}
                      \/ Recorded /\ cr.id \notin objects
                      \/ pr.kept
                      \/ budget.faults < MaxFaults \/ budget.turns < MaxTurns
    OBVIOUS
  <2>1. cr.exists
    BY Shapes DEF GatedInv, IInv, Child!Control, Child!NoRemains, Child!ResourceShape
  <2>2. [Next]_vars
    BY <2>1, StepsOfObject DEF Refuse, Annotate, Outage
  <2> QED
    BY <2>2, NothingLeft DEF GatedInv
<1> QED
  BY <1>1, GatedInvariance, PTL DEF GatedSpec, RecordedDeleted

\* The controllers never look at the list, and yet make nothing for a namespace
\* that is not on it while the webhook serves and the list stays as it is.
THEOREM GateHolds == GatedSpec => NothingForUnlisted
<1>1. GatedInv /\ [GatedNext]_gatedVars
        => [issued' > issued /\ policy = "unlisted"
              => budget.turns < MaxTurns \/ budget.faults < MaxFaults]_gatedVars
  <2> SUFFICES ASSUME GatedInv, [GatedNext]_gatedVars, issued' > issued, policy = "unlisted"
               PROVE  budget.turns < MaxTurns \/ budget.faults < MaxFaults
    OBVIOUS
  <2>1. pr.pc = "create"
    BY MakingStep, MadeByCreate DEF GatedInv
  <2>2. ~Clean
    BY <2>1 DEF GatedInv, KeptOut
  <2> QED
    BY <2>2, ObjectAssumption
    DEF GatedInv, IInv, Clean, Bounded, Child!ChildType, Child!Budgets
<1> QED
  BY <1>1, GatedInvariance, PTL DEF GatedSpec, NothingForUnlisted

=============================================================================
