------------------------ MODULE SonarQubeObject_proofs ------------------------
(***************************************************************************)
(* Proofs about the controllers of quality gates, groups, permission       *)
(* templates and webhooks, for all details and every bound: types and ids, *)
(* no object made outside a finalizer, none that is recorded left behind   *)
(* by a deletion without a mishap.  InstanceRefGate_proofs takes them to   *)
(* the system with the admission webhook in front.                         *)
(***************************************************************************)
EXTENDS SonarQubeObject, TLAPS, FiniteSetTheorems

-----------------------------------------------------------------------------
(* What ChildController does, for objects *)

Reconciles == [pc : Steps, object : Resource, fresh : BOOLEAN,
               seen : SUBSET Details, kept : BOOLEAN]

Child == INSTANCE ChildController_proofs WITH Resources <- Resource

LEMMA Shapes == Child!ResourceShape /\ Child!ReconcileShape
<1>1. /\ Absent \in Resource /\ ~Absent.exists /\ ~Absent.deleting /\ ~Absent.finalizer
      /\ NoReconcile \in Reconciles /\ NoReconcile.pc = "idle" /\ NoReconcile.fresh = FALSE
  BY DEF Absent, Resource, Wish, NoReconcile, Reconciles, Steps
<1>2. ASSUME NEW r \in Resource
      PROVE  /\ r.exists \in BOOLEAN /\ r.deleting \in BOOLEAN /\ r.finalizer \in BOOLEAN
             /\ \A b \in BOOLEAN : Child!Finalized(r, b)
             /\ Child!Doomed(r) /\ Child!Phased(r, "Pending") /\ Child!Phased(r, "Failed")
  BY DEF Resource, Child!Finalized, Child!Doomed, Child!Phased, Child!Alike
<1>3. ASSUME NEW r \in Reconciles
      PROVE  /\ r.pc \in Steps /\ r.object \in Resource /\ r.fresh \in BOOLEAN
             /\ \A step \in Steps : Child!Moved(r, step)
             /\ \A step \in Steps, b \in BOOLEAN : Child!MovedOn(r, step, b)
             /\ \A b \in BOOLEAN : Child!Aged(r, b)
  BY DEF Reconciles, Child!Moved, Child!MovedOn, Child!Aged
<1>4. ASSUME NEW step \in Steps, NEW object \in Resource, NEW b \in BOOLEAN
      PROVE  Child!PickedUp(step, object, b)
  BY <1>1 DEF Reconciles, Child!PickedUp
<1>5. Child!CommonSteps \subseteq Steps
  BY DEF Child!CommonSteps, Steps
<1> QED
  BY <1>1, <1>2, <1>3, <1>4, <1>5 DEF Child!ResourceShape, Child!ReconcileShape

\* The operators of the two instances of ChildController are the same.
LEMMA SameCalls ==
    /\ NoFault <=> Child!NoFault
    /\ Fault <=> Child!Fault
    /\ \A bound : Spend(bound) <=> Child!Spend(bound)
    /\ \A step : Proceed(step) <=> Child!Proceed(step)
    /\ \A new : UserWrites(new) <=> Child!UserWrites(new)
    /\ \A new, then, otherwise :
         OwnWrite(new, then, otherwise) <=> Child!OwnWrite(new, then, otherwise)
  BY DEF NoFault, Child!NoFault, Fault, Child!Fault, Spend, Child!Spend,
         Proceed, Child!Proceed, Write, Child!Write, UserWrites, Child!UserWrites,
         OwnWrite, Child!OwnWrite

LEMMA SameSteps ==
    /\ Route(pcache.object) = Child!Route(pcache.object)
    /\ PickUp <=> Child!PickUp
    /\ AddFinalizer <=> Child!AddFinalizer
    /\ PublishPhase <=> Child!PublishPhase
    /\ ReleaseFinalizer <=> Child!ReleaseFinalizer
    /\ UserDeletes <=> Child!UserDeletes
    /\ SyncResource <=> Child!SyncResource
    /\ InstanceTurns <=> Child!InstanceTurns
    /\ Restart <=> Child!Restart
<1>1. Route(pcache.object) = Child!Route(pcache.object)
  BY DEF Route, Child!Route
<1>2. PickUp <=> Child!PickUp
  BY <1>1, SameCalls DEF PickUp, Child!PickUp, At, Child!At
<1>3. /\ AddFinalizer <=> Child!AddFinalizer
      /\ PublishPhase <=> Child!PublishPhase
      /\ ReleaseFinalizer <=> Child!ReleaseFinalizer
  BY SameCalls
  DEF AddFinalizer, Child!AddFinalizer, PublishPhase, Child!PublishPhase,
      ReleaseFinalizer, Child!ReleaseFinalizer, At, Child!At
<1>4. UserDeletes <=> Child!UserDeletes
  BY SameCalls DEF UserDeletes, Child!UserDeletes, Editable, Child!Editable
<1>5. /\ SyncResource <=> Child!SyncResource
      /\ InstanceTurns <=> Child!InstanceTurns
      /\ Restart <=> Child!Restart
  BY SameCalls
  DEF SyncResource, Child!SyncResource, InstanceTurns, Child!InstanceTurns,
      Restart, Child!Restart, Catch, Child!Catch
<1> QED
  BY <1>1, <1>2, <1>3, <1>4, <1>5

-----------------------------------------------------------------------------
(* The inductive invariant *)

\* The objects of SonarQube.  Only webhooks share a name.
OwnTypes ==
    /\ kind \in Kinds
    /\ issued \in Nat /\ objects \subseteq 1 .. issued
    /\ content \subseteq Details /\ default \in BOOLEAN
    /\ kind # "webhook" => \A a, b \in objects : a = b

\* Ids that were given away, of kinds whose status has one.
Known(id) == id \in 0 .. issued /\ (id # 0 => Recorded)

Ids ==
    /\ Known(cr.id) /\ Known(pcache.object.id) /\ Known(pr.object.id)
    /\ kind = "webhook" /\ pr.pc = "create" => pr.object.id = 0

\* A deletion whose last write is accepted went by the id in the status.
DeletedByRecord ==
    pr.fresh /\ pr.pc \in {"delete", "release"} => pr.object.id = cr.id

Bounded == budget.faults <= MaxFaults /\ budget.turns <= MaxTurns

\* Nothing was lost and the instance was always there.
Clean == budget.faults = MaxFaults /\ budget.turns = MaxTurns

\* What deleteObject leaves, if the call did not fail.
Left ==
    \/ pr.kept \/ kind = "built-in"
    \/ kind = "group" /\ objects = {}
    \/ Recorded /\ pr.object.id \notin objects

\* Then the finalizer is released after that.
Settled == Clean => instance = "Ready" /\ (pr.pc = "release" => Left)

IInv ==
    /\ Child!ChildType /\ OwnTypes /\ Ids /\ Child!Control
    /\ DeletedByRecord /\ Bounded /\ Settled

LEMMA TypesHold == IInv => ObjectTypeOK
<1> SUFFICES ASSUME IInv PROVE ObjectTypeOK
  OBVIOUS
<1> USE DEF IInv
<1>1. ASSUME kind # "webhook" PROVE Cardinality(objects) <= 1
  <2>1. CASE objects = {}
    BY <2>1, FS_EmptySet
  <2>2. CASE objects # {}
    <3>1. PICK id \in objects : objects = {id}
      BY <1>1, <2>2 DEF OwnTypes
    <3>2. Cardinality({id}) = 1
      BY FS_Singleton
    <3> QED
      BY <3>1, <3>2
  <2> QED
    BY <2>1, <2>2
<1>2. /\ {cr, pcache.object, pr.object} \subseteq Resource
      /\ pcache.fresh \in BOOLEAN /\ pr.fresh \in BOOLEAN
      /\ instance \in {"Ready", "NotReady", "Gone"}
      /\ pr.pc \in Steps /\ pr.seen \subseteq Details /\ pr.kept \in BOOLEAN
      /\ budget \in [faults : Nat, lags : Nat, edits : Nat, turns : Nat]
  BY DEF Child!ChildType, Child!Copies, Child!Budgets, Reconciles
<1> QED
  BY <1>1, <1>2 DEF OwnTypes, Ids, Known, ObjectTypeOK

-----------------------------------------------------------------------------
(* Lemmas *)

\* What a step may spend, in either instance of ChildController.
Spent == NoFault \/ Fault \/ Spend("lags") \/ Spend("edits") \/ Spend("turns")

LEMMA BudgetSpent ==
    ASSUME budget \in Child!Budgets, Spent
    PROVE  /\ budget' \in Child!Budgets
           /\ budget'.faults <= budget.faults /\ budget'.turns <= budget.turns
  BY SameCalls, Child!BudgetEffect DEF Spent

LEMMA BoundedKept ==
    ASSUME IInv, Spent
    PROVE  Bounded' /\ (Clean' => Clean)
  BY BudgetSpent, ObjectAssumption
  DEF IInv, Child!ChildType, Child!Budgets, Bounded, Clean

\* A fault, and a turn of the instance, end what is promised.
LEMMA FaultSpoils ==
    ASSUME IInv, Fault \/ Spend("turns")
    PROVE  ~Clean'
  BY ObjectAssumption DEF IInv, Child!ChildType, Child!Budgets, Bounded, Clean, Fault, Spend

\* Going on to another step changes nothing else about the reconcile.
LEMMA Proceeds ==
    ASSUME Child!ChildType, NEW step \in Steps, Proceed(step)
    PROVE  /\ pr' \in Reconciles /\ pr'.pc = step
           /\ step # "idle" => pr'.fresh = pr.fresh /\ pr'.object = pr.object
           /\ step = "idle" => pr'.fresh = FALSE /\ pr'.object = Absent
<1>1. /\ pr' \in Reconciles /\ pr'.pc = step
      /\ step # "idle" => pr'.fresh = pr.fresh /\ pr'.object = pr.object
      /\ step = "idle" => pr'.fresh = FALSE
  BY Shapes, SameCalls, Child!ProceedEffect DEF Child!ChildType
<1> QED
  BY <1>1 DEF Proceed, NoReconcile

\* There is nothing to say of no resource.
LEMMA AbsentKnown == issued \in Nat => Known(Absent.id)
  BY DEF Known, Absent

\* A step on SonarQube leaves the resource, the informer and the instance alone
\* and goes on with the same work or ends it.
LEMMA WorkKeeps ==
    ASSUME IInv, UNCHANGED <<cr, pcache, instance>>, Spent, pr' \in Reconciles,
           \/ pr'.pc \in {"idle", "failed"}
           \/ Child!Working /\ Child!Working'
    PROVE  Child!ChildType' /\ Child!Control' /\ Bounded' /\ DeletedByRecord' /\ Settled'
<1>1. Child!Control'
  BY Child!ControlKept DEF IInv
<1>2. Child!ChildType' /\ Bounded' /\ (Clean' => Clean)
  BY BudgetSpent, BoundedKept DEF IInv, Child!ChildType
<1>3. pr'.pc \notin {"delete", "release"}
  BY DEF Child!Working
<1> QED
  BY <1>1, <1>2, <1>3 DEF IInv, DeletedByRecord, Settled

\* The ids that somebody knows, and the empty one.
OldIds == {0, cr.id, pcache.object.id, pr.object.id}

\* Ids stay known; only a reconcile learns of new ones.
LEMMA IdsKept ==
    ASSUME IInv, UNCHANGED kind, issued' \in Nat, issued' >= issued,
           cr'.id \in OldIds, pcache'.object.id \in OldIds,
           pr'.object.id \in OldIds \/ Known(pr.object.id)',
           pr'.pc = "create" /\ kind = "webhook" => pr'.object.id = 0
    PROVE  Ids'
<1>1. ASSUME NEW id \in OldIds
      PROVE  id \in 0 .. issued' /\ (id # 0 => Recorded')
  BY DEF IInv, OwnTypes, Ids, OldIds, Known, Recorded
<1> QED
  BY <1>1 DEF Ids, Known

-----------------------------------------------------------------------------
(* One lemma per step of the reconcile: it preserves the invariant *)

USE DEF At

LEMMA StartInv ==
    ASSUME IInv, Start
    PROVE  IInv'
<1> USE DEF IInv
<1>1. UNCHANGED <<kind, cr, pcache, objectVars, instance>> /\ Child!PickUp
  BY SameSteps DEF Start, PickUp
<1>2. /\ Child!ChildType' /\ Child!Control'
      /\ pr'.object = pcache.object
      /\ pr'.pc \in {"pending", "finalizer", "get", "delete", "release"}
      /\ pr'.fresh => pr'.object = cr
      /\ pr'.pc = "release" => instance # "Ready"
      /\ Child!NoFault \/ Child!Spend("lags")
  BY <1>1, Shapes, Child!PickUpEffect
<1>3. Spent
  BY <1>2, SameCalls DEF Spent
<1>4. OwnTypes'
  BY <1>1 DEF OwnTypes, objectVars
<1>5. Ids'
  BY <1>1, <1>2, IdsKept DEF OldIds, objectVars, OwnTypes
<1>6. DeletedByRecord' /\ Bounded' /\ Settled'
  BY <1>1, <1>2, <1>3, BoundedKept DEF DeletedByRecord, Settled
<1> QED
  BY <1>2, <1>4, <1>5, <1>6

LEMMA LifecycleInv ==
    ASSUME IInv, Lifecycle
    PROVE  IInv'
<1> USE DEF IInv
<1>1. UNCHANGED <<kind, objectVars, instance>>
  BY DEF Lifecycle, Conclude, AddFinalizer, PublishPhase, ReleaseFinalizer
<1>2. OwnTypes'
  BY <1>1 DEF OwnTypes, objectVars
<1>3. /\ Child!ChildType' /\ Child!Control'
      /\ pr'.pc \in {"get", "idle"}
      /\ pr'.pc = "get" => pr'.object = pr.object
      /\ \/ cr' = cr \/ cr' = Absent
         \/ \E b \in BOOLEAN : cr' = [cr EXCEPT !.finalizer = b]
         \/ \E phase \in {"Pending", "Failed"} : cr' = [cr EXCEPT !.phase = phase]
      /\ Child!NoFault \/ Child!Fault
  BY Shapes, SameSteps, Child!AddFinalizerEffect, Child!PublishPhaseEffect,
     Child!ReleaseFinalizerEffect
  DEF Lifecycle, Conclude
<1>4. Spent
  BY <1>3, SameCalls DEF Spent
<1>5. cr'.id \in OldIds
  BY <1>3 DEF Child!ChildType, Resource, Absent, OldIds
<1>6. pcache'.object = pcache.object
  BY DEF Lifecycle, Conclude, AddFinalizer, PublishPhase, ReleaseFinalizer, OwnWrite,
         Write, Child!ChildType, Child!Copies
<1>7. pr'.object = pr.object \/ pr'.object = Absent
  <2>1. pr' = NoReconcile \/ pr' = [pr EXCEPT !.pc = "get"]
    <3>1. \A new : OwnWrite(new, "get", "idle") \/ OwnWrite(new, "idle", "idle")
                     => pr' = NoReconcile \/ pr' = [pr EXCEPT !.pc = "get"]
      BY DEF OwnWrite, Proceed
    <3> QED
      BY <3>1 DEF Lifecycle, Conclude, AddFinalizer, PublishPhase, ReleaseFinalizer
  <2> QED
    BY <2>1 DEF NoReconcile, Child!ChildType, Reconciles
<1>8. Ids'
  BY <1>1, <1>3, <1>5, <1>6, <1>7, IdsKept DEF OldIds, objectVars, OwnTypes, Absent
<1>9. DeletedByRecord' /\ Bounded' /\ Settled'
  BY <1>1, <1>3, <1>4, BoundedKept DEF DeletedByRecord, Settled
<1> QED
  BY <1>2, <1>3, <1>8, <1>9

\* Work on SonarQube that leaves the objects and the id in memory as they are.
LEMMA SameObjects ==
    ASSUME IInv, UNCHANGED <<kind, cr, pcache, instance, objects, issued>>, Spent,
           content' \subseteq Details, default' \in BOOLEAN, Child!Working,
           pr' \in Reconciles,
           pr'.pc \in {"idle", "failed"} \/ Child!Working',
           pr'.object.id \in OldIds \/ Known(pr.object.id)',
           pr'.pc = "create" /\ kind = "webhook" => pr'.object.id = 0
    PROVE  IInv'
<1>1. Child!ChildType' /\ Child!Control' /\ Bounded' /\ DeletedByRecord' /\ Settled'
  BY WorkKeeps
<1>2. OwnTypes'
  BY DEF IInv, OwnTypes
<1>3. Ids'
  BY IdsKept DEF IInv, OwnTypes, OldIds
<1> QED
  BY <1>1, <1>2, <1>3 DEF IInv

LEMMA LookUpInv ==
    ASSUME IInv, LookUp
    PROVE  IInv'
<1> USE DEF IInv
<1>1. /\ UNCHANGED <<kind, cr, pcache, instance, objectVars>>
      /\ Spent /\ pr.pc = "get" /\ kind # "webhook"
      /\ content' \subseteq Details /\ default' \in BOOLEAN
  BY DEF LookUp, CallFails, Spent, objectVars, OwnTypes
<1>2. ASSUME NEW step \in {"create", "idle"}, Proceed(step)
      PROVE  IInv'
  <2>1. /\ pr' \in Reconciles /\ pr'.pc = step
        /\ pr'.object = pr.object \/ pr'.object = Absent
    BY <1>2, Proceeds DEF Steps
  <2>2. pr'.object.id \in OldIds
    BY <2>1 DEF OldIds, Absent
  <2> QED
    BY <1>1, <2>1, <2>2, SameObjects DEF Child!Working, objectVars
<1>3. ASSUME objects # {},
             pr' = [pr EXCEPT !.pc = "adjust", !.seen = content,
                              !.object.id = IF Recorded THEN Newest ELSE 0]
      PROVE  IInv'
  <2>1. Newest \in objects /\ Newest \in 0 .. issued /\ Newest \in Nat
    <3>1. PICK id \in objects : \A other \in objects : other = id
      BY <1>1, <1>3 DEF OwnTypes
    <3>2. id \in Nat /\ \A other \in objects : other <= id
      BY <3>1 DEF OwnTypes
    <3>3. Newest \in objects
      BY <3>1, <3>2 DEF Newest
    <3> QED
      BY <3>3 DEF OwnTypes
  <2>2. /\ pr' \in Reconciles /\ pr'.pc = "adjust"
        /\ pr'.object.id = IF Recorded THEN Newest ELSE 0
    BY <1>3, <2>1 DEF Child!ChildType, Reconciles, Resource, Steps, OwnTypes
  <2>3. Known(pr.object.id)'
    BY <1>1, <2>1, <2>2 DEF Known, Recorded, objectVars, OwnTypes
  <2> QED
    BY <1>1, <2>2, <2>3, SameObjects DEF Child!Working, objectVars
<1>4. \/ Proceed("create") \/ Proceed("idle")
      \/ /\ objects # {}
         /\ pr' = [pr EXCEPT !.pc = "adjust", !.seen = content,
                             !.object.id = IF Recorded THEN Newest ELSE 0]
  BY DEF LookUp
<1> QED
  BY <1>2, <1>3, <1>4

LEMMA LookUpWebhookInv ==
    ASSUME IInv, LookUpWebhook
    PROVE  IInv'
<1> USE DEF IInv
<1>1. /\ UNCHANGED <<kind, cr, pcache, instance, objectVars>>
      /\ Spent /\ pr.pc = "get"
      /\ content' \subseteq Details /\ default' \in BOOLEAN
  BY DEF LookUpWebhook, Spent, objectVars, OwnTypes
<1>2. PICK step \in {"create", "ready", "idle"} :
        Proceed(step) /\ (step = "create" => pr.object.id = 0)
  BY DEF LookUpWebhook
<1>3. /\ pr' \in Reconciles /\ pr'.pc = step
      /\ pr'.object = Absent \/ pr'.object = pr.object
      /\ step = "create" => pr'.object = pr.object
  BY <1>2, Proceeds DEF Steps
<1>4. pr'.object.id \in OldIds
  BY <1>3 DEF OldIds, Absent
<1> QED
  BY <1>1, <1>2, <1>3, <1>4, SameObjects DEF Child!Working, objectVars

\* An object made gets the next id, and a second one only if it is a webhook.
LEMMA CreatedTypes ==
    ASSUME OwnTypes, pr \in Reconciles, UNCHANGED kind, Created(issued + 1),
           kind = "webhook" \/ objects = {}
    PROVE  OwnTypes' /\ issued' = issued + 1
<1>1. issued' = issued + 1 /\ objects' = objects \cup {issued + 1}
  BY DEF Created
<1>2. issued' \in Nat /\ objects' \subseteq 1 .. issued'
  BY <1>1 DEF OwnTypes
<1>3. content' \subseteq Details /\ default' \in BOOLEAN
  BY DEF Created, Wanted, Reconciles, Resource, Wish
<1>4. kind' # "webhook" => \A a, b \in objects' : a = b
  BY <1>1
<1> QED
  BY <1>1, <1>2, <1>3, <1>4 DEF OwnTypes

LEMMA CreateInv ==
    ASSUME IInv, Create
    PROVE  IInv'
<1> USE DEF IInv
<1>1. /\ UNCHANGED <<kind, cr, pcache, instance>> /\ pr \in Reconciles
      /\ Spent /\ pr.pc = "create" /\ kind # "webhook"
  BY DEF Create, CallFails, Spent, Child!ChildType
<1>2. CASE UNCHANGED objectVars /\ Proceed("failed")
  <2>1. pr' \in Reconciles /\ pr'.pc = "failed" /\ pr'.object = pr.object
    BY <1>2, Proceeds DEF Steps
  <2> QED
    BY <1>1, <1>2, <2>1, SameObjects DEF Child!Working, objectVars, OwnTypes, OldIds
<1>3. ASSUME objects = {}, Created(issued + 1), pr' \in Reconciles,
             pr'.pc \in {"failed", "adjust", "default"},
             pr'.object.id = pr.object.id \/ pr'.object.id = IF Recorded THEN issued' ELSE 0
      PROVE  IInv'
  <2>1. OwnTypes' /\ issued' = issued + 1
    BY <1>1, <1>3, CreatedTypes
  <2>2. Child!ChildType' /\ Child!Control' /\ Bounded' /\ DeletedByRecord' /\ Settled'
    BY <1>1, <1>3, WorkKeeps DEF Child!Working
  <2>3. issued' \in Nat /\ issued' >= issued
    BY <2>1 DEF OwnTypes
  <2>4. pr'.object.id \in OldIds \/ Known(pr.object.id)'
    BY <1>1, <1>3, <2>3 DEF OldIds, Known, Recorded
  <2>5. Ids'
    BY <1>1, <1>3, <2>3, <2>4, IdsKept DEF OldIds
  <2> QED
    BY <2>1, <2>2, <2>5
<1>4. CASE objects = {} /\ Created(issued + 1) /\ Proceed("failed")
  <2>1. pr' \in Reconciles /\ pr'.pc = "failed" /\ pr'.object = pr.object
    BY <1>4, Proceeds DEF Steps
  <2> QED
    BY <1>3, <1>4, <2>1
<1>5. CASE /\ objects = {} /\ Created(issued + 1)
           /\ pr' = [pr EXCEPT !.pc = IF kind = "gate" THEN "adjust" ELSE "default",
                               !.seen = {}, !.object.id = IF Recorded THEN issued' ELSE 0]
  <2>1. issued' \in Nat
    BY <1>5 DEF Created, OwnTypes
  <2>2. /\ pr' \in Reconciles /\ pr'.pc \in {"adjust", "default"}
        /\ pr'.object.id = IF Recorded THEN issued' ELSE 0
    BY <1>1, <1>5, <2>1 DEF Reconciles, Resource, Steps
  <2> QED
    BY <1>3, <1>5, <2>2
<1> QED
  BY <1>2, <1>4, <1>5 DEF Create

LEMMA CreateWebhookInv ==
    ASSUME IInv, CreateWebhook
    PROVE  IInv'
<1> USE DEF IInv
<1>1. /\ UNCHANGED <<kind, cr, pcache, instance>> /\ pr \in Reconciles
      /\ Spent /\ pr.pc = "create" /\ kind = "webhook"
  BY DEF CreateWebhook, CallFails, Spent, Child!ChildType
<1>2. CASE UNCHANGED objectVars /\ Proceed("failed")
  <2>1. pr' \in Reconciles /\ pr'.pc = "failed" /\ pr'.object = pr.object
    BY <1>2, Proceeds DEF Steps
  <2> QED
    BY <1>1, <1>2, <2>1, SameObjects DEF Child!Working, objectVars, OwnTypes, OldIds
<1>3. ASSUME OwnTypes', issued' >= issued, pr' \in Reconciles, pr'.pc \in {"failed", "ready"},
             pr'.object.id \in {pr.object.id, issued'}
      PROVE  IInv'
  <2>1. Child!ChildType' /\ Child!Control' /\ Bounded' /\ DeletedByRecord' /\ Settled'
    BY <1>1, <1>3, WorkKeeps DEF Child!Working
  <2>2. pr'.object.id \in OldIds \/ Known(pr.object.id)'
    BY <1>1, <1>3 DEF OldIds, Known, Recorded, OwnTypes
  <2>3. Ids'
    BY <1>1, <1>3, <2>2, IdsKept DEF OldIds, OwnTypes
  <2> QED
    BY <1>3, <2>1, <2>3
<1>4. CASE /\ Created(issued + 1)
           /\ \/ Proceed("failed")
              \/ pr' = [pr EXCEPT !.pc = "ready", !.object.id = issued']
  <2>1. OwnTypes' /\ issued' = issued + 1 /\ issued' \in Nat /\ issued' >= issued
    BY <1>1, <1>4, CreatedTypes DEF OwnTypes
  <2>2. CASE Proceed("failed")
    <3>1. pr' \in Reconciles /\ pr'.pc = "failed" /\ pr'.object = pr.object
      BY <2>2, Proceeds DEF Steps
    <3> QED
      BY <1>3, <2>1, <3>1
  <2>3. CASE pr' = [pr EXCEPT !.pc = "ready", !.object.id = issued']
    <3>1. pr' \in Reconciles /\ pr'.pc = "ready" /\ pr'.object.id = issued'
      BY <1>1, <2>1, <2>3 DEF Reconciles, Resource, Steps
    <3> QED
      BY <1>3, <2>1, <3>1
  <2> QED
    BY <1>4, <2>2, <2>3
<1>5. CASE /\ issued' = issued + 2 /\ objects' = objects \cup {issued + 1, issued + 2}
           /\ pr' = [pr EXCEPT !.pc = "ready", !.object.id = issued']
           /\ UNCHANGED <<content, default>>
  <2>1. issued' \in Nat /\ issued' >= issued /\ OwnTypes'
    BY <1>1, <1>5 DEF OwnTypes
  <2>2. pr' \in Reconciles /\ pr'.pc = "ready" /\ pr'.object.id = issued'
    BY <1>1, <1>5, <2>1 DEF Reconciles, Resource, Steps
  <2> QED
    BY <1>3, <2>1, <2>2
<1> QED
  BY <1>2, <1>4, <1>5 DEF CreateWebhook

LEMMA ReconcileConditionsInv ==
    ASSUME IInv, ReconcileConditions
    PROVE  IInv'
<1> USE DEF IInv
<1>1. /\ UNCHANGED <<kind, cr, pcache, instance, objects, issued, default>>
      /\ Spent /\ pr.pc = "adjust"
      /\ Proceed("default") \/ Proceed("failed")
      /\ \E done : Reconciled(done)
  BY DEF ReconcileConditions, CallFails, Spent
<1>2. /\ pr' \in Reconciles /\ pr'.pc \in {"default", "failed"}
      /\ pr'.object = pr.object
  BY <1>1, Proceeds DEF Steps
<1>3. content' \subseteq Details /\ default' \in BOOLEAN
  BY <1>1 DEF Reconciled, Removals, Additions, Wanted, OwnTypes, Child!ChildType,
              Reconciles, Resource, Wish
<1> QED
  BY <1>1, <1>2, <1>3, SameObjects DEF Child!Working, OldIds

LEMMA SyncDescriptionInv ==
    ASSUME IInv, SyncDescription
    PROVE  IInv'
<1> USE DEF IInv
<1>1. /\ UNCHANGED <<kind, cr, pcache, instance, objects, issued, default>>
      /\ Spent /\ pr.pc = "adjust" /\ Proceed("default")
      /\ UNCHANGED content \/ content' = Wanted.details
  BY DEF SyncDescription, CallFails, Spent
<1>2. pr' \in Reconciles /\ pr'.pc = "default" /\ pr'.object = pr.object
  BY <1>1, Proceeds DEF Steps
<1>3. content' \subseteq Details /\ default' \in BOOLEAN
  BY <1>1 DEF Wanted, OwnTypes, Child!ChildType, Reconciles, Resource, Wish
<1> QED
  BY <1>1, <1>2, <1>3, SameObjects DEF Child!Working, OldIds

LEMMA SetDefaultInv ==
    ASSUME IInv, SetDefault
    PROVE  IInv'
<1> USE DEF IInv
<1>1. /\ UNCHANGED <<kind, cr, pcache, instance, objects, issued, content>>
      /\ Spent /\ pr.pc = "default" /\ Proceed("ready")
      /\ UNCHANGED default \/ default' = TRUE
  BY DEF SetDefault, CallFails, Spent
<1>2. pr' \in Reconciles /\ pr'.pc = "ready" /\ pr'.object = pr.object
  BY <1>1, Proceeds DEF Steps
<1>3. content' \subseteq Details /\ default' \in BOOLEAN
  BY <1>1 DEF OwnTypes
<1> QED
  BY <1>1, <1>2, <1>3, SameObjects DEF Child!Working, OldIds

LEMMA PublishReadyInv ==
    ASSUME IInv, PublishReady
    PROVE  IInv'
<1> USE DEF IInv
<1> DEFINE new == [cr EXCEPT !.phase = "Ready", !.id = pr.object.id]
<1>1. /\ UNCHANGED <<kind, instance, objectVars>> /\ pr.pc = "ready"
      /\ OwnWrite(new, "idle", "idle")
  BY DEF PublishReady
<1>2. /\ new \in Resource /\ Child!Alike(new, cr) /\ new.id = pr.object.id
  BY DEF Child!ChildType, Reconciles, Resource, Child!Alike
<1> HIDE DEF new
<1>3. Child!OwnWrite(new, "idle", "idle") /\ UNCHANGED instance
  BY <1>1, SameCalls
<1>4. /\ Child!ChildType' /\ Child!Control'
      /\ pr'.pc = "idle" /\ pr'.fresh = FALSE
      /\ cr' = cr \/ cr' = new
      /\ Child!NoFault \/ Child!Fault
  BY <1>2, <1>3, Shapes, Child!StatusWriteEffect
<1>5. Spent
  BY <1>4, SameCalls DEF Spent
<1>6. pr' = NoReconcile /\ pcache'.object = pcache.object
  BY <1>1 DEF OwnWrite, Proceed, Write, Child!ChildType, Child!Copies
<1>7. OwnTypes'
  BY <1>1 DEF OwnTypes, objectVars
<1>8. Ids'
  BY <1>1, <1>2, <1>4, <1>6, IdsKept DEF OldIds, OwnTypes, objectVars, NoReconcile, Absent
<1>9. DeletedByRecord' /\ Bounded' /\ Settled'
  BY <1>1, <1>4, <1>5, BoundedKept DEF DeletedByRecord, Settled
<1> QED
  BY <1>4, <1>7, <1>8, <1>9

LEMMA DeletedTypes ==
    ASSUME OwnTypes, UNCHANGED kind, NEW ids, Deleted(ids)
    PROVE  OwnTypes' /\ objects' = objects \ ids /\ UNCHANGED issued
<1>1. objects' = objects \ ids /\ UNCHANGED issued
  BY DEF Deleted
<1>2. content' \subseteq Details /\ default' \in BOOLEAN
  BY DEF Deleted, OwnTypes
<1> QED
  BY <1>1, <1>2 DEF OwnTypes

LEMMA DeleteObjectInv ==
    ASSUME IInv, DeleteObject
    PROVE  IInv'
<1> USE DEF IInv
<1>1. /\ UNCHANGED <<kind, cr, pcache, instance>> /\ Spent /\ pr.pc = "delete"
      /\ pr' = [pr EXCEPT !.pc = "release", !.kept = kind = "gate" /\ default]
  BY DEF DeleteObject, CallFails, Spent
<1>2. /\ pr' \in Reconciles /\ pr'.pc = "release" /\ pr'.fresh = pr.fresh
      /\ pr'.object = pr.object /\ pr'.kept = (kind = "gate" /\ default)
  BY <1>1 DEF Child!ChildType, Reconciles, Steps
<1>3. Child!Control'
  BY <1>1, <1>2, Child!ControlKept
<1>4. Child!ChildType' /\ Bounded' /\ (Clean' => Clean)
  BY <1>1, <1>2, BudgetSpent, BoundedKept DEF Child!ChildType
<1>5. OwnTypes' /\ UNCHANGED issued
  <2>1. CASE UNCHANGED objectVars
    BY <1>1, <2>1 DEF OwnTypes, objectVars
  <2>2. CASE Deleted(Doomed)
    BY <1>1, <2>2, DeletedTypes
  <2> QED
    BY <2>1, <2>2 DEF DeleteObject
<1>6. Ids' /\ DeletedByRecord'
  BY <1>1, <1>2, <1>5, IdsKept DEF OldIds, OwnTypes, DeletedByRecord
<1>7. Settled'
  <2>1. CASE Deleted(Doomed)
    <3>1. objects' = objects \ Doomed
      BY <2>1 DEF Deleted
    <3>2. Left'
      BY <1>1, <1>2, <3>1 DEF Left, Doomed, Recorded, OwnTypes, Kinds
    <3> QED
      BY <1>1, <1>4, <3>2 DEF Settled
  <2>2. CASE Fault
    BY <2>2, FaultSpoils DEF Settled
  <2>3. CASE instance # "Ready" /\ NoFault
    BY <1>4, <2>3 DEF Settled
  <2>4. CASE ~Deletable /\ UNCHANGED objectVars
    <3>1. Left'
      BY <1>1, <1>2, <2>4
      DEF Left, Deletable, Doomed, Recorded, OwnTypes, Kinds, objectVars
    <3> QED
      BY <1>1, <1>4, <3>1 DEF Settled
  <2> QED
    BY <2>1, <2>2, <2>3, <2>4 DEF DeleteObject, CallFails
<1> QED
  BY <1>3, <1>4, <1>5, <1>6, <1>7

-----------------------------------------------------------------------------
(* The surroundings preserve the invariant *)

\* A user's write: the reconcile in flight goes on with what it has.
LEMMA WrittenInv ==
    ASSUME IInv, Child!ChildType', Child!Control', Spent,
           UNCHANGED <<kind, instance, objectVars>>, UNCHANGED pcache \/ pcache'.object = pcache.object,
           cr'.id \in OldIds,
           pr'.pc = pr.pc, pr'.object = pr.object, pr'.kept = pr.kept,
           pr'.fresh => pr.fresh /\ cr' = cr
    PROVE  IInv'
<1> USE DEF IInv
<1>1. OwnTypes'
  BY DEF OwnTypes, objectVars
<1>2. Ids'
  BY IdsKept DEF Ids, OldIds, OwnTypes, objectVars
<1>3. DeletedByRecord' /\ Bounded' /\ Settled'
  BY BoundedKept DEF DeletedByRecord, Settled, Left, Recorded, objectVars
<1> QED
  BY <1>1, <1>2, <1>3

LEMMA UserAppliesInv ==
    ASSUME IInv, UserApplies
    PROVE  IInv'
<1> USE DEF IInv
<1>1. /\ Spent /\ UNCHANGED <<kind, instance, objectVars>>
      /\ budget' \in Child!Budgets
  BY BudgetSpent DEF UserApplies, Spent, Child!ChildType
<1>2. ASSUME NEW new \in Resource, UserWrites(new), new.id \in OldIds,
             \/ ~cr.exists /\ new.exists /\ ~new.finalizer /\ ~new.deleting
             \/ /\ cr.exists /\ new.exists /\ new.finalizer = cr.finalizer
                /\ new.deleting = cr.deleting
      PROVE  IInv'
  <2>1. Child!UserWrites(new)
    BY <1>2, SameCalls
  <2>2. /\ Child!ChildType' /\ Child!Control' /\ cr' = new
        /\ pr'.pc = pr.pc /\ pr'.object = pr.object /\ (pr'.fresh => pr.fresh /\ cr' = cr)
    BY <1>1, <1>2, <2>1, Shapes, Child!UserWritesEffect
  <2>3. pr'.kept = pr.kept /\ pcache'.object = pcache.object
    BY <1>2 DEF UserWrites, Write, Child!ChildType, Child!Copies, Reconciles
  <2> QED
    BY <1>1, <1>2, <2>2, <2>3, WrittenInv
<1>3. ASSUME ~cr.exists, NEW wish \in Wishes, UserWrites(Demanded(wish))
      PROVE  IInv'
  <2> DEFINE new == Demanded(wish)
  <2>1. /\ new \in Resource /\ new.id = 0
        /\ new.exists /\ ~new.finalizer /\ ~new.deleting
    BY ObjectAssumption DEF Demanded, Absent, Resource
  <2> HIDE DEF new
  <2>2. UserWrites(new)
    BY <1>3 DEF new
  <2> QED
    BY <1>2, <1>3, <2>1, <2>2 DEF OldIds
<1>4. ASSUME Editable, NEW wish \in Wishes, UserWrites([cr EXCEPT !.spec = wish])
      PROVE  IInv'
  <2> DEFINE new == [cr EXCEPT !.spec = wish]
  <2>1. /\ new \in Resource /\ new.id = cr.id /\ new.exists = cr.exists
        /\ new.deleting = cr.deleting /\ new.finalizer = cr.finalizer
    BY ObjectAssumption DEF Resource, Child!ChildType
  <2> HIDE DEF new
  <2>2. UserWrites(new) /\ cr.exists
    BY <1>4 DEF new, Editable
  <2> QED
    BY <1>2, <2>1, <2>2 DEF OldIds
<1> QED
  BY <1>3, <1>4 DEF UserApplies

LEMMA UserRemovesInv ==
    ASSUME IInv, UserRemoves
    PROVE  IInv'
<1> USE DEF IInv
<1>1. /\ Spent /\ UNCHANGED <<kind, instance, objectVars>>
      /\ budget' \in Child!Budgets /\ UserDeletes
  BY BudgetSpent DEF UserRemoves, Spent, Child!ChildType
<1>2. /\ Child!ChildType' /\ Child!Control'
      /\ pr'.pc = pr.pc /\ pr'.object = pr.object /\ (pr'.fresh => pr.fresh /\ cr' = cr)
      /\ cr' = [cr EXCEPT !.deleting = TRUE] \/ cr' = Absent
  BY <1>1, SameSteps, Shapes, Child!UserDeletesEffect
<1>3. pr'.kept = pr.kept /\ pcache'.object = pcache.object
  BY <1>1 DEF UserDeletes, UserWrites, Write, Child!ChildType, Child!Copies, Reconciles
<1>4. cr'.id \in OldIds
  BY <1>2 DEF OldIds, Absent, Child!ChildType, Resource
<1> QED
  BY <1>1, <1>2, <1>3, <1>4, WrittenInv

\* SonarQube's administrators take objects away and make none.
LEMMA ChangeInUIInv ==
    ASSUME IInv, ChangeInUI
    PROVE  IInv'
<1> USE DEF IInv
<1>1. UNCHANGED <<kind, cr, pcache, instance, pr>> /\ Spent
  BY DEF ChangeInUI, Spent
<1>2. OwnTypes' /\ UNCHANGED issued /\ objects' \subseteq objects
  <2>1. CASE Deleted(objects)
    BY <1>1, <2>1, DeletedTypes
  <2>2. CASE /\ \E d \in Details :
                  content' = IF d \in content THEN content \ {d} ELSE content \cup {d}
             /\ UNCHANGED <<objects, issued, default>>
    BY <1>1, <2>2 DEF OwnTypes
  <2>3. CASE default' = ~default /\ UNCHANGED <<objects, issued, content>>
    BY <1>1, <2>3 DEF OwnTypes
  <2> QED
    BY <2>1, <2>2, <2>3 DEF ChangeInUI
<1>3. Child!ChildType' /\ Child!Control'
  BY <1>1, BudgetSpent, Child!ControlKept DEF Child!ChildType
<1>4. Ids'
  BY <1>1, <1>2 DEF Ids, Known, Recorded
<1>5. DeletedByRecord' /\ Bounded' /\ Settled'
  BY <1>1, <1>2, BoundedKept DEF DeletedByRecord, Settled, Left, Recorded
<1> QED
  BY <1>2, <1>3, <1>4, <1>5

LEMMA SyncInv ==
    ASSUME IInv, Sync
    PROVE  IInv'
<1> USE DEF IInv
<1>1. /\ Child!ChildType' /\ Child!Control' /\ UNCHANGED <<cr, instance, pr, budget>>
      /\ UNCHANGED <<kind, objectVars>> /\ pcache'.object = cr
  BY SameSteps, Child!SyncResourceEffect DEF Sync
<1>2. OwnTypes' /\ Ids'
  BY <1>1 DEF OwnTypes, objectVars, Ids, Known, Recorded
<1>3. DeletedByRecord' /\ Bounded' /\ Settled'
  BY <1>1 DEF DeletedByRecord, Bounded, Settled, Clean, Left, Recorded, objectVars
<1> QED
  BY <1>1, <1>2, <1>3

\* A step that only spends a turn or a fault: nothing is promised any more.
LEMMA SpoiledInv ==
    ASSUME IInv, Fault \/ Spend("turns"), UNCHANGED <<kind, cr, pcache, pr, objectVars>>,
           Child!ChildType', Child!Control'
    PROVE  IInv'
<1> USE DEF IInv
<1>1. OwnTypes' /\ Ids' /\ DeletedByRecord'
  BY DEF OwnTypes, objectVars, Ids, Known, Recorded, DeletedByRecord
<1>2. Bounded' /\ Settled'
  BY FaultSpoils, BoundedKept DEF Spent, Settled
<1> QED
  BY <1>1, <1>2

LEMMA TurnInv ==
    ASSUME IInv, Turn
    PROVE  IInv'
<1>1. /\ Child!ChildType' /\ Child!Control'
      /\ UNCHANGED <<kind, cr, pcache, pr, objectVars>> /\ Spend("turns")
  BY SameSteps, SameCalls, Child!InstanceTurnsEffect DEF Turn, IInv
<1> QED
  BY <1>1, SpoiledInv

LEMMA ManagerRestartInv ==
    ASSUME IInv, ManagerRestart
    PROVE  IInv'
<1> USE DEF IInv
<1>1. /\ Child!ChildType' /\ Child!Control' /\ UNCHANGED <<kind, cr, instance, objectVars>>
      /\ pr' = NoReconcile /\ pr'.pc = "idle" /\ pr'.fresh = FALSE /\ Fault
      /\ pcache'.object = cr
  BY SameSteps, SameCalls, Shapes, Child!RestartEffect DEF ManagerRestart
<1>2. OwnTypes'
  BY <1>1 DEF OwnTypes, objectVars
<1>3. Ids'
  BY <1>1, IdsKept DEF OldIds, OwnTypes, objectVars, NoReconcile, Absent
<1>4. DeletedByRecord' /\ Bounded' /\ Settled'
  BY <1>1, FaultSpoils, BoundedKept DEF Spent, DeletedByRecord, Settled
<1> QED
  BY <1>1, <1>2, <1>3, <1>4

-----------------------------------------------------------------------------
(* The invariant is inductive *)

LEMMA InitInv ==
    ASSUME Init
    PROVE  IInv
<1>1. /\ cr \in Resource /\ ~cr.deleting /\ ~cr.finalizer /\ (cr.exists \/ cr = Absent)
      /\ cr.id = 0
  <2>1. Absent \in Resource /\ ~Absent.deleting /\ ~Absent.finalizer /\ Absent.id = 0
    BY Shapes DEF Child!ResourceShape, Absent
  <2>2. ASSUME NEW wish \in Wishes
        PROVE  /\ Demanded(wish) \in Resource /\ Demanded(wish).exists
               /\ ~Demanded(wish).deleting /\ ~Demanded(wish).finalizer
               /\ Demanded(wish).id = 0
    BY ObjectAssumption DEF Demanded, Absent, Resource
  <2> QED
    BY <2>1, <2>2 DEF Init
<1>2. budget \in Child!Budgets /\ Bounded
  BY ObjectAssumption DEF Init, Child!Budgets, Bounded
<1>3. pr = NoReconcile /\ instance = "Ready" /\ pcache = [object |-> cr, fresh |-> TRUE]
  BY DEF Init
<1>4. Child!ChildType /\ Child!Control
  BY <1>1, <1>2, <1>3, Shapes, Child!InitEffect
<1>5. pr.pc = "idle" /\ pr.fresh = FALSE /\ pr.object.id = 0
  BY <1>3 DEF NoReconcile, Absent
<1>6. kind \in Kinds /\ issued \in {0, 1} /\ objects = 1 .. issued
      /\ content = {} /\ default = FALSE
  BY DEF Init
<1>7. OwnTypes
  <2>1. issued \in Nat /\ content \subseteq Details
    BY <1>6
  <2>2. \A a, b \in 1 .. issued : a = b
    BY <1>6
  <2>3. \A a, b \in objects : a = b
    BY <1>6, <2>2, Zenon
  <2>4. default \in BOOLEAN
    BY <1>6, Zenon
  <2> QED
    BY <1>6, <2>1, <2>3, <2>4, Zenon DEF OwnTypes
<1>8. Ids
  BY <1>1, <1>3, <1>5, <1>6 DEF Ids, Known
<1>9. DeletedByRecord /\ Settled
  BY <1>3, <1>5 DEF DeletedByRecord, Settled
<1> QED
  BY <1>2, <1>4, <1>7, <1>8, <1>9 DEF IInv

LEMMA StutterInv ==
    ASSUME IInv, UNCHANGED vars
    PROVE  IInv'
<1> USE DEF IInv, vars, objectVars
<1>1. Child!ChildType' /\ OwnTypes' /\ Ids'
  BY DEF Child!ChildType, OwnTypes, Ids, Known, Recorded
<1>2. Child!Control'
  BY Child!ControlKept
<1>3. DeletedByRecord' /\ Bounded' /\ Settled'
  BY DEF DeletedByRecord, Bounded, Settled, Clean, Left, Recorded
<1> QED
  BY <1>1, <1>2, <1>3

LEMMA WorkInv ==
    ASSUME IInv, Work
    PROVE  IInv'
<1>1. CASE LookUp \/ LookUpWebhook
  BY <1>1, LookUpInv, LookUpWebhookInv
<1>2. CASE Create \/ CreateWebhook
  BY <1>2, CreateInv, CreateWebhookInv
<1>3. CASE ReconcileConditions \/ SyncDescription \/ SetDefault
  BY <1>3, ReconcileConditionsInv, SyncDescriptionInv, SetDefaultInv
<1>4. CASE PublishReady \/ DeleteObject
  BY <1>4, PublishReadyInv, DeleteObjectInv
<1> QED
  BY <1>1, <1>2, <1>3, <1>4 DEF Work

LEMMA NextInv ==
    ASSUME IInv, [Next]_vars
    PROVE  IInv'
<1>1. CASE Start \/ Lifecycle \/ Work
  BY <1>1, StartInv, LifecycleInv, WorkInv
<1>2. CASE UserApplies \/ UserRemoves \/ ChangeInUI
  BY <1>2, UserAppliesInv, UserRemovesInv, ChangeInUIInv
<1>3. CASE Sync \/ Turn \/ ManagerRestart
  BY <1>3, SyncInv, TurnInv, ManagerRestartInv
<1>4. CASE UNCHANGED vars
  BY <1>4, StutterInv
<1> QED
  BY <1>1, <1>2, <1>3, <1>4 DEF Next, Step

-----------------------------------------------------------------------------
(* What the steps may do *)

\* Objects are made by the two steps that call for one, no others.
LEMMA MadeByCreate ==
    ASSUME IInv, [Next]_vars, issued' > issued
    PROVE  pr.pc = "create"
<1> USE DEF IInv
<1>1. issued \in Nat
  BY DEF OwnTypes
<1>2. CASE UNCHANGED issued
  BY <1>1, <1>2
<1>3. CASE Create \/ CreateWebhook
  BY <1>3 DEF Create, CreateWebhook
<1>4. CASE Start \/ Lifecycle \/ LookUp \/ LookUpWebhook \/ PublishReady
  BY <1>2, <1>4 DEF Start, Lifecycle, LookUp, LookUpWebhook, PublishReady, objectVars
<1>5. CASE ReconcileConditions \/ SyncDescription \/ SetDefault \/ DeleteObject
  BY <1>2, <1>5
  DEF ReconcileConditions, SyncDescription, SetDefault, DeleteObject, Deleted, objectVars
<1>6. CASE UserApplies \/ UserRemoves \/ ChangeInUI
  BY <1>2, <1>6 DEF UserApplies, UserRemoves, ChangeInUI, Deleted, objectVars
<1>7. CASE Sync \/ Turn \/ ManagerRestart \/ UNCHANGED vars
  BY <1>2, <1>7 DEF Sync, Turn, ManagerRestart, vars, objectVars
<1> QED
  BY <1>3, <1>4, <1>5, <1>6, <1>7 DEF Next, Step, Work

\* A resource with the finalizer goes when a reconcile that knows its last version
\* releases it.
LEMMA GoneByRelease ==
    ASSUME IInv, [Next]_vars, cr.finalizer, ~cr'.exists
    PROVE  pr.pc = "release" /\ pr.fresh
<1> USE DEF IInv
<1>1. cr.exists /\ cr \in Resource
  BY Shapes DEF Child!ChildType, Child!Control, Child!NoRemains, Child!ResourceShape
<1>2. CASE UNCHANGED cr
  BY <1>1, <1>2
<1>3. CASE AddFinalizer \/ PublishPhase
  <2>1. \/ cr' = cr \/ cr' = [cr EXCEPT !.finalizer = TRUE]
        \/ \E phase \in {"Pending", "Failed"} : cr' = [cr EXCEPT !.phase = phase]
    BY <1>3, Shapes, SameSteps, Child!AddFinalizerEffect, Child!PublishPhaseEffect
  <2> QED
    BY <1>1, <2>1 DEF Resource
<1>4. CASE ReleaseFinalizer
  <2>1. cr' = cr \/ pr.fresh
    BY <1>4, Shapes, SameSteps, Child!ReleaseFinalizerEffect
  <2> QED
    BY <1>1, <1>4, <2>1 DEF ReleaseFinalizer
<1>5. CASE PublishReady
  <2>1. UNCHANGED cr \/ cr' = [cr EXCEPT !.phase = "Ready", !.id = pr.object.id]
    BY <1>5 DEF PublishReady, OwnWrite, Write
  <2> QED
    BY <1>1, <2>1 DEF Resource
<1>6. CASE UserApplies
  <2>1. \/ \E wish \in Wishes : cr' = Demanded(wish)
        \/ \E wish \in Wishes : cr' = [cr EXCEPT !.spec = wish]
    BY <1>6 DEF UserApplies, UserWrites, Write
  <2> QED
    BY <1>1, <2>1 DEF Demanded, Absent, Resource
<1>7. CASE UserRemoves
  <2>1. cr' = [cr EXCEPT !.deleting = TRUE]
    BY <1>7 DEF UserRemoves, UserDeletes, UserWrites, Write
  <2> QED
    BY <1>1, <2>1 DEF Resource
<1>8. CASE LookUp \/ LookUpWebhook \/ Create \/ CreateWebhook \/ ReconcileConditions
           \/ SyncDescription \/ SetDefault \/ DeleteObject
  BY <1>2, <1>8
  DEF LookUp, LookUpWebhook, Create, CreateWebhook, ReconcileConditions,
      SyncDescription, SetDefault, DeleteObject
<1>9. CASE Start \/ ChangeInUI \/ Sync \/ Turn \/ ManagerRestart \/ UNCHANGED vars
  BY <1>2, <1>9
  DEF Start, PickUp, ChangeInUI, Sync, SyncResource, Turn, InstanceTurns,
      ManagerRestart, Restart, vars
<1> QED
  BY <1>3, <1>4, <1>5, <1>6, <1>7, <1>8, <1>9 DEF Next, Step, Work, Lifecycle, Conclude

\* An object is made only under the finalizer.
LEMMA MadeUnderFinalizer ==
    ASSUME IInv, [Next]_vars, issued' > issued
    PROVE  cr.exists /\ cr.finalizer
  BY MadeByCreate
  DEF IInv, Child!Control, Child!WorkUnderFinalizer, Child!Working

\* What a deletion without a mishap leaves is not an object that is recorded.
LEMMA NothingLeft ==
    ASSUME IInv, [Next]_vars, cr.finalizer, ~cr'.exists
    PROVE  \/ kind = "built-in"
           \/ kind = "group" /\ objects = {}
           \/ Recorded /\ cr.id \notin objects
           \/ pr.kept
           \/ budget.faults < MaxFaults \/ budget.turns < MaxTurns
<1>1. pr.pc = "release" /\ pr.object.id = cr.id
  BY GoneByRelease DEF IInv, DeletedByRecord
<1> QED
  BY <1>1, ObjectAssumption
  DEF IInv, Settled, Clean, Left, Bounded, Child!ChildType, Child!Budgets

=============================================================================
