------------------------ MODULE ChildController_proofs ------------------------
(***************************************************************************)
(* What the operators of ChildController do to the resource, the           *)
(* informer's copy and the reconcile in flight, whatever else a controller *)
(* keeps: their types, and that work on SonarQube goes on only under a     *)
(* finalizer.  The proofs about a controller instantiate this module for   *)
(* its resources and reconciles and cite the lemmas.                       *)
(***************************************************************************)
EXTENDS ChildController, TLAPS

CONSTANTS
    Resources,      \* the values of the resource, Absent among them
    Reconciles,     \* the values of the reconcile, NoReconcile among them
    Steps           \* the steps of the reconcile

Budgets == [faults : Nat, lags : Nat, edits : Nat, turns : Nat]
Copies == [object : Resources, fresh : BOOLEAN]

\* The same as far as existence, deletion and finalizer go.
Alike(new, old) ==
    /\ new.exists = old.exists /\ new.deleting = old.deleting
    /\ new.finalizer = old.finalizer

-----------------------------------------------------------------------------
(* What a controller's resources and reconciles have in common.  These are *)
(* hypotheses of the lemmas, to be proved of the sets a controller has.    *)

\* Writing one of the fields the controllers share changes no other of them.
Finalized(r, b) ==
    LET new == [r EXCEPT !.finalizer = b]
    IN  /\ new \in Resources /\ new.finalizer = b
        /\ new.exists = r.exists /\ new.deleting = r.deleting

Doomed(r) ==
    LET new == [r EXCEPT !.deleting = TRUE]
    IN  /\ new \in Resources /\ new.deleting
        /\ new.exists = r.exists /\ new.finalizer = r.finalizer

Phased(r, phase) ==
    LET new == [r EXCEPT !.phase = phase]
    IN  new \in Resources /\ Alike(new, r)

ResourceShape ==
    /\ Absent \in Resources
    /\ ~Absent.exists /\ ~Absent.deleting /\ ~Absent.finalizer
    /\ \A r \in Resources :
         /\ r.exists \in BOOLEAN /\ r.deleting \in BOOLEAN /\ r.finalizer \in BOOLEAN
         /\ \A b \in BOOLEAN : Finalized(r, b)
         /\ Doomed(r) /\ Phased(r, "Pending") /\ Phased(r, "Failed")

\* The same for the fields of a reconcile.
Moved(r, step) ==
    LET new == [r EXCEPT !.pc = step]
    IN  /\ new \in Reconciles /\ new.pc = step
        /\ new.fresh = r.fresh /\ new.object = r.object

MovedOn(r, step, b) ==
    LET new == [r EXCEPT !.pc = step, !.fresh = b]
    IN  new \in Reconciles /\ new.pc = step /\ new.object = r.object

Aged(r, b) ==
    LET new == [r EXCEPT !.fresh = b]
    IN  /\ new \in Reconciles /\ new.fresh = b
        /\ new.pc = r.pc /\ new.object = r.object

PickedUp(step, object, b) ==
    LET new == [NoReconcile EXCEPT !.pc = step, !.object = object, !.fresh = b]
    IN  /\ new \in Reconciles /\ new.pc = step
        /\ new.object = object /\ new.fresh = b

\* The steps of every controller.
CommonSteps == {"idle", "pending", "finalizer", "get", "failed", "delete", "release"}

ReconcileShape ==
    /\ CommonSteps \subseteq Steps
    /\ NoReconcile \in Reconciles /\ NoReconcile.pc = "idle" /\ NoReconcile.fresh = FALSE
    /\ \A r \in Reconciles :
         /\ r.pc \in Steps /\ r.object \in Resources /\ r.fresh \in BOOLEAN
         /\ \A step \in Steps : Moved(r, step)
         /\ \A step \in Steps, b \in BOOLEAN : MovedOn(r, step, b)
         /\ \A b \in BOOLEAN : Aged(r, b)
    /\ \A step \in Steps, object \in Resources, b \in BOOLEAN : PickedUp(step, object, b)

ChildType ==
    /\ cr \in Resources /\ pcache \in Copies /\ pr \in Reconciles
    /\ instance \in {"Ready", "NotReady", "Gone"}
    /\ budget \in Budgets

-----------------------------------------------------------------------------
(* The control part of the inductive invariants *)

\* A copy a reconcile takes for one it may work on.
Guarded(object) == object.exists /\ object.finalizer /\ ~object.deleting

\* Between the finalizer and the end a reconcile works on SonarQube.
Working == pr.pc \notin {"idle", "pending", "finalizer", "failed", "delete", "release"}

\* While it does the stored resource has the finalizer.
WorkUnderFinalizer == Working => cr.exists /\ cr.finalizer

\* A cached copy that would start such work, stale or not, is not contradicted
\* by the stored resource.
CacheTrusted ==
    Guarded(pcache.object) /\ instance # "Gone" => cr.exists /\ cr.finalizer

\* A resource whose deletion the informer saw, and its successor, get the
\* finalizer only after the informer has moved on.
DeletionSeen == pcache.object.deleting => ~Guarded(cr)

\* The finalizer is added to a resource that is not being deleted, or refused.
FinalizerForLiving ==
    pr.pc = "finalizer" /\ pr.fresh => ~pcache.object.deleting /\ ~cr.deleting

\* What is released is no longer worked on.
ReleaseIsFinal ==
    pr.pc \in {"delete", "release"} /\ instance # "Gone"
        => ~Guarded(pcache.object) /\ ~Guarded(cr)

FreshCopy == pcache.fresh => pcache.object = cr

\* A resource that is gone leaves nothing; only a finalizer delays a deletion.
NoRemains == (cr.exists \/ cr = Absent) /\ (cr.deleting => cr.finalizer)

Control ==
    /\ FreshCopy /\ WorkUnderFinalizer /\ CacheTrusted /\ DeletionSeen
    /\ FinalizerForLiving /\ ReleaseIsFinal /\ NoRemains

-----------------------------------------------------------------------------
(* Bounds, calls and writes *)

\* Whatever a step spends, the bounds stay naturals and do not grow.
LEMMA BudgetEffect ==
    ASSUME budget \in Budgets,
           \/ NoFault \/ Fault \/ Spend("lags") \/ Spend("edits") \/ Spend("turns")
    PROVE  /\ budget' \in Budgets
           /\ budget'.faults <= budget.faults /\ budget'.lags <= budget.lags
           /\ budget'.edits <= budget.edits /\ budget'.turns <= budget.turns
  BY DEF NoFault, Fault, Spend, Budgets

\* Going on to another step changes nothing else about the reconcile.
LEMMA ProceedEffect ==
    ASSUME ReconcileShape, pr \in Reconciles, NEW step \in Steps, Proceed(step)
    PROVE  /\ pr' \in Reconciles /\ pr'.pc = step
           /\ step # "idle" => pr'.fresh = pr.fresh /\ pr'.object = pr.object
           /\ step = "idle" => pr'.fresh = FALSE
<1>1. CASE step = "idle"
  <2>1. pr' = NoReconcile
    BY <1>1 DEF Proceed
  <2> QED
    BY <1>1, <2>1 DEF ReconcileShape
<1>2. CASE step # "idle"
  <2>1. pr' = [pr EXCEPT !.pc = step]
    BY <1>2 DEF Proceed
  <2>2. Moved(pr, step)
    BY DEF ReconcileShape
  <2> QED
    BY <1>2, <2>1, <2>2 DEF Moved
<1> QED
  BY <1>1, <1>2

\* A write by anybody: the informer keeps what it has, and stays up to date only
\* if nothing changed.
LEMMA WriteEffect ==
    ASSUME pcache \in Copies, NEW new \in Resources, Write(new)
    PROVE  /\ cr' = new
           /\ pcache' \in Copies /\ pcache'.object = pcache.object
           /\ pcache'.fresh => pcache.fresh /\ new = cr
  BY DEF Copies, Write

\* A versioned write of the reconcile's own object is accepted for the stored
\* version only; the reconcile goes on at "then" only if it was.
LEMMA OwnWriteEffect ==
    ASSUME ReconcileShape, ChildType, NEW new \in Resources,
           NEW then \in Steps, NEW otherwise \in Steps, OwnWrite(new, then, otherwise)
    PROVE  /\ cr' \in Resources
           /\ pcache' \in Copies /\ pcache'.object = pcache.object
           /\ pcache'.fresh => pcache.fresh /\ cr' = cr
           /\ pr' \in Reconciles /\ budget' \in Budgets
           /\ NoFault \/ Fault
           /\ cr' = cr \/ (cr' = new /\ pr.fresh /\ cr.exists)
           /\ pr'.pc \in {then, otherwise}
           /\ pr'.pc = then /\ then # otherwise
                => /\ cr' = new /\ cr.exists /\ pr.fresh
                   /\ then # "idle" => pr'.fresh = pr.fresh /\ pr'.object = pr.object
           /\ pr'.pc = "idle" => pr'.fresh = FALSE
<1> USE DEF ChildType
<1>1. CASE /\ pr.fresh /\ cr.exists /\ Write(new)
           /\ NoFault /\ Proceed(then)
  BY <1>1, WriteEffect, ProceedEffect, BudgetEffect
<1>2. CASE /\ pr.fresh /\ cr.exists /\ Write(new) /\ Fault
           /\ pr' = IF otherwise = "idle" THEN NoReconcile
                    ELSE [pr EXCEPT !.pc = otherwise, !.fresh = new = cr]
  <2>1. /\ pr' \in Reconciles /\ pr'.pc = otherwise
        /\ pr'.pc = "idle" => pr'.fresh = FALSE
    <3>1. CASE otherwise = "idle"
      BY <1>2, <3>1 DEF ReconcileShape
    <3>2. CASE otherwise # "idle"
      <4>1. (new = cr) \in BOOLEAN
        OBVIOUS
      <4>2. pr' = [pr EXCEPT !.pc = otherwise, !.fresh = new = cr]
        BY <1>2, <3>2
      <4>3. MovedOn(pr, otherwise, new = cr)
        BY <4>1 DEF ReconcileShape
      <4> QED
        BY <3>2, <4>2, <4>3 DEF MovedOn
    <3> QED
      BY <3>1, <3>2
  <2> QED
    BY <1>2, <2>1, WriteEffect, BudgetEffect
<1>3. CASE /\ NoFault \/ Fault
           /\ Proceed(otherwise) /\ UNCHANGED <<cr, pcache>>
  <2>1. /\ pr' \in Reconciles /\ pr'.pc = otherwise /\ budget' \in Budgets
        /\ pr'.pc = "idle" => pr'.fresh = FALSE
    BY <1>3, ProceedEffect, BudgetEffect
  <2> QED
    BY <1>3, <2>1
<1> QED
  BY <1>1, <1>2, <1>3 DEF OwnWrite

-----------------------------------------------------------------------------
(* The head of Reconcile *)

\* Where a reconcile begins: work and release are begun on a copy that calls for
\* them.
LEMMA RouteEffect ==
    ASSUME ReconcileShape, ResourceShape, ChildType, NEW object \in Resources, object.exists
    PROVE  /\ Route(object) \in {"idle", "pending", "finalizer", "get", "delete", "release"}
           /\ Route(object) \in Steps
           /\ Route(object) = "get" => Guarded(object) /\ instance # "Gone"
           /\ Route(object) = "finalizer" => ~object.deleting
           /\ Route(object) = "delete" => object.deleting /\ instance = "Ready"
           /\ Route(object) = "release" => instance = "Gone" \/ object.deleting
           /\ Route(object) = "release" => instance # "Ready"
<1>1. Route(object) \in {"idle", "pending", "finalizer", "get", "delete", "release"}
  BY DEF Route, ChildType
<1>2. Route(object) \in Steps
  BY <1>1 DEF ReconcileShape, CommonSteps
<1>3. object.deleting \in BOOLEAN /\ object.finalizer \in BOOLEAN
  BY DEF ResourceShape
<1> QED
  BY <1>1, <1>2, <1>3 DEF Route, Guarded, ChildType

\* The reconcile begins with the informer's copy.
LEMMA PickUpEffect ==
    ASSUME ReconcileShape, ResourceShape, ChildType, Control, PickUp
    PROVE  /\ ChildType' /\ Control'
           /\ pcache.object.exists
           /\ pr'.pc = Route(pcache.object) /\ pr'.object = pcache.object
           /\ pr'.pc \in {"pending", "finalizer", "get", "delete", "release"}
           /\ pr'.fresh => pr'.object = cr
           /\ pr'.pc = "release" => instance # "Ready"
           /\ UNCHANGED <<cr, pcache, instance>>
           /\ NoFault \/ (~pcache.fresh /\ Spend("lags"))
<1> DEFINE object == pcache.object
           step == Route(object)
<1>1. /\ object \in Resources /\ object.exists /\ pcache.fresh \in BOOLEAN
      /\ object.deleting \in BOOLEAN /\ cr.finalizer \in BOOLEAN
  BY DEF PickUp, ChildType, Copies, ResourceShape
<1>2. /\ step \in Steps /\ step \in {"pending", "finalizer", "get", "delete", "release"}
      /\ step = "get" => Guarded(object) /\ instance # "Gone"
      /\ step = "finalizer" => ~object.deleting
      /\ step = "delete" => object.deleting /\ instance = "Ready"
      /\ step = "release" => instance = "Gone" \/ object.deleting
      /\ step = "release" => instance # "Ready"
  BY <1>1, RouteEffect DEF PickUp
<1>3. /\ UNCHANGED <<cr, pcache, instance>>
      /\ NoFault \/ (~pcache.fresh /\ Spend("lags"))
      /\ pr' = [NoReconcile EXCEPT !.pc = step, !.object = object, !.fresh = pcache.fresh]
  BY DEF PickUp
<1>4. PickedUp(step, object, pcache.fresh)
  BY <1>1, <1>2 DEF ReconcileShape
<1> HIDE DEF step
<1>5. /\ pr' \in Reconciles /\ pr'.pc = step
      /\ pr'.object = object /\ pr'.fresh = pcache.fresh
  BY <1>3, <1>4 DEF PickedUp
<1>6. ChildType'
  BY <1>3, <1>5, BudgetEffect DEF ChildType, Copies
<1>7. pr'.fresh => pr'.object = cr
  BY <1>5 DEF Control, FreshCopy
<1>8. Control'
  <2>1. WorkUnderFinalizer'
    BY <1>2, <1>3, <1>5 DEF Control, WorkUnderFinalizer, CacheTrusted, Working
  <2>2. FinalizerForLiving'
    BY <1>2, <1>3, <1>5 DEF Control, FinalizerForLiving, FreshCopy
  <2>3. ReleaseIsFinal'
    BY <1>2, <1>3, <1>5 DEF Control, ReleaseIsFinal, DeletionSeen, Guarded
  <2> QED
    BY <1>3, <2>1, <2>2, <2>3
    DEF Control, FreshCopy, CacheTrusted, DeletionSeen, NoRemains, Guarded
<1> QED
  BY <1>1, <1>2, <1>3, <1>5, <1>6, <1>7, <1>8 DEF step

\* The finalizer comes to a resource that is there and not being deleted; the
\* reconcile goes on only if it did.
LEMMA AddFinalizerEffect ==
    ASSUME ReconcileShape, ResourceShape, ChildType, Control, AddFinalizer
    PROVE  /\ ChildType' /\ Control'
           /\ pr'.pc \in {"get", "idle"}
           /\ pr'.pc = "get" => pr.fresh /\ pr'.object = pr.object
           /\ pr'.pc = "idle" => pr'.fresh = FALSE
           /\ cr' = cr \/ (cr' = [cr EXCEPT !.finalizer = TRUE] /\ cr.exists /\ cr'.exists)
           /\ NoFault \/ Fault
<1> DEFINE new == [cr EXCEPT !.finalizer = TRUE]
<1>1. /\ new \in Resources /\ new.finalizer = TRUE /\ new.exists = cr.exists
      /\ new.deleting = cr.deleting
  <2>1. Finalized(cr, TRUE)
    BY DEF ResourceShape, ChildType
  <2> QED
    BY <2>1 DEF Finalized
<1>2. OwnWrite(new, "get", "idle") /\ pr.pc = "finalizer" /\ UNCHANGED instance
  BY DEF AddFinalizer, At
<1> HIDE DEF new
<1>3. "get" \in Steps /\ "idle" \in Steps
  BY DEF ReconcileShape, CommonSteps
<1>4. /\ cr' \in Resources
      /\ pcache' \in Copies /\ pcache'.object = pcache.object
      /\ pcache'.fresh => pcache.fresh /\ cr' = cr
      /\ pr' \in Reconciles /\ budget' \in Budgets
      /\ NoFault \/ Fault
      /\ cr' = cr \/ (cr' = new /\ pr.fresh /\ cr.exists)
      /\ pr'.pc \in {"get", "idle"}
      /\ pr'.pc = "get" => cr' = new /\ cr.exists /\ pr.fresh /\ pr'.object = pr.object
      /\ pr'.pc = "idle" => pr'.fresh = FALSE
  BY <1>1, <1>2, <1>3, OwnWriteEffect
<1>5. ChildType'
  BY <1>2, <1>4 DEF ChildType
<1>6. WorkUnderFinalizer' /\ FinalizerForLiving' /\ ReleaseIsFinal'
  BY <1>1, <1>4 DEF WorkUnderFinalizer, Working, FinalizerForLiving, ReleaseIsFinal
<1>7. FreshCopy' /\ CacheTrusted' /\ DeletionSeen' /\ NoRemains'
  BY <1>1, <1>2, <1>4
  DEF Control, FreshCopy, CacheTrusted, DeletionSeen, FinalizerForLiving, NoRemains, Guarded
<1> QED
  BY <1>1, <1>4, <1>5, <1>6, <1>7 DEF Control, new

\* A status update: it ends the reconcile and says nothing of existence, deletion
\* and finalizer.
LEMMA StatusWriteEffect ==
    ASSUME ReconcileShape, ResourceShape, ChildType, Control,
           NEW new \in Resources, Alike(new, cr),
           OwnWrite(new, "idle", "idle"), UNCHANGED instance
    PROVE  /\ ChildType' /\ Control'
           /\ pr'.pc = "idle" /\ pr'.fresh = FALSE
           /\ cr' = cr \/ (cr' = new /\ pr.fresh /\ cr.exists)
           /\ NoFault \/ Fault
<1>1. "idle" \in Steps
  BY DEF ReconcileShape, CommonSteps
<1>2. /\ cr' \in Resources
      /\ pcache' \in Copies /\ pcache'.object = pcache.object
      /\ pcache'.fresh => pcache.fresh /\ cr' = cr
      /\ pr' \in Reconciles /\ budget' \in Budgets
      /\ NoFault \/ Fault
      /\ cr' = cr \/ (cr' = new /\ pr.fresh /\ cr.exists)
      /\ pr'.pc = "idle" /\ pr'.fresh = FALSE
  BY <1>1, OwnWriteEffect
<1>3. ChildType'
  BY <1>2 DEF ChildType
<1>4. Control'
  BY <1>2
  DEF Alike, Control, FreshCopy, WorkUnderFinalizer, Working, CacheTrusted, DeletionSeen,
      FinalizerForLiving, ReleaseIsFinal, NoRemains, Guarded
<1> QED
  BY <1>2, <1>3, <1>4

LEMMA PublishPhaseEffect ==
    ASSUME ReconcileShape, ResourceShape, ChildType, Control, PublishPhase
    PROVE  /\ ChildType' /\ Control'
           /\ pr'.pc = "idle" /\ pr'.fresh = FALSE
           /\ \/ cr' = cr
              \/ \E phase \in {"Pending", "Failed"} :
                   cr' = [cr EXCEPT !.phase = phase] /\ cr.exists /\ Alike(cr', cr)
           /\ NoFault \/ Fault
<1>1. PICK phase \in {"Pending", "Failed"} :
        OwnWrite([cr EXCEPT !.phase = phase], "idle", "idle")
  BY DEF PublishPhase
<1>2. UNCHANGED instance
  BY DEF PublishPhase
<1> DEFINE new == [cr EXCEPT !.phase = phase]
<1>3. Phased(cr, phase)
  BY DEF ResourceShape, ChildType
<1>4. new \in Resources /\ Alike(new, cr)
  BY <1>3 DEF Phased
<1> HIDE DEF new
<1>5. OwnWrite(new, "idle", "idle")
  BY <1>1 DEF new
<1>6. /\ ChildType' /\ Control'
      /\ pr'.pc = "idle" /\ pr'.fresh = FALSE
      /\ cr' = cr \/ (cr' = new /\ pr.fresh /\ cr.exists)
      /\ NoFault \/ Fault
  BY <1>2, <1>4, <1>5, StatusWriteEffect
<1> QED
  BY <1>4, <1>6 DEF new

\* The finalizer goes, and with it a resource that is being deleted.
LEMMA ReleaseFinalizerEffect ==
    ASSUME ReconcileShape, ResourceShape, ChildType, Control, ReleaseFinalizer
    PROVE  /\ ChildType' /\ Control'
           /\ pr'.pc = "idle" /\ pr'.fresh = FALSE
           /\ \/ cr' = cr
              \/ pr.fresh /\ cr.exists /\ cr.deleting /\ cr' = Absent
              \/ /\ pr.fresh /\ cr.exists /\ ~cr.deleting
                 /\ cr' = [cr EXCEPT !.finalizer = FALSE] /\ cr'.exists
           /\ NoFault \/ Fault
<1> DEFINE new == IF cr.deleting THEN Absent ELSE [cr EXCEPT !.finalizer = FALSE]
<1>1. /\ cr.deleting \in BOOLEAN
      /\ Absent \in Resources /\ ~Absent.finalizer /\ ~Absent.exists /\ ~Absent.deleting
      /\ Finalized(cr, FALSE)
  BY DEF ResourceShape, ChildType
<1>2. /\ new \in Resources /\ ~new.finalizer /\ ~new.deleting
      /\ new = Absent \/ new.exists = cr.exists
  BY <1>1 DEF Finalized
<1>3. OwnWrite(new, "idle", "idle") /\ pr.pc = "release" /\ UNCHANGED instance
  BY DEF ReleaseFinalizer, At
<1> HIDE DEF new
<1>4. "idle" \in Steps
  BY DEF ReconcileShape, CommonSteps
<1>5. /\ cr' \in Resources
      /\ pcache' \in Copies /\ pcache'.object = pcache.object
      /\ pcache'.fresh => pcache.fresh /\ cr' = cr
      /\ pr' \in Reconciles /\ budget' \in Budgets
      /\ NoFault \/ Fault
      /\ cr' = cr \/ (cr' = new /\ pr.fresh /\ cr.exists)
      /\ pr'.pc = "idle" /\ pr'.fresh = FALSE
  BY <1>2, <1>3, <1>4, OwnWriteEffect
<1>6. ChildType'
  BY <1>3, <1>5 DEF ChildType
<1>7. CacheTrusted'
  BY <1>2, <1>3, <1>5 DEF Control, CacheTrusted, ReleaseIsFinal, Guarded
<1>8. NoRemains'
  BY <1>2, <1>5 DEF Control, NoRemains
<1>9. Control'
  BY <1>2, <1>3, <1>5, <1>7, <1>8
  DEF Control, FreshCopy, WorkUnderFinalizer, Working, DeletionSeen,
      FinalizerForLiving, ReleaseIsFinal, Guarded
<1> QED
  BY <1>1, <1>5, <1>6, <1>9 DEF new, Finalized

-----------------------------------------------------------------------------
(* The rest of the reconcile, and the surroundings *)

\* A step that leaves the stored resource, the informer and the instance alone
\* keeps the control part if it ends the reconcile, goes on with the same work or
\* leaves the reconcile where it is.
LEMMA ControlKept ==
    ASSUME Control, UNCHANGED <<cr, pcache, instance>>,
           \/ pr'.pc \in {"idle", "failed"}
           \/ Working /\ Working'
           \/ pr.pc = "delete" /\ pr'.pc = "release"
           \/ UNCHANGED pr
    PROVE  Control'
  BY DEF Control, FreshCopy, WorkUnderFinalizer, Working, CacheTrusted, DeletionSeen,
         FinalizerForLiving, ReleaseIsFinal, NoRemains, Guarded

\* A user's write never touches the finalizer; the reconcile in flight loses
\* track of the resource.
LEMMA UserWritesEffect ==
    ASSUME ReconcileShape, ResourceShape, ChildType, Control,
           NEW new \in Resources, UserWrites(new), UNCHANGED instance, budget' \in Budgets,
           \/ ~cr.exists /\ new.exists /\ ~new.finalizer /\ ~new.deleting
           \/ /\ cr.exists /\ new.exists /\ new.finalizer = cr.finalizer
              /\ new.deleting = cr.deleting \/ (new.deleting /\ new.finalizer)
           \/ ~cr.finalizer /\ new = Absent
    PROVE  /\ ChildType' /\ Control'
           /\ cr' = new
           /\ pr'.pc = pr.pc /\ pr'.object = pr.object
           /\ pr'.fresh => pr.fresh /\ cr' = cr
           /\ \E b \in BOOLEAN : pr' = [pr EXCEPT !.fresh = b]
<1>1. /\ cr' = new
      /\ pcache' \in Copies /\ pcache'.object = pcache.object
      /\ pcache'.fresh => pcache.fresh /\ new = cr
  BY WriteEffect DEF UserWrites, ChildType
<1> DEFINE b == pr.fresh /\ new = cr
<1>2. b \in BOOLEAN /\ Aged(pr, b) /\ pr' = [pr EXCEPT !.fresh = b]
  <2>1. pr \in Reconciles /\ pr.fresh \in BOOLEAN
    BY DEF ChildType, ReconcileShape
  <2>2. b \in BOOLEAN
    BY <2>1
  <2>3. pr' = [pr EXCEPT !.fresh = b]
    BY DEF UserWrites
  <2> HIDE DEF b
  <2> QED
    BY <2>1, <2>2, <2>3 DEF ReconcileShape
<1> HIDE DEF b
<1>3. pr' \in Reconciles /\ pr'.pc = pr.pc /\ pr'.object = pr.object /\ pr'.fresh = b
  BY <1>2 DEF Aged
<1>4. ChildType'
  BY <1>1, <1>3 DEF ChildType
<1>5. ~Absent.exists /\ ~Absent.deleting /\ ~Absent.finalizer
  BY DEF ResourceShape
<1>6. pr'.fresh => pr.fresh /\ cr' = cr
  BY <1>1, <1>3 DEF b
<1>7. Control'
  BY <1>1, <1>3, <1>5, <1>6
  DEF Control, FreshCopy, WorkUnderFinalizer, Working, CacheTrusted, DeletionSeen,
      FinalizerForLiving, ReleaseIsFinal, NoRemains, Guarded
<1> QED
  BY <1>1, <1>2, <1>3, <1>4, <1>6, <1>7

\* Deleting a resource that has the finalizer marks it.
LEMMA UserDeletesEffect ==
    ASSUME ReconcileShape, ResourceShape, ChildType, Control,
           UserDeletes, UNCHANGED instance, budget' \in Budgets
    PROVE  /\ ChildType' /\ Control'
           /\ pr'.pc = pr.pc /\ pr'.object = pr.object
           /\ pr'.fresh => pr.fresh /\ cr' = cr
           /\ \E b \in BOOLEAN : pr' = [pr EXCEPT !.fresh = b]
           /\ \/ cr.finalizer /\ cr' = [cr EXCEPT !.deleting = TRUE] /\ cr'.exists
              \/ ~cr.finalizer /\ cr' = Absent
<1>1. cr.exists /\ ~cr.deleting
  BY DEF UserDeletes, Editable
<1>2. CASE cr.finalizer
  <2> DEFINE new == [cr EXCEPT !.deleting = TRUE]
  <2>1. Doomed(cr)
    BY DEF ChildType, ResourceShape
  <2>2. /\ new \in Resources /\ new.deleting
        /\ new.exists = cr.exists /\ new.finalizer = cr.finalizer
    BY <2>1 DEF Doomed
  <2>3. UserWrites(new)
    BY <1>2 DEF UserDeletes
  <2> HIDE DEF new
  <2>4. /\ ChildType' /\ Control' /\ cr' = new
        /\ pr'.pc = pr.pc /\ pr'.object = pr.object
        /\ pr'.fresh => pr.fresh /\ cr' = cr
        /\ \E b \in BOOLEAN : pr' = [pr EXCEPT !.fresh = b]
    BY <1>1, <1>2, <2>2, <2>3, UserWritesEffect
  <2> QED
    BY <1>1, <1>2, <2>2, <2>4 DEF new
<1>3. CASE ~cr.finalizer
  <2>1. UserWrites(Absent) /\ Absent \in Resources
    BY <1>3 DEF UserDeletes, ResourceShape
  <2> QED
    BY <1>3, <2>1, UserWritesEffect
<1> QED
  BY <1>2, <1>3

\* The informer catches up.
LEMMA SyncResourceEffect ==
    ASSUME ChildType, Control, SyncResource
    PROVE  /\ ChildType' /\ Control'
           /\ pcache'.object = cr /\ UNCHANGED <<cr, instance, pr, budget>>
<1>1. UNCHANGED <<cr, instance, pr, budget>> /\ pcache' = [object |-> cr, fresh |-> TRUE]
  BY DEF SyncResource, Catch
<1>2. ChildType'
  BY <1>1 DEF ChildType, Copies
<1>3. Control'
  BY <1>1
  DEF Control, FreshCopy, WorkUnderFinalizer, Working, CacheTrusted, DeletionSeen,
      FinalizerForLiving, ReleaseIsFinal, NoRemains, Guarded
<1> QED
  BY <1>1, <1>2, <1>3

\* A deleted instance does not come back.
LEMMA InstanceTurnsEffect ==
    ASSUME ChildType, Control, InstanceTurns
    PROVE  /\ ChildType' /\ Control'
           /\ UNCHANGED <<cr, pcache, pr>> /\ Spend("turns")
           /\ budget'.turns < budget.turns
<1>1. /\ UNCHANGED <<cr, pcache, pr>> /\ Spend("turns")
      /\ instance # "Gone" /\ instance' \in {"Ready", "NotReady", "Gone"}
  BY DEF InstanceTurns
<1>2. budget' \in Budgets /\ budget'.turns < budget.turns
  BY <1>1 DEF Spend, ChildType, Budgets
<1>3. ChildType'
  BY <1>1, <1>2 DEF ChildType
<1>4. Control'
  BY <1>1
  DEF Control, FreshCopy, WorkUnderFinalizer, Working, CacheTrusted, DeletionSeen,
      FinalizerForLiving, ReleaseIsFinal, NoRemains, Guarded
<1> QED
  BY <1>1, <1>2, <1>3, <1>4

\* A new process starts with a fresh cache and no reconcile.
LEMMA RestartEffect ==
    ASSUME ReconcileShape, ChildType, Control, Restart
    PROVE  /\ ChildType' /\ Control'
           /\ pr' = NoReconcile /\ pr'.pc = "idle" /\ pr'.fresh = FALSE
           /\ pcache'.object = cr /\ UNCHANGED <<cr, instance>> /\ Fault
<1>1. /\ UNCHANGED <<cr, instance>> /\ Fault
      /\ pr' = NoReconcile /\ pcache' = [object |-> cr, fresh |-> TRUE]
  BY DEF Restart, Catch
<1>2. pr' \in Reconciles /\ pr'.pc = "idle" /\ pr'.fresh = FALSE
  BY <1>1 DEF ReconcileShape
<1>3. ChildType'
  BY <1>1, <1>2, BudgetEffect DEF ChildType, Copies
<1>4. Control'
  BY <1>1, <1>2
  DEF Control, FreshCopy, WorkUnderFinalizer, Working, CacheTrusted, DeletionSeen,
      FinalizerForLiving, ReleaseIsFinal, NoRemains, Guarded
<1> QED
  BY <1>1, <1>2, <1>3, <1>4

\* A resource without deletion and finalizer, or none, on a Ready instance.
LEMMA InitEffect ==
    ASSUME ReconcileShape, ResourceShape, cr \in Resources,
           pcache = [object |-> cr, fresh |-> TRUE],
           instance = "Ready", pr = NoReconcile, budget \in Budgets,
           ~cr.deleting, ~cr.finalizer, cr.exists \/ cr = Absent
    PROVE  ChildType /\ Control
<1>1. NoReconcile \in Reconciles /\ NoReconcile.pc = "idle"
  BY DEF ReconcileShape
<1>2. ChildType
  BY <1>1 DEF ChildType, Copies
<1>3. Control
  BY <1>1
  DEF Control, FreshCopy, WorkUnderFinalizer, Working, CacheTrusted, DeletionSeen,
      FinalizerForLiving, ReleaseIsFinal, NoRemains, Guarded
<1> QED
  BY <1>2, <1>3

=============================================================================
