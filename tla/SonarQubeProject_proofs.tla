----------------------- MODULE SonarQubeProject_proofs -----------------------
(***************************************************************************)
(* Proofs about the project controller, for every set of grants and every  *)
(* bound: types, no project created outside a finalizer, the promise of    *)
(* ChildLifecycle, no grant of the operator that leaves the record before  *)
(* it is gone, and no token revoked that nobody asked to rotate.           *)
(***************************************************************************)
EXTENDS SonarQubeProject, TLAPS

-----------------------------------------------------------------------------
(* The inductive invariant *)

\* A copy a reconcile takes for one it may work on.
Guarded(object) == object.exists /\ object.finalizer /\ ~object.deleting

WorkSteps == {"get", "create", "branch", "grants", "token", "clear", "revoke",
              "delete-secret", "generate", "store", "ready"}

\* While a reconcile works on SonarQube the stored resource has the finalizer.
WorkUnderFinalizer == pr.pc \in WorkSteps => cr.exists /\ cr.finalizer

\* A cached copy that would start such work, stale or not, is not contradicted
\* by the stored resource.
CacheTrusted ==
    Guarded(pcache.object) /\ instance # "Gone" => cr.exists /\ cr.finalizer

\* A resource whose deletion the informer saw, and its successor, get the
\* finalizer only after the informer has moved on.
DeletionSeen == pcache.object.deleting => ~Guarded(cr)

\* The finalizer is added to a resource that is not being deleted, or refused.
FinalizerForLiving ==
    pr.pc = "finalizer" /\ pr.fresh => ~pcache.object.deleting /\ ~cr.deleting

\* What is released is no longer worked on.
ReleaseIsFinal ==
    pr.pc \in {"delete", "release"} /\ instance # "Gone"
        => ~Guarded(pcache.object) /\ ~Guarded(cr)

FreshCopy == pcache.fresh => pcache.object = cr

Control ==
    /\ FreshCopy /\ WorkUnderFinalizer /\ CacheTrusted /\ DeletionSeen
    /\ FinalizerForLiving /\ ReleaseIsFinal

IInv == ProjectTypeOK /\ Control

-----------------------------------------------------------------------------
(* Lemmas *)

Reconciles == [pc : Steps, object : ProjectObject, fresh : BOOLEAN, found : BOOLEAN]
Budgets == [faults : Nat, lags : Nat, edits : Nat, turns : Nat]

\* Spending from a bound keeps the record of the bounds a record of naturals.
LEMMA BudgetType ==
    ASSUME ProjectTypeOK,
           NoFault \/ Fault \/ Spend("lags") \/ Spend("edits") \/ Spend("turns")
    PROVE  budget' \in Budgets
  BY DEF ProjectTypeOK, NoFault, Fault, Spend, Budgets

\* The idle reconcile and the absent resource have their types.
LEMMA IdleType == NoReconcile \in Reconciles /\ Absent \in ProjectObject
  BY DEF NoReconcile, Reconciles, Absent, ProjectObject, Steps

\* Going on to another step changes nothing else about the reconcile.
LEMMA ProceedEffect ==
    ASSUME ProjectTypeOK, NEW step \in Steps, Proceed(step)
    PROVE  /\ pr' \in Reconciles /\ pr'.pc = step
           /\ step # "idle" => pr'.fresh = pr.fresh /\ pr'.object = pr.object
<1>1. CASE step = "idle"
  <2>1. pr' = NoReconcile
    BY <1>1 DEF Proceed
  <2> QED
    BY <1>1, <2>1, IdleType DEF NoReconcile
<1>2. CASE step # "idle"
  <2>1. pr' = [pr EXCEPT !.pc = step]
    BY <1>2 DEF Proceed
  <2> QED
    BY <1>2, <2>1 DEF ProjectTypeOK, Reconciles
<1> QED
  BY <1>1, <1>2

\* A write by anybody: the informer keeps what it has, and stays up to date only
\* if nothing changed.
LEMMA WriteEffect ==
    ASSUME ProjectTypeOK, NEW new \in ProjectObject, Write(new)
    PROVE  /\ cr' = new
           /\ pcache' \in [object : ProjectObject, fresh : BOOLEAN]
           /\ pcache'.object = pcache.object
           /\ pcache'.fresh => pcache.fresh /\ new = cr
  BY DEF ProjectTypeOK, Write

\* Whether the Secret is left behind is a Boolean.
LEMMA OrphanedType ==
    ASSUME ProjectTypeOK, Orphaned
    PROVE  garbage' \in BOOLEAN
  BY DEF ProjectTypeOK, Orphaned, SecretExists

\* A versioned write of the reconcile's own object is accepted for the stored
\* version only; the reconcile goes on at "then" only if it was.
LEMMA OwnWriteEffect ==
    ASSUME ProjectTypeOK, NEW new \in ProjectObject,
           NEW then \in Steps, NEW otherwise \in Steps, OwnWrite(new, then, otherwise)
    PROVE  /\ cr' \in ProjectObject
           /\ pcache' \in [object : ProjectObject, fresh : BOOLEAN]
           /\ pcache'.object = pcache.object
           /\ pcache'.fresh => pcache.fresh /\ cr' = cr
           /\ pr' \in Reconciles /\ budget' \in Budgets
           /\ cr' = cr \/ (cr' = new /\ pr.fresh /\ cr.exists)
           /\ pr'.pc \in {then, otherwise}
           /\ pr'.pc = then /\ then # otherwise => cr' = new /\ cr.exists
<1>1. CASE /\ pr.fresh /\ cr.exists /\ Write(new)
           /\ NoFault /\ Proceed(then)
  BY <1>1, WriteEffect, ProceedEffect, BudgetType
<1>2. CASE /\ pr.fresh /\ cr.exists /\ Write(new) /\ Fault
           /\ pr' = IF otherwise = "idle" THEN NoReconcile
                    ELSE [pr EXCEPT !.pc = otherwise, !.fresh = new = cr]
  <2>1. pr' \in Reconciles /\ pr'.pc = otherwise
    <3>1. CASE otherwise = "idle"
      BY <1>2, <3>1, IdleType DEF NoReconcile
    <3>2. CASE otherwise # "idle"
      BY <1>2, <3>2 DEF ProjectTypeOK, Reconciles
    <3> QED
      BY <3>1, <3>2
  <2> QED
    BY <1>2, <2>1, WriteEffect, BudgetType
<1>3. CASE /\ NoFault \/ Fault
           /\ Proceed(otherwise) /\ UNCHANGED <<cr, pcache>>
  <2>1. pr' \in Reconciles /\ pr'.pc = otherwise /\ budget' \in Budgets
    BY <1>3, ProceedEffect, BudgetType
  <2> QED
    BY <1>3, <2>1 DEF ProjectTypeOK
<1> QED
  BY <1>1, <1>2, <1>3 DEF OwnWrite

\* The values written to the resource are resources.
LEMMA ObjectTypes ==
    ASSUME NEW object \in ProjectObject
    PROVE  /\ \A b \in BOOLEAN : [object EXCEPT !.finalizer = b] \in ProjectObject
           /\ \A phase \in {"None", "Pending", "Failed", "Ready"} :
                [object EXCEPT !.phase = phase] \in ProjectObject
           /\ \A managed \in SUBSET Grants, synced \in {"none", "no", "yes"} :
                [object EXCEPT !.phase = "Ready", !.managed = managed,
                               !.synced = synced] \in ProjectObject
           /\ [object EXCEPT !.deleting = TRUE] \in ProjectObject
           /\ \A b \in BOOLEAN : [object EXCEPT !.rotate = b] \in ProjectObject
  BY DEF ProjectObject

\* What users write is a resource; spec says nothing of life and finalizer.
LEMMA SpecsTypes ==
    ASSUME NEW object \in ProjectObject, NEW new \in Specs(object)
    PROVE  /\ new \in ProjectObject
           /\ new.exists = object.exists /\ new.deleting = object.deleting
           /\ new.finalizer = object.finalizer
<1>1. PICK wish \in Wishes : new = Specify(object, wish)
  BY DEF Specs
<1>2. wish \in Wish
  BY ProjectAssumption
<1> QED
  BY <1>1, <1>2 DEF Specify, Wish, ProjectObject

LEMMA NewTypes ==
    ASSUME NEW spec \in Specs(Absent)
    PROVE  LET new == [spec EXCEPT !.exists = TRUE]
           IN  /\ new \in ProjectObject /\ new.exists
               /\ ~new.finalizer /\ ~new.deleting
<1>1. spec \in ProjectObject /\ ~spec.finalizer /\ ~spec.deleting
  BY SpecsTypes, IdleType DEF Absent
<1> QED
  BY <1>1 DEF ProjectObject

\* A step that leaves the stored resource, the informer and the instance alone
\* keeps the control part if it ends the reconcile or goes on with the same work.
LEMMA ControlKept ==
    ASSUME Control, UNCHANGED <<cr, pcache, instance>>,
           \/ pr'.pc \in {"idle", "failed"}
           \/ pr.pc \in WorkSteps /\ pr'.pc \in WorkSteps
           \/ pr.pc = "delete" /\ pr'.pc = "release"
    PROVE  Control'
  BY DEF Control, FreshCopy, WorkUnderFinalizer, CacheTrusted, DeletionSeen,
         FinalizerForLiving, ReleaseIsFinal, WorkSteps, Guarded

-----------------------------------------------------------------------------
(* One lemma per step of the reconcile: it preserves the invariant *)

USE DEF At

LEMMA StartInv ==
    ASSUME IInv, Start
    PROVE  IInv'
<1> USE DEF IInv
<1> DEFINE object == pcache.object
<1>1. Route(object) \in Steps
  BY DEF Route, Steps
<1>2. /\ UNCHANGED <<cr, pcache, secretVars, instance, sonarVars, requested>>
      /\ budget' \in Budgets
      /\ pr' = [pc |-> Route(object), object |-> object,
                fresh |-> pcache.fresh, found |-> FALSE]
  BY BudgetType DEF Start, PickUp, NoReconcile
<1>3. pr' \in Reconciles /\ pr'.pc = Route(object) /\ pr'.fresh = pcache.fresh
  BY <1>1, <1>2 DEF ProjectTypeOK, Reconciles
<1>4. Route(object) \notin {"store", "branch"}
  BY DEF Route
<1>5. ProjectTypeOK'
  BY <1>2, <1>3, <1>4 DEF ProjectTypeOK, Reconciles, Budgets, secretVars, sonarVars
<1>6. object.exists
  BY DEF Start, PickUp
<1>7. Route(object) \in WorkSteps => Guarded(object) /\ instance # "Gone"
  BY <1>6 DEF Route, WorkSteps, Guarded
<1>8. Route(object) = "finalizer" => ~object.deleting
  BY DEF Route
<1>9. Route(object) \in {"delete", "release"} /\ instance # "Gone" => object.deleting
  BY DEF Route, ProjectTypeOK
<1>10. Control'
  <2>1. WorkUnderFinalizer'
    BY <1>2, <1>3, <1>7 DEF Control, WorkUnderFinalizer, CacheTrusted
  <2>2. FinalizerForLiving'
    BY <1>2, <1>3, <1>8 DEF Control, FinalizerForLiving, FreshCopy
  <2>3. ReleaseIsFinal'
    BY <1>2, <1>3, <1>9 DEF Control, ReleaseIsFinal, DeletionSeen, Guarded
  <2> QED
    BY <1>2, <2>1, <2>2, <2>3 DEF Control, FreshCopy, CacheTrusted, DeletionSeen, Guarded
<1> QED
  BY <1>5, <1>10

LEMMA AddFinalizerInv ==
    ASSUME IInv, AddFinalizer, Orphaned,
           UNCHANGED <<secret, secretSeen, sonarVars, requested>>
    PROVE  IInv'
<1> USE DEF IInv
<1> DEFINE new == [cr EXCEPT !.finalizer = TRUE]
<1>1. /\ new \in ProjectObject /\ new.finalizer = TRUE /\ new.exists = cr.exists
      /\ new.deleting = cr.deleting
  <2>1. cr \in ProjectObject
    BY DEF ProjectTypeOK
  <2>2. new.finalizer = TRUE /\ new.exists = cr.exists /\ new.deleting = cr.deleting
    BY <2>1 DEF ProjectObject
  <2> QED
    BY <2>1, <2>2, ObjectTypes
<1>2. /\ OwnWrite(new, "get", "idle") /\ pr.pc = "finalizer"
      /\ UNCHANGED <<secret, secretSeen, instance, sonarVars, requested>>
  BY DEF AddFinalizer
<1> HIDE DEF new
<1>3. /\ cr' \in ProjectObject /\ garbage' \in BOOLEAN
      /\ pcache' \in [object : ProjectObject, fresh : BOOLEAN]
      /\ pcache'.object = pcache.object
      /\ pcache'.fresh => pcache.fresh /\ cr' = cr
      /\ pr' \in Reconciles /\ budget' \in Budgets
      /\ cr' = cr \/ (cr' = new /\ pr.fresh /\ cr.exists)
      /\ pr'.pc \in {"get", "idle"}
      /\ pr'.pc = "get" => cr' = new /\ cr.exists
  BY <1>1, <1>2, OwnWriteEffect, OrphanedType DEF Steps
<1>4. ProjectTypeOK'
  BY <1>2, <1>3 DEF ProjectTypeOK, Reconciles, Budgets, sonarVars
<1>5. WorkUnderFinalizer' /\ FinalizerForLiving' /\ ReleaseIsFinal'
  BY <1>1, <1>3 DEF WorkUnderFinalizer, FinalizerForLiving, ReleaseIsFinal, WorkSteps
<1>6. FreshCopy' /\ CacheTrusted' /\ DeletionSeen'
  BY <1>1, <1>2, <1>3
  DEF Control, FreshCopy, CacheTrusted, DeletionSeen, FinalizerForLiving, Guarded
<1> QED
  BY <1>4, <1>5, <1>6 DEF Control

LEMMA PublishPhaseInv ==
    ASSUME IInv, PublishPhase, Orphaned,
           UNCHANGED <<secret, secretSeen, sonarVars, requested>>
    PROVE  IInv'
<1> USE DEF IInv
<1> DEFINE new == [cr EXCEPT !.phase = IF At("failed") THEN "Failed" ELSE "Pending"]
<1>1. /\ new \in ProjectObject /\ new.finalizer = cr.finalizer /\ new.exists = cr.exists
      /\ new.deleting = cr.deleting
  <2>1. cr \in ProjectObject
    BY DEF ProjectTypeOK
  <2>2. /\ new.finalizer = cr.finalizer /\ new.exists = cr.exists
        /\ new.deleting = cr.deleting
    BY <2>1 DEF ProjectObject
  <2> QED
    BY <2>1, <2>2, ObjectTypes
<1>2. /\ OwnWrite(new, "idle", "idle")
      /\ UNCHANGED <<secret, secretSeen, instance, sonarVars, requested>>
  BY DEF PublishPhase
<1> HIDE DEF new
<1>3. /\ cr' \in ProjectObject /\ garbage' \in BOOLEAN
      /\ pcache' \in [object : ProjectObject, fresh : BOOLEAN]
      /\ pcache'.object = pcache.object
      /\ pcache'.fresh => pcache.fresh /\ cr' = cr
      /\ pr' \in Reconciles /\ budget' \in Budgets
      /\ cr' = cr \/ cr' = new
      /\ pr'.pc = "idle"
  BY <1>1, <1>2, OwnWriteEffect, OrphanedType DEF Steps
<1>4. ProjectTypeOK'
  BY <1>2, <1>3 DEF ProjectTypeOK, Reconciles, Budgets, sonarVars
<1>5. Control'
  BY <1>1, <1>2, <1>3
  DEF Control, FreshCopy, WorkUnderFinalizer, CacheTrusted, DeletionSeen,
      FinalizerForLiving, ReleaseIsFinal, WorkSteps, Guarded
<1> QED
  BY <1>4, <1>5

LEMMA PublishReadyInv ==
    ASSUME IInv, PublishReady
    PROVE  IInv'
<1> USE DEF IInv
<1> DEFINE new == [cr EXCEPT !.phase = "Ready", !.managed = pr.object.managed,
                             !.synced = pr.object.synced]
<1>1. pr.object.managed \in SUBSET Grants /\ pr.object.synced \in {"none", "no", "yes"}
  BY DEF ProjectTypeOK, ProjectObject
<1>2. /\ new \in ProjectObject /\ new.finalizer = cr.finalizer /\ new.exists = cr.exists
      /\ new.deleting = cr.deleting
  <2>1. cr \in ProjectObject
    BY DEF ProjectTypeOK
  <2>2. /\ new.finalizer = cr.finalizer /\ new.exists = cr.exists
        /\ new.deleting = cr.deleting
    BY <2>1 DEF ProjectObject
  <2> QED
    BY <1>1, <2>1, <2>2, ObjectTypes
<1>3. /\ OwnWrite(new, "idle", "idle")
      /\ UNCHANGED <<secretVars, instance, sonarVars, requested>>
  BY DEF PublishReady
<1> HIDE DEF new
<1>4. /\ cr' \in ProjectObject
      /\ pcache' \in [object : ProjectObject, fresh : BOOLEAN]
      /\ pcache'.object = pcache.object
      /\ pcache'.fresh => pcache.fresh /\ cr' = cr
      /\ pr' \in Reconciles /\ budget' \in Budgets
      /\ cr' = cr \/ cr' = new
      /\ pr'.pc = "idle"
  BY <1>2, <1>3, OwnWriteEffect DEF Steps
<1>5. ProjectTypeOK'
  BY <1>3, <1>4 DEF ProjectTypeOK, Reconciles, Budgets, secretVars, sonarVars
<1>6. Control'
  BY <1>2, <1>3, <1>4
  DEF Control, FreshCopy, WorkUnderFinalizer, CacheTrusted, DeletionSeen,
      FinalizerForLiving, ReleaseIsFinal, WorkSteps, Guarded
<1> QED
  BY <1>5, <1>6

LEMMA ReleaseFinalizerInv ==
    ASSUME IInv, ReleaseFinalizer, Orphaned,
           UNCHANGED <<secret, secretSeen, sonarVars, requested>>
    PROVE  IInv'
<1> USE DEF IInv
<1> DEFINE new == IF cr.deleting THEN Absent ELSE [cr EXCEPT !.finalizer = FALSE]
<1>1. new \in ProjectObject /\ new.finalizer = FALSE
  <2>1. cr \in ProjectObject /\ [cr EXCEPT !.finalizer = FALSE] \in ProjectObject
    BY ObjectTypes DEF ProjectTypeOK
  <2>2. [cr EXCEPT !.finalizer = FALSE].finalizer = FALSE
    BY <2>1 DEF ProjectObject
  <2>3. Absent \in ProjectObject /\ Absent.finalizer = FALSE
    BY IdleType DEF Absent
  <2> QED
    BY <2>1, <2>2, <2>3
<1>2. /\ OwnWrite(new, "idle", "idle") /\ pr.pc = "release"
      /\ UNCHANGED <<secret, secretSeen, instance, sonarVars, requested>>
  BY DEF ReleaseFinalizer
<1> HIDE DEF new
<1>3. /\ cr' \in ProjectObject /\ garbage' \in BOOLEAN
      /\ pcache' \in [object : ProjectObject, fresh : BOOLEAN]
      /\ pcache'.object = pcache.object
      /\ pcache'.fresh => pcache.fresh /\ cr' = cr
      /\ pr' \in Reconciles /\ budget' \in Budgets
      /\ cr' = cr \/ cr' = new
      /\ pr'.pc = "idle"
  BY <1>1, <1>2, OwnWriteEffect, OrphanedType DEF Steps
<1>4. ProjectTypeOK'
  BY <1>2, <1>3 DEF ProjectTypeOK, Reconciles, Budgets, sonarVars
<1>5. CacheTrusted'
  BY <1>1, <1>2, <1>3 DEF Control, CacheTrusted, ReleaseIsFinal, Guarded
<1>6. Control'
  BY <1>1, <1>2, <1>3, <1>5
  DEF Control, FreshCopy, WorkUnderFinalizer, DeletionSeen,
      FinalizerForLiving, ReleaseIsFinal, WorkSteps, Guarded
<1> QED
  BY <1>4, <1>6

LEMMA LifecycleInv ==
    ASSUME IInv, Lifecycle
    PROVE  IInv'
  BY AddFinalizerInv, PublishPhaseInv, ReleaseFinalizerInv DEF Lifecycle, Conclude

\* The branch is asserted if spec names one.
LEMMA AfterGetEffect ==
    ASSUME ProjectTypeOK, Proceed(AfterGet)
    PROVE  /\ pr' \in Reconciles /\ pr'.pc \in {"grants", "branch"}
           /\ pr'.pc = "branch" => pr'.object.branch # "unset"
<1>1. AfterGet \in {"grants", "branch"} /\ AfterGet \in Steps
  BY DEF AfterGet, Steps
<1>2. pr' \in Reconciles /\ pr'.pc = AfterGet /\ pr'.object = pr.object
  BY <1>1, ProceedEffect
<1> QED
  BY <1>1, <1>2 DEF AfterGet

LEMMA GetProjectInv ==
    ASSUME IInv, GetProject
    PROVE  IInv'
<1> USE DEF IInv
<1>1. /\ UNCHANGED <<cr, pcache, secretVars, instance, sonarVars, requested>>
      /\ NoFault \/ Fault
      /\ Proceed(AfterGet) \/ Proceed("create") \/ Proceed("idle")
  BY DEF GetProject, CallFails
<1>2. /\ pr' \in Reconciles /\ pr'.pc \in {"grants", "branch", "create", "idle"}
      /\ pr'.pc = "branch" => pr'.object.branch # "unset"
      /\ budget' \in Budgets
  BY <1>1, AfterGetEffect, ProceedEffect, BudgetType DEF Steps
<1>3. ProjectTypeOK'
  BY <1>1, <1>2 DEF ProjectTypeOK, Reconciles, Budgets, secretVars, sonarVars
<1>4. Control'
  BY <1>1, <1>2, ControlKept DEF GetProject, WorkSteps
<1> QED
  BY <1>3, <1>4

LEMMA CreateProjectInv ==
    ASSUME IInv, CreateProject
    PROVE  IInv'
<1> USE DEF IInv
<1>1. /\ UNCHANGED <<cr, pcache, secretVars, instance, granted, token, requested>>
      /\ NoFault \/ Fault
      /\ Proceed(AfterGet) \/ Proceed("failed")
      /\ project' \in BOOLEAN /\ branch' \in Branches
  BY DEF CreateProject, CallFails, ProjectTypeOK
<1>2. /\ pr' \in Reconciles /\ pr'.pc \in {"grants", "branch", "failed"}
      /\ pr'.pc = "branch" => pr'.object.branch # "unset"
      /\ budget' \in Budgets
  BY <1>1, AfterGetEffect, ProceedEffect, BudgetType DEF Steps
<1>3. ProjectTypeOK'
  BY <1>1, <1>2 DEF ProjectTypeOK, Reconciles, Budgets, secretVars
<1>4. Control'
  BY <1>1, <1>2, ControlKept DEF CreateProject, WorkSteps
<1> QED
  BY <1>3, <1>4

LEMMA AssertBranchInv ==
    ASSUME IInv, AssertBranch
    PROVE  IInv'
<1> USE DEF IInv
<1>1. /\ UNCHANGED <<cr, pcache, secretVars, instance, project, granted, token, requested>>
      /\ NoFault \/ Fault
      /\ Report("yes") \/ Report("no")
  BY DEF AssertBranch, CallFails
<1>2. pr' \in Reconciles /\ pr'.pc = "grants" /\ budget' \in Budgets
  <2>1. PICK synced \in {"no", "yes"} : Report(synced)
    BY <1>1
  <2>2. [pr.object EXCEPT !.synced = synced] \in ProjectObject
    BY DEF ProjectTypeOK, ProjectObject
  <2>3. pr' = [pr EXCEPT !.pc = "grants", !.object = [pr.object EXCEPT !.synced = synced]]
    BY <2>1 DEF Report, ProjectTypeOK
  <2>4. pr' \in Reconciles /\ pr'.pc = "grants"
    BY <2>2, <2>3 DEF ProjectTypeOK, Reconciles, Steps
  <2> QED
    BY <1>1, <2>4, BudgetType
<1>3. branch' \in Branches
  BY DEF AssertBranch, ProjectTypeOK, ProjectObject
<1>4. ProjectTypeOK'
  BY <1>1, <1>2, <1>3 DEF ProjectTypeOK, Reconciles, Budgets, secretVars
<1>5. Control'
  BY <1>1, <1>2, ControlKept DEF AssertBranch, WorkSteps
<1> QED
  BY <1>4, <1>5

LEMMA ApplyGrantsInv ==
    ASSUME IInv, ApplyGrants
    PROVE  IInv'
<1> USE DEF IInv
<1>1. /\ UNCHANGED <<cr, pcache, secretVars, instance, project, branch, token, requested>>
      /\ NoFault \/ Fault
      /\ \E done \in SUBSET (ToRevoke \cup ToGrant) : Carried(done)
      /\ \/ pr' = [pr EXCEPT !.pc = AfterGrants, !.object.managed = pr.object.want]
         \/ Proceed(AfterGrants)
  BY DEF ApplyGrants
<1>2. AfterGrants \in {"token", "ready"}
  BY DEF AfterGrants
<1>3. pr' \in Reconciles /\ pr'.pc = AfterGrants
  <2>1. CASE pr' = [pr EXCEPT !.pc = AfterGrants, !.object.managed = pr.object.want]
    BY <1>2, <2>1 DEF ProjectTypeOK, Reconciles, ProjectObject, Steps
  <2>2. CASE Proceed(AfterGrants)
    BY <1>2, <2>2, ProceedEffect DEF Steps
  <2> QED
    BY <1>1, <2>1, <2>2
<1>4. granted' \in [Grants -> {"no", "operator", "ui"}]
  BY <1>1 DEF Carried, ProjectTypeOK
<1>5. budget' \in Budgets
  BY <1>1, BudgetType
<1>6. ProjectTypeOK'
  BY <1>1, <1>2, <1>3, <1>4, <1>5 DEF ProjectTypeOK, Reconciles, Budgets, secretVars
<1>7. Control'
  BY <1>1, <1>2, <1>3, ControlKept DEF ApplyGrants, WorkSteps
<1> QED
  BY <1>6, <1>7

LEMMA LookForSecretInv ==
    ASSUME IInv, LookForSecret
    PROVE  IInv'
<1> USE DEF IInv
<1> DEFINE next == IF pr.object.rotate THEN "clear"
                   ELSE IF secretSeen THEN "ready" ELSE "revoke"
<1>1. /\ UNCHANGED <<cr, pcache, secretVars, instance, sonarVars, requested>>
      /\ budget' \in Budgets
      /\ pr' = [pr EXCEPT !.found = secretSeen, !.pc = next]
  BY BudgetType DEF LookForSecret
<1>2. pr' \in Reconciles /\ pr'.pc \in {"clear", "ready", "revoke"}
  BY <1>1 DEF ProjectTypeOK, Reconciles, Steps
<1>3. ProjectTypeOK'
  BY <1>1, <1>2 DEF ProjectTypeOK, Reconciles, Budgets, secretVars, sonarVars
<1>4. Control'
  BY <1>1, <1>2, ControlKept DEF LookForSecret, WorkSteps
<1> QED
  BY <1>3, <1>4

LEMMA ClearAnnotationInv ==
    ASSUME IInv, ClearAnnotation
    PROVE  IInv'
<1> USE DEF IInv
<1> DEFINE new == [cr EXCEPT !.rotate = FALSE]
<1>1. cr \in ProjectObject /\ cr.exists /\ cr.finalizer
  BY DEF ClearAnnotation, ProjectTypeOK, Control, WorkUnderFinalizer, WorkSteps
<1>2. /\ new \in ProjectObject /\ new.finalizer = cr.finalizer /\ new.exists = cr.exists
      /\ new.deleting = cr.deleting
  <2>1. /\ new.finalizer = cr.finalizer /\ new.exists = cr.exists
        /\ new.deleting = cr.deleting
    BY <1>1 DEF ProjectObject
  <2> QED
    BY <1>1, <2>1, ObjectTypes
<1>3. Refreshed \in ProjectObject
  BY DEF Refreshed, ProjectTypeOK, ProjectObject
<1>4. /\ UNCHANGED <<secretVars, instance, sonarVars, requested>>
      /\ pr.pc = "clear"
      /\ NoFault \/ Fault
      /\ Write(new) \/ UNCHANGED <<cr, pcache>>
      /\ \/ pr' = [pr EXCEPT !.pc = "revoke", !.object = Refreshed, !.fresh = TRUE]
         \/ Proceed("idle")
  BY DEF ClearAnnotation
<1> HIDE DEF new
<1>5. pr' \in Reconciles /\ pr'.pc \in {"revoke", "idle"} /\ budget' \in Budgets
  <2>1. CASE pr' = [pr EXCEPT !.pc = "revoke", !.object = Refreshed, !.fresh = TRUE]
    BY <1>3, <1>4, <2>1, BudgetType DEF ProjectTypeOK, Reconciles, Steps
  <2>2. CASE Proceed("idle")
    BY <1>4, <2>2, ProceedEffect, BudgetType DEF Steps
  <2> QED
    BY <1>4, <2>1, <2>2
<1>6. /\ cr' \in ProjectObject
      /\ pcache' \in [object : ProjectObject, fresh : BOOLEAN]
      /\ pcache'.object = pcache.object
      /\ pcache'.fresh => pcache.fresh /\ cr' = cr
      /\ cr' = cr \/ cr' = new
  BY <1>1, <1>2, <1>4, WriteEffect DEF ProjectTypeOK
<1>7. ProjectTypeOK'
  BY <1>4, <1>5, <1>6 DEF ProjectTypeOK, Reconciles, Budgets, secretVars, sonarVars
<1>8. Control'
  BY <1>1, <1>2, <1>4, <1>5, <1>6
  DEF Control, FreshCopy, WorkUnderFinalizer, CacheTrusted, DeletionSeen,
      FinalizerForLiving, ReleaseIsFinal, WorkSteps, Guarded
<1> QED
  BY <1>7, <1>8

LEMMA RevokeTokenInv ==
    ASSUME IInv, RevokeToken
    PROVE  IInv'
<1> USE DEF IInv
<1> DEFINE next == IF pr.found THEN "delete-secret" ELSE "generate"
<1>1. /\ UNCHANGED <<cr, pcache, garbage, secretSeen, instance, project, branch, granted>>
      /\ NoFault \/ Fault
      /\ Proceed(next) /\ At("revoke")
      /\ token' \in BOOLEAN /\ requested' \in Nat /\ secret' \in {"absent", "live", "dead"}
  <2>1. UNCHANGED <<cr, pcache, garbage, secretSeen, instance, project, branch, granted>>
    BY DEF RevokeToken
  <2>2. Proceed(next) /\ At("revoke")
    BY DEF RevokeToken
  <2>3. NoFault \/ Fault
    BY DEF RevokeToken, CallFails
  <2>4. \/ token' = FALSE
        \/ token' = token
    BY Zenon DEF RevokeToken
  <2>5. \/ secret' = "dead" /\ requested' = IF requested > 0 THEN requested - 1 ELSE 0
        \/ secret' = secret /\ requested' = requested
    BY Zenon DEF RevokeToken
  <2>6. token' \in BOOLEAN
    BY Zenon, <2>4 DEF ProjectTypeOK
  <2>7. requested' \in Nat /\ secret' \in {"absent", "live", "dead"}
    BY <2>5 DEF ProjectTypeOK
  <2> QED
    BY <2>1, <2>2, <2>3, <2>6, <2>7
<1>2. pr' \in Reconciles /\ pr'.pc \in {"delete-secret", "generate"} /\ budget' \in Budgets
  <2>1. next \in Steps /\ next \in {"delete-secret", "generate"}
    BY DEF Steps
  <2> HIDE DEF next
  <2> QED
    BY <1>1, <2>1, ProceedEffect, BudgetType
<1>3. ProjectTypeOK'
  BY <1>1, <1>2 DEF ProjectTypeOK, Reconciles, Budgets
<1>4. Control'
  BY <1>1, <1>2, ControlKept DEF RevokeToken, WorkSteps
<1> QED
  BY <1>3, <1>4

LEMMA DeleteOldSecretInv ==
    ASSUME IInv, DeleteOldSecret
    PROVE  IInv'
<1> USE DEF IInv
<1>1. /\ UNCHANGED <<cr, pcache, secretSeen, instance, sonarVars, requested>>
      /\ NoFault \/ Fault
      /\ Proceed("generate") \/ Proceed("idle")
      /\ garbage' \in BOOLEAN /\ secret' \in {"absent", "live", "dead"}
  BY DEF DeleteOldSecret, ProjectTypeOK
<1>2. pr' \in Reconciles /\ pr'.pc \in {"generate", "idle"} /\ budget' \in Budgets
  BY <1>1, ProceedEffect, BudgetType DEF Steps
<1>3. ProjectTypeOK'
  BY <1>1, <1>2 DEF ProjectTypeOK, Reconciles, Budgets, sonarVars
<1>4. Control'
  BY <1>1, <1>2, ControlKept DEF DeleteOldSecret, WorkSteps
<1> QED
  BY <1>3, <1>4

LEMMA GenerateTokenInv ==
    ASSUME IInv, GenerateToken
    PROVE  IInv'
<1> USE DEF IInv
<1>1. /\ UNCHANGED <<cr, pcache, secretVars, instance, project, branch, granted, requested>>
      /\ NoFault \/ Fault
      /\ (Proceed("store") /\ token' = TRUE) \/ Proceed("idle")
      /\ token' \in BOOLEAN
  BY DEF GenerateToken, CallFails, ProjectTypeOK
<1>2. /\ pr' \in Reconciles /\ pr'.pc \in {"store", "idle"} /\ budget' \in Budgets
      /\ pr'.pc = "store" => token' = TRUE
  BY <1>1, ProceedEffect, BudgetType DEF Steps
<1>3. ProjectTypeOK'
  BY <1>1, <1>2 DEF ProjectTypeOK, Reconciles, Budgets, secretVars
<1>4. Control'
  BY <1>1, <1>2, ControlKept DEF GenerateToken, WorkSteps
<1> QED
  BY <1>3, <1>4

LEMMA StoreTokenInv ==
    ASSUME IInv, StoreToken
    PROVE  IInv'
<1> USE DEF IInv
<1>1. /\ UNCHANGED <<cr, pcache, secretSeen, instance, sonarVars, requested>>
      /\ NoFault \/ Fault
      /\ Proceed("ready") \/ Proceed("idle")
      /\ garbage' \in BOOLEAN /\ secret' \in {"absent", "live", "dead"}
  BY DEF StoreToken, ProjectTypeOK, ProjectObject
<1>2. pr' \in Reconciles /\ pr'.pc \in {"ready", "idle"} /\ budget' \in Budgets
  BY <1>1, ProceedEffect, BudgetType DEF Steps
<1>3. ProjectTypeOK'
  BY <1>1, <1>2 DEF ProjectTypeOK, Reconciles, Budgets, sonarVars
<1>4. Control'
  BY <1>1, <1>2, ControlKept DEF StoreToken, WorkSteps
<1> QED
  BY <1>3, <1>4

LEMMA DeleteProjectInv ==
    ASSUME IInv, DeleteProject
    PROVE  IInv'
<1> USE DEF IInv
<1>1. /\ UNCHANGED <<cr, pcache, secretVars, instance, branch, token, requested>>
      /\ NoFault \/ Fault
      /\ Proceed("release") \/ Proceed("idle")
      /\ project' \in BOOLEAN /\ granted' \in [Grants -> {"no", "operator", "ui"}]
  BY DEF DeleteProject, CallFails, ProjectTypeOK
<1>2. pr' \in Reconciles /\ pr'.pc \in {"release", "idle"} /\ budget' \in Budgets
  BY <1>1, ProceedEffect, BudgetType DEF Steps
<1>3. ProjectTypeOK'
  BY <1>1, <1>2 DEF ProjectTypeOK, Reconciles, Budgets, secretVars
<1>4. Control'
  BY <1>1, <1>2, ControlKept DEF DeleteProject
<1> QED
  BY <1>3, <1>4

-----------------------------------------------------------------------------
(* The surroundings preserve it *)

\* A user's write keeps the finalizer where it is, and is refused to nobody.
LEMMA UserWritesInv ==
    ASSUME IInv, NEW new \in ProjectObject, UserWrites(new), Orphaned,
           UNCHANGED <<secret, secretSeen, instance, sonarVars>>,
           requested' \in Nat, budget' \in Budgets,
           \/ ~cr.exists /\ ~new.finalizer /\ ~new.deleting
           \/ cr.exists /\ new.exists /\ new.finalizer = cr.finalizer
                /\ (new.deleting = cr.deleting \/ new.deleting)
           \/ ~cr.finalizer /\ new = Absent
    PROVE  IInv'
<1> USE DEF IInv
<1>1. /\ cr' = new /\ garbage' \in BOOLEAN
      /\ pcache' \in [object : ProjectObject, fresh : BOOLEAN]
      /\ pcache'.object = pcache.object
      /\ pcache'.fresh => pcache.fresh /\ new = cr
  BY WriteEffect, OrphanedType DEF UserWrites
<1>2. /\ pr' \in Reconciles /\ pr'.pc = pr.pc /\ pr'.object = pr.object
      /\ pr'.fresh => pr.fresh /\ new = cr
  BY DEF UserWrites, ProjectTypeOK, Reconciles
<1>3. ProjectTypeOK'
  BY <1>1, <1>2 DEF ProjectTypeOK, Reconciles, Budgets, sonarVars
<1>4. Control'
  BY <1>1, <1>2
  DEF Control, FreshCopy, WorkUnderFinalizer, CacheTrusted, DeletionSeen,
      FinalizerForLiving, ReleaseIsFinal, WorkSteps, Guarded, Absent
<1> QED
  BY <1>3, <1>4

LEMMA UserEditsInv ==
    ASSUME IInv, UserEdits
    PROVE  IInv'
<1> USE DEF IInv
<1>1. cr \in ProjectObject /\ Absent \in ProjectObject /\ requested \in Nat
  BY IdleType DEF ProjectTypeOK
<1>2. /\ budget' \in Budgets /\ Orphaned
      /\ UNCHANGED <<secret, secretSeen, instance, sonarVars>>
  BY BudgetType DEF UserEdits
<1>3. CASE /\ ~cr.exists /\ UNCHANGED requested
           /\ \E spec \in Specs(Absent) : UserWrites([spec EXCEPT !.exists = TRUE])
  <2>1. PICK spec \in Specs(Absent) : UserWrites([spec EXCEPT !.exists = TRUE])
    BY <1>3
  <2> DEFINE new == [spec EXCEPT !.exists = TRUE]
  <2>2. new \in ProjectObject /\ ~new.finalizer /\ ~new.deleting
    BY NewTypes
  <2>3. UserWrites(new)
    BY <2>1
  <2> HIDE DEF new
  <2> QED
    BY <1>1, <1>2, <1>3, <2>2, <2>3, UserWritesInv
<1>4. CASE /\ Editable /\ UNCHANGED requested
           /\ \E new \in Specs(cr) : UserWrites(new)
  <2>1. PICK new \in Specs(cr) : UserWrites(new)
    BY <1>4
  <2>2. /\ new \in ProjectObject /\ new.exists = cr.exists
        /\ new.finalizer = cr.finalizer /\ new.deleting = cr.deleting
    BY <1>1, SpecsTypes
  <2> QED
    BY <1>1, <1>2, <1>4, <2>1, <2>2, UserWritesInv DEF Editable
<1>5. CASE Editable /\ requested' = requested + 1 /\ UserWrites([cr EXCEPT !.rotate = TRUE])
  <2> DEFINE new == [cr EXCEPT !.rotate = TRUE]
  <2>1. new \in ProjectObject
    BY <1>1, ObjectTypes
  <2>2. /\ new.exists = cr.exists /\ new.finalizer = cr.finalizer
        /\ new.deleting = cr.deleting
    BY <1>1 DEF ProjectObject
  <2>3. UserWrites(new) /\ requested' \in Nat
    BY <1>1, <1>5
  <2> HIDE DEF new
  <2> QED
    BY <1>2, <1>5, <2>1, <2>2, <2>3, UserWritesInv DEF Editable
<1>6. CASE UserDeletes /\ UNCHANGED requested
  <2>1. CASE cr.finalizer
    <3> DEFINE new == [cr EXCEPT !.deleting = TRUE]
    <3>1. new \in ProjectObject
      BY <1>1, ObjectTypes
    <3>2. new.exists = cr.exists /\ new.finalizer = cr.finalizer /\ new.deleting
      BY <1>1 DEF ProjectObject
    <3>3. UserWrites(new) /\ cr.exists
      BY <1>6, <2>1 DEF UserDeletes, Editable
    <3> HIDE DEF new
    <3> QED
      BY <1>1, <1>2, <1>6, <3>1, <3>2, <3>3, UserWritesInv
  <2>2. CASE ~cr.finalizer
    <3>1. UserWrites(Absent)
      BY <1>6, <2>2 DEF UserDeletes
    <3> QED
      BY <1>1, <1>2, <1>6, <2>2, <3>1, UserWritesInv
  <2> QED
    BY <2>1, <2>2
<1> QED
  BY <1>3, <1>4, <1>5, <1>6 DEF UserEdits

\* What happens to the Secret, its copy and the grants in SonarQube leaves the
\* resource, the informer, the instance and the reconcile alone.
LEMMA SurroundingsInv ==
    ASSUME IInv, UserDeletesSecret \/ ChangeInUI \/ CollectSecret \/ SyncSecret
    PROVE  IInv'
<1> USE DEF IInv
<1>1. UNCHANGED <<cr, pcache, instance, pr, project, token, requested>>
  BY DEF UserDeletesSecret, ChangeInUI, CollectSecret, SyncSecret, sonarVars, secretVars
<1>2. budget' \in Budgets
  <2>1. CASE UserDeletesSecret \/ ChangeInUI
    BY <2>1, BudgetType DEF UserDeletesSecret, ChangeInUI
  <2>2. CASE CollectSecret \/ SyncSecret
    BY <2>2 DEF CollectSecret, SyncSecret, ProjectTypeOK, Budgets
  <2> QED
    BY <2>1, <2>2
<1>3. /\ secret' \in {"absent", "live", "dead"}
      /\ garbage' \in BOOLEAN /\ secretSeen' \in BOOLEAN
  BY DEF UserDeletesSecret, ChangeInUI, CollectSecret, SyncSecret, SecretExists,
         ProjectTypeOK, secretVars
<1>4. granted' \in [Grants -> {"no", "operator", "ui"}] /\ branch' \in Branches
  BY DEF UserDeletesSecret, ChangeInUI, CollectSecret, SyncSecret, ProjectTypeOK, sonarVars
<1>5. ProjectTypeOK'
  BY <1>1, <1>2, <1>3, <1>4 DEF ProjectTypeOK, Budgets
<1>6. Control'
  BY <1>1
  DEF Control, FreshCopy, WorkUnderFinalizer, CacheTrusted, DeletionSeen,
      FinalizerForLiving, ReleaseIsFinal, WorkSteps, Guarded
<1> QED
  BY <1>5, <1>6

\* The informer catches up.
LEMMA SyncProjectInv ==
    ASSUME IInv, SyncProject
    PROVE  IInv'
<1> USE DEF IInv
<1>1. ProjectTypeOK'
  BY DEF SyncProject, SyncResource, Catch, ProjectTypeOK, secretVars, sonarVars
<1>2. Control'
  BY DEF SyncProject, SyncResource, Catch, Control, FreshCopy, WorkUnderFinalizer, CacheTrusted, DeletionSeen,
         FinalizerForLiving, ReleaseIsFinal, WorkSteps, Guarded
<1> QED
  BY <1>1, <1>2

\* A deleted instance does not come back.
LEMMA TurnInv ==
    ASSUME IInv, Turn
    PROVE  IInv'
<1> USE DEF IInv
<1>1. budget' \in Budgets
  BY BudgetType DEF Turn, InstanceTurns
<1>2. ProjectTypeOK'
  BY <1>1 DEF Turn, InstanceTurns, ProjectTypeOK, Budgets, secretVars, sonarVars
<1>3. Control'
  BY DEF Turn, InstanceTurns, Control, FreshCopy, WorkUnderFinalizer, CacheTrusted, DeletionSeen,
         FinalizerForLiving, ReleaseIsFinal, WorkSteps, Guarded
<1> QED
  BY <1>2, <1>3

\* A new process starts with a fresh cache and no reconcile.
LEMMA ManagerRestartInv ==
    ASSUME IInv, ManagerRestart
    PROVE  IInv'
<1> USE DEF IInv
<1>1. budget' \in Budgets
  BY BudgetType DEF ManagerRestart, Restart, Catch
<1>2. ProjectTypeOK'
  BY <1>1, IdleType
  DEF ManagerRestart, Restart, Catch, ProjectTypeOK, Budgets, Reconciles, NoReconcile, SecretExists, sonarVars
<1>3. Control'
  BY DEF ManagerRestart, Restart, Catch, NoReconcile, Control, FreshCopy, WorkUnderFinalizer, CacheTrusted,
         DeletionSeen, FinalizerForLiving, ReleaseIsFinal, WorkSteps, Guarded
<1> QED
  BY <1>2, <1>3

-----------------------------------------------------------------------------
(* The theorems *)

LEMMA InitInv == Init => IInv
<1> SUFFICES ASSUME Init PROVE IInv
  OBVIOUS
<1>1. PICK spec \in Specs(Absent) : cr = [spec EXCEPT !.exists = TRUE]
  BY DEF Init
<1>2. cr \in ProjectObject
  BY <1>1, NewTypes
<1>3. ~cr.deleting /\ ~cr.finalizer
  BY <1>1, NewTypes
<1>4. ProjectTypeOK
  BY <1>2, IdleType, ProjectAssumption DEF Init, ProjectTypeOK, Reconciles, NoReconcile
<1>5. Control
  BY <1>3
  DEF Init, NoReconcile, Control, FreshCopy, WorkUnderFinalizer, CacheTrusted, DeletionSeen,
      FinalizerForLiving, ReleaseIsFinal, WorkSteps, Guarded
<1> QED
  BY <1>4, <1>5 DEF IInv

LEMMA StutterInv == IInv /\ UNCHANGED vars => IInv'
  BY DEF IInv, ProjectTypeOK, vars, secretVars, sonarVars, Control, FreshCopy,
         WorkUnderFinalizer, CacheTrusted, DeletionSeen, FinalizerForLiving,
         ReleaseIsFinal, WorkSteps, Guarded

LEMMA NextInv == IInv /\ [Next]_vars => IInv'
  BY StartInv, LifecycleInv, GetProjectInv, CreateProjectInv,
     AssertBranchInv, ApplyGrantsInv, LookForSecretInv, ClearAnnotationInv, RevokeTokenInv,
     DeleteOldSecretInv, GenerateTokenInv, StoreTokenInv, PublishReadyInv,
     DeleteProjectInv, UserEditsInv, SurroundingsInv,
     SyncProjectInv, TurnInv, ManagerRestartInv, StutterInv
  DEF Next, Step

\* Every reachable state satisfies the inductive invariant: the variables have
\* their types, and work on SonarQube goes on only under a finalizer.
THEOREM Invariance == Spec => []IInv
  BY InitInv, NextInv, PTL DEF Spec

\* The variables of the project controller keep their types in every state.
THEOREM TypeCorrect == Spec => []ProjectTypeOK
  BY Invariance, PTL DEF IInv

LEMMA CreateStep ==
    IInv /\ [Next]_vars => [~project /\ project' => cr.exists /\ cr.finalizer]_vars
<1> SUFFICES ASSUME IInv, Next, ~project, project'
             PROVE  cr.exists /\ cr.finalizer
  BY DEF vars
<1>1. CreateProject
  BY DEF Next, Start, Step, Lifecycle, GetProject, AssertBranch, ApplyGrants,
         LookForSecret, ClearAnnotation, RevokeToken, DeleteOldSecret, GenerateToken,
         StoreToken, PublishReady, DeleteProject, UserEdits,
         UserDeletesSecret, ChangeInUI, CollectSecret, SyncProject, SyncSecret,
         Turn, ManagerRestart, sonarVars
<1> QED
  BY <1>1 DEF CreateProject, IInv, Control, WorkUnderFinalizer, WorkSteps

\* CreateProject reaches SonarQube only while the stored resource has the finalizer
\* whose removal goes with the deletion of the project: stale copies, crashes and
\* lost answers do not leave a project behind that no resource stands for.
THEOREM CreatedSafe == Spec => CreatedUnderFinalizer
  BY Invariance, CreateStep, PTL DEF Spec, CreatedUnderFinalizer

-----------------------------------------------------------------------------
(* The promise of ChildLifecycle *)

\* Only the turn of the instance spends from its bound; an instance that is not
\* there has done so, and a finalizer is released when the project is gone or the
\* instance was away.
Earned ==
    /\ budget.turns <= MaxTurns
    /\ instance # "Ready" => Excused
    /\ pr.pc = "release" => ~project \/ Excused

\* A step of the reconcile that does not go to the release.
LEMMA EarnedKept ==
    ASSUME ProjectTypeOK, Earned, UNCHANGED instance,
           NoFault \/ Fault \/ Spend("lags") \/ Spend("edits"),
           pr'.pc # "release" \/ (pr'.pc = pr.pc /\ UNCHANGED project)
    PROVE  Earned'
<1>1. budget'.turns = budget.turns
  BY DEF ProjectTypeOK, NoFault, Fault, Spend
<1> QED
  BY <1>1, ProjectAssumption DEF Earned, Excused, ProjectTypeOK

\* Where the steps of the reconcile go.
LEMMA ProceedGoesOn ==
    ASSUME ProjectTypeOK, NEW step, step # "release", Proceed(step)
    PROVE  pr'.pc # "release"
  BY DEF Proceed, NoReconcile, ProjectTypeOK

LEMMA WriteGoesOn ==
    ASSUME NEW new, NEW then, NEW otherwise, OwnWrite(new, then, otherwise),
           then # "release", otherwise # "release", ProjectTypeOK
    PROVE  pr'.pc # "release" /\ (NoFault \/ Fault)
<1>1. NoFault \/ Fault
  BY DEF OwnWrite
<1>2. CASE Proceed(then) \/ Proceed(otherwise)
  BY <1>1, <1>2, ProceedGoesOn
<1>3. CASE pr' = IF otherwise = "idle" THEN NoReconcile
                 ELSE [pr EXCEPT !.pc = otherwise, !.fresh = new = cr]
  BY <1>1, <1>3 DEF NoReconcile, ProjectTypeOK
<1> QED
  BY <1>2, <1>3 DEF OwnWrite

LEMMA StartEarned ==
    ASSUME IInv, Earned, Start
    PROVE  Earned'
<1> DEFINE object == pcache.object
<1>1. /\ UNCHANGED <<instance, project>>
      /\ NoFault \/ Spend("lags")
      /\ pr'.pc = Route(object)
  BY DEF Start, PickUp, sonarVars, NoReconcile
<1>2. Route(object) = "release" => instance # "Ready"
  BY DEF Route, IInv, ProjectTypeOK
<1>3. budget'.turns = budget.turns
  BY <1>1 DEF IInv, ProjectTypeOK, NoFault, Spend
<1> QED
  BY <1>1, <1>2, <1>3, ProjectAssumption DEF Earned, Excused, IInv, ProjectTypeOK

LEMMA StepEarned ==
    ASSUME IInv, Earned, Step
    PROVE  Earned'
<1> USE DEF IInv
<1>1. CASE Lifecycle
  <2>1. UNCHANGED <<instance, project>> /\ pr'.pc # "release" /\ (NoFault \/ Fault)
    BY <1>1, WriteGoesOn
    DEF Lifecycle, Conclude, AddFinalizer, PublishPhase, ReleaseFinalizer, sonarVars
  <2> QED
    BY <2>1, EarnedKept
<1>2. CASE GetProject
  BY <1>2, ProceedGoesOn, EarnedKept DEF GetProject, CallFails, AfterGet
<1>3. CASE CreateProject
  BY <1>3, ProceedGoesOn, EarnedKept DEF CreateProject, CallFails, AfterGet
<1>4. CASE ApplyGrants
  <2>1. UNCHANGED instance /\ (NoFault \/ Fault)
    BY <1>4 DEF ApplyGrants
  <2>2. \/ pr' = [pr EXCEPT !.pc = AfterGrants, !.object.managed = pr.object.want]
        \/ Proceed(AfterGrants)
    BY <1>4 DEF ApplyGrants
  <2>3. AfterGrants # "release"
    BY DEF AfterGrants
  <2>4. pr'.pc # "release"
    BY <2>2, <2>3, ProceedGoesOn DEF ProjectTypeOK
  <2> QED
    BY <2>1, <2>4, EarnedKept
<1>5. CASE LookForSecret
  <2>1. UNCHANGED instance /\ (NoFault \/ Spend("lags")) /\ pr'.pc # "release"
    BY <1>5 DEF LookForSecret, ProjectTypeOK
  <2> QED
    BY <2>1, EarnedKept
<1>6. CASE ClearAnnotation
  <2>1. UNCHANGED instance /\ (NoFault \/ Fault)
    BY <1>6 DEF ClearAnnotation
  <2>2. \/ pr' = [pr EXCEPT !.pc = "revoke", !.object = Refreshed, !.fresh = TRUE]
        \/ Proceed("idle")
    BY <1>6 DEF ClearAnnotation
  <2>3. pr'.pc # "release"
    BY <2>2, ProceedGoesOn DEF ProjectTypeOK
  <2> QED
    BY <2>1, <2>3, EarnedKept
<1>7. CASE RevokeToken
  <2>1. UNCHANGED instance /\ (NoFault \/ Fault)
    BY <1>7 DEF RevokeToken, CallFails
  <2>2. Proceed("delete-secret") \/ Proceed("generate")
    BY <1>7 DEF RevokeToken
  <2> QED
    BY <2>1, <2>2, ProceedGoesOn, EarnedKept
<1>8. CASE DeleteOldSecret
  BY <1>8, ProceedGoesOn, EarnedKept DEF DeleteOldSecret
<1>9. CASE GenerateToken
  BY <1>9, ProceedGoesOn, EarnedKept DEF GenerateToken, CallFails
<1>10. CASE StoreToken
  BY <1>10, ProceedGoesOn, EarnedKept DEF StoreToken
<1>11. CASE PublishReady
  <2>1. UNCHANGED instance /\ pr'.pc # "release" /\ (NoFault \/ Fault)
    BY <1>11, WriteGoesOn DEF PublishReady
  <2> QED
    BY <2>1, EarnedKept
<1>12. CASE DeleteProject
  <2>1. UNCHANGED instance /\ (NoFault \/ Fault)
    BY <1>12 DEF DeleteProject, CallFails
  <2>2. ~project' \/ Proceed("idle")
    BY <1>12 DEF DeleteProject
  <2>3. CASE Proceed("idle")
    BY <2>1, <2>3, ProceedGoesOn, EarnedKept
  <2>4. CASE ~project'
    <3>1. budget'.turns = budget.turns
      BY <2>1 DEF ProjectTypeOK, NoFault, Fault, Spend
    <3> QED
      BY <2>1, <2>4, <3>1, ProjectAssumption DEF Earned, Excused, ProjectTypeOK
  <2> QED
    BY <2>2, <2>3, <2>4
<1>13. CASE AssertBranch
  <2>1. UNCHANGED instance /\ (NoFault \/ Fault)
    BY <1>13 DEF AssertBranch, CallFails
  <2>2. pr'.pc = "grants"
    BY <1>13 DEF AssertBranch, Report, ProjectTypeOK
  <2> QED
    BY <2>1, <2>2, EarnedKept
<1> QED
  BY <1>1, <1>2, <1>3, <1>4, <1>5, <1>6, <1>7, <1>8, <1>9, <1>10, <1>11, <1>12,
     <1>13 DEF Step

LEMMA SurroundingsEarned ==
    ASSUME IInv, Earned,
           \/ UserEdits \/ UserDeletesSecret \/ ChangeInUI \/ CollectSecret
           \/ SyncProject \/ SyncSecret \/ Turn \/ ManagerRestart
    PROVE  Earned'
<1> USE DEF IInv
<1>1. CASE UserEdits
  <2>1. UNCHANGED <<instance, project>> /\ Spend("edits")
    BY <1>1 DEF UserEdits, sonarVars
  <2>2. pr'.pc = pr.pc
    BY <1>1 DEF UserEdits, UserDeletes, UserWrites, ProjectTypeOK
  <2> QED
    BY <2>1, <2>2, EarnedKept
<1>2. CASE UserDeletesSecret \/ ChangeInUI
  BY <1>2, EarnedKept DEF UserDeletesSecret, ChangeInUI, sonarVars
<1>3. CASE CollectSecret \/ SyncProject \/ SyncSecret
  BY <1>3, EarnedKept DEF CollectSecret, SyncProject, SyncResource, SyncSecret, sonarVars, NoFault
<1>4. CASE Turn
  <2>1. budget'.turns = budget.turns - 1 /\ UNCHANGED <<pr, project>>
    BY <1>4 DEF Turn, InstanceTurns, Spend, ProjectTypeOK, sonarVars
  <2>2. budget'.turns < MaxTurns
    BY <2>1, ProjectAssumption DEF Earned, ProjectTypeOK
  <2> QED
    BY <2>1, <2>2, ProjectAssumption DEF Earned, Excused, ProjectTypeOK
<1>5. CASE ManagerRestart
  <2>1. UNCHANGED instance /\ Fault /\ pr'.pc = "idle"
    BY <1>5 DEF ManagerRestart, Restart, NoReconcile
  <2> QED
    BY <2>1, EarnedKept
<1> QED
  BY <1>1, <1>2, <1>3, <1>4, <1>5

LEMMA InitEarned == Init => Earned
  BY ProjectAssumption DEF Init, Earned, Excused, NoReconcile

LEMMA NextEarned == IInv /\ Earned /\ [Next]_vars => Earned'
<1>1. ASSUME IInv, Earned, UNCHANGED vars
      PROVE  Earned'
  BY <1>1 DEF vars, sonarVars, Earned, Excused
<1> QED
  BY <1>1, StartEarned, StepEarned, SurroundingsEarned DEF Next

\* A step spends from one of the bounds at most.
LEMMA BudgetStep ==
    ASSUME Next
    PROVE  \/ UNCHANGED budget \/ Fault
           \/ Spend("lags") \/ Spend("edits") \/ Spend("turns")
<1>1. CASE Start
  BY <1>1 DEF Start, PickUp, NoFault
<1>2. CASE Lifecycle
  BY <1>2 DEF Lifecycle, Conclude, AddFinalizer, PublishPhase, ReleaseFinalizer, OwnWrite, NoFault
<1>3. CASE Step /\ ~Lifecycle
  BY <1>3 DEF Step, GetProject, CreateProject, ApplyGrants, LookForSecret, ClearAnnotation,
              RevokeToken, DeleteOldSecret, GenerateToken, StoreToken, PublishReady,
              AssertBranch, DeleteProject, OwnWrite, CallFails, NoFault
<1>4. CASE ~Start /\ ~Step
  BY <1>4 DEF Next, UserEdits, UserDeletesSecret, ChangeInUI, CollectSecret, SyncProject,
              SyncResource, SyncSecret, Turn, InstanceTurns, ManagerRestart, Restart
<1> QED
  BY <1>1, <1>2, <1>3, <1>4 DEF Step

\* The instance's having been away is not forgotten.
LEMMA ExcuseStays ==
    ASSUME IInv, Next
    PROVE  Excused => Excused'
<1>1. budget'.turns = budget.turns \/ budget'.turns = budget.turns - 1
  BY BudgetStep DEF IInv, ProjectTypeOK, Fault, Spend
<1> QED
  BY <1>1, ProjectAssumption DEF Excused, IInv, ProjectTypeOK

\* Writes that are about something else than existence, deletion and finalizer.
Alike(new) ==
    /\ new.exists = cr.exists /\ new.deleting = cr.deleting
    /\ new.finalizer = cr.finalizer

LEMMA AlikeResource ==
    ASSUME Alike(cr')
    PROVE  Resource' = Resource
  BY DEF Resource, Alike

\* Steps that ChildLifecycle does not see.
LEMMA QuietSteps ==
    ASSUME IInv,
           \/ Start \/ GetProject \/ AssertBranch \/ ApplyGrants \/ LookForSecret \/ ClearAnnotation
           \/ RevokeToken \/ DeleteOldSecret \/ GenerateToken \/ StoreToken
           \/ PublishReady \/ (PublishPhase /\ UNCHANGED sonarVars)
           \/ UserDeletesSecret \/ ChangeInUI \/ CollectSecret
           \/ SyncProject \/ SyncSecret \/ Turn \/ ManagerRestart
    PROVE  Promise!Rest
<1> USE DEF IInv
<1>1. cr \in ProjectObject
  BY DEF ProjectTypeOK
<1>2. UNCHANGED project
  BY DEF Start, GetProject, AssertBranch, ApplyGrants, LookForSecret, ClearAnnotation, RevokeToken,
         DeleteOldSecret, GenerateToken, StoreToken, PublishReady, UserDeletesSecret,
         ChangeInUI, CollectSecret, SyncProject, SyncSecret, Turn, ManagerRestart, sonarVars
<1>3. Alike(cr')
  <2>1. CASE ClearAnnotation
    <3>1. cr' = cr \/ cr' = [cr EXCEPT !.rotate = FALSE]
      BY <2>1 DEF ClearAnnotation, Write
    <3> QED
      BY <1>1, <3>1 DEF Alike, ProjectObject
  <2>2. CASE PublishReady
    <3>1. \/ cr' = cr
          \/ cr' = [cr EXCEPT !.phase = "Ready", !.managed = pr.object.managed,
                              !.synced = pr.object.synced]
      BY <2>2 DEF PublishReady, OwnWrite, Write
    <3> QED
      BY <1>1, <3>1 DEF Alike, ProjectObject
  <2>3. CASE PublishPhase
    <3>1. \/ cr' = cr
          \/ cr' = [cr EXCEPT !.phase = IF At("failed") THEN "Failed" ELSE "Pending"]
      BY <2>3 DEF PublishPhase, OwnWrite, Write
    <3> QED
      BY <1>1, <3>1 DEF Alike, ProjectObject
  <2>4. CASE ~ClearAnnotation /\ ~PublishReady /\ ~PublishPhase
    <3>1. cr' = cr
      BY <2>4
      DEF Start, PickUp, GetProject, AssertBranch, ApplyGrants, LookForSecret, RevokeToken,
          DeleteOldSecret, GenerateToken, StoreToken, UserDeletesSecret, ChangeInUI,
          CollectSecret, SyncProject, SyncResource, SyncSecret, Turn, InstanceTurns,
          ManagerRestart, Restart
    <3> QED
      BY <3>1 DEF Alike
  <2> QED
    BY <2>1, <2>2, <2>3, <2>4
<1> QED
  BY <1>2, <1>3, AlikeResource DEF Promise!Rest

\* The finalizer comes to a resource that has none.
LEMMA AddFinalizerSteps ==
    ASSUME IInv, AddFinalizer, UNCHANGED project
    PROVE  Promise!Guard \/ Promise!Rest
<1>1. /\ cr \in ProjectObject
      /\ cr' = cr \/ (cr' = [cr EXCEPT !.finalizer = TRUE] /\ cr.exists)
  BY DEF AddFinalizer, OwnWrite, Write, IInv, ProjectTypeOK
<1>2. /\ cr'.exists = cr.exists /\ cr'.deleting = cr.deleting
      /\ cr'.finalizer = cr.finalizer \/ (cr'.finalizer /\ cr.exists)
  BY <1>1 DEF ProjectObject
<1> QED
  BY <1>2 DEF Resource, Promise!Guard, Promise!Rest, Promise!Moves

\* It goes for good with a deletion whose project is gone, or by default of the
\* instance.
LEMMA ReleaseSteps ==
    ASSUME IInv, Earned, ReleaseFinalizer, UNCHANGED project
    PROVE  Promise!Release \/ Promise!Abandon \/ Promise!Rest
<1>1. cr \in ProjectObject /\ pr.pc = "release"
  BY DEF ReleaseFinalizer, IInv, ProjectTypeOK
<1>2. \/ cr' = cr
      \/ /\ cr.exists
         /\ cr' = IF cr.deleting THEN Absent ELSE [cr EXCEPT !.finalizer = FALSE]
  BY DEF ReleaseFinalizer, OwnWrite, Write
<1>3. CASE cr' = cr
  BY <1>3, AlikeResource DEF Alike, Promise!Rest
<1>4. CASE cr.exists /\ cr.deleting /\ cr' = Absent
  <2>1. Resource = "doomed" /\ Resource' = "absent"
    BY <1>4 DEF Resource, Absent
  <2>2. ~project \/ Excused
    BY <1>1 DEF Earned
  <2> QED
    BY <2>1, <2>2 DEF Promise!Release, Promise!Moves
<1>5. CASE cr.exists /\ ~cr.deleting /\ cr' = [cr EXCEPT !.finalizer = FALSE]
  <2>1. cr'.exists /\ ~cr'.deleting /\ ~cr'.finalizer
    BY <1>1, <1>5 DEF ProjectObject
  <2>2. CASE cr.finalizer
    <3>1. Resource = "guarded" /\ Resource' = "unguarded"
      BY <1>5, <2>1, <2>2 DEF Resource
    <3>2. Excused
      BY <1>1, <1>5, <2>2 DEF IInv, Control, ReleaseIsFinal, Guarded, Earned
    <3> QED
      BY <3>1, <3>2 DEF Promise!Abandon, Promise!Moves
  <2>3. CASE ~cr.finalizer
    BY <1>1, <1>5, <2>1, <2>3, AlikeResource DEF Alike, Promise!Rest, ProjectObject
  <2> QED
    BY <2>2, <2>3
<1> QED
  BY <1>2, <1>3, <1>4, <1>5

\* The project is created under the finalizer and never deleted under a resource
\* that lives with one.
LEMMA ProjectSteps ==
    ASSUME IInv, CreateProject \/ DeleteProject
    PROVE  Promise!Make \/ Promise!Unmake \/ Promise!Rest
<1>1. cr' = cr /\ Resource' = Resource /\ project \in BOOLEAN
  BY DEF CreateProject, DeleteProject, Resource, IInv, ProjectTypeOK
<1>2. CASE CreateProject
  <2>1. cr.exists /\ cr.finalizer
    BY <1>2 DEF CreateProject, IInv, Control, WorkUnderFinalizer, WorkSteps
  <2>2. (~project /\ project' = TRUE) \/ UNCHANGED project
    BY <1>2 DEF CreateProject
  <2> QED
    BY <1>1, <2>1, <2>2 DEF Resource, Promise!Make, Promise!Rest
<1>3. CASE DeleteProject
  <2>1. (instance = "Ready" /\ project /\ project' = FALSE) \/ UNCHANGED project
    BY <1>3 DEF DeleteProject
  <2>2. instance = "Ready" => ~Guarded(cr)
    BY <1>3 DEF DeleteProject, IInv, Control, ReleaseIsFinal
  <2> QED
    BY <1>1, <2>1, <2>2 DEF Resource, Guarded, Promise!Unmake, Promise!Rest
<1> QED
  BY <1>2, <1>3

\* What users do to the resource.
LEMMA UserSteps ==
    ASSUME IInv, UserEdits
    PROVE  Promise!Appear \/ Promise!Vanish \/ Promise!Doom \/ Promise!Rest
<1>1. cr \in ProjectObject /\ UNCHANGED project
  BY DEF UserEdits, sonarVars, IInv, ProjectTypeOK
<1>2. CASE ~cr.exists /\ \E spec \in Specs(Absent) :
             UserWrites([spec EXCEPT !.exists = TRUE])
  <2>1. cr'.exists /\ ~cr'.deleting /\ ~cr'.finalizer
    BY <1>2, NewTypes DEF UserWrites, Write
  <2> QED
    BY <1>1, <1>2, <2>1 DEF Resource, Promise!Appear, Promise!Moves
<1>3. CASE \E new \in Specs(cr) : UserWrites(new)
  BY <1>1, <1>3, SpecsTypes, AlikeResource DEF UserWrites, Write, Alike, Promise!Rest
<1>4. CASE UserWrites([cr EXCEPT !.rotate = TRUE])
  BY <1>1, <1>4, AlikeResource DEF UserWrites, Write, Alike, ProjectObject, Promise!Rest
<1>5. CASE UserDeletes
  <2>1. cr.exists /\ ~cr.deleting
    BY <1>5 DEF UserDeletes, Editable
  <2>2. CASE cr.finalizer
    <3>1. cr' = [cr EXCEPT !.deleting = TRUE]
      BY <1>5, <2>2 DEF UserDeletes, UserWrites, Write
    <3>2. cr'.exists /\ cr'.deleting
      BY <1>1, <2>1, <3>1 DEF ProjectObject
    <3> QED
      BY <1>1, <2>1, <2>2, <3>2 DEF Resource, Promise!Doom, Promise!Moves
  <2>3. CASE ~cr.finalizer
    <3>1. cr' = Absent
      BY <1>5, <2>3 DEF UserDeletes, UserWrites, Write
    <3> QED
      BY <1>1, <2>1, <2>3, <3>1 DEF Absent, Resource, Promise!Vanish, Promise!Moves
  <2> QED
    BY <2>2, <2>3
<1> QED
  BY <1>2, <1>3, <1>4, <1>5 DEF UserEdits

\* Every step maps to a step of ChildLifecycle, or to none.
LEMMA PromiseStep == IInv /\ Earned /\ [Next]_vars => [Promise!Next]_Promise!vars
<1>1. ASSUME IInv, Earned, Next
      PROVE  Promise!Next
  <2>1. (Excused => Excused') /\ Excused' \in BOOLEAN
    BY <1>1, ExcuseStays DEF Excused
  <2>2. CASE Lifecycle
    <3>1. UNCHANGED project
      BY <2>2 DEF Lifecycle, sonarVars
    <3>2. CASE PublishPhase
      BY <1>1, <2>1, <2>2, <3>2, QuietSteps DEF Lifecycle, Promise!Next
    <3> QED
      BY <1>1, <2>1, <2>2, <3>1, <3>2, AddFinalizerSteps, ReleaseSteps
      DEF Lifecycle, Conclude, Promise!Next
  <2>3. CASE CreateProject \/ DeleteProject
    BY <1>1, <2>1, <2>3, ProjectSteps DEF Promise!Next
  <2>4. CASE UserEdits
    BY <1>1, <2>1, <2>4, UserSteps DEF Promise!Next
  <2>5. CASE ~Lifecycle /\ ~CreateProject /\ ~DeleteProject /\ ~UserEdits
    <3>1. Promise!Rest
      BY <1>1, <2>5, QuietSteps DEF Next, Step
    <3> QED
      BY <2>1, <3>1 DEF Promise!Next
  <2> QED
    BY <2>2, <2>3, <2>4, <2>5
<1>2. ASSUME UNCHANGED vars
      PROVE  UNCHANGED Promise!vars
  BY <1>2 DEF vars, sonarVars, Promise!vars, Resource, Excused
<1> QED
  BY <1>1, <1>2

LEMMA PromiseInit == Init => Promise!Init
<1> SUFFICES ASSUME Init PROVE Promise!Init
  OBVIOUS
<1>1. PICK spec \in Specs(Absent) : cr = [spec EXCEPT !.exists = TRUE]
  BY DEF Init
<1>2. cr.exists /\ ~cr.deleting /\ ~cr.finalizer
  BY <1>1, NewTypes
<1>3. project \in BOOLEAN
  BY DEF Init
<1>4. budget.turns = MaxTurns
  BY DEF Init
<1> QED
  BY <1>2, <1>3, <1>4, ProjectAssumption DEF Resource, Excused, Promise!Init

\* The project controller implements ChildLifecycle for every set of grants and
\* every number of faults, stale decisions, edits and turns of the instance: the
\* finalizer and the project come and go in the promised order.
THEOREM PromiseKept == Spec => KeepsPromise
<1>1. Spec => [](IInv /\ Earned)
  <2>1. Init => IInv /\ Earned
    BY InitInv, InitEarned
  <2>2. IInv /\ Earned /\ [Next]_vars => (IInv /\ Earned)'
    BY NextInv, NextEarned
  <2> QED
    BY <2>1, <2>2, PTL DEF Spec
<1> QED
  BY <1>1, PromiseInit, PromiseStep, PTL DEF Spec, KeepsPromise, Promise!Spec
-----------------------------------------------------------------------------
(* The record of the grants *)

\* Steps that come before the grants are compared with the record.
Early == {"finalizer", "get", "create", "branch", "grants"}

\* A reconcile whose next write may be accepted holds the stored record until it
\* compares the grants with it, and what it drops from it then is not the
\* operator's any more.
Followed ==
    /\ cr.exists \/ cr.managed = {}
    /\ pr.fresh => \A g \in cr.managed \ pr.object.managed : granted[g] # "operator"
    /\ pr.fresh /\ pr.pc \in Early => pr.object.managed = cr.managed

\* A step that records nothing, makes no grant and goes on from the record it had.
LEMMA FollowedKept ==
    ASSUME Followed, cr'.managed = cr.managed, cr'.exists = cr.exists,
           \A g \in cr.managed : granted'[g] = "operator" => granted[g] = "operator",
           pr'.fresh => /\ pr.fresh /\ pr'.object.managed = pr.object.managed
                        /\ pr'.pc \in Early => pr.pc \in Early
    PROVE  Followed'
  BY DEF Followed

\* A reconcile that ends holds no version.
LEMMA EndsFollowed ==
    ASSUME Followed, pr' = NoReconcile,
           cr'.exists \/ cr'.managed = {}
    PROVE  Followed'
  BY DEF Followed, NoReconcile

LEMMA ProceedFollowed ==
    ASSUME ProjectTypeOK, Followed, NEW step \in Steps, Proceed(step),
           UNCHANGED <<cr, granted>>, step \in Early => pr.pc \in Early
    PROVE  Followed'
<1>1. /\ pr'.fresh => pr.fresh /\ pr'.object = pr.object
      /\ pr'.pc = step
  <2>1. CASE step = "idle"
    BY <2>1, ProceedEffect DEF Proceed, NoReconcile
  <2> QED
    BY <2>1, ProceedEffect
<1> QED
  BY <1>1, FollowedKept

\* What the informer shows is taken for current only if it is.
LEMMA StartFollowed ==
    ASSUME IInv, Followed, Start
    PROVE  Followed'
<1>1. /\ UNCHANGED <<cr, granted>>
      /\ pr'.fresh = pcache.fresh /\ pr'.object = pcache.object
  BY DEF Start, PickUp, NoReconcile, sonarVars
<1>2. pcache.fresh => pcache.object = cr
  BY DEF IInv, Control, FreshCopy
<1> QED
  BY <1>1, <1>2 DEF Followed

LEMMA LifecycleFollowed ==
    ASSUME IInv, Followed, Lifecycle
    PROVE  Followed'
<1> USE DEF IInv
<1>1. cr \in ProjectObject /\ UNCHANGED granted
  BY DEF ProjectTypeOK, Lifecycle, sonarVars
<1>2. CASE AddFinalizer
  <2>1. pr.pc = "finalizer" /\ OwnWrite([cr EXCEPT !.finalizer = TRUE], "get", "idle")
    BY <1>2 DEF AddFinalizer
  <2>2. /\ cr' = cr \/ cr' = [cr EXCEPT !.finalizer = TRUE]
        /\ Proceed("get") \/ Proceed("idle")
    BY <2>1 DEF OwnWrite, Write, Proceed
  <2>3. cr'.managed = cr.managed /\ cr'.exists = cr.exists
    BY <1>1, <2>2 DEF ProjectObject
  <2>4. CASE Proceed("idle")
    BY <2>3, <2>4, EndsFollowed DEF Proceed, Followed
  <2>5. CASE Proceed("get")
    <3>1. pr'.fresh = pr.fresh /\ pr'.object = pr.object
      BY <2>5, ProceedEffect DEF Steps
    <3> QED
      BY <1>1, <2>1, <2>3, <3>1, FollowedKept DEF Early
  <2> QED
    BY <2>2, <2>4, <2>5
<1>3. CASE PublishPhase
  <2>1. /\ pr' = NoReconcile
        /\ \/ cr' = cr
           \/ cr' = [cr EXCEPT !.phase = IF At("failed") THEN "Failed" ELSE "Pending"]
    BY <1>3 DEF PublishPhase, OwnWrite, Write, Proceed
  <2>2. cr'.managed = cr.managed /\ cr'.exists = cr.exists
    BY <1>1, <2>1 DEF ProjectObject
  <2> QED
    BY <2>1, <2>2, EndsFollowed DEF Followed
<1>4. CASE ReleaseFinalizer
  <2>1. /\ pr' = NoReconcile
        /\ cr' \in {cr, Absent, [cr EXCEPT !.finalizer = FALSE]}
    BY <1>4 DEF ReleaseFinalizer, OwnWrite, Write, Proceed
  <2>2. CASE cr' = Absent
    BY <2>1, <2>2, EndsFollowed DEF Absent
  <2>3. CASE cr' \in {cr, [cr EXCEPT !.finalizer = FALSE]}
    <3>1. cr'.managed = cr.managed /\ cr'.exists = cr.exists
      BY <1>1, <2>3 DEF ProjectObject
    <3> QED
      BY <2>1, <3>1, EndsFollowed DEF Followed
  <2> QED
    BY <2>1, <2>2, <2>3
<1> QED
  BY <1>2, <1>3, <1>4 DEF Lifecycle, Conclude

\* Every grant that is dropped from the record was there and is taken back, or was
\* not there; after an error the record stays.
LEMMA ApplyGrantsFollowed ==
    ASSUME IInv, Followed, ApplyGrants
    PROVE  Followed'
<1> USE DEF IInv
<1>1. /\ UNCHANGED cr /\ pr.pc = "grants"
      /\ AfterGrants \in Steps /\ AfterGrants \notin Early
      /\ cr \in ProjectObject
  BY DEF ApplyGrants, AfterGrants, Steps, Early, ProjectTypeOK
<1>2. pr.fresh => pr.object.managed = cr.managed
  BY <1>1 DEF Followed, Early
<1>3. CASE /\ Carried(ToRevoke \cup ToGrant)
           /\ pr' = [pr EXCEPT !.pc = AfterGrants, !.object.managed = pr.object.want]
  <2>1. /\ pr'.pc = AfterGrants /\ pr'.fresh = pr.fresh
        /\ pr'.object.managed = pr.object.want
    BY <1>1, <1>3 DEF ProjectTypeOK, ProjectObject
  <2>2. ASSUME pr.fresh, NEW g \in cr.managed \ pr.object.want
        PROVE  granted'[g] # "operator"
    <3>1. g \in Grants /\ g \notin ToGrant
      BY <1>1, <2>2 DEF ProjectObject, ToGrant
    <3>2. granted'[g] = IF g \notin ToRevoke THEN granted[g] ELSE "no"
      BY <1>3, <3>1 DEF Carried
    <3>3. g \notin ToRevoke => granted[g] = "no"
      BY <1>2, <2>2 DEF ToRevoke, Held
    <3> QED
      BY <3>2, <3>3
  <2> QED
    BY <1>1, <2>1, <2>2 DEF Followed
<1>4. CASE Proceed(AfterGrants)
  <2>1. pr'.pc = AfterGrants /\ pr'.fresh = pr.fresh /\ pr'.object = pr.object
    <3>1. AfterGrants # "idle"
      BY DEF AfterGrants
    <3> QED
      BY <1>1, <1>4, <3>1, ProceedEffect
  <2> QED
    BY <1>1, <1>2, <2>1 DEF Followed
<1> QED
  BY <1>3, <1>4 DEF ApplyGrants

\* The answer of the patch brings the stored record, whatever was applied; only an
\* empty one leaves the record in memory.
LEMMA ClearAnnotationFollowed ==
    ASSUME IInv, Followed, ClearAnnotation
    PROVE  Followed'
<1> USE DEF IInv
<1>1. cr \in ProjectObject /\ UNCHANGED granted /\ pr.pc = "clear"
  BY DEF ProjectTypeOK, ClearAnnotation, sonarVars
<1>2. /\ cr' = cr \/ cr' = [cr EXCEPT !.rotate = FALSE]
      /\ \/ pr' = [pr EXCEPT !.pc = "revoke", !.object = Refreshed, !.fresh = TRUE]
         \/ Proceed("idle")
  BY DEF ClearAnnotation, Write
<1>3. cr'.managed = cr.managed /\ cr'.exists = cr.exists
  BY <1>1, <1>2 DEF ProjectObject
<1>4. CASE Proceed("idle")
  BY <1>3, <1>4, EndsFollowed DEF Proceed, Followed
<1>5. CASE pr' = [pr EXCEPT !.pc = "revoke", !.object = Refreshed, !.fresh = TRUE]
  <2>1. pr'.pc = "revoke" /\ pr'.object = Refreshed
    BY <1>5 DEF ProjectTypeOK
  <2>2. Refreshed.managed = IF cr.managed = {} THEN pr.object.managed ELSE cr.managed
    BY <1>1 DEF Refreshed, ProjectObject
  <2> QED
    BY <1>3, <2>1, <2>2 DEF Followed, Early
<1> QED
  BY <1>2, <1>4, <1>5

\* PublishReady ends the reconcile; it is accepted for a living resource only.
LEMMA PublishReadyFollowed ==
    ASSUME IInv, Followed, PublishReady
    PROVE  Followed'
<1>1. cr \in ProjectObject /\ UNCHANGED granted
  BY DEF IInv, ProjectTypeOK, PublishReady, sonarVars
<1>2. /\ pr' = NoReconcile
      /\ \/ cr' = cr
         \/ cr.exists /\ cr' = [cr EXCEPT !.phase = "Ready", !.managed = pr.object.managed,
                                          !.synced = pr.object.synced]
  BY DEF PublishReady, OwnWrite, Write, Proceed
<1>3. cr'.exists \/ cr'.managed = {}
  BY <1>1, <1>2 DEF Followed, ProjectObject
<1> QED
  BY <1>2, <1>3, EndsFollowed

\* The calls for the project, its main branch and the token leave the record and
\* the grants alone.
LEMMA CallsFollowed ==
    ASSUME IInv, Followed,
           \/ GetProject \/ CreateProject \/ AssertBranch \/ LookForSecret
           \/ RevokeToken \/ DeleteOldSecret \/ GenerateToken \/ StoreToken
    PROVE  Followed'
<1> USE DEF IInv
<1>1. UNCHANGED <<cr, granted>> /\ pr.pc \in Steps
  BY DEF GetProject, CreateProject, AssertBranch, LookForSecret, RevokeToken,
         DeleteOldSecret, GenerateToken, StoreToken, sonarVars, ProjectTypeOK
<1>2. CASE GetProject \/ CreateProject
  <2>1. pr.pc \in Early
    BY <1>2 DEF GetProject, CreateProject, Early
  <2>2. \E step \in Steps : Proceed(step)
    <3>1. AfterGet \in Steps
      BY DEF AfterGet, Steps
    <3>2. /\ project => (IF project THEN AfterGet ELSE "create") \in Steps
          /\ ~project => (IF project THEN AfterGet ELSE "create") \in Steps
      BY <3>1 DEF Steps
    <3>3. "idle" \in Steps /\ "failed" \in Steps
      BY DEF Steps
    <3> QED
      BY <1>2, <3>1, <3>2, <3>3 DEF GetProject, CreateProject
  <2> QED
    BY <1>1, <2>1, <2>2, ProceedFollowed
<1>3. CASE AssertBranch
  <2>1. pr.pc = "branch" /\ \E synced : Report(synced)
    BY <1>3 DEF AssertBranch
  <2>2. pr'.fresh = pr.fresh /\ pr'.object.managed = pr.object.managed
    BY <2>1 DEF Report, ProjectTypeOK, ProjectObject
  <2>3. pr.pc \in Early
    BY <2>1 DEF Early
  <2> QED
    BY <1>1, <2>2, <2>3, FollowedKept
<1>4. CASE LookForSecret
  <2>1. pr'.fresh = pr.fresh /\ pr'.object = pr.object /\ pr'.pc \notin Early
    BY <1>4 DEF LookForSecret, ProjectTypeOK, Early
  <2> QED
    BY <1>1, <2>1, FollowedKept
<1>5. CASE RevokeToken \/ DeleteOldSecret \/ GenerateToken \/ StoreToken
  <2>1. \E step \in Steps \ Early : Proceed(step)
    <3>1. {"idle", "delete-secret", "generate", "store", "ready"} \subseteq Steps \ Early
      BY DEF Steps, Early
    <3>2. (IF pr.found THEN "delete-secret" ELSE "generate") \in Steps \ Early
      BY <3>1
    <3> QED
      BY <1>5, <3>1, <3>2 DEF RevokeToken, DeleteOldSecret, GenerateToken, StoreToken
  <2> QED
    BY <1>1, <2>1, ProceedFollowed
<1> QED
  BY <1>2, <1>3, <1>4, <1>5

LEMMA DeleteProjectFollowed ==
    ASSUME IInv, Followed, DeleteProject
    PROVE  Followed'
<1> USE DEF IInv
<1>1. /\ UNCHANGED cr /\ cr \in ProjectObject
      /\ Proceed("release") \/ Proceed("idle")
      /\ UNCHANGED granted \/ granted' = [g \in Grants |-> "no"]
  BY DEF DeleteProject, ProjectTypeOK
<1>2. pr'.fresh => pr.fresh /\ pr'.object = pr.object /\ pr'.pc \notin Early
  BY <1>1 DEF Proceed, NoReconcile, ProjectTypeOK, Early
<1>3. \A g \in cr.managed : granted'[g] = "operator" => granted[g] = "operator"
  BY <1>1 DEF ProjectObject
<1> QED
  BY <1>1, <1>2, <1>3, FollowedKept

\* What users write costs the reconcile its version, unless it changes nothing.
LEMMA UserEditsFollowed ==
    ASSUME IInv, Followed, UserEdits
    PROVE  Followed'
<1> USE DEF IInv
<1>1. cr \in ProjectObject /\ UNCHANGED granted
  BY DEF UserEdits, sonarVars, ProjectTypeOK
<1>2. PICK new : /\ UserWrites(new)
                 /\ new.exists \/ new.managed = {}
  <2>1. CASE \E spec \in Specs(Absent) : UserWrites([spec EXCEPT !.exists = TRUE])
    BY <2>1, NewTypes
  <2>2. CASE cr.exists /\ \E spec \in Specs(cr) : UserWrites(spec)
    BY <1>1, <2>2, SpecsTypes
  <2>3. CASE cr.exists /\ UserWrites([cr EXCEPT !.rotate = TRUE])
    BY <1>1, <2>3 DEF ProjectObject
  <2>4. CASE UserDeletes
    <3>1. cr.exists /\ UserWrites(IF cr.finalizer THEN [cr EXCEPT !.deleting = TRUE] ELSE Absent)
      BY <2>4 DEF UserDeletes, Editable
    <3>2. [cr EXCEPT !.deleting = TRUE].exists = cr.exists /\ Absent.managed = {}
      BY <1>1 DEF ProjectObject, Absent
    <3> QED
      BY <3>1, <3>2
  <2> QED
    BY <2>1, <2>2, <2>3, <2>4 DEF UserEdits, Editable
<1>3. /\ cr' = new
      /\ pr'.pc = pr.pc /\ pr'.object = pr.object
      /\ pr'.fresh => pr.fresh /\ new = cr
  BY <1>2 DEF UserWrites, Write, ProjectTypeOK
<1> QED
  BY <1>1, <1>2, <1>3 DEF Followed

\* Grants made by hand are not the operator's.
LEMMA SurroundingsFollowed ==
    ASSUME IInv, Followed,
           \/ UserDeletesSecret \/ ChangeInUI \/ CollectSecret
           \/ SyncProject \/ SyncSecret \/ Turn
    PROVE  Followed'
<1>1. UNCHANGED <<cr, pr>>
  BY DEF UserDeletesSecret, ChangeInUI, CollectSecret, SyncProject, SyncResource,
         SyncSecret, Turn, InstanceTurns
<1>2. UNCHANGED granted \/ \E g \in Grants : granted' = [granted EXCEPT ![g] = "ui"]
  BY DEF UserDeletesSecret, ChangeInUI, CollectSecret, SyncProject, SyncSecret, Turn, sonarVars
<1>3. cr.managed \subseteq Grants /\ granted \in [Grants -> {"no", "operator", "ui"}]
  BY DEF IInv, ProjectTypeOK, ProjectObject
<1>4. \A g \in cr.managed : granted'[g] = "operator" => granted[g] = "operator"
  BY <1>2, <1>3
<1> QED
  BY <1>1, <1>4, FollowedKept

LEMMA RestartFollowed ==
    ASSUME Followed, ManagerRestart
    PROVE  Followed'
<1>1. pr' = NoReconcile /\ UNCHANGED cr
  BY DEF ManagerRestart, Restart
<1> QED
  BY <1>1, EndsFollowed DEF Followed

LEMMA InitFollowed == Init => Followed
<1> SUFFICES ASSUME Init PROVE Followed
  OBVIOUS
<1>1. PICK spec \in Specs(Absent) : cr = [spec EXCEPT !.exists = TRUE]
  BY DEF Init
<1>2. cr.exists /\ pr = NoReconcile
  BY <1>1, NewTypes DEF Init
<1> QED
  BY <1>2 DEF Followed, NoReconcile

LEMMA NextFollowed == IInv /\ Followed /\ [Next]_vars => Followed'
<1>1. ASSUME IInv, Followed, UNCHANGED vars
      PROVE  Followed'
  BY <1>1 DEF vars, sonarVars, Followed
<1>2. ASSUME IInv, Followed, Step
      PROVE  Followed'
  BY <1>2, LifecycleFollowed, CallsFollowed, ApplyGrantsFollowed, ClearAnnotationFollowed,
     PublishReadyFollowed, DeleteProjectFollowed DEF Step
<1> QED
  BY <1>1, <1>2, StartFollowed, UserEditsFollowed, SurroundingsFollowed,
     RestartFollowed DEF Next

\* The record shrinks by PublishReady alone.
LEMMA RecordStep ==
    IInv /\ Followed /\ [Next]_vars
      => [cr'.exists => \A g \in cr.managed \ cr'.managed : granted[g] # "operator"]_vars
<1> SUFFICES ASSUME IInv, Followed, Next, cr'.exists, NEW g \in cr.managed \ cr'.managed
             PROVE  granted[g] # "operator"
  BY DEF vars
<1> USE DEF IInv
<1>1. cr \in ProjectObject /\ cr.exists
  BY DEF ProjectTypeOK, Followed
<1>2. CASE PublishReady
  <2>1. pr.fresh /\ cr' = [cr EXCEPT !.phase = "Ready", !.managed = pr.object.managed,
                                     !.synced = pr.object.synced]
    BY <1>2 DEF PublishReady, OwnWrite, Write
  <2>2. cr'.managed = pr.object.managed
    BY <1>1, <2>1 DEF ProjectObject
  <2> QED
    BY <2>1, <2>2 DEF Followed
<1>3. CASE Lifecycle
  <2>1. \/ cr' \in {cr, Absent, [cr EXCEPT !.finalizer = TRUE], [cr EXCEPT !.finalizer = FALSE]}
        \/ cr' = [cr EXCEPT !.phase = IF At("failed") THEN "Failed" ELSE "Pending"]
    BY <1>3 DEF Lifecycle, Conclude, AddFinalizer, PublishPhase, ReleaseFinalizer, OwnWrite, Write
  <2>2. cr'.managed = cr.managed
    BY <1>1, <2>1 DEF ProjectObject, Absent
  <2> QED
    BY <2>2
<1>4. CASE ClearAnnotation
  <2>1. cr' = cr \/ cr' = [cr EXCEPT !.rotate = FALSE]
    BY <1>4 DEF ClearAnnotation, Write
  <2>2. cr'.managed = cr.managed
    BY <1>1, <2>1 DEF ProjectObject
  <2> QED
    BY <2>2
<1>5. CASE UserEdits
  <2>1. \/ \E new \in Specs(cr) : cr' = new
        \/ cr' \in {Absent, [cr EXCEPT !.rotate = TRUE], [cr EXCEPT !.deleting = TRUE]}
    BY <1>1, <1>5 DEF UserEdits, UserDeletes, UserWrites, Write
  <2>2. ASSUME NEW new \in Specs(cr)
        PROVE  new.managed = cr.managed
    BY <1>1, <2>2 DEF Specs, Specify, ProjectObject
  <2>3. cr'.managed = cr.managed
    BY <1>1, <2>1, <2>2 DEF ProjectObject, Absent
  <2> QED
    BY <2>3
<1>6. CASE ~PublishReady /\ ~Lifecycle /\ ~ClearAnnotation /\ ~UserEdits
  <2>1. cr' = cr
    BY <1>6
    DEF Next, Step, Start, PickUp, GetProject, CreateProject, AssertBranch, ApplyGrants,
        LookForSecret, RevokeToken, DeleteOldSecret, GenerateToken, StoreToken,
        DeleteProject, UserDeletesSecret, ChangeInUI, CollectSecret, SyncProject,
        SyncResource, SyncSecret, Turn, InstanceTurns, ManagerRestart, Restart
  <2> QED
    BY <2>1
<1> QED
  BY <1>2, <1>3, <1>4, <1>5, <1>6

\* A grant of the operator leaves the record of a resource only when SonarQube does
\* not have it from the operator any more: for every set of grants, and although
\* the reconcile works on a copy, the calls fail halfway, and the rotation of the
\* token replaces the record in memory.
THEOREM RecordIsKept == Spec => NothingForgotten
<1>1. Spec => [](IInv /\ Followed)
  <2>1. Init => IInv /\ Followed
    BY InitInv, InitFollowed
  <2>2. IInv /\ Followed /\ [Next]_vars => (IInv /\ Followed)'
    BY NextInv, NextFollowed
  <2> QED
    BY <2>1, <2>2, PTL DEF Spec
<1> QED
  BY <1>1, RecordStep, PTL DEF Spec, NothingForgotten
-----------------------------------------------------------------------------
(* The rotation of the token *)

\* Steps whose reconcile may still come to clear the annotation.
Ahead == {"get", "create", "branch", "grants", "token", "clear"}

\* The reconcile has read the annotation and will act on it.
Rotates ==
    pr.object.rotate /\ (pr.pc \in Ahead \/ (pr.pc = "finalizer" /\ pr.fresh))

\* A live token is about to be revoked.
Revokes == pr.pc = "revoke" /\ secret = "live"

OnTime == budget.lags = MaxLags

One(condition) == IF condition THEN 1 ELSE 0

\* As long as no decision was taken on a stale copy, an annotation the reconcile
\* has read is still there when it clears it, and what is left of the requests
\* covers the annotation and the revocation it has led to.
Asked ==
    /\ budget.lags <= MaxLags
    /\ pr.pc = "clear" => pr.object.rotate
    /\ OnTime /\ Rotates => cr.rotate
    /\ OnTime => requested >= One(cr.rotate) + One(Revokes)

\* A decision on a stale copy is not undone.
LEMMA LagsStep ==
    ASSUME ProjectTypeOK, Asked,
           NoFault \/ Fault \/ Spend("lags") \/ Spend("edits") \/ Spend("turns")
    PROVE  budget'.lags <= MaxLags /\ (OnTime' => OnTime /\ ~Spend("lags"))
<1>1. budget.lags \in Nat /\ budget.lags <= MaxLags /\ MaxLags \in Nat
  BY ProjectAssumption DEF ProjectTypeOK, Asked
<1>2. CASE budget'.lags = budget.lags
  <2>1. ~Spend("lags")
    BY <1>1, <1>2 DEF Spend, ProjectTypeOK
  <2> QED
    BY <1>1, <1>2, <2>1 DEF OnTime
<1>3. CASE budget'.lags = budget.lags - 1
  BY <1>1, <1>3 DEF OnTime
<1> QED
  BY <1>2, <1>3 DEF ProjectTypeOK, NoFault, Fault, Spend

\* A step that asks for no rotation, reads no annotation and does not come to a
\* revocation.
LEMMA AskedKept ==
    ASSUME ProjectTypeOK, ProjectTypeOK', Asked, UNCHANGED requested,
           NoFault \/ Fault \/ Spend("lags") \/ Spend("edits") \/ Spend("turns"),
           cr'.rotate => cr.rotate,
           OnTime' /\ Rotates' => cr'.rotate,
           pr'.pc = "clear" => pr'.object.rotate,
           OnTime' /\ Revokes' => Revokes
    PROVE  Asked'
<1>1. budget'.lags <= MaxLags /\ (OnTime' => OnTime)
  BY LagsStep
<1>2. ASSUME OnTime'
      PROVE  requested' >= One(cr.rotate)' + One(Revokes)'
  <2>1. requested >= One(cr.rotate) + One(Revokes) /\ requested \in Nat
    BY <1>1, <1>2 DEF Asked, ProjectTypeOK
  <2>2. One(cr'.rotate) <= One(cr.rotate) /\ One(Revokes') <= One(Revokes)
    BY <1>2 DEF One
  <2> QED
    BY <2>1, <2>2 DEF One
<1> QED
  BY <1>1, <1>2 DEF Asked

\* The same for a step that leaves the resource alone and goes on, or ends.
LEMMA ProceedAsked ==
    ASSUME ProjectTypeOK, ProjectTypeOK', Asked, UNCHANGED <<cr, requested>>,
           NoFault \/ Fault, NEW step \in Steps \ {"finalizer", "clear", "revoke"},
           pr'.pc = step, step # "idle" => pr'.object.rotate = pr.object.rotate,
           step \in Ahead => pr.pc \in Ahead
    PROVE  Asked'
<1>1. Rotates' => Rotates
  BY DEF Rotates, Ahead
<1>2. ~Revokes' /\ pr'.pc # "clear"
  BY DEF Revokes
<1>3. OnTime' => OnTime
  BY LagsStep
<1> QED
  BY <1>1, <1>2, <1>3, AskedKept DEF Asked

\* The same for the write that ends a reconcile.
LEMMA EndsAsked ==
    ASSUME ProjectTypeOK, ProjectTypeOK', Asked, UNCHANGED requested, NoFault \/ Fault,
           pr' = NoReconcile, cr'.rotate => cr.rotate
    PROVE  Asked'
<1>1. ~Rotates' /\ ~Revokes' /\ pr'.pc # "clear"
  BY DEF Rotates, Revokes, NoReconcile, Ahead
<1> QED
  BY <1>1, AskedKept

LEMMA StartAsked ==
    ASSUME IInv, IInv', Asked, Start
    PROVE  Asked'
<1> USE DEF IInv
<1>1. /\ UNCHANGED <<cr, requested>> /\ pr'.pc = Route(pcache.object)
      /\ pr'.object = pcache.object /\ pr'.fresh = pcache.fresh
      /\ IF pcache.fresh THEN NoFault ELSE Spend("lags")
  BY DEF Start, PickUp, NoReconcile
<1>2. pr'.pc \notin {"clear", "revoke"}
  BY <1>1 DEF Route
<1>3. OnTime' => pcache.fresh
  BY <1>1, LagsStep
<1>4. OnTime' /\ Rotates' => cr'.rotate
  BY <1>1, <1>3 DEF Rotates, Control, FreshCopy
<1> QED
  BY <1>1, <1>2, <1>4, AskedKept DEF Revokes

\* The finalizer is added to the version the annotation was read from, or the
\* reconcile ends.
LEMMA LifecycleAsked ==
    ASSUME IInv, IInv', Asked, Lifecycle
    PROVE  Asked'
<1> USE DEF IInv
<1>1. cr \in ProjectObject /\ UNCHANGED <<secret, requested>>
  BY DEF ProjectTypeOK, Lifecycle
<1>2. CASE AddFinalizer
  <2>1. pr.pc = "finalizer" /\ OwnWrite([cr EXCEPT !.finalizer = TRUE], "get", "idle")
    BY <1>2 DEF AddFinalizer
  <2>2. /\ cr' = cr \/ cr' = [cr EXCEPT !.finalizer = TRUE]
        /\ (pr.fresh /\ Proceed("get")) \/ Proceed("idle")
        /\ NoFault \/ Fault
    BY <2>1 DEF OwnWrite, Write, Proceed
  <2>3. cr'.rotate = cr.rotate
    BY <1>1, <2>2 DEF ProjectObject
  <2>4. CASE Proceed("idle")
    BY <1>1, <2>2, <2>3, <2>4, EndsAsked DEF Proceed
  <2>5. CASE pr.fresh /\ Proceed("get")
    <3>1. pr'.pc = "get" /\ pr'.object = pr.object
      BY <2>5, ProceedEffect DEF Steps
    <3>2. Rotates' => Rotates
      BY <2>1, <2>5, <3>1 DEF Rotates
    <3>3. OnTime' => OnTime
      BY <2>2, LagsStep
    <3>4. OnTime' /\ Rotates' => cr'.rotate
      BY <2>3, <3>2, <3>3 DEF Asked
    <3> QED
      BY <1>1, <2>2, <2>3, <3>1, <3>4, AskedKept DEF Revokes
  <2> QED
    BY <2>2, <2>4, <2>5
<1>3. CASE PublishPhase \/ ReleaseFinalizer
  <2>1. /\ pr' = NoReconcile /\ (NoFault \/ Fault)
        /\ \/ cr' \in {cr, Absent, [cr EXCEPT !.finalizer = FALSE]}
           \/ cr' = [cr EXCEPT !.phase = IF At("failed") THEN "Failed" ELSE "Pending"]
    BY <1>3 DEF PublishPhase, ReleaseFinalizer, OwnWrite, Write, Proceed
  <2>2. cr'.rotate => cr.rotate
    BY <1>1, <2>1 DEF ProjectObject, Absent
  <2> QED
    BY <1>1, <2>1, <2>2, EndsAsked
<1> QED
  BY <1>2, <1>3 DEF Lifecycle, Conclude

LEMMA CallsAsked ==
    ASSUME IInv, IInv', Asked,
           \/ GetProject \/ CreateProject \/ AssertBranch \/ ApplyGrants
           \/ DeleteOldSecret \/ GenerateToken \/ StoreToken \/ DeleteProject
    PROVE  Asked'
<1> USE DEF IInv
<1>1. UNCHANGED <<cr, requested>> /\ (NoFault \/ Fault)
  BY DEF GetProject, CreateProject, AssertBranch, ApplyGrants, DeleteOldSecret,
         GenerateToken, StoreToken, DeleteProject, CallFails
<1> DEFINE GoesOn(step) ==
      /\ pr'.pc = step /\ (step # "idle" => pr'.object.rotate = pr.object.rotate)
      /\ step \in Ahead => pr.pc \in Ahead
<1> DEFINE Others == Steps \ {"finalizer", "clear", "revoke"}
<1>2. ASSUME NEW step \in Others, Proceed(step), step \in Ahead => pr.pc \in Ahead
      PROVE  GoesOn(step)
  BY <1>2, ProceedEffect
<1>3. CASE GetProject \/ CreateProject
  <2>1. pr.pc \in Ahead
    BY <1>3 DEF GetProject, CreateProject, Ahead
  <2>2. AfterGet \in Others /\ {"create", "idle", "failed"} \subseteq Others
    BY DEF AfterGet, Steps
  <2>3. Proceed(AfterGet) \/ Proceed("create") \/ Proceed("idle") \/ Proceed("failed")
    BY <1>3 DEF GetProject, CreateProject
  <2>4. \E step \in Others : GoesOn(step)
    BY <1>2, <2>1, <2>2, <2>3
  <2> QED
    BY <1>1, <2>4, ProceedAsked
<1>4. CASE AssertBranch
  <2>1. pr.pc = "branch" /\ \E synced : Report(synced)
    BY <1>4 DEF AssertBranch
  <2>2. pr'.pc = "grants" /\ pr'.object.rotate = pr.object.rotate
    BY <2>1 DEF Report, ProjectTypeOK, ProjectObject
  <2>3. GoesOn("grants") /\ "grants" \in Others
    BY <2>1, <2>2 DEF Ahead, Steps
  <2> QED
    BY <1>1, <2>3, ProceedAsked
<1>5. CASE ApplyGrants
  <2>1. /\ pr.pc = "grants"
        /\ \/ pr' = [pr EXCEPT !.pc = AfterGrants, !.object.managed = pr.object.want]
           \/ Proceed(AfterGrants)
    BY <1>5 DEF ApplyGrants
  <2>2. AfterGrants \in Others /\ AfterGrants # "idle"
    BY DEF AfterGrants, Steps
  <2>3. pr'.pc = AfterGrants /\ pr'.object.rotate = pr.object.rotate
    <3>1. CASE Proceed(AfterGrants)
      BY <2>2, <3>1, ProceedEffect
    <3>2. CASE pr' = [pr EXCEPT !.pc = AfterGrants, !.object.managed = pr.object.want]
      BY <3>2 DEF ProjectTypeOK, ProjectObject
    <3> QED
      BY <2>1, <3>1, <3>2
  <2>4. GoesOn(AfterGrants)
    BY <2>1, <2>3 DEF Ahead
  <2> QED
    BY <1>1, <2>2, <2>4, ProceedAsked
<1>6. CASE DeleteOldSecret \/ GenerateToken \/ StoreToken \/ DeleteProject
  <2>1. {"idle", "generate", "store", "ready", "release"} \subseteq Others \ Ahead
    BY DEF Steps, Ahead
  <2>2. \E step \in Others \ Ahead : Proceed(step)
    BY <1>6, <2>1 DEF DeleteOldSecret, GenerateToken, StoreToken, DeleteProject
  <2>3. \E step \in Others : GoesOn(step)
    BY <1>2, <2>2
  <2> QED
    BY <1>1, <2>3, ProceedAsked
<1> QED
  BY <1>3, <1>4, <1>5, <1>6

\* The copy in the cache may be behind: then a decision on a stale copy was taken.
\* Otherwise a Secret that is not seen is not there.
LEMMA LookForSecretAsked ==
    ASSUME IInv, IInv', Asked, LookForSecret
    PROVE  Asked'
<1> USE DEF IInv
<1>1. /\ UNCHANGED <<cr, secret, requested>> /\ pr.pc = "token"
      /\ NoFault \/ Spend("lags")
      /\ secretSeen = SecretExists \/ Spend("lags")
  BY DEF LookForSecret, secretVars
<1>2. /\ pr'.object = pr.object
      /\ pr'.pc = IF pr.object.rotate THEN "clear" ELSE IF secretSeen THEN "ready" ELSE "revoke"
  BY DEF LookForSecret, ProjectTypeOK
<1>3. OnTime' => OnTime /\ secretSeen = SecretExists
  BY <1>1, LagsStep
<1>4. OnTime' /\ Rotates' => cr'.rotate
  BY <1>1, <1>2, <1>3 DEF Asked, Rotates, Ahead
<1>5. OnTime' => ~Revokes'
  BY <1>1, <1>2, <1>3 DEF Revokes, SecretExists
<1>6. pr'.pc = "clear" => pr'.object.rotate
  BY <1>2
<1> QED
  BY <1>1, <1>4, <1>5, <1>6, AskedKept

\* The annotation that was read is the one that is cleared: its request now stands
\* for the revocation.
LEMMA ClearAnnotationAsked ==
    ASSUME IInv, IInv', Asked, ClearAnnotation
    PROVE  Asked'
<1> USE DEF IInv
<1>1. /\ cr \in ProjectObject /\ UNCHANGED <<secret, requested>> /\ pr.pc = "clear"
      /\ NoFault \/ Fault
  BY DEF ProjectTypeOK, ClearAnnotation, secretVars
<1>2. CASE Proceed("idle")
  <2>1. cr' = cr \/ cr' = [cr EXCEPT !.rotate = FALSE]
    BY <1>2 DEF ClearAnnotation, Write
  <2>2. cr'.rotate => cr.rotate
    BY <1>1, <2>1 DEF ProjectObject
  <2> QED
    BY <1>1, <1>2, <2>2, EndsAsked DEF Proceed
<1>3. CASE /\ cr' = [cr EXCEPT !.rotate = FALSE]
           /\ pr' = [pr EXCEPT !.pc = "revoke", !.object = Refreshed, !.fresh = TRUE]
  <2>1. ~cr'.rotate /\ pr'.pc = "revoke"
    BY <1>1, <1>3 DEF ProjectTypeOK, ProjectObject
  <2>2. budget'.lags <= MaxLags /\ (OnTime' => OnTime)
    BY <1>1, LagsStep
  <2>3. ~Rotates'
    BY <2>1 DEF Rotates, Ahead
  <2>4. ASSUME OnTime'
        PROVE  requested' >= One(cr.rotate)' + One(Revokes)'
    <3>1. cr.rotate
      BY <1>1, <2>2, <2>4 DEF Asked, Rotates, Ahead
    <3>2. requested >= One(cr.rotate) + One(Revokes) /\ requested \in Nat
      BY <2>2, <2>4 DEF Asked, ProjectTypeOK
    <3>3. requested >= 1
      BY <3>1, <3>2 DEF One
    <3> QED
      BY <1>1, <2>1, <3>2, <3>3 DEF One
  <2> QED
    BY <2>1, <2>2, <2>3, <2>4 DEF Asked
<1> QED
  BY <1>2, <1>3 DEF ClearAnnotation, Write

\* A live token that is revoked uses up one request.
LEMMA RevokeTokenAsked ==
    ASSUME IInv, IInv', Asked, RevokeToken
    PROVE  Asked'
<1> USE DEF IInv
<1>1. /\ UNCHANGED cr /\ pr.pc = "revoke" /\ requested \in Nat
      /\ NoFault \/ Fault
      /\ Proceed("delete-secret") \/ Proceed("generate")
  BY DEF RevokeToken, CallFails, ProjectTypeOK
<1>2. pr'.pc \in {"delete-secret", "generate"}
  BY <1>1, ProceedEffect DEF Steps
<1>3. ~Rotates' /\ ~Revokes'
  BY <1>2 DEF Rotates, Revokes, Ahead
<1>4. budget'.lags <= MaxLags /\ (OnTime' => OnTime)
  BY <1>1, LagsStep
<1>5. CASE UNCHANGED requested
  BY <1>1, <1>2, <1>3, <1>5, AskedKept
<1>6. CASE secret = "live" /\ requested' = IF requested > 0 THEN requested - 1 ELSE 0
  <2>1. ASSUME OnTime'
        PROVE  requested' >= One(cr.rotate)' + One(Revokes)'
    <3>1. requested >= One(cr.rotate) + One(Revokes)
      BY <1>4, <2>1 DEF Asked
    <3>2. Revokes
      BY <1>1, <1>6 DEF Revokes
    <3>3. requested >= One(cr.rotate) + 1
      BY <3>1, <3>2 DEF One
    <3>4. requested' >= One(cr.rotate)
      BY <1>1, <1>6, <3>3 DEF One
    <3> QED
      BY <1>1, <1>3, <3>4 DEF One
  <2> QED
    BY <1>2, <1>3, <1>4, <2>1 DEF Asked
<1> QED
  BY <1>5, <1>6 DEF RevokeToken

LEMMA PublishReadyAsked ==
    ASSUME IInv, IInv', Asked, PublishReady
    PROVE  Asked'
<1> USE DEF IInv
<1>1. cr \in ProjectObject /\ UNCHANGED requested
  BY DEF ProjectTypeOK, PublishReady
<1>2. /\ pr' = NoReconcile /\ (NoFault \/ Fault)
      /\ \/ cr' = cr
         \/ cr' = [cr EXCEPT !.phase = "Ready", !.managed = pr.object.managed,
                             !.synced = pr.object.synced]
  BY DEF PublishReady, OwnWrite, Write, Proceed
<1>3. cr'.rotate => cr.rotate
  BY <1>1, <1>2 DEF ProjectObject
<1> QED
  BY <1>1, <1>2, <1>3, EndsAsked

\* A resource that is worked on has the finalizer and does not vanish; before
\* that, a change costs the reconcile its version.
LEMMA UserEditsAsked ==
    ASSUME IInv, IInv', Asked, UserEdits
    PROVE  Asked'
<1> USE DEF IInv
<1>1. /\ cr \in ProjectObject /\ requested \in Nat
      /\ Spend("edits") /\ UNCHANGED secret
  BY DEF ProjectTypeOK, UserEdits
<1>2. budget'.lags <= MaxLags /\ (OnTime' => OnTime)
  BY <1>1, LagsStep
<1>3. pr'.pc = pr.pc /\ pr'.object = pr.object /\ (pr'.fresh => pr.fresh /\ cr' = cr)
  <2>1. PICK new : UserWrites(new)
    BY DEF UserEdits, UserDeletes
  <2> QED
    BY <2>1 DEF UserWrites, Write, ProjectTypeOK
<1>4. Rotates' => Rotates /\ ((cr.exists /\ cr.finalizer) \/ cr' = cr)
  BY <1>3 DEF Rotates, Control, WorkUnderFinalizer, WorkSteps, Ahead
<1>5. Revokes' => Revokes
  BY <1>1, <1>3 DEF Revokes
<1>6. pr'.pc = "clear" => pr'.object.rotate
  BY <1>3 DEF Asked
<1>7. CASE UNCHANGED requested /\ (cr'.rotate => cr.rotate) /\ (Rotates' => cr'.rotate = cr.rotate)
  <2>1. OnTime' /\ Rotates' => cr'.rotate
    BY <1>2, <1>4, <1>7 DEF Asked
  <2> QED
    BY <1>1, <1>5, <1>6, <1>7, <2>1, AskedKept
<1>8. CASE /\ ~cr.exists /\ UNCHANGED requested
           /\ \E spec \in Specs(Absent) : UserWrites([spec EXCEPT !.exists = TRUE])
  <2>1. PICK spec \in Specs(Absent) : cr' = [spec EXCEPT !.exists = TRUE]
    BY <1>8 DEF UserWrites, Write
  <2>2. spec \in ProjectObject /\ ~spec.rotate
    BY SpecsTypes, IdleType DEF Specs, Specify, Absent
  <2>3. ~cr'.rotate
    BY <2>1, <2>2 DEF ProjectObject
  <2> QED
    BY <1>4, <1>7, <1>8, <2>3
<1>9. CASE UNCHANGED requested /\ \E new \in Specs(cr) : UserWrites(new)
  <2>1. PICK wish \in Wishes : cr' = Specify(cr, wish)
    BY <1>9 DEF UserWrites, Write, Specs
  <2>2. cr'.rotate = cr.rotate
    BY <1>1, <2>1 DEF Specify, ProjectObject
  <2> QED
    BY <1>7, <1>9, <2>2
<1>10. CASE UNCHANGED requested /\ UserDeletes
  <2>1. cr' = IF cr.finalizer THEN [cr EXCEPT !.deleting = TRUE] ELSE Absent
    BY <1>10 DEF UserDeletes, UserWrites, Write
  <2>2. CASE cr.finalizer
    <3>1. cr'.rotate = cr.rotate
      BY <1>1, <2>1, <2>2 DEF ProjectObject
    <3> QED
      BY <1>7, <1>10, <3>1
  <2>3. CASE ~cr.finalizer
    <3>1. ~cr'.rotate
      BY <2>1, <2>3 DEF Absent
    <3> QED
      BY <1>4, <1>7, <1>10, <2>3, <3>1
  <2> QED
    BY <2>2, <2>3
<1>11. CASE ~cr.rotate /\ requested' = requested + 1 /\ UserWrites([cr EXCEPT !.rotate = TRUE])
  <2>1. cr'.rotate = TRUE
    BY <1>1, <1>11 DEF UserWrites, Write, ProjectObject
  <2>2. ASSUME OnTime'
        PROVE  requested' >= One(cr.rotate)' + One(Revokes)'
    <3>1. requested >= One(cr.rotate) + One(Revokes)
      BY <1>2, <2>2 DEF Asked
    <3>2. requested >= One(Revokes) /\ One(Revokes') <= One(Revokes)
      BY <1>1, <1>5, <1>11, <3>1 DEF One
    <3> QED
      BY <1>1, <1>11, <2>1, <3>2 DEF One
  <2> QED
    BY <1>2, <1>6, <2>1, <2>2 DEF Asked
<1> QED
  BY <1>8, <1>9, <1>10, <1>11 DEF UserEdits

LEMMA SurroundingsAsked ==
    ASSUME IInv, IInv', Asked,
           \/ UserDeletesSecret \/ ChangeInUI \/ CollectSecret
           \/ SyncProject \/ SyncSecret \/ Turn
    PROVE  Asked'
<1> USE DEF IInv
<1>1. UNCHANGED <<cr, pr, requested>> /\ (secret' = "live" => secret = "live")
  BY DEF UserDeletesSecret, ChangeInUI, CollectSecret, SyncProject, SyncResource,
         SyncSecret, Turn, InstanceTurns, secretVars
<1>2. NoFault \/ Spend("edits") \/ Spend("turns")
  BY DEF UserDeletesSecret, ChangeInUI, CollectSecret, SyncProject, SyncResource,
         SyncSecret, Turn, InstanceTurns, NoFault
<1>3. (Revokes' => Revokes) /\ (Rotates' => Rotates) /\ (OnTime' => OnTime)
  BY <1>1, <1>2, LagsStep DEF Revokes, Rotates
<1> QED
  BY <1>1, <1>2, <1>3, AskedKept DEF Asked

LEMMA RestartAsked ==
    ASSUME IInv, IInv', Asked, ManagerRestart
    PROVE  Asked'
<1>1. pr' = NoReconcile /\ UNCHANGED <<cr, requested>> /\ Fault
  BY DEF ManagerRestart, Restart
<1> QED
  BY <1>1, EndsAsked DEF IInv

LEMMA InitAsked == Init => Asked
<1> SUFFICES ASSUME Init PROVE Asked
  OBVIOUS
<1>1. PICK spec \in Specs(Absent) : cr = [spec EXCEPT !.exists = TRUE]
  BY DEF Init
<1>2. spec \in ProjectObject /\ ~spec.rotate
  BY SpecsTypes, IdleType DEF Specs, Specify, Absent
<1>3. ~cr.rotate
  BY <1>1, <1>2 DEF ProjectObject
<1>4. ~Rotates /\ ~Revokes /\ pr.pc = "idle"
  BY DEF Init, NoReconcile, Rotates, Revokes, Ahead
<1>5. requested = 0 /\ budget.lags = MaxLags /\ MaxLags \in Nat
  BY ProjectAssumption DEF Init
<1> QED
  BY <1>3, <1>4, <1>5 DEF Asked, One

LEMMA NextAsked == IInv /\ IInv' /\ Asked /\ [Next]_vars => Asked'
<1>1. ASSUME IInv, Asked, UNCHANGED vars
      PROVE  Asked'
  BY <1>1 DEF vars, secretVars, Asked, OnTime, Rotates, Revokes, One
<1>2. ASSUME IInv, IInv', Asked, Step
      PROVE  Asked'
  BY <1>2, LifecycleAsked, CallsAsked, LookForSecretAsked, ClearAnnotationAsked,
     RevokeTokenAsked, PublishReadyAsked DEF Step
<1> QED
  BY <1>1, <1>2, StartAsked, UserEditsAsked, SurroundingsAsked, RestartAsked DEF Next

\* Only RevokeToken kills the token of a Secret.
LEMMA RotationStep ==
    IInv /\ Asked /\ [Next]_vars
      => [secret = "live" /\ secret' = "dead"
            => requested > 0 \/ budget.lags < MaxLags]_vars
<1> SUFFICES ASSUME IInv, Asked, Next, secret = "live", secret' = "dead"
             PROVE  requested > 0 \/ budget.lags < MaxLags
  BY DEF vars
<1>1. RevokeToken
  BY DEF Next, Step, Start, Lifecycle, GetProject, CreateProject, AssertBranch, ApplyGrants,
         LookForSecret, ClearAnnotation, DeleteOldSecret, GenerateToken, StoreToken,
         PublishReady, DeleteProject, UserEdits, UserDeletesSecret, ChangeInUI,
         CollectSecret, SyncProject, SyncSecret, Turn, ManagerRestart, secretVars
<1>2. Revokes
  BY <1>1 DEF RevokeToken, Revokes
<1>3. requested \in Nat /\ budget.lags \in Nat /\ MaxLags \in Nat
  BY ProjectAssumption DEF IInv, ProjectTypeOK
<1>4. OnTime => requested >= One(cr.rotate) + 1
  BY <1>2 DEF Asked, One
<1>5. OnTime => requested > 0
  BY <1>3, <1>4 DEF One
<1> QED
  BY <1>3, <1>5 DEF Asked, OnTime

\* No token churn, for every number of faults, edits and turns of the instance:
\* unless a decision was taken on a stale copy, a token that dies under a Secret was
\* asked to be rotated, and no request is used twice, whichever call of the rotation
\* failed and whenever the manager crashed.
THEOREM RotationIsAsked == Spec => OneTokenPerRequest
<1>1. Spec => [](IInv /\ Asked)
  <2>1. Init => IInv /\ Asked
    BY InitInv, InitAsked
  <2>2. IInv /\ Asked /\ [Next]_vars => (IInv /\ Asked)'
    BY NextInv, NextAsked
  <2> QED
    BY <2>1, <2>2, PTL DEF Spec
<1> QED
  BY <1>1, RotationStep, PTL DEF Spec, OneTokenPerRequest

=============================================================================
