------------------------- MODULE SonarQubeUser_proofs -------------------------
(***************************************************************************)
(* Proofs about the user controller, for all groups, permissions and       *)
(* profiles and every bound: types, no account activated outside a         *)
(* finalizer, none left active by a deletion without a mishap, and nothing *)
(* that was granted forgotten by the record.                               *)
(***************************************************************************)
EXTENDS SonarQubeUser, TLAPS

-----------------------------------------------------------------------------
(* What ChildController does, for users *)

\* A resource names a profile.
Named == {object \in UserObject : object.exists => object.profile \in Profiles}

Reconciles == [pc : Steps, object : Named, fresh : BOOLEAN, created : BOOLEAN]

Child == INSTANCE ChildController_proofs WITH Resources <- Named

LEMMA Shapes == Child!ResourceShape /\ Child!ReconcileShape
<1>1. /\ Absent \in Named /\ ~Absent.exists /\ ~Absent.deleting /\ ~Absent.finalizer
      /\ NoReconcile \in Reconciles /\ NoReconcile.pc = "idle" /\ NoReconcile.fresh = FALSE
  BY DEF Absent, Nothing, Named, UserObject, Grant, NoReconcile, Reconciles, Steps
<1>2. ASSUME NEW r \in Named
      PROVE  /\ r.exists \in BOOLEAN /\ r.deleting \in BOOLEAN /\ r.finalizer \in BOOLEAN
             /\ \A b \in BOOLEAN : Child!Finalized(r, b)
             /\ Child!Doomed(r) /\ Child!Phased(r, "Pending") /\ Child!Phased(r, "Failed")
  BY DEF Named, UserObject, Child!Finalized, Child!Doomed, Child!Phased, Child!Alike
<1>3. ASSUME NEW r \in Reconciles
      PROVE  /\ r.pc \in Steps /\ r.object \in Named /\ r.fresh \in BOOLEAN
             /\ \A step \in Steps : Child!Moved(r, step)
             /\ \A step \in Steps, b \in BOOLEAN : Child!MovedOn(r, step, b)
             /\ \A b \in BOOLEAN : Child!Aged(r, b)
  BY DEF Reconciles, Child!Moved, Child!MovedOn, Child!Aged
<1>4. ASSUME NEW step \in Steps, NEW object \in Named, NEW b \in BOOLEAN
      PROVE  Child!PickedUp(step, object, b)
  BY <1>1 DEF Reconciles, Child!PickedUp
<1>5. Child!CommonSteps \subseteq Steps
  BY DEF Child!CommonSteps, Steps
<1> QED
  BY <1>1, <1>2, <1>3, <1>4, <1>5 DEF Child!ResourceShape, Child!ReconcileShape

\* The operators of the two instances of ChildController are the same.
LEMMA SameCalls ==
    /\ NoFault <=> Child!NoFault
    /\ Fault <=> Child!Fault
    /\ \A bound : Spend(bound) <=> Child!Spend(bound)
    /\ \A step : Proceed(step) <=> Child!Proceed(step)
    /\ \A new : UserWrites(new) <=> Child!UserWrites(new)
    /\ \A new, then, otherwise :
         OwnWrite(new, then, otherwise) <=> Child!OwnWrite(new, then, otherwise)
  BY DEF NoFault, Child!NoFault, Fault, Child!Fault, Spend, Child!Spend,
         Proceed, Child!Proceed, Write, Child!Write, UserWrites, Child!UserWrites,
         OwnWrite, Child!OwnWrite

LEMMA SameSteps ==
    /\ Route(pcache.object) = Child!Route(pcache.object)
    /\ PickUp <=> Child!PickUp
    /\ AddFinalizer <=> Child!AddFinalizer
    /\ PublishPhase <=> Child!PublishPhase
    /\ ReleaseFinalizer <=> Child!ReleaseFinalizer
    /\ UserDeletes <=> Child!UserDeletes
    /\ SyncResource <=> Child!SyncResource
    /\ InstanceTurns <=> Child!InstanceTurns
    /\ Restart <=> Child!Restart
<1>1. Route(pcache.object) = Child!Route(pcache.object)
  BY DEF Route, Child!Route
<1>2. PickUp <=> Child!PickUp
  BY <1>1, SameCalls DEF PickUp, Child!PickUp, At, Child!At
<1>3. /\ AddFinalizer <=> Child!AddFinalizer
      /\ PublishPhase <=> Child!PublishPhase
      /\ ReleaseFinalizer <=> Child!ReleaseFinalizer
  BY SameCalls
  DEF AddFinalizer, Child!AddFinalizer, PublishPhase, Child!PublishPhase,
      ReleaseFinalizer, Child!ReleaseFinalizer, At, Child!At
<1>4. UserDeletes <=> Child!UserDeletes
  BY SameCalls DEF UserDeletes, Child!UserDeletes, Editable, Child!Editable
<1>5. /\ SyncResource <=> Child!SyncResource
      /\ InstanceTurns <=> Child!InstanceTurns
      /\ Restart <=> Child!Restart
  BY SameCalls
  DEF SyncResource, Child!SyncResource, InstanceTurns, Child!InstanceTurns,
      Restart, Child!Restart, Catch, Child!Catch
<1> QED
  BY <1>1, <1>2, <1>3, <1>4, <1>5

-----------------------------------------------------------------------------
(* The inductive invariant *)

\* The part of the types that ChildController does not know.
OwnTypes ==
    /\ secret \in {"absent", "live", "dead"}
    /\ garbage \in BOOLEAN /\ secretSeen \in BOOLEAN
    /\ active \in BOOLEAN /\ token \in BOOLEAN /\ strict \in BOOLEAN
    /\ identity \in Profile /\ scm \in Profiles
    /\ member \in [Groups -> {"no", "operator", "ui"}]
    /\ may \in [Permissions -> {"no", "operator", "ui", "taken"}]
    /\ token => active
    /\ secret = "live" => token

StepTypes ==
    /\ pr.pc # "idle" => pr.object.exists
    /\ pr.pc \in {"generate", "store"} => pr.object.spec.token
    /\ pr.pc = "revoke" => ~pr.object.spec.token

\* Steps that come after the groups, and after the tokens, were reconciled.
AfterGroups == {"scm", "tokens", "revoke", "generate", "store", "perms", "ready"}
AfterTokens == {"perms", "ready"}

\* What a reconcile that may still write the status has taken off the record is
\* not there any more; until its step is done nothing is.
RecordFollowed ==
    pr.fresh =>
        /\ \A g \in cr.record.groups \ pr.object.record.groups : member[g] # "operator"
        /\ \A p \in cr.record.perms \ pr.object.record.perms : may[p] # "operator"
        /\ cr.record.token /\ token => pr.object.record.token
        /\ pr.pc \notin AfterGroups => pr.object.record.groups = cr.record.groups
        /\ pr.pc \notin AfterTokens => pr.object.record.token = cr.record.token
        /\ pr.pc # "ready" => pr.object.record.perms = cr.record.perms

Bounded == budget.faults <= MaxFaults /\ budget.turns <= MaxTurns

\* Nothing was lost and the instance was always there.
Clean == budget.faults = MaxFaults /\ budget.turns = MaxTurns

\* Then the finalizer is released after the account was found inactive.
Settled == Clean => instance = "Ready" /\ (pr.pc = "release" => ~active)

IInv ==
    /\ Child!ChildType /\ OwnTypes /\ StepTypes /\ Child!Control
    /\ RecordFollowed /\ Bounded /\ Settled

LEMMA TypesHold == IInv => UserTypeOK
  BY DEF IInv, Child!ChildType, Child!Copies, Child!Budgets, Reconciles,
         Named, OwnTypes, StepTypes, UserTypeOK

-----------------------------------------------------------------------------
(* Lemmas *)

\* What a step may spend, in either instance of ChildController.
Spent == NoFault \/ Fault \/ Spend("lags") \/ Spend("edits") \/ Spend("turns")

LEMMA BudgetSpent ==
    ASSUME budget \in Child!Budgets, Spent
    PROVE  /\ budget' \in Child!Budgets
           /\ budget'.faults <= budget.faults /\ budget'.turns <= budget.turns
  BY SameCalls, Child!BudgetEffect DEF Spent

\* Going on to another step changes nothing else about the reconcile.
LEMMA Proceeds ==
    ASSUME Child!ChildType, NEW step \in Steps, Proceed(step)
    PROVE  /\ pr' \in Reconciles /\ pr'.pc = step
           /\ step # "idle" => pr'.fresh = pr.fresh /\ pr'.object = pr.object
           /\ step = "idle" => pr'.fresh = FALSE
  BY Shapes, SameCalls, Child!ProceedEffect DEF Child!ChildType

\* A step on SonarQube leaves the resource, the informer and the instance alone
\* and goes on with the same work or ends it.
LEMMA WorkKeeps ==
    ASSUME IInv, UNCHANGED <<cr, pcache, instance>>, Spent, pr' \in Reconciles,
           \/ pr'.pc \in {"idle", "failed"}
           \/ Child!Working /\ Child!Working'
           \/ pr.pc = "delete" /\ pr'.pc = "release"
           \/ UNCHANGED pr
    PROVE  Child!ChildType' /\ Child!Control' /\ Bounded'
<1>1. Child!Control'
  BY Child!ControlKept DEF IInv
<1>2. Child!ChildType' /\ Bounded'
  BY BudgetSpent, UserAssumption DEF IInv, Child!ChildType, Bounded, Child!Budgets
<1> QED
  BY <1>1, <1>2

\* Steps that grant nothing and leave the record in memory as it is.
LEMMA RecordKept ==
    ASSUME IInv, OwnTypes',
           pr'.fresh => /\ pr.fresh /\ pr'.object.record = pr.object.record
                        /\ cr'.record = cr.record,
           \A g \in Groups : member'[g] = "operator" => member[g] = "operator",
           \A p \in Permissions : may'[p] = "operator" => may[p] = "operator",
           token' => token,
           pr'.fresh => /\ pr.pc \in AfterGroups => pr'.pc \in AfterGroups
                        /\ pr.pc \in AfterTokens => pr'.pc \in AfterTokens
                        /\ pr.pc = "ready" => pr'.pc = "ready"
    PROVE  RecordFollowed'
<1>1. cr.record.groups \subseteq Groups /\ cr.record.perms \subseteq Permissions
  BY DEF IInv, Child!ChildType, Named, UserObject, Grant
<1> QED
  BY <1>1 DEF IInv, RecordFollowed

\* A reconcile that ended, or works on an old copy, writes no status.
LEMMA RecordDropped ==
    ASSUME pr'.fresh = FALSE
    PROVE  RecordFollowed'
  BY DEF RecordFollowed

LEMMA BoundedKept ==
    ASSUME IInv, Spent
    PROVE  Bounded'
  BY BudgetSpent, UserAssumption DEF IInv, Child!ChildType, Bounded, Child!Budgets

\* Steps that leave the instance alone and do not go to the release of the
\* finalizer, or do so for an account that is not active.
LEMMA SettledKept ==
    ASSUME IInv, Spent, UNCHANGED instance,
           pr'.pc = "release" => ~active' \/ (pr.pc = "release" /\ active' = active)
    PROVE  Settled'
<1>1. Clean' => Clean
  BY BudgetSpent, UserAssumption DEF IInv, Child!ChildType, Child!Budgets, Bounded, Clean
<1> QED
  BY <1>1 DEF IInv, Settled

-----------------------------------------------------------------------------
(* One lemma per step of the reconcile: it preserves the invariant *)

USE DEF At

LEMMA StartInv ==
    ASSUME IInv, Start
    PROVE  IInv'
<1> USE DEF IInv
<1>1. /\ UNCHANGED <<cr, secretVars, sonarVars, instance>>
      /\ Child!PickUp
  BY SameSteps DEF Start, PickUp
<1>2. /\ Child!ChildType' /\ Child!Control'
      /\ pcache.object.exists /\ pr'.object = pcache.object
      /\ pr'.pc \in {"pending", "finalizer", "get", "delete", "release"}
      /\ pr'.fresh => pr'.object = cr
      /\ pr'.pc = "release" => instance # "Ready"
      /\ Child!NoFault \/ Child!Spend("lags")
  BY <1>1, Shapes, Child!PickUpEffect
<1>3. Spent
  BY <1>2, SameCalls DEF Spent
<1>4. OwnTypes' /\ StepTypes'
  BY <1>1, <1>2 DEF OwnTypes, StepTypes, secretVars, sonarVars
<1>5. RecordFollowed'
  BY <1>1, <1>2 DEF RecordFollowed, AfterGroups, AfterTokens
<1>6. Bounded' /\ Settled'
  <2>1. /\ budget'.faults <= budget.faults /\ budget'.turns <= budget.turns
        /\ budget' \in Child!Budgets
    BY <1>3, BudgetSpent DEF Child!ChildType
  <2>2. Bounded' /\ (Clean' => Clean)
    BY <2>1, UserAssumption DEF Child!ChildType, Child!Budgets, Bounded, Clean
  <2> QED
    BY <1>1, <1>2, <2>2 DEF Settled
<1> QED
  BY <1>2, <1>4, <1>5, <1>6

\* The Secret of a resource that goes is left behind if there is one.
LEMMA OrphanedTypes ==
    ASSUME OwnTypes, Orphaned, UNCHANGED <<secret, secretSeen, sonarVars>>
    PROVE  OwnTypes'
  BY DEF OwnTypes, Orphaned, SecretExists, sonarVars

LEMMA LifecycleInv ==
    ASSUME IInv, Lifecycle
    PROVE  IInv'
<1> USE DEF IInv
<1>1. /\ OwnTypes' /\ UNCHANGED <<sonarVars, instance>>
  BY OrphanedTypes
  DEF Lifecycle, Conclude, AddFinalizer, PublishPhase, ReleaseFinalizer
<1>2. CASE AddFinalizer
  <2>1. /\ Child!ChildType' /\ Child!Control'
        /\ pr'.pc \in {"get", "idle"}
        /\ pr'.pc = "get" => pr.fresh /\ pr'.object = pr.object
        /\ pr'.pc = "idle" => pr'.fresh = FALSE
        /\ cr' = cr \/ cr' = [cr EXCEPT !.finalizer = TRUE]
        /\ Child!NoFault \/ Child!Fault
    BY <1>2, Shapes, SameSteps, Child!AddFinalizerEffect
  <2>2. cr'.record = cr.record
    BY <2>1 DEF Child!ChildType, Named, UserObject
  <2>3. Spent /\ pr.pc = "finalizer"
    BY <1>2, <2>1, SameCalls DEF Spent, AddFinalizer
  <2>4. StepTypes' /\ Settled' /\ Bounded'
    BY <1>1, <2>1, <2>3, SettledKept, BoundedKept DEF StepTypes
  <2>5. RecordFollowed'
    BY <1>1, <2>1, <2>2, <2>3, RecordKept, RecordDropped
    DEF sonarVars, AfterGroups, AfterTokens
  <2> QED
    BY <1>1, <2>1, <2>4, <2>5
<1>3. CASE PublishPhase \/ ReleaseFinalizer
  <2>1. /\ Child!ChildType' /\ Child!Control'
        /\ pr'.pc = "idle" /\ pr'.fresh = FALSE
        /\ Child!NoFault \/ Child!Fault
    BY <1>3, Shapes, SameSteps, Child!PublishPhaseEffect, Child!ReleaseFinalizerEffect
  <2>2. Spent
    BY <2>1, SameCalls DEF Spent
  <2>3. StepTypes'
    BY <2>1 DEF StepTypes
  <2>4. Settled' /\ Bounded' /\ RecordFollowed'
    BY <1>1, <2>1, <2>2, SettledKept, BoundedKept, RecordDropped
  <2> QED
    BY <1>1, <2>1, <2>3, <2>4
<1> QED
  BY <1>2, <1>3 DEF Lifecycle, Conclude

LEMMA GetUserInv ==
    ASSUME IInv, GetUser
    PROVE  IInv'
<1> USE DEF IInv
<1>1. /\ UNCHANGED <<cr, pcache, secretVars, instance, sonarVars>> /\ Spent
      /\ pr.pc = "get"
      /\ \E step \in {"update", "groups", "create", "idle"} : Proceed(step)
  BY DEF GetUser, CallFails, AfterGet, Spent
<1>2. /\ pr' \in Reconciles /\ pr'.pc \in {"update", "groups", "create", "idle"}
      /\ pr'.pc # "idle" => pr'.fresh = pr.fresh /\ pr'.object = pr.object
      /\ pr'.pc = "idle" => pr'.fresh = FALSE
  BY <1>1, Proceeds DEF Steps
<1>3. Child!ChildType' /\ Child!Control' /\ Bounded' /\ Settled'
  BY <1>1, <1>2, WorkKeeps, SettledKept DEF Child!Working
<1>4. OwnTypes' /\ StepTypes'
  BY <1>1, <1>2 DEF OwnTypes, StepTypes, secretVars, sonarVars
<1>5. RecordFollowed'
  BY <1>1, <1>2, <1>4, RecordKept DEF sonarVars, AfterGroups, AfterTokens
<1> QED
  BY <1>3, <1>4, <1>5

\* What a request leaves of a name and an e-mail is a name and an e-mail.
LEMMA SentIsProfile ==
    ASSUME NEW profile \in Profiles, NEW kept \in STRING \cup {NoEmail}
    PROVE  Sent(profile, kept) \in Profile
<1>1. profile \in Profile
  BY UserAssumption
<1> QED
  BY <1>1 DEF Sent, Profile

LEMMA UpdateUserInv ==
    ASSUME IInv, UpdateUser
    PROVE  IInv'
<1> USE DEF IInv
<1>1. /\ UNCHANGED <<cr, pcache, secretVars, instance, active, scm, member, may, token, strict>>
      /\ Spent /\ pr.pc = "update"
      /\ Proceed("groups") \/ Proceed("idle")
  BY DEF UpdateUser, CallFails, Spent
<1>2. /\ pr' \in Reconciles /\ pr'.pc \in {"groups", "idle"}
      /\ pr'.pc # "idle" => pr'.fresh = pr.fresh /\ pr'.object = pr.object
      /\ pr'.pc = "idle" => pr'.fresh = FALSE
  BY <1>1, Proceeds DEF Steps
<1>3. Child!ChildType' /\ Child!Control' /\ Bounded' /\ Settled'
  BY <1>1, <1>2, WorkKeeps, SettledKept DEF Child!Working
<1>4. identity' \in Profile
  <2>1. pr.object.profile \in Profiles /\ identity.email \in STRING \cup {NoEmail}
    BY <1>1 DEF OwnTypes, StepTypes, Child!ChildType, Reconciles, Named, Profile
  <2> QED
    BY <2>1, SentIsProfile DEF UpdateUser, OwnTypes
<1>5. OwnTypes' /\ StepTypes'
  BY <1>1, <1>2, <1>4 DEF OwnTypes, StepTypes, secretVars
<1>6. RecordFollowed'
  BY <1>1, <1>2, <1>5, RecordKept DEF AfterGroups, AfterTokens
<1> QED
  BY <1>3, <1>5, <1>6

LEMMA CreateUserInv ==
    ASSUME IInv, CreateUser
    PROVE  IInv'
<1> USE DEF IInv
<1>1. /\ UNCHANGED <<cr, pcache, secretVars, instance, scm, member, may, token, strict>>
      /\ Spent /\ pr.pc = "create"
      /\ Proceed("failed") \/ pr' = [pr EXCEPT !.pc = "groups", !.created = TRUE]
  BY DEF CreateUser, CallFails, Spent
<1>2. /\ pr' \in Reconciles /\ pr'.pc \in {"groups", "failed"}
      /\ pr'.fresh = pr.fresh /\ pr'.object = pr.object
  <2>1. CASE Proceed("failed")
    BY <2>1, Proceeds DEF Steps
  <2>2. CASE pr' = [pr EXCEPT !.pc = "groups", !.created = TRUE]
    BY <2>2 DEF Child!ChildType, Reconciles, Steps
  <2> QED
    BY <1>1, <2>1, <2>2
<1>3. Child!ChildType' /\ Child!Control' /\ Bounded' /\ Settled'
  BY <1>1, <1>2, WorkKeeps, SettledKept DEF Child!Working
<1>4. /\ identity' \in Profile /\ active' \in BOOLEAN
      /\ active => active'
  <2>1. pr.object.profile \in Profiles /\ identity.email \in STRING \cup {NoEmail}
    BY <1>1 DEF OwnTypes, StepTypes, Child!ChildType, Reconciles, Named, Profile
  <2> QED
    BY <2>1, SentIsProfile DEF CreateUser, OwnTypes
<1>5. OwnTypes' /\ StepTypes'
  BY <1>1, <1>2, <1>4 DEF OwnTypes, StepTypes, secretVars
<1>6. RecordFollowed'
  BY <1>1, <1>2, <1>5, RecordKept DEF AfterGroups, AfterTokens
<1> QED
  BY <1>3, <1>5, <1>6

\* Writing a part of the record in memory.
LEMMA RecordWritten ==
    ASSUME Child!ChildType, NEW step \in Steps, step # "idle",
           \/ \E groups \in SUBSET Groups :
                pr' = [pr EXCEPT !.pc = step, !.object.record.groups = groups]
           \/ \E perms \in SUBSET Permissions :
                pr' = [pr EXCEPT !.pc = step, !.object.record.perms = perms]
           \/ \E b \in BOOLEAN :
                pr' = [pr EXCEPT !.pc = step, !.object.record.token = b]
    PROVE  /\ pr' \in Reconciles /\ pr'.pc = step /\ pr'.fresh = pr.fresh
           /\ pr'.object.spec = pr.object.spec /\ pr'.object.exists = pr.object.exists
<1> USE DEF Child!ChildType
<1>1. ASSUME NEW groups \in SUBSET Groups,
             pr' = [pr EXCEPT !.pc = step, !.object.record.groups = groups]
      PROVE  /\ pr' \in Reconciles /\ pr'.pc = step /\ pr'.fresh = pr.fresh
             /\ pr'.object.spec = pr.object.spec /\ pr'.object.exists = pr.object.exists
  BY <1>1 DEF Reconciles, Named, UserObject, Grant
<1>2. ASSUME NEW perms \in SUBSET Permissions,
             pr' = [pr EXCEPT !.pc = step, !.object.record.perms = perms]
      PROVE  /\ pr' \in Reconciles /\ pr'.pc = step /\ pr'.fresh = pr.fresh
             /\ pr'.object.spec = pr.object.spec /\ pr'.object.exists = pr.object.exists
  BY <1>2 DEF Reconciles, Named, UserObject, Grant
<1>3. ASSUME NEW b \in BOOLEAN,
             pr' = [pr EXCEPT !.pc = step, !.object.record.token = b]
      PROVE  /\ pr' \in Reconciles /\ pr'.pc = step /\ pr'.fresh = pr.fresh
             /\ pr'.object.spec = pr.object.spec /\ pr'.object.exists = pr.object.exists
  BY <1>3 DEF Reconciles, Named, UserObject, Grant
<1> QED
  BY <1>1, <1>2, <1>3

\* Moving the account in and out of groups puts it in those of spec only.
LEMMA MovedTypes ==
    ASSUME IInv, NEW done, Moved(done)
    PROVE  member' \in [Groups -> {"no", "operator", "ui"}]
  BY DEF IInv, OwnTypes, Moved

LEMMA ReconcileGroupsInv ==
    ASSUME IInv, ReconcileGroups
    PROVE  IInv'
<1> USE DEF IInv
<1>1. /\ UNCHANGED <<cr, pcache, secretVars, instance, active, identity, scm, may, token, strict>>
      /\ Spent /\ pr.pc = "groups" /\ \E done : Moved(done)
  BY DEF ReconcileGroups, CallFails, Spent
<1>2. OwnTypes'
  BY <1>1, MovedTypes DEF OwnTypes, secretVars
<1>3. CASE Proceed("idle")
  <2>1. pr' \in Reconciles /\ pr'.pc = "idle" /\ pr'.fresh = FALSE
    BY <1>3, Proceeds DEF Steps
  <2>2. Child!ChildType' /\ Child!Control' /\ Bounded' /\ Settled'
    BY <1>1, <2>1, WorkKeeps, SettledKept
  <2>3. StepTypes' /\ RecordFollowed'
    BY <2>1, RecordDropped DEF StepTypes
  <2> QED
    BY <1>2, <2>2, <2>3
<1>4. CASE /\ Moved(Joins \cup Leaves)
           /\ pr' = [pr EXCEPT !.pc = "scm",
                               !.object.record.groups = pr.object.spec.groups]
  <2>1. pr.object.spec.groups \in SUBSET Groups /\ cr.record.groups \in SUBSET Groups
    BY DEF Child!ChildType, Reconciles, Named, UserObject, Grant
  <2>2. /\ pr' \in Reconciles /\ pr'.pc = "scm" /\ pr'.fresh = pr.fresh
        /\ pr'.object.exists = pr.object.exists
    BY <1>4, <2>1, RecordWritten DEF Steps
  <2>3. Child!ChildType' /\ Child!Control' /\ Bounded' /\ Settled'
    BY <1>1, <2>2, WorkKeeps, SettledKept DEF Child!Working
  <2>4. StepTypes'
    BY <1>1, <2>2 DEF StepTypes
  <2>5. /\ pr'.object.record.groups = pr.object.spec.groups
        /\ pr'.object.record.perms = pr.object.record.perms
        /\ pr'.object.record.token = pr.object.record.token
    BY <1>4 DEF Child!ChildType, Reconciles, Named, UserObject, Grant
  <2>6. ASSUME pr.fresh, NEW g \in cr.record.groups \ pr.object.spec.groups
        PROVE  member'[g] # "operator"
    <3>1. g \in Groups /\ g \in pr.object.record.groups /\ g \notin Joins
      BY <1>1, <2>1, <2>6 DEF RecordFollowed, AfterGroups, Joins
    <3>2. g \in Leaves \/ member[g] = "no"
      BY <2>6, <3>1 DEF Leaves
    <3> QED
      BY <1>4, <3>1, <3>2 DEF Moved
  <2>7. RecordFollowed'
    BY <1>1, <2>2, <2>5, <2>6 DEF RecordFollowed, AfterGroups, AfterTokens
  <2> QED
    BY <1>2, <2>3, <2>4, <2>7
<1> QED
  BY <1>3, <1>4 DEF ReconcileGroups

LEMMA UpdateUserScmAccountsInv ==
    ASSUME IInv, UpdateUserScmAccounts
    PROVE  IInv'
<1> USE DEF IInv
<1>1. /\ UNCHANGED <<cr, pcache, secretVars, instance, active, identity, member, may, token, strict>>
      /\ Spent /\ pr.pc = "scm"
      /\ Proceed("ready") \/ Proceed("tokens")
  BY DEF UpdateUserScmAccounts, CallFails, AfterScm, Spent
<1>2. /\ pr' \in Reconciles /\ pr'.pc \in {"ready", "tokens"}
      /\ pr'.fresh = pr.fresh /\ pr'.object = pr.object
  BY <1>1, Proceeds DEF Steps
<1>3. Child!ChildType' /\ Child!Control' /\ Bounded' /\ Settled'
  BY <1>1, <1>2, WorkKeeps, SettledKept DEF Child!Working
<1>4. scm' \in Profiles
  BY DEF UpdateUserScmAccounts, OwnTypes, StepTypes, Child!ChildType, Reconciles, Named
<1>5. OwnTypes' /\ StepTypes'
  BY <1>1, <1>2, <1>4 DEF OwnTypes, StepTypes, secretVars
<1>6. RecordFollowed'
  BY <1>1, <1>2, <1>5, RecordKept DEF AfterGroups, AfterTokens
<1> QED
  BY <1>3, <1>5, <1>6

LEMMA LookForTokenInv ==
    ASSUME IInv, LookForToken
    PROVE  IInv'
<1> USE DEF IInv
<1>1. /\ UNCHANGED <<cr, pcache, secretVars, instance, sonarVars>>
      /\ Spent /\ pr.pc = "tokens"
  BY DEF LookForToken, Spent
<1>2. OwnTypes' /\ pr.object.spec.token \in BOOLEAN
  BY <1>1 DEF OwnTypes, secretVars, sonarVars, Child!ChildType, Reconciles, Named,
              UserObject, Grant
<1>3. ASSUME NEW step \in {"revoke", "generate"}, Proceed(step),
             step = "generate" <=> pr.object.spec.token
      PROVE  IInv'
  <2>1. /\ pr' \in Reconciles /\ pr'.pc = step
        /\ pr'.fresh = pr.fresh /\ pr'.object = pr.object
    BY <1>3, Proceeds DEF Steps
  <2>2. Child!ChildType' /\ Child!Control' /\ Bounded' /\ Settled'
    BY <1>1, <2>1, WorkKeeps, SettledKept DEF Child!Working
  <2>3. StepTypes'
    BY <1>1, <1>3, <2>1 DEF StepTypes
  <2>4. RecordFollowed'
    BY <1>1, <1>2, <2>1, RecordKept DEF sonarVars, AfterGroups, AfterTokens
  <2> QED
    BY <1>2, <2>2, <2>3, <2>4
<1>4. CASE /\ IF pr.object.spec.token THEN secretSeen ELSE ~pr.object.record.token
           /\ pr' = [pr EXCEPT !.pc = "perms", !.object.record.token = pr.object.spec.token]
  <2>1. /\ pr' \in Reconciles /\ pr'.pc = "perms" /\ pr'.fresh = pr.fresh
        /\ pr'.object.exists = pr.object.exists
    BY <1>2, <1>4, RecordWritten DEF Steps
  <2>2. /\ pr'.object.record.groups = pr.object.record.groups
        /\ pr'.object.record.perms = pr.object.record.perms
        /\ pr'.object.record.token = pr.object.spec.token
    BY <1>4 DEF Child!ChildType, Reconciles, Named, UserObject, Grant
  <2>3. Child!ChildType' /\ Child!Control' /\ Bounded' /\ Settled'
    BY <1>1, <2>1, WorkKeeps, SettledKept DEF Child!Working
  <2>4. StepTypes'
    BY <1>1, <2>1 DEF StepTypes
  <2>5. RecordFollowed'
    BY <1>1, <1>4, <2>1, <2>2 DEF RecordFollowed, AfterGroups, AfterTokens, sonarVars
  <2> QED
    BY <1>2, <2>3, <2>4, <2>5
<1>5. \/ Proceed("revoke") /\ ~pr.object.spec.token
      \/ Proceed("generate") /\ pr.object.spec.token
      \/ /\ IF pr.object.spec.token THEN secretSeen ELSE ~pr.object.record.token
         /\ pr' = [pr EXCEPT !.pc = "perms", !.object.record.token = pr.object.spec.token]
  BY DEF LookForToken
<1> QED
  BY <1>3, <1>4, <1>5

LEMMA RevokeUserTokenInv ==
    ASSUME IInv, RevokeUserToken
    PROVE  IInv'
<1> USE DEF IInv
<1>1. /\ UNCHANGED <<cr, pcache, garbage, secretSeen, instance, active, identity, scm, member, may, strict>>
      /\ Spent /\ pr.pc = "revoke"
  BY DEF RevokeUserToken, CallFails, Spent
<1>2. (token' = FALSE /\ Killed) \/ UNCHANGED <<token, strict, secret>>
  BY DEF RevokeUserToken
<1>3. OwnTypes' /\ (token' => token)
  <2>1. CASE token' = FALSE /\ Killed
    <3>1. secret' \in {"absent", "live", "dead"} /\ secret' # "live"
      BY <2>1 DEF Killed, OwnTypes
    <3>2. token' \in BOOLEAN /\ ~token'
      BY <2>1
    <3> QED
      BY <1>1, <3>1, <3>2 DEF OwnTypes
  <2>2. CASE UNCHANGED <<token, strict, secret>>
    BY <1>1, <2>2 DEF OwnTypes
  <2> QED
    BY <1>2, <2>1, <2>2
<1>4. CASE Proceed("perms")
  <2>1. /\ pr' \in Reconciles /\ pr'.pc = "perms"
        /\ pr'.fresh = pr.fresh /\ pr'.object = pr.object
    BY <1>4, Proceeds DEF Steps
  <2>2. Child!ChildType' /\ Child!Control' /\ Bounded' /\ Settled'
    BY <1>1, <2>1, WorkKeeps, SettledKept DEF Child!Working
  <2>3. StepTypes'
    BY <1>1, <2>1 DEF StepTypes
  <2>4. RecordFollowed'
    BY <1>1, <1>3, <2>1, RecordKept DEF AfterGroups, AfterTokens
  <2> QED
    BY <1>3, <2>2, <2>3, <2>4
<1>5. CASE token' = FALSE /\ pr' = [pr EXCEPT !.pc = "perms", !.object.record.token = FALSE]
  <2>1. /\ pr' \in Reconciles /\ pr'.pc = "perms" /\ pr'.fresh = pr.fresh
        /\ pr'.object.exists = pr.object.exists
    BY <1>5, RecordWritten DEF Steps
  <2>2. /\ pr'.object.record.groups = pr.object.record.groups
        /\ pr'.object.record.perms = pr.object.record.perms
    BY <1>5 DEF Child!ChildType, Reconciles, Named, UserObject, Grant
  <2>3. Child!ChildType' /\ Child!Control' /\ Bounded' /\ Settled'
    BY <1>1, <2>1, WorkKeeps, SettledKept DEF Child!Working
  <2>4. StepTypes'
    BY <1>1, <2>1 DEF StepTypes
  <2>5. RecordFollowed'
    BY <1>1, <1>5, <2>1, <2>2 DEF RecordFollowed, AfterGroups, AfterTokens
  <2> QED
    BY <1>3, <2>3, <2>4, <2>5
<1> QED
  BY <1>4, <1>5 DEF RevokeUserToken

LEMMA GenerateUserTokenInv ==
    ASSUME IInv, GenerateUserToken
    PROVE  IInv'
<1> USE DEF IInv
<1>1. /\ UNCHANGED <<cr, pcache, secretVars, instance, active, identity, scm, member, may, strict>>
      /\ Spent /\ pr.pc = "generate"
      /\ Proceed("store") \/ Proceed("perms")
      /\ token' = token \/ (token' = TRUE /\ active)
  BY DEF GenerateUserToken, CallFails, Spent
<1>2. /\ pr' \in Reconciles /\ pr'.pc \in {"store", "perms"}
      /\ pr'.fresh = pr.fresh /\ pr'.object = pr.object
  BY <1>1, Proceeds DEF Steps
<1>3. Child!ChildType' /\ Child!Control' /\ Bounded' /\ Settled'
  BY <1>1, <1>2, WorkKeeps, SettledKept DEF Child!Working
<1>4. OwnTypes'
  <2>1. CASE token' = token
    BY <1>1, <2>1 DEF OwnTypes, secretVars
  <2>2. CASE token' = TRUE /\ active
    <3>1. token' \in BOOLEAN /\ token' /\ active' = active
      BY <1>1, <2>2
    <3> QED
      BY <1>1, <2>2, <3>1 DEF OwnTypes, secretVars
  <2> QED
    BY <1>1, <2>1, <2>2
<1>5. StepTypes'
  BY <1>1, <1>2 DEF StepTypes
<1>6. RecordFollowed'
  BY <1>1, <1>2 DEF RecordFollowed, AfterGroups, AfterTokens
<1> QED
  BY <1>3, <1>4, <1>5, <1>6

LEMMA StoreUserTokenInv ==
    ASSUME IInv, StoreUserToken
    PROVE  IInv'
<1> USE DEF IInv
<1>1. /\ UNCHANGED <<cr, pcache, secretSeen, instance, sonarVars>>
      /\ Spent /\ pr.pc = "store"
      /\ \/ Proceed("perms")
         \/ pr' = [pr EXCEPT !.pc = "perms", !.object.record.token = TRUE]
  BY DEF StoreUserToken, Spent
<1>2. /\ secret' \in {"absent", "live", "dead"} /\ garbage' \in BOOLEAN
      /\ secret' = "live" => token
  BY DEF StoreUserToken, OwnTypes
<1>3. OwnTypes'
  BY <1>1, <1>2 DEF OwnTypes, sonarVars
<1>4. /\ pr' \in Reconciles /\ pr'.pc = "perms" /\ pr'.fresh = pr.fresh
      /\ pr'.object.exists = pr.object.exists
  BY <1>1, Proceeds, RecordWritten DEF Steps
<1>5. /\ pr'.object.record.groups = pr.object.record.groups
      /\ pr'.object.record.perms = pr.object.record.perms
      /\ pr'.object.record.token = pr.object.record.token \/ pr'.object.record.token
  <2>1. CASE Proceed("perms")
    BY <2>1, Proceeds DEF Steps
  <2>2. CASE pr' = [pr EXCEPT !.pc = "perms", !.object.record.token = TRUE]
    BY <2>2 DEF Child!ChildType, Reconciles, Named, UserObject, Grant
  <2> QED
    BY <1>1, <2>1, <2>2
<1>6. Child!ChildType' /\ Child!Control' /\ Bounded' /\ Settled'
  BY <1>1, <1>4, WorkKeeps, SettledKept DEF Child!Working, sonarVars
<1>7. StepTypes'
  BY <1>1, <1>4 DEF StepTypes
<1>8. RecordFollowed'
  BY <1>1, <1>4, <1>5 DEF RecordFollowed, AfterGroups, AfterTokens, sonarVars
<1> QED
  BY <1>3, <1>6, <1>7, <1>8

LEMMA ReconcilePermissionsInv ==
    ASSUME IInv, ReconcilePermissions
    PROVE  IInv'
<1> USE DEF IInv
<1>1. /\ UNCHANGED <<cr, pcache, secretVars, instance, active, identity, scm, member, token, strict>>
      /\ Spent /\ pr.pc = "perms"
      /\ \E done : Changed(done) /\ done \subseteq Removals \cup Additions
  BY DEF ReconcilePermissions, CallFails, Spent
<1>2. OwnTypes'
  BY <1>1 DEF OwnTypes, secretVars, Changed
<1>3. /\ pr.object.spec.perms \in SUBSET Permissions /\ cr.record.perms \in SUBSET Permissions
      /\ pr.object.record.perms \in SUBSET Permissions
  BY DEF Child!ChildType, Reconciles, Named, UserObject, Grant
<1>4. CASE Proceed("ready")
  <2>1. /\ pr' \in Reconciles /\ pr'.pc = "ready"
        /\ pr'.fresh = pr.fresh /\ pr'.object = pr.object
    BY <1>4, Proceeds DEF Steps
  <2>2. Child!ChildType' /\ Child!Control' /\ Bounded' /\ Settled'
    BY <1>1, <2>1, WorkKeeps, SettledKept DEF Child!Working
  <2>3. StepTypes'
    BY <1>1, <2>1 DEF StepTypes
  <2>4. RecordFollowed'
    BY <1>1, <2>1 DEF RecordFollowed, AfterGroups, AfterTokens
  <2> QED
    BY <1>2, <2>2, <2>3, <2>4
<1>5. CASE /\ Changed(Removals \cup Additions)
           /\ pr' = [pr EXCEPT !.pc = "ready", !.object.record.perms = pr.object.spec.perms]
  <2>1. /\ pr' \in Reconciles /\ pr'.pc = "ready" /\ pr'.fresh = pr.fresh
        /\ pr'.object.exists = pr.object.exists
    BY <1>3, <1>5, RecordWritten DEF Steps
  <2>2. /\ pr'.object.record.groups = pr.object.record.groups
        /\ pr'.object.record.perms = pr.object.spec.perms
        /\ pr'.object.record.token = pr.object.record.token
    BY <1>5 DEF Child!ChildType, Reconciles, Named, UserObject, Grant
  <2>3. Child!ChildType' /\ Child!Control' /\ Bounded' /\ Settled'
    BY <1>1, <2>1, WorkKeeps, SettledKept DEF Child!Working
  <2>4. StepTypes'
    BY <1>1, <2>1 DEF StepTypes
  <2>5. ASSUME pr.fresh, NEW p \in cr.record.perms \ pr.object.spec.perms
        PROVE  may'[p] # "operator"
    <3>1. p \in Permissions /\ p \in Removals
      BY <1>1, <1>3, <2>5 DEF RecordFollowed, Removals
    <3> QED
      BY <1>5, <3>1 DEF Changed
  <2>6. RecordFollowed'
    BY <1>1, <2>1, <2>2, <2>5 DEF RecordFollowed, AfterGroups, AfterTokens
  <2> QED
    BY <1>2, <2>3, <2>4, <2>6
<1> QED
  BY <1>4, <1>5 DEF ReconcilePermissions

LEMMA PublishReadyInv ==
    ASSUME IInv, PublishReady
    PROVE  IInv'
<1> USE DEF IInv
<1> DEFINE new == [cr EXCEPT !.phase = "Ready", !.record = pr.object.record]
<1>1. /\ UNCHANGED <<secretVars, instance, sonarVars>> /\ pr.pc = "ready"
      /\ OwnWrite(new, "idle", "idle")
  BY DEF PublishReady
<1>2. new \in Named /\ Child!Alike(new, cr)
  BY DEF Child!ChildType, Reconciles, Named, UserObject, Child!Alike
<1> HIDE DEF new
<1>3. Child!OwnWrite(new, "idle", "idle") /\ UNCHANGED instance
  BY <1>1, SameCalls
<1>4. /\ Child!ChildType' /\ Child!Control'
      /\ pr'.pc = "idle" /\ pr'.fresh = FALSE
      /\ Child!NoFault \/ Child!Fault
  BY <1>2, <1>3, Shapes, Child!StatusWriteEffect
<1>5. Spent
  BY <1>4, SameCalls DEF Spent
<1>6. OwnTypes' /\ StepTypes'
  BY <1>1, <1>4 DEF OwnTypes, StepTypes, secretVars, sonarVars
<1>7. Settled' /\ Bounded' /\ RecordFollowed'
  BY <1>1, <1>4, <1>5, SettledKept, BoundedKept, RecordDropped
<1> QED
  BY <1>4, <1>6, <1>7

\* An inactive account has lost its groups, permissions and tokens.
LEMMA DeactivatedEffect ==
    ASSUME OwnTypes, UNCHANGED <<garbage, secretSeen>>,
           NEW after \in {"no", "taken"}, Deactivated(after)
    PROVE  /\ OwnTypes' /\ ~active' /\ ~token'
           /\ \A g \in Groups : member'[g] # "operator"
           /\ \A p \in Permissions : may'[p] # "operator"
<1>1. /\ active' \in BOOLEAN /\ ~active' /\ token' \in BOOLEAN /\ ~token'
      /\ UNCHANGED <<identity, scm, strict>>
  BY DEF Deactivated
<1>2. secret' \in {"absent", "live", "dead"} /\ secret' # "live"
  BY DEF Deactivated, Killed, OwnTypes
<1>3. /\ member' \in [Groups -> {"no", "operator", "ui"}]
      /\ may' \in [Permissions -> {"no", "operator", "ui", "taken"}]
      /\ \A g \in Groups : member'[g] # "operator"
      /\ \A p \in Permissions : may'[p] # "operator"
  BY DEF Deactivated
<1> QED
  BY <1>1, <1>2, <1>3 DEF OwnTypes

LEMMA DeactivateUserInv ==
    ASSUME IInv, DeactivateUser
    PROVE  IInv'
<1> USE DEF IInv
<1>1. /\ UNCHANGED <<cr, pcache, garbage, secretSeen, instance>>
      /\ Spent /\ pr.pc = "delete" /\ Proceed("release")
  BY DEF DeactivateUser, CallFails, Spent
<1>2. /\ pr' \in Reconciles /\ pr'.pc = "release"
      /\ pr'.fresh = pr.fresh /\ pr'.object = pr.object
  BY <1>1, Proceeds DEF Steps
<1>3. Child!ChildType' /\ Child!Control' /\ Bounded'
  BY <1>1, <1>2, WorkKeeps
<1>4. StepTypes'
  BY <1>1, <1>2 DEF StepTypes
<1>5. CASE Deactivated("no")
  <2>1. /\ OwnTypes' /\ ~active' /\ ~token'
        /\ \A g \in Groups : member'[g] # "operator"
        /\ \A p \in Permissions : may'[p] # "operator"
    BY <1>1, <1>5, DeactivatedEffect
  <2>2. Settled' /\ RecordFollowed'
    BY <1>1, <1>2, <2>1, SettledKept, RecordKept DEF AfterGroups, AfterTokens
  <2> QED
    BY <1>3, <1>4, <2>1, <2>2
<1>6. CASE UNCHANGED <<sonarVars, secret>> /\ CallFails(active)
  <2>1. OwnTypes'
    BY <1>1, <1>6 DEF OwnTypes, sonarVars
  <2>2. RecordFollowed'
    BY <1>1, <1>2, <1>6, <2>1, RecordKept DEF AfterGroups, AfterTokens, sonarVars
  <2>3. Settled'
    <3>1. CASE Fault
      <4>1. ~Clean'
        BY <3>1, UserAssumption
        DEF Fault, Spend, Child!ChildType, Child!Budgets, Bounded, Clean
      <4> QED
        BY <4>1 DEF Settled
    <3>2. CASE ~active
      BY <1>1, <1>2, <1>6, <3>2, SettledKept DEF sonarVars
    <3>3. CASE instance # "Ready" /\ NoFault
      BY <3>3 DEF Settled, NoFault, Clean
    <3> QED
      BY <1>6, <3>1, <3>2, <3>3 DEF CallFails
  <2> QED
    BY <1>3, <1>4, <2>1, <2>2, <2>3
<1> QED
  BY <1>5, <1>6 DEF DeactivateUser

-----------------------------------------------------------------------------
(* The surroundings preserve the invariant *)

\* Any spec may be asked for.
LEMMA SpecsEffect ==
    ASSUME NEW object \in UserObject, NEW new \in Specs(object)
    PROVE  /\ new \in UserObject /\ new.profile \in Profiles
           /\ new.exists = object.exists /\ new.deleting = object.deleting
           /\ new.finalizer = object.finalizer /\ new.record = object.record
<1>1. PICK wish \in Wishes : new = [object EXCEPT !.profile = wish.profile, !.spec = wish.grant]
  BY DEF Specs
<1>2. wish.profile \in Profiles /\ wish.grant \in Grant
  BY UserAssumption DEF Wish
<1> QED
  BY <1>1, <1>2 DEF UserObject

\* A user's write touches the status of a resource only by removing it.
LEMMA WrittenInv ==
    ASSUME IInv, Child!ChildType', Child!Control', Spent,
           UNCHANGED <<instance, sonarVars>>, OwnTypes',
           pr'.pc = pr.pc, pr'.object = pr.object, pr'.fresh => pr.fresh /\ cr' = cr
    PROVE  IInv'
<1> USE DEF IInv
<1>1. StepTypes'
  BY DEF StepTypes
<1>2. Bounded' /\ Settled'
  BY BoundedKept, SettledKept DEF sonarVars
<1>3. RecordFollowed'
  BY RecordKept DEF sonarVars, AfterGroups, AfterTokens
<1> QED
  BY <1>1, <1>2, <1>3

LEMMA UserEditsInv ==
    ASSUME IInv, UserEdits
    PROVE  IInv'
<1> USE DEF IInv
<1>1. /\ Spent /\ UNCHANGED <<instance, sonarVars>> /\ OwnTypes'
      /\ Child!Spend("edits")
  BY OrphanedTypes, SameCalls DEF UserEdits, Spent
<1>2. budget' \in Child!Budgets
  BY <1>1, BudgetSpent DEF Child!ChildType
<1>3. cr \in UserObject /\ Absent \in UserObject /\ ~Absent.exists /\ ~Absent.deleting
      /\ ~Absent.finalizer
  BY Shapes DEF Child!ChildType, Child!ResourceShape, Named
<1>4. CASE ~cr.exists /\ \E new \in Specs(Absent) : UserWrites([new EXCEPT !.exists = TRUE])
  <2>1. PICK spec \in Specs(Absent) : UserWrites([spec EXCEPT !.exists = TRUE])
    BY <1>4
  <2> DEFINE new == [spec EXCEPT !.exists = TRUE]
  <2>2. new \in Named /\ new.exists /\ ~new.deleting /\ ~new.finalizer
    BY <1>3, SpecsEffect DEF Named, UserObject
  <2> HIDE DEF new
  <2>3. Child!UserWrites(new)
    BY <2>1, SameCalls DEF new
  <2>4. /\ Child!ChildType' /\ Child!Control'
        /\ pr'.pc = pr.pc /\ pr'.object = pr.object /\ (pr'.fresh => pr.fresh /\ cr' = cr)
    BY <1>1, <1>2, <1>4, <2>2, <2>3, Shapes, Child!UserWritesEffect
  <2> QED
    BY <1>1, <2>4, WrittenInv
<1>5. CASE Editable /\ \E new \in Specs(cr) \ {cr} : UserWrites(new)
  <2>1. PICK new \in Specs(cr) : UserWrites(new)
    BY <1>5
  <2>2. /\ new \in Named /\ new.exists = cr.exists /\ new.deleting = cr.deleting
        /\ new.finalizer = cr.finalizer
    BY <1>3, SpecsEffect DEF Named
  <2>3. Child!UserWrites(new) /\ cr.exists
    BY <1>5, <2>1, SameCalls DEF Editable
  <2>4. /\ Child!ChildType' /\ Child!Control'
        /\ pr'.pc = pr.pc /\ pr'.object = pr.object /\ (pr'.fresh => pr.fresh /\ cr' = cr)
    BY <1>1, <1>2, <2>2, <2>3, Shapes, Child!UserWritesEffect
  <2> QED
    BY <1>1, <2>4, WrittenInv
<1>6. CASE UserDeletes
  <2>1. /\ Child!ChildType' /\ Child!Control'
        /\ pr'.pc = pr.pc /\ pr'.object = pr.object /\ (pr'.fresh => pr.fresh /\ cr' = cr)
    BY <1>1, <1>2, <1>6, SameSteps, Shapes, Child!UserDeletesEffect
  <2> QED
    BY <1>1, <2>1, WrittenInv
<1> QED
  BY <1>4, <1>5, <1>6 DEF UserEdits

\* What leaves the resource, the reconcile and the instance alone.
LEMMA ElsewhereInv ==
    ASSUME IInv, UNCHANGED <<cr, pcache, instance, pr>>, Spent, OwnTypes',
           \A g \in Groups : member'[g] = "operator" => member[g] = "operator",
           \A p \in Permissions : may'[p] = "operator" => may[p] = "operator",
           token' => token, active' => active
    PROVE  IInv'
<1> USE DEF IInv
<1>1. Child!ChildType' /\ Child!Control' /\ Bounded'
  BY WorkKeeps DEF Child!ChildType
<1>2. StepTypes' /\ RecordFollowed'
  BY RecordKept DEF StepTypes
<1>3. Settled'
  <2>1. Clean' => Clean
    BY BudgetSpent, UserAssumption DEF Child!ChildType, Child!Budgets, Bounded, Clean
  <2> QED
    BY <2>1 DEF Settled
<1> QED
  BY <1>1, <1>2, <1>3

LEMMA SecretsInv ==
    ASSUME IInv, UserDeletesSecret \/ CollectSecret \/ SyncSecret
    PROVE  IInv'
<1>1. /\ UNCHANGED <<cr, pcache, instance, pr, sonarVars>> /\ Spent
      /\ UNCHANGED secret \/ secret' = "absent"
      /\ UNCHANGED garbage \/ garbage' = FALSE
      /\ UNCHANGED secretSeen \/ secretSeen' = SecretExists
  BY DEF UserDeletesSecret, CollectSecret, SyncSecret, Spent, NoFault
<1>2. OwnTypes'
  BY <1>1 DEF IInv, OwnTypes, sonarVars, SecretExists
<1> QED
  BY <1>1, <1>2, ElsewhereInv DEF sonarVars

LEMMA ChangeInUIInv ==
    ASSUME IInv, ChangeInUI
    PROVE  IInv'
<1> USE DEF IInv
<1>1. UNCHANGED <<cr, pcache, garbage, secretSeen, instance, pr>> /\ Spent
  BY DEF ChangeInUI, Spent
<1>2. ASSUME NEW g \in Groups,
             member' = [member EXCEPT ![g] = IF member[g] = "no" THEN "ui" ELSE "no"],
             UNCHANGED <<active, identity, scm, may, token, strict, secret>>
      PROVE  IInv'
  <2>1. /\ member' \in [Groups -> {"no", "operator", "ui"}]
        /\ \A h \in Groups : member'[h] = "operator" => member[h] = "operator"
    BY <1>2 DEF OwnTypes
  <2>2. OwnTypes'
    BY <1>1, <1>2, <2>1 DEF OwnTypes
  <2> QED
    BY <1>1, <1>2, <2>1, <2>2, ElsewhereInv
<1>3. ASSUME NEW p \in Permissions,
             may' = [may EXCEPT ![p] = IF may[p] \in {"no", "taken"} THEN "ui" ELSE "taken"],
             UNCHANGED <<active, identity, scm, member, token, strict, secret>>
      PROVE  IInv'
  <2>1. /\ may' \in [Permissions -> {"no", "operator", "ui", "taken"}]
        /\ \A q \in Permissions : may'[q] = "operator" => may[q] = "operator"
    BY <1>3 DEF OwnTypes
  <2>2. OwnTypes'
    BY <1>1, <1>3, <2>1 DEF OwnTypes
  <2> QED
    BY <1>1, <1>3, <2>1, <2>2, ElsewhereInv
<1>4. ASSUME NEW profile \in Profiles,
             \/ identity' = profile /\ UNCHANGED scm
             \/ scm' = profile /\ UNCHANGED identity,
             UNCHANGED <<active, member, may, token, strict, secret>>
      PROVE  IInv'
  <2>1. OwnTypes'
    BY <1>1, <1>4, UserAssumption DEF OwnTypes
  <2> QED
    BY <1>1, <1>4, <2>1, ElsewhereInv
<1>5. CASE Deactivated("taken")
  <2>1. /\ OwnTypes' /\ ~active' /\ ~token'
        /\ \A g \in Groups : member'[g] # "operator"
        /\ \A p \in Permissions : may'[p] # "operator"
    BY <1>1, <1>5, DeactivatedEffect
  <2> QED
    BY <1>1, <2>1, ElsewhereInv
<1> QED
  BY <1>2, <1>3, <1>4, <1>5 DEF ChangeInUI

LEMMA SyncUserInv ==
    ASSUME IInv, SyncUser
    PROVE  IInv'
<1> USE DEF IInv
<1>1. /\ Child!ChildType' /\ Child!Control' /\ UNCHANGED <<cr, instance, pr, budget>>
      /\ UNCHANGED <<secretVars, sonarVars>>
  BY SameSteps, Child!SyncResourceEffect DEF SyncUser
<1>2. OwnTypes' /\ StepTypes'
  BY <1>1 DEF OwnTypes, StepTypes, secretVars, sonarVars
<1>3. RecordFollowed' /\ Bounded' /\ Settled'
  BY <1>1 DEF RecordFollowed, Bounded, Settled, Clean, sonarVars
<1> QED
  BY <1>1, <1>2, <1>3

\* Once the instance has turned, nothing is promised of a deletion.
LEMMA TurnInv ==
    ASSUME IInv, Turn
    PROVE  IInv'
<1> USE DEF IInv
<1>1. /\ Child!ChildType' /\ Child!Control' /\ UNCHANGED <<cr, pcache, pr>>
      /\ UNCHANGED <<secretVars, sonarVars>>
      /\ Child!Spend("turns") /\ budget'.turns < budget.turns
  BY SameSteps, Child!InstanceTurnsEffect DEF Turn
<1>2. Spent
  BY <1>1, SameCalls DEF Spent
<1>3. OwnTypes' /\ StepTypes' /\ RecordFollowed'
  BY <1>1 DEF OwnTypes, StepTypes, secretVars, sonarVars, RecordFollowed
<1>4. Bounded' /\ budget' \in Child!Budgets
  BY <1>2, BoundedKept, BudgetSpent DEF Child!ChildType
<1>5. ~Clean'
  BY <1>1, <1>4, UserAssumption DEF Child!ChildType, Child!Budgets, Bounded, Clean
<1> QED
  BY <1>1, <1>3, <1>4, <1>5 DEF Settled

LEMMA ManagerRestartInv ==
    ASSUME IInv, ManagerRestart
    PROVE  IInv'
<1> USE DEF IInv
<1>1. /\ Child!ChildType' /\ Child!Control' /\ UNCHANGED <<cr, instance>>
      /\ pr'.pc = "idle" /\ pr'.fresh = FALSE /\ Child!Fault
      /\ UNCHANGED <<secret, garbage, sonarVars>> /\ secretSeen' = SecretExists
  BY SameSteps, Shapes, Child!RestartEffect DEF ManagerRestart
<1>2. Spent
  BY <1>1, SameCalls DEF Spent
<1>3. OwnTypes' /\ StepTypes'
  BY <1>1 DEF OwnTypes, StepTypes, sonarVars, SecretExists
<1>4. Bounded' /\ Settled' /\ RecordFollowed'
  BY <1>1, <1>2, BoundedKept, SettledKept, RecordDropped
<1> QED
  BY <1>1, <1>3, <1>4

-----------------------------------------------------------------------------
(* The invariant is inductive *)

LEMMA InitInv ==
    ASSUME Init
    PROVE  IInv
<1>1. PICK spec \in Specs(Absent) : cr = [spec EXCEPT !.exists = TRUE]
  BY DEF Init
<1>2. Absent \in UserObject /\ ~Absent.deleting /\ ~Absent.finalizer
  BY Shapes DEF Child!ResourceShape, Named
<1>3. cr \in Named /\ cr.exists /\ ~cr.deleting /\ ~cr.finalizer
  BY <1>1, <1>2, SpecsEffect DEF Named, UserObject
<1>4. budget \in Child!Budgets /\ Bounded
  BY UserAssumption DEF Init, Child!Budgets, Bounded
<1>5. pr = NoReconcile /\ instance = "Ready" /\ pcache = [object |-> cr, fresh |-> TRUE]
  BY DEF Init
<1>6. Child!ChildType /\ Child!Control
  BY <1>3, <1>4, <1>5, Shapes, Child!InitEffect
<1>7. pr.pc = "idle" /\ pr.fresh = FALSE
  BY <1>5 DEF NoReconcile
<1>8. OwnTypes
  BY UserAssumption DEF Init, OwnTypes
<1>9. StepTypes /\ RecordFollowed /\ Settled
  BY <1>5, <1>7 DEF StepTypes, RecordFollowed, Settled
<1> QED
  BY <1>4, <1>6, <1>8, <1>9 DEF IInv

LEMMA StutterInv ==
    ASSUME IInv, UNCHANGED vars
    PROVE  IInv'
<1> USE DEF IInv, vars, secretVars, sonarVars
<1>1. Child!ChildType' /\ OwnTypes' /\ StepTypes'
  BY DEF Child!ChildType, OwnTypes, StepTypes
<1>2. Child!Control'
  BY Child!ControlKept
<1>3. RecordFollowed' /\ Bounded' /\ Settled'
  BY DEF RecordFollowed, Bounded, Settled, Clean
<1> QED
  BY <1>1, <1>2, <1>3

LEMMA NextInv ==
    ASSUME IInv, [Next]_vars
    PROVE  IInv'
<1>1. CASE Start
  BY <1>1, StartInv
<1>2. CASE Lifecycle
  BY <1>2, LifecycleInv
<1>3. CASE GetUser
  BY <1>3, GetUserInv
<1>4. CASE UpdateUser
  BY <1>4, UpdateUserInv
<1>5. CASE CreateUser
  BY <1>5, CreateUserInv
<1>6. CASE ReconcileGroups
  BY <1>6, ReconcileGroupsInv
<1>7. CASE UpdateUserScmAccounts
  BY <1>7, UpdateUserScmAccountsInv
<1>8. CASE LookForToken
  BY <1>8, LookForTokenInv
<1>9. CASE RevokeUserToken
  BY <1>9, RevokeUserTokenInv
<1>10. CASE GenerateUserToken
  BY <1>10, GenerateUserTokenInv
<1>11. CASE StoreUserToken
  BY <1>11, StoreUserTokenInv
<1>12. CASE ReconcilePermissions
  BY <1>12, ReconcilePermissionsInv
<1>13. CASE PublishReady
  BY <1>13, PublishReadyInv
<1>14. CASE DeactivateUser
  BY <1>14, DeactivateUserInv
<1>15. CASE UserEdits
  BY <1>15, UserEditsInv
<1>16. CASE UserDeletesSecret \/ CollectSecret \/ SyncSecret
  BY <1>16, SecretsInv
<1>17. CASE ChangeInUI
  BY <1>17, ChangeInUIInv
<1>18. CASE SyncUser
  BY <1>18, SyncUserInv
<1>19. CASE Turn
  BY <1>19, TurnInv
<1>20. CASE ManagerRestart
  BY <1>20, ManagerRestartInv
<1>21. CASE UNCHANGED vars
  BY <1>21, StutterInv
<1> QED
  BY <1>1, <1>2, <1>3, <1>4, <1>5, <1>6, <1>7, <1>8, <1>9, <1>10, <1>11, <1>12,
     <1>13, <1>14, <1>15, <1>16, <1>17, <1>18, <1>19, <1>20, <1>21
  DEF Next, Step

-----------------------------------------------------------------------------
(* What the steps may do *)

\* Nobody but createUser activates an account.
LEMMA ActivatedByCreate ==
    ASSUME Next, ~active, active'
    PROVE  CreateUser
<1>1. CASE Start \/ Lifecycle
  BY <1>1 DEF Start, Lifecycle, sonarVars
<1>2. CASE GetUser \/ UpdateUser \/ ReconcileGroups \/ UpdateUserScmAccounts
  BY <1>2 DEF GetUser, UpdateUser, ReconcileGroups, UpdateUserScmAccounts, sonarVars
<1>3. CASE LookForToken \/ RevokeUserToken \/ GenerateUserToken \/ StoreUserToken
  BY <1>3 DEF LookForToken, RevokeUserToken, GenerateUserToken, StoreUserToken, sonarVars
<1>4. CASE ReconcilePermissions \/ PublishReady
  BY <1>4 DEF ReconcilePermissions, PublishReady, sonarVars
<1>5. CASE DeactivateUser \/ ChangeInUI
  BY <1>5 DEF DeactivateUser, ChangeInUI, Deactivated, sonarVars
<1>6. CASE UserEdits \/ UserDeletesSecret \/ CollectSecret
  BY <1>6 DEF UserEdits, UserDeletesSecret, CollectSecret, sonarVars
<1>7. CASE SyncUser \/ SyncSecret \/ Turn \/ ManagerRestart
  BY <1>7 DEF SyncUser, SyncSecret, Turn, ManagerRestart, sonarVars
<1> QED
  BY <1>1, <1>2, <1>3, <1>4, <1>5, <1>6, <1>7 DEF Next, Step

\* The resource goes when its finalizer is released, or at once without one, and
\* the status loses a part of the record only when a reconcile that saw all there
\* was is at its end.
RecordRead == pr.pc = "ready" /\ pr.fresh /\ cr'.record = pr.object.record

LEMMA ResourceWritten ==
    ASSUME IInv, [Next]_vars
    PROVE  \/ cr'.record = cr.record /\ (cr.exists => cr'.exists)
           \/ RecordRead /\ (cr.exists => cr'.exists)
           \/ pr.pc = "release" /\ ~cr'.exists
           \/ ~cr.finalizer /\ ~cr'.exists
<1> USE DEF IInv
<1>1. /\ cr \in Named /\ pr \in Reconciles /\ (cr.exists \/ cr = Absent)
      /\ Absent \in UserObject /\ ~Absent.exists
  BY Shapes DEF Child!ChildType, Child!Control, Child!NoRemains, Child!ResourceShape, Named
<1>2. CASE UNCHANGED cr
  BY <1>2
<1>3. CASE AddFinalizer \/ PublishPhase
  <2>1. \/ cr' = cr \/ cr' = [cr EXCEPT !.finalizer = TRUE]
        \/ \E phase \in {"Pending", "Failed"} : cr' = [cr EXCEPT !.phase = phase]
    BY <1>3, Shapes, SameSteps, Child!AddFinalizerEffect, Child!PublishPhaseEffect
  <2> QED
    BY <1>1, <2>1 DEF Named, UserObject
<1>4. CASE ReleaseFinalizer
  <2>1. /\ \/ cr' = cr \/ cr' = Absent \/ cr' = [cr EXCEPT !.finalizer = FALSE]
        /\ pr.pc = "release"
    BY <1>4, Shapes, SameSteps, Child!ReleaseFinalizerEffect DEF ReleaseFinalizer
  <2> QED
    BY <1>1, <2>1 DEF Named, UserObject
<1>5. CASE PublishReady
  <2> DEFINE new == [cr EXCEPT !.phase = "Ready", !.record = pr.object.record]
  <2>1. pr.pc = "ready" /\ new.record = pr.object.record /\ new.exists = cr.exists
    BY <1>1, <1>5 DEF PublishReady, Named, UserObject
  <2>2. UNCHANGED cr \/ (cr' = new /\ pr.fresh)
    BY <1>5 DEF PublishReady, OwnWrite, Write
  <2> QED
    BY <2>1, <2>2 DEF RecordRead
<1>6. CASE UserEdits
  <2>1. CASE ~cr.exists /\ \E new \in Specs(Absent) : UserWrites([new EXCEPT !.exists = TRUE])
    <3>1. PICK new \in Specs(Absent) : cr' = [new EXCEPT !.exists = TRUE]
      BY <2>1 DEF UserWrites, Write
    <3>2. cr'.exists /\ cr'.record = cr.record
      BY <1>1, <2>1, <3>1, SpecsEffect DEF UserObject
    <3> QED
      BY <3>2
  <2>2. CASE \E new \in Specs(cr) \ {cr} : UserWrites(new)
    <3>1. PICK new \in Specs(cr) : cr' = new
      BY <2>2 DEF UserWrites, Write
    <3> QED
      BY <1>1, <3>1, SpecsEffect DEF Named
  <2>3. CASE UserDeletes
    <3>1. cr' = [cr EXCEPT !.deleting = TRUE] \/ (~cr.finalizer /\ cr' = Absent)
      BY <2>3 DEF UserDeletes, UserWrites, Write
    <3> QED
      BY <1>1, <3>1 DEF Named, UserObject
  <2> QED
    BY <1>6, <2>1, <2>2, <2>3 DEF UserEdits
<1>7. CASE Start \/ GetUser \/ UpdateUser \/ CreateUser \/ ReconcileGroups
           \/ UpdateUserScmAccounts \/ UNCHANGED vars
  BY <1>2, <1>7
  DEF Start, PickUp, GetUser, UpdateUser, CreateUser, ReconcileGroups,
      UpdateUserScmAccounts, vars
<1>8. CASE LookForToken \/ RevokeUserToken \/ GenerateUserToken \/ StoreUserToken
           \/ ReconcilePermissions \/ DeactivateUser
  BY <1>2, <1>8
  DEF LookForToken, RevokeUserToken, GenerateUserToken, StoreUserToken,
      ReconcilePermissions, DeactivateUser
<1>9. CASE \/ UserDeletesSecret \/ ChangeInUI \/ CollectSecret \/ SyncUser \/ SyncSecret
           \/ Turn \/ ManagerRestart
  BY <1>2, <1>9
  DEF UserDeletesSecret, ChangeInUI, CollectSecret, SyncUser, SyncResource, SyncSecret,
      Turn, InstanceTurns, ManagerRestart, Restart
<1> QED
  BY <1>3, <1>4, <1>5, <1>6, <1>7, <1>8, <1>9 DEF Next, Step, Lifecycle, Conclude

-----------------------------------------------------------------------------
(* Theorems *)

\* Every reachable state has the types, and the relations between an account, its
\* token and the Secret, that the model's steps rely on.
THEOREM TypeCorrect == Spec => []UserTypeOK
<1>1. Init => IInv
  BY InitInv
<1>2. IInv /\ [Next]_vars => IInv'
  BY NextInv
<1>3. IInv => UserTypeOK
  BY TypesHold
<1> QED
  BY <1>1, <1>2, <1>3, PTL DEF Spec

THEOREM Invariance == Spec => []IInv
<1>1. Init => IInv
  BY InitInv
<1>2. IInv /\ [Next]_vars => IInv'
  BY NextInv
<1> QED
  BY <1>1, <1>2, PTL DEF Spec

\* CreateUser is called only while the stored resource carries the finalizer,
\* however stale the copy the reconcile goes by and whatever users do meanwhile.
THEOREM ActivationIsGuarded == Spec => CreatedUnderFinalizer
<1>1. IInv /\ [Next]_vars => [~active /\ active' => cr.exists /\ cr.finalizer]_vars
  <2> SUFFICES ASSUME IInv, Next, ~active, active'
               PROVE  cr.exists /\ cr.finalizer
    OBVIOUS
  <2>1. pr.pc = "create"
    BY ActivatedByCreate DEF CreateUser
  <2> QED
    BY <2>1 DEF IInv, Child!Control, Child!WorkUnderFinalizer, Child!Working
<1> QED
  BY <1>1, Invariance, PTL DEF Spec, CreatedUnderFinalizer

\* A resource leaves Kubernetes with its account deactivated if no call failed and
\* the instance was there throughout: stale copies cannot break that.
THEOREM DeletionSettles == Spec => DeletionDeactivates
<1>1. IInv /\ [Next]_vars
        => [cr.finalizer /\ ~cr'.exists
              => ~active \/ budget.faults < MaxFaults \/ budget.turns < MaxTurns]_vars
  <2> SUFFICES ASSUME IInv, [Next]_vars, cr.finalizer, ~cr'.exists
               PROVE  ~active \/ budget.faults < MaxFaults \/ budget.turns < MaxTurns
    OBVIOUS
  <2>1. cr.exists
    BY Shapes DEF IInv, Child!Control, Child!NoRemains, Child!ResourceShape
  <2>2. pr.pc = "release"
    BY <2>1, ResourceWritten
  <2> QED
    BY <2>2, UserAssumption
    DEF IInv, Settled, Clean, Bounded, Child!ChildType, Child!Budgets
<1> QED
  BY <1>1, Invariance, PTL DEF Spec, DeletionDeactivates

\* What the operator granted leaves the record only when it is gone from SonarQube,
\* whichever of the calls that take it back failed.
THEOREM RecordIsKept == Spec => NothingForgotten
<1>1. IInv /\ [Next]_vars
        => [cr'.exists => ~Held(Without(cr.record, cr'.record))]_vars
  <2> SUFFICES ASSUME IInv, [Next]_vars, cr'.exists
               PROVE  ~Held(Without(cr.record, cr'.record))
    OBVIOUS
  <2>1. CASE cr'.record = cr.record
    BY <2>1 DEF Held, Without
  <2>2. CASE RecordRead
    BY <2>2 DEF IInv, RecordFollowed, RecordRead, Held, Without
  <2> QED
    BY <2>1, <2>2, ResourceWritten
<1> QED
  BY <1>1, Invariance, PTL DEF Spec, NothingForgotten

=============================================================================
