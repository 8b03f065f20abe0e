-------------------------- MODULE SonarQubeProject --------------------------
(***************************************************************************)
(* The SonarQubeProject controller: the project in SonarQube, what the     *)
(* operator asserts on it (the main branch) or grants (links, settings,    *)
(* permissions) and records in the status, and the CI token with its       *)
(* Secret and its rotation.                                                *)
(*                                                                         *)
(* One resource.  Its reconcile is a sequence of steps, one per call that  *)
(* matters to the properties, taken on a copy from the informer; what it   *)
(* shares with other controllers comes from ChildController.               *)
(***************************************************************************)
EXTENDS Naturals

CONSTANTS
    Grants,         \* links, settings and permissions spec may list
    Branches,       \* names of main branches in SonarQube
    Wishes,         \* what users ask for in the spec
    MaxFaults,      \* bound: calls and answers lost, crashes of the manager
    MaxLags,        \* bound: decisions taken on a stale informer copy
    MaxEdits,       \* bound: what users do
    MaxTurns        \* bound: changes of the instance

\* spec.ciToken.enabled, mainBranch; links, settings and permissions.
Wish == [ci : BOOLEAN, branch : Branches \cup {"unset"}, want : SUBSET Grants]

ASSUME ProjectAssumption ==
    /\ Wishes \subseteq Wish /\ "unset" \notin Branches
    /\ {MaxFaults, MaxLags, MaxEdits, MaxTurns} \subseteq Nat

VARIABLES
    cr,             \* the stored SonarQubeProject
    pcache,         \* the informer's copy of it
    secret,         \* the CI token Secret: absent, or its token live or dead
    garbage,        \* the Secret's owner is gone
    secretSeen,     \* the Secret informer shows it
    instance,       \* the SonarQubeInstance, admin token included
    pr,             \* the reconcile in flight
    project,        \* SonarQube: the project exists
    branch,         \* SonarQube: its main branch
    granted,        \* SonarQube: who made each grant, if it is there
    token,          \* SonarQube: a token with the CI token's name exists
    requested,      \* history: rotations asked for less tokens that died
    budget          \* what is left of the bounds

secretVars == <<secret, garbage, secretSeen>>
sonarVars == <<project, branch, granted, token>>
vars == <<cr, pcache, secretVars, instance, pr, sonarVars, requested, budget>>

-----------------------------------------------------------------------------
(* Types *)

ProjectObject == [exists : BOOLEAN, deleting : BOOLEAN, finalizer : BOOLEAN,
                  rotate : BOOLEAN,         \* the rotate-token annotation
                  ci : BOOLEAN,             \* spec.ciToken.enabled
                  branch : Branches \cup {"unset"},     \* spec.mainBranch
                  want : SUBSET Grants,     \* spec.links, settings, permissions
                  managed : SUBSET Grants,  \* their record in the status
                  synced : {"none", "no", "yes"},       \* condition MainBranchSynced
                  phase : {"None", "Pending", "Failed", "Ready"}]

Absent == [exists |-> FALSE, deleting |-> FALSE, finalizer |-> FALSE, rotate |-> FALSE,
           ci |-> FALSE, branch |-> "unset", want |-> {}, managed |-> {},
           synced |-> "none", phase |-> "None"]

Steps == {"idle", "pending", "finalizer", "get", "create", "failed", "branch",
          "grants", "token", "clear", "revoke", "delete-secret", "generate", "store",
          "ready", "delete", "release"}

NoReconcile == [pc |-> "idle", object |-> Absent, fresh |-> FALSE, found |-> FALSE]

ProjectTypeOK ==
    /\ cr \in ProjectObject
    /\ pcache \in [object : ProjectObject, fresh : BOOLEAN]
    /\ secret \in {"absent", "live", "dead"}
    /\ garbage \in BOOLEAN /\ secretSeen \in BOOLEAN
    /\ instance \in {"Ready", "NotReady", "Gone"}
    /\ pr \in [pc : Steps, object : ProjectObject, fresh : BOOLEAN, found : BOOLEAN]
    /\ project \in BOOLEAN /\ branch \in Branches
    /\ token \in BOOLEAN /\ requested \in Nat
    /\ granted \in [Grants -> {"no", "operator", "ui"}]
    /\ budget \in [faults : Nat, lags : Nat, edits : Nat, turns : Nat]
    /\ pr.pc = "store" => token     \* what is about to be stored was issued
    /\ pr.pc = "branch" => pr.object.branch # "unset"    \* none is asserted unasked

-----------------------------------------------------------------------------
(* The reconcile, step by step *)

INSTANCE ChildController

Held(g) == granted[g] # "no"
SecretExists == secret # "absent"

\* The Secret of a resource that goes away is left to the garbage collector.
Orphaned == garbage' = IF cr.exists /\ ~cr'.exists THEN SecretExists ELSE garbage

Start == PickUp /\ UNCHANGED <<secretVars, sonarVars, requested>>

\* Finalizer, phases Pending and Failed, release.
Lifecycle == Conclude /\ Orphaned /\ UNCHANGED <<secret, secretSeen, sonarVars, requested>>

AfterGet == IF pr.object.branch = "unset" THEN "grants" ELSE "branch"

\* Faulty variant: grants are made for a new project only.
GetProjectOnce ==
    /\ At("get")
    /\ \/ instance = "Ready" /\ NoFault /\ Proceed(IF project THEN "ready" ELSE "create")
       \/ CallFails(TRUE) /\ Proceed("idle")
    /\ UNCHANGED <<cr, pcache, secretVars, instance, sonarVars, requested>>

GetProject ==
    /\ At("get")
    /\ \/ instance = "Ready" /\ NoFault /\ Proceed(IF project THEN AfterGet ELSE "create")
       \/ CallFails(TRUE) /\ Proceed("idle")
    /\ UNCHANGED <<cr, pcache, secretVars, instance, sonarVars, requested>>

\* SonarQube names the main branch of a new project.
CreateProject ==
    /\ At("create")
    /\ \/ /\ instance = "Ready" /\ ~project /\ project' = TRUE /\ branch' \in Branches
          /\ (NoFault /\ Proceed(AfterGet)) \/ (Fault /\ Proceed("failed"))
       \/ CallFails(~project) /\ Proceed("failed") /\ UNCHANGED <<project, branch>>
    /\ UNCHANGED <<cr, pcache, secretVars, instance, granted, token, requested>>

\* setMainBranchCondition, on the copy in memory.
Report(synced) == pr' = [pr EXCEPT !.pc = "grants", !.object.synced = synced]

\* Faulty variant: a branch that has the right name is not reported on.
AssertBranchQuietly ==
    /\ At("branch")
    /\ \/ /\ instance = "Ready" /\ NoFault
          /\ branch' = pr.object.branch
          /\ IF branch = pr.object.branch THEN Proceed("grants") ELSE Report("yes")
       \/ /\ instance = "Ready" /\ Fault
          /\ branch' = pr.object.branch /\ Report("no")
       \/ CallFails(TRUE) /\ Report("no") /\ UNCHANGED branch
    /\ UNCHANGED <<cr, pcache, secretVars, instance, project, granted, token, requested>>

\* The main branch is looked up and renamed; an error is reported in the status
\* and the reconcile goes on.  Visibility, gate and tags are asserted the same way,
\* each by calls of its own and without a report: the branch stands for them.
AssertBranch ==
    /\ At("branch")
    /\ \/ /\ instance = "Ready" /\ NoFault
          /\ branch' = pr.object.branch /\ Report("yes")
       \/ /\ instance = "Ready" /\ Fault      \* renamed, the answer is lost
          /\ branch' = pr.object.branch /\ Report("no")
       \/ CallFails(TRUE) /\ Report("no") /\ UNCHANGED branch
    /\ UNCHANGED <<cr, pcache, secretVars, instance, project, granted, token, requested>>

\* Grants to take back and to make, as reconcileProjectLinks, -Settings and
\* -Permissions compute them from the record in the status.
ToRevoke == {g \in pr.object.managed \ pr.object.want : Held(g)}
ToGrant == {g \in pr.object.want : ~Held(g)}

AfterGrants == IF pr.object.ci THEN "token" ELSE "ready"

Carried(done) ==
    granted' = [g \in Grants |-> IF g \notin done THEN granted[g]
                                 ELSE IF g \in ToGrant THEN "operator" ELSE "no"]

\* Faulty variant: the record is written whatever the outcome.
ApplyGrantsUnchecked ==
    /\ At("grants")
    /\ \/ /\ instance = "Ready" /\ NoFault
          /\ Carried(ToRevoke \cup ToGrant)
       \/ /\ (instance # "Ready" /\ NoFault) \/ Fault
          /\ \E done \in SUBSET (ToRevoke \cup ToGrant) : Carried(done)
    /\ pr' = [pr EXCEPT !.pc = AfterGrants, !.object.managed = pr.object.want]
    /\ UNCHANGED <<cr, pcache, secretVars, instance, project, branch, token, requested>>

\* The three lists, best-effort: an error leaves the record as it was and the
\* reconcile goes on.  Which calls were carried out before an error depends on
\* the order of a map or a list.
ApplyGrants ==
    /\ At("grants")
    /\ \/ /\ instance = "Ready" /\ NoFault
          /\ Carried(ToRevoke \cup ToGrant)
          /\ pr' = [pr EXCEPT !.pc = AfterGrants, !.object.managed = pr.object.want]
       \/ /\ (instance # "Ready" /\ NoFault) \/ Fault
          /\ \E done \in SUBSET (ToRevoke \cup ToGrant) : Carried(done)
          /\ Proceed(AfterGrants)
    /\ UNCHANGED <<cr, pcache, secretVars, instance, project, branch, token, requested>>

\* reconcileCIToken looks for the Secret in the cache and for the annotation on
\* the copy.  The faulty variant does not clear the annotation first.
LookForSecretThenRotate ==
    /\ At("token")
    /\ IF secretSeen = SecretExists THEN NoFault ELSE Spend("lags")
    /\ pr' = [pr EXCEPT !.found = secretSeen,
                        !.pc = IF secretSeen /\ ~pr.object.rotate THEN "ready" ELSE "revoke"]
    /\ UNCHANGED <<cr, pcache, secretVars, instance, sonarVars, requested>>

LookForSecret ==
    /\ At("token")
    /\ IF secretSeen = SecretExists THEN NoFault ELSE Spend("lags")
    /\ pr' = [pr EXCEPT !.found = secretSeen,
                        !.pc = IF pr.object.rotate THEN "clear"
                               ELSE IF secretSeen THEN "ready" ELSE "revoke"]
    /\ UNCHANGED <<cr, pcache, secretVars, instance, sonarVars, requested>>

\* What the reconcile holds after the merge patch was answered: the stored
\* object, except that lists the answer omits because they are empty, the list of
\* conditions too, keep their value in memory.
Refreshed ==
    [cr EXCEPT !.rotate = FALSE,
               !.synced = IF cr.phase = "None" THEN pr.object.synced ELSE cr.synced,
               !.managed = IF cr.managed = {} THEN pr.object.managed ELSE cr.managed]

\* The patch carries no resourceVersion and is accepted for any stored version.
ClearAnnotation ==
    /\ At("clear")
    /\ \/ /\ cr.exists /\ Write([cr EXCEPT !.rotate = FALSE])
          /\ \/ /\ NoFault
                /\ pr' = [pr EXCEPT !.pc = "revoke", !.object = Refreshed, !.fresh = TRUE]
             \/ Fault /\ Proceed("idle")
       \/ /\ (~cr.exists /\ NoFault) \/ Fault
          /\ Proceed("idle") /\ UNCHANGED <<cr, pcache>>
    /\ UNCHANGED <<secretVars, instance, sonarVars, requested>>

\* Faulty variant: only a token whose Secret was found is revoked.
RevokeTokenIfFound ==
    /\ At("revoke")
    /\ Proceed(IF pr.found THEN "delete-secret" ELSE "generate")
    /\ NoFault
    /\ IF pr.found
       THEN token' = FALSE /\ secret' = IF secret = "live" THEN "dead" ELSE secret
       ELSE UNCHANGED <<token, secret>>
    /\ UNCHANGED <<cr, pcache, garbage, secretSeen, instance, project, branch, granted, requested>>

\* RevokeToken by name; its error is ignored.
RevokeToken ==
    /\ At("revoke")
    /\ Proceed(IF pr.found THEN "delete-secret" ELSE "generate")
    /\ \/ /\ instance = "Ready" /\ (NoFault \/ Fault)
          /\ token' = FALSE
          /\ IF secret = "live"
             THEN secret' = "dead" /\ requested' = IF requested > 0 THEN requested - 1 ELSE 0
             ELSE UNCHANGED <<secret, requested>>
       \/ CallFails(TRUE) /\ UNCHANGED <<token, requested, secret>>
    /\ UNCHANGED <<cr, pcache, garbage, secretSeen, instance, project, branch, granted>>

\* Delete of the Secret that was found; one that is gone meanwhile is no error.
DeleteOldSecret ==
    /\ At("delete-secret")
    /\ \/ /\ secret' = "absent" /\ garbage' = FALSE
          /\ (NoFault /\ Proceed("generate")) \/ (Fault /\ Proceed("idle"))
       \/ Fault /\ Proceed("idle") /\ UNCHANGED <<secret, garbage>>
    /\ UNCHANGED <<cr, pcache, secretSeen, instance, sonarVars, requested>>

\* Faulty variant: the error is not looked at.
GenerateTokenUnchecked ==
    /\ At("generate") /\ Proceed("store")
    /\ \/ instance = "Ready" /\ NoFault /\ token' = TRUE
       \/ CallFails(~token) /\ UNCHANGED token
    /\ UNCHANGED <<cr, pcache, secretVars, instance, project, branch, granted, requested>>

\* GenerateToken is refused while the name is taken.
GenerateToken ==
    /\ At("generate")
    /\ \/ /\ instance = "Ready" /\ ~token /\ token' = TRUE
          /\ (NoFault /\ Proceed("store")) \/ (Fault /\ Proceed("idle"))
       \/ CallFails(~token) /\ Proceed("idle") /\ UNCHANGED token
    /\ UNCHANGED <<cr, pcache, secretVars, instance, project, branch, granted, requested>>

\* Create of the new Secret, refused if there is one.
StoreToken ==
    /\ At("store")
    /\ \/ /\ ~SecretExists /\ secret' = "live" /\ garbage' = ~cr.exists
          /\ (NoFault /\ Proceed("ready")) \/ (Fault /\ Proceed("idle"))
       \/ /\ (SecretExists /\ NoFault) \/ Fault
          /\ Proceed("idle") /\ UNCHANGED <<secret, garbage>>
    /\ UNCHANGED <<cr, pcache, secretSeen, instance, sonarVars, requested>>

\* The status update that ends a reconcile: phase Ready, the record and the
\* condition.
PublishReady ==
    /\ At("ready")
    /\ OwnWrite([cr EXCEPT !.phase = "Ready", !.managed = pr.object.managed,
                           !.synced = pr.object.synced], "idle", "idle")
    /\ UNCHANGED <<secretVars, instance, sonarVars, requested>>

\* Faulty variant: best-effort, as in the other controllers.
DeleteProjectBestEffort ==
    /\ At("delete") /\ Proceed("release")
    /\ \/ /\ instance = "Ready" /\ project /\ (NoFault \/ Fault)
          /\ project' = FALSE /\ granted' = [g \in Grants |-> "no"]
       \/ CallFails(project) /\ UNCHANGED <<project, granted>>
    /\ UNCHANGED <<cr, pcache, secretVars, instance, branch, token, requested>>

\* handleDeletion: an error of SonarQube, which an absent project is too, keeps
\* the finalizer.
DeleteProject ==
    /\ At("delete")
    /\ \/ /\ instance = "Ready" /\ project /\ project' = FALSE
          /\ granted' = [g \in Grants |-> "no"]
          /\ (NoFault /\ Proceed("release")) \/ (Fault /\ Proceed("idle"))
       \/ CallFails(project) /\ Proceed("idle") /\ UNCHANGED <<project, granted>>
    /\ UNCHANGED <<cr, pcache, secretVars, instance, branch, token, requested>>

Step ==
    \/ Lifecycle \/ GetProject \/ CreateProject \/ AssertBranch \/ ApplyGrants
    \/ LookForSecret \/ ClearAnnotation \/ RevokeToken \/ DeleteOldSecret
    \/ GenerateToken \/ StoreToken \/ PublishReady \/ DeleteProject

-----------------------------------------------------------------------------
(* Users, informers, garbage collector, instance, crashes *)

\* The object with any spec users give it.
Specify(object, wish) ==
    [object EXCEPT !.ci = wish.ci, !.branch = wish.branch, !.want = wish.want]

Specs(object) == {Specify(object, wish) : wish \in Wishes}

UserEdits ==
    /\ Spend("edits")
    /\ \/ /\ ~cr.exists /\ UNCHANGED requested
          /\ \E new \in Specs(Absent) : UserWrites([new EXCEPT !.exists = TRUE])
       \/ /\ Editable /\ UNCHANGED requested
          /\ \E new \in Specs(cr) \ {cr} : UserWrites(new)
       \/ /\ Editable /\ cr.ci /\ ~cr.rotate /\ requested' = requested + 1
          /\ UserWrites([cr EXCEPT !.rotate = TRUE])
       \/ UserDeletes /\ UNCHANGED requested
    /\ Orphaned /\ UNCHANGED <<secret, secretSeen, instance, sonarVars>>

UserDeletesSecret ==
    /\ Spend("edits") /\ SecretExists
    /\ secret' = "absent" /\ garbage' = FALSE
    /\ UNCHANGED <<cr, pcache, secretSeen, instance, pr, sonarVars, requested>>

\* Somebody makes a grant in SonarQube itself, or renames the main branch.
ChangeInUI ==
    /\ Spend("edits") /\ project
    /\ \/ /\ \E g \in Grants : ~Held(g) /\ granted' = [granted EXCEPT ![g] = "ui"]
          /\ UNCHANGED branch
       \/ branch' \in Branches \ {branch} /\ UNCHANGED granted
    /\ UNCHANGED <<cr, pcache, secretVars, instance, pr, project, token, requested>>

CollectSecret ==
    /\ garbage
    /\ secret' = "absent" /\ garbage' = FALSE
    /\ UNCHANGED <<cr, pcache, secretSeen, instance, pr, sonarVars, requested, budget>>

SyncProject == SyncResource /\ UNCHANGED <<secretVars, sonarVars, requested>>

SyncSecret ==
    /\ secretSeen # SecretExists
    /\ secretSeen' = SecretExists
    /\ UNCHANGED <<cr, pcache, secret, garbage, instance, pr, sonarVars, requested, budget>>

Turn == InstanceTurns /\ UNCHANGED <<secretVars, sonarVars, requested>>

ManagerRestart ==
    /\ Restart /\ secretSeen' = SecretExists
    /\ UNCHANGED <<secret, garbage, sonarVars, requested>>

-----------------------------------------------------------------------------
(* The system *)

\* A new resource on a Ready instance; the project may exist already.
Init ==
    /\ \E new \in Specs(Absent) : cr = [new EXCEPT !.exists = TRUE]
    /\ pcache = [object |-> cr, fresh |-> TRUE]
    /\ secret = "absent" /\ garbage = FALSE /\ secretSeen = FALSE
    /\ instance = "Ready"
    /\ pr = NoReconcile
    /\ project \in BOOLEAN /\ branch \in Branches
    /\ granted = [g \in Grants |-> "no"] /\ token = FALSE
    /\ requested = 0
    /\ budget = [faults |-> MaxFaults, lags |-> MaxLags, edits |-> MaxEdits, turns |-> MaxTurns]

Next ==
    \/ Start \/ Step
    \/ UserEdits \/ UserDeletesSecret \/ ChangeInUI
    \/ CollectSecret \/ SyncProject \/ SyncSecret \/ Turn \/ ManagerRestart

\* The work queue, the informers and the garbage collector go on; the rest of
\* the surroundings does what it likes.
Fairness ==
    /\ WF_vars(Start) /\ WF_vars(Step)
    /\ WF_vars(SyncProject) /\ WF_vars(SyncSecret) /\ WF_vars(CollectSecret)

Spec == Init /\ [][Next]_vars
FairSpec == Spec /\ Fairness

-----------------------------------------------------------------------------
(* Properties *)

\* The operator creates no project that nobody would delete: when it appears in
\* SonarQube the stored resource carries the finalizer.
CreatedUnderFinalizer ==
    [][~project /\ project' => cr.exists /\ cr.finalizer]_vars

\* What ChildLifecycle sees of the state.
Resource ==
    CASE ~cr.exists -> "absent"
      [] cr.exists /\ cr.deleting -> "doomed"
      [] cr.exists /\ ~cr.deleting -> IF cr.finalizer THEN "guarded" ELSE "unguarded"

Excused == budget.turns < MaxTurns

Promise == INSTANCE ChildLifecycle
             WITH resource <- Resource, made <- project, excused <- Excused

\* The controller keeps what ChildLifecycle promises, whatever is stale, lost or
\* done twice: no project outside a finalizer, none deleted under a living
\* resource, none left behind unless the instance was away.
KeepsPromise == Promise!Spec

\* No token churn: unless a decision was taken on a stale copy, a token somebody
\* may be using dies only if its rotation was asked for, once for each that dies,
\* whichever call of the rotation failed.
OneTokenPerRequest ==
    [][secret = "live" /\ secret' = "dead"
         => requested > 0 \/ budget.lags < MaxLags]_vars

Maintained == cr.exists /\ ~cr.deleting /\ instance = "Ready"
Wanted == Maintained /\ cr.ci

\* The CI token Secret is created and comes back, after a lost call, a crash in
\* the middle of the rotation, a deletion by hand or by the garbage collector.
TokenStored == <>[](Wanted => SecretExists)

\* A deleted resource takes its project along, or goes away if the instance is
\* not there to do so.
DeletionReachesSonarQube == cr.deleting ~> (~cr.exists \/ ~project)

\* What spec lists is granted in the end, and what the operator granted and
\* recorded is taken back once spec drops it, although single calls fail.
GrantsFollowSpec ==
    <>[](Maintained => /\ \A g \in cr.want : Held(g)
                       /\ \A g \in cr.managed \ cr.want : granted[g] # "operator")

\* The main branch gets the name spec gives it, whatever renames failed or were
\* undone by hand, and the status ends up saying so.
BranchSettles ==
    <>[](Maintained /\ cr.branch # "unset"
            => branch = cr.branch /\ cr.synced = "yes")

\* A grant the operator made leaves the record only when it is gone, although the
\* rotation of the token replaces the record in memory by the stored one halfway.
NothingForgotten ==
    [][cr'.exists => \A g \in cr.managed \ cr'.managed : granted[g] # "operator"]_vars

\* The CI token Secret is present and up to date.
TokenUpToDate == <>[](Wanted => secret # "dead")

\* A resource being deleted always makes progress and leaves Kubernetes.
DeletionCompletes == cr.deleting ~> ~cr.exists

=============================================================================
