---------------------------- MODULE SonarQubeUser ----------------------------
(***************************************************************************)
(* The SonarQubeUser controller: the account with its name and SCM         *)
(* accounts, its groups, its global permissions and a token with its       *)
(* Secret, the last three with the record in the status of what the        *)
(* operator made.                                                          *)
(*                                                                         *)
(* One resource.  The head of Reconcile, the writes and the surroundings   *)
(* come from ChildController; here is what reconcileUser and               *)
(* handleDeletion do, one step per call that matters.                      *)
(***************************************************************************)
EXTENDS Naturals

CONSTANTS
    Groups,         \* groups of SonarQube
    Permissions,    \* global permissions
    Profiles,       \* name and e-mail, and the SCM accounts that go with them
    Wishes,         \* what users ask for in the spec
    Starts,         \* bound: the account there is at first, SonarQube's version and
                    \* how much users do from there on
    MaxFaults,      \* bound: calls and answers lost, crashes of the manager
    MaxLags,        \* bound: decisions taken on a stale informer copy
    MaxEdits,       \* bound: what users do, in Kubernetes and in SonarQube
    MaxTurns        \* bound: changes of the instance

\* What a status records: groups, permissions, the token.
Grant == [groups : SUBSET Groups, perms : SUBSET Permissions, token : BOOLEAN]

\* spec.email may be left out: the empty string.
NoEmail == "none"
Profile == [name : STRING, email : STRING \cup {NoEmail}]
Nobody == [name |-> "none", email |-> NoEmail]

\* What a spec asks for: these, and the account's profile.
Wish == [profile : Profiles, grant : Grant]

ASSUME UserAssumption ==
    /\ Profiles \subseteq Profile /\ Nobody \notin Profiles
    /\ Wishes \subseteq Wish
    /\ Starts \subseteq [active : BOOLEAN, identity : Profiles, scm : Profiles,
                        strict : BOOLEAN, edits : 0 .. MaxEdits]
    /\ {MaxFaults, MaxLags, MaxEdits, MaxTurns} \subseteq Nat

VARIABLES
    cr,             \* the stored SonarQubeUser
    pcache,         \* the informer's copy of it
    secret,         \* the token's Secret: absent, or its token live or dead
    garbage,        \* the Secret's owner is gone
    secretSeen,     \* the Secret informer shows it
    instance,       \* the SonarQubeInstance, admin token included
    pr,             \* the reconcile in flight
    active,         \* SonarQube: the account is active
    identity,       \* SonarQube: name and e-mail of the account
    scm,            \* SonarQube: its SCM accounts
    member,         \* SonarQube: who put the account in the group
    may,            \* SonarQube: who granted the permission, or took it back
    token,          \* SonarQube: a token with the token's name exists
    strict,         \* SonarQube: this version refuses to grant what is granted
    budget          \* what is left of the bounds

secretVars == <<secret, garbage, secretSeen>>
sonarVars == <<active, identity, scm, member, may, token, strict>>
vars == <<cr, pcache, secretVars, instance, pr, sonarVars, budget>>

-----------------------------------------------------------------------------
(* Types *)

Nothing == [groups |-> {}, perms |-> {}, token |-> FALSE]

UserObject == [exists : BOOLEAN, deleting : BOOLEAN, finalizer : BOOLEAN,
               profile : Profiles \cup {Nobody},    \* spec.name, email, scmAccounts
               spec : Grant,     \* spec.groups, globalPermissions, tokens
               record : Grant,   \* status.groups, managedGlobalPermissions, managedTokens
               phase : {"None", "Pending", "Failed", "Ready"}]

Absent == [exists |-> FALSE, deleting |-> FALSE, finalizer |-> FALSE,
           profile |-> Nobody, spec |-> Nothing, record |-> Nothing, phase |-> "None"]

Steps == {"idle", "pending", "finalizer", "get", "create", "failed", "update",
          "groups", "scm", "tokens", "revoke", "generate", "store", "perms", "ready", "delete", "release"}

\* "created" tells the path of createUser from that of an existing account.
NoReconcile == [pc |-> "idle", object |-> Absent, fresh |-> FALSE, created |-> FALSE]

UserTypeOK ==
    /\ cr \in UserObject
    /\ pcache \in [object : UserObject, fresh : BOOLEAN]
    /\ secret \in {"absent", "live", "dead"}
    /\ garbage \in BOOLEAN /\ secretSeen \in BOOLEAN
    /\ instance \in {"Ready", "NotReady", "Gone"}
    /\ pr \in [pc : Steps, object : UserObject, fresh : BOOLEAN, created : BOOLEAN]
    /\ active \in BOOLEAN /\ token \in BOOLEAN /\ strict \in BOOLEAN
    /\ identity \in Profile /\ scm \in Profiles
    /\ member \in [Groups -> {"no", "operator", "ui"}]
    /\ may \in [Permissions -> {"no", "operator", "ui", "taken"}]
    /\ budget \in [faults : Nat, lags : Nat, edits : Nat, turns : Nat]
    /\ pr.pc \in {"generate", "store"} => pr.object.spec.token
    /\ pr.pc = "revoke" => ~pr.object.spec.token
    /\ token => active              \* an inactive account has no tokens
    /\ secret = "live" => token     \* a token in use is known to SonarQube

-----------------------------------------------------------------------------
(* The reconcile, step by step *)

INSTANCE ChildController

SecretExists == secret # "absent"

\* The Secret of a resource that goes away is left to the garbage collector.
Orphaned == garbage' = IF cr.exists /\ ~cr'.exists THEN SecretExists ELSE garbage

Start == PickUp /\ UNCHANGED <<secretVars, sonarVars>>

\* Finalizer, phases Pending and Failed, release.
Lifecycle == Conclude /\ Orphaned /\ UNCHANGED <<secret, secretSeen, sonarVars>>

\* Where an active account's reconcile goes; the faulty variant lets the name of
\* an account be once the resource is Ready.
AfterGetOnce ==
    IF identity = pr.object.profile \/ pr.object.phase = "Ready" THEN "groups" ELSE "update"

\* Faulty variant: a resource that is Ready is left alone otherwise.
AfterGetSettled ==
    IF identity # pr.object.profile THEN "update"
    ELSE IF pr.object.phase = "Ready" THEN "idle" ELSE "groups"

AfterGet == IF identity = pr.object.profile THEN "groups" ELSE "update"

\* GetUser does not show inactive accounts.
GetUser ==
    /\ At("get")
    /\ \/ instance = "Ready" /\ NoFault /\ Proceed(IF active THEN AfterGet ELSE "create")
       \/ CallFails(TRUE) /\ Proceed("idle")
    /\ UNCHANGED <<cr, pcache, secretVars, instance, sonarVars>>

\* An empty e-mail is left out of a request: the account keeps the one it has.
Sent(profile, kept) == [profile EXCEPT !.email = IF @ = NoEmail THEN kept ELSE @]

\* An error of UpdateUser ends the reconcile.
UpdateUser ==
    /\ At("update")
    /\ \/ /\ instance = "Ready" /\ active
          /\ identity' = Sent(pr.object.profile, identity.email)
          /\ (NoFault /\ Proceed("groups")) \/ (Fault /\ Proceed("idle"))
       \/ CallFails(active) /\ Proceed("idle") /\ UNCHANGED identity
    /\ UNCHANGED <<cr, pcache, secretVars, instance, active, scm, member, may, token, strict>>

\* CreateUser reactivates an account that was deactivated, which keeps or loses
\* the e-mail that the request leaves out.  A password Secret
\* that cannot be read has the outcome of a call that fails.
CreateUser ==
    /\ At("create")
    /\ \/ /\ instance = "Ready" /\ ~active /\ active' = TRUE
          /\ \E kept \in {identity.email, NoEmail} : identity' = Sent(pr.object.profile, kept)
          /\ \/ NoFault /\ pr' = [pr EXCEPT !.pc = "groups", !.created = TRUE]
             \/ Fault /\ Proceed("failed")
       \/ CallFails(~active) /\ Proceed("failed") /\ UNCHANGED <<active, identity>>
    /\ UNCHANGED <<cr, pcache, secretVars, instance, scm, member, may, token, strict>>

Joins == {g \in pr.object.spec.groups : member[g] = "no"}
Leaves == {g \in pr.object.record.groups \ pr.object.spec.groups : member[g] # "no"}

Moved(done) ==
    member' = [g \in Groups |-> IF g \notin done THEN member[g]
                                ELSE IF g \in Joins THEN "operator" ELSE "no"]

\* Faulty variant: groups are left before others are joined, and recorded at once.
ReconcileGroupsUnchecked ==
    /\ At("groups")
    /\ \/ /\ instance = "Ready" /\ NoFault /\ Moved(Joins \cup Leaves)
       \/ /\ CallFails(active)
          /\ \E done \in SUBSET (Joins \cup Leaves) : Moved(done)
    /\ pr' = [pr EXCEPT !.pc = "scm", !.object.record.groups = pr.object.spec.groups]
    /\ UNCHANGED <<cr, pcache, secretVars, instance, active, identity, scm, may, token, strict>>

\* reconcileGroups joins first, then leaves.  An error ends the reconcile and
\* nothing of it is recorded.
ReconcileGroups ==
    /\ At("groups")
    /\ \/ /\ (instance = "Ready" /\ active) \/ pr.object.spec.groups \cup pr.object.record.groups = {}
          /\ NoFault /\ Moved(Joins \cup Leaves)
          /\ pr' = [pr EXCEPT !.pc = "scm",
                              !.object.record.groups = pr.object.spec.groups]
       \/ /\ pr.object.spec.groups \cup pr.object.record.groups # {}
          /\ CallFails(active)
          /\ \E done \in SUBSET (Joins \cup Leaves) :
               /\ done \cap Leaves # {} => Joins \subseteq done
               /\ instance # "Ready" \/ ~active => done = {}
               /\ Moved(done)
          /\ Proceed("idle")
    /\ UNCHANGED <<cr, pcache, secretVars, instance, active, identity, scm, may, token, strict>>

\* createUser ends here.  Faulty variant: so does a reconcile that finds the
\* groups it recorded.
AfterScmReady ==
    IF pr.created \/ pr.object.spec.groups = pr.object.record.groups THEN "ready" ELSE "tokens"

AfterScm == IF pr.created THEN "ready" ELSE "tokens"

\* UpdateUserScmAccounts; its error is ignored.
UpdateUserScmAccounts ==
    /\ At("scm") /\ Proceed(AfterScm)
    /\ \/ instance = "Ready" /\ active /\ (NoFault \/ Fault) /\ scm' = pr.object.profile
       \/ CallFails(active) /\ UNCHANGED scm
    /\ UNCHANGED <<cr, pcache, secretVars, instance, active, identity, member, may, token, strict>>

\* Faulty variant: goes by the tokens recorded in the status.
LookForRecordedToken ==
    /\ At("tokens") /\ NoFault
    /\ Proceed(IF pr.object.record.token THEN "revoke" ELSE "generate")
    /\ UNCHANGED <<cr, pcache, secretVars, instance, sonarVars>>

\* Faulty variant: a token that is recorded is not looked for.
LookForNewToken ==
    /\ At("tokens") /\ NoFault
    /\ Proceed(IF pr.object.record.token = pr.object.spec.token THEN "perms"
               ELSE IF pr.object.spec.token THEN "generate" ELSE "revoke")
    /\ UNCHANGED <<cr, pcache, secretVars, instance, sonarVars>>

\* What reconcileUserTokens does first.  A Secret that the cache shows ends it.
LookForToken ==
    /\ At("tokens")
    /\ IF pr.object.spec.token /\ secretSeen # SecretExists THEN Spend("lags") ELSE NoFault
    /\ \/ /\ pr.object.record.token /\ ~pr.object.spec.token
          /\ Proceed("revoke")
       \/ /\ pr.object.spec.token /\ ~secretSeen
          /\ Proceed("generate")
       \/ /\ IF pr.object.spec.token THEN secretSeen ELSE ~pr.object.record.token
          /\ pr' = [pr EXCEPT !.pc = "perms", !.object.record.token = pr.object.spec.token]
    /\ UNCHANGED <<cr, pcache, secretVars, instance, sonarVars>>

Killed == secret' = IF secret = "live" THEN "dead" ELSE secret

\* RevokeUserToken of a token dropped from spec; its Secret stays.
RevokeUserToken ==
    /\ At("revoke")
    /\ \/ /\ instance = "Ready" /\ active /\ token' = FALSE /\ Killed
          /\ \/ /\ NoFault
                /\ pr' = [pr EXCEPT !.pc = "perms", !.object.record.token = FALSE]
             \/ Fault /\ Proceed("perms")
       \/ CallFails(active) /\ Proceed("perms") /\ UNCHANGED <<token, secret>>
    /\ UNCHANGED <<cr, pcache, garbage, secretSeen, instance, active, identity, scm, member, may, strict>>

\* GenerateUserToken is refused while the name is taken.
GenerateUserToken ==
    /\ At("generate")
    /\ \/ /\ instance = "Ready" /\ active /\ ~token /\ token' = TRUE
          /\ (NoFault /\ Proceed("store")) \/ (Fault /\ Proceed("perms"))
       \/ CallFails(active /\ ~token) /\ Proceed("perms") /\ UNCHANGED token
    /\ UNCHANGED <<cr, pcache, secretVars, instance, active, identity, scm, member, may, strict>>

\* Create of the Secret, refused if there is one.  Its error, like those before,
\* ends reconcileUserTokens only.
StoreUserToken ==
    /\ At("store")
    /\ \/ /\ ~SecretExists /\ secret' = (IF token THEN "live" ELSE "dead")
          /\ garbage' = ~cr.exists
          /\ \/ /\ NoFault
                /\ pr' = [pr EXCEPT !.pc = "perms", !.object.record.token = TRUE]
             \/ Fault /\ Proceed("perms")
       \/ /\ (SecretExists /\ NoFault) \/ Fault
          /\ Proceed("perms") /\ UNCHANGED <<secret, garbage>>
    /\ UNCHANGED <<cr, pcache, secretSeen, instance, sonarVars>>

Removals == pr.object.record.perms \ pr.object.spec.perms
Additions == pr.object.spec.perms \ pr.object.record.perms

\* Taking what is not granted is accepted; so is granting what is, but not by
\* every version of SonarQube.
Granted(p) == may[p] \in {"operator", "ui"}
Refused == {p \in Additions : strict /\ Granted(p)}

Changed(done) ==
    may' = [p \in Permissions |->
              IF p \notin done THEN may[p]
              ELSE IF p \in Removals THEN "no"
              ELSE IF may[p] = "ui" THEN "ui" ELSE "operator"]

\* reconcileUserGlobalPermissions removes first, then adds, and asks SonarQube
\* for neither.  It stops at the first error: nothing of it is recorded, and the
\* reconcile goes on.
ReconcilePermissions ==
    /\ At("perms")
    /\ \/ /\ (instance = "Ready" /\ active) \/ Removals \cup Additions = {}
          /\ Refused = {}
          /\ NoFault /\ Changed(Removals \cup Additions)
          /\ pr' = [pr EXCEPT !.pc = "ready", !.object.record.perms = pr.object.spec.perms]
       \/ /\ instance = "Ready" /\ active /\ Refused # {} /\ NoFault
          /\ \E done \in SUBSET (Additions \ Refused) : Changed(Removals \cup done)
          /\ Proceed("ready")
       \/ /\ Removals \cup Additions # {} /\ CallFails(active)
          /\ \E done \in SUBSET ((Removals \cup Additions) \ Refused) :
               /\ done \cap Additions # {} => Removals \subseteq done
               /\ instance # "Ready" \/ ~active => done = {}
               /\ Changed(done)
          /\ Proceed("ready")
    /\ UNCHANGED <<cr, pcache, secretVars, instance, active, identity, scm, member, token, strict>>

\* The status update that ends a reconcile.
PublishReady ==
    /\ At("ready")
    /\ OwnWrite([cr EXCEPT !.phase = "Ready", !.record = pr.object.record], "idle", "idle")
    /\ UNCHANGED <<secretVars, instance, sonarVars>>

\* SonarQube removes groups, permissions and tokens of the account.
Deactivated(grantAfter) ==
    /\ active' = FALSE /\ token' = FALSE /\ Killed /\ UNCHANGED <<identity, scm, strict>>
    /\ member' = [g \in Groups |-> "no"]
    /\ may' = [p \in Permissions |-> IF may[p] = "no" THEN "no" ELSE grantAfter]

\* Faulty variant: only what the status shows to be ready is cleaned up.
DeactivateReadyUser ==
    /\ At("delete") /\ Proceed("release")
    /\ \/ /\ instance = "Ready" /\ active /\ NoFault /\ pr.object.phase = "Ready"
          /\ Deactivated("no")
       \/ /\ CallFails(active /\ pr.object.phase = "Ready")
          /\ UNCHANGED <<sonarVars, secret>>
    /\ UNCHANGED <<cr, pcache, garbage, secretSeen, instance>>

\* handleDeletion goes on to the release of the finalizer after any error.
DeactivateUser ==
    /\ At("delete") /\ Proceed("release")
    /\ \/ instance = "Ready" /\ active /\ NoFault /\ Deactivated("no")
       \/ CallFails(active) /\ UNCHANGED <<sonarVars, secret>>
    /\ UNCHANGED <<cr, pcache, garbage, secretSeen, instance>>

Step ==
    \/ Lifecycle \/ GetUser \/ UpdateUser \/ CreateUser \/ ReconcileGroups
    \/ UpdateUserScmAccounts
    \/ LookForToken \/ RevokeUserToken \/ GenerateUserToken \/ StoreUserToken
    \/ ReconcilePermissions \/ PublishReady \/ DeactivateUser

-----------------------------------------------------------------------------
(* Users, SonarQube's administrators, informers, garbage collector, crashes *)

\* The object with any spec.
Specs(object) ==
    {[object EXCEPT !.profile = wish.profile, !.spec = wish.grant] : wish \in Wishes}

UserEdits ==
    /\ Spend("edits")
    /\ \/ ~cr.exists /\ \E new \in Specs(Absent) : UserWrites([new EXCEPT !.exists = TRUE])
       \/ Editable /\ \E new \in Specs(cr) \ {cr} : UserWrites(new)
       \/ UserDeletes
    /\ Orphaned /\ UNCHANGED <<secret, secretSeen, instance, sonarVars>>

UserDeletesSecret ==
    /\ Spend("edits") /\ SecretExists
    /\ secret' = "absent" /\ garbage' = FALSE
    /\ UNCHANGED <<cr, pcache, secretSeen, instance, pr, sonarVars>>

\* Grants made and taken in SonarQube's UI, the account renamed or deactivated
\* there.
ChangeInUI ==
    /\ Spend("edits") /\ active
    /\ \/ /\ \E g \in Groups : member' =
               [member EXCEPT ![g] = IF member[g] = "no" THEN "ui" ELSE "no"]
          /\ UNCHANGED <<active, identity, scm, may, token, strict, secret>>
       \/ /\ \E p \in Permissions : may' =
               [may EXCEPT ![p] = IF may[p] \in {"no", "taken"} THEN "ui" ELSE "taken"]
          /\ UNCHANGED <<active, identity, scm, member, token, strict, secret>>
       \/ /\ \E profile \in Profiles :
               \/ profile # identity /\ identity' = profile /\ UNCHANGED scm
               \/ profile # scm /\ scm' = profile /\ UNCHANGED identity
          /\ UNCHANGED <<active, member, may, token, strict, secret>>
       \/ Deactivated("taken")
    /\ UNCHANGED <<cr, pcache, garbage, secretSeen, instance, pr>>

CollectSecret ==
    /\ garbage
    /\ secret' = "absent" /\ garbage' = FALSE
    /\ UNCHANGED <<cr, pcache, secretSeen, instance, pr, sonarVars, budget>>

SyncUser == SyncResource /\ UNCHANGED <<secretVars, sonarVars>>

SyncSecret ==
    /\ secretSeen # SecretExists
    /\ secretSeen' = SecretExists
    /\ UNCHANGED <<cr, pcache, secret, garbage, instance, pr, sonarVars, budget>>

Turn == InstanceTurns /\ UNCHANGED <<secretVars, sonarVars>>

ManagerRestart ==
    /\ Restart /\ secretSeen' = SecretExists
    /\ UNCHANGED <<secret, garbage, sonarVars>>

-----------------------------------------------------------------------------
(* The system *)

\* A new resource on a Ready instance; the account may exist already.
Init ==
    /\ \E new \in Specs(Absent) : cr = [new EXCEPT !.exists = TRUE]
    /\ pcache = [object |-> cr, fresh |-> TRUE]
    /\ secret = "absent" /\ garbage = FALSE /\ secretSeen = FALSE
    /\ instance = "Ready"
    /\ pr = NoReconcile
    /\ \E start \in Starts :
         /\ active = start.active /\ strict = start.strict
         /\ identity = start.identity /\ scm = start.scm
         /\ budget = [faults |-> MaxFaults, lags |-> MaxLags, edits |-> start.edits,
                      turns |-> MaxTurns]
    /\ token = FALSE
    /\ member = [g \in Groups |-> "no"] /\ may = [p \in Permissions |-> "no"]

Next ==
    \/ Start \/ Step
    \/ UserEdits \/ UserDeletesSecret \/ ChangeInUI
    \/ CollectSecret \/ SyncUser \/ SyncSecret \/ Turn \/ ManagerRestart

\* As in SonarQubeProject.
Fairness ==
    /\ WF_vars(Start) /\ WF_vars(Step)
    /\ WF_vars(SyncUser) /\ WF_vars(SyncSecret) /\ WF_vars(CollectSecret)

Spec == Init /\ [][Next]_vars
FairSpec == Spec /\ Fairness

-----------------------------------------------------------------------------
(* Properties *)

Maintained == Editable /\ instance = "Ready"

\* The operator activates no account that nobody would deactivate: when it
\* becomes active the stored resource carries the finalizer.
CreatedUnderFinalizer ==
    [][~active /\ active' => cr.exists /\ cr.finalizer]_vars

\* What the status does not record although spec lists it.
Pending == cr.spec.perms \ cr.record.perms

\* Groups are joined again whoever left them.  A permission that the status does
\* not record is granted, by the reconcile that creates the account or the next -
\* unless SonarQube refuses one of them as granted already: the ones after it in
\* the list are then never granted and none is ever recorded.
GrantsApplied ==
    <>[](Maintained =>
           /\ \A g \in cr.spec.groups : member[g] # "no"
           /\ (\A p \in Pending : Granted(p)) \/ (strict /\ \E p \in Pending : Granted(p)))

\* Name, e-mail and SCM accounts end up as in spec, whether the account was found,
\* created or reactivated, whatever failed and whoever changed them - but an
\* e-mail that spec leaves out stays what it is.
ProfileSettles ==
    <>[](Maintained => /\ identity = Sent(cr.profile, identity.email)
                       /\ scm = cr.profile)

\* What the operator granted is still there.
Held(surplus) ==
    \/ \E g \in surplus.groups : member[g] = "operator"
    \/ \E p \in surplus.perms : may[p] = "operator"
    \/ surplus.token /\ token

\* What is on the first list and not on the second.
Without(a, b) == [groups |-> a.groups \ b.groups, perms |-> a.perms \ b.perms,
                  token |-> a.token /\ ~b.token]

\* What the operator granted and recorded is taken back once spec drops it,
\* although the calls that do so may fail one by one.
RecordedRevoked == <>[](Maintained => ~Held(Without(cr.record, cr.spec)))

\* It leaves the record only when it is gone, whichever of the calls failed and
\* however old the copy was that the reconcile began with.
NothingForgotten ==
    [][cr'.exists => ~Held(Without(cr.record, cr'.record))]_vars

\* A resource being deleted always makes progress and leaves Kubernetes.
DeletionCompletes == cr.deleting ~> ~cr.exists

\* An account stays active after its resource only if a call failed or the
\* instance was not there; a stale copy does not leave it behind.
DeletionDeactivates ==
    [][cr.finalizer /\ ~cr'.exists
         => ~active \/ budget.faults < MaxFaults \/ budget.turns < MaxTurns]_vars

Wanted == Maintained /\ cr.spec.token

\* A token ends up in its Secret unless its name is taken in SonarQube by one that
\* nobody holds.
TokenStoredUnlessTaken == <>[](Wanted => SecretExists \/ token)

\* Groups added by other means are never removed: as long as the account is active,
\* only SonarQube's administrators take it out of a group they put it in.
ForeignGroupsKept ==
    [][\A g \in Groups : member[g] = "ui" /\ member'[g] = "no"
         => ~active' \/ budget'.edits < budget.edits]_vars

=============================================================================
