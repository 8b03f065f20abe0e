------------------------- MODULE SonarQubeInstance -------------------------
(***************************************************************************)
(* The SonarQubeInstance controller: the workload it deploys, the health   *)
(* check, the one-time bootstrap of the admin account (password, Bearer    *)
(* token, token Secret), the batched restart asked for by the plugin       *)
(* controller, and the status it publishes to the child controllers.       *)
(*                                                                         *)
(* One reconcile is a sequence of steps, one per call that leaves the      *)
(* process (Kubernetes API or SonarQube API).  Between two steps anything  *)
(* else may move: the SonarQube pod, the user, the informer caches, the    *)
(* plugin controller, or a crash of the manager.  The reconciler works on  *)
(* the copy of the instance it read from its cache; the resourceVersion    *)
(* that guards its status update is the boolean "fresh": no write to the   *)
(* stored object since the version the copy was read at.                   *)
(***************************************************************************)
EXTENDS Naturals

CONSTANTS
    Passwords,      \* values the user may put in the admin Secret
    MaxFaults,      \* bound: lost or failed calls, crashes of pod and manager
    MaxLags,        \* bound: reconciles that start from a stale informer copy
    MaxEdits,       \* bound: edits of the admin Secret, deletion of the CR
    MaxSignals      \* bound: restart requests of the plugin controller

DefaultPassword == "admin"     \* defaultAdminPassword
NoSecret == "absent"           \* no admin Secret, or one without its key

ASSUME PasswordsAssumption == {DefaultPassword, NoSecret} \cap Passwords = {}
ASSUME BoundsAssumption == {MaxFaults, MaxLags, MaxEdits, MaxSignals} \subseteq Nat

VARIABLES
    inst,           \* the stored SonarQubeInstance
    cache,          \* the informer's copy of it, "fresh" if up to date
    deployed,       \* how many of StatefulSet, headless Service, Service exist
    adminSecret,    \* password in the Secret the user names in adminSecretRef
    tokenSecret,    \* the <instance>-admin-token Secret exists
    tokenCached,    \* the Secret informer shows it
    ir,             \* the reconcile in flight
    server,         \* SonarQube: process state
    password,       \* SonarQube: password of the admin account
    tokenIssued,    \* SonarQube: a token with the operator's token name exists
    budget          \* what is left of the bounds

k8sVars == <<inst, cache, deployed, adminSecret, tokenSecret, tokenCached>>
sonarVars == <<server, password, tokenIssued>>
vars == <<k8sVars, ir, sonarVars, budget>>

-----------------------------------------------------------------------------
(* Types *)

\* Why the Ready condition has its value; only "Ready" goes with phase Ready,
\* "None" is a status nobody has written yet.
Reasons == {"None", "Unreachable", "Starting", "AdminInitFailed", "Restarting", "Ready"}

Steps == {"idle", "health", "validate", "change", "generate", "store",
          "restart", "status"}

InstanceStatus == [reason : Reasons, restart : BOOLEAN, tokenRef : BOOLEAN]

EmptyStatus == [reason |-> "None", restart |-> FALSE, tokenRef |-> FALSE]

ServerStates == {"DOWN", "STARTING", "UP", "RESTARTING"}

TypeOK ==
    /\ inst \in [exists : BOOLEAN, status : InstanceStatus]
    /\ cache \in [exists : BOOLEAN, status : InstanceStatus, fresh : BOOLEAN]
    /\ deployed \in 0..3
    /\ adminSecret \in Passwords \cup {NoSecret}
    /\ tokenSecret \in BOOLEAN
    /\ tokenCached \in BOOLEAN
    /\ ir \in [pc : Steps, status : InstanceStatus, fresh : BOOLEAN,
               target : Passwords \cup {NoSecret}]
    /\ server \in ServerStates
    /\ password \in Passwords \cup {DefaultPassword}
    /\ tokenIssued \in BOOLEAN
    /\ budget \in [faults : Nat, lags : Nat, edits : Nat, signals : Nat]

-----------------------------------------------------------------------------
(* Calls and their outcomes *)

IsReady(status) == status.reason = "Ready"

Spend(bound) == budget[bound] > 0 /\ budget' = [budget EXCEPT ![bound] = @ - 1]
Fault == Spend("faults")
NoFault == UNCHANGED budget

\* SonarQube answers on the Service's address.  A server that has accepted a
\* restart still answers until its process goes down.
Reachable == deployed = 3 /\ server \in {"UP", "RESTARTING"}

\* The caller gets an error and the call had no effect: SonarQube does not
\* answer, or refuses, or the request was lost.
CallFails(accepted) ==
    \/ ~(Reachable /\ accepted) /\ NoFault
    \/ Fault

\* The getInstanceAdminToken helper: a reference in the status the caller
\* holds, and the Secret in the cache.
HasAdminToken(status) == status.tokenRef /\ tokenCached

\* Every write that changes the stored object makes the caches and the copies
\* in flight stale; a write that changes nothing gets no new resourceVersion.
WriteInstance(new) ==
    /\ inst' = new
    /\ cache' = [cache EXCEPT !.fresh = @ /\ new = inst]

-----------------------------------------------------------------------------
(* The reconcile, step by step *)

At(step) == ir.pc = step
Goto(step, status) == ir' = [ir EXCEPT !.pc = step, !.status = status]
Idle == [pc |-> "idle", status |-> EmptyStatus, fresh |-> FALSE, target |-> NoSecret]

\* reconcileHealth gives up for this round: condition and phase are set in
\* memory, the status update follows.
Progressing(reason) == Goto("status", [ir.status EXCEPT !.reason = reason])

\* What follows a successful initializeAdmin.
AdminInitialized ==
    LET status == [ir.status EXCEPT !.tokenRef = TRUE]
    IN  IF status.restart
        THEN Goto("restart", status)
        ELSE Goto("status", [status EXCEPT !.reason = "Ready"])

\* The first n of StatefulSet, headless Service and Service exist afterwards; what
\* is created for an owner that is gone is garbage collected.
Deploy(n) == deployed' = IF inst.exists THEN n ELSE 0

\* Get of the instance, then StatefulSet, headless Service, Service, Ingress in
\* this order; the first error ends the reconcile with no status update.  One
\* step: nothing but the boot of the pod depends on these objects.
ReconcileStart ==
    /\ At("idle") /\ cache.exists
    /\ \/ /\ (cache.fresh /\ NoFault) \/ (~cache.fresh /\ Spend("lags"))
          /\ ir' = [pc |-> "health", status |-> cache.status, fresh |-> cache.fresh,
                    target |-> NoSecret]
          /\ Deploy(3)
       \/ /\ Fault /\ UNCHANGED ir
          /\ \E n \in deployed..3 : Deploy(n)
    /\ UNCHANGED <<inst, cache, adminSecret, tokenSecret, tokenCached, sonarVars>>

\* Faulty variants of the next operator: the admin Secret is not checked, or a
\* missing one is taken for "nothing to initialise".
InitializeAdminUnchecked ==
    \/ tokenCached /\ AdminInitialized
    \/ ~tokenCached /\ ir' = [ir EXCEPT !.pc = "validate", !.target = adminSecret]

InitializeAdminOptional ==
    \/ (tokenCached \/ adminSecret = NoSecret) /\ AdminInitialized
    \/ /\ ~tokenCached /\ adminSecret # NoSecret
       /\ ir' = [ir EXCEPT !.pc = "validate", !.target = adminSecret]

\* initializeAdmin up to its first call: the token Secret, else the admin
\* Secret, both from the cache.
InitializeAdmin ==
    \/ tokenCached /\ AdminInitialized
    \/ /\ ~tokenCached /\ adminSecret = NoSecret
       /\ Progressing("AdminInitFailed")
    \/ /\ ~tokenCached /\ adminSecret # NoSecret
       /\ ir' = [ir EXCEPT !.pc = "validate", !.target = adminSecret]

\* GetStatus.
CheckHealth ==
    /\ At("health")
    /\ \/ Reachable /\ InitializeAdmin /\ NoFault
       \/ /\ deployed = 3 /\ server \in {"STARTING", "RESTARTING"}
          /\ Progressing("Starting") /\ NoFault
       \/ Progressing("Unreachable") /\ CallFails(TRUE)
    /\ UNCHANGED <<k8sVars, sonarVars>>

\* Faulty variant: the password is changed without asking whether it was already.
ValidateAuthNever ==
    /\ At("validate") /\ Goto("change", ir.status) /\ NoFault
    /\ UNCHANGED <<k8sVars, sonarVars>>

\* ValidateAuth with the new password: any error is taken for "not changed yet".
ValidateAuth ==
    /\ At("validate")
    /\ \/ Reachable /\ password = ir.target /\ Goto("generate", ir.status) /\ NoFault
       \/ Goto("change", ir.status) /\ CallFails(password = ir.target)
    /\ UNCHANGED <<k8sVars, sonarVars>>

\* ChangeAdminPassword, authenticated with the default password.
ChangeAdminPassword ==
    /\ At("change")
    /\ \/ /\ Reachable /\ password = DefaultPassword /\ password' = ir.target
          /\ \/ Goto("generate", ir.status) /\ NoFault
             \/ Progressing("AdminInitFailed") /\ Fault      \* reply lost
       \/ /\ Progressing("AdminInitFailed") /\ CallFails(password = DefaultPassword)
          /\ UNCHANGED password
    /\ UNCHANGED <<k8sVars, server, tokenIssued>>

\* GenerateToken; SonarQube refuses a name the account already has a token for.
GenerateToken ==
    /\ At("generate")
    /\ LET accepted == password = ir.target /\ ~tokenIssued
       IN  \/ /\ Reachable /\ accepted /\ tokenIssued' = TRUE
              /\ \/ Goto("store", ir.status) /\ NoFault
                 \/ Progressing("AdminInitFailed") /\ Fault  \* reply lost
           \/ /\ Progressing("AdminInitFailed") /\ CallFails(accepted)
              /\ UNCHANGED tokenIssued
    /\ UNCHANGED <<k8sVars, server, password>>

\* The error of the next call is returned to reconcileHealth; the faulty variant
\* drops it.
StoreErrorDropped == AdminInitialized
StoreError == Progressing("AdminInitFailed")

\* Create of the token Secret, owned by the instance.
StoreToken ==
    /\ At("store")
    /\ \/ tokenSecret' = inst.exists /\ AdminInitialized /\ NoFault
       \/ tokenSecret' \in {tokenSecret, inst.exists} /\ StoreError /\ Fault
    /\ UNCHANGED <<inst, cache, deployed, adminSecret, tokenCached, sonarVars>>

\* The flag is cleared in memory, only when SonarQube accepted the restart; the
\* faulty variant leaves it.
RestartKept == Progressing("Restarting")
RestartDone == Goto("status", [ir.status EXCEPT !.restart = FALSE, !.reason = "Restarting"])

\* Restart.
RestartServer ==
    /\ At("restart")
    /\ \/ /\ HasAdminToken(ir.status) /\ Reachable /\ server' = "RESTARTING"
          /\ \/ RestartDone /\ NoFault
             \/ Progressing("Restarting") /\ Fault           \* reply lost
       \/ /\ HasAdminToken(ir.status) /\ Progressing("Restarting") /\ CallFails(TRUE)
          /\ UNCHANGED server
       \/ /\ ~HasAdminToken(ir.status) /\ Progressing("Restarting") /\ NoFault
          /\ UNCHANGED server
    /\ UNCHANGED <<k8sVars, password, tokenIssued>>

\* Status().Update: refused when the copy is not of the stored version; the
\* faulty variant is an unversioned patch.
StatusAcceptedUnversioned == inst.exists
StatusAccepted == ir.fresh /\ inst.exists

UpdateStatus ==
    /\ At("status")
    /\ ir' = Idle
    /\ \/ /\ StatusAccepted /\ WriteInstance([inst EXCEPT !.status = ir.status])
          /\ (NoFault \/ Fault)                              \* Fault: reply lost
       \/ /\ \/ ~StatusAccepted /\ NoFault
             \/ Fault
          /\ UNCHANGED <<inst, cache>>
    /\ UNCHANGED <<deployed, adminSecret, tokenSecret, tokenCached, sonarVars>>

Reconcile ==
    \/ ReconcileStart \/ CheckHealth \/ ValidateAuth \/ ChangeAdminPassword
    \/ GenerateToken \/ StoreToken \/ RestartServer \/ UpdateStatus

-----------------------------------------------------------------------------
(* Around the reconcile *)

\* Informers catch up, each on its own.
SyncInstance ==
    /\ ~cache.fresh
    /\ cache' = [exists |-> inst.exists, status |-> inst.status, fresh |-> TRUE]
    /\ UNCHANGED <<inst, deployed, adminSecret, tokenSecret, tokenCached, ir, sonarVars, budget>>

SyncSecret ==
    /\ tokenCached # tokenSecret
    /\ tokenCached' = tokenSecret
    /\ UNCHANGED <<inst, cache, deployed, adminSecret, tokenSecret, ir, sonarVars, budget>>

\* The SonarQube process.
Boot ==
    /\ deployed > 0 /\ server \in {"DOWN", "RESTARTING"}
    /\ server' = "STARTING"
    /\ UNCHANGED <<k8sVars, ir, password, tokenIssued, budget>>

ServerUp ==
    /\ server = "STARTING" /\ deployed > 0
    /\ server' = "UP"
    /\ UNCHANGED <<k8sVars, ir, password, tokenIssued, budget>>

PodCrash ==
    /\ server # "DOWN" /\ server' = "DOWN" /\ Fault
    /\ UNCHANGED <<k8sVars, ir, password, tokenIssued>>

\* The manager restarts: the reconcile is lost, the caches are listed anew.
ManagerRestart ==
    /\ Fault
    /\ ir' = Idle
    /\ cache' = [exists |-> inst.exists, status |-> inst.status, fresh |-> TRUE]
    /\ tokenCached' = tokenSecret
    /\ UNCHANGED <<inst, deployed, adminSecret, tokenSecret, sonarVars>>

\* The user.
EditAdminSecret ==
    /\ Spend("edits")
    /\ adminSecret' \in (Passwords \cup {NoSecret}) \ {adminSecret}
    /\ UNCHANGED <<inst, cache, deployed, tokenSecret, tokenCached, ir, sonarVars>>

\* No finalizer: the object goes at once and owner references take the
\* workload and the token Secret with it.  SonarQube's database stays.
DeleteInstance ==
    /\ inst.exists /\ Spend("edits")
    /\ inst' = [exists |-> FALSE, status |-> EmptyStatus]
    /\ cache' = [cache EXCEPT !.fresh = FALSE]
    /\ ir' = [ir EXCEPT !.fresh = FALSE]
    /\ deployed' = 0 /\ tokenSecret' = FALSE /\ server' = "DOWN"
    /\ UNCHANGED <<adminSecret, tokenCached, password, tokenIssued>>

\* The signalInstanceRestart patch of a plugin reconcile, at any time.
SetRestartRequired ==
    LET new == [inst EXCEPT !.status.restart = TRUE]
    IN  /\ inst.exists
        /\ WriteInstance(new)
        /\ ir' = [ir EXCEPT !.fresh = @ /\ new = inst]

PluginSignal ==
    /\ SetRestartRequired
    /\ Spend("signals")
    /\ UNCHANGED <<deployed, adminSecret, tokenSecret, tokenCached, sonarVars>>

Environment ==
    \/ SyncInstance \/ SyncSecret \/ Boot \/ ServerUp \/ PodCrash
    \/ ManagerRestart \/ EditAdminSecret \/ DeleteInstance

-----------------------------------------------------------------------------
\* A new CR in front of an empty database.
Init ==
    /\ inst = [exists |-> TRUE, status |-> EmptyStatus]
    /\ cache = [exists |-> TRUE, status |-> EmptyStatus, fresh |-> TRUE]
    /\ deployed = 0
    /\ adminSecret \in Passwords \cup {NoSecret}
    /\ tokenSecret = FALSE /\ tokenCached = FALSE
    /\ ir = Idle
    /\ server = "DOWN" /\ password = DefaultPassword /\ tokenIssued = FALSE
    /\ budget = [faults |-> MaxFaults, lags |-> MaxLags,
                 edits |-> MaxEdits, signals |-> MaxSignals]

Next == Reconcile \/ Environment \/ PluginSignal

\* A reconcile that is due runs (requeue, watch event or resync) and finishes,
\* informers catch up and a deployed SonarQube boots.  Faults, the user and
\* the plugin controller owe nothing.
Fairness ==
    /\ WF_vars(Reconcile)
    /\ WF_vars(SyncInstance) /\ WF_vars(SyncSecret)
    /\ WF_vars(Boot) /\ WF_vars(ServerUp)

Spec == Init /\ [][Next]_vars
FairSpec == Spec /\ Fairness

-----------------------------------------------------------------------------
(* Properties *)

\* Phase Ready is what the child controllers wait for before they talk to
\* SonarQube: a Ready instance has a token Secret that holds an issued token,
\* a status that names it, and an admin account whose default password is gone
\* (status update racing the deletion of the CR and of its Secret included).
ReadyMeansBootstrapped ==
    inst.exists /\ IsReady(inst.status) =>
        /\ tokenSecret /\ tokenIssued
        /\ inst.status.tokenRef
        /\ password # DefaultPassword

\* A restart request may land at any point of a reconcile that has read the
\* flag as FALSE; the status update at the end of that reconcile must not
\* erase it.  Only a reconcile that asked SonarQube to restart clears the flag.
OnlyRestartClearsFlag ==
    [][inst.status.restart /\ inst'.exists /\ ~inst'.status.restart
         => At("status") /\ ir.status.reason = "Restarting"]_vars

\* The account is bootstrapped in the promised order, whatever fails on the way.
BootstrapStage ==
    IF tokenSecret THEN "stored" ELSE IF tokenIssued THEN "issued"
    ELSE IF password # DefaultPassword THEN "changed" ELSE "default"

Announced == inst.exists /\ IsReady(inst.status)

Bootstrap == INSTANCE AdminBootstrap WITH stage <- BootstrapStage, ready <- Announced

RefinesBootstrap == Bootstrap!Spec

\* The bootstrap cannot be resumed by the operator alone: the token name is
\* taken but no Secret holds the token, or the password is neither the default
\* nor the one in the admin Secret.
Wedged ==
    /\ ~tokenSecret
    /\ tokenIssued \/ password \notin {DefaultPassword, adminSecret}

\* Whatever crashes, lost replies, pod failures and edits happened, the instance
\* ends up Ready for good, unless it is deleted, has no usable admin Secret, or
\* the bootstrap is wedged: reconcileHealth has no other way to stop progress.
SettlesUnlessWedged ==
    <>[](IsReady(inst.status) \/ ~inst.exists \/ adminSecret = NoSecret \/ Wedged)

\* A restart request on a bootstrapped instance is served: the flag goes down
\* again although the copy may be stale, the update refused, the call lost.
RestartServed ==
    (inst.status.restart /\ tokenSecret) ~> (~inst.status.restart \/ ~inst.exists)

\* What the documentation of the reconcile loop says of crashes and partial
\* failures, for the bootstrap: with an admin Secret that stays, the instance
\* becomes Ready.
BootstrapResumes == adminSecret # NoSecret => <>IsReady(inst.status)

=============================================================================
