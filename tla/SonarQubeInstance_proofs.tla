---------------------- MODULE SonarQubeInstance_proofs ----------------------
(***************************************************************************)
(* Proofs about the instance controller, for every set of passwords and    *)
(* every bound: types, ReadyMeansBootstrapped, OnlyRestartClearsFlag and   *)
(* the refinement of AdminBootstrap.                                       *)
(***************************************************************************)
EXTENDS SonarQubeInstance, TLAPS

-----------------------------------------------------------------------------
(* The inductive invariant *)

\* The order of the bootstrap: default password, token, Secret.  A cached Secret
\* may outlive the stored one only together with the instance.
BootstrapOrder ==
    /\ tokenSecret => tokenIssued /\ inst.exists
    /\ tokenIssued => password # DefaultPassword
    /\ tokenCached /\ inst.exists => tokenSecret

\* What the steps of initializeAdmin have established so far.
BootstrapSteps ==
    /\ ir.pc \in {"validate", "change", "generate", "store"} => ir.target \in Passwords
    /\ ir.pc = "store" => tokenIssued

\* What it means for a copy to be of the stored version.
FreshCopies ==
    /\ cache.fresh => cache.exists = inst.exists /\ cache.status = inst.status
    /\ ir.fresh => inst.exists

\* A reconcile that is about to publish Ready holds the reference to the Secret,
\* and the Secret exists unless the update is going to be refused.
ReadyEarned ==
    ir.pc = "status" /\ IsReady(ir.status) =>
        ir.status.tokenRef /\ (ir.fresh => tokenSecret)

\* A reconcile that works on the stored version has its restart flag, unless it
\* restarted SonarQube.
FlagKept ==
    ir.fresh /\ ir.pc # "idle" =>
        \/ ir.status.restart = inst.status.restart
        \/ ir.pc = "status" /\ ir.status.reason = "Restarting"

IInv ==
    /\ TypeOK /\ BootstrapOrder /\ BootstrapSteps /\ FreshCopies
    /\ ReadyEarned /\ FlagKept /\ ReadyMeansBootstrapped

-----------------------------------------------------------------------------
(* Lemmas *)

\* Spending from a bound keeps the record of the bounds a record of naturals.
LEMMA BudgetType ==
    ASSUME TypeOK,
           NoFault \/ Fault \/ Spend("lags") \/ Spend("edits") \/ Spend("signals")
    PROVE  budget' \in [faults : Nat, lags : Nat, edits : Nat, signals : Nat]
  BY DEF TypeOK, NoFault, Fault, Spend

\* Moving to another step with another status keeps the reconcile well typed.
LEMMA GotoType ==
    ASSUME TypeOK, NEW step \in Steps, NEW status \in InstanceStatus, Goto(step, status)
    PROVE  ir' \in [pc : Steps, status : InstanceStatus, fresh : BOOLEAN,
                    target : Passwords \cup {NoSecret}]
  BY DEF TypeOK, Goto

\* The statuses the steps compute are statuses.
LEMMA StatusTypes ==
    ASSUME NEW status \in InstanceStatus
    PROVE  /\ \A reason \in Reasons : [status EXCEPT !.reason = reason] \in InstanceStatus
           /\ [status EXCEPT !.tokenRef = TRUE] \in InstanceStatus
           /\ [status EXCEPT !.restart = TRUE] \in InstanceStatus
           /\ [status EXCEPT !.restart = FALSE, !.reason = "Restarting"] \in InstanceStatus
           /\ [[status EXCEPT !.tokenRef = TRUE] EXCEPT !.reason = "Ready"] \in InstanceStatus
           /\ EmptyStatus \in InstanceStatus
  BY DEF InstanceStatus, Reasons, EmptyStatus

\* Giving up for this round: the step is "status", the reason is the given one,
\* flag, reference and version are those of the reconcile.
LEMMA ProgressingEffect ==
    ASSUME TypeOK, NEW reason \in Reasons, Progressing(reason)
    PROVE  /\ ir' \in [pc : Steps, status : InstanceStatus, fresh : BOOLEAN,
                       target : Passwords \cup {NoSecret}]
           /\ ir'.pc = "status" /\ ir'.status.reason = reason
           /\ ir'.status.restart = ir.status.restart
           /\ ir'.fresh = ir.fresh
  BY DEF TypeOK, Progressing, Goto, InstanceStatus, Steps, Reasons

\* A successful initializeAdmin: a restart or phase Ready, in both cases with the
\* reference to the token Secret.
LEMMA AdminInitializedEffect ==
    ASSUME TypeOK, AdminInitialized
    PROVE  /\ ir' \in [pc : Steps, status : InstanceStatus, fresh : BOOLEAN,
                       target : Passwords \cup {NoSecret}]
           /\ ir'.pc \in {"restart", "status"} /\ ir'.status.tokenRef
           /\ ir'.status.restart = ir.status.restart
           /\ ir'.fresh = ir.fresh
<1> DEFINE status == [ir.status EXCEPT !.tokenRef = TRUE]
           ready == [status EXCEPT !.reason = "Ready"]
<1>1. /\ status \in InstanceStatus /\ status.tokenRef = TRUE
      /\ status.restart = ir.status.restart
  BY DEF TypeOK, InstanceStatus
<1>2. /\ ready \in InstanceStatus /\ ready.tokenRef = TRUE
      /\ ready.restart = ir.status.restart
  BY <1>1 DEF InstanceStatus, Reasons
<1>3. Goto("restart", status) \/ Goto("status", ready)
  BY DEF AdminInitialized
<1> HIDE DEF status, ready
<1> QED
  BY <1>1, <1>2, <1>3 DEF TypeOK, Goto, Steps

-----------------------------------------------------------------------------
(* One lemma per step of the reconcile: it preserves the invariant *)

USE DEF IsReady, At

LEMMA ReconcileStartInv ==
    ASSUME IInv, ReconcileStart
    PROVE  IInv'
<1> USE DEF IInv
<1>1. TypeOK'
  <2>1. budget' \in [faults : Nat, lags : Nat, edits : Nat, signals : Nat]
    BY BudgetType DEF ReconcileStart
  <2>2. deployed' \in 0..3
    BY DEF ReconcileStart, Deploy, TypeOK
  <2>3. ir' \in [pc : Steps, status : InstanceStatus, fresh : BOOLEAN,
                 target : Passwords \cup {NoSecret}]
    BY DEF ReconcileStart, TypeOK, Steps
  <2> QED
    BY <2>1, <2>2, <2>3 DEF ReconcileStart, TypeOK, sonarVars
<1>2. BootstrapSteps' /\ FreshCopies' /\ ReadyEarned' /\ FlagKept'
  <2>1. UNCHANGED <<inst, cache, tokenSecret, tokenIssued>>
    BY DEF ReconcileStart, sonarVars
  <2>2. CASE UNCHANGED ir
    BY <2>1, <2>2 DEF BootstrapSteps, FreshCopies, ReadyEarned, FlagKept
  <2>3. CASE ir' = [pc |-> "health", status |-> cache.status, fresh |-> cache.fresh,
                    target |-> NoSecret]
    <3>1. ir'.pc = "health" /\ ir'.status = cache.status /\ ir'.fresh = cache.fresh
      BY <2>3
    <3>2. cache.exists
      BY DEF ReconcileStart
    <3> QED
      BY <2>1, <3>1, <3>2 DEF BootstrapSteps, FreshCopies, ReadyEarned, FlagKept
  <2> QED
    BY <2>2, <2>3 DEF ReconcileStart
<1>3. BootstrapOrder' /\ ReadyMeansBootstrapped'
  BY DEF ReconcileStart, BootstrapOrder, ReadyMeansBootstrapped, sonarVars
<1> QED
  BY <1>1, <1>2, <1>3

LEMMA CheckHealthInv ==
    ASSUME IInv, CheckHealth
    PROVE  IInv'
<1> USE DEF IInv
<1>1. UNCHANGED <<k8sVars, sonarVars>> /\ (NoFault \/ Fault)
  BY DEF CheckHealth, CallFails
<1>2. budget' \in [faults : Nat, lags : Nat, edits : Nat, signals : Nat]
  BY <1>1, BudgetType
<1>3. BootstrapOrder' /\ ReadyMeansBootstrapped'
  BY <1>1 DEF BootstrapOrder, ReadyMeansBootstrapped, k8sVars, sonarVars
<1>4. CASE \E reason \in Reasons \ {"Ready"} : Progressing(reason)
  <2>1. PICK reason \in Reasons \ {"Ready"} : Progressing(reason)
    BY <1>4
  <2> QED
    BY <1>1, <1>2, <1>3, <2>1, ProgressingEffect
    DEF CheckHealth, TypeOK, BootstrapSteps, FreshCopies, ReadyEarned, FlagKept,
        k8sVars, sonarVars
<1>5. CASE tokenCached /\ AdminInitialized
  BY <1>1, <1>2, <1>3, <1>5, AdminInitializedEffect
  DEF CheckHealth, TypeOK, BootstrapOrder, BootstrapSteps, FreshCopies, ReadyEarned,
      FlagKept, k8sVars, sonarVars
<1>6. CASE adminSecret # NoSecret /\ ir' = [ir EXCEPT !.pc = "validate", !.target = adminSecret]
  BY <1>1, <1>2, <1>3, <1>6
  DEF CheckHealth, TypeOK, BootstrapSteps, FreshCopies, ReadyEarned, FlagKept,
      k8sVars, sonarVars, Steps
<1> QED
  BY <1>4, <1>5, <1>6 DEF CheckHealth, InitializeAdmin, Reasons

LEMMA ValidateAuthInv ==
    ASSUME IInv, ValidateAuth
    PROVE  IInv'
<1> USE DEF IInv
<1>1. UNCHANGED <<k8sVars, sonarVars>> /\ (NoFault \/ Fault)
  BY DEF ValidateAuth, CallFails
<1>2. budget' \in [faults : Nat, lags : Nat, edits : Nat, signals : Nat]
  BY <1>1, BudgetType
<1>3. BootstrapOrder' /\ ReadyMeansBootstrapped'
  BY <1>1 DEF BootstrapOrder, ReadyMeansBootstrapped, k8sVars, sonarVars
<1>4. PICK step \in {"change", "generate"} : Goto(step, ir.status)
  BY DEF ValidateAuth
<1> QED
  BY <1>1, <1>2, <1>3, <1>4
  DEF ValidateAuth, Goto, TypeOK, BootstrapSteps, FreshCopies, ReadyEarned, FlagKept,
      k8sVars, sonarVars, Steps

\* The password leaves its default only for a value the user chose.
LEMMA ChangeAdminPasswordInv ==
    ASSUME IInv, ChangeAdminPassword
    PROVE  IInv'
<1> USE DEF IInv
<1>1. UNCHANGED <<k8sVars, server, tokenIssued>> /\ (NoFault \/ Fault)
  BY DEF ChangeAdminPassword, CallFails
<1>2. budget' \in [faults : Nat, lags : Nat, edits : Nat, signals : Nat]
  BY <1>1, BudgetType
<1>3. ir.target \in Passwords /\ password' \in {password, ir.target}
  BY DEF ChangeAdminPassword, BootstrapSteps
<1>4. BootstrapOrder' /\ ReadyMeansBootstrapped'
  BY <1>1, <1>3, PasswordsAssumption
  DEF BootstrapOrder, ReadyMeansBootstrapped, k8sVars
<1>5. CASE Goto("generate", ir.status)
  BY <1>1, <1>2, <1>3, <1>4, <1>5
  DEF ChangeAdminPassword, Goto, TypeOK, BootstrapSteps, FreshCopies, ReadyEarned,
      FlagKept, k8sVars, Steps
<1>6. CASE Progressing("AdminInitFailed")
  BY <1>1, <1>2, <1>3, <1>4, <1>6, ProgressingEffect
  DEF ChangeAdminPassword, TypeOK, BootstrapSteps, FreshCopies, ReadyEarned, FlagKept,
      k8sVars, Reasons
<1> QED
  BY <1>5, <1>6 DEF ChangeAdminPassword

\* A token is issued only to an account whose password is the user's.
LEMMA GenerateTokenInv ==
    ASSUME IInv, GenerateToken
    PROVE  IInv'
<1> USE DEF IInv
<1>1. UNCHANGED <<k8sVars, server, password>> /\ (NoFault \/ Fault)
  BY DEF GenerateToken, CallFails
<1>2. budget' \in [faults : Nat, lags : Nat, edits : Nat, signals : Nat]
  BY <1>1, BudgetType
<1>3. /\ tokenIssued' \in BOOLEAN /\ (tokenIssued => tokenIssued')
      /\ tokenIssued' => password # DefaultPassword
  <2>1. CASE UNCHANGED tokenIssued
    BY <2>1 DEF BootstrapOrder, TypeOK
  <2>2. CASE tokenIssued' = TRUE /\ password = ir.target
    <3>1. password \in Passwords
      BY <2>2 DEF GenerateToken, BootstrapSteps
    <3> QED
      BY <2>2, <3>1, PasswordsAssumption
  <2> QED
    BY <2>1, <2>2 DEF GenerateToken
<1>4. BootstrapOrder' /\ ReadyMeansBootstrapped'
  BY <1>1, <1>3 DEF BootstrapOrder, ReadyMeansBootstrapped, k8sVars
<1>5. CASE Goto("store", ir.status) /\ tokenIssued'
  BY <1>1, <1>2, <1>3, <1>4, <1>5
  DEF GenerateToken, Goto, TypeOK, BootstrapSteps, FreshCopies, ReadyEarned,
      FlagKept, k8sVars, Steps
<1>6. CASE Progressing("AdminInitFailed")
  BY <1>1, <1>2, <1>3, <1>4, <1>6, ProgressingEffect
  DEF GenerateToken, TypeOK, BootstrapSteps, FreshCopies, ReadyEarned, FlagKept,
      k8sVars, Reasons
<1> QED
  BY <1>5, <1>6 DEF GenerateToken

\* The Secret is created for a token that exists and an owner that exists.
LEMMA StoreTokenInv ==
    ASSUME IInv, StoreToken
    PROVE  IInv'
<1> USE DEF IInv
<1>1. /\ UNCHANGED <<inst, cache, deployed, adminSecret, tokenCached, sonarVars>>
      /\ NoFault \/ Fault
  BY DEF StoreToken
<1>2. budget' \in [faults : Nat, lags : Nat, edits : Nat, signals : Nat]
  BY <1>1, BudgetType
<1>3. /\ tokenSecret' \in BOOLEAN /\ tokenIssued
      /\ tokenSecret => tokenSecret'
      /\ tokenSecret' => inst.exists
  BY DEF StoreToken, BootstrapOrder, BootstrapSteps, TypeOK
<1>4. BootstrapOrder' /\ ReadyMeansBootstrapped'
  BY <1>1, <1>3 DEF BootstrapOrder, ReadyMeansBootstrapped, sonarVars
<1>5. CASE AdminInitialized /\ tokenSecret' = inst.exists
  BY <1>1, <1>2, <1>3, <1>4, <1>5, AdminInitializedEffect
  DEF StoreToken, TypeOK, BootstrapSteps, FreshCopies, ReadyEarned, FlagKept, sonarVars
<1>6. CASE Progressing("AdminInitFailed")
  BY <1>1, <1>2, <1>3, <1>4, <1>6, ProgressingEffect
  DEF StoreToken, TypeOK, BootstrapSteps, FreshCopies, ReadyEarned, FlagKept,
      sonarVars, Reasons
<1> QED
  BY <1>5, <1>6 DEF StoreToken, StoreError

\* The flag leaves memory only together with the reason that says so.
LEMMA RestartServerInv ==
    ASSUME IInv, RestartServer
    PROVE  IInv'
<1> USE DEF IInv
<1>1. UNCHANGED <<k8sVars, password, tokenIssued>> /\ (NoFault \/ Fault)
  BY DEF RestartServer, CallFails
<1>2. budget' \in [faults : Nat, lags : Nat, edits : Nat, signals : Nat]
  BY <1>1, BudgetType
<1>3. server' \in ServerStates
  BY DEF RestartServer, TypeOK, ServerStates
<1>4. BootstrapOrder' /\ ReadyMeansBootstrapped'
  BY <1>1 DEF BootstrapOrder, ReadyMeansBootstrapped, k8sVars
<1>5. CASE RestartDone
  <2> DEFINE status == [ir.status EXCEPT !.restart = FALSE, !.reason = "Restarting"]
  <2>1. status \in InstanceStatus /\ status.reason = "Restarting"
    BY DEF TypeOK, InstanceStatus, Reasons
  <2>2. ir' = [ir EXCEPT !.pc = "status", !.status = status]
    BY <1>5 DEF RestartDone, Goto
  <2> HIDE DEF status
  <2> QED
    BY <1>1, <1>2, <1>3, <1>4, <2>1, <2>2
    DEF TypeOK, BootstrapSteps, FreshCopies, ReadyEarned, FlagKept, k8sVars, Steps
<1>6. CASE Progressing("Restarting")
  BY <1>1, <1>2, <1>3, <1>4, <1>6, ProgressingEffect
  DEF TypeOK, BootstrapSteps, FreshCopies, ReadyEarned, FlagKept, k8sVars, Reasons
<1> QED
  BY <1>5, <1>6 DEF RestartServer

\* The status update: what is published was true of the stored object's version.
LEMMA UpdateStatusInv ==
    ASSUME IInv, UpdateStatus
    PROVE  IInv'
<1> USE DEF IInv
<1>1. /\ UNCHANGED <<deployed, adminSecret, tokenSecret, tokenCached, sonarVars>>
      /\ ir' = Idle /\ (NoFault \/ Fault)
  BY DEF UpdateStatus
<1>2. budget' \in [faults : Nat, lags : Nat, edits : Nat, signals : Nat]
  BY <1>1, BudgetType
<1>3. /\ ir' \in [pc : Steps, status : InstanceStatus, fresh : BOOLEAN,
                  target : Passwords \cup {NoSecret}]
      /\ ir'.pc = "idle" /\ ~ir'.fresh
  BY <1>1, StatusTypes DEF Idle, Steps, InstanceStatus, EmptyStatus, Reasons
<1>4. CASE UNCHANGED <<inst, cache>>
  BY <1>1, <1>2, <1>3, <1>4
  DEF TypeOK, BootstrapOrder, BootstrapSteps, FreshCopies, ReadyEarned, FlagKept,
      ReadyMeansBootstrapped, sonarVars
<1>5. CASE StatusAccepted /\ WriteInstance([inst EXCEPT !.status = ir.status])
  <2>1. /\ inst' \in [exists : BOOLEAN, status : InstanceStatus]
        /\ inst'.exists = inst.exists /\ inst'.status = ir.status
    BY <1>5 DEF WriteInstance, TypeOK
  <2>2. /\ cache' \in [exists : BOOLEAN, status : InstanceStatus, fresh : BOOLEAN]
        /\ cache'.exists = cache.exists /\ cache'.status = cache.status
        /\ cache'.fresh => cache.fresh /\ inst' = inst
    BY <1>5 DEF WriteInstance, TypeOK
  <2>3. IsReady(inst'.status) => tokenSecret /\ inst'.status.tokenRef
    BY <1>5, <2>1 DEF StatusAccepted, ReadyEarned, UpdateStatus
  <2> QED
    BY <1>1, <1>2, <1>3, <2>1, <2>2, <2>3
    DEF TypeOK, BootstrapOrder, BootstrapSteps, FreshCopies, ReadyEarned, FlagKept,
        ReadyMeansBootstrapped, sonarVars
<1> QED
  BY <1>4, <1>5 DEF UpdateStatus

-----------------------------------------------------------------------------
(* One lemma per step of the surroundings *)

LEMMA SyncInv ==
    ASSUME IInv, SyncInstance \/ SyncSecret
    PROVE  IInv'
<1> USE DEF IInv
<1>1. CASE SyncInstance
  BY <1>1
  DEF SyncInstance, TypeOK, BootstrapOrder, BootstrapSteps, FreshCopies, ReadyEarned,
      FlagKept, ReadyMeansBootstrapped, sonarVars
<1>2. CASE SyncSecret
  BY <1>2
  DEF SyncSecret, TypeOK, BootstrapOrder, BootstrapSteps, FreshCopies, ReadyEarned,
      FlagKept, ReadyMeansBootstrapped, sonarVars
<1> QED
  BY <1>1, <1>2

LEMMA ServerInv ==
    ASSUME IInv, Boot \/ ServerUp \/ PodCrash
    PROVE  IInv'
<1> USE DEF IInv
<1>1. UNCHANGED <<k8sVars, ir, password, tokenIssued>> /\ (NoFault \/ Fault)
  BY DEF Boot, ServerUp, PodCrash, NoFault
<1>2. budget' \in [faults : Nat, lags : Nat, edits : Nat, signals : Nat]
  BY <1>1, BudgetType
<1>3. server' \in ServerStates
  BY DEF Boot, ServerUp, PodCrash, ServerStates
<1> QED
  BY <1>1, <1>2, <1>3
  DEF TypeOK, BootstrapOrder, BootstrapSteps, FreshCopies, ReadyEarned, FlagKept,
      ReadyMeansBootstrapped, k8sVars

LEMMA ManagerRestartInv ==
    ASSUME IInv, ManagerRestart
    PROVE  IInv'
<1> USE DEF IInv
<1>1. budget' \in [faults : Nat, lags : Nat, edits : Nat, signals : Nat]
  BY BudgetType DEF ManagerRestart
<1>2. /\ ir' \in [pc : Steps, status : InstanceStatus, fresh : BOOLEAN,
                  target : Passwords \cup {NoSecret}]
      /\ ir'.pc = "idle" /\ ~ir'.fresh
  BY StatusTypes DEF ManagerRestart, Idle, Steps, InstanceStatus, EmptyStatus, Reasons
<1> QED
  BY <1>1, <1>2
  DEF ManagerRestart, TypeOK, BootstrapOrder, BootstrapSteps, FreshCopies, ReadyEarned,
      FlagKept, ReadyMeansBootstrapped, sonarVars

LEMMA EditAdminSecretInv ==
    ASSUME IInv, EditAdminSecret
    PROVE  IInv'
<1> USE DEF IInv
<1>1. budget' \in [faults : Nat, lags : Nat, edits : Nat, signals : Nat]
  BY BudgetType DEF EditAdminSecret
<1> QED
  BY <1>1
  DEF EditAdminSecret, TypeOK, BootstrapOrder, BootstrapSteps, FreshCopies, ReadyEarned,
      FlagKept, ReadyMeansBootstrapped, sonarVars

\* The instance takes its Secret with it; the copy in flight can no longer be
\* written.
LEMMA DeleteInstanceInv ==
    ASSUME IInv, DeleteInstance
    PROVE  IInv'
<1> USE DEF IInv
<1>1. budget' \in [faults : Nat, lags : Nat, edits : Nat, signals : Nat]
  BY BudgetType DEF DeleteInstance
<1>2. /\ inst' \in [exists : BOOLEAN, status : InstanceStatus] /\ ~inst'.exists
      /\ ~IsReady(inst'.status)
  BY StatusTypes DEF DeleteInstance, InstanceStatus, EmptyStatus, Reasons
<1>3. /\ ir' \in [pc : Steps, status : InstanceStatus, fresh : BOOLEAN,
                  target : Passwords \cup {NoSecret}]
      /\ ~ir'.fresh /\ ir'.pc = ir.pc /\ ir'.status = ir.status
      /\ ir'.target = ir.target
  BY DEF DeleteInstance, TypeOK
<1>4. /\ cache' \in [exists : BOOLEAN, status : InstanceStatus, fresh : BOOLEAN]
      /\ ~cache'.fresh
  BY DEF DeleteInstance, TypeOK
<1>5. deployed' \in 0..3 /\ server' \in ServerStates /\ tokenSecret' = FALSE
      /\ UNCHANGED <<adminSecret, tokenCached, password, tokenIssued>>
  BY DEF DeleteInstance, ServerStates
<1> QED
  BY <1>1, <1>2, <1>3, <1>4, <1>5
  DEF TypeOK, BootstrapOrder, BootstrapSteps, FreshCopies, ReadyEarned, FlagKept,
      ReadyMeansBootstrapped

\* A signal either changes nothing or makes every copy stale, whoever sends it.
LEMMA SetRestartInv ==
    ASSUME IInv, SetRestartRequired,
           budget' \in [faults : Nat, lags : Nat, edits : Nat, signals : Nat],
           UNCHANGED <<deployed, adminSecret, tokenSecret, tokenCached, sonarVars>>
    PROVE  IInv'
<1> USE DEF IInv
<1>1. /\ inst' \in [exists : BOOLEAN, status : InstanceStatus]
      /\ inst'.exists = inst.exists
      /\ inst'.status.reason = inst.status.reason
      /\ inst'.status.tokenRef = inst.status.tokenRef
  BY DEF SetRestartRequired, WriteInstance, TypeOK, InstanceStatus
<1>2. /\ ir' \in [pc : Steps, status : InstanceStatus, fresh : BOOLEAN,
                  target : Passwords \cup {NoSecret}]
      /\ ir'.pc = ir.pc /\ ir'.status = ir.status /\ ir'.target = ir.target
      /\ ir'.fresh => ir.fresh /\ inst' = inst
  BY DEF SetRestartRequired, WriteInstance, TypeOK
<1>3. /\ cache' \in [exists : BOOLEAN, status : InstanceStatus, fresh : BOOLEAN]
      /\ cache'.exists = cache.exists /\ cache'.status = cache.status
      /\ cache'.fresh => cache.fresh /\ inst' = inst
  BY DEF SetRestartRequired, WriteInstance, TypeOK
<1> QED
  BY <1>1, <1>2, <1>3
  DEF TypeOK, BootstrapOrder, BootstrapSteps, FreshCopies, ReadyEarned, FlagKept,
      ReadyMeansBootstrapped, sonarVars

LEMMA PluginSignalInv ==
    ASSUME IInv, PluginSignal
    PROVE  IInv'
  BY BudgetType, SetRestartInv DEF PluginSignal, IInv

\* A step that leaves the instance, its reconcile and SonarQube alone.
LEMMA ElsewhereInv ==
    ASSUME IInv, UNCHANGED <<k8sVars, ir, sonarVars>>,
           budget' \in [faults : Nat, lags : Nat, edits : Nat, signals : Nat]
    PROVE  IInv'
  BY DEF IInv, TypeOK, BootstrapOrder, BootstrapSteps, FreshCopies, ReadyEarned,
         FlagKept, ReadyMeansBootstrapped, k8sVars, sonarVars

-----------------------------------------------------------------------------
(* The invariant *)

LEMMA InitInv == Init => IInv
<1> SUFFICES ASSUME Init PROVE IInv
  OBVIOUS
<1>1. EmptyStatus \in InstanceStatus /\ ~IsReady(EmptyStatus)
  BY StatusTypes DEF InstanceStatus, EmptyStatus, Reasons
<1>2. budget \in [faults : Nat, lags : Nat, edits : Nat, signals : Nat]
  BY BoundsAssumption DEF Init
<1>3. TypeOK
  <2>1. /\ inst \in [exists : BOOLEAN, status : InstanceStatus]
        /\ cache \in [exists : BOOLEAN, status : InstanceStatus, fresh : BOOLEAN]
    BY <1>1 DEF Init
  <2>2. ir \in [pc : Steps, status : InstanceStatus, fresh : BOOLEAN,
                target : Passwords \cup {NoSecret}]
    BY <1>1 DEF Init, Idle, Steps
  <2>3. deployed \in 0..3 /\ server \in ServerStates
    BY DEF Init, ServerStates
  <2>4. /\ adminSecret \in Passwords \cup {NoSecret}
        /\ password \in Passwords \cup {DefaultPassword}
        /\ {tokenSecret, tokenCached, tokenIssued} \subseteq BOOLEAN
    BY DEF Init
  <2> QED
    BY <1>2, <2>1, <2>2, <2>3, <2>4 DEF TypeOK
<1> QED
  BY <1>1, <1>3
  DEF Init, IInv, BootstrapOrder, BootstrapSteps, FreshCopies, ReadyEarned, FlagKept,
      ReadyMeansBootstrapped, Idle

LEMMA StutterInv ==
    ASSUME IInv, UNCHANGED vars
    PROVE  IInv'
  BY DEF IInv, TypeOK, BootstrapOrder, BootstrapSteps, FreshCopies, ReadyEarned,
         FlagKept, ReadyMeansBootstrapped, vars, k8sVars, sonarVars

LEMMA NextInv == IInv /\ [Next]_vars => IInv'
<1> SUFFICES ASSUME IInv, [Next]_vars PROVE IInv'
  OBVIOUS
<1>1. CASE Reconcile
  BY <1>1, ReconcileStartInv, CheckHealthInv, ValidateAuthInv, ChangeAdminPasswordInv,
     GenerateTokenInv, StoreTokenInv, RestartServerInv, UpdateStatusInv DEF Reconcile
<1>2. CASE Environment
  BY <1>2, SyncInv, ServerInv, ManagerRestartInv, EditAdminSecretInv, DeleteInstanceInv
  DEF Environment
<1>3. CASE PluginSignal
  BY <1>3, PluginSignalInv
<1>4. CASE UNCHANGED vars
  BY <1>4, StutterInv
<1> QED
  BY <1>1, <1>2, <1>3, <1>4 DEF Next

\* The invariant holds in every reachable state.
THEOREM Invariance == Spec => []IInv
  BY InitInv, NextInv, PTL DEF Spec

-----------------------------------------------------------------------------
(* Theorems *)

\* The variables keep their types.
THEOREM TypeCorrect == Spec => []TypeOK
  BY Invariance, PTL DEF IInv

\* Whoever sees phase Ready finds a bootstrapped account and a stored token.
THEOREM ReadySafe == Spec => []ReadyMeansBootstrapped
  BY Invariance, PTL DEF IInv

\* A restart request is never erased by a status update that did not restart.
LEMMA FlagStep ==
    ASSUME IInv, [Next]_vars, inst.status.restart, inst'.exists, ~inst'.status.restart
    PROVE  ir.pc = "status" /\ ir.status.reason = "Restarting"
<1> USE DEF IInv
<1>1. CASE UNCHANGED inst
  BY <1>1
<1>2. CASE UpdateStatus
  <2>1. CASE StatusAccepted /\ WriteInstance([inst EXCEPT !.status = ir.status])
    <3>1. inst'.status = ir.status
      BY <2>1 DEF WriteInstance, TypeOK
    <3> QED
      BY <1>2, <2>1, <3>1 DEF UpdateStatus, StatusAccepted, FlagKept
  <2> QED
    BY <1>1, <1>2, <2>1 DEF UpdateStatus
<1>3. CASE DeleteInstance
  BY <1>3 DEF DeleteInstance
<1>4. CASE PluginSignal
  BY <1>4 DEF PluginSignal, SetRestartRequired, WriteInstance, TypeOK, InstanceStatus
<1> QED
  BY <1>1, <1>2, <1>3, <1>4
  DEF Next, Reconcile, Environment, ReconcileStart, CheckHealth, ValidateAuth,
      ChangeAdminPassword, GenerateToken, StoreToken, RestartServer, SyncInstance,
      SyncSecret, Boot, ServerUp, PodCrash, ManagerRestart, EditAdminSecret,
      vars, k8sVars

THEOREM FlagSafe == Spec => OnlyRestartClearsFlag
<1>1. IInv /\ [Next]_vars =>
        [inst.status.restart /\ inst'.exists /\ ~inst'.status.restart
           => At("status") /\ ir.status.reason = "Restarting"]_vars
  BY FlagStep
<1> QED
  BY <1>1, Invariance, PTL DEF Spec, OnlyRestartClearsFlag

-----------------------------------------------------------------------------
(* Refinement of AdminBootstrap *)

LEMMA BootstrapInit == Init => Bootstrap!Init
  BY DEF Init, Bootstrap!Init, BootstrapStage, Announced, EmptyStatus

\* A step that leaves the account, its Secret and the announcement alone.
LEMMA BootstrapStutter ==
    ASSUME UNCHANGED <<tokenSecret, tokenIssued, password, inst>>
    PROVE  UNCHANGED Bootstrap!vars
  BY DEF Bootstrap!vars, BootstrapStage, Announced

LEMMA BootstrapStep == IInv /\ [Next]_vars => [Bootstrap!Next]_(Bootstrap!vars)
<1> SUFFICES ASSUME IInv, [Next]_vars PROVE [Bootstrap!Next]_(Bootstrap!vars)
  OBVIOUS
<1> USE DEF IInv
<1>1. CASE UNCHANGED <<tokenSecret, tokenIssued, password, inst>>
  BY <1>1, BootstrapStutter
<1>2. CASE ChangeAdminPassword
  <2>1. CASE password = DefaultPassword /\ password' = ir.target
    <3>1. password' # DefaultPassword /\ ~tokenIssued /\ ~tokenSecret
      BY <1>2, <2>1, PasswordsAssumption
      DEF ChangeAdminPassword, BootstrapOrder, BootstrapSteps
    <3>2. Bootstrap!ReplacePassword
      BY <1>2, <2>1, <3>1
      DEF ChangeAdminPassword, Bootstrap!ReplacePassword, Bootstrap!Advance,
          BootstrapStage, Announced, k8sVars
    <3> QED
      BY <3>2 DEF Bootstrap!Next
  <2> QED
    BY <1>1, <1>2, <2>1 DEF ChangeAdminPassword, k8sVars
<1>3. CASE GenerateToken
  <2>1. CASE password = ir.target /\ ~tokenIssued /\ tokenIssued' = TRUE
    <3>1. password # DefaultPassword /\ ~tokenSecret
      BY <1>3, <2>1, PasswordsAssumption DEF GenerateToken, BootstrapOrder, BootstrapSteps
    <3>2. Bootstrap!IssueToken
      BY <1>3, <2>1, <3>1
      DEF GenerateToken, Bootstrap!IssueToken, Bootstrap!Advance, BootstrapStage,
          Announced, k8sVars
    <3> QED
      BY <3>2 DEF Bootstrap!Next
  <2> QED
    BY <1>1, <1>3, <2>1 DEF GenerateToken, k8sVars
<1>4. CASE StoreToken
  <2>1. CASE UNCHANGED tokenSecret
    BY <1>1, <1>4, <2>1 DEF StoreToken, sonarVars
  <2>2. CASE ~tokenSecret /\ tokenSecret'
    <3>1. Bootstrap!StoreToken
      BY <1>4, <2>2
      DEF StoreToken, Bootstrap!StoreToken, Bootstrap!Advance, BootstrapStage,
          Announced, BootstrapSteps, sonarVars
    <3> QED
      BY <3>1 DEF Bootstrap!Next
  <2>3. tokenSecret => tokenSecret' = TRUE
    BY <1>4 DEF StoreToken, BootstrapOrder, TypeOK
  <2>4. tokenSecret \in BOOLEAN /\ tokenSecret' \in BOOLEAN
    BY <1>4 DEF StoreToken, TypeOK
  <2> QED
    BY <2>1, <2>2, <2>3, <2>4
<1>5. CASE UpdateStatus
  <2>1. CASE StatusAccepted /\ WriteInstance([inst EXCEPT !.status = ir.status])
    <3>1. inst'.exists = inst.exists /\ inst'.status = ir.status
      BY <2>1 DEF WriteInstance, TypeOK
    <3>2. UNCHANGED BootstrapStage
      BY <1>5 DEF UpdateStatus, BootstrapStage, sonarVars
    <3>3. CASE Announced'
      <4>1. BootstrapStage = "stored"
        BY <1>5, <2>1, <3>1, <3>3
        DEF UpdateStatus, StatusAccepted, ReadyEarned, BootstrapStage, Announced
      <4> QED
        BY <3>2, <3>3, <4>1 DEF Bootstrap!Next, Bootstrap!Announce, Announced
    <3>4. CASE ~Announced'
      BY <3>2, <3>4 DEF Bootstrap!Next, Bootstrap!Withdraw, Announced
    <3> QED
      BY <3>3, <3>4
  <2> QED
    BY <1>1, <1>5, <2>1 DEF UpdateStatus, sonarVars
<1>6. CASE DeleteInstance
  <2>1. Announced' = FALSE /\ tokenSecret' = FALSE /\ UNCHANGED <<tokenIssued, password>>
    BY <1>6 DEF DeleteInstance, Announced
  <2>2. CASE tokenSecret
    BY <2>1, <2>2
    DEF Bootstrap!Next, Bootstrap!Discard, BootstrapStage, BootstrapOrder
  <2>3. CASE ~tokenSecret
    BY <2>1, <2>3 DEF Bootstrap!Next, Bootstrap!Withdraw, BootstrapStage
  <2> QED
    BY <2>2, <2>3
<1>7. CASE PluginSignal
  <2>1. inst'.exists = inst.exists /\ inst'.status.reason = inst.status.reason
    BY <1>7 DEF PluginSignal, SetRestartRequired, WriteInstance, TypeOK, InstanceStatus
  <2> QED
    BY <1>7, <2>1
    DEF PluginSignal, Bootstrap!vars, BootstrapStage, Announced, sonarVars
<1> QED
  BY <1>1, <1>2, <1>3, <1>4, <1>5, <1>6, <1>7
  DEF Next, Reconcile, Environment, ReconcileStart, CheckHealth, ValidateAuth,
      RestartServer, SyncInstance, SyncSecret, Boot, ServerUp, PodCrash,
      ManagerRestart, EditAdminSecret, vars, k8sVars, sonarVars

\* The controller with its crashes, lost replies and stale copies implements the
\* abstract bootstrap.
THEOREM Refinement == Spec => RefinesBootstrap
  BY BootstrapInit, BootstrapStep, Invariance, PTL DEF Spec, RefinesBootstrap, Bootstrap!Spec

=============================================================================
