-------------------------- MODULE SonarQubePlugin --------------------------
(***************************************************************************)
(* The SonarQubePlugin controller, composed with the instance controller   *)
(* it shares SonarQubeInstance.Status.RestartRequired with.                *)
(*                                                                         *)
(* A plugin change is staged in SonarQube by the install and uninstall     *)
(* calls and becomes active when the SonarQube process boots;              *)
(* /api/plugins/installed lists the active plugins.  The plugin controller *)
(* never restarts SonarQube: it patches the flag, the instance controller  *)
(* restarts and clears it.  The controller has one worker (the default     *)
(* MaxConcurrentReconciles), so one plugin reconcile is in flight at most, *)
(* while the instance controller, SonarQube and the user move freely.      *)
(***************************************************************************)
EXTENDS SonarQubeInstance

CONSTANTS
    Plugins,        \* names of SonarQubePlugin resources
    Keys,           \* marketplace keys
    KeyOf,          \* spec.key of each resource; two resources may share one
    Versions,       \* versions the marketplace offers
    Wishes,         \* what users ask for: versions, Latest, FromURL
    Starts          \* bound: the resources there are at first, and what may go
                    \* wrong from there on

Latest == "latest"      \* spec.version omitted
FromURL == "source"     \* spec.source, accepted but not implemented
None == "none"

ASSUME PluginAssumption ==
    /\ KeyOf \in [Plugins -> Keys]
    /\ {Latest, FromURL, None} \cap Versions = {}
    /\ Wishes \subseteq Versions \cup {Latest, FromURL}
    /\ Starts \subseteq [wishes : [Plugins -> Versions \cup {Latest, FromURL, None}],
                        shipped : SUBSET Keys,
                        faults : 0 .. MaxFaults, lags : 0 .. MaxLags]

VARIABLES
    plugins,        \* the stored SonarQubePlugin objects
    pcache,         \* the informer's copies
    pr,             \* the plugin reconcile in flight
    staged,         \* SonarQube: what the next boot loads
    active,         \* SonarQube: what is loaded
    shipped,        \* SonarQube: the keys it brings along and never uninstalls
    riskAccepted    \* SonarQube: sonar.plugins.risk.consent

marketVars == <<staged, active, shipped, riskAccepted>>
pluginVars == <<plugins, pcache, pr, marketVars>>
systemVars == <<vars, pluginVars>>

-----------------------------------------------------------------------------
(* Types *)

\* Phase and restartRequired of the status, as the pairs the controller writes.
PluginPhases == {"None", "Pending", "Installing", "Failed",
                 "RestartPending",      \* Installed, restartRequired
                 "Installed"}           \* Installed, listed by SonarQube

PluginObject == [exists : BOOLEAN, deleting : BOOLEAN, finalizer : BOOLEAN,
                 wish : Versions \cup {Latest, FromURL, None}, phase : PluginPhases]

Absent == [exists |-> FALSE, deleting |-> FALSE, finalizer |-> FALSE,
           wish |-> None, phase |-> "None"]

Created(wish) == [Absent EXCEPT !.exists = TRUE, !.wish = wish]

PluginSteps == {"idle", "pending", "finalizer", "rejected", "list", "uninstall",
                "installing", "install", "consent", "reinstall", "failed",
                "signal", "installed", "verified",
                "delete-list", "delete-uninstall", "delete-signal", "release"}

PluginTypeOK ==
    /\ plugins \in [Plugins -> PluginObject]
    /\ pcache \in [Plugins -> [object : PluginObject, fresh : BOOLEAN]]
    /\ pr \in [pc : PluginSteps, name : Plugins \cup {None}, object : PluginObject,
               fresh : BOOLEAN, flag : BOOLEAN]
    /\ staged \in [Keys -> Versions \cup {None}]
    /\ active \in [Keys -> Versions \cup {None}]
    /\ shipped \subseteq Keys
    /\ riskAccepted \in BOOLEAN

-----------------------------------------------------------------------------
(* Kubernetes side *)

NoReconcile == [pc |-> "idle", name |-> None, object |-> Absent,
                fresh |-> FALSE, flag |-> FALSE]

AtStep(step) == pr.pc = step
Key == KeyOf[pr.name]

\* Go on with the in-memory object, or end the reconcile.
ProceedWith(step, object, fresh) ==
    pr' = IF step = "idle" THEN NoReconcile
          ELSE [pr EXCEPT !.pc = step, !.object = object, !.fresh = fresh]
Proceed(step) == ProceedWith(step, pr.object, pr.fresh)

\* A write by somebody else than the reconcile in flight.
WritePlugin(p, new) ==
    LET same == new = plugins[p]
    IN  /\ plugins' = [plugins EXCEPT ![p] = new]
        /\ pcache' = [pcache EXCEPT ![p].fresh = @ /\ same]
        /\ pr' = [pr EXCEPT !.fresh = @ /\ (same \/ pr.name # p)]

\* A versioned write of the reconcile's own object: accepted only for the
\* stored version.  Afterwards the reconcile goes on at "then" or, after an
\* error, at "otherwise" (the caller returns it or ignores it); a lost reply
\* leaves the old version in memory.
Accepted == pr.fresh /\ plugins[pr.name].exists

OwnWrite(new, then, otherwise) ==
    LET same == new = plugins[pr.name]
    IN  \/ /\ Accepted
           /\ plugins' = [plugins EXCEPT ![pr.name] = new]
           /\ pcache' = [pcache EXCEPT ![pr.name].fresh = @ /\ same]
           /\ \/ NoFault /\ ProceedWith(then, new, TRUE)
              \/ Fault /\ ProceedWith(otherwise, pr.object, same)
        \/ /\ (~Accepted /\ NoFault) \/ Fault
           /\ Proceed(otherwise)
           /\ UNCHANGED <<plugins, pcache>>

-----------------------------------------------------------------------------
(* The reconcile, step by step *)

\* Faulty variant: spec.source is not looked at.
RouteIgnoringSource(object) ==
    LET usable == IsReady(cache.status) /\ HasAdminToken(cache.status)
    IN  IF ~cache.exists \/ object.deleting THEN IF object.finalizer THEN "release" ELSE "idle"
        ELSE IF ~usable THEN "pending"
        ELSE IF ~object.finalizer THEN "finalizer" ELSE "list"

\* Reconcile up to its first call.  A missing instance releases the finalizer
\* and ends the round; deletion comes before the wait for Ready.
Route(object) ==
    LET usable == IsReady(cache.status) /\ HasAdminToken(cache.status)
    IN  CASE ~cache.exists /\ object.finalizer -> "release"
          [] ~cache.exists /\ ~object.finalizer -> "idle"
          [] cache.exists /\ object.deleting ->
               IF ~object.finalizer THEN "idle"
               ELSE IF usable THEN "delete-list" ELSE "release"
          [] cache.exists /\ ~object.deleting ->
               IF ~usable THEN "pending"
               ELSE IF ~object.finalizer THEN "finalizer"
               ELSE IF object.wish = FromURL THEN "rejected" ELSE "list"

PluginStart(p) ==
    LET copy == pcache[p]
    IN  /\ AtStep("idle") /\ copy.object.exists
        /\ Route(copy.object) # "idle"
        /\ IF copy.fresh /\ cache.fresh THEN NoFault ELSE Spend("lags")
        /\ pr' = [pc |-> Route(copy.object), name |-> p, object |-> copy.object,
                  fresh |-> copy.fresh, flag |-> cache.status.restart]
        /\ UNCHANGED <<k8sVars, ir, sonarVars, plugins, pcache, marketVars>>

\* Faulty variant: the error of the update is not returned.
AddFinalizerUnchecked ==
    /\ AtStep("finalizer")
    /\ OwnWrite([pr.object EXCEPT !.finalizer = TRUE], "list", "list")
    /\ UNCHANGED <<k8sVars, ir, sonarVars, marketVars>>

\* AddFinalizer and Update, before anything is installed.
AddFinalizer ==
    /\ AtStep("finalizer")
    /\ OwnWrite([pr.object EXCEPT !.finalizer = TRUE],
                IF pr.object.wish = FromURL THEN "rejected" ELSE "list", "idle")
    /\ UNCHANGED <<k8sVars, ir, sonarVars, marketVars>>

\* The status updates; only those of a finished install or verification report
\* a conflict, which makes no difference here since both end the reconcile.
PhaseAt == [pending |-> "Pending", rejected |-> "Failed", failed |-> "Failed",
            installed |-> "RestartPending", verified |-> "Installed",
            installing |-> "Installing"]

PublishPhase ==
    /\ pr.pc \in DOMAIN PhaseAt
    /\ LET next == IF AtStep("installing") THEN "install" ELSE "idle"
       IN  OwnWrite([pr.object EXCEPT !.phase = PhaseAt[pr.pc]], next, next)
    /\ UNCHANGED <<k8sVars, ir, sonarVars, marketVars>>

\* Where the comparison of the listed version with the spec leads.  The faulty
\* variants take any version for the right one, or signal a restart each time.
ComparedByKey == IF active[Key] = None THEN "installing" ELSE "verified"
ComparedAndSignalled == IF active[Key] = None THEN "installing" ELSE "signal"

Compared ==
    IF active[Key] = None THEN "installing"
    ELSE IF pr.object.wish \in Versions /\ active[Key] # pr.object.wish THEN "uninstall"
    ELSE "verified"

\* ListInstalledPlugins.
ListPlugins ==
    /\ AtStep("list")
    /\ \/ Reachable /\ NoFault /\ Proceed(Compared)
       \/ Proceed("idle") /\ CallFails(TRUE)
    /\ UNCHANGED <<k8sVars, ir, sonarVars, plugins, pcache, marketVars>>

\* A plugin call that SonarQube carries out if "accepted" holds.  The reconcile
\* goes on at "done", at "refused" if SonarQube says no, and at "error" if there
\* was no answer, which a lost reply to a call carried out also is.
StageCall(accepted, version, done, refused, error) ==
    \/ /\ Reachable /\ accepted /\ staged' = [staged EXCEPT ![Key] = version]
       /\ (Proceed(done) /\ NoFault) \/ (Proceed(error) /\ Fault)
    \/ /\ Reachable /\ ~accepted /\ Proceed(refused) /\ NoFault
       /\ UNCHANGED staged
    \/ CallFails(TRUE) /\ Proceed(error) /\ UNCHANGED staged

\* signalInstanceRestart returns at once when the copy of the instance read at
\* the start of this reconcile has the flag already.
SignalNeeded == ~pr.flag

\* UninstallPlugin.  SonarQube refuses for good to remove what it brings along,
\* and a refusal is returned like any other error.
Removable == Key \notin shipped

Uninstall ==
    /\ AtStep("uninstall")
    /\ StageCall(Removable, None, "installing", "idle", "idle")
    /\ UNCHANGED <<k8sVars, ir, sonarVars, plugins, pcache, active, shipped, riskAccepted>>

\* InstallPlugin.  Refused for want of the risk consent, it is tried once more
\* after the consent was given.
Install ==
    /\ pr.pc \in {"install", "reinstall"}
    /\ \E v \in IF pr.object.wish = Latest THEN Versions ELSE {pr.object.wish} :
         StageCall(riskAccepted, v, IF SignalNeeded THEN "signal" ELSE "installed",
                   IF AtStep("install") THEN "consent" ELSE "failed", "failed")
    /\ UNCHANGED <<k8sVars, ir, sonarVars, plugins, pcache, active, shipped, riskAccepted>>

\* AcknowledgeRiskConsent.
AcknowledgeRisk ==
    /\ AtStep("consent")
    /\ \/ /\ Reachable /\ riskAccepted' = TRUE
          /\ (Proceed("reinstall") /\ NoFault) \/ (Proceed("failed") /\ Fault)
       \/ CallFails(TRUE) /\ Proceed("failed") /\ UNCHANGED riskAccepted
    /\ UNCHANGED <<k8sVars, ir, sonarVars, plugins, pcache, staged, active, shipped>>

\* The patch of the flag; its failure is an event and nothing else.
SignalRestart ==
    /\ pr.pc \in {"signal", "delete-signal"}
    /\ Proceed(IF AtStep("signal") THEN "installed" ELSE "release")
    /\ \/ SetRestartRequired /\ (NoFault \/ Fault)
       \/ /\ (~inst.exists /\ NoFault) \/ Fault
          /\ UNCHANGED <<inst, cache, ir>>
    /\ UNCHANGED <<deployed, adminSecret, tokenSecret, tokenCached, sonarVars,
                   plugins, pcache, marketVars>>

\* handleDeletion: uninstall what is listed, skip what is not.
DeletionList ==
    /\ AtStep("delete-list")
    /\ \/ /\ Reachable /\ NoFault
          /\ Proceed(IF active[Key] = None THEN "release" ELSE "delete-uninstall")
       \/ Proceed("idle") /\ CallFails(TRUE)
    /\ UNCHANGED <<k8sVars, ir, sonarVars, plugins, pcache, marketVars>>

\* Faulty variant: it waits until the plugin is no longer listed, and nobody
\* restarts SonarQube.
DeletionUninstallWaits ==
    /\ AtStep("delete-uninstall")
    /\ StageCall(Removable, None, "idle", "idle", "idle")
    /\ UNCHANGED <<k8sVars, ir, sonarVars, plugins, pcache, active, shipped, riskAccepted>>

DeletionUninstall ==
    /\ AtStep("delete-uninstall")
    /\ StageCall(Removable, None,
                 IF SignalNeeded THEN "delete-signal" ELSE "release", "idle", "idle")
    /\ UNCHANGED <<k8sVars, ir, sonarVars, plugins, pcache, active, shipped, riskAccepted>>

\* RemoveFinalizer and Update; an object being deleted is gone with it.
ReleaseFinalizer ==
    /\ AtStep("release")
    /\ OwnWrite(IF pr.object.deleting THEN Absent ELSE [pr.object EXCEPT !.finalizer = FALSE],
                "idle", "idle")
    /\ UNCHANGED <<k8sVars, ir, sonarVars, marketVars>>

PluginStep ==
    \/ AddFinalizer \/ PublishPhase \/ ListPlugins \/ Uninstall \/ Install
    \/ AcknowledgeRisk \/ SignalRestart \/ DeletionList \/ DeletionUninstall
    \/ ReleaseFinalizer

-----------------------------------------------------------------------------
(* Users and informers *)

CreatePlugin(p) ==
    /\ ~plugins[p].exists /\ Spend("edits")
    /\ \E wish \in Wishes : WritePlugin(p, Created(wish))
    /\ UNCHANGED <<k8sVars, ir, sonarVars, marketVars>>

EditPlugin(p) ==
    /\ plugins[p].exists /\ ~plugins[p].deleting /\ Spend("edits")
    /\ \E wish \in Wishes \ {plugins[p].wish} :
         WritePlugin(p, [plugins[p] EXCEPT !.wish = wish])
    /\ UNCHANGED <<k8sVars, ir, sonarVars, marketVars>>

DeletePlugin(p) ==
    /\ plugins[p].exists /\ ~plugins[p].deleting /\ Spend("edits")
    /\ WritePlugin(p, IF plugins[p].finalizer
                      THEN [plugins[p] EXCEPT !.deleting = TRUE] ELSE Absent)
    /\ UNCHANGED <<k8sVars, ir, sonarVars, marketVars>>

SyncPlugin(p) ==
    /\ ~pcache[p].fresh
    /\ pcache' = [pcache EXCEPT ![p] = [object |-> plugins[p], fresh |-> TRUE]]
    /\ UNCHANGED <<vars, plugins, pr, marketVars>>

-----------------------------------------------------------------------------
(* The system *)

\* The instance controller and its surroundings, as in their own module; the
\* boot loads what is staged, and a manager restart drops both reconciles.
BootLoads == Boot /\ active' = staged /\ UNCHANGED <<plugins, pcache, pr, staged, shipped, riskAccepted>>

ManagerRestarts ==
    /\ ManagerRestart
    /\ pr' = NoReconcile
    /\ pcache' = [p \in Plugins |-> [object |-> plugins[p], fresh |-> TRUE]]
    /\ UNCHANGED <<plugins, marketVars>>

InstanceStep ==
    /\ Reconcile \/ SyncInstance \/ SyncSecret \/ ServerUp \/ PodCrash \/ DeleteInstance
    /\ UNCHANGED pluginVars

\* A bootstrapped, Ready instance with the plugins it brings along, and any set
\* of new resources.
SystemInit ==
    LET status == [reason |-> "Ready", restart |-> FALSE, tokenRef |-> TRUE]
    IN  /\ inst = [exists |-> TRUE, status |-> status]
        /\ cache = [exists |-> TRUE, status |-> status, fresh |-> TRUE]
        /\ deployed = 3 /\ tokenSecret = TRUE /\ tokenCached = TRUE
        /\ adminSecret \in Passwords /\ password = adminSecret /\ tokenIssued = TRUE
        /\ server = "UP" /\ ir = Idle
        /\ \E start \in Starts :
             /\ budget = [faults |-> start.faults, lags |-> start.lags,
                          edits |-> MaxEdits, signals |-> MaxSignals]
             /\ shipped = start.shipped
             /\ plugins = [p \in Plugins |-> IF start.wishes[p] = None THEN Absent
                                             ELSE Created(start.wishes[p])]
        /\ pcache = [p \in Plugins |-> [object |-> plugins[p], fresh |-> TRUE]]
        /\ pr = NoReconcile
        /\ staged \in [Keys -> Versions \cup {None}]
        /\ \A k \in Keys : staged[k] # None <=> k \in shipped
        /\ active = staged
        /\ riskAccepted = FALSE

UserStep(p) == CreatePlugin(p) \/ EditPlugin(p) \/ DeletePlugin(p)

SystemNext ==
    \/ InstanceStep \/ BootLoads \/ ManagerRestarts
    \/ PluginStep
    \/ \E p \in Plugins : PluginStart(p) \/ SyncPlugin(p) \/ UserStep(p)

\* As for the instance controller alone; the work queue hands out every due
\* resource in turn although the one worker is busy again and again.
SystemFairness ==
    /\ WF_systemVars(Reconcile /\ UNCHANGED pluginVars)
    /\ WF_systemVars(SyncInstance /\ UNCHANGED pluginVars)
    /\ WF_systemVars(SyncSecret /\ UNCHANGED pluginVars)
    /\ WF_systemVars(BootLoads)
    /\ WF_systemVars(ServerUp /\ UNCHANGED pluginVars)
    /\ WF_systemVars(PluginStep)
    /\ \A p \in Plugins : SF_systemVars(PluginStart(p)) /\ WF_systemVars(SyncPlugin(p))

SystemSpec == SystemInit /\ [][SystemNext]_systemVars
FairSystemSpec == SystemSpec /\ SystemFairness

-----------------------------------------------------------------------------
(* Properties *)

\* Nothing is installed in SonarQube for a resource that could disappear from
\* Kubernetes without passing through the controller again: during the whole
\* install the stored resource carries the finalizer, although the decision was
\* taken on a copy that may be stale and users may delete and re-create it.
InstallSteps == {"list", "uninstall", "installing", "install", "consent",
                 "reinstall", "signal", "installed"}

InstallUnderFinalizer ==
    pr.pc \in InstallSteps => plugins[pr.name].exists /\ plugins[pr.name].finalizer

\* A wish that a restart can fulfil: no other version of a plugin that SonarQube
\* refuses to remove.
Wanted(p) ==
    /\ plugins[p].exists /\ ~plugins[p].deleting /\ plugins[p].wish # FromURL
    /\ KeyOf[p] \in shipped => plugins[p].wish = Latest

Fulfilled(p) ==
    LET loaded == active[KeyOf[p]]
    IN  IF plugins[p].wish = Latest THEN loaded # None ELSE loaded = plugins[p].wish

\* What users ask for ends up loaded, whatever flag was skipped, erased or lost
\* on the way: the controller compares with the loaded plugins again and again.
InstallTakesEffect ==
    \A p \in Plugins : <>[](inst.exists /\ Wanted(p) => Fulfilled(p))

\* A deleted resource leaves Kubernetes although SonarQube may be restarting,
\* crash, or lose calls - unless the plugin is one SonarQube refuses to remove:
\* the error is returned and the finalizer stays for as long as it refuses, which
\* is not what the comments of Reconcile and handleDeletion promise.
DeletionCompletes ==
    \A p \in Plugins :
        plugins[p].deleting /\ KeyOf[p] \notin shipped ~> ~plugins[p].exists

\* The plugin and the instance controller do not restart SonarQube forever.
RestartsCease == <>[](IsReady(inst.status) \/ ~inst.exists)

=============================================================================
