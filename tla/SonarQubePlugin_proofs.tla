----------------------- MODULE SonarQubePlugin_proofs -----------------------
(***************************************************************************)
(* Proofs about the plugin controller and the instance controller it is    *)
(* composed with, for every set of plugins, keys and versions and every    *)
(* bound: types, nothing installed outside a finalizer, and what the       *)
(* instance controller promises, kept although the plugin controller       *)
(* writes to the instance's status.                                        *)
(***************************************************************************)
EXTENDS SonarQubePlugin, SonarQubeInstance_proofs

-----------------------------------------------------------------------------
(* The inductive invariant *)

\* A copy the controller takes for one it may install for.
Guarded(object) == object.exists /\ object.finalizer /\ ~object.deleting

DeletionSteps == {"delete-list", "delete-uninstall", "delete-signal", "release"}

\* A reconcile is about one resource, which asks for something; nothing is
\* installed from a source.
Addressed ==
    /\ pr.pc # "idle" => pr.name \in Plugins /\ pr.object.wish # None
    /\ pr.pc \in InstallSteps => pr.object.wish # FromURL

\* So does every resource there is, and every copy of one.
Wished ==
    \A p \in Plugins :
        /\ plugins[p].exists => plugins[p].wish # None
        /\ pcache[p].object.exists => pcache[p].object.wish # None

\* What it means for a copy to be of the stored version.
FreshPlugins ==
    /\ \A p \in Plugins : pcache[p].fresh => pcache[p].object = plugins[p]
    /\ pr.fresh => pr.object = plugins[pr.name]

\* A cached copy that would start an install, stale or not, is not contradicted
\* by the stored resource.
CacheTrusted ==
    \A p \in Plugins :
        cache.exists /\ Guarded(pcache[p].object) => plugins[p].exists /\ plugins[p].finalizer

\* A resource whose deletion the informer saw, and its successor, get the
\* finalizer only after the informer has moved on.
DeletionSeen ==
    \A p \in Plugins : pcache[p].object.deleting => ~Guarded(plugins[p])

\* The finalizer is added to a resource that is not being deleted, or refused.
FinalizerForLiving ==
    pr.pc = "finalizer" /\ pr.fresh
        => ~pcache[pr.name].object.deleting /\ ~plugins[pr.name].deleting

\* What is released is no longer installed for.
ReleaseIsFinal ==
    pr.pc \in DeletionSteps /\ cache.exists
        => ~Guarded(pcache[pr.name].object) /\ ~Guarded(plugins[pr.name])

\* The informer loses the instance only for good.
InstanceGone == inst.exists => cache.exists

Control ==
    /\ Addressed /\ Wished /\ FreshPlugins /\ InstallUnderFinalizer
    /\ CacheTrusted /\ DeletionSeen /\ FinalizerForLiving /\ ReleaseIsFinal

SystemInv == IInv /\ InstanceGone /\ PluginTypeOK /\ Control

-----------------------------------------------------------------------------
(* Lemmas *)

USE DEF AtStep

Budgets == [faults : Nat, lags : Nat, edits : Nat, signals : Nat]
PluginReconciles == [pc : PluginSteps, name : Plugins \cup {None}, object : PluginObject,
                     fresh : BOOLEAN, flag : BOOLEAN]
Copies == [object : PluginObject, fresh : BOOLEAN]

\* The idle reconcile and the absent resource have their types.
LEMMA AbsentType ==
    /\ Absent \in PluginObject /\ NoReconcile \in PluginReconciles
    /\ ~Absent.exists /\ ~Absent.deleting /\ ~Absent.finalizer
    /\ NoReconcile.pc = "idle" /\ NoReconcile.fresh = FALSE
<1>1. Absent \in PluginObject
  BY DEF Absent, PluginObject, PluginPhases
<1>2. NoReconcile \in PluginReconciles
  BY <1>1 DEF NoReconcile, PluginReconciles, PluginSteps
<1> QED
  BY <1>1, <1>2 DEF Absent, NoReconcile

\* Every phase that is published is a phase.
LEMMA PhaseTypes == \A step \in DOMAIN PhaseAt : PhaseAt[step] \in PluginPhases
  BY DEF PhaseAt, PluginPhases

\* What users create is a resource without a finalizer.
LEMMA CreatedType ==
    ASSUME NEW wish \in Wishes
    PROVE  /\ Created(wish) \in PluginObject /\ Created(wish).exists
           /\ ~Created(wish).finalizer /\ ~Created(wish).deleting
           /\ Created(wish).wish # None
<1>1. wish \in Versions \cup {Latest, FromURL} /\ wish # None
  BY PluginAssumption DEF Latest, FromURL, None
<1> QED
  BY <1>1, AbsentType DEF Created, PluginObject

\* Going on to another step keeps resource and flag; the end forgets them.
LEMMA ProceedWithEffect ==
    ASSUME PluginTypeOK, NEW step \in PluginSteps, NEW object \in PluginObject,
           NEW fresh \in BOOLEAN, ProceedWith(step, object, fresh)
    PROVE  /\ pr' \in PluginReconciles /\ pr'.pc = step
           /\ step = "idle" => pr'.fresh = FALSE
           /\ step # "idle" => pr'.name = pr.name /\ pr'.object = object /\ pr'.fresh = fresh
<1>1. CASE step = "idle"
  BY <1>1, AbsentType DEF ProceedWith
<1>2. CASE step # "idle"
  <2>1. pr' = [pr EXCEPT !.pc = step, !.object = object, !.fresh = fresh]
    BY <1>2 DEF ProceedWith
  <2> QED
    BY <1>2, <2>1 DEF PluginTypeOK, PluginReconciles
<1> QED
  BY <1>1, <1>2

LEMMA ProceedEffect ==
    ASSUME PluginTypeOK, NEW step \in PluginSteps, Proceed(step)
    PROVE  /\ pr' \in PluginReconciles /\ pr'.pc = step
           /\ step = "idle" => pr'.fresh = FALSE
           /\ step # "idle" => pr'.name = pr.name /\ pr'.object = pr.object /\ pr'.fresh = pr.fresh
<1>1. pr.object \in PluginObject /\ pr.fresh \in BOOLEAN
  BY DEF PluginTypeOK
<1> QED
  BY <1>1, ProceedWithEffect DEF Proceed

\* The write was accepted: the reconcile held the stored version.
Stored(new) ==
    /\ pr.fresh /\ pr.object = plugins[pr.name] /\ plugins[pr.name].exists
    /\ plugins' = [plugins EXCEPT ![pr.name] = new]

\* A versioned write of the reconcile's own resource is accepted for the stored
\* version only, and leaves the other resources alone; the reconcile goes on at
\* "then" only if it was.
LEMMA OwnWriteEffect ==
    ASSUME PluginTypeOK, Control, pr.pc # "idle", NEW new \in PluginObject,
           NEW then \in PluginSteps, NEW otherwise \in PluginSteps,
           OwnWrite(new, then, otherwise)
    PROVE  /\ NoFault \/ Fault
           /\ pr.name \in Plugins
           /\ plugins' \in [Plugins -> PluginObject] /\ pcache' \in [Plugins -> Copies]
           /\ UNCHANGED plugins \/ Stored(new)
           /\ \A p \in Plugins :
                /\ pcache'[p].object = pcache[p].object
                /\ pcache'[p].fresh => pcache[p].fresh /\ plugins'[p] = plugins[p]
           /\ pr' \in PluginReconciles /\ pr'.pc \in {then, otherwise}
           /\ pr'.pc = "idle" => pr'.fresh = FALSE
           /\ pr'.pc # "idle" =>
                /\ pr'.name = pr.name /\ pr'.object \in {pr.object, new}
                /\ pr'.fresh => pr'.object = plugins'[pr.name]
                /\ pr'.pc # otherwise => Stored(new)
<1> DEFINE same == new = plugins[pr.name]
<1>1. /\ pr.name \in Plugins /\ pr.object \in PluginObject /\ pr.fresh \in BOOLEAN
      /\ plugins \in [Plugins -> PluginObject] /\ pcache \in [Plugins -> Copies]
      /\ pr.fresh => pr.object = plugins[pr.name]
      /\ \A p \in Plugins : pcache[p].fresh => pcache[p].object = plugins[p]
  BY DEF PluginTypeOK, Control, Addressed, FreshPlugins, Copies
<1>2. CASE /\ (~Accepted /\ NoFault) \/ Fault
           /\ Proceed(otherwise)
           /\ UNCHANGED <<plugins, pcache>>
  BY <1>1, <1>2, ProceedEffect
<1>3. ASSUME Accepted,
             plugins' = [plugins EXCEPT ![pr.name] = new],
             pcache' = [pcache EXCEPT ![pr.name].fresh = @ /\ same],
             \/ NoFault /\ ProceedWith(then, new, TRUE)
             \/ Fault /\ ProceedWith(otherwise, pr.object, same)
      PROVE  /\ NoFault \/ Fault
             /\ plugins' \in [Plugins -> PluginObject] /\ pcache' \in [Plugins -> Copies]
             /\ Stored(new)
             /\ \A p \in Plugins :
                  /\ pcache'[p].object = pcache[p].object
                  /\ pcache'[p].fresh => pcache[p].fresh /\ plugins'[p] = plugins[p]
             /\ pr' \in PluginReconciles /\ pr'.pc \in {then, otherwise}
             /\ pr'.pc = "idle" => pr'.fresh = FALSE
             /\ pr'.pc # "idle" =>
                  /\ pr'.name = pr.name /\ pr'.object \in {pr.object, new}
                  /\ pr'.fresh => pr'.object = plugins'[pr.name]
  <2>1. /\ Stored(new) /\ pr.object = plugins[pr.name]
        /\ plugins'[pr.name] = new /\ plugins' \in [Plugins -> PluginObject]
    BY <1>1, <1>3 DEF Accepted, Stored
  <2>2. same \in BOOLEAN
    OBVIOUS
  <2>3. \A p \in Plugins :
          /\ pcache'[p] \in Copies
          /\ pcache'[p].object = pcache[p].object
          /\ pcache'[p].fresh => pcache[p].fresh /\ plugins'[p] = plugins[p]
    <3> TAKE p \in Plugins
    <3>1. pcache[p] \in Copies
      BY <1>1
    <3>2. CASE p = pr.name
      <4>1. pcache'[p] = [pcache[p] EXCEPT !.fresh = @ /\ same]
        BY <1>1, <1>3, <3>2
      <4>2. /\ pcache'[p] \in Copies /\ pcache'[p].object = pcache[p].object
            /\ pcache'[p].fresh = (pcache[p].fresh /\ same)
        BY <3>1, <4>1 DEF Copies
      <4>3. same => plugins'[p] = plugins[p]
        BY <2>1, <3>2
      <4> QED
        BY <4>2, <4>3
    <3>3. CASE p # pr.name
      BY <1>1, <1>3, <3>1, <3>3
    <3> QED
      BY <3>2, <3>3
  <2>4. pcache' \in [Plugins -> Copies]
    <3>1. DOMAIN pcache' = Plugins /\ pcache' = [p \in Plugins |-> pcache'[p]]
      BY <1>1, <1>3
    <3> QED
      BY <2>3, <3>1
  <2>5. CASE NoFault /\ ProceedWith(then, new, TRUE)
    BY <1>1, <2>1, <2>3, <2>4, <2>5, ProceedWithEffect
  <2>6. CASE Fault /\ ProceedWith(otherwise, pr.object, same)
    <3>1. /\ pr' \in PluginReconciles /\ pr'.pc = otherwise
          /\ otherwise = "idle" => pr'.fresh = FALSE
          /\ otherwise # "idle" =>
               pr'.name = pr.name /\ pr'.object = pr.object /\ pr'.fresh = same
      BY <1>1, <2>2, <2>6, ProceedWithEffect
    <3>2. same => pr.object = plugins'[pr.name]
      BY <2>1
    <3> QED
      BY <2>1, <2>3, <2>4, <2>6, <3>1, <3>2
  <2> QED
    BY <1>3, <2>5, <2>6
<1> QED
  BY <1>1, <1>2, <1>3 DEF OwnWrite

\* A step that leaves the resources alone and goes on with the same work, or ends.
LEMMA ControlKept ==
    ASSUME PluginTypeOK, Control, UNCHANGED <<plugins, pcache>>,
           cache'.exists => cache.exists,
           pr.pc # "idle", NEW step \in PluginSteps \ {"finalizer"}, Proceed(step),
           step \in InstallSteps => pr.pc \in InstallSteps,
           step \in DeletionSteps => pr.pc \in DeletionSteps
    PROVE  Control' /\ pr' \in PluginReconciles
<1>1. /\ pr' \in PluginReconciles /\ pr'.pc = step
      /\ step = "idle" => pr'.fresh = FALSE
      /\ step # "idle" => pr'.name = pr.name /\ pr'.object = pr.object /\ pr'.fresh = pr.fresh
  BY ProceedEffect
<1>2. Addressed' /\ Wished' /\ FreshPlugins' /\ InstallUnderFinalizer'
  BY <1>1 DEF Control, Addressed, Wished, FreshPlugins, InstallUnderFinalizer, InstallSteps
<1>3. CacheTrusted' /\ DeletionSeen' /\ FinalizerForLiving' /\ ReleaseIsFinal'
  BY <1>1
  DEF Control, CacheTrusted, DeletionSeen, FinalizerForLiving, ReleaseIsFinal, DeletionSteps,
      Guarded
<1> QED
  BY <1>1, <1>2, <1>3 DEF Control

\* A step that leaves the resources and the reconcile alone.
LEMMA ControlStays ==
    ASSUME Control, UNCHANGED <<plugins, pcache, pr>>, cache'.exists => cache.exists
    PROVE  Control'
  BY DEF Control, Addressed, Wished, FreshPlugins, InstallUnderFinalizer, CacheTrusted,
         DeletionSeen, FinalizerForLiving, ReleaseIsFinal, Guarded

\* What the plugin controller does to the budget.
LEMMA PluginBudget ==
    ASSUME SystemInv, NoFault \/ Fault \/ Spend("lags") \/ Spend("edits")
    PROVE  budget' \in Budgets
  BY BudgetType DEF SystemInv, IInv, Budgets

\* A step of the plugin controller and its surroundings that leaves the instance
\* alone.
LEMMA InstanceStays ==
    ASSUME SystemInv, UNCHANGED <<k8sVars, ir, sonarVars>>, budget' \in Budgets
    PROVE  IInv' /\ InstanceGone' /\ (cache'.exists => cache.exists)
  BY ElsewhereInv DEF SystemInv, InstanceGone, k8sVars, Budgets

-----------------------------------------------------------------------------
(* One lemma per step of the reconcile: it preserves the invariant *)

LEMMA PluginStartInv ==
    ASSUME SystemInv, NEW p \in Plugins, PluginStart(p)
    PROVE  SystemInv'
<1> USE DEF SystemInv
<1> DEFINE object == pcache[p].object
<1>1. /\ UNCHANGED <<k8sVars, ir, sonarVars, plugins, pcache, marketVars>>
      /\ NoFault \/ Spend("lags")
      /\ object.exists /\ Route(object) # "idle"
      /\ pr' = [pc |-> Route(object), name |-> p, object |-> object,
                fresh |-> pcache[p].fresh, flag |-> cache.status.restart]
  BY DEF PluginStart
<1>2. /\ pcache[p] \in Copies /\ object \in PluginObject
      /\ cache.status.restart \in BOOLEAN /\ cache.exists \in BOOLEAN
  BY DEF PluginTypeOK, Copies, IInv, TypeOK, InstanceStatus
<1>3. /\ Route(object) \in PluginSteps
      /\ Route(object) \in InstallSteps =>
           Guarded(object) /\ cache.exists /\ object.wish # FromURL
      /\ Route(object) = "finalizer" => ~object.deleting
      /\ Route(object) \in DeletionSteps => ~cache.exists \/ object.deleting
  BY <1>1, <1>2
  DEF Route, PluginSteps, InstallSteps, DeletionSteps, Guarded, PluginObject
<1>4. /\ pr' \in PluginReconciles
      /\ pr'.pc = Route(object) /\ pr'.name = p /\ pr'.object = object
      /\ pr'.fresh = pcache[p].fresh
  BY <1>1, <1>2, <1>3 DEF PluginReconciles, Copies
<1> HIDE DEF object
<1>5. budget' \in Budgets
  BY <1>1, PluginBudget
<1>6. IInv' /\ InstanceGone' /\ (cache'.exists => cache.exists)
  BY <1>1, <1>5, InstanceStays
<1>7. PluginTypeOK'
  BY <1>1, <1>4 DEF PluginTypeOK, PluginReconciles, marketVars
<1>8. Addressed' /\ Wished' /\ FreshPlugins'
  <2>1. object.wish # None
    BY <1>1 DEF Control, Wished, object
  <2> QED
    BY <1>1, <1>3, <1>4, <2>1 DEF Control, Addressed, Wished, FreshPlugins, object
<1>9. InstallUnderFinalizer' /\ FinalizerForLiving' /\ ReleaseIsFinal'
  <2>1. cache.exists /\ Guarded(object) => plugins[p].exists /\ plugins[p].finalizer
    BY DEF Control, CacheTrusted, object
  <2>2. object.deleting => ~Guarded(plugins[p])
    BY DEF Control, DeletionSeen, object
  <2>3. pcache[p].fresh => object = plugins[p]
    BY DEF Control, FreshPlugins, object
  <2>4. /\ pr'.name = p /\ plugins' = plugins /\ pcache'[p].object = object
        /\ cache' = cache
    BY <1>1, <1>4 DEF k8sVars, object
  <2>5. InstallUnderFinalizer'
    BY <1>3, <1>4, <2>1, <2>4 DEF InstallUnderFinalizer
  <2>6. FinalizerForLiving'
    BY <1>3, <1>4, <2>3, <2>4 DEF FinalizerForLiving
  <2>7. ReleaseIsFinal'
    BY <1>3, <1>4, <2>2, <2>4 DEF ReleaseIsFinal, Guarded
  <2> QED
    BY <2>5, <2>6, <2>7
<1>10. CacheTrusted' /\ DeletionSeen'
  BY <1>1 DEF Control, CacheTrusted, DeletionSeen, Guarded, k8sVars
<1> QED
  BY <1>6, <1>7, <1>8, <1>9, <1>10 DEF Control

\* The plugin calls stage a version, or none, for the key of the resource.
LEMMA StageCallEffect ==
    ASSUME SystemInv, pr.pc # "idle", NEW accepted, NEW version \in Versions \cup {None},
           NEW done, NEW refused, NEW error, StageCall(accepted, version, done, refused, error)
    PROVE  /\ Proceed(done) \/ Proceed(refused) \/ Proceed(error)
           /\ NoFault \/ Fault
           /\ staged' \in [Keys -> Versions \cup {None}]
<1>1. pr.name \in Plugins /\ Key \in Keys
  BY PluginAssumption DEF SystemInv, Control, Addressed, Key
<1>2. staged \in [Keys -> Versions \cup {None}]
  BY DEF SystemInv, PluginTypeOK
<1>3. Proceed(done) \/ Proceed(refused) \/ Proceed(error)
  BY DEF StageCall
<1>4. NoFault \/ Fault
  BY DEF StageCall, CallFails
<1>5. staged' = staged \/ staged' = [staged EXCEPT ![Key] = version]
  BY DEF StageCall
<1> QED
  BY <1>1, <1>2, <1>3, <1>4, <1>5

\* Calls of SonarQube: they go on with the same work, or end it.
LEMMA CallsInv ==
    ASSUME SystemInv,
           \/ ListPlugins \/ Uninstall \/ Install \/ AcknowledgeRisk
           \/ DeletionList \/ DeletionUninstall
    PROVE  SystemInv'
<1> USE DEF SystemInv
<1>1. /\ UNCHANGED <<k8sVars, ir, sonarVars, plugins, pcache, active, shipped>>
      /\ pr.pc # "idle"
  BY DEF ListPlugins, Uninstall, Install, AcknowledgeRisk, DeletionList, DeletionUninstall,
         marketVars
<1> DEFINE May(step) ==
      /\ step \in PluginSteps \ {"finalizer"}
      /\ step \in InstallSteps => pr.pc \in InstallSteps
      /\ step \in DeletionSteps => pr.pc \in DeletionSteps
<1>2. /\ NoFault \/ Fault
      /\ staged' \in [Keys -> Versions \cup {None}] /\ riskAccepted' \in BOOLEAN
      /\ \E step : May(step) /\ Proceed(step)
  <2>1. CASE ListPlugins
    <3>1. Compared \in {"installing", "uninstall", "verified"}
      BY DEF Compared
    <3>2. \A step \in {"installing", "uninstall", "verified", "idle"} : May(step)
      BY <2>1 DEF ListPlugins, PluginSteps, InstallSteps, DeletionSteps
    <3>3. Proceed(Compared) \/ Proceed("idle")
      BY <2>1 DEF ListPlugins
    <3>4. UNCHANGED <<staged, riskAccepted>> /\ (NoFault \/ Fault)
      BY <2>1 DEF ListPlugins, CallFails, marketVars
    <3> QED
      BY <3>1, <3>2, <3>3, <3>4 DEF PluginTypeOK
  <2>2. CASE Uninstall
    <3>1. \A step \in {"installing", "idle"} : May(step)
      BY <2>2 DEF Uninstall, PluginSteps, InstallSteps, DeletionSteps
    <3> QED
      BY <1>1, <2>2, <3>1, StageCallEffect DEF Uninstall, PluginTypeOK
  <2>3. CASE Install
    <3>1. \A step \in {"signal", "installed", "consent", "failed"} : May(step)
      BY <2>3 DEF Install, PluginSteps, InstallSteps, DeletionSteps
    <3>2. pr.object.wish \in Versions \cup {Latest}
      <4>1. pr.pc \in InstallSteps
        BY <2>3 DEF Install, InstallSteps
      <4>2. pr.object.wish \in Versions \cup {Latest, FromURL, None}
        BY DEF PluginTypeOK, PluginObject
      <4> QED
        BY <1>1, <4>1, <4>2 DEF Control, Addressed
    <3>3. PICK v \in IF pr.object.wish = Latest THEN Versions ELSE {pr.object.wish} :
            StageCall(riskAccepted, v, IF SignalNeeded THEN "signal" ELSE "installed",
                      IF AtStep("install") THEN "consent" ELSE "failed", "failed")
      BY <2>3 DEF Install
    <3>4. v \in Versions \cup {None}
      BY <3>2, <3>3
    <3>5. /\ \/ Proceed(IF SignalNeeded THEN "signal" ELSE "installed")
             \/ Proceed(IF AtStep("install") THEN "consent" ELSE "failed")
             \/ Proceed("failed")
          /\ NoFault \/ Fault
          /\ staged' \in [Keys -> Versions \cup {None}]
      BY <1>1, <3>3, <3>4, StageCallEffect
    <3>6. \/ Proceed("signal") \/ Proceed("installed") \/ Proceed("consent")
          \/ Proceed("failed")
      BY <3>5
    <3>7. UNCHANGED riskAccepted
      BY <2>3 DEF Install
    <3> QED
      BY <3>1, <3>5, <3>6, <3>7 DEF PluginTypeOK
  <2>4. CASE AcknowledgeRisk
    <3>1. \A step \in {"reinstall", "failed"} : May(step)
      BY <2>4 DEF AcknowledgeRisk, PluginSteps, InstallSteps, DeletionSteps
    <3>2. Proceed("reinstall") \/ Proceed("failed")
      BY <2>4 DEF AcknowledgeRisk
    <3>3. UNCHANGED staged /\ (NoFault \/ Fault)
      BY <2>4 DEF AcknowledgeRisk, CallFails
    <3>4. riskAccepted' = TRUE \/ UNCHANGED riskAccepted
      BY <2>4 DEF AcknowledgeRisk
    <3> QED
      BY <3>1, <3>2, <3>3, <3>4 DEF PluginTypeOK
  <2>5. CASE DeletionList
    <3>1. \A step \in {"release", "delete-uninstall", "idle"} : May(step)
      BY <2>5 DEF DeletionList, PluginSteps, InstallSteps, DeletionSteps
    <3>2. Proceed("release") \/ Proceed("delete-uninstall") \/ Proceed("idle")
      BY <2>5 DEF DeletionList
    <3>3. UNCHANGED <<staged, riskAccepted>> /\ (NoFault \/ Fault)
      BY <2>5 DEF DeletionList, CallFails, marketVars
    <3> QED
      BY <3>1, <3>2, <3>3 DEF PluginTypeOK
  <2>6. CASE DeletionUninstall
    <3>1. \A step \in {"delete-signal", "release", "idle"} : May(step)
      BY <2>6 DEF DeletionUninstall, PluginSteps, InstallSteps, DeletionSteps
    <3>2. /\ Proceed(IF SignalNeeded THEN "delete-signal" ELSE "release") \/ Proceed("idle")
          /\ NoFault \/ Fault
          /\ staged' \in [Keys -> Versions \cup {None}]
      BY <1>1, <2>6, StageCallEffect DEF DeletionUninstall
    <3>3. UNCHANGED riskAccepted
      BY <2>6 DEF DeletionUninstall
    <3> QED
      BY <3>1, <3>2, <3>3 DEF PluginTypeOK
  <2> QED
    BY <2>1, <2>2, <2>3, <2>4, <2>5, <2>6
<1>3. budget' \in Budgets
  BY <1>2, PluginBudget
<1>4. IInv' /\ InstanceGone' /\ (cache'.exists => cache.exists)
  BY <1>1, <1>3, InstanceStays
<1>5. Control' /\ pr' \in PluginReconciles
  <2>1. PICK step : May(step) /\ Proceed(step)
    BY <1>2
  <2> QED
    BY <1>1, <1>4, <2>1, ControlKept
<1>6. PluginTypeOK'
  BY <1>1, <1>2, <1>5 DEF PluginTypeOK, PluginReconciles
<1> QED
  BY <1>4, <1>5, <1>6

\* The patch of the flag changes the instance; whether it is carried out or not,
\* the reconcile goes on.
LEMMA SignalRestartInv ==
    ASSUME SystemInv, SignalRestart
    PROVE  SystemInv'
<1> USE DEF SystemInv
<1>1. /\ UNCHANGED <<deployed, adminSecret, tokenSecret, tokenCached, sonarVars,
                     plugins, pcache, marketVars>>
      /\ pr.pc \in {"signal", "delete-signal"}
      /\ Proceed(IF AtStep("signal") THEN "installed" ELSE "release")
      /\ NoFault \/ Fault
      /\ SetRestartRequired \/ UNCHANGED <<inst, cache, ir>>
  BY DEF SignalRestart
<1>2. budget' \in Budgets
  BY <1>1, PluginBudget
<1>3. IInv' /\ InstanceGone' /\ (cache'.exists => cache.exists)
  <2>1. CASE SetRestartRequired
    <3>1. inst'.exists = inst.exists /\ cache'.exists = cache.exists
      BY <2>1 DEF SetRestartRequired, WriteInstance, IInv, TypeOK
    <3> QED
      BY <1>1, <1>2, <2>1, <3>1, SetRestartInv DEF InstanceGone, Budgets
  <2>2. CASE UNCHANGED <<inst, cache, ir>>
    BY <1>1, <1>2, <2>2, InstanceStays DEF k8sVars
  <2> QED
    BY <1>1, <2>1, <2>2
<1>4. Control' /\ pr' \in PluginReconciles
  <2>1. CASE pr.pc = "signal"
    <3>1. Proceed("installed") /\ "signal" \in InstallSteps
      BY <1>1, <2>1 DEF InstallSteps
    <3> QED
      BY <1>1, <1>3, <2>1, <3>1, ControlKept DEF PluginSteps, DeletionSteps
  <2>2. CASE pr.pc = "delete-signal"
    <3>1. Proceed("release") /\ "delete-signal" \in DeletionSteps
      BY <1>1, <2>2 DEF DeletionSteps
    <3> QED
      BY <1>1, <1>3, <2>2, <3>1, ControlKept DEF PluginSteps, InstallSteps
  <2> QED
    BY <1>1, <2>1, <2>2
<1>5. PluginTypeOK'
  BY <1>1, <1>4 DEF PluginTypeOK, PluginReconciles, marketVars
<1> QED
  BY <1>3, <1>4, <1>5

\* What the three versioned writes have in common.
LEMMA OwnWriteInv ==
    ASSUME SystemInv, UNCHANGED <<k8sVars, ir, sonarVars, marketVars>>,
           pr.pc # "idle", NEW new \in PluginObject,
           NEW then \in PluginSteps \ {"finalizer"}, NEW otherwise \in PluginSteps \ {"finalizer"},
           OwnWrite(new, then, otherwise),
           then \notin DeletionSteps, otherwise \notin DeletionSteps,
           then # "idle" => new.wish = pr.object.wish,
           otherwise # "idle" => new.wish = pr.object.wish,
           then \in InstallSteps => new.wish # FromURL,
           otherwise \in InstallSteps => pr.pc \in InstallSteps,
           new.exists => new.wish # None,
           \* the write, if it is accepted
           pr.fresh /\ pr.object = plugins[pr.name] /\ plugins[pr.name].exists =>
             /\ Guarded(new) => ~pcache[pr.name].object.deleting
             /\ \/ new.exists /\ new.finalizer
                \/ /\ pr.pc \notin InstallSteps /\ then \notin InstallSteps
                   /\ cache.exists => ~Guarded(pcache[pr.name].object)
    PROVE  SystemInv'
<1> USE DEF SystemInv
<1>1. /\ NoFault \/ Fault
      /\ pr.name \in Plugins
      /\ plugins' \in [Plugins -> PluginObject] /\ pcache' \in [Plugins -> Copies]
      /\ UNCHANGED plugins \/ Stored(new)
      /\ \A p \in Plugins :
           /\ pcache'[p].object = pcache[p].object
           /\ pcache'[p].fresh => pcache[p].fresh /\ plugins'[p] = plugins[p]
      /\ pr' \in PluginReconciles /\ pr'.pc \in {then, otherwise}
      /\ pr'.pc = "idle" => pr'.fresh = FALSE
      /\ pr'.pc # "idle" =>
           /\ pr'.name = pr.name /\ pr'.object \in {pr.object, new}
           /\ pr'.fresh => pr'.object = plugins'[pr.name]
           /\ pr'.pc # otherwise => Stored(new)
  BY OwnWriteEffect
<1>2. budget' \in Budgets
  BY <1>1, PluginBudget
<1>3. IInv' /\ InstanceGone' /\ cache' = cache
  BY <1>2, InstanceStays DEF k8sVars
<1>4. PluginTypeOK'
  BY <1>1 DEF PluginTypeOK, PluginReconciles, Copies, marketVars
<1>5. \A p \in Plugins :
        \/ plugins'[p] = plugins[p]
        \/ p = pr.name /\ plugins'[p] = new /\ Stored(new)
  BY <1>1 DEF PluginTypeOK, Stored
<1>6. Addressed'
  <2>1. pr'.pc # "idle" => pr'.name = pr.name /\ pr'.object.wish = pr.object.wish
    BY <1>1
  <2>2. ASSUME pr'.pc \in InstallSteps
        PROVE  pr.object.wish # FromURL
    <3>0. "idle" \notin InstallSteps
      BY DEF InstallSteps
    <3>1. CASE pr'.pc = otherwise
      BY <2>2, <3>1 DEF Control, Addressed
    <3>2. CASE pr'.pc = then
      BY <2>2, <3>0, <3>2
    <3> QED
      BY <1>1, <3>1, <3>2
  <2>3. "idle" \notin InstallSteps
    BY DEF InstallSteps
  <2> QED
    BY <1>1, <2>1, <2>2, <2>3 DEF Control, Addressed
<1>7. Wished'
  BY <1>1, <1>5 DEF Control, Wished
<1>8. FreshPlugins'
  BY <1>1 DEF Control, FreshPlugins
<1>9. InstallUnderFinalizer'
  <2> SUFFICES ASSUME pr'.pc \in InstallSteps
               PROVE  plugins'[pr'.name].exists /\ plugins'[pr'.name].finalizer
    BY DEF InstallUnderFinalizer
  <2>1. pr'.name = pr.name
    BY <1>1 DEF InstallSteps
  <2>2. CASE plugins'[pr.name] = plugins[pr.name] /\ pr.pc \in InstallSteps
    BY <2>1, <2>2 DEF Control, InstallUnderFinalizer
  <2>3. CASE plugins'[pr.name] = new /\ Stored(new)
    <3>1. pr.pc \in InstallSteps \/ then \in InstallSteps
      BY <1>1
    <3> QED
      BY <2>1, <2>3, <3>1 DEF Stored
  <2>4. CASE plugins'[pr.name] = plugins[pr.name] /\ pr.pc \notin InstallSteps
    <3>1. pr'.pc # otherwise /\ pr'.pc # "idle"
      BY <2>4 DEF InstallSteps
    <3>2. Stored(new) /\ plugins'[pr.name] = new
      BY <1>1, <3>1 DEF Stored, PluginTypeOK
    <3> QED
      BY <2>3, <3>2
  <2> QED
    BY <1>1, <1>5, <2>2, <2>3, <2>4
<1>10. CacheTrusted' /\ DeletionSeen'
  BY <1>1, <1>3, <1>5 DEF Control, CacheTrusted, DeletionSeen, Stored
<1>11. FinalizerForLiving' /\ ReleaseIsFinal'
  BY <1>1 DEF FinalizerForLiving, ReleaseIsFinal
<1> QED
  BY <1>3, <1>4, <1>6, <1>7, <1>8, <1>9, <1>10, <1>11 DEF Control

LEMMA AddFinalizerInv ==
    ASSUME SystemInv, AddFinalizer
    PROVE  SystemInv'
<1> USE DEF SystemInv
<1> DEFINE new == [pr.object EXCEPT !.finalizer = TRUE]
           then == IF pr.object.wish = FromURL THEN "rejected" ELSE "list"
<1>1. /\ pr.pc = "finalizer" /\ OwnWrite(new, then, "idle")
      /\ UNCHANGED <<k8sVars, ir, sonarVars, marketVars>>
  BY DEF AddFinalizer
<1>2. /\ new \in PluginObject /\ new.finalizer = TRUE /\ new.exists = pr.object.exists
      /\ new.deleting = pr.object.deleting /\ new.wish = pr.object.wish
  BY DEF PluginTypeOK, PluginObject
<1>3. pr.object.wish # None
  BY <1>1 DEF Control, Addressed
<1>4. pr.fresh => ~pcache[pr.name].object.deleting
  BY <1>1 DEF Control, FinalizerForLiving
<1>5. /\ then \in PluginSteps \ {"finalizer"} /\ then \notin DeletionSteps
      /\ "idle" \in PluginSteps \ {"finalizer"} /\ "idle" \notin DeletionSteps
      /\ then \in InstallSteps => pr.object.wish # FromURL
      /\ "idle" \notin InstallSteps
  BY DEF PluginSteps, DeletionSteps, InstallSteps
<1> HIDE DEF new, then
<1> QED
  BY <1>1, <1>2, <1>3, <1>4, <1>5, OwnWriteInv

LEMMA PublishPhaseInv ==
    ASSUME SystemInv, PublishPhase
    PROVE  SystemInv'
<1> USE DEF SystemInv
<1> DEFINE new == [pr.object EXCEPT !.phase = PhaseAt[pr.pc]]
           next == IF AtStep("installing") THEN "install" ELSE "idle"
<1>1. /\ pr.pc \in DOMAIN PhaseAt /\ OwnWrite(new, next, next)
      /\ UNCHANGED <<k8sVars, ir, sonarVars, marketVars>>
  BY DEF PublishPhase
<1>2. /\ new \in PluginObject /\ new.finalizer = pr.object.finalizer
      /\ new.exists = pr.object.exists
      /\ new.deleting = pr.object.deleting /\ new.wish = pr.object.wish
  <2>1. PhaseAt[pr.pc] \in PluginPhases
    BY <1>1, PhaseTypes
  <2> QED
    BY <2>1 DEF PluginTypeOK, PluginObject
<1>3. pr.pc # "idle"
  BY <1>1 DEF PhaseAt
<1>4. pr.object.wish # None /\ pr.name \in Plugins
  BY <1>3 DEF Control, Addressed
<1>5. /\ next \in PluginSteps \ {"finalizer"} /\ next \notin DeletionSteps
      /\ next \in InstallSteps => pr.pc \in InstallSteps
  BY DEF PluginSteps, DeletionSteps, InstallSteps
<1>6. next \in InstallSteps => pr.object.wish # FromURL
  BY <1>5 DEF Control, Addressed
<1>7. ASSUME pr.object = plugins[pr.name], plugins[pr.name].exists
      PROVE  /\ Guarded(new) => ~pcache[pr.name].object.deleting
             /\ \/ new.exists /\ new.finalizer
                \/ /\ pr.pc \notin InstallSteps /\ next \notin InstallSteps
                   /\ cache.exists => ~Guarded(pcache[pr.name].object)
  <2>1. Guarded(new) => ~pcache[pr.name].object.deleting
    BY <1>2, <1>4, <1>7 DEF Control, DeletionSeen, Guarded
  <2>2. CASE pr.object.finalizer
    BY <1>2, <1>7, <2>1, <2>2
  <2>3. CASE ~pr.object.finalizer
    <3>1. pr.pc \notin InstallSteps
      BY <1>7, <2>3 DEF Control, InstallUnderFinalizer
    <3>2. cache.exists => ~Guarded(pcache[pr.name].object)
      BY <1>4, <1>7, <2>3 DEF Control, CacheTrusted
    <3> QED
      BY <1>5, <2>1, <3>1, <3>2
  <2> QED
    BY <2>2, <2>3
<1> HIDE DEF new, next
<1> QED
  BY <1>1, <1>2, <1>3, <1>4, <1>5, <1>6, <1>7, OwnWriteInv

LEMMA ReleaseFinalizerInv ==
    ASSUME SystemInv, ReleaseFinalizer
    PROVE  SystemInv'
<1> USE DEF SystemInv
<1> DEFINE new == IF pr.object.deleting THEN Absent ELSE [pr.object EXCEPT !.finalizer = FALSE]
<1>1. /\ pr.pc = "release" /\ OwnWrite(new, "idle", "idle")
      /\ UNCHANGED <<k8sVars, ir, sonarVars, marketVars>>
  BY DEF ReleaseFinalizer
<1>2. pr.object.wish # None
  BY <1>1 DEF Control, Addressed
<1>3. /\ new \in PluginObject /\ new.finalizer = FALSE
      /\ new.exists => new.wish # None
  <2>1. CASE pr.object.deleting
    BY <2>1, AbsentType DEF PluginObject
  <2>2. CASE ~pr.object.deleting
    BY <1>2, <2>2 DEF PluginTypeOK, PluginObject
  <2> QED
    BY <2>1, <2>2
<1>4. /\ "idle" \in PluginSteps \ {"finalizer"} /\ "idle" \notin DeletionSteps
      /\ "idle" \notin InstallSteps /\ pr.pc \notin InstallSteps
  BY <1>1 DEF PluginSteps, DeletionSteps, InstallSteps
<1>5. cache.exists => ~Guarded(pcache[pr.name].object)
  BY <1>1 DEF Control, ReleaseIsFinal, DeletionSteps
<1>6. ~Guarded(new)
  BY <1>3 DEF Guarded
<1> HIDE DEF new
<1> QED
  BY <1>1, <1>3, <1>4, <1>5, <1>6, OwnWriteInv

LEMMA PluginStepInv ==
    ASSUME SystemInv, PluginStep
    PROVE  SystemInv'
  BY CallsInv, SignalRestartInv, AddFinalizerInv, PublishPhaseInv, ReleaseFinalizerInv
  DEF PluginStep

-----------------------------------------------------------------------------
(* Users, informers and the instance *)

\* A write by a user takes no finalizer away, and gives none.
LEMMA WritePluginInv ==
    ASSUME SystemInv, NEW p \in Plugins, NEW new \in PluginObject,
           UNCHANGED <<k8sVars, ir, sonarVars, marketVars>>, Spend("edits"),
           WritePlugin(p, new),
           new.exists => new.wish # None,
           plugins[p].exists /\ plugins[p].finalizer => new.exists /\ new.finalizer,
           Guarded(new) => Guarded(plugins[p])
    PROVE  SystemInv'
<1> USE DEF SystemInv
<1> DEFINE same == new = plugins[p]
<1>1. /\ plugins \in [Plugins -> PluginObject] /\ pcache \in [Plugins -> Copies]
      /\ pr \in PluginReconciles
  BY DEF PluginTypeOK, Copies, PluginReconciles
<1>2. /\ plugins' = [plugins EXCEPT ![p] = new]
      /\ pcache' = [pcache EXCEPT ![p].fresh = @ /\ same]
      /\ pr' = [pr EXCEPT !.fresh = @ /\ (same \/ pr.name # p)]
  BY DEF WritePlugin
<1>3. /\ plugins' \in [Plugins -> PluginObject] /\ plugins'[p] = new
      /\ \A q \in Plugins : q # p => plugins'[q] = plugins[q]
  BY <1>1, <1>2
<1>4. \A q \in Plugins :
        /\ pcache'[q] \in Copies
        /\ pcache'[q].object = pcache[q].object
        /\ pcache'[q].fresh => pcache[q].fresh /\ plugins'[q] = plugins[q]
  <2> TAKE q \in Plugins
  <2>1. pcache[q] \in Copies
    BY <1>1
  <2>2. CASE q = p
    <3>1. pcache'[q] = [pcache[q] EXCEPT !.fresh = @ /\ same]
      BY <1>1, <1>2, <2>2
    <3>2. /\ pcache'[q] \in Copies /\ pcache'[q].object = pcache[q].object
          /\ pcache'[q].fresh = (pcache[q].fresh /\ same)
      BY <2>1, <3>1 DEF Copies
    <3> QED
      BY <1>3, <2>2, <3>2
  <2>3. CASE q # p
    BY <1>1, <1>2, <1>3, <2>1, <2>3
  <2> QED
    BY <2>2, <2>3
<1>5. pcache' \in [Plugins -> Copies]
  <2>1. pcache' = [q \in Plugins |-> pcache'[q]]
    BY <1>1, <1>2
  <2> QED
    BY <1>4, <2>1
<1>6. /\ pr' \in PluginReconciles
      /\ pr'.pc = pr.pc /\ pr'.name = pr.name /\ pr'.object = pr.object
      /\ pr'.fresh => pr.fresh /\ (same \/ pr.name # p)
  BY <1>1, <1>2 DEF PluginReconciles
<1>7. budget' \in Budgets
  BY PluginBudget
<1>8. IInv' /\ InstanceGone' /\ cache' = cache
  BY <1>7, InstanceStays DEF k8sVars
<1>9. PluginTypeOK'
  BY <1>3, <1>5, <1>6 DEF PluginTypeOK, Copies, PluginReconciles, marketVars
<1>10. pr.pc # "idle" => pr.name \in Plugins
  BY DEF Control, Addressed
<1>11. Addressed' /\ Wished'
  BY <1>3, <1>4, <1>6 DEF Control, Addressed, Wished
<1>12. FreshPlugins'
  <2>1. \A q \in Plugins : pcache'[q].fresh => pcache'[q].object = plugins'[q]
    BY <1>4 DEF Control, FreshPlugins
  <2>2. pr'.fresh => plugins'[pr.name] = plugins[pr.name]
    BY <1>1, <1>2, <1>6
  <2> QED
    BY <1>6, <2>1, <2>2 DEF Control, FreshPlugins
<1>13. InstallUnderFinalizer'
  <2>1. \A q \in Plugins :
          plugins[q].exists /\ plugins[q].finalizer => plugins'[q].exists /\ plugins'[q].finalizer
    BY <1>3
  <2> QED
    BY <1>6, <1>10, <2>1 DEF Control, InstallUnderFinalizer, InstallSteps
<1>14. \A q \in Plugins : Guarded(plugins'[q]) => Guarded(plugins[q])
  BY <1>3
<1>15. CacheTrusted' /\ DeletionSeen'
  <2>1. CacheTrusted'
    BY <1>3, <1>4, <1>8 DEF Control, CacheTrusted
  <2>2. DeletionSeen'
    BY <1>4, <1>14 DEF Control, DeletionSeen
  <2> QED
    BY <2>1, <2>2
<1>16. FinalizerForLiving'
  <2>1. pr'.fresh => plugins'[pr.name] = plugins[pr.name]
    BY <1>1, <1>2, <1>6
  <2> QED
    BY <1>4, <1>6, <1>10, <2>1 DEF Control, FinalizerForLiving
<1>17. ReleaseIsFinal'
  BY <1>4, <1>6, <1>8, <1>10, <1>14 DEF Control, ReleaseIsFinal, DeletionSteps
<1> QED
  BY <1>8, <1>9, <1>11, <1>12, <1>13, <1>15, <1>16, <1>17 DEF Control

LEMMA UserStepInv ==
    ASSUME SystemInv, NEW p \in Plugins, UserStep(p)
    PROVE  SystemInv'
<1> USE DEF SystemInv
<1>1. /\ plugins[p] \in PluginObject
      /\ plugins[p].exists => plugins[p].wish # None
      /\ UNCHANGED <<k8sVars, ir, sonarVars, marketVars>> /\ Spend("edits")
  BY DEF PluginTypeOK, Control, Wished, UserStep, CreatePlugin, EditPlugin, DeletePlugin
<1>2. CASE CreatePlugin(p)
  <2>1. PICK wish \in Wishes : WritePlugin(p, Created(wish))
    BY <1>2 DEF CreatePlugin
  <2>2. ~plugins[p].exists /\ ~Guarded(Created(wish))
    BY <1>2, CreatedType DEF CreatePlugin, Guarded
  <2> QED
    BY <1>1, <2>1, <2>2, CreatedType, WritePluginInv
<1>3. CASE EditPlugin(p)
  <2>1. PICK wish \in Wishes : WritePlugin(p, [plugins[p] EXCEPT !.wish = wish])
    BY <1>3 DEF EditPlugin
  <2> DEFINE new == [plugins[p] EXCEPT !.wish = wish]
  <2>2. wish \in Versions \cup {Latest, FromURL} /\ wish # None
    BY PluginAssumption DEF Latest, FromURL, None
  <2>3. /\ new \in PluginObject /\ new.wish # None
        /\ new.exists = plugins[p].exists /\ new.finalizer = plugins[p].finalizer
        /\ new.deleting = plugins[p].deleting
    BY <1>1, <2>2 DEF PluginObject
  <2>4. WritePlugin(p, new)
    BY <2>1
  <2> HIDE DEF new
  <2> QED
    BY <1>1, <2>3, <2>4, WritePluginInv DEF Guarded
<1>4. CASE DeletePlugin(p) /\ plugins[p].finalizer
  <2> DEFINE new == [plugins[p] EXCEPT !.deleting = TRUE]
  <2>1. WritePlugin(p, new)
    BY <1>4 DEF DeletePlugin
  <2>2. /\ new \in PluginObject /\ new.wish = plugins[p].wish /\ new.deleting = TRUE
        /\ new.exists = plugins[p].exists /\ new.finalizer = plugins[p].finalizer
    BY <1>1 DEF PluginObject
  <2> HIDE DEF new
  <2> QED
    BY <1>1, <2>1, <2>2, WritePluginInv DEF Guarded
<1>5. CASE DeletePlugin(p) /\ ~plugins[p].finalizer
  <2>1. WritePlugin(p, Absent)
    BY <1>5 DEF DeletePlugin
  <2> QED
    BY <1>1, <1>5, <2>1, AbsentType, WritePluginInv DEF Guarded
<1> QED
  BY <1>2, <1>3, <1>4, <1>5 DEF UserStep

\* The informer catches up.
LEMMA SyncPluginInv ==
    ASSUME SystemInv, NEW p \in Plugins, SyncPlugin(p)
    PROVE  SystemInv'
<1> USE DEF SystemInv
<1>1. /\ UNCHANGED <<vars, plugins, pr, marketVars>>
      /\ pcache' = [pcache EXCEPT ![p] = [object |-> plugins[p], fresh |-> TRUE]]
  BY DEF SyncPlugin
<1>2. IInv' /\ InstanceGone' /\ cache' = cache
  <2>1. budget' \in Budgets /\ UNCHANGED <<k8sVars, ir, sonarVars>>
    BY <1>1 DEF vars, IInv, TypeOK, Budgets
  <2> QED
    BY <2>1, InstanceStays DEF k8sVars
<1>3. plugins \in [Plugins -> PluginObject] /\ pcache \in [Plugins -> Copies]
  BY DEF PluginTypeOK, Copies
<1>4. pcache' \in [Plugins -> Copies]
  BY <1>1, <1>3 DEF Copies
<1>5. \A q \in Plugins :
        \/ pcache'[q] = pcache[q]
        \/ pcache'[q].object = plugins[q] /\ q = p
  BY <1>1, <1>3
<1>6. PluginTypeOK'
  BY <1>1, <1>4 DEF PluginTypeOK, Copies, marketVars
<1>7. pr.pc # "idle" => pr.name \in Plugins
  BY DEF Control, Addressed
<1>8. Addressed' /\ Wished' /\ FreshPlugins' /\ InstallUnderFinalizer'
  BY <1>1, <1>5 DEF Control, Addressed, Wished, FreshPlugins, InstallUnderFinalizer
<1>9. CacheTrusted' /\ DeletionSeen'
  BY <1>1, <1>2, <1>5 DEF Control, CacheTrusted, DeletionSeen, Guarded
<1>10. FinalizerForLiving' /\ ReleaseIsFinal'
  BY <1>1, <1>2, <1>5, <1>7 DEF Control, FinalizerForLiving, ReleaseIsFinal, DeletionSteps
<1> QED
  BY <1>2, <1>6, <1>8, <1>9, <1>10 DEF Control

\* The instance controller and its surroundings keep their own invariant, and the
\* informer does not find an instance it had lost.
LEMMA InstanceSide ==
    ASSUME SystemInv,
           \/ Reconcile \/ SyncInstance \/ SyncSecret \/ Boot \/ ServerUp \/ PodCrash
           \/ DeleteInstance \/ ManagerRestart
    PROVE  IInv' /\ InstanceGone' /\ (cache'.exists => cache.exists)
<1> USE DEF SystemInv
<1>1. IInv'
  BY ReconcileStartInv, CheckHealthInv, ValidateAuthInv, ChangeAdminPasswordInv,
     GenerateTokenInv, StoreTokenInv, RestartServerInv, UpdateStatusInv, SyncInv,
     ServerInv, DeleteInstanceInv, ManagerRestartInv DEF Reconcile
<1>2. CASE SyncInstance \/ ManagerRestart
  <2>1. inst' = inst /\ cache'.exists = inst.exists
    BY <1>2 DEF SyncInstance, ManagerRestart
  <2> QED
    BY <1>1, <2>1 DEF InstanceGone
<1>3. CASE DeleteInstance
  <2>1. inst'.exists = FALSE /\ cache'.exists = cache.exists
    BY <1>3 DEF DeleteInstance, IInv, TypeOK
  <2> QED
    BY <1>1, <2>1 DEF InstanceGone
<1>4. CASE UpdateStatus
  <2>1. inst'.exists = inst.exists /\ cache'.exists = cache.exists
    BY <1>4 DEF UpdateStatus, WriteInstance, IInv, TypeOK
  <2> QED
    BY <1>1, <2>1 DEF InstanceGone
<1>5. CASE UNCHANGED <<inst, cache>>
  BY <1>1, <1>5 DEF InstanceGone
<1> QED
  BY <1>2, <1>3, <1>4, <1>5
  DEF Reconcile, ReconcileStart, CheckHealth, ValidateAuth, ChangeAdminPassword,
      GenerateToken, StoreToken, RestartServer, SyncSecret, Boot, ServerUp, PodCrash, k8sVars

LEMMA InstanceStepInv ==
    ASSUME SystemInv, InstanceStep
    PROVE  SystemInv'
<1> USE DEF SystemInv
<1>1. UNCHANGED pluginVars
  BY DEF InstanceStep
<1>2. IInv' /\ InstanceGone' /\ (cache'.exists => cache.exists)
  BY InstanceSide DEF InstanceStep
<1>3. Control'
  BY <1>1, <1>2, ControlStays DEF pluginVars
<1>4. PluginTypeOK'
  BY <1>1 DEF PluginTypeOK, pluginVars, marketVars
<1> QED
  BY <1>2, <1>3, <1>4

\* What is staged is loaded.
LEMMA BootLoadsInv ==
    ASSUME SystemInv, BootLoads
    PROVE  SystemInv'
<1> USE DEF SystemInv
<1>1. /\ active' = staged
      /\ UNCHANGED <<plugins, pcache, pr, staged, shipped, riskAccepted>>
  BY DEF BootLoads
<1>2. IInv' /\ InstanceGone' /\ (cache'.exists => cache.exists)
  BY InstanceSide DEF BootLoads
<1>3. Control'
  BY <1>1, <1>2, ControlStays
<1>4. PluginTypeOK'
  BY <1>1 DEF PluginTypeOK
<1> QED
  BY <1>2, <1>3, <1>4

\* Both reconciles are lost, the informers start from what is stored.
LEMMA ManagerRestartsInv ==
    ASSUME SystemInv, ManagerRestarts
    PROVE  SystemInv'
<1> USE DEF SystemInv
<1>1. /\ pr' = NoReconcile
      /\ pcache' = [p \in Plugins |-> [object |-> plugins[p], fresh |-> TRUE]]
      /\ UNCHANGED <<plugins, marketVars>>
  BY DEF ManagerRestarts
<1>2. IInv' /\ InstanceGone'
  BY InstanceSide DEF ManagerRestarts
<1>3. plugins \in [Plugins -> PluginObject]
  BY DEF PluginTypeOK
<1>4. PluginTypeOK'
  BY <1>1, <1>3, AbsentType DEF PluginTypeOK, PluginReconciles, marketVars
<1>5. pr'.pc = "idle" /\ ~pr'.fresh
  BY <1>1, AbsentType
<1>6. Control'
  BY <1>1, <1>5
  DEF Control, Addressed, Wished, FreshPlugins, InstallUnderFinalizer, InstallSteps,
      CacheTrusted, DeletionSeen, FinalizerForLiving, ReleaseIsFinal, DeletionSteps, Guarded
<1> QED
  BY <1>2, <1>4, <1>6

-----------------------------------------------------------------------------
(* The invariant *)

LEMMA SystemInitInv == SystemInit => SystemInv
<1> SUFFICES ASSUME SystemInit PROVE SystemInv
  OBVIOUS
<1> DEFINE status == [reason |-> "Ready", restart |-> FALSE, tokenRef |-> TRUE]
<1>1. /\ inst = [exists |-> TRUE, status |-> status]
      /\ cache = [exists |-> TRUE, status |-> status, fresh |-> TRUE]
      /\ deployed = 3 /\ tokenSecret = TRUE /\ tokenCached = TRUE
      /\ adminSecret \in Passwords /\ password = adminSecret /\ tokenIssued = TRUE
      /\ server = "UP" /\ ir = Idle
  BY DEF SystemInit
<1>2. status \in InstanceStatus /\ status.tokenRef = TRUE /\ Idle.status \in InstanceStatus
  BY DEF InstanceStatus, Reasons, Idle, EmptyStatus
<1> HIDE DEF status
<1>3. PICK start \in Starts :
        /\ budget = [faults |-> start.faults, lags |-> start.lags,
                     edits |-> MaxEdits, signals |-> MaxSignals]
        /\ shipped = start.shipped
        /\ plugins = [p \in Plugins |-> IF start.wishes[p] = None THEN Absent
                                        ELSE Created(start.wishes[p])]
  BY DEF SystemInit
<1>4. /\ start.wishes \in [Plugins -> Versions \cup {Latest, FromURL, None}]
      /\ start.faults \in 0 .. MaxFaults /\ start.lags \in 0 .. MaxLags
      /\ start.shipped \subseteq Keys
  BY PluginAssumption
<1>5. IInv
  <2>1. budget \in [faults : Nat, lags : Nat, edits : Nat, signals : Nat]
    BY <1>3, <1>4, BoundsAssumption
  <2>2. ir \in [pc : Steps, status : InstanceStatus, fresh : BOOLEAN,
                target : Passwords \cup {NoSecret}]
    BY <1>1, <1>2 DEF Idle, Steps, InstanceStatus, EmptyStatus, Reasons
  <2>3. /\ inst \in [exists : BOOLEAN, status : InstanceStatus]
        /\ cache \in [exists : BOOLEAN, status : InstanceStatus, fresh : BOOLEAN]
    BY <1>1, <1>2
  <2>4. TypeOK
    BY <1>1, <2>1, <2>2, <2>3 DEF TypeOK, ServerStates
  <2>5. password # DefaultPassword
    BY <1>1, PasswordsAssumption
  <2>6. ir.pc = "idle" /\ ~ir.fresh
    BY <1>1 DEF Idle
  <2> QED
    BY <1>1, <1>2, <2>4, <2>5, <2>6
    DEF IInv, BootstrapOrder, BootstrapSteps, FreshCopies, ReadyEarned, FlagKept,
        ReadyMeansBootstrapped
<1>6. \A p \in Plugins :
        /\ plugins[p] \in PluginObject /\ ~plugins[p].finalizer /\ ~plugins[p].deleting
        /\ plugins[p].exists => plugins[p].wish # None
  <2> SUFFICES ASSUME NEW p \in Plugins
               PROVE  /\ plugins[p] \in PluginObject
                      /\ ~plugins[p].finalizer /\ ~plugins[p].deleting
                      /\ plugins[p].exists => plugins[p].wish # None
    OBVIOUS
  <2>1. CASE start.wishes[p] = None
    BY <1>3, <2>1, AbsentType
  <2>2. CASE start.wishes[p] # None
    <3>1. plugins[p] = [Absent EXCEPT !.exists = TRUE, !.wish = start.wishes[p]]
      BY <1>3, <2>2 DEF Created
    <3> QED
      BY <1>4, <2>2, <3>1, AbsentType DEF PluginObject
  <2> QED
    BY <2>1, <2>2
<1>7. plugins \in [Plugins -> PluginObject]
  BY <1>3, <1>6
<1>8. /\ pcache = [p \in Plugins |-> [object |-> plugins[p], fresh |-> TRUE]]
      /\ pr = NoReconcile
      /\ staged \in [Keys -> Versions \cup {None}] /\ active = staged
      /\ shipped \subseteq Keys /\ riskAccepted = FALSE
  BY <1>3, <1>4 DEF SystemInit
<1>9. PluginTypeOK
  BY <1>7, <1>8, AbsentType DEF PluginTypeOK, PluginReconciles
<1>10. pr.pc = "idle" /\ ~pr.fresh
  BY <1>8, AbsentType
<1>11. Control
  BY <1>6, <1>8, <1>10
  DEF Control, Addressed, Wished, FreshPlugins, InstallUnderFinalizer, InstallSteps,
      CacheTrusted, DeletionSeen, FinalizerForLiving, ReleaseIsFinal, DeletionSteps, Guarded
<1> QED
  BY <1>1, <1>5, <1>9, <1>11 DEF SystemInv, InstanceGone

LEMMA SystemStutterInv ==
    ASSUME SystemInv, UNCHANGED systemVars
    PROVE  SystemInv'
<1> USE DEF SystemInv
<1>1. UNCHANGED <<vars, plugins, pcache, pr, marketVars, cache, inst>>
  BY DEF systemVars, pluginVars, vars, k8sVars
<1>2. IInv' /\ InstanceGone'
  BY <1>1, StutterInv DEF InstanceGone
<1>3. Control'
  BY <1>1, ControlStays
<1>4. PluginTypeOK'
  BY <1>1 DEF PluginTypeOK, marketVars
<1> QED
  BY <1>2, <1>3, <1>4

LEMMA SystemNextInv == SystemInv /\ [SystemNext]_systemVars => SystemInv'
  BY InstanceStepInv, BootLoadsInv, ManagerRestartsInv, PluginStepInv, PluginStartInv,
     SyncPluginInv, UserStepInv, SystemStutterInv DEF SystemNext

\* Every reachable state of the two controllers satisfies the invariants of both.
THEOREM SystemInvariance == SystemSpec => []SystemInv
  BY SystemInitInv, SystemNextInv, PTL DEF SystemSpec

-----------------------------------------------------------------------------
(* Theorems *)

\* The variables of the plugin controller and of the marketplace keep their types.
THEOREM PluginTypeCorrect == SystemSpec => []PluginTypeOK
  BY SystemInvariance, PTL DEF SystemInv

\* From the comparison with the loaded plugins to the signal the stored resource
\* has the finalizer, for every set of resources and keys: whatever copy the
\* decision was taken on, and although users delete and re-create resources, the
\* instance goes, and writes are refused or their answers lost.
THEOREM InstallIsGuarded == SystemSpec => []InstallUnderFinalizer
  BY SystemInvariance, PTL DEF SystemInv, Control

\* What phase Ready promises the other controllers holds in the composition: the
\* patch of the plugin controller and the restarts it leads to do not touch it.
THEOREM ReadySafeForPlugins == SystemSpec => []ReadyMeansBootstrapped
  BY SystemInvariance, PTL DEF SystemInv, IInv

\* In the composition the flag changes by the steps of the instance controller and
\* by the patch, which sets it.
LEMMA SystemFlagStep ==
    ASSUME SystemInv, SystemNext, inst.status.restart, inst'.exists, ~inst'.status.restart
    PROVE  ir.pc = "status" /\ ir.status.reason = "Restarting"
<1> USE DEF SystemInv
<1>1. CASE InstanceStep \/ BootLoads \/ ManagerRestarts
  <2>1. Next
    BY <1>1 DEF InstanceStep, BootLoads, ManagerRestarts, Next, Environment
  <2> QED
    BY <2>1, FlagStep
<1>2. CASE SignalRestart
  BY <1>2 DEF SignalRestart, SetRestartRequired, WriteInstance, IInv, TypeOK, InstanceStatus
<1>3. CASE UNCHANGED k8sVars
  BY <1>3 DEF k8sVars
<1>4. CASE PluginStep /\ ~SignalRestart
  BY <1>3, <1>4
  DEF PluginStep, AddFinalizer, PublishPhase, ListPlugins, Uninstall, Install,
      AcknowledgeRisk, DeletionList, DeletionUninstall, ReleaseFinalizer
<1>5. CASE \E p \in Plugins : PluginStart(p) \/ SyncPlugin(p) \/ UserStep(p)
  BY <1>3, <1>5
  DEF PluginStart, SyncPlugin, UserStep, CreatePlugin, EditPlugin, DeletePlugin, vars
<1> QED
  BY <1>1, <1>2, <1>4, <1>5 DEF SystemNext

\* No status update of the instance controller erases the flag a plugin reconcile
\* patched into the status it was read from, unless it restarted SonarQube.
THEOREM FlagSafeForPlugins == SystemSpec => OnlyRestartClearsFlag
<1>1. SystemInv /\ [SystemNext]_systemVars =>
        [inst.status.restart /\ inst'.exists /\ ~inst'.status.restart
           => At("status") /\ ir.status.reason = "Restarting"]_vars
  BY SystemFlagStep DEF systemVars, At
<1> QED
  BY <1>1, SystemInvariance, PTL DEF SystemSpec, OnlyRestartClearsFlag

=============================================================================
