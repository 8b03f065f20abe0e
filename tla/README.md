# A TLA+ model of sonarqube-operator

The operator reconciles Kubernetes resources (one `SonarQubeInstance`, and
plugins, projects, users, quality gates, groups, webhooks and permission
templates that refer to it) with a SonarQube server. Everything that is hard
about it happens between two remote calls: the reconciler works on a copy from an
informer cache, calls SonarQube and the Kubernetes API one after the other, and
at any point in between the user, SonarQube, another controller or a crash may
move. The modules of this directory model that, TLC checks them on small
instances, and TLAPS proves every safety property they check for every instance.

## Inventory of the system

| Component | State it keeps | Operations | Interacts with | What is hard |
|---|---|---|---|---|
| Instance controller (`sonarqubeinstance_controller.go`) | `status` (phase, conditions, `restartRequired`, `adminTokenSecretRef`), the workload, the admin-token Secret | create and correct StatefulSet, Services and Ingress, health check, admin bootstrap, batched restart, status update | SonarQube (status, password, token, restart), children through `status`, plugin controller through `restartRequired` | bootstrap of four non-idempotent steps under crashes; status update over a stale copy; flag shared by two controllers; objects of a predecessor, changed by hand or not yet in the cache |
| Plugin controller (`sonarqubeplugin_controller.go`) | finalizer, `status.phase` | install, upgrade, consent, verify, delete, ask for a restart | SonarQube marketplace, instance flag | what is installed shows only after a restart somebody else does; skipped or lost signals; deletion while staged |
| Project controller | finalizer, `status` ownership lists, CI-token Secret | create, visibility, branch, gate, tags, links, settings, permissions, CI token and its rotation | SonarQube, user annotation | rotation in five calls; ownership recorded after the calls |
| User controller | finalizer, `status` groups, tokens, permissions | create, update, groups, tokens, global permissions, deactivate | SonarQube, password Secret | token names that are taken; lists recorded after the calls |
| Quality gate controller | finalizer, `status.gateID` | create, conditions diff, default, delete | SonarQube | id kept in the status only |
| Webhook controller | finalizer, `status.webhookKey` | create once, delete | SonarQube | key kept in the status only: duplicates |
| Group, permission template controllers | finalizer | create, sync, delete | SonarQube | finalizer and readiness |
| HTTP client (`internal/sonarqube/client.go`) | none | one function per call, retries of network errors | SonarQube | a POST carried out twice |
| Admission webhooks (`api/v1alpha1/*_webhook.go`, `cross_namespace_validator.go`) | none; read the instance from the manager's cache | refuse downgrades, clusters of the wrong edition, references from namespaces that are not listed | API server, every controller that writes a finalizer | what is compared is a spec, what runs lags behind; outages let everything through; the controllers' own updates are validated too |
| Branch-rule and backup scaffolds | constant condition | none | - | - |
| Manager (`cmd/main.go`), metrics | - | registration, leader election | - | - |

What makes each part correct: the instance is announced Ready only with an
account the children can use, and a restart request is never forgotten; a wanted
plugin ends up loaded, an unwanted one unloaded, a deleted resource goes away,
restarts come to an end; a rotated token is the one in the Secret, and there is
always one; operator-owned grants are exactly those recorded; nothing is created
twice or left behind when its resource is deleted; the workload follows the spec,
but never back behind the database; and nothing is made for a namespace whose
resources the instance's owner did not let in.

`PROJECT.json` lists the hazards line by line, with the properties that cover
them.

## Modules

| Module | What it is |
|---|---|
| `AdminBootstrap` | abstract specification: what the bootstrap of the admin account promises to whoever waits for phase Ready |
| `SonarQubeInstance` | the instance controller, SonarQube's process and admin account, the informers, crashes, the user |
| `SonarQubeInstance_proofs` | inductive invariant, safety theorems and the refinement of `AdminBootstrap` |
| `SonarQubePlugin` | the plugin controller composed with `SonarQubeInstance` |
| `SonarQubePlugin_proofs` | inductive invariant of the two controllers together, and what follows from it |
| `MCSonarQubePlugin` | values of `KeyOf` and `Starts` for TLC |
| `ChildController` | what the controllers of resources on an instance share: resource and informer copy, versioned writes, the head of `Reconcile`; the next three instantiate it |
| `SonarQubeProject` | the project controller: ownership of grants, CI token and its rotation |
| `SonarQubeUser` | the user controller: account, groups, permissions, tokens |
| `SonarQubeObject` | the controllers of quality gates, groups, permission templates and webhooks, told apart by the variable `kind` |
| `MCSonarQubeProject`, `MCSonarQubeUser`, `MCSonarQubeObject` | values of `Wishes` for TLC |
| `ChildLifecycle` | abstract specification: what a resource that stands for something in SonarQube promises, from its creation to its end |
| `ChildController_proofs` | lemmas about what the shared part does, for any controller that has it |
| `SonarQubeProject_proofs` | inductive invariant and safety theorems of the project controller, and that it implements `ChildLifecycle` |
| `SonarQubeUser_proofs`, `SonarQubeObject_proofs` | inductive invariants and safety of the user and the object controllers, on the lemmas of `ChildController_proofs` |
| `InstanceRefGate` | the webhook for `spec.instanceRef` in front of a controller of `SonarQubeObject`, with the instance's list of namespaces, its cached copy and outages |
| `InstanceRefGate_proofs` | the theorems about the object controllers, for the system with the gate in front |
| `MCInstanceRefGate` | value of `Wishes` for TLC |
| `SonarQubeWorkload` | what the instance controller deploys: StatefulSet, Services, Ingress, the pod and its database, the garbage collector, and the webhook of the instance |
| `MCSonarQubeWorkload` | versions, specs and budgets for TLC |
| `SonarQubeWorkload_proofs` | types, and that the pod never goes back behind its database |

Operators that are named as a faulty variant of the next definition are what a
plausible slip in that code would look like; each property of the passing runs
fails when one of them takes the place of the real definition.

### SonarQubeInstance

State and code:

- `inst` is the stored resource. Of its status the model keeps the reason of the
  Ready condition (phase is Ready exactly with reason Ready, so one value stands
  for both), `restartRequired`, and whether `adminTokenSecretRef` is set.
  Version, URL, messages and the other conditions do not influence any decision.
- `cache` is the informer's copy. `cache.fresh` says that no write happened since
  it was taken, `ir.fresh` the same of the copy the reconcile in flight works on:
  that is what the resourceVersion of `Status().Update` is compared for. A write
  that changes nothing gets no new resourceVersion, so it makes no copy stale.
- `ir` is the reconcile in flight: its step, the in-memory status, the password it
  read from the admin Secret.
- `deployed` counts the workload objects that exist, in the order in which
  `Reconcile` creates them; `tokenSecret` and `tokenCached` are the token Secret
  and the informer's view of it.
- `server`, `password`, `tokenIssued` are SonarQube's side. They survive the
  deletion of the resource as the volume of the database does.

Each action is one call that leaves the process, together with everything the
code does until the next call: `ReconcileStart` (workload), `CheckHealth`
(GetStatus and the two Secret reads, which come from the cache), `ValidateAuth`,
`ChangeAdminPassword`, `GenerateToken`, `StoreToken`, `RestartServer`,
`UpdateStatus`. The workload calls are one step here, because nothing but the boot of
the pod depends on those objects (`SonarQubeWorkload` has them one by one); how far an erroneous round came is still a
choice (`\E n \in deployed..3`). A call may fail because SonarQube does not
answer or refuses, be lost, or be carried out with its answer lost. Around the
reconcile: the informers catch up (`SyncInstance`, `SyncSecret`), SonarQube boots
and crashes, the manager restarts, the user edits the admin Secret or deletes the
instance, and the plugin controller patches the flag at any time (`PluginSignal`).

Properties:

- `ReadyMeansBootstrapped`: Ready goes with a stored and issued token, the
  reference to it, and a changed password, in particular when a status update
  races the deletion of the resource.
- `OnlyRestartClearsFlag`: no status update erases a restart request that arrived
  while the reconcile was under way.
- `RefinesBootstrap`: the controller implements `AdminBootstrap`.
- `SettlesUnlessWedged`: whatever happened, the instance ends in Ready for good,
  unless it is deleted, has no admin Secret, or is *wedged*: the token name is
  taken and no Secret holds the token, or the admin Secret was edited to a third
  password in the middle of the bootstrap. This says that these two are the only
  ways in which the bootstrap can get stuck.
- `RestartServed`: a restart request on a bootstrapped instance is served.
- `BootstrapResumes` is what the documentation claims, and fails (run
  `instance_crash`).

### SonarQubePlugin

- `plugins` and `pcache` are the stored resources and the informer's copies, `pr`
  the reconcile in flight with its copy of the restart flag. The controller has
  one worker, so there is one.
- `staged` is what SonarQube's next boot loads, `active` what is loaded.
  `InstallPlugin` and `UninstallPlugin` change `staged`, the boot copies it to
  `active`, and the installed list shows `active`.
- `shipped` are the plugins that SonarQube brings along: they are loaded from the
  start, and it refuses for good to uninstall them. A refusal is an error the
  controller returns (`Uninstall`, `DeletionUninstall`).
- Phases are the pairs of `phase` and `restartRequired` the controller writes.

`Route` is the decision `Reconcile` takes before its first call (missing
instance, deletion, not Ready, finalizer, `spec.source`), `OwnWrite` an update of
the reconcile's own resource that succeeds only for the stored version,
`StageCall` a plugin call with its refusals and lost answers. The remaining
actions are one per call.

Properties:

- `InstallUnderFinalizer`: an install runs only while the stored resource carries
  the finalizer, although resources are deleted and re-created under stale copies.
- `InstallTakesEffect`: what a user asks for ends up loaded, although the signal
  was skipped on a stale flag, erased, or lost with its patch. The controller
  reaches this by comparing with the loaded plugins again and again. Excepted are
  `spec.source` and another version of a plugin that is `shipped`.
- `DeletionCompletes`: a deleted resource goes away, unless its plugin is `shipped`.
  The exception is real and not what the code's comments and the documentation say:
  see "Read in the code" below.
- `RestartsCease`.

`Starts` are the initial resources and what may go wrong from there on: one
constant, so that one run has a plugin with a fault, a plugin with a stale
decision, and the changes among pinned, newest and URL, and a plugin that is
`shipped`, without either.

### ChildController

The controllers of projects, users, gates, groups, templates and webhooks begin
with the same code: read the resource, read the instance, leave if it is gone,
turn to the deletion, wait for Ready and the admin token, add the finalizer. This
module holds that part once, over the variables `cr` (stored resource), `pcache`
(informer's copy), `instance`, `pr` (reconcile in flight with its in-memory copy)
and `budget`; the modules below instantiate it over their own variables of these
names and say what happens to the rest.

- `Route` is the order of decisions at the head of `Reconcile`: a missing instance
  and a deletion come before the wait for Ready. `PickUp` starts a reconcile on the
  informer's copy, `AddFinalizer`, `PublishPhase` and `ReleaseFinalizer` are the
  writes around the controller's own work.
- `OwnWrite` is `Update` and `Status().Update`: accepted for the stored version
  only, and its answer may be lost. `fresh` compares resourceVersions as in
  `SonarQubeInstance`.
- `CallFails` is a call that SonarQube refuses or never gets. A call that is
  carried out with its answer lost is a disjunct of each action.
- `instance` is Ready, not Ready or gone, and changes arbitrarily, except that a
  deleted instance does not come back. The controllers read nothing else of it.

`SonarQubePlugin` does not use this module: its instance is the composed
`SonarQubeInstance`, and its resources may be several.

### SonarQubeProject

State and code:

- A *grant* stands for a link, a setting or a permission: the three lists are
  maintained the same way (revoke what the status records and spec no longer
  lists, make what is missing, record the wanted list). `granted` says what is in
  SonarQube and who put it there, the operator or somebody in the UI.
- `secret` is the CI-token Secret: absent, or its token alive or revoked. `token`
  says whether SonarQube has a token of that name, known to anybody or not;
  `secretSeen` is the informer's view, `garbage` an owner that is gone.
- `requested` is a history variable: rotations users asked for, less the handed-out
  tokens that were revoked since.

Each action is one call. `LookForSecret`, `ClearAnnotation`, `RevokeToken`, `DeleteOldSecret`,
`GenerateToken`, `StoreToken` are `reconcileCIToken`. `ClearAnnotation` is a merge
patch without resourceVersion; its answer is decoded over the object in memory, so
`Refreshed` is the stored object with the record of grants the server holds,
except that an empty list, which the answer omits, leaves the one in memory.
The list of conditions is such a list too.
`ApplyGrants` may stop after any part of its calls. `AssertBranch` is
`reconcileMainBranch`: look up, rename, and the condition MainBranchSynced on the copy
in memory (`Report`), which `PublishReady` stores. Visibility, gate and tags are
asserted the same way, each by a call of its own whose error ends in an event: the
branch stands for them, `branch` for what SonarQube has. A branch that spec does not
name (`"unset"`) is left as it is.

Properties:

- `CreatedUnderFinalizer`: no project appears in SonarQube while the stored
  resource lacks the finalizer.
- `OneTokenPerRequest`: a handed-out token dies only if its rotation was asked
  for, once for each, whichever call of the rotation failed; a decision on a
  stale Secret cache is the exception (finding 2).
- `TokenStored`: there is a Secret in the end, after a crash in the middle of a
  rotation, a deletion by hand or by the garbage collector.
- `DeletionReachesSonarQube`: a deleted resource takes its project along, or goes
  away when the instance is not there to do so.
- `GrantsFollowSpec`: what spec lists is granted, what the record shows and spec
  dropped is taken back, although single calls fail.
- `NothingForgotten`: what the operator granted leaves the record only when it is
  gone, although a rotation in the same reconcile replaces the record in memory.
- `BranchSettles`: the main branch ends up with the name in spec and the condition
  says so, although a rename may fail, be carried out with its answer lost, or be
  undone in the UI, and although the patch of a token rotation puts the stored
  condition in place of the one just computed.
- `KeepsPromise`: the controller implements `ChildLifecycle`.
- `TokenUpToDate` and `DeletionCompletes` are what comments and documentation say and
  the code does not do.

### ChildLifecycle

What a user may count on, with three variables: the resource is absent, unguarded,
guarded (it has the finalizer) or doomed (it is being deleted); what it stands for
is there in SonarQube (`made`) or not; and the operator is `excused` once the
instance has been away. `Make` happens under the finalizer only, `Unmake` never
under a resource that lives and is guarded, `Release` only when the thing is gone
or the operator is excused. `Unmake` is allowed under an unguarded resource and
under none: the call that deletes may be carried out on behalf of a predecessor
whose copy the reconcile still holds. `SonarQubeProject` maps to it by `Resource`,
`project` and `Excused`; the mapping holds for projects because their controller
keeps the finalizer when `DeleteProject` fails. The other controllers give it away
whatever the outcome, so they do not implement `Release`.

### SonarQubeUser

- `active` says whether SonarQube has the account and it is active; `GetUser` does
  not show one that is not, and `CreateUser` reactivates it.
- `member` says who put the account in a group, `may` who granted a permission or
  took it back, `token` whether the account has a token of that name. `secret`,
  `garbage` and `secretSeen` are the token's Secret as in `SonarQubeProject`.
- `spec` and `record` are what spec asks for and what the status records of groups,
  permissions and token (`Grant`). `profile` is spec's name and e-mail, and its
  SCM accounts with them. `identity` is the name and the e-mail in SonarQube, `scm`
  the SCM accounts there. An e-mail may be missing from spec (`NoEmail`); the client
  then leaves it out of the request, and `Sent` is what the request makes of the
  account. Whether an account that is reactivated loses its e-mail is SonarQube's
  choice.
- `strict` says that this version of SonarQube refuses to grant a permission that
  is granted, which a comment of the controller says some do.

`ReconcileGroups` reads the groups of the account, joins, then leaves, one call
each; an error ends the reconcile and nothing is recorded. `LookForToken`,
`RevokeUserToken`, `GenerateUserToken` and `StoreUserToken` are
`reconcileUserTokens`, `ReconcilePermissions` is
`reconcileUserGlobalPermissions`, which goes by the record alone and does not ask
SonarQube what is granted; it ends at the first grant that is `Refused`, after some
of the others, and nothing is recorded. `UpdateUser` comes before all that and ends the
reconcile when it fails; `UpdateUserScmAccounts` comes between groups and tokens and
does not. A reconcile that creates the account does groups and SCM accounts
only, the next one the rest (`created`). One token stands for the list: the loop
treats each by itself and an error leaves the ones after it to the next reconcile.

Properties:

- `CreatedUnderFinalizer`: an account becomes active only while the stored resource
  carries the finalizer.
- `GrantsApplied`: in the end the account is in the groups spec lists and has the
  permissions that spec lists and the status does not record (`Pending`). What the
  status records and an administrator took back is not in it: the code does not
  look. Neither is the case that a `strict` SonarQube shows one of `Pending` as
  granted: see "Read in the code" below.
- `ProfileSettles`: name, e-mail and SCM accounts end up as in spec, whether the
  account was found, created or reactivated, although calls before them fail and
  somebody changes them in the UI. An e-mail that spec leaves out stays what it is,
  and only that: see "Read in the code" below.
- `RecordedRevoked`: a group, permission or token that is recorded and no longer
  wanted is taken back, although single calls fail.
- `NothingForgotten`: it leaves the record only when it is gone, however far the
  reconcile came that took it off and however old its copy was.
- `DeletionCompletes`, `DeletionDeactivates`: the resource goes, and its account
  with it unless a call failed or the instance was not there. A stale copy is no
  excuse.
- `TokenStoredUnlessTaken`: the wanted token ends up in its Secret, or its name is
  taken. The exception is real: it is what a lost answer, or a Secret deleted by
  hand, leads to.
- `ForeignGroupsKept` is what a comment and the documentation say, and fails.

### SonarQubeObject

- `objects` are the ids SonarQube knows under the resource's name, `issued` the
  last one given away; id 0 is the empty id of a status. `content` are the details
  of the object, a gate's conditions or the description of a group or a template.
  `default` says that it is SonarQube's default.
- `seen` is the list of conditions a reconcile read before it computed its diff;
  an administrator may change the gate in between.

Each kind keeps its own ways. A gate, a group and a template are looked up by name
(`LookUp`); an error that SonarQube answers for a gate is taken for "not found". A
webhook is looked up in the status (`LookUpWebhook`). Conditions of a gate follow
by `ReconcileConditions`, the description of an existing group by
`SyncDescription`; an existing template is left as it is. Gate, template and
webhook are deleted by the id the reconcile's copy of the status holds, a group by
name unless it is one of SonarQube's own. Deletion is best-effort, the finalizer is
released whatever the outcome. Whether SonarQube refuses a second webhook of one
name is left open, since the repository's documentation and its client disagree;
`client.do` sends a call again after a network error, so one `CreateWebhook` may
make two.

Properties:

- `CreatedUnderFinalizer`: no object appears while the stored resource lacks the
  finalizer.
- `InLine` is what a reconcile works towards: the object is there, its id is the
  recorded one, a gate's conditions and a group's description are those of spec,
  the default is set. `ConvergesIfAdmitted` below says that it gets there.
- `RecordedDeleted`: the object the status records goes before its resource does,
  unless a call failed, the instance was not there, or SonarQube keeps the object
  because it is the default gate. A stale copy, with an id of its own, is no excuse.
- `WebhookIdempotent` is what the documentation says, and fails.
- `DeletionCompletes`, a resource being deleted goes, is what the code's comments
  say. It fails behind the gate (run `admission_stuck`);
  `DeletionCompletesIfAdmitted` is what is left of it.

### InstanceRefGate

The webhook for `spec.instanceRef` composed with `SonarQubeObject`. `policy` says
where the resource lives: beside its instance ("local"), or in another namespace
that the owner of the instance lists in the annotation or does not. `seen` is what
the manager's cache shows of that, `serving` whether the webhook answers.

- `Validate` is `ValidateInstanceRefNamespace`, `Admitted` adds the failure policy
  (Ignore in the markers and in the chart). `Apply` is a user's create or update,
  `Remove` a delete, which is not validated.
- The controller's `Update` of the finalizer goes through the webhook too
  (`Refuse`); its status updates do not, since no rule names the subresource.
- `Annotate` is the owner changing the list, `SyncAnnotation` the informer,
  `Outage` and `Recovery` the webhook server.

That the API server validates an update of a resource whose deletion is under way
is its general behaviour, and controller-runtime hands it to `ValidateUpdate`.
docs/operations/multi-tenancy.md describes the gate. A resource that is pointed at
another instance by an edit is not modelled.

Properties:

- `NothingForUnlisted`: nothing is made in an instance for a namespace that is not
  listed, although the controllers never look at the list: a resource that was not
  let in does not exist. Exceptions are a list that changes and an outage.
- `ConvergesIfAdmitted`: a resource under its finalizer is kept in line whatever
  becomes of the list, another one as soon as its namespace is listed.
- `DeletionCompletesIfAdmitted`: a deletion goes through in the end, unless the
  gate goes on to refuse. Nothing is stuck beside its instance.

### SonarQubeWorkload

- `objects` are the stored StatefulSet, headless Service, Service and Ingress: of
  each whether it exists, the uid of its owner, and its `content`, which is what
  the controller asserts on it. Of the pod template the version stands for all that
  comes from the spec, since `reconcileStatefulSet` replaces it as a whole.
- `seen` says what the informers show of them: present or not, in the stored
  version or in an older one. What decides in `reconcile*` is `Get` (present or
  not), and the resourceVersion of the `Update` that follows.
- `running` is the version of the pod, `schema` the one its database was last
  migrated to, which survives the instance as the volumes do.
- `waived` is a history variable: an order of versions was not checked, or could
  not be.

`Start` reads the instance; `ReconcileObject` is one of the four `reconcile*`,
with its Get, Create or Update, and the return of its error, after which nothing
else happens, not even the status update; `UpdateStatus` publishes URL and
Degraded condition as computed from the copy of the instance. The StatefulSet the
controller builds never equals the stored one (the API server fills in defaults),
so the Update is sent every round; like every write without effect it changes no
resourceVersion. The headless Service is created and never corrected. An Ingress
is left as it is when it is disabled. `CollectGarbage` deletes what belongs to an
instance that is gone, also when another one of that name exists by now.

`Apply` is a user's create or update through `ValidateCreate` and
`ValidateUpdate`; a refused one gets through only in an outage, which is a fault.

Properties:

- `NoDowngrade`: the pod never runs a version below the one its database was
  migrated to, unless an order went unchecked. The webhook compares the spec with
  the one before, while the StatefulSet is written from copies that may be older
  than both.
- `FollowsSpec`: whatever was deleted, changed by hand, refused or collected as
  garbage, the pod comes back to spec's version, the Services and an enabled
  Ingress to what the operator asserts.
- `StatusFollowsSpec`: URL and Degraded end up those of the spec in force.
- `NothingLeftBehind`: nothing runs for an instance that is gone, although a
  reconcile may have created objects after the deletion.

## Runs

| Run | Instance | What it shows |
|---|---|---|
| `instance` | 2 passwords, 2 faults, 1 stale start, 1 edit, 1 signal; 270 000 states | types, `ReadyMeansBootstrapped`, `OnlyRestartClearsFlag`, refinement; the instance settles, restarts are served |
| `instance_crash` | 1 password, 1 fault | finding: the bootstrap does not resume |
| `plugin` | 1 resource, 1 edit, and one of: a pinned version with 1 fault, a pinned version with 1 stale start, no resource yet, the newest version, `spec.source`, a pinned or the newest version of a plugin SonarQube refuses to uninstall; 1.1 million states | types, `InstallUnderFinalizer`; installs take effect and follow the spec, deletions complete, restarts cease |
| `project` | 1 grant, 2 branch names, everything wanted or the CI token only, 1 fault, 1 stale decision, 2 edits, 1 change of the instance; 740 000 states | types, seven properties of the project controller, and that it implements `ChildLifecycle` |
| `project_dead_token` | no edit, no fault, one stale look at the Secret | finding 2 |
| `project_delete_lost` | 1 fault, 1 edit | finding 3 |
| `user` | 1 group, 2 permissions, 1 token and 2 profiles, one of them without an e-mail, everything wanted or that profile only, 1 fault, 1 stale decision, 1 change of the instance, and 2 edits, or 1 with a SonarQube that refuses to grant what is granted; 1.2 million states | types, and eight properties of the user controller |
| `user_foreign_group` | 1 group, 2 edits | finding 4 |
| `objects` | any kind, beside its instance or not, 1 detail, 1 fault or outage, 1 stale decision, 2 edits, 1 change of the instance or of the list; 1.2 million states | types, and the five properties of the object controllers behind the gate |
| `webhook_twice` | one stale copy | finding 5 |
| `admission_stuck` | no fault, no stale copy, 1 edit, 1 change of the instance or of the list; 380 states | finding 6 |
| `workload` | versions 9.9, 10.3 and the tag 9.9-lts, 1 host, 4 specs, and either 2 edits and 1 stale start, or 1 edit, 1 fault and 1 stale start; 1.5 million states | the five properties of the workload |

Bounds. `MaxFaults`, `MaxLags`, `MaxEdits`, `MaxSignals` and `MaxTurns` bound how often the
environment misbehaves, never what the controllers do. Two faults are enough to
combine a lost answer with a crash of the round that would repair it; two
passwords are enough to tell the one in force from the one in the Secret; one
plugin meets every branch of its controller. Two edits let a user rotate a token
and delete the resource, or delete and re-create it; one grant is enough because
grants do not influence each other except through the outcome of the whole list,
which an instance with one grant shows as done or not done. Of branch names
and profiles two are needed to see one replaced by the other, by spec or in the UI.
For projects and users the wishes are "everything" and "as little as possible":
grants, groups and permissions are handled by loops that do not depend on each
other, and an order among the calls of one loop would only show with two of a sort,
which `done` already leaves open. Of permissions there are two, so that the refusal
of one may keep the other from being granted. For the workload two versions
give an upgrade and a downgrade, the tag what the comparison cannot read, and one
host an Ingress that is enabled, disabled and changed by hand; two edits make the
instance go and come back, or a reconcile two specs old. `Starts` and `Bounds` are
sets of such budgets, so that one run has several of them. `CHECK_DEADLOCK FALSE` is set because a system whose instance
was deleted really stops.

Fairness. A reconcile in flight goes on and one that is due is started
(`WF` on the steps): errors are requeued with backoff, a round that is not Ready
after 30 s, a Ready one after a minute, watches and the informers' periodic
resync do the rest. The instance controller also watches the workload it owns. The informers catch up, a deployed SonarQube boots. The
plugin controller's work queue is FIFO, so each resource has its turn although
the only worker is busy again and again (`SF` on `PluginStart(p)`). A project, user, gate, group, template
or webhook that was published Ready is looked at again by the informer's resync
only (ten hours by default), which is slow but enough for what happens "in the
end"; docs/getting-started/concepts.md:54-56 promises "a sane interval". The garbage
collector and the StatefulSet controller do their work. Users, owners of instances, faults,
outages and their end, and signals are not assumed to happen.

`MaxLags` bounds how many reconciles start from a stale copy of the instance. A
watch takes milliseconds and the controllers requeue after seconds, but nothing
in the code excludes it: without the bound, a restart whose status update is
refused each time because the next round starts too early repeats for ever.

## Proofs

`SonarQubeInstance_proofs` proves, for every set `Passwords` that contains neither
the default password nor the mark for an absent Secret (`PasswordsAssumption`)
and every natural bound (`BoundsAssumption`):

- `TypeCorrect`: `Spec => []TypeOK`
- `ReadySafe`: `Spec => []ReadyMeansBootstrapped`
- `FlagSafe`: `Spec => OnlyRestartClearsFlag`
- `Refinement`: `Spec => RefinesBootstrap`

`ReadyMeansBootstrapped` is not inductive: a reconcile may be about to publish
Ready. `IInv` adds the order of the account's bootstrap (`BootstrapOrder`), what
the reconcile in flight has established (`BootstrapSteps`), what a fresh copy is
(`FreshCopies`), that a reconcile about to publish Ready holds the reference and
that the Secret exists unless the update will be refused (`ReadyEarned`), and that
a fresh reconcile holds the stored flag unless it restarted SonarQube
(`FlagKept`). There is one lemma per action; the theorems follow from `IInv` with
one step lemma for the flag and one for the refinement.

`SonarQubeProject_proofs` proves, for every set of grants, branch names and wishes
and every natural bound (`ProjectAssumption`):

- `TypeCorrect`: `Spec => []ProjectTypeOK`
- `CreatedSafe`: `Spec => CreatedUnderFinalizer`
- `PromiseKept`: `Spec => KeepsPromise`
- `RecordIsKept`: `Spec => NothingForgotten`
- `RotationIsAsked`: `Spec => OneTokenPerRequest`

That a project is created under a finalizer depends on what copies may be trusted.
A reconcile that works on SonarQube found the finalizer on its copy or added it
itself (`WorkUnderFinalizer`). A stale copy is a problem only if the finalizer may
have gone in the meantime: it goes in `ReleaseFinalizer`, whose reconcile saw the
deletion on its own copy, so the informer has seen it too (`CacheTrusted`,
`DeletionSeen`, `ReleaseIsFinal`), or the instance is gone and no reconcile works
on SonarQube any more. One that adds the finalizer with a fresh version does so to
a resource that is not being deleted (`FinalizerForLiving`). `IInv` is the
conjunction with the types.

`PromiseKept` needs two facts more: a reconcile that is about to release a doomed
resource has deleted the project or the instance has been away (`Earned`), and the
excuse never goes (`ExcuseStays`, from the budget of changes, which only
shrinks). With them each action is a step of `ChildLifecycle` under the mapping, or
changes nothing it sees: one lemma for the finalizer, one for the release, one for
the calls to SonarQube, one for the users.

`RecordIsKept` needs to know what a reconcile holds that may still write the status
(`Followed`): until it compares the grants it holds the stored record, and what it
drops from it then is not the operator's any more. The patch of a rotation, which
may make a stale copy acceptable again, keeps this because it brings the stored
record with it, and where it brings none there was none to forget.

`RotationIsAsked` is about a history variable, so its invariant counts (`Asked`):
while no decision was taken on a stale copy, an annotation that the reconcile has
read is still on the stored resource when it comes to clear it, and the requests
that are left are at least one for the annotation and one for the revocation it
has led to. Every way for a rotation to end early leaves the sum covered: the one
that loses the request takes both away.

`ChildController_proofs` is about no controller in particular. Its lemmas take the
resources, the reconciles and the steps as constants and say of each operator of
`ChildController` what it does to them. The hypotheses `ResourceShape` and
`ReconcileShape` (writing a field keeps the others and the set) are proved of each
controller's sets (`Shapes`). `Control` is the argument of `CreatedSafe`, once for
all.

`SonarQubeUser_proofs` proves, for all groups, permissions, profiles and wishes and
every natural bound (`UserAssumption`):

- `TypeCorrect`: `Spec => []UserTypeOK`
- `ActivationIsGuarded`: `Spec => CreatedUnderFinalizer`
- `DeletionSettles`: `Spec => DeletionDeactivates`
- `RecordIsKept`: `Spec => NothingForgotten`

To `Control` and the types, `IInv` adds what has been taken off the record by a
reconcile that may still write it, group by group, permission by permission and
for the token (`RecordFollowed`), and that without a lost call and with the
instance there the finalizer is released after the account was found inactive
(`Settled`). The exception for stale copies that `DeletionDeactivates` and
`RecordedDeleted` might be given turned out to be unnecessary in the proof: a
release that is accepted comes from a reconcile of the stored version.

`SonarQubeObject_proofs` has the same for the four object controllers
(`ObjectAssumption`): ids that were given away and who may have one (`Ids`), that a
deletion whose last write is accepted went by the id in the status
(`DeletedByRecord`), and `Settled`. `InstanceRefGate_proofs` takes this to the
system behind the gate, where the object controllers are users of a webhook that
may refuse them:

- `GateTypeCorrect`: `GatedSpec => []GateTypeOK`
- `CreationIsGuarded`: `GatedSpec => CreatedUnderFinalizer`
- `DeletionSettles`: `GatedSpec => RecordedDeleted`
- `GateHolds`: `GatedSpec => NothingForUnlisted`

`GateHolds` follows from `KeptOut`: without a mishap and a change of the list, a
resource of an unlisted namespace is neither stored, nor in the cache, nor in the
hands of a reconcile, and the webhook goes on to see the namespace as unlisted.

`SonarQubePlugin_proofs` is about the two controllers together, for every set of
plugins, keys and versions, two resources with one key included, and every start
(`PluginAssumption`, `PasswordsAssumption`, `BoundsAssumption`):

- `PluginTypeCorrect`: `SystemSpec => []PluginTypeOK`
- `InstallIsGuarded`: `SystemSpec => []InstallUnderFinalizer`
- `ReadySafeForPlugins`: `SystemSpec => []ReadyMeansBootstrapped`
- `FlagSafeForPlugins`: `SystemSpec => OnlyRestartClearsFlag`

The last two are what the instance controller promises, kept in the composition:
each step of the plugin controller leaves the instance alone or raises the flag as
`PluginSignal` does (`SetRestartInv`), so `IInv` of `SonarQubeInstance_proofs` is a
part of `SystemInv`. The rest of it is the argument of `CreatedSafe` for several resources (`CacheTrusted` to
`ReleaseIsFinal`), with the instance's cached copy in the place of the instance: the
controller stops when the copy is gone, and the copy is gone for good
(`InstanceGone`). The run `instance` shows the two promises on a small
instance, with a plugin controller that asks for restarts at any time.

`SonarQubeWorkload_proofs` proves, for every set of versions with any major and
minor numbers, every set of hosts and specs and every bound (`WorkloadAssumption`):

- `TypeCorrect`: `Spec => []WorkloadTypeOK`
- `Upward`: `Spec => []NoDowngrade`

`NoDowngrade` speaks of the pod and the database only. `IInv` adds, as long as no
order was waived, that everything on the way from the spec to the pod is in the
order in which the webhook let it in: the informer's instance is not above the
stored one, nor the reconcile's copy above the informer's (`CopiesInOrder`); the
StatefulSet is above neither, and not above the copy of a reconcile that is about
to write it (`StatefulSetInOrder`); the schema is above none of them
(`SchemaInOrder`), and the pod is not below the schema (`PodInOrder`). The third
clause is the point: the copy may be several specs old, and it is harmless because
the informer does not go back and there is one reconcile at a time, so the one
before had no newer copy.

Every invariant and every action property of the passing runs is stated by a
theorem, and so are the two refinements. What TLC alone checks is liveness, which
rests on fairness and ENABLED and is out of the prover's reach:
`SettlesUnlessWedged`, `RestartServed`, `InstallTakesEffect`, `RestartsCease`, the
deletions that complete, `DeletionReachesSonarQube`, `TokenStored`,
`TokenStoredUnlessTaken`, `GrantsApplied`, `GrantsFollowSpec`,
`RecordedRevoked`, `BranchSettles`, `ProfileSettles`, `ConvergesIfAdmitted`,
`FollowsSpec`, `StatusFollowsSpec` and `NothingLeftBehind`. The inductive invariants
were run through TLC as invariants before they were proved. The assumption on
`Passwords` leaves out a user who picks `admin` as the new password, for whom
"changed" means nothing.

## Findings

1. `instance_crash`: a crash or a lost answer between `GenerateToken` and the
   creation of the Secret stops the bootstrap for good (the token's name is fixed
   and taken).
2. `project_dead_token`: the Secret cache does not show the token Secret just
   created; the next reconcile revokes that token, generates another, cannot store
   it, and then finds the Secret, with its revoked token, for good.
3. `project_delete_lost`: an error of `DeleteProject` keeps the finalizer, and a
   project that is not there is an error: after a lost answer the resource stays
   in Terminating, where the documentation says it is removed anyway.
4. `user_foreign_group`: a group the account was in already is recorded as the
   operator's once spec lists it, and taken away when spec drops it.
5. `webhook_twice`: a reconcile whose copy does not show the key of the webhook
   just created makes another, whose key is never recorded. The update that adds
   the finalizer starts such a reconcile.
6. `admission_stuck`: the webhook for `spec.instanceRef` validates the controller's
   update that takes the finalizer away. When the owner has taken the namespace off
   the list, or an instance in another namespace is gone, the update is refused for
   good and the resource stays in Terminating; taking the finalizer away by hand is
   an update too. Webhooks are off in the chart by default.
Read in the code while modelling, without a run of their own:

- Plugins. An uninstall whose reconcile saw the flag up may land after the restart
  that cleared it; no restart follows and the plugin stays loaded. A resource
  deleted before the restart that loads its plugin is released without an
  uninstall. The restart does not wait for installs in flight of other plugins; a
  plugin is published Installed before the restart that loads it.
- Deletion of a plugin. An uninstall that SonarQube refuses for good, as it does for
  plugins it ships, is returned as an error and keeps the finalizer, round after
  round (`sonarqubeplugin_controller.go:326-329`). The comments at 98-101 ("A CR being
  deleted must always make progress") and 302-306 (a bundled plugin must not leave the
  resource blocked), docs/reference/crds/sonarqubeplugin.md:182-186 and
  docs/getting-started/concepts.md:135-145 say otherwise. `DeletionCompletes` excepts
  these plugins; without the exception TLC reports the loop at once.
- Re-granting. `reconcileUserGlobalPermissions` skips what the status records because
  "some SonarQube versions return an error when re-granting an existing permission"
  (`sonarqubeuser_controller.go:411-414`). A permission that is granted and not
  recorded, by an administrator or by a round whose answer or whose record was lost,
  is not skipped: with such a version every round ends at it, the permissions after
  it are never granted and the record stays as it is.
  `GrantsApplied` excepts exactly this; without the exception TLC reports it.
- E-mail. `client.go:1001-1003` leaves an empty e-mail out of the update, while
  `sonarqubeuser_controller.go:171` compares it: an account that has an e-mail which
  spec does not ask for is updated in every round and never as spec says.
  docs/reference/crds/sonarqubeuser.md:121-122 and 329 call the e-mail drift-corrected.
  `ProfileSettles` excepts exactly this; without the exception TLC reports it.
- Projects. A link, setting or permission that somebody made in the UI is recorded as
  the operator's once spec lists it, and removed when spec drops it, as in finding 4;
  api/v1alpha1/sonarqubeproject_types.go:79 and 153-154 say that it stays. A grant made by a reconcile whose status update is refused because spec
  changed meanwhile is not recorded and never taken back. A rotation deletes the
  Secret and creates another instead of updating it, and one whose annotation was
  cleared is forgotten if the next call fails (`docs/how-to/token-rotation.md`).
  Disabling `ciToken` leaves the Secret where it is, though lines 235-237 of that page
  say it is removed. The URL of a link that exists
  is not updated: links are matched by name (`sonarqubeproject_controller.go:283`). A
  project is published Ready although best-effort calls failed. When the round that
  fails to rename the branch also rotates the token, the stored condition, which may
  be True, is published instead of the False just computed; the next round puts it
  right. A branch, like a gate, that spec no longer names keeps its last value, and
  the condition too.
- Users. A rotation by deleting the Secret (`sonarqubeuser_controller.go:346-349`)
  generates nothing, since the name is taken. The Secret of a token dropped from
  spec stays. A permission dropped from spec and asked for again while the status
  update in between was refused is taken and not granted again, and one taken by an
  administrator is not granted again.
- Objects. A group with an empty description in spec keeps the one it has, though
  docs/reference/crds/sonarqubegroup.md:73-75 says that empty clears it; `InLine`
  leaves it out. A gate that projects use is not deleted by SonarQube
  (docs/reference/crds/sonarqubequalitygate.md:219-223); in the model that is one of
  the failed calls that excuse `RecordedDeleted`. A gate, a template or a webhook whose id was not recorded is left behind
  by a deletion. A condition listed twice in spec is added twice and refused.
- Workload. An Ingress that is disabled stays, though
  docs/reference/crds/sonarqubeinstance.md:452 says that changes of `spec.ingress.*`
  update it in place. `persistence.size` never reaches a StatefulSet that exists,
  though line 449 lists it among the changes that roll it out. The headless Service
  and the number of replicas are not corrected. The StatefulSet is updated in every
  round, since the API server's defaults make it differ from the one built.
- Webhooks. Versions without numbers pass the downgrade check unread, which the
  code means to; tags such as `9.9-lts` are of that kind. A namespace taken off the
  list does not stop the controllers from maintaining what it has.
- Client. Server errors (5xx) are not sent again, only network errors are.

## Not modelled, and why

- Instances are deleted in the background: `DeletionTimestamp` of an instance is
  never seen set, since it has no finalizer. A resource created anew over the old
  database meets the same refusal as finding 1.
- Only one manager is active: the manifests enable leader election.
- Deletion of the token Secret by a user is left out: it leads to the state of
  finding 1.
- Conditions other than Ready and Degraded, messages, events, metrics and
  `installedVersion`. A status update that only changes a message is a write without effect
  in the model.
- Two resources with one plugin key are left out of the run of `SonarQubePlugin`,
  not of the module and its theorems.
- Refusals that last, of a group, a permission, a link or a setting that SonarQube
  does not know, for users and projects: the controllers try again in every round.
- In `SonarQubeInstance`, a create that is refused because the object exists
  already, after a read of a stale workload cache, is one of the errors `MaxFaults`
  counts; `SonarQubeWorkload` has it as it is.
- `SonarQubeInstance` and `SonarQubeWorkload` are not composed: the bootstrap asks
  the pod only whether it is up, and the workload does not ask the bootstrap
  anything. A failed build of the StatefulSet (a size that does not parse) is kept
  out by the CRD's patterns.
- Of what is deleted or changed by hand on the workload only as much as the budget
  of faults allows; labels, selectors and pod specs are one value.
- The HTTP client has no module: it keeps nothing between two calls, and what a
  caller can see of its retries, an answer, an error, an error after the call was
  carried out and, for a webhook, two calls carried out, is in each action.
- The branch-rule and backup controllers write one constant condition; `main.go`,
  metrics, manifests and chart have no state of their own. Leader election enters as
  the assumption of one manager.
- A rename of the main branch that SonarQube refuses for good, because another branch
  has the name. An edit of `spec.instanceRef`.
- The admin Secret is not edited in `SonarQubePlugin`: it is read during the
  bootstrap only, which is over there.

## Plan

Done: the controllers of the instance, its workload, plugins, projects, users and
objects, the admission webhooks, `ChildLifecycle`, and theorems for all safety
properties of the runs. Left, in this order:

1. The part of `ChildLifecycle` without `Release` for users and objects, from
   `ActivationIsGuarded` and `CreationIsGuarded`.
2. The safety part of the liveness properties: that a round without a fault, once it
   ends, leaves what `FollowsSpec`, `ProfileSettles` and `BranchSettles` ask for. With
   fairness, which stays with TLC, this is what they rest on.
3. `SonarQubeProject_proofs` on the lemmas of `ChildController_proofs`: it was there
   first and repeats their argument.
