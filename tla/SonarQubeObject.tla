--------------------------- MODULE SonarQubeObject ---------------------------
(***************************************************************************)
(* The controllers of the simple objects of SonarQube: quality gates,      *)
(* groups, permission templates and webhooks.  Their Reconciles are alike  *)
(* up to the object itself, which is what the definitions below tell       *)
(* apart: how it is found, what is kept in line with spec, what the status *)
(* records and how it is deleted.                                          *)
(*                                                                         *)
(* One resource of any of the kinds.  An object has an id, an integer;     *)
(* zero is the empty id of a status.  Its details are a gate's conditions  *)
(* or, if there are any, the description of a group or of a template.      *)
(***************************************************************************)
EXTENDS Naturals, FiniteSets

CONSTANTS
    Details,        \* what may be set on an object
    Wishes,         \* values users give the spec
    MaxFaults,      \* bound: calls and answers lost, crashes of the manager
    MaxLags,        \* bound: decisions taken on a stale informer copy
    MaxEdits,       \* bound: what users do, in Kubernetes and in SonarQube
    MaxTurns        \* bound: changes of the instance

Wish == [details : SUBSET Details, default : BOOLEAN]

ASSUME ObjectAssumption ==
    /\ Wishes \subseteq Wish
    /\ {MaxFaults, MaxLags, MaxEdits, MaxTurns} \subseteq Nat

VARIABLES
    kind,           \* the kind of the resource
    cr,             \* the stored resource
    pcache,         \* the informer's copy of it
    instance,       \* the SonarQubeInstance, admin token included
    pr,             \* the reconcile in flight
    objects,        \* SonarQube: ids of the objects with the name in spec
    issued,         \* SonarQube: the last id given away
    content,        \* SonarQube: details of the object
    default,        \* SonarQube: the object is the default one
    budget          \* what is left of the bounds

objectVars == <<objects, issued, content, default>>
vars == <<kind, cr, pcache, instance, pr, objectVars, budget>>

-----------------------------------------------------------------------------
(* Types *)

\* A group of SonarQube's own is a kind by itself.
Kinds == {"gate", "group", "built-in", "template", "webhook"}

\* "id" is status.gateId, templateId or webhookKey.
Resource == [exists : BOOLEAN, deleting : BOOLEAN, finalizer : BOOLEAN, spec : Wish,
             id : Nat, phase : {"None", "Pending", "Failed", "Ready"}]

Absent == [exists |-> FALSE, deleting |-> FALSE, finalizer |-> FALSE,
           spec |-> [details |-> {}, default |-> FALSE], id |-> 0, phase |-> "None"]

Steps == {"idle", "pending", "finalizer", "get", "create", "failed", "adjust",
          "default", "ready", "delete", "release"}

\* "seen" are the details of the object that the reconcile found; "kept" remembers
\* that SonarQube refused to delete it.
NoReconcile == [pc |-> "idle", object |-> Absent, fresh |-> FALSE, seen |-> {}, kept |-> FALSE]

Recorded == kind \in {"gate", "template", "webhook"}

ObjectTypeOK ==
    /\ kind \in Kinds
    /\ {cr, pcache.object, pr.object} \subseteq Resource
    /\ pcache.fresh \in BOOLEAN /\ pr.fresh \in BOOLEAN
    /\ instance \in {"Ready", "NotReady", "Gone"}
    /\ pr.pc \in Steps /\ pr.seen \subseteq Details /\ pr.kept \in BOOLEAN
    /\ issued \in Nat /\ objects \subseteq 1 .. issued
    /\ content \subseteq Details /\ default \in BOOLEAN
    /\ budget \in [faults : Nat, lags : Nat, edits : Nat, turns : Nat]
    /\ cr.id \in 0 .. issued /\ (cr.id # 0 => Recorded)
    /\ kind # "webhook" => Cardinality(objects) <= 1
    /\ kind = "webhook" /\ pr.pc = "create" => pr.object.id = 0

-----------------------------------------------------------------------------
(* The reconcile, step by step *)

INSTANCE ChildController

Wanted == pr.object.spec
Newest == CHOOSE id \in objects : \A other \in objects : other <= id

Start == PickUp /\ UNCHANGED <<kind, objectVars>>

\* Finalizer, phases Pending and Failed, release.
Lifecycle == Conclude /\ UNCHANGED <<kind, objectVars>>

\* Faulty variant: what is there already is left as it is.
LookUpOnce ==
    /\ At("get") /\ kind # "webhook"
    /\ \/ instance = "Ready" /\ NoFault /\ Proceed(IF objects = {} THEN "create" ELSE "ready")
       \/ CallFails(TRUE) /\ Proceed("idle")
    /\ UNCHANGED <<kind, cr, pcache, instance, objectVars>>

\* GetQualityGate, GroupExists or FindPermissionTemplate, by name; an error ends
\* the reconcile.  For a gate, an error that SonarQube answers means "not found".
LookUp ==
    /\ At("get") /\ kind # "webhook"
    /\ \/ /\ instance = "Ready" /\ NoFault
          /\ IF objects = {} THEN Proceed("create")
             ELSE pr' = [pr EXCEPT !.pc = "adjust", !.seen = content,
                                   !.object.id = IF Recorded THEN Newest ELSE 0]
       \/ CallFails(TRUE) /\ Proceed("idle")
       \/ Fault /\ kind = "gate" /\ Proceed("create")
    /\ UNCHANGED <<kind, cr, pcache, instance, objectVars>>

\* Faulty variant: the key in the status is not looked at.
LookUpWebhookUnchecked ==
    /\ At("get") /\ kind = "webhook"
    /\ (NoFault /\ Proceed("create")) \/ (Fault /\ Proceed("idle"))
    /\ UNCHANGED <<kind, cr, pcache, instance, objectVars>>

\* A webhook is looked up in the status alone.  Reading the Secret with its key
\* may fail.
LookUpWebhook ==
    /\ At("get") /\ kind = "webhook"
    /\ \/ NoFault /\ Proceed(IF pr.object.id = 0 THEN "create" ELSE "ready")
       \/ Fault /\ pr.object.id = 0 /\ Proceed("idle")
    /\ UNCHANGED <<kind, cr, pcache, instance, objectVars>>

\* Conditions of a gate come after its creation, a description with it.
Created(id) ==
    /\ issued' = id /\ objects' = objects \cup {id}
    /\ content' = IF kind = "gate" THEN {} ELSE Wanted.details
    /\ default' = FALSE

Create ==
    /\ At("create") /\ kind # "webhook"
    /\ \/ /\ instance = "Ready" /\ objects = {} /\ Created(issued + 1)
          /\ \/ /\ NoFault
                /\ pr' = [pr EXCEPT !.pc = IF kind = "gate" THEN "adjust" ELSE "default",
                                    !.seen = {}, !.object.id = IF Recorded THEN issued' ELSE 0]
             \/ Fault /\ Proceed("failed")
       \/ CallFails(objects = {}) /\ Proceed("failed") /\ UNCHANGED objectVars
    /\ UNCHANGED <<kind, cr, pcache, instance>>

\* SonarQube makes another webhook of the same name or, as the documentation has
\* it, refuses to.  The client sends the call again if its answer is lost.
CreateWebhook ==
    /\ At("create") /\ kind = "webhook"
    /\ \/ /\ instance = "Ready" /\ Created(issued + 1)
          /\ \/ NoFault /\ pr' = [pr EXCEPT !.pc = "ready", !.object.id = issued']
             \/ Fault /\ Proceed("failed")
       \/ /\ instance = "Ready" /\ Fault
          /\ issued' = issued + 2 /\ objects' = objects \cup {issued + 1, issued + 2}
          /\ pr' = [pr EXCEPT !.pc = "ready", !.object.id = issued']
          /\ UNCHANGED <<content, default>>
       \/ /\ CallFails(objects = {})
          /\ Proceed("failed") /\ UNCHANGED objectVars
    /\ UNCHANGED <<kind, cr, pcache, instance>>

Removals == pr.seen \ Wanted.details
Additions == Wanted.details \ pr.seen
Diff == Removals \cup Additions

\* Removing a condition that is gone and adding one that is there are refused.
Accepted == Removals \subseteq content /\ Additions \cap content = {}

Reconciled(done) == content' = (content \ (done \cap Removals)) \cup (done \cap Additions)

\* reconcileConditions removes first, then adds; an error is published.
ReconcileConditions ==
    /\ At("adjust") /\ kind = "gate"
    /\ \/ /\ Diff = {} \/ (instance = "Ready" /\ objects # {} /\ Accepted)
          /\ NoFault /\ Reconciled(Diff) /\ Proceed("default")
       \/ /\ Diff # {} /\ CallFails(objects # {} /\ Accepted)
          /\ \E done \in SUBSET Diff :
               /\ done \cap Additions # {} => Removals \subseteq done
               /\ instance # "Ready" \/ objects = {} => done = {}
               /\ Reconciled(done)
          /\ Proceed("failed")
    /\ UNCHANGED <<kind, cr, pcache, instance, objects, issued, default>>

\* The description of a group that exists already, best-effort and unless it is
\* to be empty; a template that exists already is left as it is.
SyncDescription ==
    /\ At("adjust") /\ kind # "gate" /\ Proceed("default")
    /\ \/ /\ kind \in {"group", "built-in"} /\ Wanted.details # {}
          /\ \/ /\ instance = "Ready" /\ objects # {} /\ NoFault
                /\ content' = Wanted.details
             \/ CallFails(objects # {}) /\ UNCHANGED content
       \/ /\ kind = "template" \/ Wanted.details = {}
          /\ NoFault /\ UNCHANGED content
    /\ UNCHANGED <<kind, cr, pcache, instance, objects, issued, default>>

\* SetAsDefault and SetDefaultPermissionTemplate, best-effort.
SetDefault ==
    /\ At("default") /\ Proceed("ready")
    /\ \/ /\ Wanted.default /\ kind \in {"gate", "template"}
          /\ \/ instance = "Ready" /\ objects # {} /\ NoFault /\ default' = TRUE
             \/ CallFails(objects # {}) /\ UNCHANGED default
       \/ /\ ~Wanted.default \/ kind \in {"group", "built-in"}
          /\ NoFault /\ UNCHANGED default
    /\ UNCHANGED <<kind, cr, pcache, instance, objects, issued, content>>

\* The status update that ends a reconcile.
PublishReady ==
    /\ At("ready")
    /\ OwnWrite([cr EXCEPT !.phase = "Ready", !.id = pr.object.id], "idle", "idle")
    /\ UNCHANGED <<kind, instance, objectVars>>

\* What is deleted: by name, or by the id in the status.
Doomed == CASE kind = "group" -> objects
            [] kind = "built-in" -> {}
            [] Recorded -> objects \cap {pr.object.id}

\* SonarQube keeps a gate that is the default.
Deletable == Doomed # {} /\ ~(kind = "gate" /\ default)

Deleted(ids) ==
    /\ objects' = objects \ ids
    /\ IF objects' = {} THEN content' = {} /\ default' = FALSE ELSE UNCHANGED <<content, default>>
    /\ UNCHANGED issued

\* Faulty variant: only the object of a resource that is Ready is deleted.
DeleteReadyObject ==
    /\ At("delete") /\ Proceed("release")
    /\ \/ /\ instance = "Ready" /\ Deletable /\ pr.object.phase = "Ready"
          /\ NoFault /\ Deleted(Doomed)
       \/ CallFails(Deletable /\ pr.object.phase = "Ready") /\ UNCHANGED objectVars
    /\ UNCHANGED <<kind, cr, pcache, instance>>

\* The release of the finalizer follows, whatever the outcome.
DeleteObject ==
    /\ At("delete")
    /\ pr' = [pr EXCEPT !.pc = "release", !.kept = kind = "gate" /\ default]
    /\ \/ instance = "Ready" /\ Deletable /\ NoFault /\ Deleted(Doomed)
       \/ CallFails(Deletable) /\ UNCHANGED objectVars
    /\ UNCHANGED <<kind, cr, pcache, instance>>

Work ==
    \/ LookUp \/ LookUpWebhook \/ Create \/ CreateWebhook \/ ReconcileConditions
    \/ SyncDescription \/ SetDefault \/ PublishReady \/ DeleteObject

Step == Lifecycle \/ Work

-----------------------------------------------------------------------------
(* Users, SonarQube's administrators, the informer, crashes *)

Demanded(wish) == [Absent EXCEPT !.exists = TRUE, !.spec = wish]

UserApplies ==
    /\ Spend("edits")
    /\ \/ ~cr.exists /\ \E wish \in Wishes : UserWrites(Demanded(wish))
       \/ Editable /\ \E wish \in Wishes \ {cr.spec} :
            UserWrites([cr EXCEPT !.spec = wish])
    /\ UNCHANGED <<kind, instance, objectVars>>

UserRemoves == Spend("edits") /\ UserDeletes /\ UNCHANGED <<kind, instance, objectVars>>

\* In SonarQube's UI a detail is changed, the default moves, the object goes.
ChangeInUI ==
    /\ Spend("edits") /\ objects # {}
    /\ \/ /\ \E d \in Details :
               content' = IF d \in content THEN content \ {d} ELSE content \cup {d}
          /\ UNCHANGED <<objects, issued, default>>
       \/ kind \in {"gate", "template"} /\ default' = ~default /\ UNCHANGED <<objects, issued, content>>
       \/ kind # "built-in" /\ ~(kind = "gate" /\ default) /\ Deleted(objects)
    /\ UNCHANGED <<kind, cr, pcache, instance, pr>>

Sync == SyncResource /\ UNCHANGED <<kind, objectVars>>
Turn == InstanceTurns /\ UNCHANGED <<kind, objectVars>>
ManagerRestart == Restart /\ UNCHANGED <<kind, objectVars>>

-----------------------------------------------------------------------------
(* The system *)

\* A Ready instance and a new resource, or none yet; an object of that name may
\* exist already.
Init ==
    /\ kind \in Kinds
    /\ cr \in {Absent} \cup {Demanded(wish) : wish \in Wishes}
    /\ pcache = [object |-> cr, fresh |-> TRUE]
    /\ instance = "Ready"
    /\ pr = NoReconcile
    /\ issued \in (IF kind = "built-in" THEN {1} ELSE IF kind = "webhook" THEN {0} ELSE {0, 1})
    /\ objects = 1 .. issued
    /\ content = {} /\ default = FALSE
    /\ budget = [faults |-> MaxFaults, lags |-> MaxLags, edits |-> MaxEdits, turns |-> MaxTurns]

Next == Start \/ Step \/ UserApplies \/ UserRemoves \/ ChangeInUI \/ Sync \/ Turn \/ ManagerRestart

\* As in SonarQubeProject.
Fairness == WF_vars(Start) /\ WF_vars(Step) /\ WF_vars(Sync)

Spec == Init /\ [][Next]_vars
FairSpec == Spec /\ Fairness

-----------------------------------------------------------------------------
(* Properties *)

Maintained == Editable /\ instance = "Ready"

\* The operator creates no object that nobody would delete: when one appears the
\* stored resource carries the finalizer.
CreatedUnderFinalizer ==
    [][issued' > issued => cr.exists /\ cr.finalizer]_vars

\* Whatever calls failed, users edited, administrators changed or deleted, a gate
\* comes back to its conditions, a group to its description, gate and template to
\* being the default, and the status records the object that is there.
InLine ==
    /\ objects # {}
    /\ Recorded => objects = {cr.id}
    /\ kind = "gate" => content = cr.spec.details
    /\ kind = "group" /\ cr.spec.details # {} => content = cr.spec.details
    /\ kind \in {"gate", "template"} /\ cr.spec.default => default

\* A resource being deleted always makes progress and leaves Kubernetes.
DeletionCompletes == cr.deleting ~> ~cr.exists

\* An object the status records, or a group, stays behind only if a call failed,
\* the instance was not there or SonarQube keeps the object, and never because the
\* copy that was deleted by was an old one.
RecordedDeleted ==
    [][cr.finalizer /\ ~cr'.exists
         => \/ kind = "built-in"
            \/ kind = "group" /\ objects = {}
            \/ Recorded /\ cr.id \notin objects
            \/ pr.kept
            \/ budget.faults < MaxFaults \/ budget.turns < MaxTurns]_vars

\* Running the loop twice has the result of running it once: the webhooks of that
\* name are, in the end, the one that the status records.
WebhookIdempotent ==
    <>[](Maintained /\ kind = "webhook" => objects \subseteq {cr.id})

=============================================================================
