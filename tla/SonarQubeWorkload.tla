-------------------------- MODULE SonarQubeWorkload --------------------------
(***************************************************************************)
(* What the SonarQubeInstance controller deploys, and the validating       *)
(* webhook for the instance's spec: StatefulSet, headless Service, Service *)
(* and Ingress, their owner and garbage collection, the pod that the       *)
(* StatefulSet runs and the database it leaves behind.  SonarQubeInstance  *)
(* has the rest of the Reconcile, between the Ingress and the status.      *)
(*                                                                         *)
(* Of an object only what the controller asserts is kept, its "content".   *)
(* Every Get reads the informer cache: what decides is whether the cache   *)
(* shows the object, and whether in its stored version, since an Update    *)
(* replaces all the content.  "uid" tells two instances of one name, one   *)
(* after the other, apart.                                                 *)
(***************************************************************************)
EXTENDS Naturals

CONSTANTS
    Versions,       \* values of spec.version
    PartsOf,        \* major and minor of each
    Hosts,          \* values of spec.ingress.host
    Wishes,         \* specs users apply
    Bounds          \* budgets: how often something goes wrong or is tampered with,
                    \* a reconcile starts from a stale instance, users edit that

\* "numeric": they are numbers in the text of the version, too.
Parts == [major : Nat, minor : Nat, numeric : BOOLEAN]
None == "none"
Disabled == "disabled"      \* not spec.ingress.enabled; an enabled Ingress has a host

Wish == [version : Versions, enterprise : BOOLEAN, cluster : BOOLEAN,
         host : Hosts \cup {Disabled}]

ASSUME WorkloadAssumption ==
    /\ PartsOf \in [Versions -> Parts] /\ None \notin Versions
    /\ Disabled \notin Hosts
    /\ Wishes \subseteq Wish /\ Wishes # {}
    /\ Bounds \subseteq [faults : Nat, lags : Nat, edits : Nat]

VARIABLES
    inst,           \* the stored SonarQubeInstance
    status,         \* its status: URL and Degraded condition
    cache,          \* the informer's copy of the instance
    ir,             \* the reconcile in flight
    objects,        \* the stored workload objects
    seen,           \* what the informers have of them
    running,        \* the version of the pod
    schema,         \* the version the database was last migrated to
    waived,         \* an order of versions was not, or could not be, checked
    budget          \* what is left of the bounds

instVars == <<inst, status, cache>>
podVars == <<running, schema>>
vars == <<instVars, ir, objects, seen, podVars, waived, budget>>

-----------------------------------------------------------------------------
(* Types *)

Objects == {"statefulset", "headless", "service", "ingress"}
Steps == Objects \cup {"idle", "status"}

Instance == [uid : Nat, exists : BOOLEAN, spec : Wish]
InstanceStatus == [url : Hosts \cup {"service", None}, degraded : BOOLEAN]
NoStatus == [url |-> None, degraded |-> FALSE]

Object == [exists : BOOLEAN, owner : Nat,
           content : Versions \cup Hosts \cup {"operator's", "somebody's"}]
NoObject == [exists |-> FALSE, owner |-> 0, content |-> "somebody's"]

WorkloadTypeOK ==
    /\ inst \in Instance /\ status \in InstanceStatus
    /\ cache \in [object : Instance, fresh : BOOLEAN]
    /\ ir \in [step : Steps, object : Instance, fresh : BOOLEAN]
    /\ objects \in [Objects -> Object]
    /\ objects["statefulset"].exists => objects["statefulset"].content \in Versions
    /\ seen \in [Objects -> [exists : BOOLEAN, fresh : BOOLEAN]]
    /\ running \in Versions \cup {None} /\ schema \in Versions \cup {None}
    /\ waived \in BOOLEAN
    /\ budget \in [faults : Nat, lags : Nat, edits : Nat]

-----------------------------------------------------------------------------
(* Admission *)

Lower(v, w) ==
    \/ PartsOf[v].major < PartsOf[w].major
    \/ PartsOf[v].major = PartsOf[w].major /\ PartsOf[v].minor < PartsOf[w].minor

Numeric(v) == PartsOf[v].numeric

\* Faulty variant: a downgrade has both parts lower.
NotDowngradedAtAll(old, new) ==
    Numeric(old) /\ Numeric(new) => ~(Lower(new, old) /\ PartsOf[new].minor < PartsOf[old].minor)

\* validateVersionNotDowngraded, with parseMajorMinor.
NotDowngraded(old, new) == Numeric(old) /\ Numeric(new) => ~Lower(new, old)

\* validateClusterEditionMatch.
ClusterEditionMatch(spec) == spec.cluster => spec.enterprise

ValidateCreate(spec) == ClusterEditionMatch(spec)
ValidateUpdate(old, new) ==
    NotDowngraded(old.version, new.version) /\ ClusterEditionMatch(new)

-----------------------------------------------------------------------------
(* Bounds and writes *)

Spend(bound) == budget[bound] > 0 /\ budget' = [budget EXCEPT ![bound] = @ - 1]
Fault == Spend("faults")
NoFault == UNCHANGED budget

Store(o, new) ==
    /\ objects' = [objects EXCEPT ![o] = new]
    /\ seen' = [seen EXCEPT ![o].fresh = @ /\ new = objects[o]]

Nobody == [uid |-> 0, exists |-> FALSE, spec |-> CHOOSE wish \in Wishes : TRUE]
Idle == [step |-> "idle", object |-> Nobody, fresh |-> FALSE]

Current(o) == [exists |-> objects[o].exists, fresh |-> TRUE]

At(step) == ir.step = step
Proceed(step) == ir' = IF step = "idle" THEN Idle ELSE [ir EXCEPT !.step = step]

-----------------------------------------------------------------------------
(* The reconcile, step by step *)

Start ==
    /\ At("idle") /\ cache.object.exists
    /\ IF cache.fresh THEN NoFault ELSE Spend("lags")
    /\ ir' = [step |-> "statefulset", object |-> cache.object, fresh |-> cache.fresh]
    /\ UNCHANGED <<instVars, objects, seen, podVars, waived>>

Wanted == ir.object.spec

\* buildStatefulSet, buildHeadlessService, buildService, buildIngress.  Of the
\* pod template the version stands for everything that comes from spec.
Asserted(o) ==
    CASE o = "statefulset" -> Wanted.version
      [] o \in {"headless", "service"} -> "operator's"
      [] o = "ingress" -> Wanted.host

\* Faulty variant: whether the Ingress is enabled is not asked.
DueAlways(o) == o = "headless" => ~seen[o].exists

\* The headless Service is never updated; an Ingress that is disabled is left as
\* it is.
Due(o) ==
    CASE o \in {"statefulset", "service"} -> TRUE
      [] o = "headless" -> ~seen[o].exists
      [] o = "ingress" -> Wanted.host # Disabled

\* Faulty variant: no controller reference on what is created.
BuiltUnowned(o) == [exists |-> TRUE, owner |-> 0, content |-> Asserted(o)]
Built(o) == [exists |-> TRUE, owner |-> ir.object.uid, content |-> Asserted(o)]

\* Create if the cache does not show the object, else Update with the cached
\* resourceVersion; the owner reference of what exists stays.
Accepted(o) == IF seen[o].exists THEN seen[o].fresh ELSE ~objects[o].exists

\* Faulty variant: what exists is left alone.
AppliedOnce(o) == IF seen[o].exists THEN objects[o] ELSE Built(o)
Applied(o) == IF seen[o].exists THEN [objects[o] EXCEPT !.content = Asserted(o)] ELSE Built(o)

After == [statefulset |-> "headless", headless |-> "service", service |-> "ingress",
          ingress |-> "status"]

\* reconcileStatefulSet, HeadlessService, Service and Ingress in turn; the first
\* error ends the reconcile with no status update.  What the API server fills in
\* makes every StatefulSet differ from the one built, so the Update is sent each
\* time; the stored object changes only if its content does.
ReconcileObject ==
    \E o \in Objects :
        /\ At(o)
        /\ \/ ~Due(o) /\ NoFault /\ Proceed(After[o]) /\ UNCHANGED <<objects, seen>>
           \/ /\ Due(o) /\ Accepted(o) /\ Store(o, Applied(o))
              /\ ((NoFault /\ Proceed(After[o])) \/ (Fault /\ Proceed("idle")))
           \/ /\ Due(o) /\ ((~Accepted(o) /\ NoFault) \/ Fault)
              /\ Proceed("idle") /\ UNCHANGED <<objects, seen>>
        /\ UNCHANGED <<instVars, podVars, waived>>

\* surfaceScaffoldDegraded, at the start of the reconcile.
Degraded == Wanted.cluster

\* Faulty variant: a URL that is published already stays.
PublishedOnce ==
    [url |-> IF status.url # None THEN status.url
             ELSE IF Wanted.host = Disabled THEN "service" ELSE Wanted.host,
     degraded |-> Degraded]

Published ==
    [url |-> IF Wanted.host = Disabled THEN "service" ELSE Wanted.host, degraded |-> Degraded]

UpdateStatus ==
    /\ At("status") /\ Proceed("idle")
    /\ \/ /\ ir.fresh /\ inst.exists /\ NoFault
          /\ status' = Published
          /\ cache' = [cache EXCEPT !.fresh = @ /\ status' = status]
       \/ /\ ((~(ir.fresh /\ inst.exists) /\ NoFault) \/ Fault)
          /\ UNCHANGED <<status, cache>>
    /\ UNCHANGED <<inst, objects, seen, podVars, waived>>

Reconcile == Start \/ ReconcileObject \/ UpdateStatus

-----------------------------------------------------------------------------
(* Kubernetes and SonarQube *)

SyncInstance ==
    /\ ~cache.fresh /\ cache' = [object |-> inst, fresh |-> TRUE]
    /\ UNCHANGED <<inst, status, ir, objects, seen, podVars, waived, budget>>

\* No step reads more than one object: the informers may as well catch up together.
SyncObjects ==
    /\ \E o \in Objects : ~seen[o].fresh
    /\ seen' = [o \in Objects |-> Current(o)]
    /\ UNCHANGED <<instVars, ir, objects, podVars, waived, budget>>

\* Objects whose owner is gone, or is another instance of that name by now.
CollectGarbage(o) ==
    /\ objects[o].exists /\ objects[o].owner # 0
    /\ ~(inst.exists /\ inst.uid = objects[o].owner)
    /\ Store(o, NoObject)
    /\ UNCHANGED <<instVars, ir, podVars, waived, budget>>

\* The pod is replaced; a SonarQube newer than its database migrates it.
Deployed ==
    IF objects["statefulset"].exists THEN objects["statefulset"].content ELSE None

Rollout ==
    /\ running # Deployed /\ running' = Deployed
    /\ schema' = IF Deployed # None /\ (schema = None \/ Lower(schema, Deployed))
                 THEN Deployed ELSE schema
    /\ UNCHANGED <<instVars, ir, objects, seen, waived, budget>>

ManagerRestart ==
    /\ Fault /\ ir' = Idle
    /\ cache' = [object |-> inst, fresh |-> TRUE]
    /\ seen' = [o \in Objects |-> Current(o)]
    /\ UNCHANGED <<inst, status, objects, podVars, waived>>

-----------------------------------------------------------------------------
(* Users *)

\* Another write than the reconcile's.
WriteInstance(new) ==
    /\ inst' = new
    /\ cache' = [cache EXCEPT !.fresh = FALSE]
    /\ ir' = [ir EXCEPT !.fresh = FALSE]

\* Create and update, validated unless the webhook does not answer.
Apply(wish) ==
    LET valid == IF inst.exists THEN ValidateUpdate(inst.spec, wish) ELSE ValidateCreate(wish)
        ordered == inst.exists /\ Numeric(inst.spec.version) /\ Numeric(wish.version)
    IN  /\ inst.exists => wish # inst.spec
        /\ \/ valid /\ Spend("edits") /\ waived' = (waived \/ ~ordered)
           \/ /\ ~valid /\ budget.edits > 0 /\ budget.faults > 0
              /\ budget' = [budget EXCEPT !.edits = @ - 1, !.faults = @ - 1]
              /\ waived' = TRUE
        /\ WriteInstance([uid |-> IF inst.exists THEN inst.uid ELSE inst.uid + 1,
                          exists |-> TRUE, spec |-> wish])
        /\ status' = IF inst.exists THEN status ELSE NoStatus
        /\ UNCHANGED <<objects, seen, podVars>>

\* No finalizer: the instance goes at once.  The volumes and the database stay.
Delete ==
    /\ inst.exists /\ Spend("edits")
    /\ WriteInstance([inst EXCEPT !.exists = FALSE])
    /\ UNCHANGED <<status, objects, seen, podVars, waived>>

\* Somebody deletes an object, or changes what the operator asserts on it.
Tamper(o) ==
    /\ objects[o].exists /\ Fault
    /\ \/ Store(o, NoObject) /\ UNCHANGED waived
       \/ /\ o \in {"service", "ingress"} /\ UNCHANGED waived
          /\ Store(o, [objects[o] EXCEPT !.content = "somebody's"])
       \/ /\ o = "statefulset" /\ waived' = TRUE
          /\ \E v \in Versions \ {objects[o].content} :
                Store(o, [objects[o] EXCEPT !.content = v])
    /\ UNCHANGED <<instVars, ir, podVars>>

-----------------------------------------------------------------------------
(* The system *)

\* A new instance in front of an empty database.
Init ==
    /\ \E wish \in Wishes :
         /\ ValidateCreate(wish)
         /\ inst = [uid |-> 1, exists |-> TRUE, spec |-> wish]
    /\ status = NoStatus
    /\ cache = [object |-> inst, fresh |-> TRUE]
    /\ ir = Idle
    /\ objects = [o \in Objects |-> NoObject]
    /\ seen = [o \in Objects |-> Current(o)]
    /\ running = None /\ schema = None /\ waived = FALSE
    /\ budget \in Bounds

Next ==
    \/ Reconcile \/ SyncInstance \/ SyncObjects \/ Rollout \/ ManagerRestart \/ Delete
    \/ \E o \in Objects : CollectGarbage(o) \/ Tamper(o)
    \/ \E wish \in Wishes : Apply(wish)

\* A reconcile that is due runs (the instance and what it owns are watched) and
\* finishes; informers, the garbage collector and the StatefulSet controller do
\* their work.
Fairness ==
    /\ WF_vars(Reconcile) /\ WF_vars(Rollout)
    /\ WF_vars(SyncInstance) /\ WF_vars(SyncObjects)
    /\ \A o \in Objects : WF_vars(CollectGarbage(o))

Spec == Init /\ [][Next]_vars /\ Fairness

-----------------------------------------------------------------------------
(* Properties *)

\* The pod never runs a version lower than the one its database was migrated to,
\* which SonarQube has no way back from; the webhook compares specs, while the pod
\* lags behind a StatefulSet written from copies that may be stale.  Not so once
\* an order was not checked: the instance was created anew, the webhook did not
\* answer, a version has no numbers, or somebody changed the StatefulSet.
NoDowngrade ==
    running # None /\ Lower(running, schema) => waived

\* Whatever was changed by hand, collected as garbage, refused or lost, the pod
\* comes back to the version in spec, the Services exist, the main one with the
\* operator's ports, and so does an Ingress that is enabled.
FollowsSpec ==
    <>[](inst.exists =>
            /\ running = inst.spec.version
            /\ objects["headless"].exists
            /\ objects["service"].exists /\ objects["service"].content = "operator's"
            /\ inst.spec.host # Disabled =>
                 objects["ingress"].exists /\ objects["ingress"].content = inst.spec.host)

\* The status ends up with the URL and the condition of the spec in force.
StatusFollowsSpec ==
    <>[](inst.exists =>
            /\ status.url = IF inst.spec.host = Disabled THEN "service" ELSE inst.spec.host
            /\ status.degraded = inst.spec.cluster)

\* Nothing runs for an instance that is gone, although a reconcile may have
\* created objects after the deletion, or have adopted those of a predecessor.
NothingLeftBehind ==
    <>[](~inst.exists => running = None /\ \A o \in Objects : ~objects[o].exists)

=============================================================================
