---------------------- MODULE SonarQubeWorkload_proofs ----------------------
(***************************************************************************)
(* Proofs about what the instance controller deploys, for all versions,    *)
(* specs and bounds: types, and that SonarQube does not run below the      *)
(* version its database was migrated to.                                   *)
(***************************************************************************)
EXTENDS SonarQubeWorkload, TLAPS

-----------------------------------------------------------------------------
(* The order of versions *)

NotAbove(v, w) == ~Lower(w, v)

\* Versions are ordered by major and minor, as numbers.
LEMMA OrderOfVersions ==
    /\ \A v \in Versions : NotAbove(v, v)
    /\ \A v, w \in Versions : Lower(v, w) => NotAbove(v, w)
    /\ \A u, v, w \in Versions : NotAbove(u, v) /\ NotAbove(v, w) => NotAbove(u, w)
<1>1. \A v \in Versions : PartsOf[v].major \in Nat /\ PartsOf[v].minor \in Nat
  BY WorkloadAssumption DEF Parts
<1> QED
  BY <1>1 DEF NotAbove, Lower

-----------------------------------------------------------------------------
(* The inductive invariant *)

StatefulSet == objects["statefulset"]

\* From the database to the spec, each copy is at least as high as what was made
\* from it: the informer never goes back and there is one reconcile at a time.
CopiesInOrder ==
    /\ NotAbove(cache.object.spec.version, inst.spec.version)
    /\ NotAbove(ir.object.spec.version, cache.object.spec.version) \/ At("idle")

StatefulSetInOrder ==
    StatefulSet.exists =>
        /\ NotAbove(StatefulSet.content, cache.object.spec.version)
        /\ At("statefulset") => NotAbove(StatefulSet.content, ir.object.spec.version)

SchemaInOrder ==
    schema # None =>
        /\ NotAbove(schema, cache.object.spec.version)
        /\ At("statefulset") => NotAbove(schema, ir.object.spec.version)
        /\ StatefulSet.exists => NotAbove(schema, StatefulSet.content)

PodInOrder == running # None => schema # None /\ NotAbove(schema, running)

InOrder == CopiesInOrder /\ StatefulSetInOrder /\ SchemaInOrder /\ PodInOrder

IInv == WorkloadTypeOK /\ (~waived => InOrder)

-----------------------------------------------------------------------------
(* Types *)

Budgets == [faults : Nat, lags : Nat, edits : Nat]
Reconciles == [step : Steps, object : Instance, fresh : BOOLEAN]

LEMMA BudgetType ==
    ASSUME WorkloadTypeOK,
           NoFault \/ Fault \/ Spend("lags") \/ Spend("edits")
    PROVE  budget' \in Budgets
  BY DEF WorkloadTypeOK, NoFault, Fault, Spend, Budgets

LEMMA IdleType == Idle \in Reconciles /\ Idle.step = "idle"
<1>1. Nobody.spec \in Wish
  BY WorkloadAssumption DEF Nobody
<1>2. Nobody \in Instance
  BY <1>1 DEF Nobody, Instance
<1> QED
  BY <1>2 DEF Idle, Reconciles, Steps

LEMMA ProceedType ==
    ASSUME WorkloadTypeOK, NEW step \in Steps, Proceed(step)
    PROVE  /\ ir' \in Reconciles /\ ir'.step = step
           /\ step # "idle" => ir'.object = ir.object
<1>1. CASE step = "idle"
  BY <1>1, IdleType DEF Proceed
<1>2. CASE step # "idle"
  BY <1>2 DEF Proceed, WorkloadTypeOK, Reconciles
<1> QED
  BY <1>1, <1>2

\* A stored object changes, and no other.
LEMMA StoreType ==
    ASSUME WorkloadTypeOK, NEW o \in Objects, NEW new \in Object, Store(o, new),
           o = "statefulset" /\ new.exists => new.content \in Versions
    PROVE  /\ objects' \in [Objects -> Object]
           /\ objects'["statefulset"].exists => objects'["statefulset"].content \in Versions
           /\ seen' \in [Objects -> [exists : BOOLEAN, fresh : BOOLEAN]]
           /\ objects'[o] = new
           /\ \A other \in Objects \ {o} : objects'[other] = objects[other]
<1>1. objects' = [objects EXCEPT ![o] = new]
  BY DEF Store
<1>2. /\ objects'[o] = new
      /\ \A other \in Objects \ {o} : objects'[other] = objects[other]
      /\ objects' \in [Objects -> Object]
  BY <1>1 DEF WorkloadTypeOK
<1>3. seen' \in [Objects -> [exists : BOOLEAN, fresh : BOOLEAN]]
  BY DEF Store, WorkloadTypeOK
<1>4. objects'["statefulset"].exists => objects'["statefulset"].content \in Versions
  <2>1. CASE o = "statefulset"
    BY <1>2, <2>1
  <2>2. CASE o # "statefulset"
    BY <1>2, <2>2 DEF WorkloadTypeOK, Objects
  <2> QED
    BY <2>1, <2>2
<1> QED
  BY <1>2, <1>3, <1>4

\* What the reconcile writes is an object, a StatefulSet one with a version.
LEMMA AppliedType ==
    ASSUME WorkloadTypeOK, NEW o \in Objects, Due(o)
    PROVE  /\ Applied(o) \in Object
           /\ o = "statefulset" => Applied(o).content = ir.object.spec.version
<1>1. ir.object \in Instance /\ objects[o] \in Object /\ seen[o].exists \in BOOLEAN
  BY DEF WorkloadTypeOK
<1>2. Wanted \in Wish /\ ir.object.uid \in Nat
  BY <1>1 DEF Wanted, Instance
<1>3. Asserted(o) \in Versions \cup Hosts \cup {"operator's", "somebody's"}
  BY <1>2 DEF Asserted, Due, Wish, Objects
<1>4. o = "statefulset" => Asserted(o) = ir.object.spec.version
  BY DEF Asserted, Wanted
<1>5. Built(o) \in Object /\ Built(o).exists /\ Built(o).content = Asserted(o)
  BY <1>2, <1>3 DEF Built, Object
<1>6. /\ [objects[o] EXCEPT !.content = Asserted(o)] \in Object
      /\ [objects[o] EXCEPT !.content = Asserted(o)].content = Asserted(o)
      /\ [objects[o] EXCEPT !.content = Asserted(o)].exists = objects[o].exists
  BY <1>1, <1>3 DEF Object
<1> QED
  BY <1>1, <1>4, <1>5, <1>6 DEF Applied

-----------------------------------------------------------------------------
(* Every step preserves the invariant *)

\* The versions that are compared are versions.
LEMMA VersionTypes ==
    ASSUME WorkloadTypeOK
    PROVE  /\ inst.spec.version \in Versions /\ cache.object.spec.version \in Versions
           /\ ir.object.spec.version \in Versions
           /\ StatefulSet.exists => StatefulSet.content \in Versions
           /\ running # None => running \in Versions
           /\ schema # None => schema \in Versions
  BY DEF WorkloadTypeOK, Instance, Wish, StatefulSet

LEMMA StartInv ==
    ASSUME IInv, Start
    PROVE  IInv'
<1> USE DEF IInv
<1>1. /\ ir' = [step |-> "statefulset", object |-> cache.object, fresh |-> cache.fresh]
      /\ UNCHANGED <<inst, status, cache, objects, seen, running, schema, waived>>
      /\ budget' \in Budgets
  BY BudgetType DEF Start, instVars, podVars
<1>2. WorkloadTypeOK'
  BY <1>1 DEF WorkloadTypeOK, Steps, Objects, Budgets
<1>3. ~waived => InOrder'
  BY <1>1, VersionTypes, OrderOfVersions
  DEF InOrder, CopiesInOrder, StatefulSetInOrder, SchemaInOrder, PodInOrder, StatefulSet
<1> QED
  BY <1>1, <1>2, <1>3

\* The reconcile goes on, or ends, and nothing else that is ordered changes.
LEMMA GoesOn ==
    ASSUME IInv, NEW step \in Steps \ {"statefulset"}, Proceed(step), ~At("idle"),
           UNCHANGED <<inst, cache.object, StatefulSet, running, schema, waived>>
    PROVE  ~waived' => InOrder'
<1>1. ir'.step = step /\ (step # "idle" => ir'.object = ir.object)
  BY ProceedType DEF IInv
<1> QED
  BY <1>1
  DEF IInv, InOrder, CopiesInOrder, StatefulSetInOrder, SchemaInOrder, PodInOrder, At

LEMMA AfterType ==
    ASSUME NEW o \in Objects
    PROVE  After[o] \in Steps \ {"statefulset", "idle"}
  BY DEF After, Objects, Steps

LEMMA ReconcileObjectInv ==
    ASSUME IInv, ReconcileObject
    PROVE  IInv'
<1> USE DEF IInv
<1>1. PICK o \in Objects :
         /\ At(o)
         /\ \/ NoFault /\ Proceed(After[o]) /\ UNCHANGED <<objects, seen>>
            \/ /\ Due(o) /\ Store(o, Applied(o))
               /\ ((NoFault /\ Proceed(After[o])) \/ (Fault /\ Proceed("idle")))
            \/ /\ NoFault \/ Fault
               /\ Proceed("idle") /\ UNCHANGED <<objects, seen>>
         /\ UNCHANGED <<instVars, podVars, waived>>
  BY DEF ReconcileObject
<1>2. UNCHANGED <<inst, status, cache, running, schema, waived>>
  BY <1>1 DEF instVars, podVars
<1>3. PICK step \in Steps \ {"statefulset"} : Proceed(step)
  BY <1>1, AfterType DEF Steps, Objects
<1>4. budget' \in Budgets /\ ir' \in Reconciles /\ ~At("idle")
  BY <1>1, <1>3, BudgetType, ProceedType DEF At, Objects
<1>5. CASE UNCHANGED <<objects, seen>>
  <2>1. WorkloadTypeOK'
    BY <1>2, <1>4, <1>5 DEF WorkloadTypeOK, Reconciles, Budgets
  <2>2. ~waived' => InOrder'
    BY <1>2, <1>3, <1>4, <1>5, GoesOn DEF StatefulSet
  <2> QED
    BY <2>1, <2>2
<1>6. CASE Due(o) /\ Store(o, Applied(o))
  <2>1. /\ Applied(o) \in Object
        /\ o = "statefulset" => Applied(o).content = ir.object.spec.version
    BY <1>6, AppliedType
  <2>2. /\ objects' \in [Objects -> Object]
        /\ objects'["statefulset"].exists => objects'["statefulset"].content \in Versions
        /\ seen' \in [Objects -> [exists : BOOLEAN, fresh : BOOLEAN]]
        /\ objects'[o] = Applied(o)
        /\ \A other \in Objects \ {o} : objects'[other] = objects[other]
    BY <1>6, <2>1, VersionTypes, StoreType
  <2>3. WorkloadTypeOK'
    BY <1>2, <1>4, <2>2 DEF WorkloadTypeOK, Reconciles, Budgets
  <2>4. CASE o # "statefulset"
    BY <1>2, <1>3, <1>4, <2>2, <2>3, <2>4, GoesOn DEF StatefulSet, Objects
  <2>5. CASE o = "statefulset"
    <3>1. StatefulSet'.content = ir.object.spec.version /\ At("statefulset")
      BY <1>1, <2>1, <2>2, <2>5 DEF StatefulSet
    <3>2. ir'.step # "statefulset" /\ (ir'.step # "idle" => ir'.object = ir.object)
      BY <1>3, ProceedType
    <3>3. ~waived => InOrder'
      BY <1>2, <1>4, <3>1, <3>2, VersionTypes, OrderOfVersions
      DEF InOrder, CopiesInOrder, StatefulSetInOrder, SchemaInOrder, PodInOrder, At
    <3> QED
      BY <1>2, <2>3, <3>3
  <2> QED
    BY <2>4, <2>5
<1> QED
  BY <1>1, <1>5, <1>6

LEMMA UpdateStatusInv ==
    ASSUME IInv, UpdateStatus
    PROVE  IInv'
<1> USE DEF IInv
<1>1. /\ At("status") /\ Proceed("idle")
      /\ NoFault \/ Fault
      /\ UNCHANGED <<inst, objects, seen, running, schema, waived>>
      /\ status' = Published \/ UNCHANGED status
      /\ \/ cache' = [cache EXCEPT !.fresh = @ /\ status' = status]
         \/ UNCHANGED cache
  BY DEF UpdateStatus, podVars
<1>2. budget' \in Budgets /\ ir' \in Reconciles
  BY <1>1, BudgetType, ProceedType DEF Steps
<1>3. Published \in InstanceStatus
  BY DEF Published, InstanceStatus, Wanted, Degraded, WorkloadTypeOK, Instance, Wish
<1>4. cache' \in [object : Instance, fresh : BOOLEAN] /\ cache'.object = cache.object
  BY <1>1 DEF WorkloadTypeOK
<1>5. WorkloadTypeOK'
  BY <1>1, <1>2, <1>3, <1>4 DEF WorkloadTypeOK, Reconciles, Budgets
<1>6. ~waived' => InOrder'
  BY <1>1, <1>4, GoesOn DEF StatefulSet, At, Steps
<1> QED
  BY <1>5, <1>6

LEMMA SyncInstanceInv ==
    ASSUME IInv, SyncInstance
    PROVE  IInv'
<1> USE DEF IInv
<1>1. /\ cache' = [object |-> inst, fresh |-> TRUE]
      /\ UNCHANGED <<inst, status, ir, objects, seen, running, schema, waived, budget>>
  BY DEF SyncInstance, podVars
<1>2. WorkloadTypeOK'
  BY <1>1 DEF WorkloadTypeOK
<1>3. ~waived => InOrder'
  BY <1>1, VersionTypes, OrderOfVersions
  DEF InOrder, CopiesInOrder, StatefulSetInOrder, SchemaInOrder, PodInOrder, StatefulSet, At
<1> QED
  BY <1>1, <1>2, <1>3

LEMMA SyncObjectsInv ==
    ASSUME IInv, SyncObjects
    PROVE  IInv'
<1> USE DEF IInv
<1>1. /\ seen' \in [Objects -> [exists : BOOLEAN, fresh : BOOLEAN]]
      /\ UNCHANGED <<inst, status, cache, ir, objects, running, schema, waived, budget>>
  BY DEF SyncObjects, Current, instVars, podVars, WorkloadTypeOK, Object
<1> QED
  BY <1>1
  DEF WorkloadTypeOK, InOrder, CopiesInOrder, StatefulSetInOrder, SchemaInOrder,
      PodInOrder, StatefulSet, At

\* An object goes, or another one than the StatefulSet changes, or the change of the
\* StatefulSet is owned up to.
LEMMA OthersStoreInv ==
    ASSUME IInv, NEW o \in Objects, NEW new \in Object, Store(o, new),
           budget' \in Budgets, waived' \in BOOLEAN, waived => waived',
           UNCHANGED <<instVars, ir, podVars>>,
           ~new.exists \/ o # "statefulset" \/ (waived' /\ new.content \in Versions)
    PROVE  IInv'
<1> USE DEF IInv
<1>1. UNCHANGED <<inst, status, cache, running, schema>>
  BY DEF instVars, podVars
<1>2. /\ objects' \in [Objects -> Object]
      /\ objects'["statefulset"].exists => objects'["statefulset"].content \in Versions
      /\ seen' \in [Objects -> [exists : BOOLEAN, fresh : BOOLEAN]]
      /\ objects'[o] = new
      /\ \A other \in Objects \ {o} : objects'[other] = objects[other]
  BY StoreType
<1>3. WorkloadTypeOK'
  BY <1>1, <1>2 DEF WorkloadTypeOK, Budgets
<1>4. ~waived' => ~StatefulSet'.exists \/ StatefulSet' = StatefulSet
  BY <1>2 DEF StatefulSet, Objects
<1>5. ~waived' => InOrder'
  BY <1>1, <1>4
  DEF InOrder, CopiesInOrder, StatefulSetInOrder, SchemaInOrder, PodInOrder, At
<1> QED
  BY <1>3, <1>5

LEMMA CollectGarbageInv ==
    ASSUME IInv, NEW o \in Objects, CollectGarbage(o)
    PROVE  IInv'
<1>1. NoObject \in Object /\ ~NoObject.exists
  BY DEF NoObject, Object
<1> QED
  BY <1>1, OthersStoreInv DEF CollectGarbage, IInv, WorkloadTypeOK, Budgets

LEMMA TamperInv ==
    ASSUME IInv, NEW o \in Objects, Tamper(o)
    PROVE  IInv'
<1>1. /\ budget' \in Budgets /\ UNCHANGED <<instVars, ir, podVars>>
      /\ objects[o] \in Object /\ waived \in BOOLEAN
  BY BudgetType DEF Tamper, IInv, WorkloadTypeOK
<1>2. CASE Store(o, NoObject) /\ UNCHANGED waived
  <2>1. NoObject \in Object /\ ~NoObject.exists
    BY DEF NoObject, Object
  <2> QED
    BY <1>1, <1>2, <2>1, OthersStoreInv
<1>3. CASE /\ o \in {"service", "ingress"} /\ UNCHANGED waived
           /\ Store(o, [objects[o] EXCEPT !.content = "somebody's"])
  <2>1. [objects[o] EXCEPT !.content = "somebody's"] \in Object
    BY <1>1 DEF Object
  <2> QED
    BY <1>1, <1>3, <2>1, OthersStoreInv
<1>4. CASE /\ o = "statefulset" /\ waived' = TRUE
           /\ \E v \in Versions \ {objects[o].content} :
                Store(o, [objects[o] EXCEPT !.content = v])
  <2>1. PICK v \in Versions : Store(o, [objects[o] EXCEPT !.content = v])
    BY <1>4
  <2>2. /\ [objects[o] EXCEPT !.content = v] \in Object
        /\ [objects[o] EXCEPT !.content = v].content = v
    BY <1>1 DEF Object
  <2> QED
    BY <1>1, <1>4, <2>1, <2>2, OthersStoreInv
<1> QED
  BY <1>2, <1>3, <1>4 DEF Tamper

\* The one step that migrates the database: to what the StatefulSet has, which is
\* not below what it was migrated to before.
LEMMA RolloutInv ==
    ASSUME IInv, Rollout
    PROVE  IInv'
<1> USE DEF IInv
<1>1. UNCHANGED <<inst, status, cache, ir, objects, seen, waived, budget>>
  BY DEF Rollout, instVars
<1>2. /\ running' = Deployed
      /\ schema' = IF Deployed # None /\ (schema = None \/ Lower(schema, Deployed))
                   THEN Deployed ELSE schema
  BY DEF Rollout
<1>3. /\ Deployed = IF StatefulSet.exists THEN StatefulSet.content ELSE None
      /\ Deployed # None => StatefulSet.exists /\ Deployed \in Versions
      /\ Deployed \in Versions \cup {None}
  BY VersionTypes DEF Deployed, StatefulSet
<1>4. WorkloadTypeOK'
  BY <1>1, <1>2, <1>3 DEF WorkloadTypeOK
<1>5. ASSUME ~waived
      PROVE  InOrder'
  <2>1. CopiesInOrder' /\ StatefulSetInOrder'
    BY <1>1, <1>5 DEF InOrder, CopiesInOrder, StatefulSetInOrder, StatefulSet, At
  <2>2. CASE schema' = schema
    <3>1. SchemaInOrder'
      BY <1>1, <1>5, <2>2 DEF InOrder, SchemaInOrder, StatefulSet, At
    <3>2. PodInOrder'
      BY <1>2, <1>3, <1>5, <2>2, VersionTypes
      DEF InOrder, SchemaInOrder, PodInOrder
    <3> QED
      BY <2>1, <3>1, <3>2 DEF InOrder
  <2>3. CASE Deployed # None /\ schema' = Deployed
    BY <1>1, <1>2, <1>3, <1>5, <2>1, <2>3, VersionTypes, OrderOfVersions
    DEF InOrder, StatefulSetInOrder, SchemaInOrder, PodInOrder, StatefulSet, At
  <2> QED
    BY <1>2, <2>2, <2>3
<1> QED
  BY <1>1, <1>4, <1>5

\* Whoever writes the instance, the copies stay what they are.
LEMMA WriteInstanceInv ==
    ASSUME IInv, NEW new \in Instance, WriteInstance(new),
           status' \in InstanceStatus, budget' \in Budgets,
           waived' \in BOOLEAN, waived => waived',
           UNCHANGED <<objects, seen, podVars>>,
           waived' \/ NotAbove(inst.spec.version, new.spec.version)
    PROVE  IInv'
<1> USE DEF IInv
<1>1. /\ inst' = new /\ cache' \in [object : Instance, fresh : BOOLEAN]
      /\ cache'.object = cache.object
      /\ ir' \in Reconciles /\ ir'.object = ir.object /\ ir'.step = ir.step
      /\ UNCHANGED <<running, schema>>
  BY DEF WriteInstance, WorkloadTypeOK, Reconciles, podVars
<1>2. WorkloadTypeOK'
  BY <1>1 DEF WorkloadTypeOK, Reconciles, Budgets
<1>3. new.spec.version \in Versions
  BY DEF Instance, Wish
<1>4. ~waived' => InOrder'
  BY <1>1, <1>3, VersionTypes, OrderOfVersions
  DEF InOrder, CopiesInOrder, StatefulSetInOrder, SchemaInOrder, PodInOrder, StatefulSet, At
<1> QED
  BY <1>2, <1>4

LEMMA DeleteInv ==
    ASSUME IInv, Delete
    PROVE  IInv'
<1> DEFINE new == [inst EXCEPT !.exists = FALSE]
<1>1. inst \in Instance
  BY DEF IInv, WorkloadTypeOK
<1>2. new \in Instance /\ new.spec = inst.spec
  BY <1>1 DEF Instance
<1>3. /\ WriteInstance(new) /\ status' \in InstanceStatus /\ budget' \in Budgets
      /\ UNCHANGED <<objects, seen, podVars, waived>> /\ waived \in BOOLEAN
  BY BudgetType DEF Delete, IInv, WorkloadTypeOK
<1>4. NotAbove(inst.spec.version, new.spec.version)
  BY <1>2, VersionTypes, OrderOfVersions DEF IInv
<1> HIDE DEF new
<1> QED
  BY <1>2, <1>3, <1>4, WriteInstanceInv

LEMMA ApplyInv ==
    ASSUME IInv, NEW wish \in Wishes, Apply(wish)
    PROVE  IInv'
<1> DEFINE new == [uid |-> IF inst.exists THEN inst.uid ELSE inst.uid + 1,
                   exists |-> TRUE, spec |-> wish]
<1>1. wish \in Wish /\ inst \in Instance /\ waived \in BOOLEAN
  BY WorkloadAssumption DEF IInv, WorkloadTypeOK
<1>2. new \in Instance /\ new.spec = wish
  BY <1>1 DEF Instance
<1>3. WriteInstance(new) /\ UNCHANGED <<objects, seen, podVars>>
  BY DEF Apply
<1>4. status' \in InstanceStatus
  BY DEF Apply, IInv, WorkloadTypeOK, NoStatus, InstanceStatus
<1>5. budget' \in Budgets
  <2>1. CASE Spend("edits")
    BY <2>1, BudgetType DEF IInv
  <2>2. CASE /\ budget.edits > 0 /\ budget.faults > 0
             /\ budget' = [budget EXCEPT !.edits = @ - 1, !.faults = @ - 1]
    <3>1. budget \in Budgets
      BY DEF IInv, WorkloadTypeOK, Budgets
    <3>2. budget.edits - 1 \in Nat /\ budget.faults - 1 \in Nat
      BY <2>2, <3>1 DEF Budgets
    <3> QED
      BY <2>2, <3>1, <3>2 DEF Budgets
  <2>3. Spend("edits") \/ /\ budget.edits > 0 /\ budget.faults > 0
                          /\ budget' = [budget EXCEPT !.edits = @ - 1, !.faults = @ - 1]
    BY Zenon DEF Apply
  <2> QED
    BY <2>1, <2>2, <2>3
<1>6. waived' \in BOOLEAN /\ (waived => waived')
  BY <1>1 DEF Apply, Numeric
<1>7. waived' \/ NotAbove(inst.spec.version, wish.version)
  BY DEF Apply, ValidateUpdate, NotDowngraded, NotAbove
<1> HIDE DEF new
<1> QED
  BY <1>2, <1>3, <1>4, <1>5, <1>6, <1>7, WriteInstanceInv

\* A new process starts with fresh caches and no reconcile.
LEMMA ManagerRestartInv ==
    ASSUME IInv, ManagerRestart
    PROVE  IInv'
<1> USE DEF IInv
<1>1. /\ ir' = Idle /\ cache' = [object |-> inst, fresh |-> TRUE]
      /\ seen' \in [Objects -> [exists : BOOLEAN, fresh : BOOLEAN]]
      /\ budget' \in Budgets
      /\ UNCHANGED <<inst, status, objects, running, schema, waived>>
  BY BudgetType DEF ManagerRestart, Current, podVars, WorkloadTypeOK, Object
<1>2. WorkloadTypeOK'
  BY <1>1, IdleType DEF WorkloadTypeOK, Reconciles, Budgets
<1>3. ~waived => InOrder'
  BY <1>1, IdleType, VersionTypes, OrderOfVersions
  DEF InOrder, CopiesInOrder, StatefulSetInOrder, SchemaInOrder, PodInOrder, StatefulSet, At
<1> QED
  BY <1>1, <1>2, <1>3

-----------------------------------------------------------------------------
(* The theorems *)

LEMMA InitInv == Init => IInv
<1> SUFFICES ASSUME Init PROVE IInv
  OBVIOUS
<1>1. PICK wish \in Wishes : inst = [uid |-> 1, exists |-> TRUE, spec |-> wish]
  BY DEF Init
<1>2. inst \in Instance
  BY <1>1, WorkloadAssumption DEF Instance
<1>3. /\ objects \in [Objects -> Object] /\ ~objects["statefulset"].exists
      /\ seen \in [Objects -> [exists : BOOLEAN, fresh : BOOLEAN]]
  BY DEF Init, NoObject, Object, Current, Objects
<1>4. budget \in [faults : Nat, lags : Nat, edits : Nat]
  BY WorkloadAssumption DEF Init
<1>5. WorkloadTypeOK
  BY <1>2, <1>3, <1>4, IdleType
  DEF Init, WorkloadTypeOK, Reconciles, NoStatus, InstanceStatus
<1>6. InOrder
  BY <1>3, <1>5, IdleType, VersionTypes, OrderOfVersions
  DEF Init, InOrder, CopiesInOrder, StatefulSetInOrder, SchemaInOrder, PodInOrder,
      StatefulSet, At
<1> QED
  BY <1>5, <1>6 DEF IInv

LEMMA StutterInv == IInv /\ UNCHANGED vars => IInv'
  BY DEF vars, instVars, podVars, IInv, WorkloadTypeOK, InOrder, CopiesInOrder,
         StatefulSetInOrder, SchemaInOrder, PodInOrder, StatefulSet, At

LEMMA NextInv == IInv /\ [Next]_vars => IInv'
  BY StartInv, ReconcileObjectInv, UpdateStatusInv, SyncInstanceInv, SyncObjectsInv,
     RolloutInv, ManagerRestartInv, DeleteInv, CollectGarbageInv, TamperInv, ApplyInv,
     StutterInv
  DEF Next, Reconcile

LEMMA InvariantImplies == IInv => NoDowngrade
  BY DEF IInv, InOrder, PodInOrder, NoDowngrade, NotAbove

\* The variables keep their types in every state.
THEOREM TypeCorrect == Spec => []WorkloadTypeOK
<1>1. IInv => WorkloadTypeOK
  BY DEF IInv
<1> QED
  BY <1>1, InitInv, NextInv, PTL DEF Spec

\* As long as the order of versions was checked at every edit, the pod never runs a
\* version below that of its database: not with stale copies, refused and lost
\* updates, objects deleted by hand or collected as garbage, and crashes.
THEOREM Upward == Spec => []NoDowngrade
  BY InitInv, NextInv, InvariantImplies, PTL DEF Spec

=============================================================================
