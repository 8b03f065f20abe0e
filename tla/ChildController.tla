--------------------------- MODULE ChildController ---------------------------
(***************************************************************************)
(* What the controllers of resources that live on an instance have in      *)
(* common: the resource and the informer's copy of it, the reconcile in    *)
(* flight, versioned writes, and the head of every Reconcile, from the     *)
(* missing instance to the finalizer.                                      *)
(*                                                                         *)
(* A module instantiates this one over its own variables.  The operators   *)
(* here say what happens to the five variables below; a module adds what   *)
(* happens to its own.  "fresh" is the comparison of resourceVersions, as  *)
(* in SonarQubeInstance.  Of the instance the controllers read only        *)
(* whether it exists and is Ready with an admin token; here that changes   *)
(* arbitrarily, except that a deleted instance stays away.                 *)
(***************************************************************************)
EXTENDS Naturals

CONSTANTS
    Absent,         \* the resource when there is none
    NoReconcile     \* the reconcile when there is none

VARIABLES
    cr,             \* the stored resource
    pcache,         \* the informer's copy of it
    instance,       \* the SonarQubeInstance, admin token included
    pr,             \* the reconcile in flight
    budget          \* what is left of the bounds

-----------------------------------------------------------------------------
(* Bounds, calls and writes *)

Spend(bound) == budget[bound] > 0 /\ budget' = [budget EXCEPT ![bound] = @ - 1]
Fault == Spend("faults")
NoFault == UNCHANGED budget

At(step) == pr.pc = step
Proceed(step) == pr' = IF step = "idle" THEN NoReconcile ELSE [pr EXCEPT !.pc = step]

\* The call has no effect and returns an error: SonarQube refuses or is not
\* there, or the call is lost.
CallFails(accepted) ==
    \/ (~accepted \/ instance # "Ready") /\ NoFault
    \/ Fault

\* The stored resource changes under the reconcile and the informer.
Write(new) ==
    /\ cr' = new
    /\ pcache' = [pcache EXCEPT !.fresh = @ /\ new = cr]

\* A versioned write of the reconcile's own resource.  It goes on at "then", or
\* at "otherwise" after an error.
OwnWrite(new, then, otherwise) ==
    LET accepted == pr.fresh /\ cr.exists
    IN  \/ /\ accepted /\ Write(new)
           /\ \/ NoFault /\ Proceed(then)
              \/ Fault /\ pr' = IF otherwise = "idle" THEN NoReconcile
                                ELSE [pr EXCEPT !.pc = otherwise, !.fresh = new = cr]
        \/ /\ (~accepted /\ NoFault) \/ Fault
           /\ Proceed(otherwise) /\ UNCHANGED <<cr, pcache>>

\* Writes by users.
UserWrites(new) ==
    /\ Write(new)
    /\ pr' = [pr EXCEPT !.fresh = @ /\ new = cr]

-----------------------------------------------------------------------------
(* The head of Reconcile *)

\* Faulty variant of the next operator: the wait for Ready comes first.
RouteReadyFirst(object) ==
    CASE instance = "Gone" -> IF object.finalizer THEN "release" ELSE "idle"
      [] instance = "NotReady" -> "pending"
      [] instance = "Ready" ->
           IF object.deleting THEN (IF object.finalizer THEN "delete" ELSE "idle")
           ELSE IF object.finalizer THEN "get" ELSE "finalizer"

\* Reconcile and finalizeDeletion up to their first call.
Route(object) ==
    CASE instance = "Gone" \/ object.deleting ->
           IF ~object.finalizer THEN "idle"
           ELSE IF object.deleting /\ instance = "Ready" THEN "delete" ELSE "release"
      [] instance # "Gone" /\ ~object.deleting ->
           IF instance = "NotReady" THEN "pending"
           ELSE IF object.finalizer THEN "get" ELSE "finalizer"

PickUp ==
    /\ At("idle") /\ pcache.object.exists
    /\ Route(pcache.object) # "idle"
    /\ IF pcache.fresh THEN NoFault ELSE Spend("lags")
    /\ pr' = [NoReconcile EXCEPT !.pc = Route(pcache.object),
                                 !.object = pcache.object, !.fresh = pcache.fresh]
    /\ UNCHANGED <<cr, pcache, instance>>

\* Faulty variant: the error of the update is not returned.
AddFinalizerUnchecked ==
    /\ At("finalizer")
    /\ OwnWrite([cr EXCEPT !.finalizer = TRUE], "get", "get")
    /\ UNCHANGED instance

AddFinalizer ==
    /\ At("finalizer")
    /\ OwnWrite([cr EXCEPT !.finalizer = TRUE], "get", "idle")
    /\ UNCHANGED instance

\* The status updates that end a reconcile early; their errors are ignored.
PublishPhase ==
    /\ pr.pc \in {"pending", "failed"}
    /\ OwnWrite([cr EXCEPT !.phase = IF At("failed") THEN "Failed" ELSE "Pending"],
                "idle", "idle")
    /\ UNCHANGED instance

ReleaseFinalizer ==
    /\ At("release")
    /\ OwnWrite(IF cr.deleting THEN Absent ELSE [cr EXCEPT !.finalizer = FALSE], "idle", "idle")
    /\ UNCHANGED instance

Conclude == AddFinalizer \/ PublishPhase \/ ReleaseFinalizer

-----------------------------------------------------------------------------
(* The surroundings *)

Editable == cr.exists /\ ~cr.deleting

\* kubectl delete: a resource without a finalizer goes at once.
UserDeletes ==
    /\ Editable
    /\ UserWrites(IF cr.finalizer THEN [cr EXCEPT !.deleting = TRUE] ELSE Absent)

Catch == pcache' = [object |-> cr, fresh |-> TRUE]

SyncResource ==
    /\ ~pcache.fresh /\ Catch
    /\ UNCHANGED <<cr, instance, pr, budget>>

InstanceTurns ==
    /\ Spend("turns") /\ instance # "Gone"
    /\ instance' \in {"Ready", "NotReady", "Gone"} \ {instance}
    /\ UNCHANGED <<cr, pcache, pr>>

Restart ==
    /\ Fault /\ pr' = NoReconcile /\ Catch
    /\ UNCHANGED <<cr, instance>>

=============================================================================
