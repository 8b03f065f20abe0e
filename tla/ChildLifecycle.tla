--------------------------- MODULE ChildLifecycle ---------------------------
(***************************************************************************)
(* What users may count on when they create and delete a resource that     *)
(* stands for something in SonarQube: the operator makes the thing only    *)
(* under its finalizer, does not take it away while the resource lives,    *)
(* and does not let the resource go before it is gone.  The last holds     *)
(* unless the operator is excused: a resource must not be kept for ever    *)
(* by an instance that is not there.                                       *)
(***************************************************************************)

VARIABLES
    resource,       \* absent, unguarded, guarded or doomed
    made,           \* what it stands for is there in SonarQube
    excused         \* the instance has been away

vars == <<resource, made, excused>>

\* A guarded resource carries the finalizer, a doomed one is being deleted.
Moves(from, to) == resource = from /\ resource' = to /\ UNCHANGED made

Appear == Moves("absent", "unguarded")
Vanish == Moves("unguarded", "absent")
Guard == Moves("unguarded", "guarded")
Doom == Moves("guarded", "doomed")

\* The two ways a finalizer goes.
Release == Moves("doomed", "absent") /\ (~made \/ excused)
Abandon == Moves("guarded", "unguarded") /\ excused

Make ==
    /\ resource \in {"guarded", "doomed"}
    /\ ~made /\ made' = TRUE /\ UNCHANGED resource

\* Also after the resource is gone, and under one that is not guarded yet: the
\* operator may act on the copy of a predecessor.
Unmake ==
    /\ resource # "guarded"
    /\ made /\ made' = FALSE /\ UNCHANGED resource

Rest == UNCHANGED <<resource, made>>

-----------------------------------------------------------------------------

Init ==
    /\ resource \in {"absent", "unguarded"}
    /\ made \in BOOLEAN
    /\ excused = FALSE

Next ==
    /\ excused => excused'
    /\ excused' \in BOOLEAN
    /\ Appear \/ Vanish \/ Guard \/ Doom \/ Release \/ Abandon \/ Make \/ Unmake \/ Rest

Spec == Init /\ [][Next]_vars

=============================================================================
