--------------------------- MODULE AdminBootstrap ---------------------------
(***************************************************************************)
(* What the bootstrap of the admin account promises to everyone who waits  *)
(* for phase Ready: the default password is replaced, then one token is    *)
(* issued, then it is stored in the token Secret, each once and in this    *)
(* order, and the instance is announced Ready only while the token is      *)
(* stored.  Deleting the instance takes the Secret away, never the token.  *)
(***************************************************************************)
VARIABLES
    stage,      \* how far the bootstrap has come
    ready       \* the children are told to go ahead

vars == <<stage, ready>>

Stages == {"default", "changed", "issued", "stored"}

Init == stage = "default" /\ ready = FALSE

Advance(from, to) == stage = from /\ stage' = to /\ UNCHANGED ready

ReplacePassword == Advance("default", "changed")
IssueToken == Advance("changed", "issued")
StoreToken == Advance("issued", "stored")

Announce == stage = "stored" /\ ready' = TRUE /\ UNCHANGED stage
Withdraw == ready' = FALSE /\ UNCHANGED stage
Discard == stage = "stored" /\ stage' = "issued" /\ ready' = FALSE

Next ==
    \/ ReplacePassword \/ IssueToken \/ StoreToken
    \/ Announce \/ Withdraw \/ Discard

Spec == Init /\ [][Next]_vars

=============================================================================
