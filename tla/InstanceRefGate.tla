--------------------------- MODULE InstanceRefGate ---------------------------
(***************************************************************************)
(* The validating webhook for spec.instanceRef, in front of a resource of  *)
(* SonarQubeObject whose instance may live in another namespace.  Such a   *)
(* resource is "foreign"; the owner of the instance lists the namespaces   *)
(* whose resources may refer to it in an annotation of the instance.       *)
(*                                                                         *)
(* The API server asks the webhook on every create and update of the       *)
(* resource itself: what users apply, and the controller's two writes of   *)
(* the finalizer.  Status updates and deletes are not validated.  The      *)
(* webhook reads the instance from the manager's informer cache; as long   *)
(* as it does not answer everything is admitted (failurePolicy Ignore).    *)
(***************************************************************************)
EXTENDS SonarQubeObject

VARIABLES
    policy,         \* what the annotation says of the resource's namespace
    seen,           \* the same, or that there is no instance, as the cache has it
    serving         \* the webhook answers

gateVars == <<policy, seen, serving>>
gatedVars == <<vars, gateVars>>

\* "local": the resource lives beside its instance.
Policies == {"local", "listed", "unlisted"}

GateTypeOK ==
    /\ ObjectTypeOK
    /\ policy \in Policies
    /\ seen \in Policies \cup {"missing"}
    /\ serving \in BOOLEAN
    /\ policy = "local" => seen = "local" /\ serving

-----------------------------------------------------------------------------
(* The webhook *)

\* Faulty variant of the next operator: every resource is taken for one beside
\* its instance.
ValidateNothing == TRUE

\* ValidateInstanceRefNamespace, for the object as it will be.
Validate == seen \in {"local", "listed"}

Admitted == Validate \/ ~serving

\* Create and Update by users; a refused request changes nothing.
Apply == Admitted /\ UserApplies /\ UNCHANGED gateVars

\* ValidateDelete, and the status subresource, which no rule names: the webhook
\* is not asked.
Remove == UserRemoves /\ UNCHANGED gateVars

FinalizerSteps == {"finalizer", "release"}

\* The controller's Update of the finalizer; its error ends the reconcile.
Refuse ==
    /\ ~Admitted /\ pr.pc \in FinalizerSteps
    /\ Proceed("idle") /\ NoFault
    /\ UNCHANGED <<kind, cr, pcache, instance, objectVars, gateVars>>

GatedStep ==
    \/ Refuse
    \/ (Admitted \/ pr.pc \notin FinalizerSteps) /\ Lifecycle /\ UNCHANGED gateVars
    \/ Work /\ UNCHANGED gateVars

-----------------------------------------------------------------------------
(* The instance's owner, the cache, outages *)

\* What the cache will show.  The webhook does not look for an instance beside
\* the resource.
Target == IF policy # "local" /\ instance = "Gone" THEN "missing" ELSE policy

\* The owner lists the namespace, or takes it off the list.
Annotate ==
    /\ policy # "local" /\ instance # "Gone" /\ Spend("turns")
    /\ policy' \in {"listed", "unlisted"} \ {policy}
    /\ UNCHANGED <<kind, cr, pcache, instance, pr, objectVars, seen, serving>>

SyncAnnotation ==
    /\ policy # "local" /\ seen # Target /\ seen' = Target
    /\ UNCHANGED <<vars, policy, serving>>

Outage ==
    /\ policy # "local" /\ serving /\ Fault /\ serving' = FALSE
    /\ UNCHANGED <<kind, cr, pcache, instance, pr, objectVars, policy, seen>>

Recovery ==
    /\ ~serving /\ serving' = TRUE
    /\ UNCHANGED <<vars, policy, seen>>

-----------------------------------------------------------------------------
(* The system *)

\* There is no foreign resource before its namespace is listed.
GatedInit ==
    /\ Init
    /\ policy \in Policies
    /\ policy = "unlisted" => ~cr.exists
    /\ seen = policy /\ serving = TRUE

Elsewhere == (Start \/ ChangeInUI \/ Sync \/ Turn \/ ManagerRestart) /\ UNCHANGED gateVars

GatedNext ==
    \/ Apply \/ Remove \/ GatedStep \/ Elsewhere
    \/ Annotate \/ SyncAnnotation \/ Outage \/ Recovery

\* As in SonarQubeObject; the informer of the instance catches up too.
GatedFairness ==
    /\ WF_gatedVars(Start /\ UNCHANGED gateVars)
    /\ WF_gatedVars(GatedStep)
    /\ WF_gatedVars(Sync /\ UNCHANGED gateVars)
    /\ WF_gatedVars(SyncAnnotation)

GatedSpec == GatedInit /\ [][GatedNext]_gatedVars /\ GatedFairness

-----------------------------------------------------------------------------
(* Properties *)

\* Unless the owner changes the list or the webhook is down for some time, the
\* operator makes nothing in an instance for a namespace that is not listed:
\* the controllers themselves never look at the list.
NothingForUnlisted ==
    [][issued' > issued /\ policy = "unlisted"
         => budget.turns < MaxTurns \/ budget.faults < MaxFaults]_gatedVars

\* A resource once under its finalizer is kept in line whatever the list says
\* later, and any other as soon as its namespace is listed.
ConvergesIfAdmitted ==
    <>[](Maintained /\ kind # "webhook" /\ (cr.finalizer \/ policy # "unlisted") => InLine)

\* A deletion goes through, in the end, unless the webhook goes on to refuse the
\* controller's update that takes the finalizer away: a namespace listed again
\* sets free what was stuck, and a resource beside its instance is never stuck.
DeletionCompletesIfAdmitted ==
    <>[](cr.deleting => Target \in {"unlisted", "missing"})

=============================================================================
