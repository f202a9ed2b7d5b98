------------------------------- MODULE WorkGraph -------------------------------
(***************************************************************************)
(* The work of a Build: the nodes of its plan, claimed, attempted and       *)
(* integrated (build_coordinator_dag.py, build_coordinator_work.py and the  *)
(* work verbs of build_coordinator.py), while the plan is corrected          *)
(* (plan adopt, plan revise) and the branch is rewritten (reconcile).       *)
(*                                                                         *)
(* A node's state is never stored: it is derived from its claim, its last    *)
(* result, its last failure and its integration.  Every verb reads the      *)
(* snapshot and writes it under a compare-and-swap, so it is one step.      *)
(* Git is what a verb observes of it: whether an integration is refused,    *)
(* and whether HEAD is still the commit the last rewrite was recorded at.   *)
(***************************************************************************)
EXTENDS Integers, Sequences, FiniteSets

CONSTANTS
    Nodes,          \* ids of work items
    Plans,          \* plan documents
    Item,           \* plan -> node of the plan -> its work item
    Slots,          \* plan -> max_concurrency
    First,          \* the plan the Build was bound to
    None,           \* no claim, result, failure, integration or preparation
    MaxAttempts,    \* bound: attempts of all nodes
    MaxRewrites     \* bound: rewrites recorded

VARIABLES
    plan,           \* the plan in force
    sealed,         \* the sealed plan of record
    approved,       \* whether the Build gate is approved
    work,           \* node -> what is recorded of it
    minted,         \* attempt ids handed out: they are random, so never handed out twice
    preparation,    \* rewrite_preparation: it names the revision its own write made
    events,         \* rewrite_recoveries
    settled         \* HEAD is the commit of the last rewrite recorded

vars == <<plan, sealed, approved, work, minted, preparation, events, settled>>

WorkItems(p) == DOMAIN Item[p]
Deps(p, n) == Item[p][n].deps

\* `needs' are the declared paths and exclusive resources, `text' all the rest.
ASSUME PlansAreGraphs ==
    /\ First \in Plans
    /\ Slots \in [Plans -> Nat \ {0}]
    /\ \A p \in Plans :
         /\ WorkItems(p) \subseteq Nodes
         /\ \A n \in WorkItems(p) : Deps(p, n) \subseteq WorkItems(p) \ {n}
\* graph closure and acyclicity are validated before a plan is ever in force.
ASSUME PlansAreAcyclic ==
    \A p \in Plans : \A S \in SUBSET WorkItems(p) :
        S # {} => \E n \in S : Deps(p, n) \cap S = {}
ASSUME NodesAreFinite == IsFiniteSet(Nodes)
ASSUME BoundsAreNatural == MaxAttempts \in Nat /\ MaxRewrites \in Nat

Attempts == 1..MaxAttempts

\* `under' is the plan whose packet the worker was given.
Claim == [attempt : Attempts, under : Plans, restored : BOOLEAN]
Result == [attempt : Attempts, ok : BOOLEAN]
Failure == [attempt : Attempts, disposition : {"open", "retry", "abandoned", "inline"}]
Integration == [attempt : Attempts, under : Plans, recovered : BOOLEAN]

Work == [claim : Claim \cup {None}, result : Result \cup {None},
         failure : Failure \cup {None}, integration : Integration \cup {None}]
Event == [plan : Plans, invalidated : SUBSET Nodes,
          prior : [Nodes -> Integration \cup {None}]]

ASSUME NoneIsNothing ==
    None \notin Claim \cup Result \cup Failure \cup Integration \cup {"current", "stale"}

Untouched == [claim |-> None, result |-> None, failure |-> None, integration |-> None]

Init ==
    /\ plan = First /\ sealed = First
    /\ approved = FALSE
    /\ work = [n \in Nodes |-> Untouched]
    /\ minted = 0
    /\ preparation = None
    /\ events = <<>>
    /\ settled = FALSE

-----------------------------------------------------------------------------
(***************************************************************************)
(* What is derived of a node.                                              *)
(***************************************************************************)
Complete(n) == work[n].integration # None
Disposed(w, D) == w.failure # None /\ w.failure.disposition \in D
AwaitsDecision(w) == Disposed(w, {"open"})

Ready(n) ==
    LET w == work[n]
    IN /\ w.integration = None /\ w.claim = None
       /\ w.failure = None \/ Disposed(w, {"retry", "inline"})
       /\ \A d \in Deps(plan, n) : Complete(d)

Returned(w) == w.claim # None /\ w.result # None /\ w.result.ok /\ w.result.attempt = w.claim.attempt

\* A claim occupies a worker's slot until the worker reports, and reserves its
\* resources until it is cleared.
Claimed(n) ==
    LET w == work[n]
    IN /\ w.claim # None /\ w.integration = None /\ ~w.claim.restored
       /\ ~AwaitsDecision(w) /\ ~Returned(w)

SlotsInUse == {n \in WorkItems(plan) : Claimed(n)}
Holders == {n \in WorkItems(plan) : work[n].claim # None}

Conflict(p, m, n) == Item[p][m].needs \cap Item[p][n].needs # {}

Claimable_Unheld(n) ==
    /\ Cardinality(SlotsInUse) < Slots[plan]
    /\ Ready(n)
    /\ ~\E h \in SlotsInUse \ {n} : Conflict(plan, n, h)

Claimable(n) ==
    /\ Cardinality(SlotsInUse) < Slots[plan]
    /\ Ready(n)
    /\ ~\E h \in Holders \ {n} : Conflict(plan, n, h)

-----------------------------------------------------------------------------
(***************************************************************************)
(* The work verbs.                                                         *)
(***************************************************************************)
\* Any write makes a pending preparation name a past revision.
Outdated(p) == IF p = "current" THEN "stale" ELSE p

Save(n, w) ==
    /\ work' = [work EXCEPT ![n] = w]
    /\ preparation' = Outdated(preparation)
    /\ UNCHANGED <<plan, sealed, approved, events, settled>>

\* approve, of the plan in force.
Approve ==
    /\ approved' = TRUE
    /\ preparation' = Outdated(preparation)
    /\ UNCHANGED <<plan, sealed, work, minted, events, settled>>

\* The next attempt runs in the session itself if that was decided; otherwise it
\* is dispatched, or fails at once when no route is open to it.
Dispatched_KeepsResult(n, a) ==
    [work[n] EXCEPT !.claim = [attempt |-> a, under |-> plan, restored |-> FALSE],
                    !.failure = None]
Dispatched(n, a) ==
    [work[n] EXCEPT !.claim = [attempt |-> a, under |-> plan, restored |-> FALSE],
                    !.result = None, !.failure = None]
Blocked(n, a) ==
    [work[n] EXCEPT !.claim = None, !.result = None,
                    !.failure = [attempt |-> a, disposition |-> "open"]]

WorkClaim(n) ==
    /\ approved
    /\ Claimable(n)
    /\ minted < MaxAttempts
    /\ LET a == minted + 1
       IN /\ minted' = a
          /\ \/ Save(n, Dispatched(n, a))
             \/ /\ ~Disposed(work[n], {"inline"})
                /\ Save(n, Blocked(n, a))

\* A result names the claim's attempt.  A failed one keeps the claim.
WorkResult(n, a, ok) ==
    /\ work[n].claim # None /\ work[n].claim.attempt = a
    /\ Save(n, [work[n] EXCEPT !.result = [attempt |-> a, ok |-> ok],
                               !.failure = IF ok THEN None
                                           ELSE [attempt |-> a, disposition |-> "open"]])
    /\ UNCHANGED minted

\* The attempt a verb may name: the claim's, or else that of what is left of it.
Names(n, a, rest) ==
    IF work[n].claim # None THEN work[n].claim.attempt = a
    ELSE rest # None /\ rest.attempt = a

WorkReject(n, a) ==
    /\ Names(n, a, work[n].result)
    /\ Save(n, [work[n] EXCEPT !.claim = None,
                               !.failure = [attempt |-> a, disposition |-> "open"]])
    /\ UNCHANGED minted

WorkAbandon(n, a) ==
    /\ Names(n, a, work[n].failure)
    /\ Save(n, [work[n] EXCEPT !.claim = None,
                               !.failure = [attempt |-> a, disposition |-> "abandoned"]])
    /\ UNCHANGED minted

\* The node is opened to a new attempt; an abandoned one only here.
Retryable_OpenOnly(n) == Disposed(work[n], {"open"})
Retryable(n) == Disposed(work[n], {"open", "abandoned"})

WorkRetry(n, disposition) ==
    /\ Retryable(n)
    /\ Save(n, [work[n] EXCEPT !.claim = None, !.failure.disposition = disposition])
    /\ UNCHANGED minted

\* A refusal is recorded and leaves the claim: the attempt may be integrated again.
\* Without a claim there is no base to bind a receipt to, so it is always refused.
WorkIntegrate(n, a) ==
    /\ work[n].result # None /\ work[n].result.ok /\ work[n].result.attempt = a
    /\ \/ Save(n, [work[n] EXCEPT !.failure = [attempt |-> a, disposition |-> "open"]])
       \/ /\ work[n].claim # None
          /\ Save(n, [work[n] EXCEPT !.claim = None, !.failure = None,
                        !.integration = [attempt |-> a, under |-> work[n].claim.under,
                                         recovered |-> FALSE]])
    /\ UNCHANGED minted

\* work integrate --recovery: the original integration is earned again by
\* verification at the rewritten HEAD.
WorkRecover(n) ==
    /\ work[n] # Untouched /\ work[n].claim = None /\ ~Complete(n)
    /\ events # <<>> /\ settled
    /\ \A d \in Deps(plan, n) : Complete(d)
    /\ LET event == events[Len(events)]
       IN /\ n \in event.invalidated /\ event.prior[n] # None
          /\ Save(n, [work[n] EXCEPT !.failure = None,
                        !.integration = [event.prior[n] EXCEPT !.recovered = TRUE]])
    /\ UNCHANGED minted

-----------------------------------------------------------------------------
(***************************************************************************)
(* The history is rewritten.                                               *)
(***************************************************************************)
\* Nodes a rewrite recorded under this very plan left to reverify.
Pending == {n \in UNION {events[i].invalidated : i \in {j \in DOMAIN events : events[j].plan = plan}} :
               ~Complete(n)}

\* reconcile --prepare, before any rewrite, and with no claim outstanding.
PrepareRewrite ==
    /\ preparation = None
    /\ \A n \in Nodes : work[n].claim = None \/ Complete(n)
    /\ Pending = {}
    /\ preparation' = "current"
    /\ UNCHANGED <<plan, sealed, approved, work, minted, events, settled>>

CancelPreparation ==
    /\ preparation # None
    /\ preparation' = None
    /\ UNCHANGED <<plan, sealed, approved, work, minted, events, settled>>

\* _rewrite_affected: the nodes whose paths differ, and all that depend on them.
Affected_Alone == SUBSET WorkItems(plan)
Affected ==
    {S \in SUBSET WorkItems(plan) :
        \A n \in WorkItems(plan) : Deps(plan, n) \cap S # {} => n \in S}

Invalidated_Unnamed(w) ==
    IF w.integration = None THEN w
    ELSE [w EXCEPT !.integration = None,
                   !.failure = [attempt |-> None, disposition |-> "open"]]
Invalidated(w) ==
    IF w.integration = None THEN w
    ELSE [w EXCEPT !.integration = None,
                   !.failure = [attempt |-> w.integration.attempt, disposition |-> "open"]]

\* Only from the very revision the preparation wrote.
ApplyRewrite ==
    /\ preparation = "current"
    /\ Len(events) < MaxRewrites
    /\ \E S \in Affected :
         /\ work' = [n \in Nodes |-> IF n \in S THEN Invalidated(work[n]) ELSE work[n]]
         /\ events' = Append(events, [plan |-> plan, invalidated |-> S,
                                      prior |-> [n \in Nodes |-> work[n].integration]])
    /\ preparation' = None
    /\ settled' = TRUE
    /\ UNCHANGED <<plan, sealed, approved, minted>>

\* Somebody commits on the recovered line, or goes back to where it was recovered.
MoveHead ==
    /\ events # <<>>
    /\ settled' = ~settled
    /\ UNCHANGED <<plan, sealed, approved, work, minted, preparation, events>>

-----------------------------------------------------------------------------
(***************************************************************************)
(* The plan is corrected.                                                  *)
(***************************************************************************)
\* Nodes q carries as p has them.
Identical(p, q) == {n \in WorkItems(p) \cap WorkItems(q) : Item[p][n] = Item[q][n]}

\* And so are all they depend on, directly or not.
Unchanged(p, q) ==
    UNION {S \in SUBSET Identical(p, q) : \A n \in S : Deps(q, n) \subseteq S}

\* Work done under plan u on n is work on n as the plan in force has it.
Carried(u, n) == u = plan \/ n \in Unchanged(u, plan)

\* What an adoption keeps of the work.
Kept_Alone(q) == Identical(plan, q)
Kept(q) == Unchanged(plan, q)

\* plan adopt: the sealed successor brings its own approval.
Adopt(q) ==
    /\ q # plan
    /\ plan' = q /\ sealed' = q
    /\ approved' = TRUE
    /\ work' = [n \in Nodes |-> IF n \in Kept(q) THEN work[n] ELSE Untouched]
    /\ preparation' = Outdated(preparation)
    /\ UNCHANGED <<minted, events, settled>>

\* plan revise, on the operator's authority: everything is reset.
Revise(q) ==
    /\ q # plan
    /\ plan' = q
    /\ approved' = FALSE
    /\ work' = [n \in Nodes |-> Untouched]
    /\ preparation' = Outdated(preparation)
    /\ UNCHANGED <<sealed, minted, events, settled>>

\* handoff restore: a cold session cannot know whether a worker still runs.
HandoffRestore ==
    /\ plan = sealed
    /\ work' = [n \in Nodes |->
                  IF work[n].claim = None \/ Complete(n) \/ Returned(work[n]) THEN work[n]
                  ELSE [work[n] EXCEPT !.claim.restored = TRUE]]
    /\ preparation' = Outdated(preparation)
    /\ UNCHANGED <<plan, sealed, approved, minted, events, settled>>

-----------------------------------------------------------------------------
WorkVerb(n) ==
    \/ WorkClaim(n)
    \/ \E a \in Attempts, ok \in BOOLEAN : WorkResult(n, a, ok)
    \/ \E a \in Attempts : WorkReject(n, a) \/ WorkAbandon(n, a) \/ WorkIntegrate(n, a)
    \/ \E d \in {"retry", "inline"} : WorkRetry(n, d)
    \/ WorkRecover(n)

Next ==
    \/ Approve
    \/ \E n \in WorkItems(plan) : WorkVerb(n)
    \/ PrepareRewrite \/ CancelPreparation \/ ApplyRewrite \/ MoveHead
    \/ \E q \in Plans : Adopt(q) \/ Revise(q)
    \/ HandoffRestore

Spec == Init /\ [][Next]_vars

-----------------------------------------------------------------------------
(***************************************************************************)
(* Properties.                                                             *)
(***************************************************************************)
TypeOK ==
    /\ plan \in Plans /\ sealed \in Plans
    /\ approved \in BOOLEAN
    /\ work \in [Nodes -> Work]
    /\ minted \in 0..MaxAttempts
    /\ preparation \in {None, "current", "stale"}
    /\ events \in Seq(Event) /\ Len(events) <= MaxRewrites
    /\ settled \in BOOLEAN

\* Only nodes of the plan in force hold a claim or an integration, and what such a
\* node depends on is integrated: also after a rewrite took integrations back,
\* after an adoption kept some nodes, and after a recovery (_node_state, ready_set).
DependenciesIntegrated ==
    \A n \in Nodes :
        work[n].claim # None \/ Complete(n) =>
            n \in WorkItems(plan) /\ \A d \in Deps(plan, n) : Complete(d)

\* No two nodes hold claims whose paths or resources may collide, whichever of them
\* has returned, failed or was restored (resource_holders, resources_conflict).
HoldersCompatible ==
    \A m, n \in Holders : m # n => ~Conflict(plan, m, n)

\* What becomes integrated is the attempt whose claim is held at that moment, with a
\* result of that very attempt, unless a rewrite's record gives it back: the late
\* result of an earlier attempt is never integrated (cmd_work_result, cmd_work_integrate).
IntegratesTheClaim ==
    [][\A n \in Nodes :
          ~Complete(n) /\ Complete(n)' /\ ~work'[n].integration.recovered =>
             /\ Returned(work[n])
             /\ work[n].claim.attempt = work'[n].integration.attempt]_vars

\* Whatever was integrated by an attempt, and not recovered, was work on this very
\* item and on all it depends on, as the plan in force has them (_unchanged_nodes).
AttemptedForThisPlan ==
    \A n \in Nodes :
        Complete(n) /\ ~work[n].integration.recovered => Carried(work[n].integration.under, n)

\* The same of everything integrated.  _unchanged_nodes says that a mid-Build
\* revision must not carry forward evidence about a graph that was never built.
EvidenceIsOfThisPlan ==
    \A n \in Nodes : Complete(n) => Carried(work[n].integration.under, n)

\* A Build never runs out of moves: while an approved plan has unfinished nodes, one of
\* them is claimable, or holds a claim, or may be opened to a new attempt
\* (capacity, held resources and abandoned dependencies never block one another).
NeverStuck ==
    approved /\ (\E n \in WorkItems(plan) : ~Complete(n)) =>
        \E n \in WorkItems(plan) :
            /\ ~Complete(n)
            /\ \/ Claimable(n)
               \/ work[n].claim # None
               \/ Retryable(n)

-----------------------------------------------------------------------------
(***************************************************************************)
(* The inductive invariant.                                                *)
(***************************************************************************)
\* A claim is on an open node, for this plan, and a result beside it is its own.
ClaimsAreCurrent ==
    \A n \in Nodes : work[n].claim # None =>
        /\ ~Complete(n)
        /\ Carried(work[n].claim.under, n)
        /\ work[n].result # None => work[n].result.attempt = work[n].claim.attempt

\* Between a preparation and the rewrite it allows nothing is claimed.
PreparationIsQuiet ==
    preparation = "current" => \A n \in Nodes : work[n].claim = None

IInv ==
    /\ TypeOK /\ DependenciesIntegrated /\ HoldersCompatible /\ AttemptedForThisPlan
    /\ ClaimsAreCurrent /\ PreparationIsQuiet
=============================================================================
