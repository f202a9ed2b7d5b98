---------------------------- MODULE WorkGraph_proofs ----------------------------
(***************************************************************************)
(* Proofs about WorkGraph, for any plans, nodes, slots and numbers of       *)
(* attempts and rewrites.                                                  *)
(***************************************************************************)
EXTENDS WorkGraph, FiniteSetTheorems, TLAPS

LEMMA NoneFacts ==
    /\ None \notin Claim /\ None \notin Result /\ None \notin Failure /\ None \notin Integration
    /\ None # "current" /\ None # "stale"
BY NoneIsNothing

LEMMA GraphFacts ==
    ASSUME NEW p \in Plans
    PROVE  /\ WorkItems(p) \subseteq Nodes
           /\ \A n \in WorkItems(p) : Deps(p, n) \subseteq WorkItems(p)
BY PlansAreGraphs

-----------------------------------------------------------------------------
(***************************************************************************)
(* What an adoption keeps.                                                 *)
(***************************************************************************)
\* What is unchanged is identical, and so is all it depends on (_unchanged_nodes).
LEMMA UnchangedIsClosed ==
    ASSUME NEW p \in Plans, NEW q \in Plans, NEW n \in Unchanged(p, q)
    PROVE  n \in Identical(p, q) /\ Deps(q, n) \subseteq Unchanged(p, q)
<1>1. PICK S \in SUBSET Identical(p, q) : n \in S /\ \A m \in S : Deps(q, m) \subseteq S
  BY DEF Unchanged
<1>2. S \subseteq Unchanged(p, q)
  BY <1>1 DEF Unchanged
<1> QED BY <1>1, <1>2

LEMMA UnchangedIsLargest ==
    ASSUME NEW p \in Plans, NEW q \in Plans, NEW S \in SUBSET Identical(p, q),
           \A n \in S : Deps(q, n) \subseteq S
    PROVE  S \subseteq Unchanged(p, q)
BY DEF Unchanged

\* Adoptions compose: what each of two kept is unchanged from the first plan to the last.
LEMMA UnchangedComposes ==
    ASSUME NEW p \in Plans, NEW q \in Plans, NEW r \in Plans,
           NEW n \in Unchanged(p, q), n \in Unchanged(q, r)
    PROVE  n \in Unchanged(p, r)
<1> DEFINE S == Unchanged(p, q) \cap Unchanged(q, r)
<1>1. \A m \in S : m \in Identical(p, q) /\ m \in Identical(q, r)
  BY UnchangedIsClosed
<1>2. S \in SUBSET Identical(p, r)
  BY <1>1 DEF Identical
<1>3. ASSUME NEW m \in S PROVE Deps(r, m) \subseteq S
  <2>1. Deps(q, m) = Deps(r, m)
    BY <1>1, <1>3 DEF Identical, Deps
  <2>2. Deps(q, m) \subseteq Unchanged(p, q) /\ Deps(r, m) \subseteq Unchanged(q, r)
    BY <1>3, UnchangedIsClosed
  <2> QED BY <2>1, <2>2
<1>4. S \subseteq Unchanged(p, r)
  <2> HIDE DEF S
  <2> QED BY <1>2, <1>3, UnchangedIsLargest
<1> QED BY <1>4

\* What one plan carries and an adoption keeps, the next plan carries.
LEMMA CarriedOn ==
    ASSUME NEW u \in Plans, NEW n, plan \in Plans, plan' \in Plans,
           Carried(u, n), n \in Unchanged(plan, plan')
    PROVE  Carried(u, n)'
<1>1. CASE u = plan
  BY <1>1 DEF Carried
<1>2. CASE n \in Unchanged(u, plan)
  <2>1. n \in Unchanged(u, plan')
    BY <1>2, UnchangedComposes
  <2> QED BY <2>1 DEF Carried
<1> QED BY <1>1, <1>2 DEF Carried

-----------------------------------------------------------------------------
(***************************************************************************)
(* A verb records something of one node of the plan.  What it records is   *)
(* sound if a claim is the one held or was claimable, and an integration    *)
(* is the one there or rests on integrated dependencies.                   *)
(***************************************************************************)
SoundClaim(n, w) ==
    w.claim # None =>
        /\ w.integration = None
        /\ w.result # None => w.result.attempt = w.claim.attempt
        /\ \/ work[n].claim # None /\ w.claim.under = work[n].claim.under
           \/ Claimable(n) /\ w.claim.under = plan

SoundIntegration(n, w) ==
    w.integration # work[n].integration =>
        /\ w.integration # None
        /\ \A d \in Deps(plan, n) : Complete(d)
        /\ ~w.integration.recovered => Carried(w.integration.under, n)

Records(n, w) ==
    /\ n \in WorkItems(plan) /\ w \in Work
    /\ Save(n, w) /\ minted' \in 0..MaxAttempts
    /\ SoundClaim(n, w) /\ SoundIntegration(n, w)

\* What is recorded of a node, field by field.
LEMMA WorkFields ==
    ASSUME NEW w \in Work
    PROVE  /\ w.claim # None => w.claim \in Claim /\ w.claim.attempt \in Attempts /\ w.claim.under \in Plans
           /\ w.result # None => w.result \in Result /\ w.result.attempt \in Attempts
           /\ w.failure # None => w.failure \in Failure /\ w.failure.attempt \in Attempts
           /\ w.integration # None => w.integration \in Integration
                                        /\ w.integration.attempt \in Attempts /\ w.integration.under \in Plans
BY DEF Work, Claim, Result, Failure, Integration

LEMMA SaveShape ==
    ASSUME TypeOK, NEW n \in Nodes, NEW w \in Work, Save(n, w)
    PROVE  /\ work'[n] = w
           /\ \A m \in Nodes : m # n => work'[m] = work[m]
           /\ work' \in [Nodes -> Work]
           /\ preparation' # "current"
           /\ UNCHANGED <<plan, sealed, approved, events, settled>>
           /\ preparation' \in {None, "current", "stale"}
BY NoneFacts DEF TypeOK, Save, Outdated

LEMMA VerbPreserves ==
    ASSUME IInv, NEW n, NEW w, Records(n, w)
    PROVE  IInv'
<1> USE DEF IInv
<1>1. n \in Nodes /\ w \in Work /\ plan \in Plans /\ TypeOK
  BY GraphFacts DEF Records, TypeOK
<1>2. /\ work'[n] = w
      /\ \A m \in Nodes : m # n => work'[m] = work[m]
      /\ work' \in [Nodes -> Work]
      /\ preparation' # "current" /\ preparation' \in {None, "current", "stale"}
      /\ UNCHANGED <<plan, sealed, approved, events, settled>>
  BY <1>1, SaveShape DEF Records
<1>3. TypeOK'
  BY <1>2 DEF TypeOK, Records
<1>4. \A m \in Nodes : Complete(m) => Complete(m)'
  BY <1>2 DEF Complete, Records, SoundIntegration
<1>5. w.claim # None => work[n].claim # None \/ Claimable(n)
  BY DEF Records, SoundClaim
<1>6. DependenciesIntegrated'
  <2>1. SUFFICES ASSUME NEW m \in Nodes, work'[m].claim # None \/ Complete(m)'
                 PROVE  m \in WorkItems(plan) /\ \A d \in Deps(plan, m) : Complete(d)
    BY <1>1, <1>2, <1>4, GraphFacts DEF DependenciesIntegrated
  <2>2. CASE m # n
    BY <1>2, <2>1, <2>2 DEF DependenciesIntegrated, Complete
  <2>3. CASE m = n
    <3>1. CASE work[n].claim # None \/ Complete(n)
      BY <1>1, <2>3, <3>1 DEF DependenciesIntegrated
    <3>2. CASE ~(work[n].claim # None \/ Complete(n))
      <4>1. Claimable(n) \/ \A d \in Deps(plan, n) : Complete(d)
        BY <1>2, <1>5, <2>1, <2>3, <3>2 DEF Complete, Records, SoundIntegration
      <4> QED BY <2>3, <4>1 DEF Claimable, Ready, Records
    <3> QED BY <3>1, <3>2
  <2> QED BY <2>2, <2>3
<1>7. HoldersCompatible'
  <2>1. \A m \in Nodes : m # n /\ work'[m].claim # None => work[m].claim # None
    BY <1>2
  <2>2. \A m, o : Conflict(plan, m, o) <=> Conflict(plan, o, m)
    BY DEF Conflict
  <2>3. SUFFICES ASSUME NEW m \in Holders', NEW o \in Holders', m # o
                 PROVE  ~Conflict(plan, m, o)
    BY <1>2 DEF HoldersCompatible, Conflict
  <2>4. m \in WorkItems(plan) /\ o \in WorkItems(plan) /\ m \in Nodes /\ o \in Nodes
        /\ work'[m].claim # None /\ work'[o].claim # None
    BY <1>1, <1>2, <2>3, GraphFacts DEF Holders
  <2>5. \A h \in Nodes : h # n /\ h \in WorkItems(plan) /\ work'[h].claim # None => h \in Holders
    BY <2>1 DEF Holders
  <2>6. n \notin Holders /\ work'[n].claim # None =>
            \A h \in Holders \ {n} : ~Conflict(plan, n, h)
    BY <1>1, <1>2, <1>5 DEF Holders, Claimable, Records
  <2>7. CASE m # n /\ o # n
    BY <2>3, <2>4, <2>5, <2>7 DEF HoldersCompatible
  <2>8. CASE m = n
    BY <2>2, <2>3, <2>4, <2>5, <2>6, <2>8 DEF HoldersCompatible
  <2>9. CASE o = n
    BY <2>2, <2>3, <2>4, <2>5, <2>6, <2>9 DEF HoldersCompatible
  <2> QED BY <2>7, <2>8, <2>9
<1>8. \A u, m : Carried(u, m)' <=> Carried(u, m)
  BY <1>2 DEF Carried
<1>9. AttemptedForThisPlan'
  <2>1. SUFFICES ASSUME NEW m \in Nodes, Complete(m)', ~work'[m].integration.recovered
                 PROVE  Carried(work'[m].integration.under, m)
    BY <1>8 DEF AttemptedForThisPlan
  <2>2. CASE work'[m].integration = work[m].integration
    BY <2>1, <2>2 DEF AttemptedForThisPlan, Complete
  <2>3. CASE work'[m].integration # work[m].integration
    BY <1>2, <2>1, <2>3 DEF Records, SoundIntegration
  <2> QED BY <2>2, <2>3
<1>10. ClaimsAreCurrent'
  <2>1. SUFFICES ASSUME NEW m \in Nodes, work'[m].claim # None
                 PROVE  /\ work'[m].integration = None
                        /\ Carried(work'[m].claim.under, m)
                        /\ work'[m].result # None => work'[m].result.attempt = work'[m].claim.attempt
    BY <1>8 DEF ClaimsAreCurrent, Complete
  <2>2. CASE m # n
    BY <1>2, <2>1, <2>2 DEF ClaimsAreCurrent, Complete
  <2>3. CASE m = n
    BY <1>2, <2>1, <2>3 DEF Records, SoundClaim, ClaimsAreCurrent, Complete, Carried
  <2> QED BY <2>2, <2>3
<1>11. PreparationIsQuiet'
  BY <1>2 DEF PreparationIsQuiet
<1> QED BY <1>3, <1>6, <1>7, <1>9, <1>10, <1>11

-----------------------------------------------------------------------------
(***************************************************************************)
(* Every verb records something sound.                                     *)
(***************************************************************************)
LEMMA NodeOfPlan ==
    ASSUME TypeOK, NEW n \in WorkItems(plan)
    PROVE  n \in Nodes /\ work[n] \in Work
BY GraphFacts DEF TypeOK

LEMMA ClaimRecords ==
    ASSUME IInv, NEW n \in WorkItems(plan), WorkClaim(n)
    PROVE  \E w : Records(n, w)
<1>1. n \in Nodes /\ work[n] \in Work /\ plan \in Plans
  BY NodeOfPlan DEF IInv, TypeOK
<1> DEFINE a == minted + 1
<1>2. a \in Attempts /\ minted' \in 0..MaxAttempts
  BY BoundsAreNatural DEF IInv, TypeOK, WorkClaim, Attempts
<1>3. Claimable(n) /\ work[n].claim = None /\ work[n].integration = None
  BY DEF WorkClaim, Claimable, Ready
<1>4. CASE Save(n, Dispatched(n, a))
  <2>1. [attempt |-> a, under |-> plan, restored |-> FALSE] \in Claim
    BY <1>1, <1>2 DEF Claim
  <2>2. Dispatched(n, a) \in Work
    BY <1>1, <2>1 DEF Dispatched, Work
  <2>3. /\ Dispatched(n, a).claim = [attempt |-> a, under |-> plan, restored |-> FALSE]
        /\ Dispatched(n, a).result = None
        /\ Dispatched(n, a).integration = work[n].integration
    BY <1>1 DEF Dispatched, Work
  <2> QED BY <1>2, <1>3, <1>4, <2>2, <2>3 DEF Records, SoundClaim, SoundIntegration
<1>5. CASE Save(n, Blocked(n, a))
  <2>1. [attempt |-> a, disposition |-> "open"] \in Failure
    BY <1>2 DEF Failure
  <2>2. Blocked(n, a) \in Work
    BY <1>1, <2>1 DEF Blocked, Work
  <2>3. Blocked(n, a).claim = None /\ Blocked(n, a).integration = work[n].integration
    BY <1>1 DEF Blocked, Work
  <2> QED BY <1>2, <1>5, <2>2, <2>3 DEF Records, SoundClaim, SoundIntegration
<1> QED BY <1>4, <1>5 DEF WorkClaim

\* A claim kept as it was, with a result of its own if any, is sound.
LEMMA KeptIsSound ==
    ASSUME IInv, NEW n \in WorkItems(plan), NEW w \in Work,
           w.integration = work[n].integration,
           w.claim # None => /\ w.claim = work[n].claim
                             /\ w.result # None => w.result.attempt = w.claim.attempt
    PROVE  SoundClaim(n, w) /\ SoundIntegration(n, w)
<1>1. n \in Nodes
  BY NodeOfPlan DEF IInv
<1>2. w.claim # None => w.integration = None
  BY <1>1 DEF IInv, ClaimsAreCurrent, Complete
<1> QED BY <1>2 DEF SoundClaim, SoundIntegration

LEMMA ResultRecords ==
    ASSUME IInv, NEW n \in WorkItems(plan), NEW a \in Attempts, NEW ok \in BOOLEAN,
           WorkResult(n, a, ok)
    PROVE  \E w : Records(n, w)
<1>1. n \in Nodes /\ work[n] \in Work /\ minted' \in 0..MaxAttempts
  BY NodeOfPlan DEF IInv, TypeOK, WorkResult
<1> DEFINE result == [attempt |-> a, ok |-> ok]
           failure == IF ok THEN None ELSE [attempt |-> a, disposition |-> "open"]
           w == [work[n] EXCEPT !.result = result, !.failure = failure]
<1>2. result \in Result /\ failure \in Failure \cup {None}
  BY DEF Result, Failure
<1>3. /\ w \in Work /\ w.claim = work[n].claim /\ w.integration = work[n].integration
      /\ w.result = result
  <2> HIDE DEF result, failure
  <2> QED BY <1>1, <1>2 DEF Work
<1>4. Save(n, w) /\ work[n].claim.attempt = a
  BY DEF WorkResult
<1> HIDE DEF w
<1> QED BY <1>1, <1>3, <1>4, KeptIsSound DEF Records

LEMMA RejectRecords ==
    ASSUME IInv, NEW n \in WorkItems(plan), NEW a \in Attempts,
           WorkReject(n, a) \/ WorkAbandon(n, a)
    PROVE  \E w : Records(n, w)
<1>1. n \in Nodes /\ work[n] \in Work /\ minted' \in 0..MaxAttempts
  BY NodeOfPlan DEF IInv, TypeOK, WorkReject, WorkAbandon
<1>2. PICK failure \in Failure :
         Save(n, [work[n] EXCEPT !.claim = None, !.failure = failure])
  <2>1. \A d \in {"open", "abandoned"} : [attempt |-> a, disposition |-> d] \in Failure
    BY DEF Failure
  <2> QED BY <2>1 DEF WorkReject, WorkAbandon
<1> DEFINE w == [work[n] EXCEPT !.claim = None, !.failure = failure]
<1>3. w \in Work /\ w.claim = None /\ w.integration = work[n].integration
  BY <1>1 DEF Work
<1> HIDE DEF w
<1> QED BY <1>1, <1>2, <1>3, KeptIsSound DEF Records, w

LEMMA RetryRecords ==
    ASSUME IInv, NEW n \in WorkItems(plan), NEW d \in {"retry", "inline"}, WorkRetry(n, d)
    PROVE  \E w : Records(n, w)
<1>1. n \in Nodes /\ work[n] \in Work /\ minted' \in 0..MaxAttempts
  BY NodeOfPlan DEF IInv, TypeOK, WorkRetry
<1>2. work[n].failure # None
  BY DEF WorkRetry, Retryable, Disposed
<1>3. [work[n].failure EXCEPT !.disposition = d] \in Failure
  BY <1>1, <1>2 DEF Work, Failure
<1> DEFINE w == [work[n] EXCEPT !.claim = None, !.failure.disposition = d]
<1>4. w \in Work /\ w.claim = None /\ w.integration = work[n].integration
  BY <1>1, <1>3 DEF Work
<1>5. Save(n, w)
  BY DEF WorkRetry
<1> HIDE DEF w
<1> QED BY <1>1, <1>4, <1>5, KeptIsSound DEF Records

LEMMA IntegrateRecords ==
    ASSUME IInv, NEW n \in WorkItems(plan), NEW a \in Attempts, WorkIntegrate(n, a)
    PROVE  \E w : Records(n, w)
<1>1. n \in Nodes /\ work[n] \in Work /\ minted' \in 0..MaxAttempts
  BY NodeOfPlan DEF IInv, TypeOK, WorkIntegrate
<1>2. CASE Save(n, [work[n] EXCEPT !.failure = [attempt |-> a, disposition |-> "open"]])
  <2> DEFINE w == [work[n] EXCEPT !.failure = [attempt |-> a, disposition |-> "open"]]
  <2>1. [attempt |-> a, disposition |-> "open"] \in Failure
    BY DEF Failure
  <2>2. /\ w \in Work /\ w.claim = work[n].claim /\ w.integration = work[n].integration
        /\ w.result = work[n].result
    BY <1>1, <2>1 DEF Work
  <2>3. w.claim # None /\ w.result # None => w.result.attempt = w.claim.attempt
    <3> HIDE DEF w
    <3> QED BY <1>1, <2>2 DEF IInv, ClaimsAreCurrent
  <2>4. Save(n, w)
    BY <1>2
  <2> HIDE DEF w
  <2> QED BY <1>1, <2>2, <2>3, <2>4, KeptIsSound DEF Records
<1>3. CASE /\ work[n].claim # None
           /\ Save(n, [work[n] EXCEPT !.claim = None, !.failure = None,
                         !.integration = [attempt |-> a, under |-> work[n].claim.under,
                                          recovered |-> FALSE]])
  <2> DEFINE i == [attempt |-> a, under |-> work[n].claim.under, recovered |-> FALSE]
             w == [work[n] EXCEPT !.claim = None, !.failure = None, !.integration = i]
  <2>1. i \in Integration /\ i # None /\ ~i.recovered /\ i.under = work[n].claim.under
    <3> HIDE DEF w
    <3>1. work[n].claim.under \in Plans
      BY <1>1, <1>3, WorkFields
    <3>2. i \in Integration
      BY <3>1 DEF Integration
    <3> QED BY <3>2, NoneFacts
  <2>2. w \in Work /\ w.claim = None /\ w.integration = i
    <3> HIDE DEF i
    <3> QED BY <1>1, <2>1 DEF Work
  <2>3. Carried(work[n].claim.under, n) /\ \A d \in Deps(plan, n) : Complete(d)
    BY <1>1, <1>3 DEF IInv, ClaimsAreCurrent, DependenciesIntegrated
  <2>4. Save(n, w)
    BY <1>3
  <2> HIDE DEF w, i
  <2> QED BY <1>1, <2>1, <2>2, <2>3, <2>4 DEF Records, SoundClaim, SoundIntegration
<1> QED BY <1>2, <1>3 DEF WorkIntegrate

LEMMA RecoverRecords ==
    ASSUME IInv, NEW n \in WorkItems(plan), WorkRecover(n)
    PROVE  \E w : Records(n, w)
<1>1. n \in Nodes /\ work[n] \in Work /\ minted' \in 0..MaxAttempts
  BY NodeOfPlan DEF IInv, TypeOK, WorkRecover
<1> DEFINE prior == events[Len(events)].prior[n]
           i == [prior EXCEPT !.recovered = TRUE]
           w == [work[n] EXCEPT !.failure = None, !.integration = i]
<1>2. prior \in Integration
  <2>1. events \in Seq(Event) /\ events # <<>> /\ prior # None
    BY DEF IInv, TypeOK, WorkRecover
  <2>2. events[Len(events)] \in Event
    BY <2>1
  <2> QED BY <1>1, <2>1, <2>2 DEF Event
<1>3. i \in Integration /\ i # None /\ i.recovered
  BY <1>2, NoneFacts DEF Integration
<1>4. Save(n, w) /\ work[n].claim = None /\ \A d \in Deps(plan, n) : Complete(d)
  BY DEF WorkRecover
<1>5. w \in Work /\ w.claim = None /\ w.integration = i
  <2> HIDE DEF i
  <2> QED BY <1>1, <1>3, <1>4 DEF Work
<1> HIDE DEF w, i
<1> QED BY <1>1, <1>3, <1>4, <1>5 DEF Records, SoundClaim, SoundIntegration

LEMMA VerbStep == ASSUME IInv, NEW n \in WorkItems(plan), WorkVerb(n) PROVE IInv'
<1>1. \E w : Records(n, w)
  BY ClaimRecords, ResultRecords, RejectRecords, RetryRecords, IntegrateRecords, RecoverRecords
     DEF WorkVerb
<1> QED BY <1>1, VerbPreserves

-----------------------------------------------------------------------------
(***************************************************************************)
(* The rewrite, the corrections of the plan, and the rest.                 *)
(***************************************************************************)
\* A step that changes nothing of the nodes or the plan, and allows no rewrite that
\* was not allowed, preserves what is said of them.
LEMMA NodesUntouched ==
    ASSUME IInv, UNCHANGED <<plan, work>>, TypeOK',
           preparation' = "current" => \A n \in Nodes : work[n].claim = None
    PROVE  IInv'
<1>1. \A n : (Complete(n)' <=> Complete(n)) /\ (\A u : Carried(u, n)' <=> Carried(u, n))
  BY DEF Complete, Carried
<1>2. DependenciesIntegrated'
  BY <1>1 DEF IInv, DependenciesIntegrated
<1>3. HoldersCompatible'
  BY DEF IInv, HoldersCompatible, Holders, Conflict
<1>4. AttemptedForThisPlan' /\ ClaimsAreCurrent'
  BY <1>1 DEF IInv, AttemptedForThisPlan, ClaimsAreCurrent
<1>5. PreparationIsQuiet'
  BY DEF PreparationIsQuiet
<1> QED BY <1>2, <1>3, <1>4, <1>5 DEF IInv

LEMMA InitInvariant == Init => IInv
<1> SUFFICES ASSUME Init PROVE IInv
  OBVIOUS
<1>1. Untouched \in Work /\ \A n \in Nodes : work[n] = Untouched
  BY DEF Init, Untouched, Work
<1>2. \A n \in Nodes : work[n].claim = None /\ work[n].integration = None
  BY <1>1 DEF Untouched
<1>3. TypeOK
  <2>1. work \in [Nodes -> Work]
    BY <1>1 DEF Init
  <2>2. events \in Seq(Event) /\ Len(events) <= MaxRewrites
    BY BoundsAreNatural DEF Init
  <2>3. minted \in 0..MaxAttempts /\ plan \in Plans /\ sealed \in Plans
    BY PlansAreGraphs, BoundsAreNatural DEF Init
  <2> QED BY <2>1, <2>2, <2>3 DEF Init, TypeOK
<1>4. Holders = {}
  BY <1>2, GraphFacts, <1>3 DEF Holders, TypeOK
<1>5. \A n \in Nodes : ~Complete(n)
  BY <1>2 DEF Complete
<1>6. DependenciesIntegrated
  BY <1>2, <1>5 DEF DependenciesIntegrated
<1>7. AttemptedForThisPlan
  BY <1>5 DEF AttemptedForThisPlan
<1>8. ClaimsAreCurrent /\ PreparationIsQuiet
  BY <1>2 DEF ClaimsAreCurrent, PreparationIsQuiet
<1>9. HoldersCompatible
  BY <1>4 DEF HoldersCompatible
<1> QED BY <1>3, <1>6, <1>7, <1>8, <1>9 DEF IInv

\* What is invalidated is closed under dependence, so what is left rests on what is
\* left; and nothing was claimed on what is gone.
LEMMA RewriteStep == ASSUME IInv, ApplyRewrite PROVE IInv'
<1> USE DEF IInv
<1>1. PICK S \in Affected :
         /\ work' = [n \in Nodes |-> IF n \in S THEN Invalidated(work[n]) ELSE work[n]]
         /\ events' = Append(events, [plan |-> plan, invalidated |-> S,
                                      prior |-> [n \in Nodes |-> work[n].integration]])
  BY DEF ApplyRewrite
<1>2. /\ S \subseteq WorkItems(plan) /\ S \subseteq Nodes
      /\ \A n \in WorkItems(plan) : Deps(plan, n) \cap S # {} => n \in S
  BY GraphFacts DEF Affected, TypeOK
<1>3. UNCHANGED <<plan, sealed, approved, minted>> /\ preparation' = None /\ settled' = TRUE
  BY DEF ApplyRewrite
<1>4. \A n \in Nodes : work[n] \in Work /\ work[n].claim = None
  BY DEF PreparationIsQuiet, ApplyRewrite, TypeOK
<1>5. ASSUME NEW w \in Work
      PROVE  /\ Invalidated(w) \in Work
             /\ Invalidated(w).claim = w.claim /\ Invalidated(w).integration = None
  <2>1. CASE w.integration = None
    BY <2>1, <1>5 DEF Invalidated
  <2>2. CASE w.integration # None
    <3> DEFINE failure == [attempt |-> w.integration.attempt, disposition |-> "open"]
    <3>1. failure \in Failure
      BY <1>5, <2>2, WorkFields DEF Failure
    <3>2. Invalidated(w) = [w EXCEPT !.integration = None, !.failure = failure]
      BY <2>2 DEF Invalidated
    <3> HIDE DEF failure
    <3> QED BY <1>5, <3>1, <3>2 DEF Work
  <2> QED BY <2>1, <2>2
<1>6. ASSUME NEW n \in Nodes
      PROVE  /\ work'[n] \in Work /\ work'[n].claim = None
             /\ n \in S => work'[n].integration = None
             /\ n \notin S => work'[n] = work[n]
  BY <1>1, <1>4, <1>5, <1>6
<1>7. TypeOK'
  <2>1. [n \in Nodes |-> work[n].integration] \in [Nodes -> Integration \cup {None}]
    BY <1>4 DEF Work
  <2>2. [plan |-> plan, invalidated |-> S,
         prior |-> [n \in Nodes |-> work[n].integration]] \in Event
    BY <1>2, <2>1 DEF Event, TypeOK
  <2>3. events' \in Seq(Event) /\ Len(events') <= MaxRewrites
    BY <1>1, <2>2, BoundsAreNatural DEF ApplyRewrite, TypeOK
  <2>4. work' \in [Nodes -> Work]
    BY <1>1, <1>6
  <2> QED BY <1>3, <2>3, <2>4 DEF TypeOK
<1>8. ASSUME NEW n \in Nodes, Complete(n)'
      PROVE  n \notin S /\ Complete(n) /\ work'[n] = work[n]
  BY <1>6, <1>8 DEF Complete
<1>9. DependenciesIntegrated'
  <2>1. SUFFICES ASSUME NEW n \in Nodes, work'[n].claim # None \/ Complete(n)'
                 PROVE  n \in WorkItems(plan) /\ \A d \in Deps(plan, n) : Complete(d)'
    BY <1>3 DEF DependenciesIntegrated
  <2>2. n \notin S /\ Complete(n)
    BY <1>6, <1>8, <2>1
  <2>3. n \in WorkItems(plan) /\ \A d \in Deps(plan, n) : Complete(d)
    BY <2>2 DEF DependenciesIntegrated
  <2>4. \A d \in Deps(plan, n) : d \in Nodes /\ d \notin S
    BY <1>2, <2>2, <2>3, GraphFacts DEF TypeOK
  <2> QED BY <1>6, <2>3, <2>4 DEF Complete
<1>10. HoldersCompatible'
  <2>1. Holders' = {}
    BY <1>3, <1>6, GraphFacts DEF Holders, TypeOK
  <2> QED BY <2>1 DEF HoldersCompatible
<1>11. AttemptedForThisPlan'
  BY <1>3, <1>8 DEF AttemptedForThisPlan, Carried
<1>12. ClaimsAreCurrent' /\ PreparationIsQuiet'
  BY <1>6 DEF ClaimsAreCurrent, PreparationIsQuiet
<1> QED BY <1>7, <1>9, <1>10, <1>11, <1>12

\* An adoption keeps whole histories: a node, all it depends on, and what was
\* recorded of them.
LEMMA AdoptStep == ASSUME IInv, NEW q \in Plans, Adopt(q) PROVE IInv'
<1> USE DEF IInv
<1>0. plan \in Plans /\ plan' = q /\ sealed' = q /\ approved' = TRUE
      /\ UNCHANGED <<minted, events, settled>> /\ preparation' = Outdated(preparation)
  BY DEF Adopt, Kept, TypeOK
<1> DEFINE K == Unchanged(plan, q)
<1>1. ASSUME NEW n \in K
      PROVE  /\ n \in WorkItems(plan) /\ n \in WorkItems(q) /\ n \in Nodes
             /\ Item[plan][n] = Item[q][n] /\ Deps(q, n) = Deps(plan, n) /\ Deps(q, n) \subseteq K
  <2>1. n \in Identical(plan, q) /\ Deps(q, n) \subseteq K
    BY <1>0, <1>1, UnchangedIsClosed
  <2> QED BY <1>0, <2>1, GraphFacts DEF Identical, Deps
<1>2. Untouched \in Work /\ Untouched.claim = None /\ Untouched.integration = None
  BY DEF Untouched, Work
<1>3. /\ work' \in [Nodes -> Work]
      /\ \A n \in Nodes : IF n \in K THEN work'[n] = work[n] ELSE work'[n] = Untouched
  BY <1>2 DEF Adopt, Kept, TypeOK
<1>4. \A n \in Nodes : work'[n].claim # None \/ Complete(n)' => n \in K /\ work'[n] = work[n]
  BY <1>2, <1>3 DEF Complete
<1>5. TypeOK'
  BY <1>0, <1>3 DEF TypeOK, Outdated
<1>6. DependenciesIntegrated'
  <2>1. SUFFICES ASSUME NEW n \in Nodes, work'[n].claim # None \/ Complete(n)'
                 PROVE  n \in WorkItems(q) /\ \A d \in Deps(q, n) : Complete(d)'
    BY <1>0 DEF DependenciesIntegrated
  <2>2. n \in K /\ (work[n].claim # None \/ Complete(n))
    BY <1>4, <2>1 DEF Complete
  <2>3. \A d \in Deps(q, n) : Complete(d) /\ d \in K /\ d \in Nodes
    BY <1>1, <2>2 DEF DependenciesIntegrated
  <2> QED BY <1>1, <1>3, <2>2, <2>3 DEF Complete
<1>7. HoldersCompatible'
  <2>1. SUFFICES ASSUME NEW m \in Holders', NEW n \in Holders', m # n
                 PROVE  ~Conflict(q, m, n)
    BY <1>0 DEF HoldersCompatible, Conflict
  <2>2. /\ m \in Nodes /\ n \in Nodes
        /\ work'[m].claim # None /\ work'[n].claim # None
    BY <1>0, <2>1, GraphFacts DEF Holders
  <2>3. m \in K /\ n \in K /\ m \in Holders /\ n \in Holders
    BY <1>1, <1>4, <2>2 DEF Holders
  <2>4. ~Conflict(plan, m, n)
    BY <2>1, <2>3 DEF HoldersCompatible
  <2> QED BY <1>1, <2>3, <2>4 DEF Conflict
<1>8. ASSUME NEW n \in K, NEW u \in Plans, Carried(u, n)
      PROVE  u = q \/ n \in Unchanged(u, q)
  BY <1>0, <1>8, UnchangedComposes DEF Carried
<1>9. AttemptedForThisPlan'
  <2>1. SUFFICES ASSUME NEW n \in Nodes, Complete(n)', ~work'[n].integration.recovered
                 PROVE  \/ work'[n].integration.under = q
                        \/ n \in Unchanged(work'[n].integration.under, q)
    BY <1>0 DEF AttemptedForThisPlan, Carried
  <2>2. n \in K /\ work'[n] = work[n] /\ Complete(n)
    BY <1>4, <2>1 DEF Complete
  <2>3. work[n].integration.under \in Plans /\ Carried(work[n].integration.under, n)
    BY <2>1, <2>2, WorkFields DEF Complete, TypeOK, AttemptedForThisPlan
  <2> QED BY <1>8, <2>2, <2>3
<1>10. ClaimsAreCurrent'
  <2>1. SUFFICES ASSUME NEW n \in Nodes, work'[n].claim # None
                 PROVE  /\ ~Complete(n)'
                        /\ \/ work'[n].claim.under = q
                           \/ n \in Unchanged(work'[n].claim.under, q)
                        /\ work'[n].result # None => work'[n].result.attempt = work'[n].claim.attempt
    BY <1>0 DEF ClaimsAreCurrent, Carried
  <2>2. n \in K /\ work'[n] = work[n] /\ work[n].claim # None
    BY <1>4, <2>1
  <2>3. /\ work[n].claim.under \in Plans /\ Carried(work[n].claim.under, n)
        /\ ~Complete(n)
        /\ work[n].result # None => work[n].result.attempt = work[n].claim.attempt
    BY <2>2, WorkFields DEF TypeOK, ClaimsAreCurrent
  <2> QED BY <1>8, <2>2, <2>3 DEF Complete
<1>11. PreparationIsQuiet'
  BY <1>0, NoneFacts DEF PreparationIsQuiet, Outdated, TypeOK
<1> QED BY <1>5, <1>6, <1>7, <1>9, <1>10, <1>11

LEMMA ReviseStep == ASSUME IInv, NEW q \in Plans, Revise(q) PROVE IInv'
<1>1. \A n \in Nodes : work'[n].claim = None /\ work'[n].integration = None
  BY DEF Revise, Untouched
<1>2. work' \in [Nodes -> Work]
  BY DEF Revise, Untouched, Work
<1>3. TypeOK'
  BY <1>2 DEF IInv, TypeOK, Revise, Outdated
<1>4. Holders' = {}
  BY <1>1, GraphFacts DEF Holders, Revise
<1>5. \A n \in Nodes : ~Complete(n)'
  BY <1>1 DEF Complete
<1>6. HoldersCompatible' /\ DependenciesIntegrated' /\ AttemptedForThisPlan'
  BY <1>1, <1>4, <1>5 DEF HoldersCompatible, DependenciesIntegrated, AttemptedForThisPlan
<1>7. ClaimsAreCurrent' /\ PreparationIsQuiet'
  BY <1>1 DEF ClaimsAreCurrent, PreparationIsQuiet
<1> QED BY <1>3, <1>6, <1>7 DEF IInv

\* A claim is marked, and nothing else is changed.
LEMMA RestoreStep == ASSUME IInv, HandoffRestore PROVE IInv'
<1> USE DEF IInv
<1>0. UNCHANGED <<plan, sealed, approved, minted, events, settled>>
      /\ preparation' = Outdated(preparation)
  BY DEF HandoffRestore
<1>1. ASSUME NEW n \in Nodes
      PROVE  /\ work'[n] \in Work
             /\ work'[n].claim # None <=> work[n].claim # None
             /\ work'[n].claim # None => /\ work'[n].claim.under = work[n].claim.under
                                         /\ work'[n].claim.attempt = work[n].claim.attempt
             /\ work'[n].result = work[n].result
             /\ work'[n].integration = work[n].integration
  <2>1. work[n] \in Work
    BY DEF TypeOK
  <2>2. CASE work'[n] = work[n]
    BY <2>1, <2>2
  <2>3. CASE work[n].claim # None /\ work'[n] = [work[n] EXCEPT !.claim.restored = TRUE]
    <3> DEFINE claim == [work[n].claim EXCEPT !.restored = TRUE]
    <3>1. /\ claim \in Claim /\ claim.under = work[n].claim.under
          /\ claim.attempt = work[n].claim.attempt
      BY <2>1, <2>3, WorkFields DEF Claim
    <3>2. work'[n] = [work[n] EXCEPT !.claim = claim] /\ claim # None
      BY <2>3, <3>1, NoneFacts
    <3> HIDE DEF claim
    <3> QED BY <2>1, <2>3, <3>1, <3>2 DEF Work
  <2> QED BY <2>2, <2>3 DEF HandoffRestore
<1>2. TypeOK'
  <2>1. work' \in [Nodes -> Work]
    BY <1>1 DEF HandoffRestore
  <2> QED BY <1>0, <2>1 DEF TypeOK, Outdated
<1>3. \A n \in Nodes : Complete(n)' <=> Complete(n)
  BY <1>1 DEF Complete
<1>4. DependenciesIntegrated'
  <2>1. SUFFICES ASSUME NEW n \in Nodes, work'[n].claim # None \/ Complete(n)'
                 PROVE  n \in WorkItems(plan) /\ \A d \in Deps(plan, n) : Complete(d)'
    BY <1>0 DEF DependenciesIntegrated
  <2>2. n \in WorkItems(plan) /\ \A d \in Deps(plan, n) : Complete(d)
    BY <1>1, <1>3, <2>1 DEF DependenciesIntegrated
  <2>3. \A d \in Deps(plan, n) : d \in Nodes
    BY <2>2, GraphFacts DEF TypeOK
  <2> QED BY <1>3, <2>2, <2>3
<1>5. HoldersCompatible'
  <2>1. Holders' = Holders
    BY <1>0, <1>1, GraphFacts DEF Holders, TypeOK
  <2> QED BY <1>0, <2>1 DEF HoldersCompatible, Conflict
<1>6. AttemptedForThisPlan'
  BY <1>0, <1>1 DEF AttemptedForThisPlan, Carried, Complete
<1>7. ClaimsAreCurrent'
  BY <1>0, <1>1 DEF ClaimsAreCurrent, Carried, Complete
<1>8. PreparationIsQuiet'
  BY <1>0, NoneFacts DEF PreparationIsQuiet, Outdated, TypeOK
<1> QED BY <1>2, <1>4, <1>5, <1>6, <1>7, <1>8

\* The steps that only approve, prepare or look at the history.
LEMMA QuietStep ==
    ASSUME IInv, Approve \/ PrepareRewrite \/ CancelPreparation \/ MoveHead \/ UNCHANGED vars
    PROVE  IInv'
<1>1. UNCHANGED <<plan, work>>
  BY DEF Approve, PrepareRewrite, CancelPreparation, MoveHead, vars
<1>2. TypeOK'
  BY DEF IInv, TypeOK, Approve, PrepareRewrite, CancelPreparation, MoveHead, vars, Outdated
<1>3. preparation' = "current" => \A n \in Nodes : work[n].claim = None
  BY NoneFacts DEF IInv, TypeOK, PreparationIsQuiet, ClaimsAreCurrent, Approve, PrepareRewrite,
     CancelPreparation, MoveHead, vars, Outdated
<1> QED BY <1>1, <1>2, <1>3, NodesUntouched

LEMMA NextStep == IInv /\ [Next]_vars => IInv'
<1> SUFFICES ASSUME IInv, [Next]_vars PROVE IInv'
  OBVIOUS
<1>1. CASE \E n \in WorkItems(plan) : WorkVerb(n)
  BY <1>1, VerbStep
<1>2. CASE \E q \in Plans : Adopt(q) \/ Revise(q)
  BY <1>2, AdoptStep, ReviseStep
<1>3. CASE ApplyRewrite
  BY <1>3, RewriteStep
<1>4. CASE HandoffRestore
  BY <1>4, RestoreStep
<1>5. CASE Approve \/ PrepareRewrite \/ CancelPreparation \/ MoveHead \/ UNCHANGED vars
  BY <1>5, QuietStep
<1> QED BY <1>1, <1>2, <1>3, <1>4, <1>5 DEF Next

-----------------------------------------------------------------------------
(***************************************************************************)
(* The theorems.                                                           *)
(***************************************************************************)
\* The inductive invariant holds of every Build.
THEOREM Invariance == Spec => []IInv
BY InitInvariant, NextStep, PTL DEF Spec

\* What is recorded of every node is well formed, whatever verbs, corrections,
\* rewrites and restores came in between.
THEOREM TypeCorrect == Spec => []TypeOK
<1>1. IInv => TypeOK
  BY DEF IInv
<1> QED BY <1>1, Invariance, PTL

\* Nothing is claimed or integrated whose dependencies are not integrated.
THEOREM DependenciesFirst == Spec => []DependenciesIntegrated
<1>1. IInv => DependenciesIntegrated
  BY DEF IInv
<1> QED BY <1>1, Invariance, PTL

\* No two claims held collide.
THEOREM ExclusiveHolders == Spec => []HoldersCompatible
<1>1. IInv => HoldersCompatible
  BY DEF IInv
<1> QED BY <1>1, Invariance, PTL

\* What an attempt integrated is work on the item as the plan in force has it, over any
\* chain of adoptions.
THEOREM EvidenceOfAttempts == Spec => []AttemptedForThisPlan
<1>1. IInv => AttemptedForThisPlan
  BY DEF IInv
<1> QED BY <1>1, Invariance, PTL

\* Every other verb leaves the integration alone.
LEMMA OtherVerbs ==
    ASSUME IInv, NEW n \in WorkItems(plan), WorkVerb(n),
           ~WorkRecover(n), ~\E a \in Attempts : WorkIntegrate(n, a)
    PROVE  work'[n].integration = work[n].integration /\ \E w : Save(n, w)
<1>1. n \in Nodes /\ work[n] \in Work /\ work \in [Nodes -> Work]
  BY NodeOfPlan DEF IInv, TypeOK
<1>2. ASSUME NEW w, Save(n, w), w.integration = work[n].integration
      PROVE  work'[n].integration = work[n].integration /\ \E v : Save(n, v)
  BY <1>1, <1>2 DEF Save
<1>3. CASE WorkClaim(n)
  <2> DEFINE a == minted + 1
  <2>1. Save(n, Dispatched(n, a)) \/ Save(n, Blocked(n, a))
    BY <1>3 DEF WorkClaim
  <2>2. /\ Dispatched(n, a).integration = work[n].integration
        /\ Blocked(n, a).integration = work[n].integration
    BY <1>1 DEF Dispatched, Blocked, Work
  <2> HIDE DEF a
  <2> QED BY <1>2, <2>1, <2>2
<1>4. CASE \E a \in Attempts, ok \in BOOLEAN : WorkResult(n, a, ok)
  <2>1. PICK a \in Attempts, ok \in BOOLEAN : WorkResult(n, a, ok)
    BY <1>4
  <2> DEFINE w == [work[n] EXCEPT !.result = [attempt |-> a, ok |-> ok],
                                  !.failure = IF ok THEN None
                                              ELSE [attempt |-> a, disposition |-> "open"]]
  <2>2. Save(n, w)
    BY <2>1 DEF WorkResult
  <2>3. w.integration = work[n].integration
    BY <1>1 DEF Work
  <2> HIDE DEF w
  <2> QED BY <1>2, <2>2, <2>3
<1>5. CASE \E a \in Attempts : WorkReject(n, a) \/ WorkAbandon(n, a)
  <2>1. PICK a \in Attempts : WorkReject(n, a) \/ WorkAbandon(n, a)
    BY <1>5
  <2> DEFINE w(d) == [work[n] EXCEPT !.claim = None, !.failure = [attempt |-> a, disposition |-> d]]
  <2>2. Save(n, w("open")) \/ Save(n, w("abandoned"))
    BY <2>1 DEF WorkReject, WorkAbandon
  <2>3. \A d : w(d).integration = work[n].integration
    BY <1>1 DEF Work
  <2> HIDE DEF w
  <2> QED BY <1>2, <2>2, <2>3
<1>6. CASE \E d \in {"retry", "inline"} : WorkRetry(n, d)
  <2>1. PICK d \in {"retry", "inline"} : WorkRetry(n, d)
    BY <1>6
  <2> DEFINE w == [work[n] EXCEPT !.claim = None, !.failure.disposition = d]
  <2>2. Save(n, w)
    BY <2>1 DEF WorkRetry
  <2>3. w.integration = work[n].integration
    BY <1>1 DEF Work
  <2> HIDE DEF w
  <2> QED BY <1>2, <2>2, <2>3
<1> QED BY <1>3, <1>4, <1>5, <1>6 DEF WorkVerb

\* Only the attempt whose claim is held is integrated, with its own result.
LEMMA IntegrationStep ==
    ASSUME IInv, [Next]_vars, NEW n \in Nodes,
           ~Complete(n), Complete(n)', ~work'[n].integration.recovered
    PROVE  Returned(work[n]) /\ work[n].claim.attempt = work'[n].integration.attempt
<1> USE DEF IInv
<1>0. work \in [Nodes -> Work] /\ work[n] \in Work
  BY DEF TypeOK
<1>1. CASE \E m \in WorkItems(plan) : WorkVerb(m)
  <2>1. PICK m \in WorkItems(plan) : WorkVerb(m)
    BY <1>1
  <2>2. m \in Nodes /\ work[m] \in Work
    BY NodeOfPlan
  <2>3. \A w : Save(m, w) => work'[m] = w /\ \A o \in Nodes : o # m => work'[o] = work[o]
    BY <1>0, <2>2 DEF Save
  <2>4. CASE \E a \in Attempts : WorkIntegrate(m, a)
    <3>1. PICK a \in Attempts : WorkIntegrate(m, a)
      BY <2>4
    <3>2. CASE Save(m, [work[m] EXCEPT !.failure = [attempt |-> a, disposition |-> "open"]])
      <4>1. \A o \in Nodes : work'[o].integration = work[o].integration
        BY <2>2, <2>3, <3>2 DEF Work
      <4> QED BY <4>1 DEF Complete
    <3>3. CASE /\ work[m].claim # None
               /\ Save(m, [work[m] EXCEPT !.claim = None, !.failure = None,
                             !.integration = [attempt |-> a, under |-> work[m].claim.under,
                                              recovered |-> FALSE]])
      <4>1. n = m
        BY <2>3, <3>3 DEF Complete
      <4>2. work'[n].integration = [attempt |-> a, under |-> work[m].claim.under,
                                    recovered |-> FALSE]
        <5> DEFINE i == [attempt |-> a, under |-> work[m].claim.under, recovered |-> FALSE]
        <5>1. work'[n] = [work[n] EXCEPT !.claim = None, !.failure = None, !.integration = i]
          BY <2>3, <3>3, <4>1
        <5> HIDE DEF i
        <5>2. work'[n].integration = i
          BY <1>0, <5>1 DEF Work
        <5> QED BY <5>2 DEF i
      <4>3. work[n].result # None /\ work[n].result.ok /\ work[n].result.attempt = a
        BY <3>1, <4>1 DEF WorkIntegrate
      <4>4. work[n].result.attempt = work[n].claim.attempt
        BY <3>3, <4>1, <4>3 DEF ClaimsAreCurrent
      <4> QED BY <3>3, <4>1, <4>2, <4>3, <4>4 DEF Returned
    <3> QED BY <3>1, <3>2, <3>3 DEF WorkIntegrate
  <2>5. CASE WorkRecover(m)
    <3> DEFINE prior == events[Len(events)].prior[m]
    <3>1. Save(m, [work[m] EXCEPT !.failure = None, !.integration = [prior EXCEPT !.recovered = TRUE]])
      BY <2>5 DEF WorkRecover
    <3>2. n = m
      BY <2>3, <3>1 DEF Complete
    <3>3. prior \in Integration
      <4>1. events \in Seq(Event) /\ events # <<>> /\ prior # None
        BY <2>5 DEF TypeOK, WorkRecover
      <4>2. events[Len(events)] \in Event
        BY <4>1
      <4> QED BY <2>2, <4>1, <4>2 DEF Event
    <3>4. work'[n].integration = [prior EXCEPT !.recovered = TRUE]
      <4> DEFINE i == [prior EXCEPT !.recovered = TRUE]
      <4>1. work'[n] = [work[n] EXCEPT !.failure = None, !.integration = i]
        BY <2>3, <3>1, <3>2
      <4> HIDE DEF i
      <4>2. work'[n].integration = i
        BY <1>0, <4>1 DEF Work
      <4> QED BY <4>2 DEF i
    <3>5. work'[n].integration.recovered
      BY <3>3, <3>4 DEF Integration
    <3> QED BY <3>5
  <2>6. CASE ~WorkRecover(m) /\ ~\E a \in Attempts : WorkIntegrate(m, a)
    <3>1. work'[m].integration = work[m].integration
      BY <2>1, <2>2, <2>6, OtherVerbs
    <3>2. \A o \in Nodes : work'[o].integration = work[o].integration
      <4>1. \E w : Save(m, w)
        BY <2>1, <2>2, <2>6, OtherVerbs
      <4> QED BY <2>3, <3>1, <4>1
    <3> QED BY <3>2 DEF Complete
  <2> QED BY <2>4, <2>5, <2>6
<1>2. CASE ApplyRewrite
  <2>1. \A w \in Work : w.integration = None => Invalidated(w).integration = None
    BY DEF Invalidated
  <2>2. \A w \in Work : w.integration # None => Invalidated(w).integration = None
    BY DEF Invalidated, Work
  <2>3. work'[n] = work[n] \/ work'[n] = Invalidated(work[n])
    BY <1>2 DEF ApplyRewrite
  <2> QED BY <1>0, <2>1, <2>2, <2>3 DEF Complete
<1>3. CASE \E q \in Plans : Adopt(q) \/ Revise(q)
  BY <1>0, <1>3 DEF Adopt, Kept, Revise, Untouched, Complete
<1>4. CASE HandoffRestore
  <2>1. work'[n] = work[n] \/ work'[n] = [work[n] EXCEPT !.claim.restored = TRUE]
    BY <1>4 DEF HandoffRestore
  <2> QED BY <1>0, <2>1 DEF Work, Complete
<1>5. CASE Approve \/ PrepareRewrite \/ CancelPreparation \/ MoveHead \/ UNCHANGED vars
  BY <1>5 DEF Approve, PrepareRewrite, CancelPreparation, MoveHead, vars, Complete
<1> QED BY <1>1, <1>2, <1>3, <1>4, <1>5 DEF Next

\* The late result of an earlier attempt is never what becomes integrated.
THEOREM LateResultsStayOut == Spec => IntegratesTheClaim
<1>1. IInv /\ [Next]_vars =>
        [\A n \in Nodes :
            ~Complete(n) /\ Complete(n)' /\ ~work'[n].integration.recovered =>
               /\ Returned(work[n])
               /\ work[n].claim.attempt = work'[n].integration.attempt]_vars
  BY IntegrationStep
<1> QED BY <1>1, Invariance, PTL DEF Spec, IntegratesTheClaim

\* Of the unfinished nodes one rests on integrated nodes only, because the plan has no
\* cycle; and with nothing claimed every slot and every resource is free.
LEMMA SomethingIsOpen == IInv => NeverStuck
<1> SUFFICES ASSUME IInv, \E n \in WorkItems(plan) : ~Complete(n)
             PROVE  \E n \in WorkItems(plan) :
                       ~Complete(n) /\ (Claimable(n) \/ work[n].claim # None \/ Retryable(n))
  BY DEF NeverStuck
<1> USE DEF IInv
<1> DEFINE U == {n \in WorkItems(plan) : ~Complete(n)}
<1>1. PICK n \in U : Deps(plan, n) \cap U = {}
  <2>1. U \in SUBSET WorkItems(plan) /\ U # {} /\ plan \in Plans
    BY DEF TypeOK
  <2> QED BY <2>1, PlansAreAcyclic
<1>2. /\ n \in WorkItems(plan) /\ ~Complete(n) /\ n \in Nodes /\ work[n] \in Work
      /\ \A d \in Deps(plan, n) : Complete(d)
  BY <1>1, GraphFacts DEF TypeOK
<1>3. CASE Retryable(n)
  BY <1>2, <1>3
<1>4. CASE \E m \in U : work[m].claim # None
  BY <1>4
<1>5. \A m \in WorkItems(plan) : Complete(m) => work[m].claim = None
  BY GraphFacts DEF IInv, TypeOK, ClaimsAreCurrent
<1>6. CASE ~Retryable(n) /\ \A m \in WorkItems(plan) : work[m].claim = None
  <2>1. work[n].failure = None \/ Disposed(work[n], {"retry", "inline"})
    BY <1>2, <1>6 DEF Retryable, Disposed, Work, Failure
  <2>2. Ready(n)
    BY <1>2, <1>6, <2>1 DEF Ready, Complete
  <2>3. SlotsInUse = {} /\ Holders = {}
    BY <1>6 DEF SlotsInUse, Claimed, Holders
  <2>4. Cardinality(SlotsInUse) < Slots[plan]
    BY <2>3, FS_EmptySet, PlansAreGraphs DEF TypeOK
  <2>5. Claimable(n)
    BY <2>2, <2>3, <2>4 DEF Claimable
  <2> QED BY <1>2, <2>5
<1> QED BY <1>3, <1>4, <1>5, <1>6

\* However claims, refusals and corrections came, an approved Build that is not finished
\* has a node to claim, to wait for or to decide on.
THEOREM NeverOutOfMoves == Spec => []NeverStuck
BY SomethingIsOpen, Invariance, PTL
=============================================================================
