--------------------------- MODULE BuildLease_proofs ---------------------------
(***************************************************************************)
(* Proofs about BuildLease, for every library, every set of sessions and   *)
(* every bound.                                                            *)
(***************************************************************************)
EXTENDS BuildLease, TLAPS

USE DEF Holds, Live, Transition, Decisions, Closures, Gens, Revs, HasIdentity

-----------------------------------------------------------------------------
(***************************************************************************)
(* What the record updates of the transactions do to a claim, and to the   *)
(* step of a transaction: every field not named stays.                     *)
(***************************************************************************)

\* A claim as the journal, the activation, the release or a refused retry
\* leaves it is still the same Build's, at the same generation and locator.
SameBuild(c, d) ==
    /\ d \in Claim
    /\ d.build = c.build /\ d.gen = c.gen /\ d.loc = c.loc /\ d.xfer = c.xfer

\* finish_binding's last assignment (claim['state'] = 'active') changes the state.
LEMMA ActivatedFields ==
    ASSUME NEW c \in Claim
    PROVE  /\ SameBuild(c, Activated(c)) /\ Activated(c).state = "active"
           /\ Activated(c).why = c.why /\ Activated(c).rev = c.rev
BY DEF Claim, Activated, SameBuild

\* retire_build's prepare() records the decision and the revision, no more.
LEMMA JournalledFields ==
    ASSUME NEW c \in Claim, NEW d \in Decisions, NEW r \in Revs
    PROVE  /\ SameBuild(c, Journalled(c, d, r)) /\ Journalled(c, d, r).state = "retiring"
           /\ Journalled(c, d, r).why = d /\ Journalled(c, d, r).rev = r
BY DEF Claim, Journalled, SameBuild

\* The released claim enters the history under its journalled decision.
LEMMA EndedFields ==
    ASSUME NEW c \in Claim, c.why # None
    PROVE  /\ SameBuild(c, Ended(c))
           /\ Ended(c).why = c.why /\ Ended(c).rev = c.rev
BY ConstantsOK, NoneIsAbsence DEF Claim, Ended, SameBuild

\* The refused retry disturbs nothing but the recorded retry revision.
LEMMA MisrecordedFields ==
    ASSUME NEW c \in Claim
    PROVE  /\ SameBuild(c, Misrecorded(c)) /\ Misrecorded(c).state = c.state
           /\ Misrecorded(c).why = c.why /\ Misrecorded(c).rev = c.rev
BY ConstantsOK, NoneIsAbsence DEF Claim, Misrecorded, SameBuild

\* A transaction that moves on to its next write keeps its plan and its locks.
LEMMA AtFields ==
    ASSUME NEW o \in Operation, NEW step \in LeaseSteps
    PROVE  /\ At(o, step) \in Operation /\ At(o, step).step = step
           /\ At(o, step).plan = o.plan /\ At(o, step).holds = o.holds
BY DEF Operation, At

-----------------------------------------------------------------------------
(***************************************************************************)
(* Type correctness.                                                       *)
(***************************************************************************)
\* An empty library is of the right type.
LEMMA TypeInit == Init => TypeOK
BY ConstantsOK, NoneIsAbsence DEF Init, TypeOK

\* No write of record, snapshot, archive, locator or lock leaves its type.
LEMMA TypeStep == ASSUME TypeOK, Flights, Lifecycle, Next PROVE TypeOK'
<1>1. ASSUME NEW p \in Plans, NEW b \in Builds, NEW l \in Locators \cup {None}, Reserve(p, b, l)
      PROVE  TypeOK'
  BY <1>1, ConstantsOK, NoneIsAbsence DEF Reserve, NextGen, TypeOK, Claim
<1>2. ASSUME NEW p \in Plans, NEW b \in Builds, NEW g \in Gens, NEW r \in Revs, Mutate(p, b, g, r)
      PROVE  TypeOK'
  BY <1>2, ConstantsOK, NoneIsAbsence DEF Mutate, Acknowledge, TypeOK, Snapshot
<1>3. ASSUME NEW p \in Plans, NEW b \in Builds, NEW g \in Gens, NEW d \in Decisions, RetireRefused(p, b, g, d)
      PROVE  TypeOK'
  BY <1>3, MisrecordedFields DEF RetireRefused, TypeOK, SameBuild
<1>4. ASSUME NEW p \in Plans, NEW how \in Closures, ClosePlan(p, how)
      PROVE  TypeOK'
  BY <1>4, ConstantsOK, NoneIsAbsence DEF ClosePlan, TypeOK
<1>5. ASSUME NEW s \in Sessions, NEW p \in Plans, FinishSnapshot(s, p)
      PROVE  TypeOK'
  BY <1>5, ConstantsOK, NoneIsAbsence DEF FinishSnapshot, Saved, Enter, TypeOK, Claim, Snapshot, Operation, LeaseSteps
<1>6. ASSUME NEW s \in Sessions, NEW p \in Plans, FinishLocator(s, p)
      PROVE  TypeOK'
  <2>1. current[p] \in Claim /\ op[s] \in Operation
    BY <1>6 DEF FinishLocator, TypeOK, Flights, Flight
  <2>2. At(op[s], "activate") \in Operation
    BY <2>1, AtFields DEF LeaseSteps
  <2>3. LocatorValue(p, current[p]) \in Locator
    BY <2>1 DEF LocatorValue, Locator, Claim
  <2> QED
    BY <1>6, <2>2, <2>3 DEF FinishLocator, GoTo, Leave, TypeOK
<1>7. ASSUME NEW s \in Sessions, NEW p \in Plans, FinishActivate(s, p)
      PROVE  TypeOK'
  <2>1. current[p] \in Claim /\ snap[p][current[p].build] \in Snapshot
    BY <1>7 DEF FinishActivate, TypeOK, Flights, Flight, Claim
  <2>2. Activated(current[p]) \in Claim
    BY <2>1, ActivatedFields DEF SameBuild
  <2> QED
    BY <1>7, <2>1, <2>2 DEF FinishActivate, Leave, Acknowledge, TypeOK, Snapshot
<1>8. ASSUME NEW s \in Sessions, NEW p \in Plans, NEW b \in Builds, NEW g \in Gens, NEW d \in Decisions, NEW r \in Revs,
             RetireJournal(s, p, b, g, d, r)
      PROVE  TypeOK'
  <2>0. current[p] \in Claim
    BY <1>8 DEF RetireJournal, CanRetire, TypeOK
  <2>1. Journalled(current[p], d, r) \in Claim
    BY <2>0, JournalledFields DEF SameBuild
  <2> QED
    BY <1>8, <2>1, ConstantsOK, NoneIsAbsence DEF RetireJournal, Enter, TypeOK, Operation, LeaseSteps
<1>9. ASSUME NEW s \in Sessions, NEW p \in Plans, RetireArchive(s, p)
      PROVE  TypeOK'
  <2>1. current[p] \in Claim /\ op[s] \in Operation
    BY <1>9 DEF RetireArchive, TypeOK, Flights, Flight
  <2>2. At(op[s], "move") \in Operation
    BY <2>1, AtFields DEF LeaseSteps
  <2>3. ArchiveOf(p, current[p]) \in Archive
    BY <2>1 DEF ArchiveOf, Archive, Claim
  <2> QED
    BY <1>9, <2>2, <2>3 DEF RetireArchive, GoTo, TypeOK
<1>10. ASSUME NEW s \in Sessions, NEW p \in Plans, RetireMove(s, p)
      PROVE  TypeOK'
  <2>1. At(op[s], "release") \in Operation
    BY <1>10, AtFields DEF RetireMove, TypeOK, LeaseSteps
  <2> QED
    BY <1>10, <2>1 DEF RetireMove, GoTo, TypeOK
<1>11. ASSUME NEW s \in Sessions, NEW p \in Plans, RetireRelease(s, p)
      PROVE  TypeOK'
  <2>1. current[p] \in Claim /\ current[p].why # None
    BY <1>11 DEF RetireRelease, TypeOK, Flights, Flight, Lifecycle
  <2>2. Ended(current[p]) \in Claim
    BY <2>1, EndedFields DEF SameBuild
  <2>3. current[p].why \in Decisions
    BY <2>1 DEF Claim
  <2> QED
    BY <1>11, <2>2, <2>3 DEF RetireRelease, Leave, TypeOK
<1>12. ASSUME NEW s \in Sessions, Crash(s)
      PROVE  TypeOK'
  BY <1>12 DEF Crash, Leave, TypeOK
<1> QED
  BY <1>1, <1>2, <1>3, <1>4, <1>5, <1>6, <1>7, <1>8, <1>9, <1>10, <1>11, <1>12
     DEF Next, PlanStep, Finish, Retire

-----------------------------------------------------------------------------
(***************************************************************************)
(* The inductive invariant, one lemma per write.                           *)
(***************************************************************************)

\* A plan whose lock is free has no transaction in flight on it.
LEMMA FreePlan ==
    ASSUME Flights, NEW p \in Plans, ~Locked(p)
    PROVE  \A s \in Sessions : op[s] # None => op[s].plan # p
BY DEF Flights, Flight, Locked

\* The reservation is the plan's newest claim, of a Build no ledger names.
LEMMA ReserveStep ==
    ASSUME IInv, TypeOK', NEW p \in Plans, NEW b \in Builds, NEW l \in Locators \cup {None},
           Reserve(p, b, l)
    PROVE  IInv'
<1> USE DEF IInv
<1> DEFINE n == current'[p]
<1>1. /\ current[p] = None
      /\ current' = [current EXCEPT ![p] = n] /\ n # None
      /\ n.build = b /\ n.gen = generation'[p] /\ n.state = "preparing"
      /\ n.why = None /\ n.rev = 0 /\ n.xfer = None
      /\ generation' = [generation EXCEPT ![p] = generation[p] + 1]
  BY ConstantsOK, NoneIsAbsence DEF Reserve, NextGen, TypeOK, Claim
<1>2. UNCHANGED <<history, closure, snap, arch, loc, op, acked>>
  BY DEF Reserve
<1>3. \A s \in Sessions : op[s] # None => op[s].plan # p
  BY FreePlan DEF Reserve
<1>4. \A q \in Plans : \A c \in Ledger(q) : c.build # b
  BY DEF Reserve, Minted
<1>5. snap[p][b] = None
  BY <1>1 DEF SnapshotsBelong
<1> HIDE DEF n
<1>6. Flights'
  BY <1>1, <1>2, <1>3 DEF Flights, Flight, TypeOK, Operation, ArchiveOf
<1>7. Exclusive'
  BY <1>2 DEF Exclusive
<1>8. Lifecycle'
  BY <1>1, <1>2 DEF Lifecycle, TypeOK
<1>9. Ages'
  BY <1>1, <1>2 DEF Ages, TypeOK, Claim
<1>10. IdentityOnce'
  BY <1>1, <1>2, <1>4 DEF IdentityOnce, TypeOK, Ledger
<1>11. SnapshotsBelong'
  BY <1>1, <1>2, <1>5 DEF SnapshotsBelong, TypeOK
<1>12. ArchivesBelong'
  BY <1>1, <1>2 DEF ArchivesBelong, TypeOK, ArchiveOf, Archive
<1>13. Retirements'
  BY <1>1, <1>2 DEF Retirements, TypeOK, ArchiveOf
<1>14. EvidenceReachable'
  <2>1. ASSUME NEW e \in Builds, acked'[e] > 0
        PROVE  \E q \in Plans : \E c \in Ledger(q)' : c.build = e /\ Retained(q, c)'
    <3>1. PICK q \in Plans : \E c \in Ledger(q) : c.build = e /\ Retained(q, c)
      BY <1>2, <2>1 DEF EvidenceReachable
    <3>2. PICK c \in Ledger(q) : c.build = e /\ Retained(q, c)
      BY <3>1
    <3>3. c \in Claim /\ c # None
      BY <3>2, NoneIsAbsence DEF Ledger, TypeOK
    <3>4. c \in Ledger(q)' /\ Retained(q, c)'
      BY <1>1, <1>2, <3>2, <3>3 DEF Ledger, Retained, TypeOK, ArchiveOf
    <3> QED
      BY <3>2, <3>4
  <2>2. \A q \in Plans : (current'[q] # None /\ current'[q].state = "active") => current'[q] = current[q]
    BY <1>1 DEF TypeOK
  <2> QED
    BY <1>2, <2>1, <2>2 DEF EvidenceReachable
<1>15. ClosedPlansOwnNothing'
  BY <1>1, <1>2 DEF ClosedPlansOwnNothing, TypeOK, Reserve, Open
<1> QED
  BY <1>6, <1>7, <1>8, <1>9, <1>10, <1>11, <1>12, <1>13, <1>14, <1>15

\* A write to a live Build touches its snapshot and what its caller is told.
LEMMA MutateStep ==
    ASSUME IInv, TypeOK', NEW p \in Plans, NEW b \in Builds, NEW g \in Gens, NEW r \in Revs,
           Mutate(p, b, g, r)
    PROVE  IInv'
<1> USE DEF IInv
<1>1. /\ current[p] # None /\ current[p].build = b /\ current[p].gen = g
      /\ current[p].state = "active"
      /\ snap[p][b] # None /\ snap[p][b].gen = g /\ snap[p][b].rev = r
      /\ snap' = [snap EXCEPT ![p][b] = [gen |-> g, rev |-> r + 1]]
      /\ [gen |-> g, rev |-> r + 1] \in Snapshot
  BY ConstantsOK DEF Mutate, Snapshot
<1>2. UNCHANGED <<generation, current, history, closure, arch, loc, op>>
  BY DEF Mutate
<1>3. \A s \in Sessions : op[s] # None => op[s].plan # p
  BY FreePlan DEF Mutate
<1>4. /\ snap'[p][b] # None /\ snap'[p][b].gen = g /\ snap'[p][b].rev = r + 1
      /\ \A q \in Plans, e \in Builds : (q # p \/ e # b) => snap'[q][e] = snap[q][e]
  BY <1>1, NoneIsAbsence DEF TypeOK
<1>5. /\ \A e \in Builds \ {b} : acked'[e] = acked[e]
      /\ acked'[b] \in 0..(r + 1)
  BY <1>1 DEF Mutate, Acknowledge, TypeOK, SnapshotsBelong
<1>6. \A q \in Plans : (current[q] # None /\ q # p) => current[q].build # b
  BY <1>1 DEF IdentityOnce, Ledger
<1>7. Flights'
  BY <1>2, <1>3, <1>4, NoneIsAbsence DEF Flights, Flight, TypeOK, Operation, ArchiveOf, Claim
<1>8. Exclusive'
  BY <1>2 DEF Exclusive
<1>9. Lifecycle'
  BY <1>2, <1>4 DEF Lifecycle, TypeOK, Claim
<1>10. Ages' /\ IdentityOnce' /\ ArchivesBelong' /\ ClosedPlansOwnNothing'
  BY <1>2 DEF Ages, IdentityOnce, ArchivesBelong, ClosedPlansOwnNothing, Ledger, ArchiveOf
<1>11. SnapshotsBelong'
  <2> SUFFICES ASSUME NEW q \in Plans, NEW e \in Builds, snap'[q][e] # None
               PROVE  /\ current'[q] # None /\ current'[q].build = e
                      /\ snap'[q][e].gen = current'[q].gen
                      /\ snap'[q][e].rev >= acked'[e]
    BY DEF SnapshotsBelong
  <2>1. CASE q = p /\ e = b
    BY <1>1, <1>2, <1>4, <1>5, <2>1
  <2>2. CASE q # p \/ e # b
    <3>1. snap[q][e] = snap'[q][e]
      BY <1>4, <2>2
    <3>2. e # b
      BY <1>1, <1>6, <2>2, <3>1 DEF SnapshotsBelong
    <3> QED
      BY <1>2, <1>5, <3>1, <3>2 DEF SnapshotsBelong
  <2> QED
    BY <2>1, <2>2
<1>12. Retirements'
  BY <1>1, <1>2, <1>4 DEF Retirements, TypeOK, ArchiveOf, Claim
<1>13. EvidenceReachable'
  <2>1. ASSUME NEW e \in Builds, acked'[e] > 0
        PROVE  \E q \in Plans : \E c \in Ledger(q)' : c.build = e /\ Retained(q, c)'
    <3>1. CASE e = b
      <4>1. PICK m : m = current[p]
        OBVIOUS
      <4>2. m \in Ledger(p)' /\ m.build = e
        BY <1>1, <1>2, <3>1, <4>1 DEF Ledger
      <4>3. Retained(p, m)'
        BY <1>1, <1>2, <1>4, <1>5, <4>1 DEF Retained
      <4> QED
        BY <4>2, <4>3
    <3>2. CASE e # b
      <4>1. PICK q \in Plans : \E c \in Ledger(q) : c.build = e /\ Retained(q, c)
        BY <1>5, <2>1, <3>2 DEF EvidenceReachable
      <4>2. PICK c \in Ledger(q) : c.build = e /\ Retained(q, c)
        BY <4>1
      <4>3. c \in Ledger(q)' /\ Retained(q, c)'
        BY <1>2, <1>4, <1>5, <3>2, <4>2 DEF Ledger, Retained, ArchiveOf
      <4> QED
        BY <4>2, <4>3
    <3> QED
      BY <3>1, <3>2
  <2>2. ASSUME NEW q \in Plans, current'[q] # None, current'[q].state = "active"
        PROVE  /\ snap'[q][current'[q].build] # None
               /\ snap'[q][current'[q].build].rev >= acked'[current'[q].build]
    <3>1. current[q] \in Claim
      BY <1>2, <2>2 DEF TypeOK
    <3>2. CASE q = p
      BY <1>1, <1>2, <1>4, <1>5, <3>2
    <3>3. CASE q # p
      BY <1>2, <1>4, <1>5, <1>6, <2>2, <3>1, <3>3 DEF EvidenceReachable, Claim
    <3> QED
      BY <3>2, <3>3
  <2> QED
    BY <2>1, <2>2 DEF EvidenceReachable
<1> QED
  BY <1>7, <1>8, <1>9, <1>10, <1>11, <1>12, <1>13

\* The refused retry changes a field no conjunct reads.
LEMMA RefusedStep ==
    ASSUME IInv, TypeOK', NEW p \in Plans, NEW b \in Builds, NEW g \in Gens, NEW d \in Decisions,
           RetireRefused(p, b, g, d)
    PROVE  IInv'
<1> USE DEF IInv
<1> DEFINE n == current'[p]
<1>1. /\ current[p] # None /\ current[p] \in Claim
      /\ current[p].state = "retiring"
      /\ current' = [current EXCEPT ![p] = Misrecorded(current[p])]
  BY DEF RetireRefused, TypeOK
<1>2. /\ n # None /\ n.build = current[p].build /\ n.gen = current[p].gen
      /\ n.state = "retiring" /\ n.why = current[p].why /\ n.rev = current[p].rev
      /\ n.xfer = current[p].xfer
      /\ current' = [current EXCEPT ![p] = n]
  BY <1>1, MisrecordedFields, NoneIsAbsence DEF SameBuild, TypeOK
<1>3. UNCHANGED <<generation, history, closure, snap, arch, loc, op, acked>>
  BY DEF RetireRefused
<1>4. \A s \in Sessions : op[s] # None => op[s].plan # p
  BY FreePlan DEF RetireRefused
<1> HIDE DEF n
<1>5. Flights'
  BY <1>2, <1>3, <1>4 DEF Flights, Flight, TypeOK, Operation, ArchiveOf
<1>6. Exclusive'
  BY <1>3 DEF Exclusive
<1>7. Lifecycle'
  BY <1>1, <1>2, <1>3 DEF Lifecycle, TypeOK
<1>8. Ages'
  BY <1>1, <1>2, <1>3 DEF Ages, TypeOK
<1>9. IdentityOnce'
  BY <1>1, <1>2, <1>3 DEF IdentityOnce, TypeOK, Ledger
<1>10. SnapshotsBelong'
  BY <1>1, <1>2, <1>3 DEF SnapshotsBelong, TypeOK
<1>11. ArchivesBelong'
  BY <1>1, <1>2, <1>3 DEF ArchivesBelong, TypeOK, ArchiveOf, Archive
<1>12. Retirements'
  BY <1>1, <1>2, <1>3 DEF Retirements, TypeOK, ArchiveOf
<1>13. EvidenceReachable'
  <2>1. ASSUME NEW e \in Builds, acked'[e] > 0
        PROVE  \E q \in Plans : \E c \in Ledger(q)' : c.build = e /\ Retained(q, c)'
    <3>1. PICK q \in Plans : \E c \in Ledger(q) : c.build = e /\ Retained(q, c)
      BY <1>3, <2>1 DEF EvidenceReachable
    <3>2. PICK c \in Ledger(q) : c.build = e /\ Retained(q, c)
      BY <3>1
    <3>3. CASE c = current[p] /\ q = p
      <4>1. PICK m : m = current'[p]
        OBVIOUS
      <4>2. m \in Ledger(p)' /\ m.build = e
        BY <1>1, <1>2, <3>2, <3>3, <4>1 DEF Ledger, TypeOK
      <4>3. Retained(p, m)'
        BY <1>1, <1>2, <1>3, <3>2, <3>3, <4>1 DEF Retained, TypeOK, ArchiveOf
      <4> QED
        BY <4>2, <4>3
    <3>4. CASE ~(c = current[p] /\ q = p)
      <4>1. c \in Ledger(q)' /\ Retained(q, c)'
        BY <1>1, <1>2, <1>3, <3>2, <3>4 DEF Ledger, Retained, TypeOK, ArchiveOf
      <4> QED
        BY <3>2, <4>1
    <3> QED
      BY <3>3, <3>4
  <2>2. \A q \in Plans : (current'[q] # None /\ current'[q].state = "active") => current'[q] = current[q]
    BY <1>2 DEF TypeOK
  <2> QED
    BY <1>3, <2>1, <2>2 DEF EvidenceReachable
<1>14. ClosedPlansOwnNothing'
  BY <1>1, <1>2, <1>3 DEF ClosedPlansOwnNothing, TypeOK
<1> QED
  BY <1>5, <1>6, <1>7, <1>8, <1>9, <1>10, <1>11, <1>12, <1>13, <1>14

\* A closure is written only over a plan that owns no Build.
LEMMA CloseStep ==
    ASSUME IInv, TypeOK', NEW p \in Plans, NEW how \in Closures, ClosePlan(p, how)
    PROVE  IInv'
<1> USE DEF IInv
<1>1. UNCHANGED <<generation, current, history, snap, arch, loc, op, acked>>
  BY DEF ClosePlan
<1>2. /\ Flights' /\ Exclusive' /\ Lifecycle' /\ Ages' /\ IdentityOnce'
      /\ SnapshotsBelong' /\ ArchivesBelong' /\ Retirements'
  BY <1>1 DEF Flights, Flight, Exclusive, Lifecycle, Ages, IdentityOnce, SnapshotsBelong,
     ArchivesBelong, Retirements, Ledger, ArchiveOf
<1>3. EvidenceReachable'
  BY <1>1 DEF EvidenceReachable, Retained, Ledger, ArchiveOf
<1>4. ClosedPlansOwnNothing'
  BY <1>1 DEF ClosedPlansOwnNothing, TypeOK, ClosePlan, Unbound
<1> QED
  BY <1>2, <1>3, <1>4

-----------------------------------------------------------------------------

\* A transaction that begins on a free plan is the only one there, and the
\* step it begins at is the one it is recorded at.
LEMMA EnterFields ==
    ASSUME TypeOK, Flights, Exclusive, NEW s \in Sessions, NEW p \in Plans, NEW step \in LeaseSteps,
           op[s] = None, ~Locked(p), Enter(s, p, step)
    PROVE  /\ op'[s] # None /\ op'[s].plan = p /\ op'[s].step = step /\ op'[s].holds = {p}
           /\ \A t \in Sessions \ {s} : op'[t] = op[t] /\ (op[t] # None => op[t].plan # p)
           /\ Exclusive'
<1> DEFINE o == [step |-> step, plan |-> p, holds |-> {p}, to |-> None, ask |-> None]
<1>1. o \in Operation
  BY DEF Operation
<1>2. op' = [op EXCEPT ![s] = o] /\ o # None
  BY <1>1, NoneIsAbsence DEF Enter
<1>3. \A t \in Sessions : op[t] # None => op[t].plan # p
  BY FreePlan
<1>4. op'[s] = o /\ \A t \in Sessions \ {s} : op'[t] = op[t]
  BY <1>2 DEF TypeOK
<1> QED
  BY <1>2, <1>3, <1>4 DEF Exclusive

\* The first snapshot of a preparation cannot shadow acknowledged evidence.
LEMMA NothingAcknowledgedYet ==
    ASSUME IInv, NEW p \in Plans, current[p] # None, current[p].state \in Live,
           snap[p][current[p].build] = None
    PROVE  acked[current[p].build] = 0
<1> USE DEF IInv
<1> SUFFICES ASSUME acked[current[p].build] > 0 PROVE FALSE
  BY DEF TypeOK, Claim
<1>1. current[p].build \in Builds
  BY DEF TypeOK, Claim
<1>2. PICK q \in Plans : \E c \in Ledger(q) : c.build = current[p].build /\ Retained(q, c)
  BY <1>1 DEF EvidenceReachable
<1>3. PICK c \in Ledger(q) : c.build = current[p].build /\ Retained(q, c)
  BY <1>2
<1>4. q = p /\ c = current[p]
  BY <1>3 DEF IdentityOnce, Ledger
<1> QED
  BY <1>3, <1>4 DEF Retained, Lifecycle

\* finish_binding's first write creates the snapshot, or leaves the saved one.
LEMMA SnapshotStep ==
    ASSUME IInv, TypeOK', NEW s \in Sessions, NEW p \in Plans, FinishSnapshot(s, p)
    PROVE  IInv'
<1> USE DEF IInv
<1>1. PICK b \in Builds : current[p] # None /\ current[p] \in Claim /\ current[p].build = b
  BY DEF FinishSnapshot, TypeOK, Claim
<1>2. /\ current[p].state \in Live
      /\ snap[p][b] = None => current[p].state = "preparing"
      /\ snap[p][b] # None => snap[p][b].gen = current[p].gen
      /\ snap' = [snap EXCEPT ![p][b] = Saved(p, current[p])]
  BY <1>1 DEF FinishSnapshot
<1>3. UNCHANGED <<generation, current, history, closure, arch, loc, acked>>
  BY DEF FinishSnapshot
<1>4. /\ op'[s] # None /\ op'[s].plan = p /\ op'[s].step = "locator" /\ op'[s].holds = {p}
      /\ \A t \in Sessions \ {s} : op'[t] = op[t] /\ (op[t] # None => op[t].plan # p)
      /\ Exclusive'
  BY EnterFields DEF FinishSnapshot, LeaseSteps
<1>5. snap[p][b] = None => acked[b] = 0
  BY <1>1, <1>2, NothingAcknowledgedYet
<1>6. [gen |-> current[p].gen, rev |-> 1] \in Snapshot
  BY <1>1, ConstantsOK DEF Snapshot, Claim
<1>7. /\ snap'[p][b] # None /\ snap'[p][b].gen = current[p].gen
      /\ snap'[p][b].rev >= acked[b]
      /\ snap[p][b] # None => snap'[p][b] = snap[p][b]
      /\ \A q \in Plans, e \in Builds : (q # p \/ e # b) => snap'[q][e] = snap[q][e]
  BY <1>1, <1>2, <1>5, <1>6, NoneIsAbsence DEF Saved, TypeOK, SnapshotsBelong
<1>8. Flights'
  <2> SUFFICES ASSUME NEW t \in Sessions, op'[t] # None PROVE Flight(op[t])'
    BY DEF Flights
  <2>1. CASE t = s
    BY <1>1, <1>2, <1>3, <1>4, <1>7, <2>1 DEF Flight, LeaseSteps
  <2>2. CASE t # s
    <3>1. op'[t] = op[t] /\ Flight(op[t]) /\ op[t].plan \in Plans \ {p}
      BY <1>4, <2>2 DEF Flights, TypeOK, Operation
    <3> QED
      BY <1>3, <1>7, <3>1 DEF Flight, ArchiveOf, TypeOK, Claim
  <2> QED
    BY <2>1, <2>2
<1>9. Lifecycle'
  <2>1. ASSUME NEW q \in Plans, current[q] # None, current[q].state = "active"
        PROVE  snap'[q][current[q].build] # None
    <3>1. snap[q][current[q].build] # None /\ current[q].build \in Builds
      BY <2>1 DEF Lifecycle, TypeOK, Claim
    <3> QED
      BY <1>7, <2>1, <3>1
  <2> QED
    BY <1>3, <2>1 DEF Lifecycle
<1>10. Ages' /\ IdentityOnce' /\ ArchivesBelong' /\ ClosedPlansOwnNothing'
  BY <1>3 DEF Ages, IdentityOnce, ArchivesBelong, ClosedPlansOwnNothing, Ledger, ArchiveOf
<1>11. SnapshotsBelong'
  <2> SUFFICES ASSUME NEW q \in Plans, NEW e \in Builds, snap'[q][e] # None
               PROVE  /\ current'[q] # None /\ current'[q].build = e
                      /\ snap'[q][e].gen = current'[q].gen
                      /\ snap'[q][e].rev >= acked'[e]
    BY DEF SnapshotsBelong
  <2>1. CASE q = p /\ e = b
    BY <1>1, <1>3, <1>7, <2>1
  <2>2. CASE q # p \/ e # b
    BY <1>3, <1>7, <2>2 DEF SnapshotsBelong
  <2> QED
    BY <2>1, <2>2
<1>12. Retirements'
  BY <1>1, <1>2, <1>3, <1>7 DEF Retirements, TypeOK, ArchiveOf, Claim
<1>13. EvidenceReachable'
  <2>1. ASSUME NEW e \in Builds, acked'[e] > 0
        PROVE  \E q \in Plans : \E c \in Ledger(q)' : c.build = e /\ Retained(q, c)'
    <3>1. PICK q \in Plans : \E c \in Ledger(q) : c.build = e /\ Retained(q, c)
      BY <1>3, <2>1 DEF EvidenceReachable
    <3>2. PICK c \in Ledger(q) : c.build = e /\ Retained(q, c)
      BY <3>1
    <3>3. snap[q][e] # None => snap'[q][e] = snap[q][e]
      BY <1>7
    <3>4. c \in Ledger(q)' /\ Retained(q, c)'
      BY <1>3, <3>2, <3>3 DEF Ledger, Retained, ArchiveOf
    <3> QED
      BY <3>2, <3>4
  <2>2. ASSUME NEW q \in Plans, current'[q] # None, current'[q].state = "active"
        PROVE  /\ snap'[q][current'[q].build] # None
               /\ snap'[q][current'[q].build].rev >= acked'[current'[q].build]
    BY SMTT(20), <1>1, <1>3, <1>7, <2>2 DEF EvidenceReachable, TypeOK, Claim
  <2> QED
    BY <2>1, <2>2 DEF EvidenceReachable
<1> QED
  BY <1>4, <1>8, <1>9, <1>10, <1>11, <1>12, <1>13

\* A transaction that only moves on, or ends, leaves the others as they were.
LEMMA StepAlone ==
    ASSUME TypeOK, Exclusive, NEW s \in Sessions, op[s] # None,
           NEW o, op' = [op EXCEPT ![s] = o],
           o # None => o.plan = op[s].plan
    PROVE  /\ Exclusive' /\ op'[s] = o
           /\ \A t \in Sessions \ {s} : op'[t] = op[t] /\ (op[t] # None => op[t].plan # op[s].plan)
BY DEF TypeOK, Exclusive

\* The locator is written, or refused and left alone.
LEMMA LocatorStep ==
    ASSUME IInv, TypeOK', NEW s \in Sessions, NEW p \in Plans, FinishLocator(s, p)
    PROVE  IInv'
<1> USE DEF IInv
<1>1. op[s] # None /\ op[s] \in Operation /\ op[s].plan = p /\ Flight(op[s])
  BY DEF FinishLocator, Flights, TypeOK
<1>2. PICK o : op' = [op EXCEPT ![s] = o] /\ (o = None \/ o = At(op[s], "activate"))
  BY DEF FinishLocator, GoTo, Leave
<1>3. o # None => o.plan = p /\ o.holds = {p} /\ o.step = "activate"
  BY <1>1, <1>2, AtFields DEF Flight, LeaseSteps
<1>4. /\ Exclusive' /\ op'[s] = o
      /\ \A t \in Sessions \ {s} : op'[t] = op[t]
  BY <1>1, <1>2, <1>3, StepAlone
<1>5. UNCHANGED <<generation, current, history, closure, snap, arch, acked>>
  BY DEF FinishLocator
<1>6. Flights'
  <2> SUFFICES ASSUME NEW t \in Sessions, op'[t] # None PROVE Flight(op[t])'
    BY DEF Flights
  <2>1. CASE t = s
    BY <1>1, <1>3, <1>4, <1>5, <2>1 DEF Flight, LeaseSteps, FinishLocator
  <2>2. CASE t # s
    BY <1>4, <1>5, <2>2 DEF Flights, Flight, ArchiveOf
  <2> QED
    BY <2>1, <2>2
<1>7. /\ Lifecycle' /\ Ages' /\ IdentityOnce' /\ SnapshotsBelong' /\ ArchivesBelong'
      /\ Retirements' /\ ClosedPlansOwnNothing'
  BY <1>5 DEF Lifecycle, Ages, IdentityOnce, SnapshotsBelong, ArchivesBelong, Retirements,
     ClosedPlansOwnNothing, Ledger, ArchiveOf
<1>8. EvidenceReachable'
  BY <1>5 DEF EvidenceReachable, Retained, Ledger, ArchiveOf
<1> QED
  BY <1>4, <1>6, <1>7, <1>8

\* Dying ends the transaction and changes no file.
LEMMA CrashStep ==
    ASSUME IInv, TypeOK', NEW s \in Sessions, Crash(s)
    PROVE  IInv'
<1> USE DEF IInv
<1>1. UNCHANGED <<generation, current, history, closure, snap, arch, loc, acked>>
  BY DEF Crash
<1>2. op'[s] = None /\ \A t \in Sessions \ {s} : op'[t] = op[t]
  BY DEF Crash, Leave, TypeOK
<1>3. Flights' /\ Exclusive'
  BY <1>1, <1>2 DEF Flights, Flight, Exclusive, ArchiveOf
<1>4. /\ Lifecycle' /\ Ages' /\ IdentityOnce' /\ SnapshotsBelong' /\ ArchivesBelong'
      /\ Retirements' /\ ClosedPlansOwnNothing'
  BY <1>1 DEF Lifecycle, Ages, IdentityOnce, SnapshotsBelong, ArchivesBelong, Retirements,
     ClosedPlansOwnNothing, Ledger, ArchiveOf
<1>5. EvidenceReachable'
  BY <1>1 DEF EvidenceReachable, Retained, Ledger, ArchiveOf
<1> QED
  BY <1>3, <1>4, <1>5

-----------------------------------------------------------------------------

\* Activation tells the caller of the snapshot it leaves the Build with.
LEMMA ActivateStep ==
    ASSUME IInv, TypeOK', NEW s \in Sessions, NEW p \in Plans, FinishActivate(s, p)
    PROVE  IInv'
<1> USE DEF IInv
<1>1. PICK b \in Builds, n \in Claim :
         /\ current[p] # None /\ current[p] \in Claim /\ current[p].build = b
         /\ n = Activated(current[p])
  BY ActivatedFields DEF FinishActivate, Flights, Flight, TypeOK, Claim, SameBuild
<1>2. /\ n # None /\ n.build = b /\ n.gen = current[p].gen /\ n.state = "active"
      /\ n.why = current[p].why /\ n.rev = current[p].rev /\ n.xfer = current[p].xfer
      /\ current' = [current EXCEPT ![p] = n]
  BY <1>1, ActivatedFields, NoneIsAbsence DEF FinishActivate, SameBuild
<1>3. UNCHANGED <<generation, history, closure, snap, arch, loc>>
  BY DEF FinishActivate
<1>4. current[p].state \in Live /\ snap[p][b] # None
  BY <1>1 DEF FinishActivate, Flights, Flight
<1>5. /\ op'[s] = None
      /\ \A t \in Sessions \ {s} : op'[t] = op[t] /\ (op[t] # None => op[t].plan # p)
      /\ Exclusive'
  BY StepAlone DEF FinishActivate, Leave
<1>6. /\ \A e \in Builds \ {b} : acked'[e] = acked[e]
      /\ acked'[b] \in 0..snap[p][b].rev
  <2>1. /\ acked[b] \in 0..MaxRev /\ acked \in [Builds -> 0..MaxRev]
        /\ snap[p][b].rev \in 0..MaxRev /\ snap[p][b].rev >= acked[b]
    BY <1>4 DEF TypeOK, SnapshotsBelong, Snapshot
  <2>2. \/ acked' = [acked EXCEPT ![b] = IF acked[b] > snap[p][b].rev THEN acked[b] ELSE snap[p][b].rev]
        \/ acked' = acked
    BY <1>1 DEF FinishActivate, Acknowledge
  <2>3. ~(acked[b] > snap[p][b].rev)
    BY <2>1, ConstantsOK
  <2> QED
    BY <1>1, <2>1, <2>2, <2>3, ConstantsOK
<1>7. Flights'
  <2> SUFFICES ASSUME NEW t \in Sessions, op'[t] # None PROVE Flight(op[t])'
    BY DEF Flights
  <2>1. op'[t] = op[t] /\ Flight(op[t]) /\ op[t].plan \in Plans \ {p}
    BY <1>5 DEF Flights, TypeOK, Operation
  <2> QED
    BY <1>2, <1>3, <2>1 DEF Flight, ArchiveOf, TypeOK
<1>8. Lifecycle'
  BY <1>1, <1>2, <1>3, <1>4 DEF Lifecycle, TypeOK
<1>9. Ages'
  BY <1>1, <1>2, <1>3 DEF Ages, TypeOK
<1>10. IdentityOnce'
  BY <1>1, <1>2, <1>3 DEF IdentityOnce, TypeOK, Ledger
<1>11. SnapshotsBelong'
  <2> SUFFICES ASSUME NEW q \in Plans, NEW e \in Builds, snap'[q][e] # None
               PROVE  /\ current'[q] # None /\ current'[q].build = e
                      /\ snap'[q][e].gen = current'[q].gen
                      /\ snap'[q][e].rev >= acked'[e]
    BY DEF SnapshotsBelong
  <2>1. CASE q = p /\ e = b
    BY <1>1, <1>2, <1>3, <1>6, <2>1 DEF SnapshotsBelong, TypeOK, Snapshot
  <2>2. CASE q # p /\ e # b
    BY <1>2, <1>3, <1>6, <2>2 DEF SnapshotsBelong, TypeOK
  <2>3. CASE q = p /\ e # b
    BY <1>1, <1>3, <2>3 DEF SnapshotsBelong
  <2>4. CASE q # p /\ e = b
    BY <1>1, <1>3, <2>4 DEF SnapshotsBelong, IdentityOnce, Ledger
  <2> QED
    BY <2>1, <2>2, <2>3, <2>4
<1>12. ArchivesBelong'
  BY <1>1, <1>2, <1>3, <1>4 DEF ArchivesBelong, TypeOK, ArchiveOf, Archive
<1>13. Retirements'
  BY <1>1, <1>2, <1>3 DEF Retirements, TypeOK, ArchiveOf
<1>14. EvidenceReachable'
  <2>1. ASSUME NEW e \in Builds, acked'[e] > 0
        PROVE  \E q \in Plans : \E c \in Ledger(q)' : c.build = e /\ Retained(q, c)'
    <3>1. CASE e = b
      <4>1. n \in Ledger(p)' /\ n.build = e
        BY <1>2, <3>1 DEF Ledger, TypeOK
      <4>2. Retained(p, n)'
        BY <1>1, <1>2, <1>3, <1>4, <1>6 DEF Retained, TypeOK, SnapshotsBelong, Snapshot
      <4> QED
        BY <4>1, <4>2
    <3>2. CASE e # b
      <4>1. PICK q \in Plans : \E c \in Ledger(q) : c.build = e /\ Retained(q, c)
        BY <1>6, <2>1, <3>2 DEF EvidenceReachable
      <4>2. PICK c \in Ledger(q) : c.build = e /\ Retained(q, c)
        BY <4>1
      <4>3. c # current[p] \/ q # p
        BY <1>1, <3>2, <4>2
      <4>4. c \in Ledger(q)' /\ Retained(q, c)'
        BY <1>2, <1>3, <1>6, <3>2, <4>2, <4>3 DEF Ledger, Retained, ArchiveOf, TypeOK
      <4> QED
        BY <4>2, <4>4
    <3> QED
      BY <3>1, <3>2
  <2>2. ASSUME NEW q \in Plans, current'[q] # None, current'[q].state = "active"
        PROVE  /\ snap'[q][current'[q].build] # None
               /\ snap'[q][current'[q].build].rev >= acked'[current'[q].build]
    <3>1. CASE q = p
      BY <1>2, <1>3, <1>4, <1>6, <3>1 DEF TypeOK, Snapshot
    <3>2. CASE q # p
      <4>1. current'[q] = current[q] /\ current[q] \in Claim /\ current[q].build # b
        BY <1>1, <1>2, <2>2, <3>2 DEF TypeOK, IdentityOnce, Ledger
      <4> QED
        BY <1>3, <1>6, <2>2, <4>1 DEF EvidenceReachable, Claim
    <3> QED
      BY <3>1, <3>2
  <2> QED
    BY <2>1, <2>2 DEF EvidenceReachable
<1>15. ClosedPlansOwnNothing'
  BY <1>1, <1>2, <1>3 DEF ClosedPlansOwnNothing, TypeOK
<1> QED
  BY <1>5, <1>7, <1>8, <1>9, <1>10, <1>11, <1>12, <1>13, <1>14, <1>15

\* The journal records the revision the evidence is at, also when it is written
\* again by a retry, so the archive it names does not change.
LEMMA JournalStep ==
    ASSUME IInv, TypeOK', NEW s \in Sessions, NEW p \in Plans,
           NEW b \in Builds, NEW g \in Gens, NEW d \in Decisions, NEW r \in Revs,
           RetireJournal(s, p, b, g, d, r)
    PROVE  IInv'
<1> USE DEF IInv
<1>1. PICK n \in Claim :
         /\ current[p] # None /\ current[p] \in Claim /\ current[p].build = b
         /\ n = Journalled(current[p], d, r)
  <2>1. current[p] # None /\ current[p] \in Claim /\ current[p].build = b
    BY DEF RetireJournal, CanRetire, TypeOK
  <2> QED
    BY <2>1, JournalledFields DEF SameBuild
<1>2. /\ n # None /\ n.build = b /\ n.gen = current[p].gen /\ n.state = "retiring"
      /\ n.why = d /\ n.rev = r /\ n.xfer = current[p].xfer
      /\ current' = [current EXCEPT ![p] = n]
  <2>1. n # None /\ SameBuild(current[p], n)
    BY <1>1, JournalledFields, NoneIsAbsence
  <2>2. n.state = "retiring" /\ n.why = d /\ n.rev = r
    BY <1>1, JournalledFields
  <2>3. current' = [current EXCEPT ![p] = n]
    BY <1>1 DEF RetireJournal
  <2> QED
    BY <1>1, <2>1, <2>2, <2>3 DEF SameBuild
<1>3. UNCHANGED <<generation, history, closure, snap, arch, loc, acked>>
  BY DEF RetireJournal
<1>4. /\ op'[s] # None /\ op'[s].plan = p /\ op'[s].step = "archive" /\ op'[s].holds = {p}
      /\ \A t \in Sessions \ {s} : op'[t] = op[t] /\ (op[t] # None => op[t].plan # p)
      /\ Exclusive'
  BY EnterFields DEF RetireJournal, CanRetire, LeaseSteps
<1>5. /\ current[p].state \in {"preparing", "active", "retiring"}
      /\ current[p].state = "retiring" => current[p].why = d
      /\ r = Evidence(p, current[p])
      /\ current[p].state = "active" => snap[p][b] # None
  BY <1>1 DEF RetireJournal, CanRetire
<1>6. current[p].state = "retiring" => current[p].rev = r
  BY <1>1, <1>5 DEF Evidence, Retirements
<1>7. /\ snap[p][b] # None => snap[p][b].rev = r
      /\ (snap[p][b] = None /\ r # 0) => current[p].state = "retiring"
  BY <1>1, <1>5 DEF Evidence
<1>8. ArchiveOf(p, n) = [plan |-> p, build |-> b, gen |-> current[p].gen, rev |-> r]
  BY <1>2 DEF ArchiveOf
<1>9. Flights'
  <2> SUFFICES ASSUME NEW t \in Sessions, op'[t] # None PROVE Flight(op[t])'
    BY DEF Flights
  <2>1. CASE t = s
    BY <1>2, <1>4, <2>1 DEF Flight, LeaseSteps, TypeOK
  <2>2. CASE t # s
    <3>1. op'[t] = op[t] /\ Flight(op[t]) /\ op[t].plan \in Plans \ {p}
      BY <1>4, <2>2 DEF Flights, TypeOK, Operation
    <3> QED
      BY <1>2, <1>3, <3>1 DEF Flight, ArchiveOf, TypeOK
  <2> QED
    BY <2>1, <2>2
<1>10. Lifecycle'
  BY <1>1, <1>2, <1>3, NoneIsAbsence DEF Lifecycle, TypeOK
<1>11. Ages'
  BY <1>1, <1>2, <1>3 DEF Ages, TypeOK
<1>12. IdentityOnce'
  BY <1>1, <1>2, <1>3 DEF IdentityOnce, TypeOK, Ledger
<1>13. SnapshotsBelong'
  BY <1>1, <1>2, <1>3 DEF SnapshotsBelong, TypeOK
<1>14. ArchivesBelong'
  <2> SUFFICES ASSUME NEW a \in arch
               PROVE  \/ \E c \in history[a.plan] : a = ArchiveOf(a.plan, c)
                      \/ /\ current'[a.plan] # None /\ current'[a.plan].state = "retiring"
                         /\ a = ArchiveOf(a.plan, current'[a.plan])
    BY <1>3 DEF ArchivesBelong, ArchiveOf
  <2>1. CASE \E c \in history[a.plan] : a = ArchiveOf(a.plan, c)
    BY <2>1
  <2>2. CASE /\ current[a.plan] # None /\ current[a.plan].state = "retiring"
             /\ a = ArchiveOf(a.plan, current[a.plan])
    <3>1. CASE a.plan = p
      BY <1>1, <1>2, <1>6, <2>2, <3>1 DEF ArchiveOf, TypeOK
    <3>2. CASE a.plan # p
      BY <1>2, <2>2, <3>2 DEF TypeOK, Archive, ArchiveOf
    <3> QED
      BY <3>1, <3>2
  <2> QED
    BY <2>1, <2>2 DEF ArchivesBelong
<1>15. Retirements'
  <2> SUFFICES ASSUME NEW q \in Plans, current'[q] # None, current'[q].state = "retiring"
               PROVE  IF snap[q][current'[q].build] # None
                      THEN snap[q][current'[q].build].rev = current'[q].rev
                      ELSE current'[q].rev # 0 => ArchiveOf(q, current'[q]) \in arch
    BY <1>3 DEF Retirements, ArchiveOf
  <2>1. CASE q = p
    <3>1. (snap[p][b] = None /\ r # 0) => ArchiveOf(p, current[p]) \in arch
      BY <1>1, <1>6, <1>7 DEF Retirements
    <3>2. (snap[p][b] = None /\ r # 0) => ArchiveOf(p, current[p]) = ArchiveOf(p, n)
      BY <1>1, <1>6, <1>7, <1>8 DEF ArchiveOf
    <3> QED
      BY <1>2, <1>7, <2>1, <3>1, <3>2 DEF TypeOK
  <2>2. CASE q # p
    BY <1>2, <2>2 DEF Retirements, TypeOK
  <2> QED
    BY <2>1, <2>2
<1>16. EvidenceReachable'
  <2>1. ASSUME NEW e \in Builds, acked'[e] > 0
        PROVE  \E q \in Plans : \E c \in Ledger(q)' : c.build = e /\ Retained(q, c)'
    <3>1. PICK q \in Plans : \E c \in Ledger(q) : c.build = e /\ Retained(q, c)
      BY <1>3, <2>1 DEF EvidenceReachable
    <3>2. PICK c \in Ledger(q) : c.build = e /\ Retained(q, c)
      BY <3>1
    <3>3. CASE c = current[p] /\ q = p
      <4>1. n \in Ledger(p)' /\ n.build = e
        BY <1>1, <1>2, <3>2, <3>3 DEF Ledger, TypeOK
      <4>2. CASE snap[p][b] # None
        <5>1. snap[p][b].gen = n.gen /\ snap[p][b].rev >= acked[b]
          BY <1>1, <1>2, <4>2 DEF SnapshotsBelong
        <5>2. Retained(p, n)'
          BY <1>2, <1>3, <4>2, <5>1 DEF Retained, TypeOK
        <5> QED
          BY <4>1, <5>2
      <4>3. CASE snap[p][b] = None
        <5>1. ArchiveOf(p, current[p]) \in arch /\ current[p].why # None /\ current[p].rev >= acked[b]
          BY <1>1, <3>2, <3>3, <4>3 DEF Retained
        <5>2. current[p].state = "retiring"
          BY <1>1, <1>5, <5>1 DEF Lifecycle
        <5>3. Retained(p, n)'
          BY <1>1, <1>2, <1>3, <1>6, <1>8, <5>1, <5>2, NoneIsAbsence DEF Retained, ArchiveOf
        <5> QED
          BY <4>1, <5>3
      <4> QED
        BY <4>2, <4>3
    <3>4. CASE ~(c = current[p] /\ q = p)
      <4>1. c \in Ledger(q)' /\ Retained(q, c)'
        BY <1>2, <1>3, <3>2, <3>4 DEF Ledger, Retained, TypeOK, ArchiveOf
      <4> QED
        BY <3>2, <4>1
    <3> QED
      BY <3>3, <3>4
  <2>2. \A q \in Plans : (current'[q] # None /\ current'[q].state = "active") => current'[q] = current[q]
    BY <1>2 DEF TypeOK
  <2> QED
    BY <1>3, <2>1, <2>2 DEF EvidenceReachable
<1>17. ClosedPlansOwnNothing'
  BY <1>1, <1>2, <1>3 DEF ClosedPlansOwnNothing, TypeOK
<1> QED
  BY <1>4, <1>9, <1>10, <1>11, <1>12, <1>13, <1>14, <1>15, <1>16, <1>17

-----------------------------------------------------------------------------

\* The archive is written beside the snapshot it copies.
LEMMA ArchiveStep ==
    ASSUME IInv, TypeOK', NEW s \in Sessions, NEW p \in Plans, RetireArchive(s, p)
    PROVE  IInv'
<1> USE DEF IInv
<1>1. /\ op[s] # None /\ op[s] \in Operation /\ op[s].plan = p /\ Flight(op[s])
      /\ current[p] # None /\ current[p].state = "retiring"
      /\ arch' = arch \cup {ArchiveOf(p, current[p])}
  BY DEF RetireArchive, Flights, Flight, TypeOK
<1>2. UNCHANGED <<generation, current, history, closure, snap, loc, acked>>
  BY DEF RetireArchive
<1>3. PICK o : /\ op' = [op EXCEPT ![s] = o]
               /\ o.plan = p /\ o.holds = {p} /\ o.step = "move"
  <2>1. op' = [op EXCEPT ![s] = At(op[s], "move")]
    BY DEF RetireArchive, GoTo
  <2>2. /\ At(op[s], "move").plan = p /\ At(op[s], "move").holds = {p}
        /\ At(op[s], "move").step = "move"
    BY <1>1, AtFields DEF Flight, LeaseSteps
  <2> QED
    BY <2>1, <2>2
<1>4. /\ Exclusive' /\ op'[s] = o
      /\ \A t \in Sessions \ {s} : op'[t] = op[t]
  BY <1>1, <1>3, StepAlone
<1>5. Flights'
  <2> SUFFICES ASSUME NEW t \in Sessions, op'[t] # None PROVE Flight(op[t])'
    BY DEF Flights
  <2>1. CASE t = s
    BY <1>1, <1>2, <1>3, <1>4, <2>1 DEF Flight, LeaseSteps, ArchiveOf
  <2>2. CASE t # s
    BY <1>1, <1>2, <1>4, <2>2 DEF Flights, Flight, ArchiveOf
  <2> QED
    BY <2>1, <2>2
<1>6. Lifecycle' /\ Ages' /\ IdentityOnce' /\ SnapshotsBelong' /\ ClosedPlansOwnNothing'
  BY <1>2 DEF Lifecycle, Ages, IdentityOnce, SnapshotsBelong, ClosedPlansOwnNothing, Ledger
<1>7. ArchivesBelong'
  <2> SUFFICES ASSUME NEW a \in arch'
               PROVE  \/ \E c \in history[a.plan] : a = ArchiveOf(a.plan, c)
                      \/ /\ current[a.plan] # None /\ current[a.plan].state = "retiring"
                         /\ a = ArchiveOf(a.plan, current[a.plan])
    BY <1>2 DEF ArchivesBelong, ArchiveOf
  <2>1. CASE a \in arch
    BY <2>1 DEF ArchivesBelong
  <2>2. CASE a = ArchiveOf(p, current[p])
    BY <1>1, <2>2 DEF ArchiveOf
  <2> QED
    BY <1>1, <2>1, <2>2
<1>8. Retirements'
  BY <1>1, <1>2 DEF Retirements, ArchiveOf
<1>9. EvidenceReachable'
  <2>1. ASSUME NEW e \in Builds, acked'[e] > 0
        PROVE  \E q \in Plans : \E c \in Ledger(q)' : c.build = e /\ Retained(q, c)'
    <3>1. PICK q \in Plans : \E c \in Ledger(q) : c.build = e /\ Retained(q, c)
      BY <1>2, <2>1 DEF EvidenceReachable
    <3>2. PICK c \in Ledger(q) : c.build = e /\ Retained(q, c)
      BY <3>1
    <3>3. c \in Ledger(q)' /\ Retained(q, c)'
      BY <1>1, <1>2, <3>2 DEF Ledger, Retained, ArchiveOf
    <3> QED
      BY <3>2, <3>3
  <2> QED
    BY <1>2, <2>1 DEF EvidenceReachable
<1> QED
  BY <1>4, <1>5, <1>6, <1>7, <1>8, <1>9

\* The rename: by now the archive holds the evidence at the journalled revision.
LEMMA MoveStep ==
    ASSUME IInv, TypeOK', NEW s \in Sessions, NEW p \in Plans, RetireMove(s, p)
    PROVE  IInv'
<1> USE DEF IInv
<1>1. PICK b \in Builds :
         /\ op[s] # None /\ op[s] \in Operation /\ op[s].plan = p /\ Flight(op[s])
         /\ current[p] # None /\ current[p] \in Claim /\ current[p].build = b
         /\ current[p].state = "retiring" /\ ArchiveOf(p, current[p]) \in arch
  BY DEF RetireMove, Flights, Flight, TypeOK, Claim
<1>2. UNCHANGED <<generation, current, history, closure, arch, loc, acked>>
  BY DEF RetireMove
<1>3. PICK o : /\ op' = [op EXCEPT ![s] = o]
               /\ o.plan = p /\ o.holds = {p} /\ o.step = "release"
  <2>1. op' = [op EXCEPT ![s] = At(op[s], "release")]
    BY DEF RetireMove, GoTo
  <2>2. /\ At(op[s], "release").plan = p /\ At(op[s], "release").holds = {p}
        /\ At(op[s], "release").step = "release"
    BY <1>1, AtFields DEF Flight, LeaseSteps
  <2> QED
    BY <2>1, <2>2
<1>4. /\ Exclusive' /\ op'[s] = o
      /\ \A t \in Sessions \ {s} : op'[t] = op[t] /\ (op[t] # None => op[t].plan # p)
  <2>1. o # None => o.plan = op[s].plan
    BY <1>1, <1>3
  <2>2. /\ Exclusive' /\ op'[s] = o
        /\ \A t \in Sessions \ {s} : op'[t] = op[t] /\ (op[t] # None => op[t].plan # op[s].plan)
    BY <1>1, <1>3, <2>1, StepAlone
  <2> QED
    BY <1>1, <2>2
<1>5. /\ snap'[p][b] = None
      /\ \A q \in Plans, e \in Builds : (q # p \/ e # b) => snap'[q][e] = snap[q][e]
  BY <1>1 DEF RetireMove, TypeOK
<1>6. Flights'
  <2> SUFFICES ASSUME NEW t \in Sessions, op'[t] # None PROVE Flight(op[t])'
    BY DEF Flights
  <2>1. CASE t = s
    BY <1>1, <1>2, <1>3, <1>4, <1>5, <2>1 DEF Flight, LeaseSteps, ArchiveOf
  <2>2. CASE t # s
    <3>1. op'[t] = op[t] /\ Flight(op[t]) /\ op[t].plan \in Plans \ {p}
      BY <1>4, <2>2 DEF Flights, TypeOK, Operation
    <3> QED
      BY <1>2, <1>5, <3>1 DEF Flight, ArchiveOf, TypeOK, Claim
  <2> QED
    BY <2>1, <2>2
<1>7. \A q \in Plans : (current[q] # None /\ current[q].state = "active") =>
          /\ q # p /\ current[q].build \in Builds
          /\ snap'[q][current[q].build] = snap[q][current[q].build]
  BY <1>1, <1>5 DEF TypeOK, Claim
<1>8. Lifecycle'
  BY <1>2, <1>7 DEF Lifecycle
<1>9. Ages' /\ IdentityOnce' /\ ArchivesBelong' /\ ClosedPlansOwnNothing'
  BY <1>2 DEF Ages, IdentityOnce, ArchivesBelong, ClosedPlansOwnNothing, Ledger, ArchiveOf
<1>10. SnapshotsBelong'
  BY <1>2, <1>5 DEF SnapshotsBelong
<1>11. Retirements'
  <2> SUFFICES ASSUME NEW q \in Plans, current[q] # None, current[q].state = "retiring"
               PROVE  IF snap'[q][current[q].build] # None
                      THEN snap'[q][current[q].build].rev = current[q].rev
                      ELSE current[q].rev # 0 => ArchiveOf(q, current[q]) \in arch
    BY <1>2 DEF Retirements, ArchiveOf
  <2>1. CASE q = p
    BY <1>1, <1>5, <2>1
  <2>2. CASE q # p
    BY <1>5, <2>2 DEF Retirements, TypeOK, Claim
  <2> QED
    BY <2>1, <2>2
<1>12. EvidenceReachable'
  <2>1. ASSUME NEW e \in Builds, acked'[e] > 0
        PROVE  \E q \in Plans : \E c \in Ledger(q)' : c.build = e /\ Retained(q, c)'
    <3>1. PICK q \in Plans : \E c \in Ledger(q) : c.build = e /\ Retained(q, c)
      BY <1>2, <2>1 DEF EvidenceReachable
    <3>2. PICK c \in Ledger(q) : c.build = e /\ Retained(q, c)
      BY <3>1
    <3>3. c \in Ledger(q)' /\ c.build \in Builds
      BY <1>2, <3>2 DEF Ledger
    <3>4. CASE c = current[p] /\ q = p
      <4>1. snap[p][b] # None => /\ snap[p][b].rev = c.rev
                                 /\ snap[p][b].rev >= acked[b]
        BY <1>1, <3>4 DEF Retirements, SnapshotsBelong
      <4>2. c.why # None /\ c.rev >= acked[b]
        BY <1>1, <3>2, <3>4, <4>1 DEF Retained, Lifecycle
      <4>3. Retained(q, c)'
        BY <1>1, <1>2, <3>4, <4>2 DEF Retained, ArchiveOf
      <4> QED
        BY <3>2, <3>3, <4>3
    <3>5. CASE ~(c = current[p] /\ q = p)
      <4>1. Retained(q, c)'
        BY <1>2, <1>5, <3>2, <3>3, <3>5 DEF Retained, ArchiveOf
      <4> QED
        BY <3>2, <3>3, <4>1
    <3> QED
      BY <3>4, <3>5
  <2>2. ASSUME NEW q \in Plans, current'[q] # None, current'[q].state = "active"
        PROVE  /\ snap'[q][current'[q].build] # None
               /\ snap'[q][current'[q].build].rev >= acked'[current'[q].build]
    BY <1>2, <1>7, <2>2 DEF EvidenceReachable
  <2> QED
    BY <2>1, <2>2 DEF EvidenceReachable
<1> QED
  BY <1>4, <1>6, <1>8, <1>9, <1>10, <1>11, <1>12

\* The release: the ended claim joins the history with its archive in place.
LEMMA ReleaseStep ==
    ASSUME IInv, TypeOK', NEW s \in Sessions, NEW p \in Plans, RetireRelease(s, p)
    PROVE  IInv'
<1> USE DEF IInv
<1>1. PICK b \in Builds :
         /\ current[p] # None /\ current[p] \in Claim /\ current[p].build = b
         /\ current[p].state = "retiring" /\ current[p].why # None
         /\ ArchiveOf(p, current[p]) \in arch /\ snap[p][b] = None
  BY DEF RetireRelease, Flights, Flight, TypeOK, Claim, Lifecycle
<1>2. PICK n \in Claim :
         /\ n.build = b /\ n.gen = current[p].gen
         /\ n.why = current[p].why /\ n.rev = current[p].rev
         /\ history' = [history EXCEPT ![p] = history[p] \cup {n}]
  BY <1>1, EndedFields DEF RetireRelease, SameBuild
<1>3. current' = [current EXCEPT ![p] = None]
  BY DEF RetireRelease
<1>4. UNCHANGED <<generation, snap, arch, loc, acked>>
  BY DEF RetireRelease
<1>5. /\ op'[s] = None
      /\ \A t \in Sessions \ {s} : op'[t] = op[t] /\ (op[t] # None => op[t].plan # p)
      /\ Exclusive'
  BY StepAlone DEF RetireRelease, Leave
<1>6. ArchiveOf(p, n) = ArchiveOf(p, current[p])
  BY <1>1, <1>2 DEF ArchiveOf
<1>7. /\ history'[p] = history[p] \cup {n} /\ current'[p] = None
      /\ \A q \in Plans \ {p} : history'[q] = history[q] /\ current'[q] = current[q]
  BY <1>2, <1>3 DEF TypeOK
<1>8. Flights'
  <2> SUFFICES ASSUME NEW t \in Sessions, op'[t] # None PROVE Flight(op[t])'
    BY DEF Flights
  <2>1. op'[t] = op[t] /\ Flight(op[t]) /\ op[t].plan \in Plans \ {p}
    BY <1>5 DEF Flights, TypeOK, Operation
  <2> QED
    BY <1>4, <1>7, <2>1 DEF Flight, ArchiveOf
<1>9. Lifecycle'
  BY <1>1, <1>2, <1>4, <1>7 DEF Lifecycle
<1>10. Ages'
  <2> SUFFICES ASSUME NEW q \in Plans
               PROVE  /\ current'[q] # None =>
                           /\ current'[q].gen = generation[q]
                           /\ \A c \in history'[q] : c.gen < generation[q]
                      /\ \A c \in history'[q] : c.gen <= generation[q]
                      /\ \A c, d \in history'[q] : c.gen = d.gen => c = d
    BY <1>4 DEF Ages
  <2>1. CASE q = p
    <3>1. n.gen = generation[p] /\ \A c \in history[p] : c.gen < generation[p] /\ c.gen \in Int
      BY <1>1, <1>2, ConstantsOK DEF Ages, TypeOK, Claim
    <3>2. generation[p] \in Int
      BY ConstantsOK DEF TypeOK
    <3>3. \A c \in history'[p] : c.gen <= generation[p]
      BY <1>7, <3>1, <3>2
    <3>4. \A c, d \in history'[p] : c.gen = d.gen => c = d
      <4> SUFFICES ASSUME NEW c \in history[p] \cup {n}, NEW d \in history[p] \cup {n}, c.gen = d.gen
                   PROVE  c = d
        BY <1>7
      <4>1. CASE c \in history[p] /\ d \in history[p]
        BY <4>1 DEF Ages
      <4>2. CASE c = n \/ d = n
        BY <3>1, <3>2, <4>2
      <4> QED
        BY <4>1, <4>2
    <3> QED
      BY <1>7, <2>1, <3>3, <3>4
  <2>2. CASE q # p
    BY <1>7, <2>2 DEF Ages
  <2> QED
    BY <2>1, <2>2
<1>11. IdentityOnce'
  <2>1. \A q \in Plans : \A c \in Ledger(q)' : \E d \in Ledger(q) : d.build = c.build
    BY <1>1, <1>2, <1>7 DEF Ledger
  <2>2. \A q, r \in Plans : \A c \in Ledger(q)', d \in Ledger(r)' : c.build = d.build => q = r
    BY <2>1 DEF IdentityOnce
  <2>3. \A q \in Plans : current'[q] # None => \A c \in history'[q] : c.build # current'[q].build
    BY <1>7 DEF IdentityOnce
  <2> QED
    BY <2>2, <2>3 DEF IdentityOnce
<1>12. SnapshotsBelong'
  BY <1>1, <1>4, <1>7 DEF SnapshotsBelong
<1>13. ArchivesBelong'
  <2> SUFFICES ASSUME NEW a \in arch
               PROVE  \/ \E c \in history'[a.plan] : a = ArchiveOf(a.plan, c)
                      \/ /\ current'[a.plan] # None /\ current'[a.plan].state = "retiring"
                         /\ a = ArchiveOf(a.plan, current'[a.plan])
    BY <1>4 DEF ArchivesBelong, ArchiveOf
  <2>1. a.plan \in Plans
    BY DEF TypeOK, Archive
  <2>2. CASE a.plan = p
    BY <1>6, <1>7, <2>2 DEF ArchivesBelong
  <2>3. CASE a.plan # p
    BY <1>7, <2>1, <2>3 DEF ArchivesBelong
  <2> QED
    BY <2>2, <2>3
<1>14. Retirements'
  BY <1>4, <1>7 DEF Retirements, ArchiveOf
<1>15. EvidenceReachable'
  <2>1. ASSUME NEW e \in Builds, acked'[e] > 0
        PROVE  \E q \in Plans : \E c \in Ledger(q)' : c.build = e /\ Retained(q, c)'
    <3>1. PICK q \in Plans : \E c \in Ledger(q) : c.build = e /\ Retained(q, c)
      BY <1>4, <2>1 DEF EvidenceReachable
    <3>2. PICK c \in Ledger(q) : c.build = e /\ Retained(q, c)
      BY <3>1
    <3>3. CASE c = current[p] /\ q = p
      <4>1. n \in Ledger(p)' /\ n.build = e
        BY <1>1, <1>2, <1>7, <3>2, <3>3 DEF Ledger
      <4>2. n.why # None /\ n.rev >= acked[b] /\ ArchiveOf(p, n) \in arch
        BY <1>1, <1>2, <1>6, <3>2, <3>3 DEF Retained
      <4>3. Retained(p, n)'
        BY <1>2, <1>4, <4>2 DEF Retained, ArchiveOf
      <4> QED
        BY <4>1, <4>3
    <3>4. CASE ~(c = current[p] /\ q = p)
      <4>1. c \in Ledger(q)'
        BY <1>7, <3>2, <3>4 DEF Ledger
      <4>2. Retained(q, c)'
        BY <1>1, <1>4, <1>7, <3>2, <3>4 DEF Retained, ArchiveOf
      <4> QED
        BY <3>2, <4>1, <4>2
    <3> QED
      BY <3>3, <3>4
  <2>2. \A q \in Plans : (current'[q] # None /\ current'[q].state = "active") => current'[q] = current[q]
    BY <1>7
  <2> QED
    BY <1>4, <2>1, <2>2 DEF EvidenceReachable
<1>16. ClosedPlansOwnNothing'
  BY <1>7 DEF ClosedPlansOwnNothing, RetireRelease, TypeOK
<1> QED
  BY <1>5, <1>8, <1>9, <1>10, <1>11, <1>12, <1>13, <1>14, <1>15, <1>16

-----------------------------------------------------------------------------

\* A library in which no plan ever reserved a Build satisfies the invariant.
LEMMA InvInit == Init => IInv
<1> SUFFICES ASSUME Init PROVE IInv
  OBVIOUS
<1>1. TypeOK
  BY TypeInit
<1>2. \A p \in Plans : Ledger(p) = {}
  BY DEF Init, Ledger
<1>3. Flights /\ Exclusive /\ Lifecycle /\ Ages /\ SnapshotsBelong /\ ArchivesBelong /\ Retirements
  BY DEF Init, Flights, Exclusive, Lifecycle, Ages, SnapshotsBelong, ArchivesBelong, Retirements
<1>4. IdentityOnce /\ EvidenceReachable /\ ClosedPlansOwnNothing
  BY <1>2 DEF Init, IdentityOnce, EvidenceReachable, ClosedPlansOwnNothing
<1> QED
  BY <1>1, <1>3, <1>4 DEF IInv

\* Every durable write, refusal and death preserves the invariant.
LEMMA InvNext == IInv /\ [Next]_vars => IInv'
<1> SUFFICES ASSUME IInv, [Next]_vars PROVE IInv'
  OBVIOUS
<1>1. CASE Next
  <2>1. TypeOK'
    BY <1>1, TypeStep DEF IInv
  <2>2. ASSUME NEW p \in Plans, PlanStep(p) PROVE IInv'
    BY <2>1, <2>2, ReserveStep, MutateStep, RefusedStep, CloseStep DEF PlanStep
  <2>3. ASSUME NEW s \in Sessions, NEW p \in Plans, Finish(s, p) PROVE IInv'
    BY <2>1, <2>3, SnapshotStep, LocatorStep, ActivateStep DEF Finish
  <2>4. ASSUME NEW s \in Sessions, NEW p \in Plans, Retire(s, p) PROVE IInv'
    BY <2>1, <2>4, JournalStep, ArchiveStep, MoveStep, ReleaseStep DEF Retire
  <2>5. ASSUME NEW s \in Sessions, Crash(s) PROVE IInv'
    BY <2>1, <2>5, CrashStep
  <2> QED
    BY <1>1, <2>2, <2>3, <2>4, <2>5 DEF Next
<1>2. CASE UNCHANGED vars
  <2> USE <1>2 DEF vars
  <2>1. TypeOK' /\ Flights' /\ Exclusive' /\ Lifecycle' /\ Ages' /\ IdentityOnce'
    BY DEF IInv, TypeOK, Flights, Flight, Exclusive, Lifecycle, Ages, IdentityOnce, Ledger, ArchiveOf
  <2>2. SnapshotsBelong' /\ ArchivesBelong' /\ Retirements' /\ ClosedPlansOwnNothing'
    BY DEF IInv, SnapshotsBelong, ArchivesBelong, Retirements, ClosedPlansOwnNothing, ArchiveOf
  <2>3. EvidenceReachable'
    BY DEF IInv, EvidenceReachable, Retained, Ledger, ArchiveOf
  <2> QED
    BY <2>1, <2>2, <2>3 DEF IInv
<1> QED
  BY <1>1, <1>2

\* The strengthened invariant holds in every state binding, writing, closing,
\* retiring and dying can reach.
THEOREM Invariance == Spec => []IInv
<1>1. Init => IInv
  BY InvInit
<1>2. IInv /\ [Next]_vars => IInv'
  BY InvNext
<1> QED
  BY <1>1, <1>2, PTL DEF Spec

\* The plan record, the files and the transactions keep their types.
THEOREM TypeCorrect == Spec => []TypeOK
<1>1. IInv => TypeOK
  BY DEF IInv
<1> QED
  BY <1>1, Invariance, PTL

\* The ages of a ledger make its generations unique.
LEMMA InvGenerations == IInv => GenerationsAreUnique
<1> SUFFICES ASSUME IInv, NEW p \in Plans
             PROVE  /\ \A c, d \in Ledger(p) : c.gen = d.gen => c = d
                    /\ \A c \in Ledger(p) : c.gen <= generation[p]
                    /\ current[p] # None => current[p].gen = generation[p]
  BY DEF GenerationsAreUnique
<1>1. /\ generation[p] \in Int
      /\ \A c \in history[p] : c.gen <= generation[p]
      /\ \A c, d \in history[p] : c.gen = d.gen => c = d
      /\ current[p] # None => /\ current[p].gen = generation[p]
                              /\ \A c \in history[p] : c.gen < generation[p]
  BY ConstantsOK DEF IInv, TypeOK, Ages
<1>2. \A c \in Ledger(p) : c \in history[p] \/ (c = current[p] /\ current[p] # None)
  BY DEF Ledger
<1>3. \A c, d \in Ledger(p) : c.gen = d.gen => c = d
  BY <1>1, <1>2
<1> QED
  BY <1>1, <1>2, <1>3

\* A stale identity never names another claim: reserve_build and the ledger it
\* appends to give each generation of a plan to one claim.
THEOREM GenerationsUnique == Spec => []GenerationsAreUnique
BY Invariance, InvGenerations, PTL

\* Snapshots, archives and journalled revisions together locate the evidence.
LEMMA InvEvidence == IInv => ClaimHasItsEvidence
<1> SUFFICES ASSUME IInv, NEW p \in Plans, current[p] # None
             PROVE  LET c == current[p]
                        kept == snap[p][c.build] # None /\ snap[p][c.build].gen = c.gen
                    IN /\ c.state = "active" => kept
                       /\ c.state \in Live =>
                             ~ \E a \in arch : a.plan = p /\ a.build = c.build /\ a.gen = c.gen
                       /\ c.state \in Transition /\ c.rev # 0 =>
                             \/ kept /\ snap[p][c.build].rev = c.rev
                             \/ ArchiveOf(p, c) \in arch
  BY DEF ClaimHasItsEvidence
<1>1. current[p] \in Claim /\ current[p].build \in Builds
  BY DEF IInv, TypeOK, Claim
<1>2. snap[p][current[p].build] # None => snap[p][current[p].build].gen = current[p].gen
  BY <1>1 DEF IInv, SnapshotsBelong
<1>3. current[p].state = "active" => snap[p][current[p].build] # None
  BY DEF IInv, Lifecycle
<1>4. current[p].state \in Live =>
         ~ \E a \in arch : a.plan = p /\ a.build = current[p].build /\ a.gen = current[p].gen
  <2> SUFFICES ASSUME current[p].state \in Live, NEW a \in arch, a.plan = p, a.gen = current[p].gen
               PROVE  FALSE
    OBVIOUS
  <2>1. PICK c \in history[p] : a = ArchiveOf(p, c)
    BY DEF IInv, ArchivesBelong
  <2>2. c.gen = current[p].gen /\ c.gen < generation[p] /\ current[p].gen = generation[p]
    BY <2>1 DEF IInv, Ages, ArchiveOf
  <2> QED
    BY <2>2, ConstantsOK DEF IInv, TypeOK
<1>5. current[p].state \in Transition /\ current[p].rev # 0 =>
         \/ /\ snap[p][current[p].build] # None
            /\ snap[p][current[p].build].rev = current[p].rev
         \/ ArchiveOf(p, current[p]) \in arch
  BY DEF IInv, Lifecycle, Retirements
<1> QED
  BY <1>2, <1>3, <1>4, <1>5

\* At every cut of a retirement the evidence is where the record says it is.
THEOREM EvidenceInPlace == Spec => []ClaimHasItsEvidence
BY Invariance, InvEvidence, PTL

\* No interleaving or crash loses a revision a caller was told is saved.
THEOREM EvidenceKept == Spec => []EvidenceReachable
<1>1. IInv => EvidenceReachable
  BY DEF IInv
<1> QED
  BY <1>1, Invariance, PTL

\* No plan is ever closed underneath a Build it owns.
THEOREM ClosedOwnNothing == Spec => []ClosedPlansOwnNothing
<1>1. IInv => ClosedPlansOwnNothing
  BY DEF IInv
<1> QED
  BY <1>1, Invariance, PTL

-----------------------------------------------------------------------------
(***************************************************************************)
(* Action properties: what one step may never do.                          *)
(***************************************************************************)

\* Which steps write the snapshots, and that the only one to remove a file has
\* its archive in place.
LEMMA NextSnapshots ==
    ASSUME IInv, Next, NEW p \in Plans, NEW b \in Builds, snap[p][b] # None
    PROVE  \/ snap'[p][b] # None /\ snap'[p][b].rev >= snap[p][b].rev
           \/ [plan |-> p, build |-> b, gen |-> snap[p][b].gen, rev |-> snap[p][b].rev] \in arch'
<1> USE DEF IInv
<1> DEFINE Kept == \/ snap'[p][b] # None /\ snap'[p][b].rev >= snap[p][b].rev
                   \/ [plan |-> p, build |-> b, gen |-> snap[p][b].gen,
                       rev |-> snap[p][b].rev] \in arch'
<1>1. snap[p][b] \in Snapshot /\ snap[p][b].rev \in Int
  BY ConstantsOK DEF TypeOK, Snapshot
<1>2. snap'[p][b] = snap[p][b] => Kept
  BY <1>1
<1>3. ASSUME NEW q \in Plans, NEW e \in Builds, NEW g \in Gens, NEW r \in Revs, Mutate(q, e, g, r)
      PROVE  Kept
  <2>1. CASE q = p /\ e = b
    <3>1. /\ snap' = [snap EXCEPT ![p][b] = [gen |-> g, rev |-> r + 1]]
          /\ snap[p][b].rev = r /\ [gen |-> g, rev |-> r + 1] \in Snapshot
      BY <1>3, <2>1, ConstantsOK DEF Mutate, Snapshot
    <3>2. snap'[p][b] = [gen |-> g, rev |-> r + 1] /\ snap'[p][b] # None
      BY <3>1, NoneIsAbsence DEF TypeOK
    <3> QED
      BY <1>1, <3>1, <3>2
  <2>2. CASE q # p \/ e # b
    BY <1>2, <1>3, <2>2 DEF Mutate, TypeOK
  <2> QED
    BY <2>1, <2>2
<1>4. ASSUME NEW s \in Sessions, NEW q \in Plans, FinishSnapshot(s, q)
      PROVE  Kept
  BY <1>2, <1>4 DEF FinishSnapshot, Saved, TypeOK, Claim
<1>5. ASSUME NEW s \in Sessions, NEW q \in Plans, RetireMove(s, q)
      PROVE  Kept
  <2>1. CASE q = p /\ current[p].build = b
    <3>1. /\ current[p] # None /\ current[p].state = "retiring"
          /\ ArchiveOf(p, current[p]) \in arch /\ arch' = arch
      BY <1>5, <2>1 DEF RetireMove, Flights, Flight
    <3>2. snap[p][b].gen = current[p].gen /\ snap[p][b].rev = current[p].rev
      BY <2>1, <3>1 DEF SnapshotsBelong, Retirements
    <3> QED
      BY <2>1, <3>1, <3>2 DEF ArchiveOf
  <2>2. CASE q # p \/ current[p].build # b
    BY <1>2, <1>5, <2>2 DEF RetireMove, TypeOK
  <2> QED
    BY <2>1, <2>2
<1>6. ASSUME UNCHANGED snap PROVE Kept
  BY <1>2, <1>6
<1> HIDE DEF Kept
<1>7. ASSUME NEW q \in Plans, PlanStep(q) PROVE Kept
  BY <1>3, <1>6, <1>7 DEF PlanStep, Reserve, RetireRefused, ClosePlan
<1>8. ASSUME NEW s \in Sessions, NEW q \in Plans, Finish(s, q) PROVE Kept
  BY <1>4, <1>6, <1>8 DEF Finish, FinishLocator, FinishActivate
<1>9. ASSUME NEW s \in Sessions, NEW q \in Plans, Retire(s, q) PROVE Kept
  BY <1>5, <1>6, <1>9 DEF Retire, RetireJournal, RetireArchive, RetireRelease
<1>10. ASSUME NEW s \in Sessions, Crash(s) PROVE Kept
  BY <1>6, <1>10 DEF Crash
<1>11. Kept
  BY <1>7, <1>8, <1>9, <1>10 DEF Next
<1> QED
  BY <1>11 DEF Kept

\* Evidence is never rewound, nor removed before its archive exists.
THEOREM NeverRewound == Spec => SnapshotNeverRewound
<1> DEFINE A == \A p \in Plans, b \in Builds : snap[p][b] # None =>
          \/ snap'[p][b] # None /\ snap'[p][b].rev >= snap[p][b].rev
          \/ [plan |-> p, build |-> b, gen |-> snap[p][b].gen,
              rev |-> snap[p][b].rev] \in arch'
<1>1. IInv /\ [Next]_vars => [A]_snap
  BY NextSnapshots DEF vars
<1> HIDE DEF A
<1>2. Spec => [][A]_snap
  BY <1>1, Invariance, PTL DEF Spec
<1> QED
  BY <1>2 DEF A, SnapshotNeverRewound

\* Only a release and a closing write the closure, and only over an open plan;
\* only a release writes the history, and it adds to it.
LEMMA NextEnded ==
    ASSUME IInv, Next, NEW p \in Plans
    PROVE  /\ history[p] \subseteq history'[p]
           /\ closure[p] # None => closure'[p] = closure[p]
<1> USE DEF IInv
<1> DEFINE Kept == /\ history[p] \subseteq history'[p]
                   /\ closure[p] # None => closure'[p] = closure[p]
<1>1. ASSUME NEW q \in Plans, NEW how \in Closures, ClosePlan(q, how)
      PROVE  Kept
  BY <1>1 DEF ClosePlan, Open, TypeOK
<1>2. ASSUME NEW s \in Sessions, NEW q \in Plans, RetireRelease(s, q)
      PROVE  Kept
  <2>1. history[p] \subseteq history'[p]
    BY <1>2 DEF RetireRelease, TypeOK
  <2>2. closure[q] = None
    BY <1>2 DEF RetireRelease, Flights, Flight, ClosedPlansOwnNothing
  <2>3. closure[p] # None => closure'[p] = closure[p]
    BY <1>2, <2>2 DEF RetireRelease, TypeOK
  <2> QED
    BY <2>1, <2>3
<1>3. ASSUME UNCHANGED <<history, closure>> PROVE Kept
  BY <1>3
<1> HIDE DEF Kept
<1>4. ASSUME NEW q \in Plans, PlanStep(q) PROVE Kept
  BY <1>1, <1>3, <1>4 DEF PlanStep, Reserve, Mutate, RetireRefused
<1>5. ASSUME NEW s \in Sessions, NEW q \in Plans, Finish(s, q) PROVE Kept
  BY <1>3, <1>5 DEF Finish, FinishSnapshot, FinishLocator, FinishActivate
<1>6. ASSUME NEW s \in Sessions, NEW q \in Plans, Retire(s, q) PROVE Kept
  BY <1>2, <1>3, <1>6 DEF Retire, RetireJournal, RetireArchive, RetireMove
<1>7. ASSUME NEW s \in Sessions, Crash(s) PROVE Kept
  BY <1>3, <1>7 DEF Crash
<1>8. Kept
  BY <1>4, <1>5, <1>6, <1>7 DEF Next
<1> QED
  BY <1>8 DEF Kept

\* A late call that names an ended identity is refused: claims differ in generation.
LEMMA EndedNotObeyed ==
    ASSUME Ages, TypeOK, NEW p \in Plans, NEW c \in history[p]
    PROVE  ~Obeyed(p, c.build, c.gen)
<1>1. current[p] # None => current[p].gen # c.gen
  <2>1. generation[p] \in Int /\ c.gen \in Int
    BY ConstantsOK DEF TypeOK, Claim
  <2> QED BY <2>1 DEF Ages
<1> QED BY <1>1 DEF Obeyed, Mutate, RetireJournal, CanRetire, RetireRefused

\* Ledger entries, closures and ended identities are final, and no late call that
\* names an ended identity has an effect.
THEOREM EndedIsFinal == Spec => EndedStaysEnded
<1> DEFINE A == \A p \in Plans :
          /\ history[p] \subseteq history'[p]
          /\ closure[p] # None => closure'[p] = closure[p]
          /\ current'[p] # None => \A c \in history[p] : c.gen < current'[p].gen
          /\ \A c \in history[p] : ~Obeyed(p, c.build, c.gen)
<1>1. ASSUME IInv, IInv', Next, NEW p \in Plans, current'[p] # None
      PROVE  \A c \in history[p] : c.gen < current'[p].gen
  BY <1>1, NextEnded DEF IInv, Ages
<1>2. IInv /\ IInv' /\ [Next]_vars => [A]_<<history, closure, current, snap>>
  BY <1>1, NextEnded, EndedNotObeyed DEF vars, IInv
<1> HIDE DEF A
<1>3. Spec => [][A]_<<history, closure, current, snap>>
  BY <1>2, Invariance, PTL DEF Spec
<1> QED
  BY <1>3 DEF A, EndedStaysEnded

\* Every step but a binding's locator write leaves the locators alone.
LEMMA LocatorWritten ==
    ASSUME Next, loc' # loc
    PROVE  \E s \in Sessions, p \in Plans : FinishLocator(s, p)
<1>1. ASSUME NEW p \in Plans, PlanStep(p) PROVE UNCHANGED loc
  BY <1>1 DEF PlanStep, Reserve, Mutate, RetireRefused, ClosePlan
<1>2. ASSUME NEW s \in Sessions, NEW p \in Plans, Retire(s, p) PROVE UNCHANGED loc
  BY <1>2 DEF Retire, RetireJournal, RetireArchive, RetireMove, RetireRelease
<1>3. ASSUME NEW s \in Sessions, Crash(s) PROVE UNCHANGED loc
  BY <1>3 DEF Crash
<1>4. ASSUME NEW s \in Sessions, NEW p \in Plans, FinishSnapshot(s, p) \/ FinishActivate(s, p)
      PROVE  UNCHANGED loc
  BY <1>4 DEF FinishSnapshot, FinishActivate
<1> QED
  BY <1>1, <1>2, <1>3, <1>4 DEF Next, Finish

\* Only a binding's locator write changes a locator, to the current claim's value
\* and from a value this plan's ledger names.
LEMMA NextLocator ==
    ASSUME IInv, Next, NEW l \in Locators, loc[l] # None, loc'[l] # loc[l]
    PROVE  /\ loc'[l] # None /\ loc'[l].gen > loc[l].gen
           /\ loc'[l].plan = loc[l].plan \/ loc'[l].build = loc[l].build
<1> USE DEF IInv
<1>1. PICK s \in Sessions, p \in Plans : FinishLocator(s, p)
  BY LocatorWritten
<1>2. PICK c \in Claim : c = current[p] /\ c # None
  BY <1>1 DEF FinishLocator, Flights, Flight, TypeOK
<1>3. /\ LocatorFree(p, c.loc, Ledger(p))
      /\ loc' = [k \in Locators |-> IF k = c.loc THEN LocatorValue(p, c) ELSE loc[k]]
  BY <1>1, <1>2 DEF FinishLocator
<1>4. c.loc = l /\ loc'[l] = LocatorValue(p, c)
  BY <1>3
<1>5. l # None
  BY NoneIsAbsence
<1>6. PICK d \in Ledger(p) : loc[l] = LocatorValue(p, d)
  BY <1>3, <1>4, <1>5 DEF LocatorFree
<1>7. d # c
  BY <1>4, <1>6
<1>8. d \in history[p] /\ d \in Claim
  BY <1>2, <1>6, <1>7 DEF Ledger, TypeOK
<1>9. d.gen < c.gen
  BY <1>2, <1>8 DEF Ages
<1>10. LocatorValue(p, c) \in Locator
  BY <1>2 DEF LocatorValue, Locator, Claim
<1>11. c.gen \in Int /\ d.gen \in Int
  BY <1>2, <1>8, ConstantsOK DEF Claim
<1> QED
  BY <1>4, <1>6, <1>9, <1>10, <1>11, NoneIsAbsence DEF LocatorValue

\* A registered locator only ever moves on to a newer generation.
THEOREM LocatorsMoveForward == Spec => LocatorMovesForward
<1> DEFINE A == \A l \in Locators : loc[l] # None /\ loc'[l] # loc[l] =>
          /\ loc'[l] # None /\ loc'[l].gen > loc[l].gen
          /\ loc'[l].plan = loc[l].plan \/ loc'[l].build = loc[l].build
<1>1. IInv /\ [Next]_vars => [A]_loc
  BY NextLocator DEF vars
<1> HIDE DEF A
<1>2. Spec => [][A]_loc
  BY <1>1, Invariance, PTL DEF Spec
<1> QED
  BY <1>2 DEF A, LocatorMovesForward

=============================================================================
