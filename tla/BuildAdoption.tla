----------------------------- MODULE BuildAdoption -----------------------------
(***************************************************************************)
(* Adoption (adopt_build): a live Build moves from its plan to a sealed    *)
(* successor plan.  The transfer is a transaction over two plan records    *)
(* and two snapshots; its caller holds both plan locks, so again only a    *)
(* crash comes between its writes, but other plans' transactions, and after *)
(* a crash those of the two plans themselves, interleave with it.          *)
(*                                                                         *)
(* The module composes adoption with every operation of BuildLease.        *)
(***************************************************************************)
EXTENDS BuildLease

CONSTANT Lineage    \* <<p, q>>: plan q names p among its intake predecessors

ASSUME LineageOK == Lineage \subseteq {e \in Plans \X Plans : e[1] # e[2]}

(***************************************************************************)
(* What one call reads under the locks.  `ask' is the caller's identity    *)
(* and source revision, on predecessor ask.plan; the caller may have read  *)
(* them long before.                                                       *)
(***************************************************************************)
Asks(p) == [plan : {p}, build : Builds, gen : Gens, rev : Revs \ {0}]

\* The predecessor's claim: its current one, or an ended one that the identity
\* names once the predecessor has been released.
Sources(a) ==
    IF current[a.plan] # None THEN {current[a.plan]} ELSE history[a.plan]

Released(a) == current[a.plan] = None

IsOutgoing(c) == c.xfer # None /\ c.xfer.dir = "out"

\* A fresh generation, newer than anything either plan ever granted.
AdoptedGen_Kept(o, q) == o.gen
AdoptedGen(o, q) == 1 + IF o.gen > generation[q] THEN o.gen ELSE generation[q]

\* The successor's claim: fixed by the journal once there is one.
NewClaim(o, a, q) ==
    [build |-> o.build, loc |-> o.loc, state |-> "preparing", why |-> None, rev |-> 0, retry |-> 0,
     gen |-> IF IsOutgoing(o) THEN o.xfer.gen ELSE AdoptedGen(o, q),
     xfer |-> [dir |-> "in", plan |-> a.plan, gen |-> o.gen, rev |-> a.rev]]

SameIdentity(c, d) == c.build = d.build /\ c.gen = d.gen

\* The call names this source, and (once journalled) this successor.
Names(o, a, q) ==
    /\ o.build = a.build /\ o.gen = a.gen
    /\ o.state \in IF Released(a) THEN {"superseded"} ELSE {"active", "transferring"}
    /\ IF IsOutgoing(o)
       THEN o.xfer.plan = q /\ o.xfer.rev = a.rev
       ELSE /\ ~Released(a)
            /\ current[q] = None /\ Open(q)
            /\ AdoptedGen(o, q) <= MaxGen

\* Another claim, a closure or a newer generation took the successor meanwhile.
Unavailable_AnyClaim(n, q) == ~Open(q) \/ current[q] # None \/ generation[q] >= n.gen
Unavailable(n, q) ==
    \/ ~Open(q)
    \/ current[q] # None /\ ~SameIdentity(current[q], n)
    \/ current[q] = None /\ generation[q] >= n.gen

\* The successor already holds this transfer's own reservation, unaltered.
Reserved(n, q) ==
    /\ current[q] # None
    /\ current[q].state \in Live
    /\ [current[q] EXCEPT !.state = "preparing"] = n

EnterAdoption(s, a, q, step) ==
    op' = [op EXCEPT ![s] = [step |-> step, plan |-> a.plan, holds |-> {a.plan, q},
                             to |-> q, ask |-> a]]

Adopting(s, step) == op[s] # None /\ op[s].step = step

\* The source evidence is at the revision the caller named, in the snapshot or,
\* once that has been renamed, in the archive.
SourceMatches(a) ==
    IF snap[a.plan][a.build] # None
    THEN snap[a.plan][a.build] = [gen |-> a.gen, rev |-> a.rev]
    ELSE a \in arch

\* The journal suspends the predecessor: from here on nobody can write to it.
Suspended_KeepsWriting(o, a, q, g) ==
    [o EXCEPT !.why = "superseded", !.rev = a.rev,
              !.xfer = [dir |-> "out", plan |-> q, gen |-> g, rev |-> a.rev]]
Suspended(o, a, q, g) ==
    [o EXCEPT !.state = "transferring", !.why = "superseded", !.rev = a.rev,
              !.xfer = [dir |-> "out", plan |-> q, gen |-> g, rev |-> a.rev]]

-----------------------------------------------------------------------------
\* First write: the predecessor journals the exact successor claim.  The source
\* evidence must be at the revision the caller named.
AdoptJournal(s, a, q) ==
    /\ op[s] = None /\ ~Locked(a.plan) /\ ~Locked(q)
    /\ \E o \in Sources(a) :
        LET n == NewClaim(o, a, q)
        IN /\ Names(o, a, q)
           /\ ~Unavailable(n, q)
           /\ current[q] # None => Reserved(n, q)
           /\ ~(Released(a) /\ current[q] # None /\ current[q].state = "active")
           /\ SourceMatches(a)
           /\ a.rev < MaxRev
           /\ current' = IF Released(a) \/ IsOutgoing(o) THEN current
                         ELSE [current EXCEPT ![a.plan] = Suspended(o, a, q, n.gen)]
    /\ EnterAdoption(s, a, q, "a.reserve")
    /\ UNCHANGED <<generation, history, closure, snap, arch, loc, acked>>

\* Nothing has moved: the source is still in its slot and none is at the target.
Restorable_Never(a, q) == FALSE
Restorable(a, q) == snap[a.plan][a.build] # None /\ snap[q][a.build] = None

\* The journalled successor was lost to somebody else before it was reserved:
\* the untouched source becomes writable again, and the call is refused.
AdoptRestore(a, q) ==
    /\ ~Locked(a.plan) /\ ~Locked(q)
    /\ current[a.plan] # None
    /\ LET o == current[a.plan]
       IN /\ IsOutgoing(o)
          /\ Names(o, a, q)
          /\ Unavailable(NewClaim(o, a, q), q)
          /\ Restorable(a, q)
          /\ current' = [current EXCEPT ![a.plan] =
                [o EXCEPT !.state = "active", !.why = None, !.rev = 0, !.xfer = None]]
    /\ UNCHANGED <<generation, history, closure, snap, arch, loc, op, acked>>

\* A retry after everything landed: the locator is written again if it is
\* missing, and the saved snapshot returned.
AdoptRepeat(a, q) ==
    /\ ~Locked(a.plan) /\ ~Locked(q)
    /\ Released(a)
    /\ \E o \in Sources(a) :
        LET n == NewClaim(o, a, q)
        IN /\ Names(o, a, q) /\ Reserved(n, q) /\ Open(q)
           /\ current[q].state = "active"
           /\ ArchiveOf(a.plan, o) \in arch
           /\ o.loc # None => loc[o.loc] \in {None, LocatorValue(a.plan, o), LocatorValue(q, n)}
           /\ loc' = [l \in Locators |-> IF l = o.loc THEN LocatorValue(q, n) ELSE loc[l]]
    /\ UNCHANGED <<generation, current, history, closure, snap, arch, op, acked>>

\* The journalled source claim, for the steps after the journal.
TheSource(a) == CHOOSE o \in Sources(a) : o.build = a.build /\ o.gen = a.gen

AdoptReserve(s) ==
    /\ Adopting(s, "a.reserve")
    /\ LET a == op[s].ask
           q == op[s].to
           n == NewClaim(TheSource(a), a, q)
       IN IF current[q] = None
          THEN /\ generation' = [generation EXCEPT ![q] = n.gen]
               /\ current' = [current EXCEPT ![q] = n]
          ELSE UNCHANGED <<generation, current>>
    /\ GoTo(s, "a.snapshot")
    /\ UNCHANGED <<history, closure, snap, arch, loc, acked>>

SuccessorSnapshot(a, g) == [gen |-> g, rev |-> a.rev + 1]

\* The successor's snapshot continues the source at the next revision; one that
\* an earlier attempt wrote wins.
AdoptSnapshot(s) ==
    /\ Adopting(s, "a.snapshot")
    /\ LET a == op[s].ask
           q == op[s].to
           g == current[q].gen
       IN /\ snap' = [snap EXCEPT ![q][a.build] =
                        IF @ # None THEN @ ELSE SuccessorSnapshot(a, g)]
          /\ GoTo(s, IF Released(a) THEN "a.locator" ELSE "a.archive")
    /\ UNCHANGED <<generation, current, history, closure, arch, loc, acked>>

AdoptArchive(s) ==
    /\ Adopting(s, "a.archive")
    /\ arch' = arch \cup {op[s].ask}
    /\ GoTo(s, "a.move")
    /\ UNCHANGED <<generation, current, history, closure, snap, loc, acked>>

AdoptMove(s) ==
    /\ Adopting(s, "a.move")
    /\ snap' = [snap EXCEPT ![op[s].plan][op[s].ask.build] = None]
    /\ GoTo(s, "a.release")
    /\ UNCHANGED <<generation, current, history, closure, arch, loc, acked>>

AdoptRelease(s) ==
    /\ Adopting(s, "a.release")
    /\ LET p == op[s].plan
       IN /\ history' = [history EXCEPT ![p] = @ \cup {[current[p] EXCEPT !.state = "superseded"]}]
          /\ current' = [current EXCEPT ![p] = None]
          /\ closure' = [closure EXCEPT ![p] = "retired"]
    /\ GoTo(s, "a.locator")
    /\ UNCHANGED <<generation, snap, arch, loc, acked>>

AdoptLocator(s) ==
    /\ Adopting(s, "a.locator")
    /\ LET a == op[s].ask
           q == op[s].to
           n == current[q]
       IN IF n.loc # None =>
                loc[n.loc] \in {None, LocatorValue(a.plan, TheSource(a)), LocatorValue(q, n)}
          THEN /\ loc' = [l \in Locators |-> IF l = n.loc THEN LocatorValue(q, n) ELSE loc[l]]
               /\ GoTo(s, "a.activate")
          ELSE Leave(s) /\ UNCHANGED loc
    /\ UNCHANGED <<generation, current, history, closure, snap, arch, acked>>

AdoptActivate(s) ==
    /\ Adopting(s, "a.activate")
    /\ LET q == op[s].to
           b == op[s].ask.build
       IN /\ current' = [current EXCEPT ![q] = Activated(@)]
          /\ Acknowledge(b, snap[q][b].rev)
    /\ Leave(s)
    /\ UNCHANGED <<generation, history, closure, snap, arch, loc>>

-----------------------------------------------------------------------------
AdoptWrite(s) ==
    \/ AdoptReserve(s) \/ AdoptSnapshot(s) \/ AdoptArchive(s) \/ AdoptMove(s)
    \/ AdoptRelease(s) \/ AdoptLocator(s) \/ AdoptActivate(s)

ANext ==
    \/ Next
    \/ \E e \in Lineage : \E a \in Asks(e[1]) :
          \/ AdoptRestore(a, e[2]) \/ AdoptRepeat(a, e[2])
          \/ \E s \in Sessions : AdoptJournal(s, a, e[2])
    \/ \E s \in Sessions : AdoptWrite(s)

ASpec == Init /\ [][ANext]_vars

(***************************************************************************)
(* Fairness, as in BuildLease: the caller of an adoption keeps retrying it, *)
(* from the predecessor's journal or, once the predecessor is released,    *)
(* from the receipt on the successor.                                      *)
(***************************************************************************)
Transferring(p) == current[p] # None /\ current[p].state = "transferring"

Receiving(q) ==
    current[q] # None /\ current[q].state = "preparing" /\ current[q].xfer # None

RetryJournal(p) ==
    /\ Transferring(p)
    /\ LET c == current[p]
           a == ArchiveOf(p, c)
       IN AdoptRestore(a, c.xfer.plan) \/ \E s \in Sessions : AdoptJournal(s, a, c.xfer.plan)

RetryReceipt(q) ==
    /\ Receiving(q)
    /\ LET x == current[q].xfer
           a == [plan |-> x.plan, build |-> current[q].build, gen |-> x.gen, rev |-> x.rev]
       IN \E s \in Sessions : AdoptJournal(s, a, q)

AdoptionCrashesEnd ==
    <>[][\A s \in Sessions : Crash(s) => LeaseWrite(s) \/ AdoptWrite(s)]_vars

AdoptFairness ==
    /\ AdoptionCrashesEnd
    /\ \A s \in Sessions : WF_vars(LeaseWrite(s) \/ AdoptWrite(s))
    /\ \A p \in Plans : SF_vars(RetryJournal(p) \/ RetryReceipt(p))
    /\ \A p \in Plans : SF_vars(RetryRetirement(p))

FairASpec == ASpec /\ AdoptFairness

-----------------------------------------------------------------------------
(***************************************************************************)
(* Properties.                                                             *)
(***************************************************************************)

\* Two plans hold a claim on one Build only while one is handing it to the
\* other, and then neither can be written to: no interleaving of adoptions,
\* crashes and competing binds leaves a Build with two owners.
OneOwner ==
    \A p, q \in Plans :
        (p # q /\ current[p] # None /\ current[q] # None /\ current[p].build = current[q].build) =>
        \E from \in {p, q} : \E to \in {p, q} \ {from} :
            LET o == current[from]
                n == current[to]
            IN /\ o.state = "transferring" /\ o.xfer.plan = to /\ o.xfer.gen = n.gen
               /\ n.state = "preparing" /\ n.xfer # None
               /\ n.xfer.plan = from /\ n.xfer.gen = o.gen

\* A Build identity is in the ledger of one plan only: adoption_source, which
\* looks a caller's identity up across the library, never finds it ambiguous.
IdentityNamesOnePlan ==
    \A p, q \in Plans : \A c \in Ledger(p), d \in Ledger(q) :
        SameIdentity(c, d) => p = q

\* A journalled transfer is eventually decided: the Build is live on the
\* successor, or its predecessor is writable again.
TransferDecided ==
    \A p \in Plans :
        /\ Transferring(p) ~> ~Transferring(p)
        /\ Receiving(p) ~> ~Receiving(p)

(***************************************************************************)
(* The refinement.  The owner of a Build being moved is the predecessor    *)
(* until its record is released, and the successor from then on.           *)
(***************************************************************************)
Owners(b) == {p \in Plans : current[p] # None /\ current[p].build = b}

\* The plans holding b that are not merely the reserved end of an open transfer.
OwnersProper(b) ==
    {p \in Owners(b) : ~ \E o \in Owners(b) \ {p} : current[o].state = "transferring"}

OwnerOf(b) == IF Owners(b) = {} THEN None ELSE CHOOSE p \in OwnersProper(b) : TRUE

StatusOf(b) ==
    IF b \notin Minted THEN "unborn"
    ELSE IF OwnerOf(b) = None THEN "over"
    ELSE LET c == current[OwnerOf(b)]
         IN CASE c.state = "preparing" -> IF c.xfer = None THEN "reserved" ELSE "moving"
              [] c.state = "active" -> "live"
              [] c.state = "transferring" -> "moving"
              [] c.state = "retiring" -> "ending"

KeptRevisions(b) ==
    {0} \cup {snap[p][b].rev : p \in {p \in Plans : snap[p][b] # None}}
        \cup {a.rev : a \in {a \in arch : a.build = b}}

EvidenceOf(b) == CHOOSE r \in KeptRevisions(b) : \A t \in KeptRevisions(b) : r >= t

Ownership == INSTANCE BuildOwnership WITH
    owner    <- [b \in Builds |-> OwnerOf(b)],
    status   <- [b \in Builds |-> StatusOf(b)],
    evidence <- [b \in Builds |-> EvidenceOf(b)]

\* The files, journals, locks and crashes of the transactions implement the
\* ownership the store promises: one owner, writes only while live, hand-over
\* only while nobody can write, evidence that never shrinks, ends that are final.
ImplementsOwnership == Ownership!ASpec
=============================================================================
