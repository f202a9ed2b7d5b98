------------------------------ MODULE BuildLease ------------------------------
(***************************************************************************)
(* Ownership of a Build by a sealed plan: build_state_store.py and the     *)
(* revisioned-store discipline it inherits from build_coordinator_core.py. *)
(*                                                                         *)
(* A plan's record holds a lease: a generation counter, the current claim  *)
(* and the claims already ended.  A claim's evidence is a snapshot file    *)
(* beside the plan; ending a claim moves it to an archive file.  Binding   *)
(* and retirement are transactions of several durable writes under the     *)
(* plan's lock; a process may die between any two of them (or its write    *)
(* may raise after becoming visible), which frees the lock and leaves the  *)
(* files as they are for another process to retry.  So each durable write  *)
(* is an action, and Crash is the only thing that can come between two     *)
(* writes of one transaction on one plan.                                  *)
(***************************************************************************)
EXTENDS Integers, FiniteSets

CONSTANTS
    Plans,      \* the sealed plans of the library
    Builds,     \* the uuid4 build ids that may be minted
    Locators,   \* external locator paths a caller may register
    Sessions,   \* processes running a binding, retirement or adoption
    None,       \* an absent claim, snapshot, locator, closure or operation
    MaxGen,     \* bound: generations a plan may reach
    MaxRev      \* bound: revisions a snapshot may reach

VARIABLES
    generation, \* plan -> the lease's generation counter (0: no lease yet)
    current,    \* plan -> the lease's current claim, or None
    history,    \* plan -> the ended claims
    closure,    \* plan -> how the plan was closed, or None
    snap,       \* plan -> build -> the snapshot at that address, or None
    arch,       \* the archive files
    loc,        \* locator -> what the file names, or None
    op,         \* session -> the transaction it is inside, or None
    acked       \* build -> newest revision a caller was told is saved (ghost)

vars == <<generation, current, history, closure, snap, arch, loc, op, acked>>

ASSUME ConstantsOK == MaxGen \in Nat /\ MaxRev \in Nat \ {0}

(***************************************************************************)
(* Data.  `why' is the decision a retirement or transfer journalled, `rev' *)
(* the revision that names its archive and `retry' the retirement_revision *)
(* recorded for whoever resumes it.  `xfer' is the transfer key: "out" on  *)
(* a predecessor (where its Build goes), "in" on a successor (the receipt  *)
(* of where it came from).                                                 *)
(***************************************************************************)
Decisions  == {"superseded", "abandoned", "complete"}
Live       == {"preparing", "active"}
Transition == {"retiring", "transferring"}
Closures   == {"retired", "complete"}   \* "retired" stands for abandoned too
Gens       == 1..MaxGen
Revs       == 0..MaxRev

Transfer == [dir : {"in", "out"}, plan : Plans, gen : Gens, rev : Revs]

Claim == [build : Builds, gen : Gens, state : Live \cup Transition \cup Decisions,
          loc : Locators \cup {None}, why : Decisions \cup {None}, rev : Revs,
          retry : Revs, xfer : Transfer \cup {None}]

Snapshot == [gen : Gens, rev : Revs \ {0}]
Archive  == [plan : Plans, build : Builds, gen : Gens, rev : Revs]
Locator  == [plan : Plans, build : Builds, gen : Gens]

LeaseSteps == {"locator", "activate", "archive", "move", "release"}
AdoptSteps == {"a.reserve", "a.snapshot", "a.archive", "a.move", "a.release",
               "a.locator", "a.activate"}

\* `holds' are the plan locks held.  `to' and `ask' belong to an adoption (module
\* BuildAdoption): its successor, and the identity and revision it was asked for.
Operation == [step : LeaseSteps \cup AdoptSteps, plan : Plans, holds : SUBSET Plans,
              to : Plans \cup {None}, ask : Archive \cup {None}]

\* What is absent is none of the values that can be present.
ASSUME NoneIsAbsence ==
    /\ None \notin Plans \cup Builds \cup Locators \cup Decisions \cup Closures
    /\ None \notin Claim /\ None \notin Snapshot /\ None \notin Locator
    /\ None \notin Operation /\ None \notin Transfer

Ledger(p) == history[p] \cup {c \in {current[p]} : c # None}

Minted == UNION {{c.build : c \in Ledger(p)} : p \in Plans}

Locked(p) == \E s \in Sessions : op[s] # None /\ p \in op[s].holds

ArchiveOf(p, c) == [plan |-> p, build |-> c.build, gen |-> c.gen, rev |-> c.rev]

LocatorValue(p, c) == [plan |-> p, build |-> c.build, gen |-> c.gen]

\* Identity (b, g), whenever the caller was given it, is that of claim c.
HasIdentity_AnyClaim(c, b, g) == TRUE
HasIdentity(c, b, g) == c.build = b /\ c.gen = g

Open_Unchecked(p) == TRUE
Open(p) == closure[p] = None

\* The locator is unused, or names one of this plan's ended claims (or the
\* claim being finished): anything else belongs to another Build.
LocatorFree_Unchecked(p, l, claims) == TRUE
LocatorFree(p, l, claims) ==
    l # None /\ loc[l] # None => loc[l] \in {LocatorValue(p, c) : c \in claims}

Holds(s, p, step) == op[s] # None /\ op[s].plan = p /\ op[s].step = step

Enter(s, p, step) ==
    op' = [op EXCEPT ![s] = [step |-> step, plan |-> p, holds |-> {p},
                             to |-> None, ask |-> None]]
At(o, step) == [o EXCEPT !.step = step]
GoTo(s, step) == op' = [op EXCEPT ![s] = At(@, step)]
Leave(s) == op' = [op EXCEPT ![s] = None]

\* The caller is told that revision r of build b is saved, unless its process dies
\* first or the write raises after its rename is visible.
Acknowledge(b, r) ==
    \/ acked' = [acked EXCEPT ![b] = IF @ > r THEN @ ELSE r]
    \/ UNCHANGED acked

Init ==
    /\ generation = [p \in Plans |-> 0]
    /\ current = [p \in Plans |-> None]
    /\ history = [p \in Plans |-> {}]
    /\ closure = [p \in Plans |-> None]
    /\ snap = [p \in Plans |-> [b \in Builds |-> None]]
    /\ arch = {}
    /\ loc = [l \in Locators |-> None]
    /\ op = [s \in Sessions |-> None]
    /\ acked = [b \in Builds |-> 0]

-----------------------------------------------------------------------------
(***************************************************************************)
(* Binding.                                                                *)
(***************************************************************************)

\* A plan-owned counter that never goes back, so an identity is never reissued.
NextGen_Reused(p) == IF generation[p] = 0 THEN 1 ELSE generation[p]
NextGen(p) == generation[p] + 1

\* One record write: the claim exists before any snapshot does.  A retry that
\* finds its own claim rewrites the record unchanged and gets the same claim.
Reserve(p, b, l) ==
    /\ ~Locked(p)
    /\ Open(p) /\ current[p] = None
    /\ LocatorFree(p, l, history[p])
    /\ b \notin Minted
    /\ generation[p] < MaxGen
    /\ generation' = [generation EXCEPT ![p] = NextGen(p)]
    /\ current' = [current EXCEPT ![p] =
           [build |-> b, gen |-> NextGen(p), state |-> "preparing", loc |-> l,
            why |-> None, rev |-> 0, retry |-> 0, xfer |-> None]]
    /\ UNCHANGED <<history, closure, snap, arch, loc, op, acked>>

\* A snapshot already written wins over the retry's own initial state.
Saved_RetryInput(p, c) == [gen |-> c.gen, rev |-> 1]
Saved(p, c) ==
    IF snap[p][c.build] = None THEN [gen |-> c.gen, rev |-> 1] ELSE snap[p][c.build]

\* finish_binding, first write.  An active claim whose snapshot is gone, and a
\* snapshot that holds another generation, are refused.
FinishSnapshot(s, p) ==
    /\ op[s] = None /\ ~Locked(p)
    /\ Open(p) /\ current[p] # None
    /\ LET c == current[p]
           b == c.build
       IN /\ c.state \in Live /\ ~(c.state = "preparing" /\ c.xfer # None)
          /\ \/ snap[p][b] = None /\ c.state = "preparing"
             \/ snap[p][b] # None /\ snap[p][b].gen = c.gen
          /\ snap' = [snap EXCEPT ![p][b] = Saved(p, c)]
    /\ Enter(s, p, "locator")
    /\ UNCHANGED <<generation, current, history, closure, arch, loc, acked>>

\* Under the locator's own lock: the address is checked again, because another
\* plan may have taken it since the reservation; a refusal leaves the claim.
FinishLocator(s, p) ==
    /\ Holds(s, p, "locator")
    /\ LET c == current[p]
       IN IF LocatorFree(p, c.loc, Ledger(p))
          THEN /\ GoTo(s, "activate")
               /\ loc' = [l \in Locators |-> IF l = c.loc THEN LocatorValue(p, c) ELSE loc[l]]
          ELSE Leave(s) /\ UNCHANGED loc
    /\ UNCHANGED <<generation, current, history, closure, snap, arch, acked>>

Activated(c) == [c EXCEPT !.state = "active"]

FinishActivate(s, p) ==
    /\ Holds(s, p, "activate")
    /\ current' = [current EXCEPT ![p] = Activated(@)]
    /\ Acknowledge(current[p].build, snap[p][current[p].build].rev)
    /\ Leave(s)
    /\ UNCHANGED <<generation, history, closure, snap, arch, loc>>

-----------------------------------------------------------------------------
(***************************************************************************)
(* Writing to a live Build (ClaimedBuildStore.mutate).  The caller supplies *)
(* the identity and the revision it read before it took the locks; both    *)
(* may be stale by now, so they are any values at all.                     *)
(***************************************************************************)
Mutate(p, b, g, r) ==
    /\ ~Locked(p)
    /\ current[p] # None
    /\ HasIdentity(current[p], b, g) /\ current[p].state = "active"
    /\ snap[p][b] # None /\ snap[p][b].gen = g
    /\ snap[p][b].rev = r /\ r < MaxRev
    /\ snap' = [snap EXCEPT ![p][b] = [gen |-> g, rev |-> r + 1]]
    /\ Acknowledge(b, r + 1)
    /\ UNCHANGED <<generation, current, history, closure, arch, loc, op>>

-----------------------------------------------------------------------------
(***************************************************************************)
(* Retirement: journal the decision, copy the evidence to the archive,     *)
(* rename the snapshot onto it, then release the claim.                    *)
(***************************************************************************)

\* The revision a retirement must name: the snapshot's, the archive's once the
\* snapshot has been renamed, or 0 for a preparation that wrote no snapshot.
Evidence_SnapshotOnly(p, c) ==
    IF snap[p][c.build] # None THEN snap[p][c.build].rev ELSE 0
Evidence(p, c) ==
    IF snap[p][c.build] # None THEN snap[p][c.build].rev
    ELSE IF c.state = "retiring" THEN c.rev ELSE 0

CanRetire(p, b, g, d, r) ==
    /\ ~Locked(p)
    /\ current[p] # None
    /\ LET c == current[p]
       IN /\ HasIdentity(c, b, g)
          /\ c.state \in {"preparing", "active", "retiring"}
          /\ ~(c.state = "preparing" /\ c.xfer # None)
          /\ d = "complete" => c.state # "preparing" /\ r # 0
          /\ c.state = "retiring" => c.why = d
          /\ c.state = "active" => snap[p][b] # None
          /\ r = Evidence(p, c)

\* The journal entry: it must be on disk before the evidence moves.
Journalled_TooLate(c, d, r) == c
Journalled_CloseState(c, d, r) ==
    [c EXCEPT !.state = "retiring", !.rev = r, !.retry = r,
              !.why = IF d = "abandoned" THEN "retired" ELSE d]
Journalled(c, d, r) ==
    [c EXCEPT !.state = "retiring", !.why = d, !.rev = r, !.retry = r]

RetireJournal(s, p, b, g, d, r) ==
    /\ op[s] = None
    /\ CanRetire(p, b, g, d, r)
    /\ current' = [current EXCEPT ![p] = Journalled(@, d, r)]
    /\ Enter(s, p, "archive")
    /\ UNCHANGED <<generation, history, closure, snap, arch, loc, acked>>

RetireArchive(s, p) ==
    /\ Holds(s, p, "archive")
    /\ arch' = arch \cup {ArchiveOf(p, current[p])}
    /\ GoTo(s, "move")
    /\ UNCHANGED <<generation, current, history, closure, snap, loc, acked>>

RetireMove(s, p) ==
    /\ Holds(s, p, "move")
    /\ snap' = [snap EXCEPT ![p][current[p].build] = None]
    /\ GoTo(s, "release")
    /\ UNCHANGED <<generation, current, history, closure, arch, loc, acked>>

Ended(c) == [c EXCEPT !.state = c.why]

\* `close' is the plan closure the caller asked for together with the
\* retirement: none for `state supersede', the close verbs' own otherwise.
RetireRelease(s, p) ==
    /\ Holds(s, p, "release")
    /\ LET c == current[p]
       IN /\ history' = [history EXCEPT ![p] = @ \cup {Ended(c)}]
          /\ closure' = [closure EXCEPT ![p] = CASE c.why = "superseded" -> @
                                                     [] c.why = "abandoned" -> "retired"
                                                     [] c.why = "complete" -> "complete"]
    /\ current' = [current EXCEPT ![p] = None]
    /\ Leave(s)
    /\ UNCHANGED <<generation, snap, arch, loc, acked>>

\* A retry at revision 0 of a retirement whose evidence was already renamed is
\* refused, but only after it journalled that 0 as the revision to retry with.
Misrecorded(c) == [c EXCEPT !.retry = 0]

RetireRefused(p, b, g, d) ==
    /\ ~Locked(p)
    /\ current[p] # None
    /\ LET c == current[p]
       IN /\ HasIdentity(c, b, g) /\ c.state = "retiring"
          /\ c.why = d /\ d # "complete"
          /\ c.rev # 0 /\ snap[p][b] = None
          /\ current' = [current EXCEPT ![p] = Misrecorded(@)]
    /\ UNCHANGED <<generation, history, closure, snap, arch, loc, op, acked>>

\* Closing a plan that owns no Build: one record write.  A plan that ever held
\* a lease completes only through its merged Build's retirement.
\* The unlocked read that routed the caller here is made again in the mutator.
Unbound_Stale(p) == TRUE
Unbound(p) == current[p] = None

ClosePlan(p, how) ==
    /\ ~Locked(p)
    /\ Open(p) /\ Unbound(p)
    /\ how = "complete" => generation[p] = 0
    /\ closure' = [closure EXCEPT ![p] = how]
    /\ UNCHANGED <<generation, current, history, snap, arch, loc, op, acked>>

\* The process dies, or a durable write raises after its rename is visible.
Crash(s) ==
    /\ op[s] # None
    /\ Leave(s)
    /\ UNCHANGED <<generation, current, history, closure, snap, arch, loc, acked>>

-----------------------------------------------------------------------------
Finish(s, p) == FinishSnapshot(s, p) \/ FinishLocator(s, p) \/ FinishActivate(s, p)

Retire(s, p) ==
    \/ \E b \in Builds, g \in Gens, d \in Decisions, r \in Revs :
          RetireJournal(s, p, b, g, d, r)
    \/ RetireArchive(s, p) \/ RetireMove(s, p) \/ RetireRelease(s, p)

PlanStep(p) ==
    \/ \E b \in Builds, l \in Locators \cup {None} : Reserve(p, b, l)
    \/ \E b \in Builds, g \in Gens, r \in Revs : Mutate(p, b, g, r)
    \/ \E b \in Builds, g \in Gens, d \in Decisions : RetireRefused(p, b, g, d)
    \/ \E how \in Closures : ClosePlan(p, how)

Next ==
    \/ \E p \in Plans : PlanStep(p)
    \/ \E s \in Sessions, p \in Plans : Finish(s, p) \/ Retire(s, p)
    \/ \E s \in Sessions : Crash(s)

Spec == Init /\ [][Next]_vars

(***************************************************************************)
(* Fairness.  A transaction that is inside its locks runs on; interruptions *)
(* end some day; and a caller keeps retrying a retirement that was         *)
(* journalled, as every refusal of the code tells it to.  The retry needs  *)
(* strong fairness because other transactions lock the plan meanwhile.     *)
(***************************************************************************)
LeaseWrite(s) == \E p \in Plans :
    \/ FinishLocator(s, p) \/ FinishActivate(s, p)
    \/ RetireArchive(s, p) \/ RetireMove(s, p) \/ RetireRelease(s, p)

\* Eventually a transaction only ends by its own last write or refusal.
CrashesEnd == <>[][\A s \in Sessions : Crash(s) => LeaseWrite(s)]_vars

RetryRetirement(p) ==
    /\ current[p] # None /\ current[p].state = "retiring"
    /\ LET c == current[p]
       IN \E s \in Sessions : RetireJournal(s, p, c.build, c.gen, c.why, c.rev)

LeaseFairness ==
    /\ CrashesEnd
    /\ \A s \in Sessions : WF_vars(LeaseWrite(s))
    /\ \A p \in Plans : SF_vars(RetryRetirement(p))

FairSpec == Spec /\ LeaseFairness

-----------------------------------------------------------------------------
(***************************************************************************)
(* Properties.                                                             *)
(***************************************************************************)

\* Every variable holds a value of its type: the shape of the plan record,
\* the files beside it and the transactions in flight.
TypeOK ==
    /\ generation \in [Plans -> 0..MaxGen]
    /\ current \in [Plans -> Claim \cup {None}]
    /\ history \in [Plans -> SUBSET Claim]
    /\ closure \in [Plans -> Closures \cup {None}]
    /\ snap \in [Plans -> [Builds -> Snapshot \cup {None}]]
    /\ arch \in SUBSET Archive
    /\ loc \in [Locators -> Locator \cup {None}]
    /\ op \in [Sessions -> Operation \cup {None}]
    /\ acked \in [Builds -> Revs]

\* A generation names one claim of a plan's ledger, and the current claim holds
\* the newest: what lets _assert_claim fence a stale writer by its identity.
GenerationsAreUnique ==
    \A p \in Plans :
        /\ \A c, d \in Ledger(p) : c.gen = d.gen => c = d
        /\ \A c \in Ledger(p) : c.gen <= generation[p]
        /\ current[p] # None => current[p].gen = generation[p]

\* The evidence of a claim stays where its record says: an active claim has its
\* own snapshot and no archive; once a retirement is journalled the evidence is
\* in the snapshot or the named archive, whichever write came last.
ClaimHasItsEvidence ==
    \A p \in Plans : current[p] # None =>
        LET c == current[p]
            kept == snap[p][c.build] # None /\ snap[p][c.build].gen = c.gen
        IN /\ c.state = "active" => kept
           /\ c.state \in Live =>
                 ~ \E a \in arch : a.plan = p /\ a.build = c.build /\ a.gen = c.gen
           /\ c.state \in Transition /\ c.rev # 0 =>
                 \/ kept /\ snap[p][c.build].rev = c.rev
                 \/ ArchiveOf(p, c) \in arch

\* Claim c of plan p still leads to a revision of its Build that is at least as
\* new as the newest acknowledged.
Retained(p, c) ==
    \/ /\ c = current[p]
       /\ snap[p][c.build] # None
       /\ snap[p][c.build].gen = c.gen /\ snap[p][c.build].rev >= acked[c.build]
    \/ /\ ArchiveOf(p, c) \in arch
       /\ c.why # None /\ c.rev >= acked[c.build]

\* Nothing a caller was told is saved is ever lost: a revision at least as new
\* is in the snapshot of a current claim or in an archive a claim names; and
\* while the Build is live, in its own snapshot.
EvidenceReachable ==
    /\ \A b \in Builds : acked[b] > 0 =>
          \E p \in Plans : \E c \in Ledger(p) : c.build = b /\ Retained(p, c)
    /\ \A p \in Plans : (current[p] # None /\ current[p].state = "active") =>
          /\ snap[p][current[p].build] # None
          /\ snap[p][current[p].build].rev >= acked[current[p].build]

\* No plan is closed underneath a Build it still owns, however the closing
\* verb's unlocked read and a binding interleave.
ClosedPlansOwnNothing == \A p \in Plans : closure[p] # None => current[p] = None

\* A registered locator never leads a resuming session back: it is only ever
\* overwritten by a newer generation, of the same plan or of the same build.
LocatorMovesForward ==
    [][\A l \in Locators : loc[l] # None /\ loc'[l] # loc[l] =>
          /\ loc'[l] # None /\ loc'[l].gen > loc[l].gen
          /\ loc'[l].plan = loc[l].plan \/ loc'[l].build = loc[l].build]_loc

\* A snapshot's revision never goes back while its file exists, and the file
\* disappears only onto an archive holding that very revision: a retry of a
\* binding or a retirement never replaces evidence with its own input.
SnapshotNeverRewound ==
    [][\A p \in Plans, b \in Builds : snap[p][b] # None =>
          \/ snap'[p][b] # None /\ snap'[p][b].rev >= snap[p][b].rev
          \/ [plan |-> p, build |-> b, gen |-> snap[p][b].gen,
              rev |-> snap[p][b].rev] \in arch']_snap

\* A call on plan p that names this identity has an effect.
Obeyed(p, b, g) ==
    \/ \E r \in Revs : Mutate(p, b, g, r)
    \/ \E s \in Sessions, d \in Decisions, r \in Revs : RetireJournal(s, p, b, g, d, r)
    \/ \E d \in Decisions : RetireRefused(p, b, g, d)

\* What has ended stays ended: no ledger entry is changed or dropped, no closure
\* is undone, an ended identity never becomes a plan's current claim again, and
\* no late call that names it, a retry of its retirement or a write, touches the
\* claim that was bound since.
EndedStaysEnded ==
    [][\A p \in Plans :
          /\ history[p] \subseteq history'[p]
          /\ closure[p] # None => closure'[p] = closure[p]
          /\ current'[p] # None =>
                \A c \in history[p] : c.gen < current'[p].gen
          /\ \A c \in history[p] :
                ~Obeyed(p, c.build, c.gen)]_<<history, closure, current, snap>>

\* A journalled retirement is eventually released, whatever crashes interrupt
\* it: every cut of retire_build is retryable.
RetirementCompletes ==
    \A p \in Plans :
        (current[p] # None /\ current[p].state = "retiring") ~> (current[p] = None)

\* What `state where' prints for an interrupted retirement ("retry with these
\* recorded inputs") is a retirement the store accepts.
RecordedInputsRetry ==
    \A p \in Plans :
        (current[p] # None /\ current[p].state = "retiring") =>
            current[p].retry = Evidence(p, current[p])

-----------------------------------------------------------------------------
(***************************************************************************)
(* The inductive invariant: what, beyond the properties themselves, each   *)
(* write of a transaction relies on.  Its conjuncts hold of a plan's own   *)
(* record and files, except IdentityOnce, which spans the library.         *)
(***************************************************************************)

\* A transaction holds its own plan's lock and nothing else, and what it has
\* already written is still there: nobody else can have touched the plan.
Flight(o) ==
    LET p == o.plan
        c == current[p]
    IN /\ o.holds = {p} /\ o.step \in LeaseSteps /\ c # None
       /\ o.step \in {"locator", "activate"} => c.state \in Live /\ snap[p][c.build] # None
       /\ o.step \in {"archive", "move", "release"} => c.state = "retiring"
       /\ o.step \in {"move", "release"} => ArchiveOf(p, c) \in arch
       /\ o.step = "release" => snap[p][c.build] = None

Flights == \A s \in Sessions : op[s] # None => Flight(op[s])

Exclusive ==
    \A s, t \in Sessions :
        (op[s] # None /\ op[t] # None /\ op[s].plan = op[t].plan) => s = t

\* Without adoptions a claim is bound, live, retiring or ended; the decision
\* is recorded from the journal on.
Lifecycle ==
    \A p \in Plans :
        /\ current[p] # None =>
              /\ current[p].state \in Live \cup {"retiring"}
              /\ current[p].why = None <=> current[p].state \in Live
              /\ current[p].xfer = None
              /\ current[p].state = "active" => snap[p][current[p].build] # None
        /\ \A c \in history[p] : c.why # None

Ages ==
    \A p \in Plans :
        /\ current[p] # None =>
              /\ current[p].gen = generation[p]
              /\ \A c \in history[p] : c.gen < generation[p]
        /\ \A c \in history[p] : c.gen <= generation[p]
        /\ \A c, d \in history[p] : c.gen = d.gen => c = d

IdentityOnce ==
    /\ \A p, q \in Plans : \A c \in Ledger(p), d \in Ledger(q) : c.build = d.build => p = q
    /\ \A p \in Plans : current[p] # None =>
          \A c \in history[p] : c.build # current[p].build

\* A snapshot file belongs to the current claim at its address, and is at least
\* as new as anything acknowledged of that Build.
SnapshotsBelong ==
    \A p \in Plans, b \in Builds : snap[p][b] # None =>
        /\ current[p] # None /\ current[p].build = b
        /\ snap[p][b].gen = current[p].gen
        /\ snap[p][b].rev >= acked[b]

\* An archive file is named by an ended claim, or by one that is ending.
ArchivesBelong ==
    \A a \in arch :
        \/ \E c \in history[a.plan] : a = ArchiveOf(a.plan, c)
        \/ /\ current[a.plan] # None /\ current[a.plan].state = "retiring"
           /\ a = ArchiveOf(a.plan, current[a.plan])

\* The evidence of an ending claim is at the journalled revision.
Retirements ==
    \A p \in Plans : (current[p] # None /\ current[p].state = "retiring") =>
        LET c == current[p]
        IN IF snap[p][c.build] # None THEN snap[p][c.build].rev = c.rev
           ELSE c.rev # 0 => ArchiveOf(p, c) \in arch

IInv ==
    /\ TypeOK /\ Flights /\ Exclusive /\ Lifecycle /\ Ages /\ IdentityOnce
    /\ SnapshotsBelong /\ ArchivesBelong /\ Retirements
    /\ EvidenceReachable /\ ClosedPlansOwnNothing

=============================================================================
