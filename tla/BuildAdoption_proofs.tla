-------------------------- MODULE BuildAdoption_proofs --------------------------
(***************************************************************************)
(* Proofs about BuildAdoption, for every library, lineage, set of sessions  *)
(* and bound: a Build has one owner, and an identity names one plan.        *)
(*                                                                         *)
(* Both are about the records of several plans at once.  Every step changes *)
(* the records in one of four ways: a claim is restated under its identity, *)
(* a claim is granted, a claim ends, or nothing changes; each way preserves *)
(* what the records are (Records), and what a transaction in flight needs   *)
(* of them is protected by the locks it holds (Flying, Apart).              *)
(***************************************************************************)
EXTENDS BuildAdoption, BuildLease_proofs

USE DEF Holds, Live, Transition, Decisions, Closures, Gens, Revs, SameIdentity, IsOutgoing, HasIdentity

-----------------------------------------------------------------------------
(***************************************************************************)
(* The inductive invariant.                                                *)
(***************************************************************************)
Typed ==
    /\ generation \in [Plans -> 0..MaxGen]
    /\ current \in [Plans -> Claim \cup {None}]
    /\ history \in [Plans -> SUBSET Claim]
    /\ closure \in [Plans -> Closures \cup {None}]

\* A current claim is outgoing exactly while it transfers, and then to another
\* plan under a newer generation; an ending one has its decision.
Stands(p, c) ==
    /\ c.state \in Live \cup Transition
    /\ c.state = "transferring" <=> IsOutgoing(c)
    /\ IsOutgoing(c) => c.xfer.plan # p /\ c.xfer.gen > c.gen
    /\ c.state = "retiring" => c.why # None

Standing == \A p \in Plans : current[p] # None => Stands(p, current[p])

\* The current claim of a Build is newer than every ended one, on whatever plan.
Newest ==
    \A p, q \in Plans : current[p] # None =>
        \A d \in history[q] : d.build = current[p].build => d.gen < current[p].gen

\* The ended claims of two plans have no identity in common.
EndsApart ==
    \A p, q \in Plans : p # q => \A c \in history[p], d \in history[q] : ~SameIdentity(c, d)

\* What a plan handed over, its successor was granted.
Delivered ==
    \A p \in Plans : \A c \in history[p] : IsOutgoing(c) => generation[c.xfer.plan] >= c.xfer.gen

Records ==
    /\ Typed /\ Ages /\ Standing /\ Newest /\ EndsApart /\ Delivered
    /\ OneOwner /\ ClosedPlansOwnNothing

\* A binding or a retirement in flight.
LeaseFlies(o) ==
    LET c == current[o.plan]
    IN /\ o.holds = {o.plan} /\ c # None
       /\ o.step \in {"locator", "activate"} => c.state \in Live /\ ~(c.state = "preparing" /\ c.xfer # None)
       /\ o.step \notin {"locator", "activate"} => c.state = "retiring"

\* An adoption in flight, from plan o.plan to plan o.to.
AdoptFlies(o) ==
    LET p == o.plan
        q == o.to
    IN /\ o.ask \in Archive /\ o.ask.plan = p /\ q \in Plans \ {p} /\ o.holds = {p, q}
       /\ o.step \in {"a.archive", "a.move", "a.release"} => current[p] # None
       /\ o.step \in {"a.locator", "a.activate"} => current[p] = None
       /\ current[p] # None =>
            /\ current[p].state = "transferring" /\ current[p].xfer.plan = q
            /\ current[p].build = o.ask.build /\ current[p].gen = o.ask.gen
       /\ closure[q] = None
       /\ current[q] = None =>
            o.step = "a.reserve" /\ current[p] # None /\ generation[q] < current[p].xfer.gen
       /\ current[q] # None =>
            /\ current[q].state = "preparing" /\ current[q].build = o.ask.build
            /\ current[q].xfer # None
            /\ current[q].xfer.plan = p /\ current[q].xfer.gen = o.ask.gen
            /\ current[p] # None => current[q].gen = current[p].xfer.gen

Flies(o) == IF o.step \in LeaseSteps THEN LeaseFlies(o) ELSE AdoptFlies(o)

Flying == \A s \in Sessions : op[s] # None => Flies(op[s])

\* No two transactions hold one lock.
Apart ==
    \A s, t \in Sessions :
        s # t /\ op[s] # None /\ op[t] # None => op[s].holds \cap op[t].holds = {}

Transactions == op \in [Sessions -> Operation \cup {None}] /\ Flying /\ Apart

AInv == Records /\ Transactions

-----------------------------------------------------------------------------
(***************************************************************************)
(* How records change.                                                     *)
(***************************************************************************)
LEMMA RecordTypes ==
    ASSUME Typed, NEW p \in Plans
    PROVE  /\ generation[p] \in Int
           /\ current[p] # None => current[p] \in Claim /\ current[p].gen \in Int
           /\ \A c \in history[p] : c \in Claim /\ c.gen \in Int
BY ConstantsOK DEF Typed, Claim

\* A claim names its transfer's plan and generation.
LEMMA OutgoingType ==
    ASSUME NEW c \in Claim, c.xfer # None
    PROVE  c.xfer \in Transfer /\ c.xfer.plan \in Plans /\ c.xfer.gen \in Int /\ c.xfer.gen \in Gens
BY ConstantsOK DEF Claim, Transfer

\* Only a claim that is being handed over shares its Build with another plan's.
LEMMA Alone ==
    ASSUME Records, NEW p \in Plans, NEW q \in Plans \ {p}, current[p] # None, current[q] # None,
           \/ current[p].state \in {"active", "retiring"}
           \/ current[p].state = "preparing" /\ current[p].xfer = None
    PROVE  current[q].build # current[p].build
BY DEF Records, OneOwner

\* Two plans that share a Build: the one hands it over to the other.
LEMMA Shared ==
    ASSUME Records, NEW p \in Plans, NEW q \in Plans \ {p}, current[p] # None, current[q] # None,
           current[p].build = current[q].build, current[p].state = "transferring"
    PROVE  /\ current[p].xfer.plan = q /\ current[p].xfer.gen = current[q].gen
           /\ current[q].state = "preparing" /\ current[q].xfer # None
           /\ current[q].xfer.plan = p /\ current[q].xfer.gen = current[p].gen
BY DEF Records, OneOwner

\* A claim that no other plan shares is restated under its identity.
LEMMA Restated ==
    ASSUME Records, NEW p \in Plans, NEW n \in Claim,
           current[p] # None, n.build = current[p].build, n.gen = current[p].gen, Stands(p, n),
           \A q \in Plans \ {p} : current[q] # None => current[q].build # current[p].build,
           current' = [current EXCEPT ![p] = n], UNCHANGED <<generation, history, closure>>
    PROVE  Records'
<1> USE DEF Records
<1>1. n # None
  BY NoneIsAbsence
<1>2. /\ current'[p] = n
      /\ \A q \in Plans \ {p} : current'[q] = current[q]
      /\ \A q \in Plans : current'[q] # None <=> current[q] # None
      /\ \A q \in Plans : current[q] # None =>
            current'[q].build = current[q].build /\ current'[q].gen = current[q].gen
  BY <1>1 DEF Typed
<1>3. Typed' /\ ClosedPlansOwnNothing'
  BY <1>2 DEF Typed, ClosedPlansOwnNothing
<1>4. Ages' /\ Newest' /\ EndsApart' /\ Delivered'
  BY <1>2 DEF Ages, Newest, EndsApart, Delivered
<1>5. Standing'
  BY <1>2 DEF Standing, Stands
<1>6. OneOwner'
  <2> SUFFICES ASSUME NEW r \in Plans, NEW q \in Plans, r # q, current'[r] # None, current'[q] # None,
                      current'[r].build = current'[q].build
               PROVE  r # p /\ q # p
    BY <1>2 DEF OneOwner
  <2> QED BY <1>2
<1> QED BY <1>3, <1>4, <1>5, <1>6

\* A claim of a new generation is granted, newer than what ended of its Build and,
\* if another plan still holds that, the claim this plan was promised.
LEMMA Granted ==
    ASSUME Records, NEW p \in Plans, NEW n \in Claim,
           current[p] = None, closure[p] = None, n.gen > generation[p], Stands(p, n),
           \A q \in Plans : \A d \in history[q] : d.build = n.build => d.gen < n.gen,
           \A q \in Plans \ {p} : current[q] # None /\ current[q].build = n.build =>
              /\ current[q].state = "transferring" /\ current[q].xfer.plan = p
              /\ current[q].xfer.gen = n.gen
              /\ n.state = "preparing" /\ n.xfer # None
              /\ n.xfer.plan = q /\ n.xfer.gen = current[q].gen,
           current' = [current EXCEPT ![p] = n], generation' = [generation EXCEPT ![p] = n.gen],
           UNCHANGED <<history, closure>>
    PROVE  Records'
<1> USE DEF Records
<1>1. n # None
  BY NoneIsAbsence
<1>2. /\ current'[p] = n /\ generation'[p] = n.gen /\ n.gen \in Int /\ n.gen \in 0..MaxGen
      /\ \A q \in Plans \ {p} : current'[q] = current[q] /\ generation'[q] = generation[q]
      /\ \A q \in Plans : generation[q] \in Int /\ generation'[q] \in Int
      /\ \A q \in Plans : generation'[q] >= generation[q]
  BY ConstantsOK DEF Typed, Claim
<1>3. Typed' /\ ClosedPlansOwnNothing'
  BY <1>2 DEF Typed, ClosedPlansOwnNothing
<1>4. Ages'
  <2>1. \A c \in history[p] : c.gen \in Int /\ c.gen <= generation[p]
    BY RecordTypes DEF Ages
  <2> QED BY <1>1, <1>2, <2>1 DEF Ages
<1>5. Newest' /\ EndsApart'
  BY <1>2 DEF Newest, EndsApart
<1>6. Delivered'
  <2> SUFFICES ASSUME NEW q \in Plans, NEW c \in history[q], IsOutgoing(c)
               PROVE  generation'[c.xfer.plan] >= c.xfer.gen
    BY DEF Delivered
  <2>1. c.xfer.plan \in Plans /\ c.xfer.gen \in Int
    BY RecordTypes, OutgoingType
  <2>2. generation[c.xfer.plan] >= c.xfer.gen
    BY DEF Delivered
  <2> QED BY <1>2, <2>1, <2>2
<1>7. Standing'
  BY <1>2 DEF Standing, Stands
<1>8. OneOwner'
  <2> SUFFICES ASSUME NEW r \in Plans, NEW q \in Plans, r # q, current'[r] # None, current'[q] # None,
                      current'[r].build = current'[q].build
               PROVE  \E from \in {r, q} : \E to \in {r, q} \ {from} :
                         LET o == current'[from]
                             m == current'[to]
                         IN /\ o.state = "transferring" /\ o.xfer.plan = to /\ o.xfer.gen = m.gen
                            /\ m.state = "preparing" /\ m.xfer # None
                            /\ m.xfer.plan = from /\ m.xfer.gen = o.gen
    BY DEF OneOwner
  <2>1. CASE r # p /\ q # p
    BY <1>2, <2>1 DEF OneOwner
  <2>2. CASE r = p
    BY <1>2, <2>2
  <2>3. CASE q = p
    BY <1>2, <2>3
  <2> QED BY <2>1, <2>2, <2>3
<1> QED BY <1>3, <1>4, <1>5, <1>6, <1>7, <1>8

\* A claim ends under its identity; what else there is of its Build is newer.
LEMMA EndedClaim ==
    ASSUME Records, NEW p \in Plans, NEW h \in Claim, NEW how \in Closures \cup {None},
           current[p] # None, h.build = current[p].build, h.gen = current[p].gen,
           IsOutgoing(h) => generation[h.xfer.plan] >= h.xfer.gen,
           \A q \in Plans \ {p} : current[q] # None /\ current[q].build = h.build =>
              current[q].gen > h.gen,
           current' = [current EXCEPT ![p] = None], history' = [history EXCEPT ![p] = @ \cup {h}],
           closure' = [closure EXCEPT ![p] = how], UNCHANGED generation
    PROVE  Records'
<1> USE DEF Records
<1>1. /\ current'[p] = None /\ history'[p] = history[p] \cup {h}
      /\ \A q \in Plans \ {p} : /\ current'[q] = current[q] /\ history'[q] = history[q]
                                /\ closure'[q] = closure[q]
  BY DEF Typed
<1>2. Typed' /\ ClosedPlansOwnNothing'
  BY <1>1 DEF Typed, ClosedPlansOwnNothing
<1>3. /\ h.gen = generation[p] /\ generation[p] \in Int
      /\ \A c \in history[p] : c.gen < h.gen /\ c.gen \in Int
  BY RecordTypes DEF Ages
<1>4. Ages'
  BY <1>1, <1>3 DEF Ages
<1>5. Newest'
  BY <1>1 DEF Newest
<1>6. EndsApart'
  <2>1. ASSUME NEW q \in Plans, NEW d \in history[q] PROVE ~SameIdentity(h, d)
    <3>1. d.build = current[p].build => d.gen < current[p].gen
      BY DEF Newest
    <3> QED BY <1>3, <3>1, RecordTypes
  <2> QED BY <1>1, <2>1 DEF EndsApart
<1>7. Delivered'
  BY <1>1 DEF Delivered
<1>8. Standing' /\ OneOwner'
  BY <1>1 DEF Standing, Stands, OneOwner
<1> QED BY <1>2, <1>4, <1>5, <1>6, <1>7, <1>8

-----------------------------------------------------------------------------
(***************************************************************************)
(* How transactions change: what one needs of the records is about plans   *)
(* it has locked.                                                          *)
(***************************************************************************)

\* The plans outside H are as they were.
Outside(H) == \A p \in Plans \ H : /\ current'[p] = current[p]
                                   /\ generation'[p] = generation[p]
                                   /\ closure'[p] = closure[p]

LEMMA Elsewhere ==
    ASSUME AInv, NEW H \in SUBSET Plans, Outside(H),
           NEW t \in Sessions, op[t] # None, op'[t] = op[t], op[t].holds \cap H = {}
    PROVE  Flies(op[t])'
<1>1. op[t] \in Operation /\ Flies(op[t])
  BY DEF AInv, Transactions, Flying
<1>2. op[t].plan \in Plans /\ op[t].to \in Plans \cup {None}
  BY <1>1 DEF Operation
<1>3. CASE op[t].step \in LeaseSteps
  <2>1. op[t].plan \in Plans \ H
    BY <1>1, <1>2, <1>3 DEF Flies, LeaseFlies
  <2>2. current'[op[t].plan] = current[op[t].plan]
    BY <2>1 DEF Outside
  <2> QED BY <1>1, <1>3, <2>2 DEF Flies, LeaseFlies
<1>4. CASE op[t].step \notin LeaseSteps
  <2>1. op[t].plan \in Plans \ H /\ op[t].to \in Plans \ H
    BY <1>1, <1>2, <1>4 DEF Flies, AdoptFlies
  <2>2. /\ current'[op[t].plan] = current[op[t].plan] /\ current'[op[t].to] = current[op[t].to]
        /\ generation'[op[t].to] = generation[op[t].to] /\ closure'[op[t].to] = closure[op[t].to]
    BY <2>1 DEF Outside
  <2> QED BY <1>1, <1>4, <2>2 DEF Flies, AdoptFlies
<1> QED BY <1>3, <1>4

\* A step of a session within the locks it holds, or now takes.
LEMMA Within ==
    ASSUME AInv, NEW s \in Sessions, NEW x \in Operation \cup {None}, op' = [op EXCEPT ![s] = x],
           NEW H \in SUBSET Plans, Outside(H),
           IF op[s] # None THEN op[s].holds = H ELSE \A p \in H : ~Locked(p),
           op'[s] # None => op'[s].holds = H /\ Flies(op[s])'
    PROVE  Transactions'
<1>1. op \in [Sessions -> Operation \cup {None}] /\ Apart
  BY DEF AInv, Transactions
<1>2. /\ op' \in [Sessions -> Operation \cup {None}]
      /\ \A t \in Sessions \ {s} : op'[t] = op[t]
  BY <1>1
<1>3. ASSUME NEW t \in Sessions \ {s}, op[t] # None PROVE op[t].holds \cap H = {}
  BY <1>1, <1>3 DEF Apart, Locked
<1>4. Flying'
  <2> SUFFICES ASSUME NEW t \in Sessions, op'[t] # None PROVE Flies(op[t])'
    BY DEF Flying
  <2>1. CASE t = s
    BY <2>1
  <2>2. CASE t # s
    BY <1>2, <1>3, <2>2, Elsewhere
  <2> QED BY <2>1, <2>2
<1>5. Apart'
  BY <1>1, <1>2, <1>3 DEF Apart
<1> QED BY <1>2, <1>4, <1>5 DEF Transactions

\* A write of a single step, on plans nobody has locked.
LEMMA Aside ==
    ASSUME AInv, UNCHANGED op, NEW H \in SUBSET Plans, Outside(H), \A p \in H : ~Locked(p)
    PROVE  Transactions'
<1>1. ASSUME NEW t \in Sessions, op[t] # None PROVE op[t].holds \cap H = {}
  BY <1>1 DEF Locked
<1>2. Flying'
  BY <1>1, Elsewhere DEF Flying
<1> QED BY <1>2 DEF AInv, Transactions, Apart

\* Records are about the records alone.
LEMMA SameRecords ==
    ASSUME Records, UNCHANGED <<generation, current, history, closure>>
    PROVE  Records' /\ \A H \in SUBSET Plans : Outside(H)
BY DEF Records, Typed, Ages, Standing, Stands, Newest, EndsApart, Delivered, OneOwner,
   ClosedPlansOwnNothing, Outside

\* The next step of an adoption keeps everything but the step.
LEMMA AtStep ==
    ASSUME NEW o \in Operation, NEW step \in LeaseSteps \cup AdoptSteps
    PROVE  /\ At(o, step) \in Operation /\ At(o, step).step = step
           /\ At(o, step).plan = o.plan /\ At(o, step).holds = o.holds
           /\ At(o, step).to = o.to /\ At(o, step).ask = o.ask
BY DEF Operation, At

\* What a lease transaction of plan p found when it began.
LEMMA LeaseFound ==
    ASSUME AInv, NEW s \in Sessions, NEW p \in Plans, NEW step \in LeaseSteps, Holds(s, p, step)
    PROVE  /\ op[s] \in Operation /\ op[s].holds = {p} /\ LeaseFlies(op[s])
           /\ current[p] # None /\ current[p] \in Claim /\ Stands(p, current[p])
           /\ closure[p] = None
BY DEF AInv, Transactions, Flying, Flies, LeaseFlies, Records, Typed, Standing, ClosedPlansOwnNothing

\* And what it needs of them at its next step.
LEMMA LeaseGoesOn ==
    ASSUME AInv, NEW s \in Sessions, NEW p \in Plans, NEW step \in LeaseSteps, Holds(s, p, step),
           NEW next \in LeaseSteps,
           step \in {"locator", "activate"} <=> next \in {"locator", "activate"},
           GoTo(s, next) \/ Leave(s), UNCHANGED <<generation, current, history, closure>>
    PROVE  AInv'
<1>1. /\ op[s] \in Operation /\ op[s] # None /\ op[s].holds = {p} /\ LeaseFlies(op[s])
      /\ op[s].plan = p /\ op[s].step = step
  BY LeaseFound
<1>2. Records' /\ Outside({p})
  BY SameRecords DEF AInv
<1>3. op \in [Sessions -> Operation \cup {None}]
  BY DEF AInv, Transactions
<1>4. CASE Leave(s)
  BY <1>1, <1>2, <1>3, <1>4, Within DEF Leave, AInv
<1>5. CASE GoTo(s, next)
  <2> DEFINE x == At(op[s], next)
  <2>1. x \in Operation /\ x.step = next /\ x.plan = p /\ x.holds = {p}
    BY <1>1, AtStep
  <2>2. op' = [op EXCEPT ![s] = x] /\ op'[s] = x
    BY <1>3, <1>5 DEF GoTo
  <2> HIDE DEF x
  <2>3. LeaseFlies(op[s])'
    BY <1>1, <2>1, <2>2 DEF LeaseFlies, LeaseSteps
  <2> QED BY <1>1, <1>2, <2>1, <2>2, <2>3, Within DEF Flies, AInv
<1> QED BY <1>4, <1>5

-----------------------------------------------------------------------------
(***************************************************************************)
(* The operations of BuildLease, now beside adoptions.                     *)
(***************************************************************************)

\* A transaction of one plan that begins.
LEMMA LeaseBegins ==
    ASSUME AInv, Records', NEW s \in Sessions, NEW p \in Plans, NEW step \in LeaseSteps,
           op[s] = None, ~Locked(p), Enter(s, p, step), Outside({p}), current'[p] # None,
           IF step \in {"locator", "activate"}
           THEN current'[p].state \in Live /\ ~(current'[p].state = "preparing" /\ current'[p].xfer # None)
           ELSE current'[p].state = "retiring"
    PROVE  AInv'
<1> DEFINE x == [step |-> step, plan |-> p, holds |-> {p}, to |-> None, ask |-> None]
<1>1. x \in Operation /\ x.step = step /\ x.plan = p /\ x.holds = {p}
  BY DEF Operation
<1>2. op' = [op EXCEPT ![s] = x] /\ op'[s] = x
  BY DEF Enter, AInv, Transactions
<1> HIDE DEF x
<1>3. Flies(op[s])'
  BY <1>1, <1>2 DEF Flies, LeaseFlies
<1> QED BY <1>1, <1>2, <1>3, Within DEF AInv

\* A transaction that ends, whatever it still held.
LEMMA Leaves ==
    ASSUME AInv, Records', NEW s \in Sessions, op[s] # None, Leave(s), Outside(op[s].holds)
    PROVE  AInv'
<1>1. op' = [op EXCEPT ![s] = None] /\ op'[s] = None /\ op[s].holds \in SUBSET Plans
  BY DEF Leave, AInv, Transactions, Operation
<1> QED BY <1>1, Within DEF AInv

LEMMA AReserve ==
    ASSUME AInv, NEW p \in Plans, NEW b \in Builds, NEW l \in Locators \cup {None}, Reserve(p, b, l)
    PROVE  AInv'
<1> DEFINE n == [build |-> b, gen |-> NextGen(p), state |-> "preparing", loc |-> l,
                 why |-> None, rev |-> 0, retry |-> 0, xfer |-> None]
<1> USE DEF AInv, Records
<1>1. generation[p] \in 0..MaxGen /\ NextGen(p) \in 1..MaxGen /\ NextGen(p) > generation[p]
  BY ConstantsOK DEF Reserve, NextGen, Typed
<1>2. n \in Claim /\ n.build = b /\ n.gen = NextGen(p) /\ n.state = "preparing" /\ n.xfer = None
  BY <1>1, ConstantsOK DEF Claim
<1>3. current' = [current EXCEPT ![p] = n] /\ generation' = [generation EXCEPT ![p] = n.gen]
      /\ current[p] = None /\ closure[p] = None
      /\ ~Locked(p) /\ UNCHANGED <<history, closure, op>>
  BY DEF Reserve, Open
<1> HIDE DEF n
<1>4. /\ \A q \in Plans : \A d \in history[q] : d.build # n.build
      /\ \A q \in Plans : current[q] # None => current[q].build # n.build
  BY <1>2 DEF Reserve, Minted, Ledger
<1>5. Stands(p, n)
  BY <1>2 DEF Stands
<1>6. Records'
  BY <1>1, <1>2, <1>3, <1>4, <1>5, Granted
<1>7. Outside({p})
  BY <1>3 DEF Outside, Typed
<1> QED BY <1>3, <1>6, <1>7, Aside

LEMMA AFinishSnapshot ==
    ASSUME AInv, NEW s \in Sessions, NEW p \in Plans, FinishSnapshot(s, p)
    PROVE  AInv'
<1>1. Records' /\ Outside({p})
  BY SameRecords DEF FinishSnapshot, AInv
<1>2. UNCHANGED current
  BY DEF FinishSnapshot
<1> QED BY <1>1, <1>2, LeaseBegins DEF FinishSnapshot, LeaseSteps

LEMMA AFinishLocator ==
    ASSUME AInv, NEW s \in Sessions, NEW p \in Plans, FinishLocator(s, p)
    PROVE  AInv'
<1>1. GoTo(s, "activate") \/ Leave(s)
  BY DEF FinishLocator
<1> QED BY <1>1, LeaseGoesOn DEF FinishLocator, LeaseSteps

LEMMA AFinishActivate ==
    ASSUME AInv, NEW s \in Sessions, NEW p \in Plans, FinishActivate(s, p)
    PROVE  AInv'
<1> DEFINE n == Activated(current[p])
<1>1. Holds(s, p, "activate") /\ current' = [current EXCEPT ![p] = n] /\ Leave(s)
      /\ UNCHANGED <<generation, history, closure>>
  BY DEF FinishActivate
<1>2. /\ op[s].holds = {p} /\ current[p] # None /\ current[p] \in Claim /\ Stands(p, current[p])
      /\ current[p].state \in Live /\ ~(current[p].state = "preparing" /\ current[p].xfer # None)
  BY <1>1, LeaseFound DEF LeaseFlies, LeaseSteps
<1>3. n \in Claim /\ n.build = current[p].build /\ n.gen = current[p].gen
      /\ n.state = "active" /\ n.xfer = current[p].xfer
  BY <1>2, ActivatedFields DEF SameBuild
<1> HIDE DEF n
<1>4. Stands(p, n)
  BY <1>2, <1>3 DEF Stands
<1>5. Records'
  BY <1>1, <1>2, <1>3, <1>4, Alone, Restated DEF AInv
<1>6. Outside({p})
  BY <1>1 DEF Outside, AInv, Records, Typed
<1> QED BY <1>1, <1>2, <1>5, <1>6, Leaves

LEMMA AMutate ==
    ASSUME AInv, NEW p \in Plans, NEW b \in Builds, NEW g \in Gens, NEW r \in Revs, Mutate(p, b, g, r)
    PROVE  AInv'
<1>1. Records' /\ Outside({}) /\ UNCHANGED op
  BY SameRecords DEF Mutate, AInv
<1> QED BY <1>1, Aside DEF AInv

LEMMA ARetireJournal ==
    ASSUME AInv, NEW s \in Sessions, NEW p \in Plans,
           NEW b \in Builds, NEW g \in Gens, NEW d \in Decisions, NEW r \in Revs,
           RetireJournal(s, p, b, g, d, r)
    PROVE  AInv'
<1> DEFINE n == Journalled(current[p], d, r)
<1>1. /\ current' = [current EXCEPT ![p] = n] /\ op[s] = None /\ ~Locked(p) /\ Enter(s, p, "archive")
      /\ UNCHANGED <<generation, history, closure>>
      /\ current[p] # None /\ current[p].state \in {"preparing", "active", "retiring"}
      /\ ~(current[p].state = "preparing" /\ current[p].xfer # None)
  BY DEF RetireJournal, CanRetire
<1>2. current[p] \in Claim /\ Stands(p, current[p])
  BY <1>1 DEF AInv, Records, Typed, Standing
<1>3. n \in Claim /\ n.build = current[p].build /\ n.gen = current[p].gen
      /\ n.state = "retiring" /\ n.why # None /\ n.xfer = current[p].xfer
  <2>1. d # None
    BY NoneIsAbsence
  <2>2. SameBuild(current[p], n) /\ n.state = "retiring" /\ n.why = d
    BY <1>2, JournalledFields
  <2> QED BY <2>1, <2>2 DEF SameBuild
<1> HIDE DEF n
<1>4. Stands(p, n)
  BY <1>1, <1>2, <1>3 DEF Stands
<1>5. Records'
  BY <1>1, <1>2, <1>3, <1>4, Alone, Restated DEF AInv
<1>6. Outside({p}) /\ current'[p] = n /\ n # None
  BY <1>1, <1>3, NoneIsAbsence DEF Outside, AInv, Records, Typed
<1> QED BY <1>1, <1>3, <1>5, <1>6, LeaseBegins DEF LeaseSteps

LEMMA ARetireArchive ==
    ASSUME AInv, NEW s \in Sessions, NEW p \in Plans, RetireArchive(s, p)
    PROVE  AInv'
BY LeaseGoesOn DEF RetireArchive, LeaseSteps

LEMMA ARetireMove ==
    ASSUME AInv, NEW s \in Sessions, NEW p \in Plans, RetireMove(s, p)
    PROVE  AInv'
BY LeaseGoesOn DEF RetireMove, LeaseSteps

LEMMA ARetireRelease ==
    ASSUME AInv, NEW s \in Sessions, NEW p \in Plans, RetireRelease(s, p)
    PROVE  AInv'
<1> DEFINE c == current[p]
<1> DEFINE h == Ended(c)
<1> DEFINE how == CASE c.why = "superseded" -> closure[p]
                    [] c.why = "abandoned" -> "retired"
                    [] c.why = "complete" -> "complete"
<1>1. /\ Holds(s, p, "release") /\ Leave(s) /\ UNCHANGED generation
      /\ current' = [current EXCEPT ![p] = None] /\ history' = [history EXCEPT ![p] = @ \cup {h}]
      /\ closure' = [closure EXCEPT ![p] = how]
  BY DEF RetireRelease
<1>2. /\ op[s].holds = {p} /\ c # None /\ c \in Claim /\ Stands(p, c) /\ c.state = "retiring"
  BY <1>1, LeaseFound DEF LeaseFlies, LeaseSteps
<1>3. c.why # None /\ c.why \in Decisions /\ ~IsOutgoing(c)
  BY <1>2 DEF Stands, Claim
<1>4. h \in Claim /\ h.build = c.build /\ h.gen = c.gen /\ h.xfer = c.xfer
  BY <1>2, <1>3, EndedFields DEF SameBuild
<1>5. how \in Closures \cup {None}
  <2>1. closure[p] \in Closures \cup {None}
    BY DEF AInv, Records, Typed
  <2>2. c.why \in {"superseded", "abandoned", "complete"}
    BY <1>3
  <2> HIDE DEF c
  <2> QED BY <2>1, <2>2
<1> HIDE DEF h, how
<1>6. Records'
  <2>1. \A q \in Plans \ {p} : current[q] # None /\ current[q].build = h.build =>
          current[q].gen > h.gen
    BY <1>2, <1>4, Alone DEF AInv
  <2>2. IsOutgoing(h) => generation[h.xfer.plan] >= h.xfer.gen
    BY <1>3, <1>4
  <2>3. Records /\ current[p] # None /\ h.build = current[p].build /\ h.gen = current[p].gen
    BY <1>2, <1>4 DEF AInv
  <2> HIDE DEF c
  <2> QED BY <1>1, <1>4, <1>5, <2>1, <2>2, <2>3, EndedClaim
<1>7. Outside({p})
  BY <1>1 DEF Outside, AInv, Records, Typed
<1> QED BY <1>1, <1>2, <1>6, <1>7, Leaves

LEMMA ARetireRefused ==
    ASSUME AInv, NEW p \in Plans, NEW b \in Builds, NEW g \in Gens, NEW d \in Decisions,
           RetireRefused(p, b, g, d)
    PROVE  AInv'
<1> DEFINE n == Misrecorded(current[p])
<1>1. /\ current' = [current EXCEPT ![p] = n] /\ ~Locked(p)
      /\ UNCHANGED <<generation, history, closure, op>>
      /\ current[p] # None /\ current[p].state = "retiring"
  BY DEF RetireRefused
<1>2. current[p] \in Claim /\ Stands(p, current[p])
  BY <1>1 DEF AInv, Records, Typed, Standing
<1>3. n \in Claim /\ n.build = current[p].build /\ n.gen = current[p].gen
      /\ n.state = current[p].state /\ n.why = current[p].why /\ n.xfer = current[p].xfer
  BY <1>2, MisrecordedFields DEF SameBuild
<1> HIDE DEF n
<1>4. Stands(p, n)
  BY <1>2, <1>3 DEF Stands
<1>5. Records'
  BY <1>1, <1>2, <1>3, <1>4, Alone, Restated DEF AInv
<1>6. Outside({p})
  BY <1>1 DEF Outside, AInv, Records, Typed
<1> QED BY <1>1, <1>5, <1>6, Aside DEF AInv

LEMMA AClosePlan ==
    ASSUME AInv, NEW p \in Plans, NEW how \in Closures, ClosePlan(p, how)
    PROVE  AInv'
<1>1. /\ UNCHANGED <<generation, current, history, op>> /\ ~Locked(p) /\ current[p] = None
      /\ closure' = [closure EXCEPT ![p] = how]
  BY DEF ClosePlan, Unbound
<1>2. Records'
  BY <1>1 DEF AInv, Records, Typed, Ages, Standing, Stands, Newest, EndsApart, Delivered, OneOwner,
     ClosedPlansOwnNothing
<1>3. Outside({p})
  BY <1>1 DEF Outside, AInv, Records, Typed
<1> QED BY <1>1, <1>2, <1>3, Aside DEF AInv

LEMMA ACrash ==
    ASSUME AInv, NEW s \in Sessions, Crash(s)
    PROVE  AInv'
<1>1. op[s] # None /\ Leave(s) /\ op[s].holds \in SUBSET Plans
  BY DEF Crash, AInv, Transactions, Operation
<1>2. Records' /\ Outside(op[s].holds)
  BY <1>1, SameRecords DEF Crash, AInv
<1> QED BY <1>1, <1>2, Leaves

-----------------------------------------------------------------------------
(***************************************************************************)
(* Adoption.                                                               *)
(***************************************************************************)

\* The successor's claim is the source's Build, under the generation the journal
\* fixed, and the receipt of where it came from.
LEMMA NewClaimFields ==
    ASSUME NEW o \in Claim, NEW a \in Archive, NEW q \in Plans, IsOutgoing(o),
           NEW n, n = NewClaim(o, a, q)
    PROVE  /\ n \in Claim /\ n.build = o.build /\ n.gen = o.xfer.gen /\ n.state = "preparing"
           /\ n.xfer # None /\ ~IsOutgoing(n) /\ n.xfer.plan = a.plan /\ n.xfer.gen = o.gen
<1>1. o.xfer.gen \in Gens
  BY OutgoingType
<1>2. [dir |-> "in", plan |-> a.plan, gen |-> o.gen, rev |-> a.rev] \in Transfer
  BY DEF Transfer, Archive, Claim
<1>3. 0 \in Revs
  BY ConstantsOK
<1> QED BY <1>1, <1>2, <1>3, NoneIsAbsence DEF NewClaim, Claim

\* A reservation of the transfer is its claim, but for the activation.
LEMMA ReservedFields ==
    ASSUME NEW q \in Plans, NEW n \in Claim, current[q] \in Claim, Reserved(n, q)
    PROVE  /\ current[q].state \in Live
           /\ current[q].build = n.build /\ current[q].gen = n.gen /\ current[q].xfer = n.xfer
BY DEF Reserved, Claim

\* The journalled claim suspends its source and names the successor's generation.
LEMMA SuspendedFields ==
    ASSUME NEW o \in Claim, NEW a \in Archive, NEW q \in Plans, NEW g \in Gens
    PROVE  /\ Suspended(o, a, q, g) \in Claim
           /\ Suspended(o, a, q, g).build = o.build /\ Suspended(o, a, q, g).gen = o.gen
           /\ Suspended(o, a, q, g).state = "transferring" /\ IsOutgoing(Suspended(o, a, q, g))
           /\ Suspended(o, a, q, g).xfer.plan = q /\ Suspended(o, a, q, g).xfer.gen = g
<1>1. [dir |-> "out", plan |-> q, gen |-> g, rev |-> a.rev] \in Transfer
  BY DEF Transfer, Archive
<1> QED BY <1>1, NoneIsAbsence DEF Suspended, Claim, Archive

\* What an adoption in flight has found and written.
LEMMA AdoptFound ==
    ASSUME AInv, NEW s \in Sessions, NEW step \in AdoptSteps, Adopting(s, step)
    PROVE  /\ op[s] \in Operation /\ op[s].step = step /\ AdoptFlies(op[s])
           /\ op[s].plan \in Plans /\ op[s].to \in Plans
BY DEF Adopting, AInv, Transactions, Flying, Flies, AdoptFlies, AdoptSteps, LeaseSteps, Operation

\* An adoption that begins between two plans nobody has locked.
LEMMA AdoptBegins ==
    ASSUME AInv, Records', NEW s \in Sessions, NEW a \in Archive, NEW q \in Plans \ {a.plan},
           op[s] = None, ~Locked(a.plan), ~Locked(q), EnterAdoption(s, a, q, "a.reserve"),
           Outside({a.plan, q}),
           LET x == [step |-> "a.reserve", plan |-> a.plan, holds |-> {a.plan, q}, to |-> q, ask |-> a]
           IN op'[s] = x => AdoptFlies(op[s])'
    PROVE  AInv'
<1> DEFINE x == [step |-> "a.reserve", plan |-> a.plan, holds |-> {a.plan, q}, to |-> q, ask |-> a]
<1>1. a.plan \in Plans
  BY DEF Archive
<1>2. x \in Operation /\ x.step = "a.reserve" /\ x.holds = {a.plan, q}
  BY <1>1 DEF Operation, AdoptSteps
<1>3. op' = [op EXCEPT ![s] = x] /\ op'[s] = x
  BY DEF EnterAdoption, AInv, Transactions
<1>4. Flies(op[s])'
  BY <1>2, <1>3 DEF Flies, LeaseSteps
<1> HIDE DEF x
<1> QED BY <1>1, <1>2, <1>3, <1>4, Within DEF AInv

\* An adoption that goes on, the step it is at then included.
LEMMA AdoptGoesOn ==
    ASSUME AInv, Records', NEW s \in Sessions, NEW step \in AdoptSteps, Adopting(s, step),
           NEW next \in AdoptSteps, GoTo(s, next), Outside(op[s].holds),
           /\ op'[s].step = next /\ op'[s].plan = op[s].plan /\ op'[s].to = op[s].to
           /\ op'[s].ask = op[s].ask /\ op'[s].holds = op[s].holds
           => AdoptFlies(op[s])'
    PROVE  AInv'
<1> DEFINE x == At(op[s], next)
<1>1. op[s] \in Operation /\ op[s] # None /\ op[s].holds \in SUBSET Plans
  BY AdoptFound DEF Adopting, Operation
<1>2. /\ x \in Operation /\ x.step = next /\ x.plan = op[s].plan /\ x.holds = op[s].holds
      /\ x.to = op[s].to /\ x.ask = op[s].ask
  BY <1>1, AtStep
<1>3. op' = [op EXCEPT ![s] = x] /\ op'[s] = x
  BY DEF GoTo, AInv, Transactions
<1> HIDE DEF x
<1>4. Flies(op[s])'
  BY <1>2, <1>3 DEF Flies, LeaseSteps, AdoptSteps
<1> QED BY <1>1, <1>2, <1>3, <1>4, Within DEF AInv

\* The journal, written or found again: the predecessor names this successor, which
\* has its reservation already or can still be granted it.
LEMMA AJournal ==
    ASSUME AInv, NEW p \in Plans, NEW q \in Plans, <<p, q>> \in Lineage,
           NEW a \in Asks(p), NEW s \in Sessions, AdoptJournal(s, a, q)
    PROVE  AInv'
<1> USE DEF AInv, Records
<1>1. p # q /\ a \in Archive /\ a.plan = p
  BY LineageOK DEF Asks, Archive
<1>2. PICK o \in Sources(a) :
         LET n == NewClaim(o, a, q)
         IN /\ Names(o, a, q)
            /\ ~Unavailable(n, q)
            /\ current[q] # None => Reserved(n, q)
            /\ ~(Released(a) /\ current[q] # None /\ current[q].state = "active")
            /\ current' = IF Released(a) \/ IsOutgoing(o) THEN current
                          ELSE [current EXCEPT ![p] = Suspended(o, a, q, n.gen)]
  BY <1>1 DEF AdoptJournal
<1>3. /\ op[s] = None /\ ~Locked(p) /\ ~Locked(q) /\ EnterAdoption(s, a, q, "a.reserve")
      /\ UNCHANGED <<generation, history, closure>>
  BY <1>1 DEF AdoptJournal
<1>4. /\ o \in Claim /\ o.build = a.build /\ o.gen = a.gen /\ closure[q] = None
      /\ Released(a) => o \in history[p]
      /\ ~Released(a) => o = current[p] /\ current[p] # None
  BY <1>1, <1>2 DEF Sources, Released, Names, Unavailable, Open, Typed
<1>5. CASE IsOutgoing(o)
  <2> DEFINE n == NewClaim(o, a, q)
  <2>2. o.xfer.plan = q /\ UNCHANGED current
    BY <1>2, <1>5 DEF Names
  <2>3. /\ n = NewClaim(o, a, q)
        /\ ~Unavailable(n, q) /\ (current[q] # None => Reserved(n, q))
        /\ ~(Released(a) /\ current[q] # None /\ current[q].state = "active")
    BY <1>2
  <2> HIDE DEF n
  <2>1. /\ n \in Claim /\ n.build = o.build /\ n.gen = o.xfer.gen /\ n.state = "preparing"
        /\ n.xfer # None /\ n.xfer.plan = p /\ n.xfer.gen = o.gen
    BY <1>1, <1>4, <1>5, <2>3, NewClaimFields
  <2>0. generation[q] \in Int /\ o.xfer.gen \in Int
    BY <1>4, <1>5, RecordTypes, OutgoingType
  <2>4. ~Released(a) => current[p].state = "transferring"
    BY <1>4, <1>5 DEF Standing, Stands
  <2>5. current[q] = None => generation[q] < o.xfer.gen
    BY <2>0, <2>1, <2>3 DEF Unavailable
  <2>6. current[q] = None => ~Released(a)
    <3> SUFFICES ASSUME current[q] = None, Released(a) PROVE FALSE
      OBVIOUS
    <3>1. generation[q] >= o.xfer.gen
      BY <1>4, <1>5, <2>2 DEF Delivered
    <3> QED BY <2>0, <2>5, <3>1
  <2>7. current[q] # None =>
          /\ current[q].state \in Live /\ current[q].build = n.build
          /\ current[q].gen = n.gen /\ current[q].xfer = n.xfer
    BY <2>1, <2>3, ReservedFields DEF Typed
  <2>8. current[q] # None => current[q].state = "preparing"
    <3>1. CASE Released(a)
      BY <2>3, <2>7, <3>1
    <3>2. CASE ~Released(a)
      BY <1>1, <1>4, <2>1, <2>4, <2>7, <3>2, Shared
    <3> QED BY <3>1, <3>2
  <2>9. Records' /\ Outside({p, q})
    BY <1>3, <2>2, SameRecords
  <2>10. ASSUME op'[s] = [step |-> "a.reserve", plan |-> a.plan, holds |-> {a.plan, q},
                          to |-> q, ask |-> a]
         PROVE  AdoptFlies(op[s])'
    BY <1>1, <1>3, <1>4, <2>1, <2>2, <2>4, <2>5, <2>6, <2>7, <2>8, <2>10
    DEF AdoptFlies, Released
  <2> QED BY <1>1, <1>3, <2>9, <2>10, AdoptBegins
<1>6. CASE ~IsOutgoing(o)
  <2> DEFINE n == NewClaim(o, a, q)
  <2> DEFINE m == Suspended(o, a, q, n.gen)
  <2>1. /\ ~Released(a) /\ o = current[p] /\ current[p] # None /\ current[q] = None
        /\ o.state \in {"active", "transferring"}
        /\ AdoptedGen(o, q) <= MaxGen
    BY <1>2, <1>4, <1>6 DEF Names
  <2>2. o.state = "active"
    BY <1>6, <2>1 DEF Standing, Stands
  <2>3. n.gen = AdoptedGen(o, q)
    BY <1>6 DEF NewClaim
  <2>4. AdoptedGen(o, q) \in Gens /\ AdoptedGen(o, q) > o.gen /\ AdoptedGen(o, q) > generation[q]
    BY <1>4, <2>1, RecordTypes, ConstantsOK DEF AdoptedGen, Claim, Typed
  <2>5. /\ m \in Claim /\ m.build = o.build /\ m.gen = o.gen /\ m.state = "transferring"
        /\ IsOutgoing(m) /\ m.xfer.plan = q /\ m.xfer.gen = AdoptedGen(o, q)
    BY <1>1, <1>4, <2>3, <2>4, SuspendedFields
  <2>6. current' = [current EXCEPT ![p] = m]
    BY <1>2, <1>6, <2>1
  <2> HIDE DEF n, m
  <2>7. Stands(p, m)
    BY <1>1, <2>4, <2>5 DEF Stands
  <2>8. Records'
    BY <1>3, <2>1, <2>2, <2>5, <2>6, <2>7, Alone, Restated
  <2>9. current'[p] = m /\ m # None /\ current'[q] = None /\ Outside({p, q})
    BY <1>1, <1>3, <2>1, <2>5, <2>6, NoneIsAbsence DEF Outside, Typed
  <2>10. ASSUME op'[s] = [step |-> "a.reserve", plan |-> a.plan, holds |-> {a.plan, q},
                          to |-> q, ask |-> a]
         PROVE  AdoptFlies(op[s])'
    BY <1>1, <1>3, <1>4, <2>1, <2>4, <2>5, <2>9, <2>10 DEF AdoptFlies
  <2> QED BY <1>1, <1>3, <2>8, <2>9, <2>10, AdoptBegins
<1> QED BY <1>5, <1>6

\* A journalled successor that went to somebody else holds nothing of the source's
\* Build, and nobody else was promised it.
LEMMA Unpromised ==
    ASSUME Records, NEW p \in Plans, NEW q \in Plans, <<p, q>> \in Lineage,
           NEW a \in Asks(p), AdoptRestore(a, q)
    PROVE  /\ a \in Archive /\ a.plan = p /\ p # q
           /\ current[p] # None /\ current[p] \in Claim /\ current[p].state = "transferring"
           /\ current[p].build = a.build /\ current[p].xfer.plan = q
           /\ \A r \in Plans \ {p} : current[r] # None => current[r].build # current[p].build
<1> USE DEF Records
<1> DEFINE o == current[p]
<1> DEFINE n == NewClaim(o, a, q)
<1>1. p # q /\ a \in Archive /\ a.plan = p
  BY LineageOK DEF Asks, Archive
<1>2. o # None /\ IsOutgoing(o) /\ Names(o, a, q) /\ Unavailable(n, q)
  BY <1>1 DEF AdoptRestore
<1>3. o \in Claim /\ o.state = "transferring" /\ o.xfer.plan = q /\ o.build = a.build
  BY <1>2 DEF Typed, Standing, Stands, Names
<1>4. n.build = o.build /\ n.gen = o.xfer.gen
  <2>1. n = NewClaim(o, a, q)
    OBVIOUS
  <2> HIDE DEF o, n
  <2> QED BY <1>1, <1>2, <1>3, <2>1, NewClaimFields
<1>5. ASSUME NEW r \in Plans \ {p}, current[r] # None, current[r].build = o.build
      PROVE  FALSE
  <2>1. r = q /\ current[q].gen = n.gen /\ current[q].build = n.build
    BY <1>2, <1>3, <1>4, <1>5, Shared
  <2>2. closure[q] = None
    BY <1>5, <2>1 DEF ClosedPlansOwnNothing
  <2> HIDE DEF n
  <2> QED BY <1>2, <1>5, <2>1, <2>2 DEF Unavailable, Open
<1> QED BY <1>1, <1>2, <1>3, <1>5

\* The source is writable again as it was before the journal.
Restored(o) == [o EXCEPT !.state = "active", !.why = None, !.rev = 0, !.xfer = None]

LEMMA RestoredFields ==
    ASSUME NEW o \in Claim
    PROVE  /\ Restored(o) \in Claim /\ Restored(o).build = o.build /\ Restored(o).gen = o.gen
           /\ Restored(o).state = "active" /\ Restored(o).xfer = None
<1>1. 0 \in Revs
  BY ConstantsOK
<1> QED BY <1>1 DEF Restored, Claim

LEMMA ARestore ==
    ASSUME AInv, NEW p \in Plans, NEW q \in Plans, <<p, q>> \in Lineage,
           NEW a \in Asks(p), AdoptRestore(a, q)
    PROVE  AInv'
<1> USE DEF AInv, Records
<1> DEFINE m == Restored(current[p])
<1>1. /\ a.plan = p /\ current[p] # None /\ current[p] \in Claim
      /\ \A r \in Plans \ {p} : current[r] # None => current[r].build # current[p].build
  BY Unpromised
<1>2. ~Locked(p) /\ current' = [current EXCEPT ![p] = m] /\ UNCHANGED <<generation, history, closure, op>>
  BY <1>1 DEF AdoptRestore, Restored
<1>3. m \in Claim /\ m.build = current[p].build /\ m.gen = current[p].gen
      /\ m.state = "active" /\ m.xfer = None
  BY <1>1, RestoredFields
<1> HIDE DEF m
<1>4. Stands(p, m)
  BY <1>3 DEF Stands
<1>5. Records'
  BY <1>1, <1>2, <1>3, <1>4, Restated
<1>6. Outside({p})
  BY <1>2 DEF Outside, Typed
<1> QED BY <1>2, <1>5, <1>6, Aside

\* A repeated call writes the locator at most.
LEMMA ARepeat ==
    ASSUME AInv, NEW a, NEW q, AdoptRepeat(a, q)
    PROVE  AInv'
<1>1. Records' /\ Outside({}) /\ UNCHANGED op
  BY SameRecords DEF AdoptRepeat, AInv
<1> QED BY <1>1, Aside DEF AInv

\* The successor is reserved under the generation the journal named, unless it is.
LEMMA AAdoptReserve ==
    ASSUME AInv, NEW s \in Sessions, AdoptReserve(s)
    PROVE  AInv'
<1> DEFINE a == op[s].ask
<1> DEFINE p == op[s].plan
<1> DEFINE q == op[s].to
<1> DEFINE o == current[p]
<1> DEFINE n == NewClaim(TheSource(a), a, q)
<1>1. /\ Adopting(s, "a.reserve") /\ GoTo(s, "a.snapshot") /\ UNCHANGED <<history, closure>>
      /\ IF current[q] = None
         THEN generation' = [generation EXCEPT ![q] = n.gen] /\ current' = [current EXCEPT ![q] = n]
         ELSE UNCHANGED <<generation, current>>
  BY DEF AdoptReserve
<1>2. p \in Plans /\ q \in Plans /\ AdoptFlies(op[s]) /\ op[s].step = "a.reserve"
  BY <1>1, AdoptFound DEF AdoptSteps
<1>3. p # q /\ a \in Archive /\ a.plan = p /\ op[s].holds = {p, q} /\ closure[q] = None
  BY <1>2 DEF AdoptFlies
<1>4. CASE current[q] # None
  <2>1. Records' /\ Outside({p, q}) /\ UNCHANGED <<generation, current, closure>>
    BY <1>1, <1>2, <1>4, SameRecords DEF AInv
  <2> HIDE DEF a, p, q, n
  <2>2. /\ op'[s].step = "a.snapshot" /\ op'[s].plan = op[s].plan /\ op'[s].to = op[s].to
        /\ op'[s].ask = op[s].ask /\ op'[s].holds = op[s].holds
        => AdoptFlies(op[s])'
    BY <1>2, <1>4, <2>1 DEF AdoptFlies, q
  <2> QED BY <1>1, <1>3, <2>1, <2>2, AdoptGoesOn DEF AdoptSteps
<1>5. CASE current[q] = None
  <2>1. /\ o # None /\ o \in Claim /\ o.state = "transferring" /\ o.xfer.plan = q
        /\ o.build = a.build /\ o.gen = a.gen /\ generation[q] < o.xfer.gen
    BY <1>2, <1>5 DEF AdoptFlies, AInv, Records, Typed
  <2>2. Stands(p, o) /\ IsOutgoing(o) /\ o.xfer.gen > o.gen
    BY <1>2, <2>1 DEF AInv, Records, Standing, Stands
  <2>3. TheSource(a) = o
    BY <1>3, <2>1 DEF TheSource, Sources
  <2>4. n = NewClaim(o, a, q)
    BY <2>3
  <2>5. current' = [current EXCEPT ![q] = n] /\ generation' = [generation EXCEPT ![q] = n.gen]
    BY <1>1, <1>5
  <2> HIDE DEF a, p, q, o, n
  <2>6. /\ n \in Claim /\ n.build = o.build /\ n.gen = o.xfer.gen /\ n.state = "preparing"
        /\ n.xfer # None /\ ~IsOutgoing(n) /\ n.xfer.plan = p /\ n.xfer.gen = o.gen
    BY <1>2, <1>3, <2>1, <2>2, <2>4, NewClaimFields
  <2>7. Stands(q, n)
    BY <2>6 DEF Stands
  <2>8. \A r \in Plans : \A d \in history[r] : d.build = n.build => d.gen < n.gen
    <3> SUFFICES ASSUME NEW r \in Plans, NEW d \in history[r], d.build = n.build PROVE d.gen < n.gen
      OBVIOUS
    <3>1. d.gen < o.gen
      BY <1>2, <2>1, <2>6 DEF AInv, Records, Newest, o
    <3>2. d.gen \in Int /\ o.gen \in Int /\ o.xfer.gen \in Int
      BY <1>2, <2>1, <2>2, RecordTypes, OutgoingType DEF AInv, Records, o
    <3> QED BY <2>2, <2>6, <3>1, <3>2
  <2>9. \A r \in Plans \ {q} : current[r] # None /\ current[r].build = n.build =>
          /\ current[r].state = "transferring" /\ current[r].xfer.plan = q
          /\ current[r].xfer.gen = n.gen
          /\ n.state = "preparing" /\ n.xfer # None
          /\ n.xfer.plan = r /\ n.xfer.gen = current[r].gen
    <3> SUFFICES ASSUME NEW r \in Plans \ {q}, current[r] # None, current[r].build = n.build
                 PROVE  r = p
      BY <2>1, <2>6 DEF o
    <3> QED BY <1>2, <2>1, <2>6, Shared DEF AInv, o
  <2>10. n.gen > generation[q]
    <3>1. o.xfer.gen \in Int /\ generation[q] \in Int
      BY <1>2, <2>1, <2>2, RecordTypes, OutgoingType DEF AInv, Records
    <3> QED BY <2>1, <2>6, <3>1
  <2>11. Records'
    BY <1>1, <1>2, <1>3, <1>5, <2>5, <2>6, <2>7, <2>8, <2>9, <2>10, Granted DEF AInv
  <2>12. /\ current'[p] = o /\ current'[q] = n /\ n # None /\ Outside({p, q})
         /\ closure'[q] = None
    BY <1>1, <1>2, <1>3, <2>5, <2>6, NoneIsAbsence DEF Outside, AInv, Records, Typed, o
  <2>13. /\ op'[s].step = "a.snapshot" /\ op'[s].plan = op[s].plan /\ op'[s].to = op[s].to
         /\ op'[s].ask = op[s].ask /\ op'[s].holds = op[s].holds
         => AdoptFlies(op[s])'
    BY <1>2, <1>3, <2>1, <2>6, <2>12 DEF AdoptFlies, p, q, a
  <2> QED BY <1>1, <1>3, <2>11, <2>12, <2>13, AdoptGoesOn DEF AdoptSteps
<1> QED BY <1>4, <1>5

\* A step of an adoption that leaves the records alone.
LEMMA AdoptWritesFiles ==
    ASSUME AInv, NEW s \in Sessions, NEW step \in AdoptSteps, Adopting(s, step),
           NEW next \in AdoptSteps, GoTo(s, next) \/ Leave(s),
           step \in {"a.archive", "a.move"} => next \in {"a.move", "a.release"},
           step = "a.locator" => next = "a.activate",
           step = "a.snapshot" => next = IF Released(op[s].ask) THEN "a.locator" ELSE "a.archive",
           step \in {"a.snapshot", "a.archive", "a.move", "a.locator"},
           UNCHANGED <<generation, current, history, closure>>
    PROVE  AInv'
<1>1. op[s] # None /\ op[s] \in Operation /\ op[s].step = step /\ AdoptFlies(op[s])
  BY AdoptFound DEF Adopting
<1>2. Records' /\ Outside(op[s].holds)
  BY <1>1, SameRecords DEF AInv, Operation
<1>3. CASE Leave(s)
  BY <1>1, <1>2, <1>3, Leaves
<1>4. CASE GoTo(s, next)
  <2>1. /\ op'[s].step = next /\ op'[s].plan = op[s].plan /\ op'[s].to = op[s].to
        /\ op'[s].ask = op[s].ask /\ op'[s].holds = op[s].holds
        => AdoptFlies(op[s])'
    BY <1>1 DEF AdoptFlies, Released
  <2> QED BY <1>2, <1>4, <2>1, AdoptGoesOn
<1> QED BY <1>3, <1>4

LEMMA AAdoptSnapshot ==
    ASSUME AInv, NEW s \in Sessions, AdoptSnapshot(s)
    PROVE  AInv'
<1> DEFINE next == IF Released(op[s].ask) THEN "a.locator" ELSE "a.archive"
<1>1. next \in AdoptSteps /\ "a.snapshot" \in AdoptSteps
  BY DEF AdoptSteps
<1>2. Adopting(s, "a.snapshot") /\ GoTo(s, next) /\ UNCHANGED <<generation, current, history, closure>>
  BY DEF AdoptSnapshot
<1> QED BY <1>1, <1>2, AdoptWritesFiles

LEMMA AAdoptArchive ==
    ASSUME AInv, NEW s \in Sessions, AdoptArchive(s)
    PROVE  AInv'
BY AdoptWritesFiles DEF AdoptArchive, AdoptSteps

LEMMA AAdoptMove ==
    ASSUME AInv, NEW s \in Sessions, AdoptMove(s)
    PROVE  AInv'
BY AdoptWritesFiles DEF AdoptMove, AdoptSteps

LEMMA AAdoptLocator ==
    ASSUME AInv, NEW s \in Sessions, AdoptLocator(s)
    PROVE  AInv'
<1>1. GoTo(s, "a.activate") \/ Leave(s)
  BY DEF AdoptLocator
<1> QED BY <1>1, AdoptWritesFiles DEF AdoptLocator, AdoptSteps

\* The predecessor's claim ends; the successor holds a newer one of the same Build.
LEMMA AAdoptRelease ==
    ASSUME AInv, NEW s \in Sessions, AdoptRelease(s)
    PROVE  AInv'
<1> DEFINE p == op[s].plan
<1> DEFINE q == op[s].to
<1> DEFINE o == current[p]
<1> DEFINE h == [o EXCEPT !.state = "superseded"]
<1>1. /\ Adopting(s, "a.release") /\ GoTo(s, "a.locator") /\ UNCHANGED generation
      /\ history' = [history EXCEPT ![p] = @ \cup {h}]
      /\ current' = [current EXCEPT ![p] = None]
      /\ closure' = [closure EXCEPT ![p] = "retired"]
  BY DEF AdoptRelease
<1>2. p \in Plans /\ q \in Plans /\ AdoptFlies(op[s]) /\ op[s].step = "a.release"
  BY <1>1, AdoptFound DEF AdoptSteps
<1>3. /\ p # q /\ op[s].holds = {p, q} /\ closure[q] = None
      /\ o # None /\ o.state = "transferring" /\ o.xfer.plan = q
      /\ current[q] # None /\ current[q].gen = o.xfer.gen
  BY <1>2 DEF AdoptFlies
<1>4. o \in Claim /\ Stands(p, o)
  BY <1>2, <1>3 DEF AInv, Records, Typed, Standing
<1>5. h \in Claim /\ h.build = o.build /\ h.gen = o.gen /\ h.xfer = o.xfer
  BY <1>4 DEF Claim
<1>6. generation[q] = o.xfer.gen /\ o.xfer.gen > o.gen /\ o.xfer.gen \in Int
  BY <1>2, <1>3, <1>4, OutgoingType DEF AInv, Records, Ages, Stands
<1> HIDE DEF h
<1>7. \A r \in Plans \ {p} : current[r] # None /\ current[r].build = h.build => current[r].gen > h.gen
  BY <1>2, <1>3, <1>5, <1>6, Shared DEF AInv
<1>8. IsOutgoing(h) => generation[h.xfer.plan] >= h.xfer.gen
  BY <1>3, <1>5, <1>6
<1>9. Records'
  BY <1>1, <1>2, <1>3, <1>5, <1>7, <1>8, EndedClaim DEF AInv
<1>10. /\ current'[p] = None /\ current'[q] = current[q] /\ closure'[q] = None
       /\ Outside({p, q})
  BY <1>1, <1>2, <1>3 DEF Outside, AInv, Records, Typed
<1>11. /\ op'[s].step = "a.locator" /\ op'[s].plan = op[s].plan /\ op'[s].to = op[s].to
       /\ op'[s].ask = op[s].ask /\ op'[s].holds = op[s].holds
       => AdoptFlies(op[s])'
  BY <1>2, <1>3, <1>10 DEF AdoptFlies
<1> QED BY <1>1, <1>3, <1>9, <1>10, <1>11, AdoptGoesOn DEF AdoptSteps

\* The predecessor is released, so the successor's Build is no other plan's.
LEMMA AAdoptActivate ==
    ASSUME AInv, NEW s \in Sessions, AdoptActivate(s)
    PROVE  AInv'
<1> DEFINE p == op[s].plan
<1> DEFINE q == op[s].to
<1> DEFINE n == Activated(current[q])
<1>1. /\ Adopting(s, "a.activate") /\ Leave(s) /\ UNCHANGED <<generation, history, closure>>
      /\ current' = [current EXCEPT ![q] = n]
  BY DEF AdoptActivate
<1>2. op[s] # None /\ p \in Plans /\ q \in Plans /\ AdoptFlies(op[s]) /\ op[s].step = "a.activate"
  BY <1>1, AdoptFound DEF AdoptSteps, Adopting
<1>3. /\ op[s].holds = {p, q} /\ current[p] = None
      /\ current[q] # None /\ current[q].state = "preparing" /\ current[q].xfer.plan = p
  BY <1>2 DEF AdoptFlies
<1>4. current[q] \in Claim /\ Stands(q, current[q])
  BY <1>2, <1>3 DEF AInv, Records, Typed, Standing
<1>5. /\ n \in Claim /\ n.build = current[q].build /\ n.gen = current[q].gen
      /\ n.state = "active" /\ n.xfer = current[q].xfer
  BY <1>4, ActivatedFields DEF SameBuild
<1> HIDE DEF n
<1>6. Stands(q, n)
  BY <1>3, <1>4, <1>5 DEF Stands
<1>7. \A r \in Plans \ {q} : current[r] # None => current[r].build # current[q].build
  BY <1>2, <1>3 DEF AInv, Records, OneOwner
<1>8. Records'
  BY <1>1, <1>2, <1>3, <1>5, <1>6, <1>7, Restated DEF AInv
<1>9. Outside({p, q})
  BY <1>1 DEF Outside, AInv, Records, Typed
<1> QED BY <1>1, <1>2, <1>3, <1>8, <1>9, Leaves

-----------------------------------------------------------------------------
(***************************************************************************)
(* The theorems.                                                           *)
(***************************************************************************)
LEMMA AInvInit == Init => AInv
<1> SUFFICES ASSUME Init PROVE AInv
  OBVIOUS
<1>1. Records
  BY ConstantsOK DEF Init, Records, Typed, Ages, Standing, Newest, EndsApart, Delivered, OneOwner,
     ClosedPlansOwnNothing
<1>2. Transactions
  BY DEF Init, Transactions, Flying, Apart
<1> QED BY <1>1, <1>2 DEF AInv

LEMMA ALeaseNext ==
    ASSUME AInv, Next
    PROVE  AInv'
<1>1. ASSUME NEW p \in Plans, PlanStep(p) PROVE AInv'
  BY <1>1, AReserve, AMutate, ARetireRefused, AClosePlan DEF PlanStep
<1>2. ASSUME NEW s \in Sessions, NEW p \in Plans, Finish(s, p) PROVE AInv'
  BY <1>2, AFinishSnapshot, AFinishLocator, AFinishActivate DEF Finish
<1>3. ASSUME NEW s \in Sessions, NEW p \in Plans, Retire(s, p) PROVE AInv'
  BY <1>3, ARetireJournal, ARetireArchive, ARetireMove, ARetireRelease DEF Retire
<1>4. ASSUME NEW s \in Sessions, Crash(s) PROVE AInv'
  BY <1>4, ACrash
<1> QED BY <1>1, <1>2, <1>3, <1>4 DEF Next

LEMMA AInvNext == AInv /\ [ANext]_vars => AInv'
<1> SUFFICES ASSUME AInv, [ANext]_vars PROVE AInv'
  OBVIOUS
<1>1. CASE Next
  BY <1>1, ALeaseNext
<1>2. ASSUME NEW e \in Lineage, NEW a \in Asks(e[1]),
             \/ AdoptRestore(a, e[2]) \/ AdoptRepeat(a, e[2])
             \/ \E s \in Sessions : AdoptJournal(s, a, e[2])
      PROVE  AInv'
  <2>1. e[1] \in Plans /\ e[2] \in Plans /\ <<e[1], e[2]>> \in Lineage
    BY LineageOK
  <2> QED BY <1>2, <2>1, ARestore, ARepeat, AJournal
<1>3. ASSUME NEW s \in Sessions, AdoptWrite(s) PROVE AInv'
  BY <1>3, AAdoptReserve, AAdoptSnapshot, AAdoptArchive, AAdoptMove, AAdoptRelease,
     AAdoptLocator, AAdoptActivate DEF AdoptWrite
<1>4. CASE UNCHANGED vars
  <2>1. Records' /\ Outside({}) /\ UNCHANGED op
    BY <1>4, SameRecords DEF AInv, vars
  <2> QED BY <2>1, Aside DEF AInv
<1> QED BY <1>1, <1>2, <1>3, <1>4 DEF ANext

\* What the records are and what transactions in flight need of them holds in every
\* state that leases, adoptions, closings and crashes can reach.
THEOREM AdoptionInvariance == ASpec => []AInv
<1>1. Init => AInv
  BY AInvInit
<1>2. AInv /\ [ANext]_vars => AInv'
  BY AInvNext
<1> QED BY <1>1, <1>2, PTL DEF ASpec

\* A Build has two holders only while one hands it to the other, neither writable.
THEOREM OneOwnerAlways == ASpec => []OneOwner
<1>1. AInv => OneOwner
  BY DEF AInv, Records
<1> QED BY <1>1, AdoptionInvariance, PTL

\* Claims of one identity are claims of one plan, current or ended.
LEMMA InvIdentities == AInv => IdentityNamesOnePlan
<1> SUFFICES ASSUME AInv, NEW p \in Plans, NEW q \in Plans, NEW c \in Ledger(p), NEW d \in Ledger(q),
                    SameIdentity(c, d), p # q
             PROVE  FALSE
  BY DEF IdentityNamesOnePlan
<1> USE DEF AInv, Records
<1>1. /\ c \in history[p] \/ (c = current[p] /\ current[p] # None)
      /\ d \in history[q] \/ (d = current[q] /\ current[q] # None)
  BY DEF Ledger
<1>2. c.gen \in Int /\ d.gen \in Int
  BY <1>1, RecordTypes
<1>3. CASE c \in history[p] /\ d \in history[q]
  BY <1>3 DEF EndsApart
<1>4. CASE c \in history[p] /\ d = current[q] /\ current[q] # None
  BY <1>2, <1>4 DEF Newest
<1>5. CASE c = current[p] /\ current[p] # None /\ d \in history[q]
  BY <1>2, <1>5 DEF Newest
<1>6. CASE c = current[p] /\ current[p] # None /\ d = current[q] /\ current[q] # None
  <2>1. ASSUME NEW u \in Plans, NEW v \in Plans \ {u}, current[u] # None, current[v] # None,
               current[u].gen = current[v].gen, current[u].state = "transferring",
               current[u].xfer.gen = current[v].gen
        PROVE  FALSE
    <3>1. Stands(u, current[u]) /\ IsOutgoing(current[u])
      BY <2>1 DEF Standing, Stands
    <3>2. current[u].xfer.gen > current[u].gen /\ current[u].gen \in Int
      BY <2>1, <3>1, RecordTypes DEF Stands
    <3> QED BY <2>1, <3>2
  <2> QED BY <1>6, <2>1 DEF OneOwner
<1> QED BY <1>1, <1>3, <1>4, <1>5, <1>6

\* A caller's identity is found in one plan of the library at most.
THEOREM IdentitiesApart == ASpec => []IdentityNamesOnePlan
<1> QED BY InvIdentities, AdoptionInvariance, PTL

\* Adoption, too, leaves no Build behind in a plan that is closed.
THEOREM ClosedOwnNothingAdopting == ASpec => []ClosedPlansOwnNothing
<1>1. AInv => ClosedPlansOwnNothing
  BY DEF AInv, Records
<1> QED BY <1>1, AdoptionInvariance, PTL
=============================================================================
