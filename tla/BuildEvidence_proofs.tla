-------------------------- MODULE BuildEvidence_proofs --------------------------
(***************************************************************************)
(* Proofs about the files of BuildAdoption, for every library, lineage, set *)
(* of sessions and bound: snapshots, archives and locators stay what the    *)
(* records say while leases, adoptions and crashes interleave; and the whole *)
(* implements BuildOwnership, step by step.                                *)
(*                                                                         *)
(* Every step changes the files and claims in one of seven ways: a claim is *)
(* restated, granted or ended, a snapshot is written, archived or moved     *)
(* away, or nothing of these changes.                                      *)
(***************************************************************************)
EXTENDS BuildAdoption_proofs

USE DEF Holds, Live, Transition, Decisions, Closures, Gens, Revs, SameIdentity, IsOutgoing, HasIdentity

-----------------------------------------------------------------------------
(***************************************************************************)
(* The inductive invariant, beside that of the records.                    *)
(***************************************************************************)
FilesTyped ==
    /\ snap \in [Plans -> [Builds -> Snapshot \cup {None}]]
    /\ arch \in SUBSET Archive
    /\ loc \in [Locators -> Locator \cup {None}]
    /\ acked \in [Builds -> Revs]

\* A snapshot file belongs to the current claim at its address, and nothing
\* acknowledged or archived of its Build is newer.
SnapshotsStand ==
    \A p \in Plans, b \in Builds : snap[p][b] # None =>
        /\ current[p] # None /\ current[p].build = b
        /\ snap[p][b].gen = current[p].gen
        /\ snap[p][b].rev >= acked[b]
        /\ \A a \in arch : a.build = b => a.rev <= snap[p][b].rev

\* An archive file is named by an ended claim, or by one that is ending.
ArchivesStand ==
    \A a \in arch :
        \/ \E c \in history[a.plan] : a = ArchiveOf(a.plan, c)
        \/ /\ current[a.plan] # None /\ current[a.plan].state \in Transition
           /\ a = ArchiveOf(a.plan, current[a.plan])

\* An ended claim has its decision.
EndsDecided == \A p \in Plans : \A c \in history[p] : c.why # None

\* What was acknowledged is in a snapshot or in an archive at least as new.
AckedSaved ==
    \A b \in Builds : acked[b] > 0 =>
        \/ \E p \in Plans : snap[p][b] # None
        \/ \E a \in arch : a.build = b /\ a.rev >= acked[b]

\* Nothing is kept of a Build that was just bound.
Fresh(p, c) ==
    /\ \A a \in arch : a.build # c.build
    /\ snap[p][c.build] = None => acked[c.build] = 0

\* The evidence of an ending claim is at the journalled revision.
Ending(p, c) ==
    IF snap[p][c.build] # None THEN snap[p][c.build].rev = c.rev
    ELSE c.rev # 0 => ArchiveOf(p, c) \in arch

\* A predecessor archives only what its successor has, at the next revision.
Sending(p, c) ==
    LET m == snap[c.xfer.plan][c.build]
    IN /\ c.rev # 0 /\ c.rev < MaxRev /\ c.why = "superseded" /\ c.xfer.rev = c.rev
       /\ ArchiveOf(p, c) \in arch => m # None
       /\ m # None => m.rev = c.rev + 1

\* A successor without a snapshot still has its predecessor.
Coming(p, c) ==
    snap[p][c.build] = None =>
        LET o == current[c.xfer.plan]
        IN o # None /\ o.state = "transferring" /\ o.build = c.build /\ o.xfer.plan = p

Keeps(p, c) ==
    /\ c.state = "active" => snap[p][c.build] # None
    /\ c.state = "preparing" /\ c.xfer = None => Fresh(p, c)
    /\ c.state = "preparing" /\ c.xfer # None => Coming(p, c)
    /\ c.state \in Transition => Ending(p, c)
    /\ c.state = "transferring" => Sending(p, c)

ClaimsKeep == \A p \in Plans : current[p] # None => Keeps(p, current[p])

Files ==
    FilesTyped /\ SnapshotsStand /\ ArchivesStand /\ EndsDecided /\ AckedSaved /\ ClaimsKeep

\* What a transaction in flight has written is there.
LeaseCarries(o) ==
    LET c == current[o.plan]
    IN /\ o.step \in {"locator", "activate"} => snap[o.plan][c.build] # None
       /\ o.step \in {"move", "release"} => ArchiveOf(o.plan, c) \in arch
       /\ o.step = "release" => snap[o.plan][c.build] = None

AdoptCarries(o) ==
    LET p == o.plan
        q == o.to
        a == o.ask
    IN /\ current[p] # None => a.rev = current[p].rev
       /\ current[p] = None => \E c \in history[p] : c.build = a.build /\ c.gen = a.gen
       /\ o.step \notin {"a.reserve", "a.snapshot"} => snap[q][a.build] # None
       /\ o.step \in {"a.move", "a.release"} => a \in arch
       /\ o.step = "a.release" => snap[p][a.build] = None

Carries(o) == IF o.step \in LeaseSteps THEN LeaseCarries(o) ELSE AdoptCarries(o)

Carrying == \A s \in Sessions : op[s] # None => Carries(op[s])

FInv == AInv /\ Files /\ Carrying

-----------------------------------------------------------------------------
(***************************************************************************)
(* The files and claims, by the way they change.                           *)
(***************************************************************************)
LEMMA FileTypes ==
    ASSUME FilesTyped, NEW p \in Plans, NEW b \in Builds
    PROVE  /\ acked[b] \in Int /\ acked[b] >= 0
           /\ snap[p][b] # None => /\ snap[p][b] \in Snapshot /\ snap[p][b].gen \in Gens
                                   /\ snap[p][b].rev \in Revs /\ snap[p][b].rev \in Int
                                   /\ snap[p][b].rev > 0
<1>1. acked[b] \in Revs /\ (snap[p][b] # None => snap[p][b] \in Snapshot)
  <2>1. snap[p] \in [Builds -> Snapshot \cup {None}]
    BY DEF FilesTyped
  <2> QED BY <2>1 DEF FilesTyped
<1>2. ASSUME NEW f \in Snapshot PROVE f.gen \in Gens /\ f.rev \in Revs /\ f.rev # 0
  BY DEF Snapshot
<1>3. \A r \in Revs : r \in Int /\ r >= 0
  BY ConstantsOK
<1> QED BY <1>1, <1>2, <1>3

LEMMA ArchiveTypes ==
    ASSUME FilesTyped, NEW a \in arch
    PROVE  a \in Archive /\ a.plan \in Plans /\ a.build \in Builds /\ a.gen \in Gens /\ a.rev \in Int
<1>1. a \in Archive
  BY DEF FilesTyped
<1>2. \A r \in Revs : r \in Int
  BY ConstantsOK
<1> QED BY <1>1, <1>2 DEF Archive

\* Claims and the names of their archives.
LEMMA ArchiveFields ==
    ASSUME NEW p \in Plans, NEW c \in Claim
    PROVE  /\ ArchiveOf(p, c) \in Archive
           /\ ArchiveOf(p, c).plan = p /\ ArchiveOf(p, c).build = c.build
           /\ ArchiveOf(p, c).gen = c.gen /\ ArchiveOf(p, c).rev = c.rev
           /\ c.build \in Builds /\ c.rev \in Revs /\ c.rev \in Int
<1>1. c.build \in Builds /\ c.gen \in Gens /\ c.rev \in Revs
  BY DEF Claim
<1>2. \A r \in Revs : r \in Int
  BY ConstantsOK
<1> QED BY <1>1, <1>2 DEF ArchiveOf, Archive

\* An archive of a current claim is there only while that is ending.
LEMMA Unarchived ==
    ASSUME Records, FilesTyped, ArchivesStand, NEW p \in Plans, current[p] # None,
           NEW a \in arch, a.plan = p, a.gen = current[p].gen
    PROVE  current[p].state \in Transition /\ a = ArchiveOf(p, current[p])
<1>1. \A c \in history[p] : c.gen < current[p].gen /\ c.gen \in Int
  BY RecordTypes DEF Records, Ages
<1>2. \A c \in history[p] : c \in Claim
  BY RecordTypes DEF Records
<1>3. \A c \in history[p] : a # ArchiveOf(p, c)
  BY <1>1, <1>2, ArchiveFields
<1> QED BY <1>3 DEF ArchivesStand

\* A claim that a step leaves alone keeps what it kept.
LEMMA KeepsAside ==
    ASSUME NEW q \in Plans, current[q] # None, current'[q] = current[q], Keeps(q, current[q]),
           UNCHANGED <<snap, arch>>, acked'[current[q].build] = acked[current[q].build],
           Coming(q, current[q]) /\ current[q].xfer # None => Coming(q, current[q])'
    PROVE  Keeps(q, current[q])'
BY DEF Keeps, Fresh, Ending, Sending, ArchiveOf

\* Nothing of the files and claims changes.
LEMMA SameFiles ==
    ASSUME Files, UNCHANGED <<current, history, snap, arch, acked>>,
           loc' \in [Locators -> Locator \cup {None}]
    PROVE  Files'
<1>1. FilesTyped' /\ SnapshotsStand'
  BY DEF Files, FilesTyped, SnapshotsStand
<1>2. ArchivesStand' /\ EndsDecided' /\ AckedSaved'
  BY DEF Files, ArchivesStand, EndsDecided, AckedSaved, ArchiveOf
<1>3. ClaimsKeep'
  <2> SUFFICES ASSUME NEW q \in Plans, current[q] # None PROVE Keeps(q, current[q])'
    BY DEF ClaimsKeep
  <2>1. Keeps(q, current[q])
    BY DEF Files, ClaimsKeep
  <2>2. Coming(q, current[q]) => Coming(q, current[q])'
    BY DEF Coming
  <2> QED BY <2>1, <2>2, KeepsAside
<1> QED BY <1>1, <1>2, <1>3 DEF Files

\* Revision r of Build b may have been acknowledged.
Told(b, r) == /\ acked' \in [Builds -> Revs]
              /\ \A x \in Builds \ {b} : acked'[x] = acked[x]
              /\ acked'[b] = acked[b] \/ acked'[b] = r

\* A claim that no other plan shares is restated, its evidence in place.
LEMMA RestatedKeeps ==
    ASSUME Records, Files, NEW p \in Plans, NEW n \in Claim,
           current[p] # None, n.build = current[p].build, n.gen = current[p].gen,
           \A q \in Plans \ {p} : current[q] # None => current[q].build # current[p].build,
           current' = [current EXCEPT ![p] = n], UNCHANGED <<history, snap, arch, loc>>,
           \/ UNCHANGED acked
           \/ snap[p][n.build] # None /\ Told(n.build, snap[p][n.build].rev),
           n.state # "preparing", n.state = "active" => snap[p][n.build] # None,
           n.state \in Transition => Ending(p, n),
           n.state = "transferring" => Sending(p, n),
           ArchiveOf(p, current[p]) \in arch /\ current[p].state \in Transition =>
              n.state \in Transition /\ n.rev = current[p].rev
    PROVE  Files'
<1> USE DEF Files
<1>1. /\ current'[p] = n /\ n # None
      /\ \A q \in Plans \ {p} : current'[q] = current[q]
  BY NoneIsAbsence DEF Records, Typed
<1>2. n.build \in Builds /\ current[p] \in Claim
  BY DEF Claim, Records, Typed
<1>3. /\ acked' \in [Builds -> Revs]
      /\ \A b \in Builds \ {n.build} : acked'[b] = acked[b]
      /\ \/ acked'[n.build] = acked[n.build]
         \/ snap[p][n.build] # None /\ acked'[n.build] = snap[p][n.build].rev
  BY <1>2 DEF FilesTyped, Told
<1>4. FilesTyped'
  BY <1>3 DEF FilesTyped
<1>5. SnapshotsStand'
  <2> SUFFICES ASSUME NEW q \in Plans, NEW b \in Builds, snap[q][b] # None
               PROVE  /\ current'[q] # None /\ current'[q].build = b
                      /\ snap[q][b].gen = current'[q].gen
                      /\ snap[q][b].rev >= acked'[b]
    BY DEF SnapshotsStand
  <2>1. /\ current[q] # None /\ current[q].build = b /\ snap[q][b].gen = current[q].gen
        /\ snap[q][b].rev >= acked[b] /\ snap[q][b].rev \in Int
    BY FileTypes DEF SnapshotsStand
  <2>2. CASE q = p
    BY <1>1, <1>2, <1>3, <2>1, <2>2
  <2>3. CASE q # p
    BY <1>1, <1>3, <2>1, <2>3
  <2> QED BY <2>2, <2>3
<1>6. ArchivesStand'
  <2> SUFFICES ASSUME NEW a \in arch
               PROVE  \/ \E c \in history[a.plan] : a = ArchiveOf(a.plan, c)
                      \/ /\ current'[a.plan] # None /\ current'[a.plan].state \in Transition
                         /\ a = ArchiveOf(a.plan, current'[a.plan])
    BY DEF ArchivesStand, ArchiveOf
  <2>1. a.plan \in Plans
    BY ArchiveTypes
  <2>2. CASE a.plan # p
    BY <1>1, <2>1, <2>2 DEF ArchivesStand
  <2>3. CASE a.plan = p
    BY <1>1, <2>3 DEF ArchivesStand, ArchiveOf
  <2> QED BY <2>2, <2>3
<1>7. EndsDecided'
  BY DEF EndsDecided
<1>8. AckedSaved'
  BY <1>2, <1>3 DEF AckedSaved
<1>9. ClaimsKeep'
  <2> SUFFICES ASSUME NEW q \in Plans, current'[q] # None PROVE Keeps(q, current[q])'
    BY DEF ClaimsKeep
  <2>1. CASE q = p
    BY <1>1, <2>1 DEF Keeps, Ending, Sending, ArchiveOf
  <2>2. CASE q # p
    <3>1. /\ current'[q] = current[q] /\ current[q] # None /\ Keeps(q, current[q])
          /\ current[q].build # n.build /\ current[q].build \in Builds
      BY <1>1, <2>2 DEF ClaimsKeep, Records, Typed, Claim
    <3>2. acked'[current[q].build] = acked[current[q].build]
      BY <1>3, <3>1
    <3>3. Coming(q, current[q]) /\ current[q].xfer # None => Coming(q, current[q])'
      <4>1. current[q].xfer # None => current[q].xfer.plan \in Plans
        BY <3>1, OutgoingType DEF Records, Typed
      <4> QED BY <1>1, <3>1, <4>1 DEF Coming
    <3> QED BY <3>1, <3>2, <3>3, KeepsAside
  <2> QED BY <2>1, <2>2
<1> QED BY <1>4, <1>5, <1>6, <1>7, <1>8, <1>9

\* A claim is granted to a plan that has none: freshly bound, or to a successor
\* whose predecessor is waiting for it.
LEMMA GrantedKeeps ==
    ASSUME Records, Files, NEW p \in Plans, NEW n \in Claim, current[p] = None,
           n.state = "preparing",
           n.xfer = None => acked[n.build] = 0 /\ \A a \in arch : a.build # n.build,
           n.xfer # None => LET o == current[n.xfer.plan]
                            IN o # None /\ o.state = "transferring" /\ o.build = n.build /\ o.xfer.plan = p,
           current' = [current EXCEPT ![p] = n], UNCHANGED <<history, snap, arch, loc, acked>>
    PROVE  Files'
<1> USE DEF Files
<1>1. /\ current'[p] = n /\ n # None
      /\ \A q \in Plans \ {p} : current'[q] = current[q]
  BY NoneIsAbsence DEF Records, Typed
<1>2. FilesTyped' /\ EndsDecided' /\ AckedSaved'
  BY DEF FilesTyped, EndsDecided, AckedSaved
<1>3. SnapshotsStand'
  BY <1>1 DEF SnapshotsStand
<1>4. ArchivesStand'
  <2> SUFFICES ASSUME NEW a \in arch
               PROVE  \/ \E c \in history[a.plan] : a = ArchiveOf(a.plan, c)
                      \/ /\ current'[a.plan] # None /\ current'[a.plan].state \in Transition
                         /\ a = ArchiveOf(a.plan, current'[a.plan])
    BY DEF ArchivesStand, ArchiveOf
  <2>1. a.plan \in Plans
    BY ArchiveTypes
  <2> QED BY <1>1, <2>1 DEF ArchivesStand
<1>5. ClaimsKeep'
  <2> SUFFICES ASSUME NEW q \in Plans, current'[q] # None PROVE Keeps(q, current[q])'
    BY DEF ClaimsKeep
  <2>1. CASE q = p
    <3>1. n.xfer # None => n.xfer.plan # p /\ n.xfer.plan \in Plans
      BY OutgoingType
    <3> QED BY <1>1, <2>1, <3>1 DEF Keeps, Fresh, Coming
  <2>2. CASE q # p
    <3>1. current'[q] = current[q] /\ current[q] # None /\ Keeps(q, current[q])
      BY <1>1, <2>2 DEF ClaimsKeep
    <3>2. Coming(q, current[q]) /\ current[q].xfer # None => Coming(q, current[q])'
      <4>1. current[q].xfer # None => current[q].xfer.plan \in Plans
        BY <3>1, OutgoingType DEF Records, Typed
      <4> QED BY <1>1, <3>1, <4>1 DEF Coming
    <3> QED BY <1>1, <3>1, <3>2, KeepsAside
  <2> QED BY <2>1, <2>2
<1> QED BY <1>2, <1>3, <1>4, <1>5

\* A claim ends once its snapshot is out of the way and, when it is handed over,
\* its successor has its own.
LEMMA EndedKeeps ==
    ASSUME Records, Files, NEW p \in Plans, NEW h \in Claim, current[p] # None,
           h.build = current[p].build, h.gen = current[p].gen, h.rev = current[p].rev, h.why # None,
           snap[p][h.build] = None,
           current[p].state = "transferring" => snap[current[p].xfer.plan][h.build] # None,
           current' = [current EXCEPT ![p] = None], history' = [history EXCEPT ![p] = @ \cup {h}],
           UNCHANGED <<snap, arch, loc, acked>>
    PROVE  Files'
<1> USE DEF Files
<1>1. /\ current'[p] = None /\ history'[p] = history[p] \cup {h}
      /\ \A q \in Plans \ {p} : current'[q] = current[q] /\ history'[q] = history[q]
      /\ current[p] \in Claim
  BY DEF Records, Typed
<1>2. FilesTyped' /\ AckedSaved'
  BY DEF FilesTyped, AckedSaved
<1>3. EndsDecided'
  BY <1>1 DEF EndsDecided
<1>4. SnapshotsStand'
  BY <1>1 DEF SnapshotsStand
<1>5. ArchivesStand'
  <2> SUFFICES ASSUME NEW a \in arch
               PROVE  \/ \E c \in history'[a.plan] : a = ArchiveOf(a.plan, c)
                      \/ /\ current'[a.plan] # None /\ current'[a.plan].state \in Transition
                         /\ a = ArchiveOf(a.plan, current'[a.plan])
    BY DEF ArchivesStand, ArchiveOf
  <2>1. a.plan \in Plans
    BY ArchiveTypes
  <2>2. ArchiveOf(p, h) = ArchiveOf(p, current[p])
    BY DEF ArchiveOf
  <2> QED BY <1>1, <2>1, <2>2 DEF ArchivesStand
<1>6. ClaimsKeep'
  <2> SUFFICES ASSUME NEW q \in Plans, current'[q] # None PROVE Keeps(q, current[q])'
    BY DEF ClaimsKeep
  <2>1. q # p /\ current'[q] = current[q] /\ current[q] # None /\ Keeps(q, current[q])
    BY <1>1 DEF ClaimsKeep
  <2>2. Coming(q, current[q]) /\ current[q].xfer # None => Coming(q, current[q])'
    <3>1. current[q].xfer # None => current[q].xfer.plan \in Plans
      BY <2>1, OutgoingType DEF Records, Typed
    <3> QED BY <1>1, <2>1, <3>1 DEF Coming
  <2> QED BY <2>1, <2>2 DEF Keeps, Fresh, Ending, Sending, ArchiveOf
<1> QED BY <1>2, <1>3, <1>4, <1>5, <1>6

\* A live claim's snapshot is written: over the claim's own only by a newer one,
\* by a successor only at the revision after its predecessor's.
LEMMA WrittenKeeps ==
    ASSUME Records, Files, NEW p \in Plans, NEW f \in Snapshot, NEW b \in Builds,
           current[p] # None, current[p].build = b, current[p].state \in Live,
           f.gen = current[p].gen, f.rev >= acked[b],
           \A a \in arch : a.build = b => a.rev <= f.rev,
           \A q \in Plans \ {p} :
              current[q] # None /\ current[q].build = b /\ current[q].state = "transferring" =>
                 f.rev = current[q].rev + 1,
           snap' = [snap EXCEPT ![p][b] = f],
           \/ UNCHANGED acked
           \/ /\ Told(b, f.rev)
              /\ \A q \in Plans \ {p} : current[q] # None => current[q].build # b,
           UNCHANGED <<current, history, arch, loc>>
    PROVE  Files'
<1> USE DEF Files
<1>1. f # None
  BY NoneIsAbsence
<1>2. /\ snap'[p][b] = f
      /\ \A q \in Plans, x \in Builds : q # p \/ x # b => snap'[q][x] = snap[q][x]
      /\ snap' \in [Plans -> [Builds -> Snapshot \cup {None}]]
  BY DEF FilesTyped
<1>3. /\ acked' \in [Builds -> Revs]
      /\ \A x \in Builds \ {b} : acked'[x] = acked[x]
      /\ acked'[b] <= f.rev
      /\ \A q \in Plans \ {p} : current[q] # None /\ current[q].build = b => acked'[b] = acked[b]
  <2>1. f.rev \in Int /\ acked[b] \in Int
    BY ConstantsOK, FileTypes DEF Snapshot
  <2> QED BY <2>1 DEF FilesTyped, Told
<1>4. FilesTyped' /\ EndsDecided'
  BY <1>2, <1>3 DEF FilesTyped, EndsDecided
<1>5. SnapshotsStand'
  <2> SUFFICES ASSUME NEW q \in Plans, NEW x \in Builds, snap'[q][x] # None
               PROVE  /\ current[q] # None /\ current[q].build = x
                      /\ snap'[q][x].gen = current[q].gen
                      /\ snap'[q][x].rev >= acked'[x]
                      /\ \A a \in arch : a.build = x => a.rev <= snap'[q][x].rev
    BY DEF SnapshotsStand
  <2>1. CASE q = p /\ x = b
    <3>1. f.rev \in Int /\ acked'[b] \in Int
      BY <1>3, ConstantsOK DEF Snapshot
    <3> QED BY <1>2, <1>3, <2>1, <3>1
  <2>2. CASE q # p \/ x # b
    <3>1. snap[q][x] # None /\ snap'[q][x] = snap[q][x]
      BY <1>2, <2>2
    <3>2. acked'[x] = acked[x]
      BY <1>3, <2>2, <3>1 DEF SnapshotsStand
    <3> QED BY <3>1, <3>2 DEF SnapshotsStand
  <2> QED BY <2>1, <2>2
<1>6. ArchivesStand'
  BY DEF ArchivesStand, ArchiveOf
<1>7. AckedSaved'
  <2> SUFFICES ASSUME NEW x \in Builds, acked'[x] > 0
               PROVE  \/ \E q \in Plans : snap'[q][x] # None
                      \/ \E a \in arch : a.build = x /\ a.rev >= acked'[x]
    BY DEF AckedSaved
  <2> QED BY <1>1, <1>2, <1>3 DEF AckedSaved
<1>8. ClaimsKeep'
  <2> SUFFICES ASSUME NEW q \in Plans, current[q] # None PROVE Keeps(q, current[q])'
    BY DEF ClaimsKeep
  <2>0. /\ Keeps(q, current[q]) /\ current[q].build \in Builds
        /\ current[q].xfer # None => current[q].xfer.plan \in Plans
    BY OutgoingType DEF ClaimsKeep, Records, Typed, Claim
  <2>1. CASE q = p
    BY <1>1, <1>2, <2>0, <2>1 DEF Keeps, Fresh, Coming
  <2>2. CASE q # p
    <3>1. snap'[q][current[q].build] = snap[q][current[q].build]
      BY <1>2, <2>0, <2>2
    <3>2. Fresh(q, current[q]) => Fresh(q, current[q])'
      BY <1>3, <2>0, <2>2, <3>1 DEF Fresh
    <3>3. Sending(q, current[q]) /\ current[q].state = "transferring" => Sending(q, current[q])'
      <4> SUFFICES ASSUME Sending(q, current[q]), current[q].state = "transferring"
                   PROVE  Sending(q, current[q])'
        OBVIOUS
      <4>1. current[q].xfer # None /\ current[q].xfer.plan \in Plans
        BY <2>0 DEF Records, Standing, Stands
      <4>2. CASE current[q].xfer.plan = p /\ current[q].build = b
        BY <1>1, <1>2, <2>2, <4>2 DEF Sending
      <4>3. CASE current[q].xfer.plan # p \/ current[q].build # b
        BY <1>2, <2>0, <4>1, <4>3 DEF Sending, ArchiveOf
      <4> QED BY <4>2, <4>3
    <3> QED BY <2>0, <3>1, <3>2, <3>3 DEF Keeps, Ending, Coming, ArchiveOf
  <2> QED BY <2>1, <2>2
<1> QED BY <1>4, <1>5, <1>6, <1>7, <1>8

\* The evidence of an ending claim is archived, of a predecessor's only once its
\* successor has it.
LEMMA ArchivedKeeps ==
    ASSUME Records, Files, NEW p \in Plans, current[p] # None, current[p].state \in Transition,
           current[p].state = "transferring" =>
              snap[current[p].xfer.plan][current[p].build] # None,
           arch' = arch \cup {ArchiveOf(p, current[p])},
           UNCHANGED <<current, history, snap, loc, acked>>
    PROVE  Files'
<1> USE DEF Files
<1> DEFINE c == current[p]
<1> DEFINE a == ArchiveOf(p, c)
<1>1. c \in Claim /\ Stands(p, c) /\ Keeps(p, c)
  BY DEF Records, Typed, Standing, ClaimsKeep
<1>2. a \in Archive /\ a.plan = p /\ a.build = c.build /\ a.rev = c.rev /\ c.rev \in Int
  BY <1>1, ArchiveFields
<1>3. a = ArchiveOf(p, c)
  OBVIOUS
<1> HIDE DEF a
<1>4. FilesTyped' /\ EndsDecided' /\ AckedSaved'
  BY <1>2, <1>3 DEF FilesTyped, EndsDecided, AckedSaved
<1>5. SnapshotsStand'
  <2> SUFFICES ASSUME NEW q \in Plans, snap[q][c.build] # None PROVE a.rev <= snap[q][c.build].rev
    BY <1>2, <1>3 DEF SnapshotsStand
  <2>1. c.build \in Builds
    BY <1>1, ArchiveFields
  <2>2. current[q] # None /\ current[q].build = c.build
    BY <2>1 DEF SnapshotsStand
  <2>3. CASE q = p
    BY <1>1, <1>2, <2>3 DEF Keeps, Ending
  <2>4. CASE q # p
    <3>1. c.state = "transferring"
      BY <2>2, <2>4, Alone
    <3>2. c.xfer.plan = q
      BY <2>2, <2>4, <3>1, Shared
    <3> QED BY <1>1, <1>2, <3>1, <3>2 DEF Keeps, Sending
  <2> QED BY <2>3, <2>4
<1>6. ArchivesStand'
  BY <1>2, <1>3 DEF ArchivesStand, ArchiveOf
<1>7. ClaimsKeep'
  <2> SUFFICES ASSUME NEW q \in Plans, current[q] # None PROVE Keeps(q, current[q])'
    BY DEF ClaimsKeep
  <2>1. Keeps(q, current[q]) /\ current[q] \in Claim
    BY DEF ClaimsKeep, Records, Typed
  <2>2. current[q].state = "preparing" /\ current[q].xfer = None => a.build # current[q].build
    BY <1>2, Alone
  <2>3. current[q].state = "transferring" /\ ArchiveOf(q, current[q]) \in arch' =>
          snap[current[q].xfer.plan][current[q].build] # None
    <3>1. ArchiveOf(q, current[q]).plan = q
      BY <2>1, ArchiveFields
    <3>2. ArchiveOf(q, current[q]) = a => q = p
      BY <1>2, <3>1
    <3> QED BY <1>3, <2>1, <3>2 DEF Keeps, Sending
  <2>4. Sending(q, current[q]) /\ current[q].state = "transferring" => Sending(q, current[q])'
    BY <2>3 DEF Sending, ArchiveOf
  <2>5. Ending(q, current[q]) => Ending(q, current[q])'
    BY DEF Ending, ArchiveOf
  <2>6. Fresh(q, current[q]) /\ a.build # current[q].build => Fresh(q, current[q])'
    BY <1>3 DEF Fresh
  <2>7. Coming(q, current[q]) => Coming(q, current[q])'
    BY DEF Coming
  <2> QED BY <2>1, <2>2, <2>4, <2>5, <2>6, <2>7 DEF Keeps
<1> QED BY <1>4, <1>5, <1>6, <1>7

\* The archived snapshot of an ending claim moves away.
LEMMA MovedKeeps ==
    ASSUME Records, Files, NEW p \in Plans, current[p] # None, current[p].state \in Transition,
           ArchiveOf(p, current[p]) \in arch,
           snap' = [snap EXCEPT ![p][current[p].build] = None],
           UNCHANGED <<current, history, arch, loc, acked>>
    PROVE  Files'
<1> USE DEF Files
<1> DEFINE c == current[p]
<1> DEFINE b == c.build
<1>1. c \in Claim /\ Stands(p, c) /\ Keeps(p, c) /\ b \in Builds
  BY ArchiveFields DEF Records, Typed, Standing, ClaimsKeep
<1>2. /\ snap'[p][b] = None
      /\ \A q \in Plans, x \in Builds : q # p \/ x # b => snap'[q][x] = snap[q][x]
      /\ snap' \in [Plans -> [Builds -> Snapshot \cup {None}]]
  BY <1>1 DEF FilesTyped
<1>3. FilesTyped' /\ EndsDecided'
  BY <1>2 DEF FilesTyped, EndsDecided
<1>4. SnapshotsStand'
  BY <1>1, <1>2 DEF SnapshotsStand
<1>5. ArchivesStand'
  BY DEF ArchivesStand, ArchiveOf
<1>6. AckedSaved'
  <2> SUFFICES ASSUME NEW x \in Builds, acked[x] > 0
               PROVE  \/ \E q \in Plans : snap'[q][x] # None
                      \/ \E a \in arch : a.build = x /\ a.rev >= acked[x]
    BY DEF AckedSaved
  <2>1. CASE x = b /\ snap[p][b] # None
    <3>1. snap[p][b].rev = c.rev /\ snap[p][b].rev >= acked[b]
      BY <1>1, <2>1 DEF Keeps, Ending, SnapshotsStand
    <3> QED BY <1>1, <2>1, <3>1, ArchiveFields
  <2>2. CASE ~(x = b /\ snap[p][b] # None)
    BY <1>2, <2>2 DEF AckedSaved
  <2> QED BY <2>1, <2>2
<1>7. ClaimsKeep'
  <2> SUFFICES ASSUME NEW q \in Plans, current[q] # None PROVE Keeps(q, current[q])'
    BY DEF ClaimsKeep
  <2>0. /\ Keeps(q, current[q]) /\ current[q].build \in Builds
        /\ current[q].xfer # None => current[q].xfer.plan \in Plans
    BY OutgoingType DEF ClaimsKeep, Records, Typed, Claim
  <2>3. Sending(q, current[q]) /\ current[q].state = "transferring" => Sending(q, current[q])'
    <3> SUFFICES ASSUME Sending(q, current[q]), current[q].state = "transferring"
                 PROVE  Sending(q, current[q])'
      OBVIOUS
    <3>1. /\ current[q].xfer # None /\ current[q].xfer.plan \in Plans
          /\ current[q].xfer.plan # q
      BY <2>0 DEF Records, Standing, Stands
    <3>2. ~(current[q].xfer.plan = p /\ current[q].build = b)
      BY <3>1, Shared
    <3> QED BY <1>2, <2>0, <3>1, <3>2 DEF Sending, ArchiveOf
  <2>1. CASE q = p
    BY <1>1, <1>2, <2>0, <2>1, <2>3 DEF Keeps, Ending, ArchiveOf
  <2>2. CASE q # p
    <3>1. snap'[q][current[q].build] = snap[q][current[q].build]
      BY <1>2, <2>0, <2>2
    <3> QED BY <2>0, <2>3, <3>1 DEF Keeps, Fresh, Ending, Coming, ArchiveOf
  <2> QED BY <2>1, <2>2
<1> QED BY <1>3, <1>4, <1>5, <1>6, <1>7

-----------------------------------------------------------------------------
(***************************************************************************)
(* Transactions in flight.                                                 *)
(***************************************************************************)

\* The claims and snapshots outside H are as they were; nothing ended or archived
\* is forgotten.
Spares(H) ==
    /\ \A p \in Plans \ H : current'[p] = current[p] /\ snap'[p] = snap[p]
    /\ \A p \in Plans : history[p] \subseteq history'[p]
    /\ arch \subseteq arch'

LEMMA CarriesElsewhere ==
    ASSUME AInv, Carrying, NEW H \in SUBSET Plans, Spares(H),
           NEW t \in Sessions, op[t] # None, op'[t] = op[t], op[t].holds \cap H = {}
    PROVE  Carries(op[t])'
<1>1. op[t] \in Operation /\ Flies(op[t]) /\ Carries(op[t])
  BY DEF AInv, Transactions, Flying, Carrying
<1>2. op[t].plan \in Plans /\ op[t].to \in Plans \cup {None}
  BY <1>1 DEF Operation
<1>3. CASE op[t].step \in LeaseSteps
  <2>1. op[t].plan \in Plans \ H
    BY <1>1, <1>2, <1>3 DEF Flies, LeaseFlies
  <2>2. current'[op[t].plan] = current[op[t].plan] /\ snap'[op[t].plan] = snap[op[t].plan]
    BY <2>1 DEF Spares
  <2> QED BY <1>1, <1>3, <2>2 DEF Carries, LeaseCarries, Spares, ArchiveOf
<1>4. CASE op[t].step \notin LeaseSteps
  <2>1. op[t].plan \in Plans \ H /\ op[t].to \in Plans \ H
    BY <1>1, <1>2, <1>4 DEF Flies, AdoptFlies
  <2>2. /\ current'[op[t].plan] = current[op[t].plan]
        /\ snap'[op[t].plan] = snap[op[t].plan] /\ snap'[op[t].to] = snap[op[t].to]
    BY <2>1 DEF Spares
  <2> QED BY <1>1, <1>4, <2>1, <2>2 DEF Carries, AdoptCarries, Spares
<1> QED BY <1>3, <1>4

\* A step of a session within the locks it holds, or now takes.
LEMMA CarriesWithin ==
    ASSUME AInv, Carrying, NEW s \in Sessions, \A t \in Sessions \ {s} : op'[t] = op[t],
           NEW H \in SUBSET Plans, Spares(H),
           IF op[s] # None THEN op[s].holds = H ELSE \A p \in H : ~Locked(p),
           op'[s] # None => Carries(op[s])'
    PROVE  Carrying'
<1>1. ASSUME NEW t \in Sessions \ {s}, op[t] # None PROVE op[t].holds \cap H = {}
  BY <1>1 DEF AInv, Transactions, Apart, Locked
<1> SUFFICES ASSUME NEW t \in Sessions, op'[t] # None PROVE Carries(op[t])'
  BY DEF Carrying
<1>2. CASE t = s
  BY <1>2
<1>3. CASE t # s
  BY <1>1, <1>3, CarriesElsewhere
<1> QED BY <1>2, <1>3

\* A write of a single step, on plans nobody has locked.
LEMMA CarriesAside ==
    ASSUME AInv, Carrying, UNCHANGED op, NEW H \in SUBSET Plans, Spares(H), \A p \in H : ~Locked(p)
    PROVE  Carrying'
<1>1. ASSUME NEW t \in Sessions, op[t] # None PROVE op[t].holds \cap H = {}
  BY <1>1 DEF Locked
<1> QED BY <1>1, CarriesElsewhere DEF Carrying

\* Only the session that steps changes its transaction.
LEMMA OthersGoOn ==
    ASSUME NEW s \in Sessions, NEW x, op' = [op EXCEPT ![s] = x], AInv
    PROVE  op'[s] = x /\ \A t \in Sessions \ {s} : op'[t] = op[t]
BY DEF AInv, Transactions

\* A transaction that ends, and nothing else.
LEMMA CarriesLeft ==
    ASSUME AInv, Carrying, NEW s \in Sessions, op[s] # None, Leave(s), Spares(op[s].holds)
    PROVE  Carrying'
<1>1. op[s].holds \in SUBSET Plans
  BY DEF AInv, Transactions, Operation
<1>2. op'[s] = None /\ \A t \in Sessions \ {s} : op'[t] = op[t]
  BY OthersGoOn DEF Leave
<1> QED BY <1>1, <1>2, CarriesWithin

-----------------------------------------------------------------------------
(***************************************************************************)
(* The operations of BuildLease.                                           *)
(***************************************************************************)

\* Of a Build nobody has bound there is no file and no claim.
LEMMA Unminted ==
    ASSUME Records, Files, NEW b \in Builds, b \notin Minted
    PROVE  /\ acked[b] = 0
           /\ \A a \in arch : a.build # b
           /\ \A p \in Plans : snap[p][b] = None
           /\ \A p \in Plans : current[p] # None => current[p].build # b
<1>1. \A p \in Plans : \A c \in Ledger(p) : c.build # b
  BY DEF Minted
<1>2. \A p \in Plans : current[p] # None => current[p].build # b
  BY <1>1 DEF Ledger
<1>3. \A p \in Plans : snap[p][b] = None
  BY <1>2 DEF Files, SnapshotsStand
<1>4. ASSUME NEW a \in arch PROVE a.build # b
  <2>1. a.plan \in Plans
    BY ArchiveTypes DEF Files
  <2>2. PICK c \in Ledger(a.plan) : a = ArchiveOf(a.plan, c)
    BY <2>1 DEF Files, ArchivesStand, Ledger
  <2>3. a.build = c.build
    BY <2>2 DEF ArchiveOf
  <2> QED BY <1>1, <2>1, <2>3
<1>5. ~(acked[b] > 0)
  BY <1>3, <1>4 DEF Files, AckedSaved
<1>6. acked[b] \in Int /\ acked[b] >= 0
  BY ConstantsOK DEF Files, FilesTyped
<1> QED BY <1>2, <1>3, <1>4, <1>5, <1>6

LEMMA ToldSo ==
    ASSUME FilesTyped, NEW b \in Builds, NEW r \in Revs, Acknowledge(b, r)
    PROVE  Told(b, r)
BY DEF FilesTyped, Acknowledge, Told

\* Writing a snapshot that is there already is no change.
LEMMA Rewritten ==
    ASSUME FilesTyped, NEW p \in Plans, NEW b \in Builds, snap' = [snap EXCEPT ![p][b] = snap[p][b]]
    PROVE  UNCHANGED snap
<1>1. snap[p] \in [Builds -> Snapshot \cup {None}]
  BY DEF FilesTyped
<1>2. snap' \in [Plans -> [Builds -> Snapshot \cup {None}]]
  BY DEF FilesTyped
<1>3. \A q \in Plans : \A x \in Builds : snap'[q][x] = snap[q][x]
  BY DEF FilesTyped
<1>4. ASSUME NEW q \in Plans PROVE snap'[q] = snap[q]
  <2>1. snap'[q] \in [Builds -> Snapshot \cup {None}] /\ snap[q] \in [Builds -> Snapshot \cup {None}]
    BY <1>2 DEF FilesTyped
  <2> QED BY <1>3, <2>1
<1> QED BY <1>2, <1>4 DEF FilesTyped

\* What a lease transaction found, its files included.
LEMMA LeaseFiles ==
    ASSUME FInv, NEW s \in Sessions, NEW p \in Plans, NEW step \in LeaseSteps, Holds(s, p, step)
    PROVE  /\ op[s] \in Operation /\ op[s].holds = {p} /\ LeaseFlies(op[s]) /\ LeaseCarries(op[s])
           /\ current[p] # None /\ current[p] \in Claim /\ current[p].build \in Builds
           /\ Stands(p, current[p]) /\ Keeps(p, current[p])
BY LeaseFound, ArchiveFields DEF FInv, Carrying, Carries, Files, ClaimsKeep

\* And at its next step, when that finds what it needs.
LEMMA LeaseCarriesOn ==
    ASSUME FInv, NEW s \in Sessions, NEW p \in Plans, NEW step \in LeaseSteps, Holds(s, p, step),
           NEW next \in LeaseSteps, GoTo(s, next), Spares({p}),
           op'[s].plan = p /\ op'[s].step = next => LeaseCarries(op[s])'
    PROVE  Carrying'
<1>1. op[s] \in Operation /\ op[s].holds = {p} /\ op[s].plan = p /\ op[s] # None
  BY LeaseFound DEF FInv
<1>2. op'[s] = At(op[s], next) /\ \A t \in Sessions \ {s} : op'[t] = op[t]
  BY OthersGoOn DEF GoTo, FInv, AInv, Transactions
<1>3. op'[s].plan = p /\ op'[s].step = next
  BY <1>1, <1>2, AtStep
<1>4. Carries(op[s])'
  BY <1>3 DEF Carries
<1> QED BY <1>1, <1>2, <1>4, CarriesWithin DEF FInv

\* A transaction of one plan that begins.
LEMMA LeaseCarriesFirst ==
    ASSUME FInv, NEW s \in Sessions, NEW p \in Plans, NEW step \in {"locator", "archive"},
           op[s] = None, ~Locked(p), Enter(s, p, step), Spares({p}),
           step = "locator" => snap'[p][current'[p].build] # None
    PROVE  Carrying'
<1> DEFINE x == [step |-> step, plan |-> p, holds |-> {p}, to |-> None, ask |-> None]
<1>1. op'[s] = x /\ \A t \in Sessions \ {s} : op'[t] = op[t]
  BY OthersGoOn DEF Enter, FInv
<1>2. x.step = step /\ x.plan = p
  OBVIOUS
<1> HIDE DEF x
<1>3. Carries(op[s])'
  BY <1>1, <1>2 DEF Carries, LeaseCarries, LeaseSteps
<1> QED BY <1>1, <1>3, CarriesWithin DEF FInv

LEMMA FReserve ==
    ASSUME FInv, NEW p \in Plans, NEW b \in Builds, NEW l \in Locators \cup {None}, Reserve(p, b, l)
    PROVE  Files' /\ Carrying'
<1> DEFINE n == [build |-> b, gen |-> NextGen(p), state |-> "preparing", loc |-> l,
                 why |-> None, rev |-> 0, retry |-> 0, xfer |-> None]
<1> USE DEF FInv, AInv
<1>1. generation[p] \in 0..MaxGen /\ NextGen(p) \in 1..MaxGen
  BY ConstantsOK DEF Reserve, NextGen, Records, Typed
<1>2. n \in Claim /\ n.build = b /\ n.state = "preparing" /\ n.xfer = None
  BY <1>1, ConstantsOK DEF Claim
<1>3. /\ current' = [current EXCEPT ![p] = n] /\ current[p] = None /\ b \notin Minted
      /\ ~Locked(p) /\ UNCHANGED <<history, snap, arch, loc, acked, op>>
  BY DEF Reserve
<1> HIDE DEF n
<1>4. Files'
  BY <1>2, <1>3, Unminted, GrantedKeeps
<1>5. Spares({p})
  BY <1>3 DEF Spares, Records, Typed
<1> QED BY <1>3, <1>4, <1>5, CarriesAside

LEMMA FFinishSnapshot ==
    ASSUME FInv, NEW s \in Sessions, NEW p \in Plans, FinishSnapshot(s, p)
    PROVE  Files' /\ Carrying'
<1> USE DEF FInv, AInv, Files
<1> DEFINE c == current[p]
<1> DEFINE b == c.build
<1>1. /\ op[s] = None /\ ~Locked(p) /\ c # None /\ c.state \in Live
      /\ ~(c.state = "preparing" /\ c.xfer # None)
      /\ snap[p][b] = None => c.state = "preparing"
      /\ snap' = [snap EXCEPT ![p][b] = Saved(p, c)] /\ Enter(s, p, "locator")
      /\ UNCHANGED <<current, history, arch, loc, acked>>
  BY DEF FinishSnapshot
<1>2. c \in Claim /\ b \in Builds /\ Keeps(p, c) /\ c.gen \in Gens
  BY <1>1 DEF Records, Typed, ClaimsKeep, Claim
<1>3. Files' /\ snap'[p][b] # None
  <2>1. CASE snap[p][b] # None
    <3>1. UNCHANGED snap
      BY <1>1, <1>2, <2>1, Rewritten DEF Saved
    <3> QED BY <1>1, <2>1, <3>1, SameFiles DEF FilesTyped
  <2>2. CASE snap[p][b] = None
    <3> DEFINE f == [gen |-> c.gen, rev |-> 1]
    <3>1. f \in Snapshot /\ f.gen = c.gen /\ f.rev = 1
      BY <1>2, ConstantsOK DEF Snapshot
    <3>2. snap' = [snap EXCEPT ![p][b] = f]
      BY <1>1, <2>2 DEF Saved
    <3>3. acked[b] = 0 /\ \A a \in arch : a.build # b
      BY <1>1, <1>2, <2>2 DEF Keeps, Fresh
    <3> HIDE DEF f
    <3>4. \A q \in Plans \ {p} : current[q] # None => current[q].build # b
      BY <1>1, <2>2, Alone
    <3>5. Files'
      <4>1. /\ current[p] # None /\ current[p].build = b /\ current[p].state \in Live
            /\ f.gen = current[p].gen /\ f.rev >= acked[b]
            /\ \A a \in arch : a.build = b => a.rev <= f.rev
        BY <1>1, <3>1, <3>3
      <4>2. Records /\ Files /\ b \in Builds /\ UNCHANGED <<current, history, arch, loc, acked>>
        BY <1>1, <1>2
      <4> HIDE DEF b, Files
      <4>3. UNCHANGED acked /\ UNCHANGED <<current, history, arch, loc>>
        BY <4>2
      <4>4. \A q \in Plans \ {p} :
               current[q] # None /\ current[q].build = b /\ current[q].state = "transferring" =>
                  f.rev = current[q].rev + 1
        BY <3>4
      <4> QED BY <3>1, <3>2, <4>1, <4>2, <4>3, <4>4, WrittenKeeps
    <3>6. snap'[p][b] = f /\ f # None
      BY <1>2, <3>1, <3>2, NoneIsAbsence DEF FilesTyped
    <3> QED BY <3>5, <3>6
  <2> QED BY <2>1, <2>2
<1>4. Spares({p})
  BY <1>1 DEF Spares, FilesTyped
<1> QED BY <1>1, <1>3, <1>4, LeaseCarriesFirst

LEMMA FFinishLocator ==
    ASSUME FInv, NEW s \in Sessions, NEW p \in Plans, FinishLocator(s, p)
    PROVE  Files' /\ Carrying'
<1>1. /\ Holds(s, p, "locator") /\ (GoTo(s, "activate") \/ Leave(s))
      /\ UNCHANGED <<current, history, snap, arch, acked>>
  BY DEF FinishLocator
<1>2. /\ current[p] \in Claim /\ LeaseCarries(op[s]) /\ op[s].holds = {p}
      /\ op[s] # None /\ op[s].plan = p /\ op[s].step = "locator"
  BY <1>1, LeaseFiles DEF LeaseSteps
<1>3. Files'
  <2>1. LocatorValue(p, current[p]) \in Locator
    BY <1>2 DEF LocatorValue, Locator, Claim
  <2>2. loc' \in [Locators -> Locator \cup {None}]
    BY <2>1 DEF FinishLocator, FInv, Files, FilesTyped
  <2> QED BY <1>1, <2>2, SameFiles DEF FInv
<1>4. Spares({p})
  BY <1>1 DEF Spares
<1>5. CASE Leave(s)
  BY <1>2, <1>3, <1>4, <1>5, CarriesLeft DEF FInv
<1>6. CASE GoTo(s, "activate")
  <2>1. op'[s].plan = p /\ op'[s].step = "activate" => LeaseCarries(op[s])'
    BY <1>1, <1>2 DEF LeaseCarries
  <2> QED BY <1>1, <1>3, <1>4, <1>6, <2>1, LeaseCarriesOn DEF LeaseSteps
<1> QED BY <1>1, <1>3, <1>5, <1>6

LEMMA FFinishActivate ==
    ASSUME FInv, NEW s \in Sessions, NEW p \in Plans, FinishActivate(s, p)
    PROVE  Files' /\ Carrying'
<1> DEFINE c == current[p]
<1> DEFINE n == Activated(c)
<1>1. /\ Holds(s, p, "activate") /\ current' = [current EXCEPT ![p] = n] /\ Leave(s)
      /\ Acknowledge(c.build, snap[p][c.build].rev)
      /\ UNCHANGED <<history, snap, arch, loc>>
  BY DEF FinishActivate
<1>2. /\ op[s].holds = {p} /\ op[s] # None /\ c # None /\ c \in Claim /\ c.build \in Builds
      /\ c.state \in Live /\ ~(c.state = "preparing" /\ c.xfer # None)
      /\ snap[p][c.build] # None
  BY <1>1, LeaseFiles DEF LeaseFlies, LeaseCarries, LeaseSteps
<1>3. n \in Claim /\ n.build = c.build /\ n.gen = c.gen /\ n.state = "active"
  BY <1>2, ActivatedFields DEF SameBuild
<1>4. Told(c.build, snap[p][c.build].rev)
  BY <1>1, <1>2, FileTypes, ToldSo DEF FInv, Files
<1>5. \A q \in Plans \ {p} : current[q] # None => current[q].build # c.build
  BY <1>2, Alone DEF FInv, AInv
<1> HIDE DEF n
<1>6. Files'
  BY <1>1, <1>2, <1>3, <1>4, <1>5, RestatedKeeps DEF FInv, AInv
<1>7. Spares({p})
  BY <1>1 DEF Spares, FInv, AInv, Records, Typed
<1> QED BY <1>1, <1>2, <1>6, <1>7, CarriesLeft DEF FInv

LEMMA FMutate ==
    ASSUME FInv, NEW p \in Plans, NEW b \in Builds, NEW g \in Gens, NEW r \in Revs, Mutate(p, b, g, r)
    PROVE  Files' /\ Carrying'
<1> DEFINE f == [gen |-> g, rev |-> r + 1]
<1>1. /\ ~Locked(p) /\ current[p] # None /\ current[p].build = b /\ current[p].gen = g
      /\ current[p].state = "active" /\ snap[p][b] # None /\ snap[p][b].rev = r /\ r < MaxRev
      /\ snap' = [snap EXCEPT ![p][b] = f] /\ Acknowledge(b, r + 1)
      /\ UNCHANGED <<current, history, arch, loc, op>>
  BY DEF Mutate
<1>2. f \in Snapshot /\ f.gen = g /\ f.rev = r + 1 /\ r + 1 \in Revs /\ r \in Int
  BY <1>1, ConstantsOK DEF Snapshot
<1>3. Told(b, f.rev)
  BY <1>1, <1>2, ToldSo DEF FInv, Files
<1>4. \A q \in Plans \ {p} : current[q] # None => current[q].build # b
  BY <1>1, Alone DEF FInv, AInv
<1>5. f.rev >= acked[b] /\ \A a \in arch : a.build = b => a.rev <= f.rev
  <2>1. r >= acked[b] /\ \A a \in arch : a.build = b => a.rev <= r
    BY <1>1 DEF FInv, Files, SnapshotsStand
  <2>2. acked[b] \in Int /\ \A a \in arch : a.rev \in Int
    BY FileTypes, ArchiveTypes DEF FInv, Files
  <2> QED BY <1>2, <2>1, <2>2
<1> HIDE DEF f
<1>6. Files'
  <2>1. Records /\ Files
    BY DEF FInv, AInv
  <2>2. /\ f.gen = current[p].gen /\ current[p].state \in Live
        /\ UNCHANGED <<current, history, arch, loc>>
    BY <1>1, <1>2
  <2>3. \A q \in Plans \ {p} :
          current[q] # None /\ current[q].build = b /\ current[q].state = "transferring" =>
             f.rev = current[q].rev + 1
    BY <1>4
  <2>4. current[p] # None /\ current[p].build = b /\ f \in Snapshot /\ snap' = [snap EXCEPT ![p][b] = f]
    BY <1>1, <1>2
  <2> QED BY <1>3, <1>4, <1>5, <2>1, <2>2, <2>3, <2>4, WrittenKeeps
<1>7. Spares({p})
  BY <1>1 DEF Spares, FInv, Files, FilesTyped
<1> QED BY <1>1, <1>6, <1>7, CarriesAside DEF FInv

LEMMA FRetireJournal ==
    ASSUME FInv, NEW s \in Sessions, NEW p \in Plans,
           NEW b \in Builds, NEW g \in Gens, NEW d \in Decisions, NEW r \in Revs,
           RetireJournal(s, p, b, g, d, r)
    PROVE  Files' /\ Carrying'
<1> DEFINE c == current[p]
<1> DEFINE n == Journalled(c, d, r)
<1>1. /\ current' = [current EXCEPT ![p] = n] /\ op[s] = None /\ ~Locked(p) /\ Enter(s, p, "archive")
      /\ UNCHANGED <<history, snap, arch, loc, acked>>
      /\ c # None /\ c.state \in {"preparing", "active", "retiring"}
      /\ ~(c.state = "preparing" /\ c.xfer # None) /\ r = Evidence(p, c)
  BY DEF RetireJournal, CanRetire
<1>2. c \in Claim /\ Keeps(p, c)
  BY <1>1 DEF FInv, AInv, Records, Typed, Files, ClaimsKeep
<1>3. /\ n \in Claim /\ n.build = c.build /\ n.gen = c.gen
      /\ n.state = "retiring" /\ n.rev = r
  BY <1>2, JournalledFields DEF SameBuild
<1> HIDE DEF n
<1>4. c.state = "retiring" => n.rev = c.rev
  BY <1>1, <1>2, <1>3 DEF Evidence, Keeps, Ending
<1>5. Ending(p, n)
  BY <1>1, <1>2, <1>3, <1>4 DEF Evidence, Keeps, Ending, ArchiveOf
<1>6. \A q \in Plans \ {p} : current[q] # None => current[q].build # c.build
  BY <1>1, Alone DEF FInv, AInv
<1>7. Files'
  BY <1>1, <1>3, <1>4, <1>5, <1>6, RestatedKeeps DEF FInv, AInv
<1>8. Spares({p})
  BY <1>1 DEF Spares, FInv, AInv, Records, Typed
<1> QED BY <1>1, <1>7, <1>8, LeaseCarriesFirst

LEMMA FRetireArchive ==
    ASSUME FInv, NEW s \in Sessions, NEW p \in Plans, RetireArchive(s, p)
    PROVE  Files' /\ Carrying'
<1> DEFINE a == ArchiveOf(p, current[p])
<1>1. /\ Holds(s, p, "archive") /\ arch' = arch \cup {a} /\ GoTo(s, "move")
      /\ UNCHANGED <<current, history, snap, loc, acked>>
  BY DEF RetireArchive
<1>2. /\ current[p] # None /\ current[p].state = "retiring"
      /\ op[s].plan = p /\ op[s].step = "archive"
  BY <1>1, LeaseFiles DEF LeaseFlies, LeaseSteps
<1>3. Files'
  BY <1>1, <1>2, ArchivedKeeps DEF FInv, AInv
<1>4. Spares({p})
  BY <1>1 DEF Spares
<1>5. op'[s].plan = p /\ op'[s].step = "move" => LeaseCarries(op[s])'
  BY <1>1 DEF LeaseCarries, ArchiveOf
<1> QED BY <1>1, <1>3, <1>4, <1>5, LeaseCarriesOn DEF LeaseSteps

LEMMA FRetireMove ==
    ASSUME FInv, NEW s \in Sessions, NEW p \in Plans, RetireMove(s, p)
    PROVE  Files' /\ Carrying'
<1>1. /\ Holds(s, p, "move") /\ snap' = [snap EXCEPT ![p][current[p].build] = None]
      /\ GoTo(s, "release") /\ UNCHANGED <<current, history, arch, loc, acked>>
  BY DEF RetireMove
<1>2. /\ current[p] # None /\ current[p].state = "retiring" /\ current[p].build \in Builds
      /\ ArchiveOf(p, current[p]) \in arch /\ op[s].plan = p /\ op[s].step = "move"
  BY <1>1, LeaseFiles DEF LeaseFlies, LeaseCarries, LeaseSteps
<1>3. Files'
  BY <1>1, <1>2, MovedKeeps DEF FInv, AInv
<1>4. Spares({p})
  BY <1>1 DEF Spares, FInv, Files, FilesTyped
<1>5. op'[s].plan = p /\ op'[s].step = "release" => LeaseCarries(op[s])'
  BY <1>1, <1>2 DEF LeaseCarries, ArchiveOf, FInv, Files, FilesTyped
<1> QED BY <1>1, <1>3, <1>4, <1>5, LeaseCarriesOn DEF LeaseSteps

LEMMA FRetireRelease ==
    ASSUME FInv, NEW s \in Sessions, NEW p \in Plans, RetireRelease(s, p)
    PROVE  Files' /\ Carrying'
<1> DEFINE c == current[p]
<1> DEFINE h == Ended(c)
<1>1. /\ Holds(s, p, "release") /\ Leave(s) /\ current' = [current EXCEPT ![p] = None]
      /\ history' = [history EXCEPT ![p] = @ \cup {h}]
      /\ UNCHANGED <<snap, arch, loc, acked>>
  BY DEF RetireRelease
<1>2. /\ op[s] # None /\ op[s].holds = {p} /\ c # None /\ c \in Claim /\ Stands(p, c)
      /\ c.state = "retiring" /\ snap[p][c.build] = None
  BY <1>1, LeaseFiles DEF LeaseFlies, LeaseCarries, LeaseSteps
<1>3. c.why # None
  BY <1>2 DEF Stands
<1>4. h \in Claim /\ h.build = c.build /\ h.gen = c.gen /\ h.rev = c.rev /\ h.why # None
  BY <1>2, <1>3, EndedFields DEF SameBuild
<1> HIDE DEF h
<1>5. Files'
  BY <1>1, <1>2, <1>4, EndedKeeps DEF FInv, AInv
<1>6. Spares({p})
  BY <1>1 DEF Spares, FInv, AInv, Records, Typed
<1> QED BY <1>1, <1>2, <1>5, <1>6, CarriesLeft DEF FInv

LEMMA FRetireRefused ==
    ASSUME FInv, NEW p \in Plans, NEW b \in Builds, NEW g \in Gens, NEW d \in Decisions,
           RetireRefused(p, b, g, d)
    PROVE  Files' /\ Carrying'
<1> DEFINE c == current[p]
<1> DEFINE n == Misrecorded(c)
<1>1. /\ current' = [current EXCEPT ![p] = n] /\ ~Locked(p) /\ c # None /\ c.state = "retiring"
      /\ UNCHANGED <<history, snap, arch, loc, acked, op>>
  BY DEF RetireRefused
<1>2. c \in Claim /\ Keeps(p, c)
  BY <1>1 DEF FInv, AInv, Records, Typed, Files, ClaimsKeep
<1>3. /\ n \in Claim /\ n.build = c.build /\ n.gen = c.gen
      /\ n.state = c.state /\ n.rev = c.rev
  BY <1>2, MisrecordedFields DEF SameBuild
<1> HIDE DEF n
<1>4. Ending(p, n)
  BY <1>1, <1>2, <1>3 DEF Keeps, Ending, ArchiveOf
<1>5. \A q \in Plans \ {p} : current[q] # None => current[q].build # c.build
  BY <1>1, Alone DEF FInv, AInv
<1>6. Files'
  BY <1>1, <1>3, <1>4, <1>5, RestatedKeeps DEF FInv, AInv
<1>7. Spares({p})
  BY <1>1 DEF Spares, FInv, AInv, Records, Typed
<1> QED BY <1>1, <1>6, <1>7, CarriesAside DEF FInv

LEMMA FClosePlan ==
    ASSUME FInv, NEW p \in Plans, NEW how \in Closures, ClosePlan(p, how)
    PROVE  Files' /\ Carrying'
<1>1. UNCHANGED <<current, history, snap, arch, loc, op, acked>>
  BY DEF ClosePlan
<1>2. Files'
  BY <1>1, SameFiles DEF FInv, Files, FilesTyped
<1>3. Spares({})
  BY <1>1 DEF Spares
<1> QED BY <1>1, <1>2, <1>3, CarriesAside DEF FInv

LEMMA FCrash ==
    ASSUME FInv, NEW s \in Sessions, Crash(s)
    PROVE  Files' /\ Carrying'
<1>1. op[s] # None /\ Leave(s) /\ UNCHANGED <<current, history, snap, arch, loc, acked>>
  BY DEF Crash
<1>2. Files'
  BY <1>1, SameFiles DEF FInv, Files, FilesTyped
<1>3. Spares(op[s].holds)
  BY <1>1 DEF Spares, FInv, AInv, Transactions, Operation
<1> QED BY <1>1, <1>2, <1>3, CarriesLeft DEF FInv

-----------------------------------------------------------------------------
(***************************************************************************)
(* Adoption.                                                               *)
(***************************************************************************)

\* What an adoption has found and written, its files included.
LEMMA AdoptFiles ==
    ASSUME FInv, NEW s \in Sessions, NEW step \in AdoptSteps, Adopting(s, step),
           NEW a, NEW p, NEW q, a = op[s].ask, p = op[s].plan, q = op[s].to
    PROVE  /\ op[s] \in Operation /\ op[s] # None /\ op[s].step = step
           /\ AdoptFlies(op[s]) /\ AdoptCarries(op[s])
           /\ p \in Plans /\ q \in Plans /\ p # q /\ op[s].holds = {p, q}
           /\ a \in Archive /\ a.plan = p /\ a.build \in Builds
           /\ current[p] # None =>
                /\ current[p] \in Claim /\ Stands(p, current[p]) /\ Keeps(p, current[p])
                /\ current[p].state = "transferring" /\ current[p].xfer.plan = q
                /\ current[p].build = a.build /\ a = ArchiveOf(p, current[p])
           /\ current[q] # None =>
                /\ current[q] \in Claim /\ Keeps(q, current[q]) /\ current[q].build = a.build
                /\ current[q].state = "preparing" /\ current[q].xfer # None /\ current[q].xfer.plan = p
<1>1. /\ op[s] \in Operation /\ op[s] # None /\ op[s].step = step /\ AdoptFlies(op[s])
      /\ p \in Plans /\ q \in Plans
  BY AdoptFound DEF FInv, Adopting
<1>2. AdoptCarries(op[s])
  BY <1>1 DEF FInv, Carrying, Carries, AdoptSteps, LeaseSteps
<1>3. p # q /\ op[s].holds = {p, q} /\ a \in Archive /\ a.plan = p /\ a.build \in Builds
  BY <1>1 DEF AdoptFlies, Archive
<1>4. ASSUME current[p] # None
      PROVE  /\ current[p] \in Claim /\ Stands(p, current[p]) /\ Keeps(p, current[p])
             /\ current[p].state = "transferring" /\ current[p].xfer.plan = q
             /\ current[p].build = a.build /\ a = ArchiveOf(p, current[p])
  <2>1. current[p] \in Claim /\ Stands(p, current[p]) /\ Keeps(p, current[p])
    BY <1>1, <1>4 DEF FInv, AInv, Records, Typed, Standing, Files, ClaimsKeep
  <2>2. /\ current[p].state = "transferring" /\ current[p].xfer.plan = q
        /\ current[p].build = a.build /\ current[p].gen = a.gen /\ current[p].rev = a.rev
    BY <1>1, <1>2, <1>4 DEF AdoptFlies, AdoptCarries
  <2> QED BY <1>3, <2>1, <2>2 DEF ArchiveOf, Archive
<1>5. ASSUME current[q] # None
      PROVE  /\ current[q] \in Claim /\ Keeps(q, current[q]) /\ current[q].build = a.build
             /\ current[q].state = "preparing" /\ current[q].xfer # None /\ current[q].xfer.plan = p
  BY <1>1, <1>5 DEF AdoptFlies, FInv, AInv, Records, Typed, Files, ClaimsKeep
<1> QED BY <1>1, <1>2, <1>3, <1>4, <1>5

\* An adoption that begins.
LEMMA AdoptCarriesFirst ==
    ASSUME FInv, NEW s \in Sessions, NEW a \in Archive, NEW q \in Plans,
           op[s] = None, ~Locked(a.plan), ~Locked(q), EnterAdoption(s, a, q, "a.reserve"),
           Spares({a.plan, q}),
           /\ op'[s].plan = a.plan /\ op'[s].to = q /\ op'[s].ask = a /\ op'[s].step = "a.reserve"
           => AdoptCarries(op[s])'
    PROVE  Carrying'
<1> DEFINE x == [step |-> "a.reserve", plan |-> a.plan, holds |-> {a.plan, q}, to |-> q, ask |-> a]
<1>1. a.plan \in Plans
  BY DEF Archive
<1>2. op'[s] = x /\ \A t \in Sessions \ {s} : op'[t] = op[t]
  BY OthersGoOn DEF EnterAdoption, FInv
<1>3. x.step = "a.reserve" /\ x.plan = a.plan /\ x.to = q /\ x.ask = a
  OBVIOUS
<1> HIDE DEF x
<1>4. Carries(op[s])'
  BY <1>2, <1>3 DEF Carries, LeaseSteps
<1> QED BY <1>1, <1>2, <1>4, CarriesWithin DEF FInv

\* An adoption that goes on.
LEMMA AdoptCarriesOn ==
    ASSUME FInv, NEW s \in Sessions, NEW step \in AdoptSteps, Adopting(s, step),
           NEW next \in AdoptSteps, GoTo(s, next), Spares(op[s].holds),
           /\ op'[s].step = next /\ op'[s].plan = op[s].plan /\ op'[s].to = op[s].to
           /\ op'[s].ask = op[s].ask
           => AdoptCarries(op[s])'
    PROVE  Carrying'
<1>1. op[s] \in Operation /\ op[s] # None /\ op[s].holds \in SUBSET Plans
  BY AdoptFound DEF FInv, Adopting, Operation
<1>2. op'[s] = At(op[s], next) /\ \A t \in Sessions \ {s} : op'[t] = op[t]
  BY OthersGoOn DEF GoTo, FInv, AInv, Transactions
<1>3. /\ op'[s].step = next /\ op'[s].plan = op[s].plan /\ op'[s].to = op[s].to
      /\ op'[s].ask = op[s].ask
  BY <1>1, <1>2, AtStep
<1>4. Carries(op[s])'
  BY <1>3 DEF Carries, LeaseSteps, AdoptSteps
<1> QED BY <1>1, <1>2, <1>4, CarriesWithin DEF FInv

\* The journal is written over a writable source, or found.
LEMMA FAdoptJournal ==
    ASSUME FInv, NEW p \in Plans, NEW q \in Plans, <<p, q>> \in Lineage,
           NEW a \in Asks(p), NEW s \in Sessions, AdoptJournal(s, a, q)
    PROVE  Files' /\ Carrying'
<1>1. p # q /\ a \in Archive /\ a.plan = p /\ a.rev # 0 /\ a.build \in Builds
  BY LineageOK DEF Asks, Archive
<1>2. PICK o \in Sources(a) :
         LET n == NewClaim(o, a, q)
         IN /\ Names(o, a, q)
            /\ current' = IF Released(a) \/ IsOutgoing(o) THEN current
                          ELSE [current EXCEPT ![p] = Suspended(o, a, q, n.gen)]
  BY <1>1 DEF AdoptJournal
<1>3. /\ op[s] = None /\ ~Locked(p) /\ ~Locked(q) /\ EnterAdoption(s, a, q, "a.reserve")
      /\ SourceMatches(a) /\ a.rev < MaxRev
      /\ UNCHANGED <<history, snap, arch, loc, acked>>
  BY <1>1 DEF AdoptJournal
<1>4. /\ o \in Claim /\ o.build = a.build /\ o.gen = a.gen
      /\ Released(a) => o \in history[p] /\ current[p] = None
      /\ ~Released(a) => o = current[p] /\ current[p] # None
  BY <1>1, <1>2 DEF Sources, Released, Names, FInv, AInv, Records, Typed
<1>5. CASE IsOutgoing(o)
  <2>1. UNCHANGED current /\ o.xfer.rev = a.rev
    BY <1>2, <1>5 DEF Names
  <2>2. Files'
    BY <1>3, <2>1, SameFiles DEF FInv, Files, FilesTyped
  <2>3. Spares({p, q})
    BY <1>3, <2>1 DEF Spares
  <2>4. current[p] # None => current[p].rev = a.rev
    <3>1. current[p] # None => o.state = "transferring" /\ Keeps(p, o)
      BY <1>4, <1>5 DEF FInv, AInv, Records, Standing, Stands, Files, ClaimsKeep
    <3> QED BY <1>4, <2>1, <3>1 DEF Keeps, Sending
  <2>5. /\ op'[s].plan = a.plan /\ op'[s].to = q /\ op'[s].ask = a /\ op'[s].step = "a.reserve"
        => AdoptCarries(op[s])'
    BY <1>1, <1>3, <1>4, <2>1, <2>4 DEF AdoptCarries
  <2> QED BY <1>1, <1>3, <2>2, <2>3, <2>5, AdoptCarriesFirst
<1>6. CASE ~IsOutgoing(o)
  <2> DEFINE n == NewClaim(o, a, q)
  <2> DEFINE m == Suspended(o, a, q, n.gen)
  <2>1. /\ ~Released(a) /\ o = current[p] /\ current[p] # None /\ current[q] = None
        /\ o.state \in {"active", "transferring"} /\ AdoptedGen(o, q) <= MaxGen
    BY <1>2, <1>4, <1>6 DEF Names
  <2>2. o.state = "active" /\ Keeps(p, o)
    BY <1>6, <2>1 DEF FInv, AInv, Records, Standing, Stands, Files, ClaimsKeep
  <2>3. n.gen = AdoptedGen(o, q)
    BY <1>6 DEF NewClaim
  <2>4. AdoptedGen(o, q) \in Gens
    BY <1>4, <2>1, RecordTypes, ConstantsOK DEF AdoptedGen, Claim, FInv, AInv, Records, Typed
  <2>5. /\ m \in Claim /\ m.build = o.build /\ m.gen = o.gen /\ m.state = "transferring"
        /\ IsOutgoing(m) /\ m.xfer.plan = q
    BY <1>1, <1>4, <2>3, <2>4, SuspendedFields
  <2>6. m.rev = a.rev /\ m.why = "superseded" /\ m.xfer.rev = a.rev
    BY <1>4 DEF Suspended, Claim
  <2>7. current' = [current EXCEPT ![p] = m]
    BY <1>2, <1>6, <2>1
  <2> HIDE DEF n, m
  <2>8. snap[p][o.build] # None /\ snap[p][o.build].rev = a.rev
    BY <1>1, <1>3, <1>4, <2>2 DEF Keeps, SourceMatches
  <2>9. snap[q][m.build] = None
    BY <1>1, <1>4, <2>1, <2>5 DEF FInv, Files, SnapshotsStand
  <2>10. \A c \in {o, m} : ArchiveOf(p, c) \notin arch
    <3> SUFFICES ASSUME NEW c \in {o, m}, ArchiveOf(p, c) \in arch PROVE FALSE
      OBVIOUS
    <3>1. ArchiveOf(p, c).plan = p /\ ArchiveOf(p, c).gen = o.gen
      BY <1>4, <2>5, ArchiveFields
    <3> QED BY <2>1, <2>2, <3>1, Unarchived DEF FInv, AInv, Files
  <2>11. Ending(p, m) /\ Sending(p, m)
    BY <1>1, <1>3, <1>4, <2>5, <2>6, <2>8, <2>9, <2>10 DEF Ending, Sending
  <2>12. \A r \in Plans \ {p} : current[r] # None => current[r].build # o.build
    BY <2>1, <2>2, Alone DEF FInv, AInv
  <2>13. Files'
    BY <1>3, <1>4, <2>1, <2>2, <2>5, <2>7, <2>10, <2>11, <2>12, RestatedKeeps DEF FInv, AInv
  <2>14. current'[p] = m /\ m # None /\ Spares({p, q})
    BY <1>3, <2>5, <2>7, NoneIsAbsence DEF Spares, FInv, AInv, Records, Typed
  <2>15. /\ op'[s].plan = a.plan /\ op'[s].to = q /\ op'[s].ask = a /\ op'[s].step = "a.reserve"
         => AdoptCarries(op[s])'
    BY <1>1, <2>6, <2>14 DEF AdoptCarries
  <2> QED BY <1>1, <1>3, <2>13, <2>14, <2>15, AdoptCarriesFirst
<1> QED BY <1>5, <1>6

\* The untouched source is writable again: none of it was archived.
LEMMA FAdoptRestore ==
    ASSUME FInv, NEW p \in Plans, NEW q \in Plans, <<p, q>> \in Lineage,
           NEW a \in Asks(p), AdoptRestore(a, q)
    PROVE  Files' /\ Carrying'
<1> DEFINE o == current[p]
<1> DEFINE m == Restored(o)
<1>1. /\ a.plan = p /\ o # None /\ o \in Claim /\ o.build = a.build
      /\ o.state = "transferring" /\ o.xfer.plan = q
      /\ \A r \in Plans \ {p} : current[r] # None => current[r].build # o.build
  BY Unpromised DEF FInv, AInv
<1>2. /\ ~Locked(p) /\ current' = [current EXCEPT ![p] = m] /\ Restorable(a, q)
      /\ UNCHANGED <<history, snap, arch, loc, acked, op>>
  BY <1>1 DEF AdoptRestore, Restored
<1>3. m \in Claim /\ m.build = o.build /\ m.gen = o.gen /\ m.state = "active"
  BY <1>1, RestoredFields
<1>4. snap[p][m.build] # None /\ ArchiveOf(p, o) \notin arch
  BY <1>1, <1>2, <1>3 DEF Restorable, FInv, Files, ClaimsKeep, Keeps, Sending
<1> HIDE DEF m
<1>5. Files'
  BY <1>1, <1>2, <1>3, <1>4, RestatedKeeps DEF FInv, AInv
<1>6. Spares({p})
  BY <1>2 DEF Spares, FInv, AInv, Records, Typed
<1> QED BY <1>2, <1>5, <1>6, CarriesAside DEF FInv

\* A reservation of the transfer is a claim of its Build and generation.
LEMMA ReservedType ==
    ASSUME NEW q \in Plans, NEW n, current[q] \in Claim, Reserved(n, q)
    PROVE  /\ n \in Claim /\ LocatorValue(q, n) \in Locator
           /\ current[q].build = n.build /\ current[q].gen = n.gen
<1>1. n = [current[q] EXCEPT !.state = "preparing"]
  BY DEF Reserved
<1>2. n \in Claim /\ n.build = current[q].build /\ n.gen = current[q].gen
  BY <1>1 DEF Claim
<1> QED BY <1>2 DEF LocatorValue, Locator, Claim

LEMMA FAdoptRepeat ==
    ASSUME FInv, NEW p \in Plans, NEW q \in Plans, NEW a \in Asks(p), AdoptRepeat(a, q)
    PROVE  Files' /\ Carrying'
<1>1. UNCHANGED <<current, history, snap, arch, acked, op>>
  BY DEF AdoptRepeat
<1>2. PICK o \in Sources(a) :
         LET n == NewClaim(o, a, q)
         IN Reserved(n, q) /\ loc' = [l \in Locators |-> IF l = o.loc THEN LocatorValue(q, n) ELSE loc[l]]
  BY DEF AdoptRepeat
<1>3. LocatorValue(q, NewClaim(o, a, q)) \in Locator
  BY <1>2, ReservedType DEF Reserved, FInv, AInv, Records, Typed
<1>4. loc' \in [Locators -> Locator \cup {None}]
  BY <1>2, <1>3 DEF FInv, Files, FilesTyped
<1>5. Files' /\ Spares({})
  BY <1>1, <1>4, SameFiles DEF FInv, Spares
<1> QED BY <1>1, <1>5, CarriesAside DEF FInv

\* The successor's claim is granted; its predecessor waits for it.
LEMMA FAdoptReserve ==
    ASSUME FInv, NEW s \in Sessions, AdoptReserve(s)
    PROVE  Files' /\ Carrying'
<1> DEFINE a == op[s].ask
<1> DEFINE p == op[s].plan
<1> DEFINE q == op[s].to
<1> DEFINE o == current[p]
<1> DEFINE n == NewClaim(TheSource(a), a, q)
<1>1. /\ Adopting(s, "a.reserve") /\ GoTo(s, "a.snapshot") /\ UNCHANGED <<history, snap, arch, loc, acked>>
      /\ IF current[q] = None THEN current' = [current EXCEPT ![q] = n] ELSE UNCHANGED current
  BY DEF AdoptReserve
<1>2. /\ op[s].step = "a.reserve" /\ AdoptFlies(op[s]) /\ AdoptCarries(op[s])
      /\ p \in Plans /\ q \in Plans /\ p # q /\ op[s].holds = {p, q}
      /\ a \in Archive /\ a.plan = p
      /\ o # None => /\ o \in Claim /\ Stands(p, o) /\ o.state = "transferring"
                     /\ o.xfer.plan = q /\ o.build = a.build /\ o.gen = a.gen
  <2>1. "a.reserve" \in AdoptSteps /\ Adopting(s, "a.reserve")
    BY <1>1 DEF AdoptSteps
  <2> HIDE DEF n
  <2>2. /\ op[s].step = "a.reserve" /\ AdoptFlies(op[s]) /\ AdoptCarries(op[s])
        /\ p \in Plans /\ q \in Plans /\ p # q /\ op[s].holds = {p, q}
        /\ a \in Archive /\ a.plan = p
        /\ o # None => /\ o \in Claim /\ Stands(p, o) /\ o.state = "transferring"
                       /\ o.xfer.plan = q /\ o.build = a.build
    BY <2>1, AdoptFiles
  <2>3. o # None => o.gen = a.gen
    BY <2>2 DEF AdoptFlies
  <2> QED BY <2>2, <2>3
<1>3. Spares({p, q}) /\ current'[p] = current[p]
  BY <1>1, <1>2 DEF Spares, FInv, AInv, Records, Typed
<1>4. Files'
  <2>1. CASE current[q] # None
    BY <1>1, <2>1, SameFiles DEF FInv, Files, FilesTyped
  <2>2. CASE current[q] = None
    <3>1. o # None
      BY <1>2, <2>2 DEF AdoptFlies
    <3>2. TheSource(a) = o
      BY <1>2, <3>1 DEF TheSource, Sources
    <3>3. n = NewClaim(o, a, q) /\ IsOutgoing(o) /\ current' = [current EXCEPT ![q] = n]
      BY <1>1, <1>2, <2>2, <3>1, <3>2 DEF Stands
    <3> HIDE DEF a, p, q, o, n
    <3>4. /\ n \in Claim /\ n.build = o.build /\ n.state = "preparing"
          /\ n.xfer # None /\ n.xfer.plan = p
      BY <1>2, <3>1, <3>3, NewClaimFields
    <3>5. LET w == current[n.xfer.plan]
          IN w # None /\ w.state = "transferring" /\ w.build = n.build /\ w.xfer.plan = q
      BY <1>2, <3>1, <3>4 DEF o
    <3> QED BY <1>1, <1>2, <2>2, <3>3, <3>4, <3>5, GrantedKeeps DEF FInv, AInv
  <2> QED BY <2>1, <2>2
<1>5. /\ op'[s].step = "a.snapshot" /\ op'[s].plan = op[s].plan /\ op'[s].to = op[s].to
      /\ op'[s].ask = op[s].ask
      => AdoptCarries(op[s])'
  BY <1>1, <1>2, <1>3 DEF AdoptCarries
<1> QED BY <1>1, <1>2, <1>3, <1>4, <1>5, AdoptCarriesOn DEF AdoptSteps

\* A successor without its snapshot: the source is where the call named it, and
\* nothing of the Build is newer.
LEMMA NotYetCopied ==
    ASSUME FInv, NEW s \in Sessions, Adopting(s, "a.snapshot"),
           NEW a, NEW p, NEW q, a = op[s].ask, p = op[s].plan, q = op[s].to,
           current[q] # None, snap[q][a.build] = None
    PROVE  /\ current[p] # None /\ snap[p][a.build] # None /\ snap[p][a.build].rev = a.rev
           /\ a.rev \in Int /\ a.rev < MaxRev /\ a.rev >= acked[a.build]
           /\ \A x \in arch : x.build = a.build => x.rev <= a.rev
           /\ \A r \in Plans \ {q} : current[r] # None /\ current[r].build = a.build => r = p
<1>1. /\ p \in Plans /\ q \in Plans /\ p # q /\ AdoptFlies(op[s]) /\ AdoptCarries(op[s])
      /\ a \in Archive /\ a.build \in Builds
      /\ Keeps(q, current[q]) /\ current[q].build = a.build
      /\ current[q].state = "preparing" /\ current[q].xfer # None /\ current[q].xfer.plan = p
      /\ current[p] # None => /\ current[p] \in Claim /\ Keeps(p, current[p])
                              /\ current[p].state = "transferring" /\ current[p].xfer.plan = q
                              /\ current[p].build = a.build /\ a = ArchiveOf(p, current[p])
  BY AdoptFiles DEF AdoptSteps
<1>2. current[p] # None
  BY <1>1 DEF Keeps, Coming
<1>3. a.rev = current[p].rev /\ a.rev \in Int
  BY <1>1, <1>2, ArchiveFields
<1>4. Sending(p, current[p]) /\ Ending(p, current[p])
  BY <1>1, <1>2 DEF Keeps
<1>5. snap[p][a.build] # None /\ snap[p][a.build].rev = a.rev /\ a.rev < MaxRev
  BY <1>1, <1>2, <1>3, <1>4 DEF Sending, Ending
<1>6. a.rev >= acked[a.build] /\ \A x \in arch : x.build = a.build => x.rev <= a.rev
  BY <1>1, <1>5 DEF FInv, Files, SnapshotsStand
<1>7. ASSUME NEW r \in Plans \ {q}, current[r] # None, current[r].build = a.build PROVE r = p
  BY <1>1, <1>2, <1>7, Shared DEF FInv, AInv
<1> QED BY <1>2, <1>3, <1>5, <1>6, <1>7

LEMMA FAdoptSnapshot ==
    ASSUME FInv, NEW s \in Sessions, AdoptSnapshot(s)
    PROVE  Files' /\ Carrying'
<1> DEFINE a == op[s].ask
<1> DEFINE p == op[s].plan
<1> DEFINE q == op[s].to
<1> DEFINE f == SuccessorSnapshot(a, current[q].gen)
<1> DEFINE next == IF Released(a) THEN "a.locator" ELSE "a.archive"
<1>1. /\ Adopting(s, "a.snapshot") /\ GoTo(s, next) /\ UNCHANGED <<current, history, arch, loc, acked>>
      /\ snap' = [snap EXCEPT ![q][a.build] = IF @ # None THEN @ ELSE f]
  BY DEF AdoptSnapshot
<1>2. /\ op[s].step = "a.snapshot" /\ AdoptFlies(op[s]) /\ AdoptCarries(op[s])
      /\ p \in Plans /\ q \in Plans /\ p # q /\ op[s].holds = {p, q}
      /\ a \in Archive /\ a.plan = p /\ a.build \in Builds
      /\ current[p] # None => current[p].state = "transferring" /\ a = ArchiveOf(p, current[p])
  BY <1>1, AdoptFiles DEF AdoptSteps
<1>3. /\ current[q] # None /\ current[q] \in Claim /\ current[q].build = a.build
      /\ current[q].state = "preparing" /\ current[q].gen \in Gens
  <2>1. current[q] # None
    BY <1>2 DEF AdoptFlies
  <2>2. current[q] \in Claim /\ current[q].build = a.build /\ current[q].state = "preparing"
    BY <1>1, <2>1, AdoptFiles DEF AdoptSteps
  <2> QED BY <2>1, <2>2 DEF Claim
<1>4. Files' /\ snap'[q][a.build] # None
  <2>1. CASE snap[q][a.build] # None
    <3>1. UNCHANGED snap
      BY <1>1, <1>2, <2>1, Rewritten DEF FInv, Files
    <3> QED BY <1>1, <2>1, <3>1, SameFiles DEF FInv, Files, FilesTyped
  <2>2. CASE snap[q][a.build] = None
    <3>1. /\ current[p] # None /\ a.rev \in Int /\ a.rev < MaxRev /\ a.rev >= acked[a.build]
          /\ \A x \in arch : x.build = a.build => x.rev <= a.rev
          /\ \A r \in Plans \ {q} : current[r] # None /\ current[r].build = a.build => r = p
      BY <1>1, <1>3, <2>2, NotYetCopied
    <3>2. f \in Snapshot /\ f.gen = current[q].gen /\ f.rev = a.rev + 1
      BY <1>2, <1>3, <3>1, ConstantsOK DEF SuccessorSnapshot, Snapshot, Archive
    <3>3. snap' = [snap EXCEPT ![q][a.build] = f]
      BY <1>1, <2>2
    <3>4. \A r \in Plans \ {q} :
             current[r] # None /\ current[r].build = a.build /\ current[r].state = "transferring" =>
                f.rev = current[r].rev + 1
      <4>1. a.rev = current[p].rev
        BY <1>2, <3>1 DEF AdoptCarries
      <4> QED BY <3>1, <3>2, <4>1
    <3>5. f.rev >= acked[a.build] /\ \A x \in arch : x.build = a.build => x.rev <= f.rev
      <4>1. acked[a.build] \in Int /\ \A x \in arch : x.rev \in Int
        BY <1>2, FileTypes, ArchiveTypes DEF FInv, Files
      <4> QED BY <3>1, <3>2, <4>1
    <3>6. Records /\ Files /\ current[q].state \in Live
      BY <1>3 DEF FInv, AInv
    <3>7. snap'[q][a.build] = f /\ f # None
      BY <1>2, <3>2, <3>3, NoneIsAbsence DEF FInv, Files, FilesTyped
    <3> HIDE DEF a, p, q, f
    <3>8. Files'
      BY <1>1, <1>2, <1>3, <3>2, <3>3, <3>4, <3>5, <3>6, WrittenKeeps
    <3> QED BY <3>7, <3>8
  <2> QED BY <2>1, <2>2
<1>5. Spares({p, q})
  BY <1>1, <1>2 DEF Spares, FInv, Files, FilesTyped
<1>6. /\ op'[s].step = next /\ op'[s].plan = op[s].plan /\ op'[s].to = op[s].to
      /\ op'[s].ask = op[s].ask
      => AdoptCarries(op[s])'
  BY <1>1, <1>2, <1>4 DEF AdoptCarries
<1>7. next \in AdoptSteps /\ "a.snapshot" \in AdoptSteps
  BY DEF AdoptSteps
<1> HIDE DEF next
<1> QED BY <1>1, <1>2, <1>4, <1>5, <1>6, <1>7, AdoptCarriesOn

LEMMA FAdoptArchive ==
    ASSUME FInv, NEW s \in Sessions, AdoptArchive(s)
    PROVE  Files' /\ Carrying'
<1> DEFINE a == op[s].ask
<1> DEFINE p == op[s].plan
<1> DEFINE q == op[s].to
<1>1. /\ Adopting(s, "a.archive") /\ GoTo(s, "a.move") /\ UNCHANGED <<current, history, snap, loc, acked>>
      /\ arch' = arch \cup {a}
  BY DEF AdoptArchive
<1>2. /\ op[s].step = "a.archive" /\ AdoptFlies(op[s]) /\ AdoptCarries(op[s])
      /\ p \in Plans /\ q \in Plans /\ op[s].holds = {p, q}
      /\ current[p] # None => /\ current[p].state = "transferring" /\ current[p].xfer.plan = q
                              /\ current[p].build = a.build /\ a = ArchiveOf(p, current[p])
  BY <1>1, AdoptFiles DEF AdoptSteps
<1>3. current[p] # None /\ snap[q][a.build] # None
  BY <1>2 DEF AdoptFlies, AdoptCarries
<1>4. Files'
  BY <1>1, <1>2, <1>3, ArchivedKeeps DEF FInv, AInv
<1>5. Spares({p, q})
  BY <1>1 DEF Spares
<1>6. /\ op'[s].step = "a.move" /\ op'[s].plan = op[s].plan /\ op'[s].to = op[s].to
      /\ op'[s].ask = op[s].ask
      => AdoptCarries(op[s])'
  BY <1>1, <1>2 DEF AdoptCarries
<1> QED BY <1>1, <1>2, <1>4, <1>5, <1>6, AdoptCarriesOn DEF AdoptSteps

LEMMA FAdoptMove ==
    ASSUME FInv, NEW s \in Sessions, AdoptMove(s)
    PROVE  Files' /\ Carrying'
<1> DEFINE a == op[s].ask
<1> DEFINE p == op[s].plan
<1> DEFINE q == op[s].to
<1>1. /\ Adopting(s, "a.move") /\ GoTo(s, "a.release") /\ UNCHANGED <<current, history, arch, loc, acked>>
      /\ snap' = [snap EXCEPT ![p][a.build] = None]
  BY DEF AdoptMove
<1>2. /\ op[s].step = "a.move" /\ AdoptFlies(op[s]) /\ AdoptCarries(op[s])
      /\ p \in Plans /\ q \in Plans /\ p # q /\ op[s].holds = {p, q} /\ a.build \in Builds
      /\ current[p] # None => /\ current[p].state = "transferring"
                              /\ current[p].build = a.build /\ a = ArchiveOf(p, current[p])
  BY <1>1, AdoptFiles DEF AdoptSteps
<1>3. current[p] # None /\ a \in arch
  BY <1>2 DEF AdoptFlies, AdoptCarries
<1>4. Files'
  BY <1>1, <1>2, <1>3, MovedKeeps DEF FInv, AInv
<1>5. Spares({p, q})
  BY <1>1, <1>2 DEF Spares, FInv, Files, FilesTyped
<1>6. snap'[p][a.build] = None /\ snap'[q] = snap[q]
  BY <1>1, <1>2 DEF FInv, Files, FilesTyped
<1>7. /\ op'[s].step = "a.release" /\ op'[s].plan = op[s].plan /\ op'[s].to = op[s].to
      /\ op'[s].ask = op[s].ask
      => AdoptCarries(op[s])'
  BY <1>1, <1>2, <1>6 DEF AdoptCarries
<1> QED BY <1>1, <1>2, <1>4, <1>5, <1>7, AdoptCarriesOn DEF AdoptSteps

LEMMA FAdoptRelease ==
    ASSUME FInv, NEW s \in Sessions, AdoptRelease(s)
    PROVE  Files' /\ Carrying'
<1> DEFINE a == op[s].ask
<1> DEFINE p == op[s].plan
<1> DEFINE q == op[s].to
<1> DEFINE o == current[p]
<1> DEFINE h == [o EXCEPT !.state = "superseded"]
<1>1. /\ Adopting(s, "a.release") /\ GoTo(s, "a.locator") /\ UNCHANGED <<snap, arch, loc, acked>>
      /\ history' = [history EXCEPT ![p] = @ \cup {h}]
      /\ current' = [current EXCEPT ![p] = None]
  BY DEF AdoptRelease
<1>2. /\ op[s].step = "a.release" /\ AdoptFlies(op[s]) /\ AdoptCarries(op[s])
      /\ p \in Plans /\ q \in Plans /\ p # q /\ op[s].holds = {p, q} /\ a \in Archive
      /\ o # None => /\ o \in Claim /\ Keeps(p, o) /\ o.state = "transferring" /\ o.xfer.plan = q
                     /\ o.build = a.build /\ a = ArchiveOf(p, o)
  BY <1>1, AdoptFiles DEF AdoptSteps
<1>3. o # None /\ snap[p][o.build] = None /\ snap[q][o.build] # None /\ o.why = "superseded"
  BY <1>2 DEF AdoptFlies, AdoptCarries, Keeps, Sending
<1>4. h \in Claim /\ h.build = o.build /\ h.gen = o.gen /\ h.rev = o.rev /\ h.why = o.why
  BY <1>2, <1>3 DEF Claim
<1>5. h.why # None
  BY <1>3, <1>4, NoneIsAbsence
<1>6. a.build = h.build /\ a.gen = h.gen
  BY <1>2, <1>3, <1>4, ArchiveFields
<1> HIDE DEF h
<1>7. Files'
  BY <1>1, <1>2, <1>3, <1>4, <1>5, EndedKeeps DEF FInv, AInv
<1>8. Spares({p, q}) /\ current'[p] = None /\ h \in history'[p]
  BY <1>1, <1>2 DEF Spares, FInv, AInv, Records, Typed
<1>9. /\ op'[s].step = "a.locator" /\ op'[s].plan = op[s].plan /\ op'[s].to = op[s].to
      /\ op'[s].ask = op[s].ask
      => AdoptCarries(op[s])'
  BY <1>1, <1>2, <1>3, <1>6, <1>8 DEF AdoptCarries
<1> QED BY <1>1, <1>2, <1>7, <1>8, <1>9, AdoptCarriesOn DEF AdoptSteps

LEMMA FAdoptLocator ==
    ASSUME FInv, NEW s \in Sessions, AdoptLocator(s)
    PROVE  Files' /\ Carrying'
<1> DEFINE p == op[s].plan
<1> DEFINE q == op[s].to
<1> DEFINE n == current[q]
<1>1. /\ Adopting(s, "a.locator") /\ (GoTo(s, "a.activate") \/ Leave(s))
      /\ UNCHANGED <<current, history, snap, arch, acked>>
      /\ \/ UNCHANGED loc
         \/ loc' = [l \in Locators |-> IF l = n.loc THEN LocatorValue(q, n) ELSE loc[l]]
  BY DEF AdoptLocator
<1>2. /\ op[s] # None /\ op[s].step = "a.locator" /\ AdoptFlies(op[s]) /\ AdoptCarries(op[s])
      /\ p \in Plans /\ q \in Plans /\ op[s].holds = {p, q}
      /\ n # None => n \in Claim
  BY <1>1, AdoptFiles DEF AdoptSteps
<1>3. n \in Claim
  BY <1>2 DEF AdoptFlies
<1>4. LocatorValue(q, n) \in Locator
  BY <1>2, <1>3 DEF LocatorValue, Locator, Claim
<1>5. loc' \in [Locators -> Locator \cup {None}]
  BY <1>1, <1>4 DEF FInv, Files, FilesTyped
<1>6. Files' /\ Spares({p, q})
  BY <1>1, <1>5, SameFiles DEF FInv, Spares
<1>7. CASE Leave(s)
  BY <1>2, <1>6, <1>7, CarriesLeft DEF FInv
<1>8. CASE GoTo(s, "a.activate")
  <2>1. /\ op'[s].step = "a.activate" /\ op'[s].plan = op[s].plan /\ op'[s].to = op[s].to
        /\ op'[s].ask = op[s].ask
        => AdoptCarries(op[s])'
    BY <1>1, <1>2 DEF AdoptCarries
  <2> QED BY <1>1, <1>2, <1>6, <1>8, <2>1, AdoptCarriesOn DEF AdoptSteps
<1> QED BY <1>1, <1>7, <1>8

LEMMA FAdoptActivate ==
    ASSUME FInv, NEW s \in Sessions, AdoptActivate(s)
    PROVE  Files' /\ Carrying'
<1> DEFINE a == op[s].ask
<1> DEFINE p == op[s].plan
<1> DEFINE q == op[s].to
<1> DEFINE n == Activated(current[q])
<1>1. /\ Adopting(s, "a.activate") /\ Leave(s) /\ UNCHANGED <<history, snap, arch, loc>>
      /\ current' = [current EXCEPT ![q] = n] /\ Acknowledge(a.build, snap[q][a.build].rev)
  BY DEF AdoptActivate
<1>2. /\ op[s] # None /\ op[s].step = "a.activate" /\ AdoptFlies(op[s]) /\ AdoptCarries(op[s])
      /\ p \in Plans /\ q \in Plans /\ op[s].holds = {p, q} /\ a.build \in Builds
      /\ current[q] # None => /\ current[q] \in Claim /\ current[q].build = a.build
                              /\ current[q].state = "preparing" /\ current[q].xfer.plan = p
  <2>1. "a.activate" \in AdoptSteps /\ Adopting(s, "a.activate")
    BY <1>1 DEF AdoptSteps
  <2> HIDE DEF n
  <2> QED BY <2>1, AdoptFiles
<1>3. current[p] = None /\ current[q] # None /\ snap[q][a.build] # None
  BY <1>2 DEF AdoptFlies, AdoptCarries
<1>4. n \in Claim /\ n.build = a.build /\ n.gen = current[q].gen /\ n.state = "active"
  BY <1>2, <1>3, ActivatedFields DEF SameBuild
<1>5. Told(a.build, snap[q][a.build].rev)
  BY <1>1, <1>2, <1>3, FileTypes, ToldSo DEF FInv, Files
<1>6. \A r \in Plans \ {q} : current[r] # None => current[r].build # current[q].build
  BY <1>2, <1>3 DEF FInv, AInv, Records, OneOwner
<1> HIDE DEF n
<1>7. Files'
  BY <1>1, <1>2, <1>3, <1>4, <1>5, <1>6, RestatedKeeps DEF FInv, AInv
<1>8. Spares({p, q})
  BY <1>1, <1>2 DEF Spares, FInv, AInv, Records, Typed
<1> QED BY <1>1, <1>2, <1>7, <1>8, CarriesLeft DEF FInv

-----------------------------------------------------------------------------
(***************************************************************************)
(* The invariant of the whole.                                             *)
(***************************************************************************)
LEMMA FInvInit == Init => FInv
<1> SUFFICES ASSUME Init PROVE FInv
  OBVIOUS
<1>1. Files
  BY ConstantsOK DEF Init, Files, FilesTyped, SnapshotsStand, ArchivesStand, EndsDecided,
     AckedSaved, ClaimsKeep
<1>2. Carrying
  BY DEF Init, Carrying
<1> QED BY <1>1, <1>2, AInvInit DEF FInv

LEMMA FLeaseNext ==
    ASSUME FInv, Next
    PROVE  Files' /\ Carrying'
<1>1. ASSUME NEW p \in Plans, PlanStep(p) PROVE Files' /\ Carrying'
  BY <1>1, FReserve, FMutate, FRetireRefused, FClosePlan DEF PlanStep
<1>2. ASSUME NEW s \in Sessions, NEW p \in Plans, Finish(s, p) PROVE Files' /\ Carrying'
  BY <1>2, FFinishSnapshot, FFinishLocator, FFinishActivate DEF Finish
<1>3. ASSUME NEW s \in Sessions, NEW p \in Plans, Retire(s, p) PROVE Files' /\ Carrying'
  BY <1>3, FRetireJournal, FRetireArchive, FRetireMove, FRetireRelease DEF Retire
<1>4. ASSUME NEW s \in Sessions, Crash(s) PROVE Files' /\ Carrying'
  BY <1>4, FCrash
<1> QED BY <1>1, <1>2, <1>3, <1>4 DEF Next

LEMMA FInvNext == FInv /\ [ANext]_vars => FInv'
<1> SUFFICES ASSUME FInv, [ANext]_vars PROVE Files' /\ Carrying'
  BY AInvNext DEF FInv
<1>1. CASE Next
  BY <1>1, FLeaseNext
<1>2. ASSUME NEW e \in Lineage, NEW a \in Asks(e[1]),
             \/ AdoptRestore(a, e[2]) \/ AdoptRepeat(a, e[2])
             \/ \E s \in Sessions : AdoptJournal(s, a, e[2])
      PROVE  Files' /\ Carrying'
  <2>1. e[1] \in Plans /\ e[2] \in Plans /\ <<e[1], e[2]>> \in Lineage
    BY LineageOK
  <2> QED BY <1>2, <2>1, FAdoptRestore, FAdoptRepeat, FAdoptJournal
<1>3. ASSUME NEW s \in Sessions, AdoptWrite(s) PROVE Files' /\ Carrying'
  BY <1>3, FAdoptReserve, FAdoptSnapshot, FAdoptArchive, FAdoptMove, FAdoptRelease,
     FAdoptLocator, FAdoptActivate DEF AdoptWrite
<1>4. CASE UNCHANGED vars
  <2>1. Files' /\ Spares({}) /\ UNCHANGED op
    BY <1>4, SameFiles DEF FInv, Files, FilesTyped, vars, Spares
  <2> QED BY <2>1, CarriesAside DEF FInv
<1> QED BY <1>1, <1>2, <1>3, <1>4 DEF ANext

\* What the files are beside the records, and what transactions in flight have
\* written, holds in every state that leases, adoptions and crashes can reach.
THEOREM FilesInvariance == ASpec => []FInv
<1>1. Init => FInv
  BY FInvInit
<1>2. FInv /\ [ANext]_vars => FInv'
  BY FInvNext
<1> QED BY <1>1, <1>2, PTL DEF ASpec

-----------------------------------------------------------------------------
(***************************************************************************)
(* The properties of states.                                               *)
(***************************************************************************)

\* Records, files and transactions keep their types while Builds are adopted.
THEOREM TypeCorrectAdopting == ASpec => []TypeOK
<1>1. FInv => TypeOK
  BY DEF FInv, AInv, Records, Typed, Transactions, Files, FilesTyped, TypeOK
<1> QED BY <1>1, FilesInvariance, PTL

LEMMA AInvGenerations == AInv => GenerationsAreUnique
<1> SUFFICES ASSUME AInv, NEW p \in Plans
             PROVE  /\ \A c, d \in Ledger(p) : c.gen = d.gen => c = d
                    /\ \A c \in Ledger(p) : c.gen <= generation[p]
                    /\ current[p] # None => current[p].gen = generation[p]
  BY DEF GenerationsAreUnique
<1>1. generation[p] \in Int /\ \A c \in history[p] : c.gen \in Int
  BY RecordTypes DEF AInv, Records
<1> QED BY <1>1 DEF AInv, Records, Ages, Ledger

\* A generation names one claim of a plan, granted to it or handed over to it.
THEOREM GenerationsUniqueAdopting == ASpec => []GenerationsAreUnique
BY AInvGenerations, AdoptionInvariance, PTL

LEMMA FInvEvidence == FInv => ClaimHasItsEvidence
<1> SUFFICES ASSUME FInv, NEW p \in Plans, NEW c, c = current[p], c # None
             PROVE  LET kept == snap[p][c.build] # None /\ snap[p][c.build].gen = c.gen
                    IN /\ c.state = "active" => kept
                       /\ c.state \in Live =>
                            ~ \E a \in arch : a.plan = p /\ a.build = c.build /\ a.gen = c.gen
                       /\ c.state \in Transition /\ c.rev # 0 =>
                            \/ kept /\ snap[p][c.build].rev = c.rev
                            \/ ArchiveOf(p, c) \in arch
  BY DEF ClaimHasItsEvidence
<1>1. Keeps(p, c) /\ c.build \in Builds
  BY DEF FInv, AInv, Records, Typed, Claim, Files, ClaimsKeep
<1>2. snap[p][c.build] # None => snap[p][c.build].gen = c.gen
  BY <1>1 DEF FInv, Files, SnapshotsStand
<1>3. c.state \in Live => ~ \E a \in arch : a.plan = p /\ a.gen = c.gen
  BY Unarchived DEF FInv, AInv, Files
<1> QED BY <1>1, <1>2, <1>3 DEF Keeps, Ending

\* Nor does an adoption separate a claim from its evidence.
THEOREM EvidenceInPlaceAdopting == ASpec => []ClaimHasItsEvidence
BY FInvEvidence, FilesInvariance, PTL

LEMMA FInvReachable == FInv => EvidenceReachable
<1> SUFFICES ASSUME FInv PROVE EvidenceReachable
  OBVIOUS
<1>1. ASSUME NEW b \in Builds, acked[b] > 0
      PROVE  \E p \in Plans : \E c \in Ledger(p) : c.build = b /\ Retained(p, c)
  <2>1. CASE \E p \in Plans : snap[p][b] # None
    <3>1. PICK p \in Plans : snap[p][b] # None
      BY <2>1
    <3>2. /\ current[p] # None /\ current[p].build = b /\ snap[p][b].gen = current[p].gen
          /\ snap[p][b].rev >= acked[b]
      BY <3>1 DEF FInv, Files, SnapshotsStand
    <3> QED BY <3>1, <3>2 DEF Ledger, Retained
  <2>2. CASE \E a \in arch : a.build = b /\ a.rev >= acked[b]
    <3>1. PICK a \in arch : a.build = b /\ a.rev >= acked[b]
      BY <2>2
    <3>2. a.plan \in Plans
      BY ArchiveTypes DEF FInv, Files
    <3>3. PICK c \in Ledger(a.plan) : a = ArchiveOf(a.plan, c) /\ c.why # None
      <4>1. CASE \E c \in history[a.plan] : a = ArchiveOf(a.plan, c)
        BY <3>2, <4>1 DEF Ledger, FInv, Files, EndsDecided
      <4>2. CASE /\ current[a.plan] # None /\ current[a.plan].state \in Transition
                 /\ a = ArchiveOf(a.plan, current[a.plan])
        <5>1. Stands(a.plan, current[a.plan]) /\ Keeps(a.plan, current[a.plan])
          BY <3>2, <4>2 DEF FInv, AInv, Records, Standing, Files, ClaimsKeep
        <5>2. current[a.plan].why # None
          BY <4>2, <5>1, NoneIsAbsence DEF Stands, Keeps, Sending
        <5> QED BY <4>2, <5>2 DEF Ledger
      <4> QED BY <3>2, <4>1, <4>2 DEF FInv, Files, ArchivesStand
    <3>4. c.build = b /\ c.rev >= acked[b]
      BY <3>1, <3>3 DEF ArchiveOf
    <3> QED BY <3>1, <3>2, <3>3, <3>4 DEF Retained
  <2> QED BY <1>1, <2>1, <2>2 DEF FInv, Files, AckedSaved
<1>2. ASSUME NEW p \in Plans, current[p] # None, current[p].state = "active"
      PROVE  /\ snap[p][current[p].build] # None
             /\ snap[p][current[p].build].rev >= acked[current[p].build]
  <2>1. current[p].build \in Builds /\ Keeps(p, current[p])
    BY <1>2 DEF FInv, AInv, Records, Typed, Claim, Files, ClaimsKeep
  <2> QED BY <1>2, <2>1 DEF Keeps, FInv, Files, SnapshotsStand
<1> QED BY <1>1, <1>2 DEF EvidenceReachable

\* Nothing a caller was told is saved is lost in a hand-over, however it is cut.
THEOREM EvidenceKeptAdopting == ASpec => []EvidenceReachable
BY FInvReachable, FilesInvariance, PTL

-----------------------------------------------------------------------------
(***************************************************************************)
(* The properties of steps.                                                *)
(***************************************************************************)

\* The evidence at an address stays and grows, or is in an archive.
Grows(p, b) ==
    \/ snap'[p][b] # None /\ snap'[p][b].rev >= snap[p][b].rev
    \/ [plan |-> p, build |-> b, gen |-> snap[p][b].gen, rev |-> snap[p][b].rev] \in arch'

LEMMA Unwritten ==
    ASSUME FilesTyped, NEW p \in Plans, NEW b \in Builds, snap[p][b] # None, snap'[p][b] = snap[p][b]
    PROVE  Grows(p, b)
BY FileTypes DEF Grows

\* What moves away is what the archive of the ending claim holds.
LEMMA MovedGrows ==
    ASSUME FInv, NEW q \in Plans, current[q] # None, current[q].state \in Transition,
           ArchiveOf(q, current[q]) \in arch, UNCHANGED arch,
           snap' = [snap EXCEPT ![q][current[q].build] = None],
           NEW p \in Plans, NEW b \in Builds, snap[p][b] # None
    PROVE  Grows(p, b)
<1>1. CASE q = p /\ current[q].build = b
  <2>1. snap[p][b].gen = current[p].gen /\ snap[p][b].rev = current[p].rev
    BY <1>1 DEF FInv, Files, SnapshotsStand, ClaimsKeep, Keeps, Ending
  <2> QED BY <1>1, <2>1 DEF ArchiveOf, Grows
<1>2. CASE q # p \/ current[q].build # b
  <2>1. snap'[p][b] = snap[p][b]
    BY <1>2 DEF FInv, Files, FilesTyped
  <2> QED BY <2>1, Unwritten DEF FInv, Files
<1> QED BY <1>1, <1>2

LEMMA ANextSnapshots ==
    ASSUME FInv, ANext, NEW p \in Plans, NEW b \in Builds, snap[p][b] # None
    PROVE  Grows(p, b)
<1>1. FilesTyped
  BY DEF FInv, Files
<1>2. ASSUME UNCHANGED snap PROVE Grows(p, b)
  BY <1>1, <1>2, Unwritten
<1>3. ASSUME NEW q \in Plans, NEW e \in Builds, NEW g \in Gens, NEW r \in Revs, Mutate(q, e, g, r)
      PROVE  Grows(p, b)
  <2>1. CASE q = p /\ e = b
    <3>1. /\ snap' = [snap EXCEPT ![p][b] = [gen |-> g, rev |-> r + 1]]
          /\ snap[p][b].rev = r /\ [gen |-> g, rev |-> r + 1] \in Snapshot
      BY <1>3, <2>1, ConstantsOK DEF Mutate, Snapshot
    <3>2. snap'[p][b] = [gen |-> g, rev |-> r + 1] /\ snap'[p][b] # None
      BY <1>1, <3>1, NoneIsAbsence DEF FilesTyped
    <3> QED BY <1>1, <3>1, <3>2, FileTypes DEF Grows
  <2>2. CASE q # p \/ e # b
    <3>1. snap'[p][b] = snap[p][b]
      BY <1>1, <1>3, <2>2 DEF Mutate, FilesTyped
    <3> QED BY <1>1, <3>1, Unwritten
  <2> QED BY <2>1, <2>2
<1>4. ASSUME NEW s \in Sessions, NEW q \in Plans, FinishSnapshot(s, q) PROVE Grows(p, b)
  <2>1. snap'[p][b] = snap[p][b]
    BY <1>1, <1>4 DEF FinishSnapshot, Saved, FilesTyped
  <2> QED BY <1>1, <2>1, Unwritten
<1>5. ASSUME NEW s \in Sessions, NEW q \in Plans, RetireMove(s, q) PROVE Grows(p, b)
  <2>1. /\ Holds(s, q, "move") /\ UNCHANGED arch
        /\ snap' = [snap EXCEPT ![q][current[q].build] = None]
    BY <1>5 DEF RetireMove
  <2>2. current[q] # None /\ current[q].state = "retiring" /\ ArchiveOf(q, current[q]) \in arch
    BY <2>1, LeaseFiles DEF LeaseFlies, LeaseCarries, LeaseSteps
  <2> QED BY <2>1, <2>2, MovedGrows
<1>6. ASSUME NEW s \in Sessions, AdoptSnapshot(s) PROVE Grows(p, b)
  <2>1. snap'[p][b] = snap[p][b]
    BY <1>1, <1>6 DEF AdoptSnapshot, FilesTyped
  <2> QED BY <1>1, <2>1, Unwritten
<1>7. ASSUME NEW s \in Sessions, AdoptMove(s) PROVE Grows(p, b)
  <2> DEFINE q == op[s].plan
  <2> DEFINE a == op[s].ask
  <2>1. Adopting(s, "a.move") /\ "a.move" \in AdoptSteps /\ UNCHANGED arch
    BY <1>7 DEF AdoptMove, AdoptSteps
  <2>2. /\ op[s].step = "a.move" /\ q \in Plans /\ AdoptFlies(op[s]) /\ AdoptCarries(op[s])
        /\ current[q] # None => /\ current[q].state = "transferring" /\ current[q].build = a.build
                                /\ a = ArchiveOf(q, current[q])
    BY <2>1, AdoptFiles
  <2>3. current[q] # None /\ a \in arch
    BY <2>2 DEF AdoptFlies, AdoptCarries
  <2>4. snap' = [snap EXCEPT ![q][current[q].build] = None]
    BY <1>7, <2>2, <2>3 DEF AdoptMove
  <2> QED BY <2>1, <2>2, <2>3, <2>4, MovedGrows
<1>8. CASE Next
  <2>1. ASSUME NEW q \in Plans, PlanStep(q) PROVE Grows(p, b)
    BY <1>2, <1>3, <2>1 DEF PlanStep, Reserve, RetireRefused, ClosePlan
  <2>2. ASSUME NEW s \in Sessions, NEW q \in Plans, Finish(s, q) PROVE Grows(p, b)
    BY <1>2, <1>4, <2>2 DEF Finish, FinishLocator, FinishActivate
  <2>3. ASSUME NEW s \in Sessions, NEW q \in Plans, Retire(s, q) PROVE Grows(p, b)
    BY <1>2, <1>5, <2>3 DEF Retire, RetireJournal, RetireArchive, RetireRelease
  <2>4. ASSUME NEW s \in Sessions, Crash(s) PROVE Grows(p, b)
    BY <1>2, <2>4 DEF Crash
  <2> QED BY <1>8, <2>1, <2>2, <2>3, <2>4 DEF Next
<1>9. ASSUME NEW e \in Lineage, NEW a \in Asks(e[1]),
             \/ AdoptRestore(a, e[2]) \/ AdoptRepeat(a, e[2])
             \/ \E s \in Sessions : AdoptJournal(s, a, e[2])
      PROVE  Grows(p, b)
  BY <1>2, <1>9 DEF AdoptRestore, AdoptRepeat, AdoptJournal
<1>10. ASSUME NEW s \in Sessions, AdoptWrite(s) PROVE Grows(p, b)
  BY <1>2, <1>6, <1>7, <1>10 DEF AdoptWrite, AdoptReserve, AdoptArchive, AdoptRelease, AdoptLocator,
     AdoptActivate
<1> QED BY <1>8, <1>9, <1>10 DEF ANext

\* Evidence is never rewound, nor removed before its archive exists, by an adoption
\* either.
THEOREM NeverRewoundAdopting == ASpec => SnapshotNeverRewound
<1> DEFINE A == \A p \in Plans, b \in Builds : snap[p][b] # None => Grows(p, b)
<1>1. FInv /\ [ANext]_vars => [A]_snap
  BY ANextSnapshots DEF vars
<1> HIDE DEF A
<1>2. ASpec => [][A]_snap
  BY <1>1, FilesInvariance, PTL DEF ASpec
<1> QED BY <1>2 DEF A, Grows, SnapshotNeverRewound

\* No entry of the plan is dropped, and its closure is not undone.
Stays(p) ==
    /\ history[p] \subseteq history'[p]
    /\ closure[p] # None => closure'[p] = closure[p]

\* A release adds to the history of its plan, which was open.
LEMMA ReleaseAdds ==
    ASSUME AInv, NEW p \in Plans, current[p] # None, NEW h, NEW how,
           history' = [history EXCEPT ![p] = @ \cup {h}], closure' = [closure EXCEPT ![p] = how]
    PROVE  \A q \in Plans : Stays(q)
<1>1. closure[p] = None
  BY DEF AInv, Records, ClosedPlansOwnNothing
<1> QED BY <1>1 DEF AInv, Records, Typed, Stays

LEMMA ANextEnded ==
    ASSUME FInv, ANext, NEW p \in Plans
    PROVE  Stays(p)
<1>1. ASSUME NEW q \in Plans, NEW how \in Closures, ClosePlan(q, how) PROVE Stays(p)
  BY <1>1 DEF ClosePlan, Open, FInv, AInv, Records, Typed, Stays
<1>2. ASSUME NEW s \in Sessions, NEW q \in Plans, RetireRelease(s, q) PROVE Stays(p)
  <2>1. Holds(s, q, "release")
    BY <1>2 DEF RetireRelease
  <2>2. current[q] # None
    BY <2>1, LeaseFiles DEF LeaseSteps
  <2>3. PICK h, how : /\ history' = [history EXCEPT ![q] = @ \cup {h}]
                      /\ closure' = [closure EXCEPT ![q] = how]
    BY <1>2 DEF RetireRelease
  <2> QED BY <2>2, <2>3, ReleaseAdds DEF FInv
<1>3. ASSUME NEW s \in Sessions, AdoptRelease(s) PROVE Stays(p)
  <2> DEFINE q == op[s].plan
  <2>1. Adopting(s, "a.release") /\ "a.release" \in AdoptSteps
    BY <1>3 DEF AdoptRelease, AdoptSteps
  <2>2. q \in Plans /\ op[s].step = "a.release" /\ AdoptFlies(op[s])
    BY <2>1, AdoptFiles
  <2>3. current[q] # None
    BY <2>2 DEF AdoptFlies
  <2>4. PICK h, how : /\ history' = [history EXCEPT ![q] = @ \cup {h}]
                      /\ closure' = [closure EXCEPT ![q] = how]
    BY <1>3 DEF AdoptRelease
  <2> QED BY <2>2, <2>3, <2>4, ReleaseAdds DEF FInv
<1>4. ASSUME UNCHANGED <<history, closure>> PROVE Stays(p)
  BY <1>4 DEF Stays
<1>5. CASE Next
  <2>1. ASSUME NEW q \in Plans, PlanStep(q) PROVE Stays(p)
    BY <1>1, <1>4, <2>1 DEF PlanStep, Reserve, Mutate, RetireRefused
  <2>2. ASSUME NEW s \in Sessions, NEW q \in Plans, Finish(s, q) PROVE Stays(p)
    BY <1>4, <2>2 DEF Finish, FinishSnapshot, FinishLocator, FinishActivate
  <2>3. ASSUME NEW s \in Sessions, NEW q \in Plans, Retire(s, q) PROVE Stays(p)
    BY <1>2, <1>4, <2>3 DEF Retire, RetireJournal, RetireArchive, RetireMove
  <2>4. ASSUME NEW s \in Sessions, Crash(s) PROVE Stays(p)
    BY <1>4, <2>4 DEF Crash
  <2> QED BY <1>5, <2>1, <2>2, <2>3, <2>4 DEF Next
<1>6. ASSUME NEW e \in Lineage, NEW a \in Asks(e[1]),
             \/ AdoptRestore(a, e[2]) \/ AdoptRepeat(a, e[2])
             \/ \E s \in Sessions : AdoptJournal(s, a, e[2])
      PROVE  Stays(p)
  BY <1>4, <1>6 DEF AdoptRestore, AdoptRepeat, AdoptJournal
<1>7. ASSUME NEW s \in Sessions, AdoptWrite(s) PROVE Stays(p)
  BY <1>3, <1>4, <1>7 DEF AdoptWrite, AdoptReserve, AdoptSnapshot, AdoptArchive, AdoptMove,
     AdoptLocator, AdoptActivate
<1> QED BY <1>5, <1>6, <1>7 DEF ANext

\* A late call that names an ended identity is refused, also where generations come
\* from another plan.
LEMMA EndedNotObeyedAdopting ==
    ASSUME FInv, NEW p \in Plans, NEW c \in history[p]
    PROVE  ~Obeyed(p, c.build, c.gen)
<1>1. current[p] # None => current[p].gen # c.gen
  BY RecordTypes DEF FInv, AInv, Records, Ages
<1> QED BY <1>1 DEF Obeyed, Mutate, RetireJournal, CanRetire, RetireRefused

\* Adoption undoes no ending: entries, closures and ended identities are final, and
\* no late call that names one has an effect.
THEOREM EndedIsFinalAdopting == ASpec => EndedStaysEnded
<1> DEFINE A == \A p \in Plans :
          /\ history[p] \subseteq history'[p]
          /\ closure[p] # None => closure'[p] = closure[p]
          /\ current'[p] # None => \A c \in history[p] : c.gen < current'[p].gen
          /\ \A c \in history[p] : ~Obeyed(p, c.build, c.gen)
<1>1. ASSUME FInv, FInv', ANext, NEW p \in Plans, current'[p] # None
      PROVE  \A c \in history[p] : c.gen < current'[p].gen
  BY <1>1, ANextEnded DEF FInv, AInv, Records, Ages, Stays
<1>2. FInv /\ FInv' /\ [ANext]_vars => [A]_<<history, closure, current, snap>>
  BY <1>1, ANextEnded, EndedNotObeyedAdopting DEF vars, Stays
<1> HIDE DEF A
<1>3. ASpec => [][A]_<<history, closure, current, snap>>
  BY <1>2, FilesInvariance, PTL DEF ASpec
<1> QED BY <1>3 DEF A, EndedStaysEnded

\* The locators are as they were, but the one of claim c, which now names it.
Registers(q, c) == loc' = [l \in Locators |-> IF l = c.loc THEN LocatorValue(q, c) ELSE loc[l]]

\* Only registering a claim writes a locator: unused, of an ended claim of that plan
\* or, in an adoption, of the predecessor's.
LEMMA LeaseLocator ==
    ASSUME FInv, Next, loc' # loc
    PROVE  \E p \in Plans : /\ current[p] # None /\ Registers(p, current[p])
                            /\ LocatorFree(p, current[p].loc, Ledger(p))
<1>1. PICK s \in Sessions, p \in Plans : FinishLocator(s, p)
  BY LocatorWritten
<1>2. current[p] # None
  BY <1>1, LeaseFiles DEF FinishLocator, LeaseSteps
<1> QED BY <1>1, <1>2 DEF FinishLocator, Registers

\* What an adoption overwrites is its own value, or an ended claim's of its Build.
Succeeds(q, n, p) ==
    /\ Registers(q, n)
    /\ n.loc # None => \/ loc[n.loc] \in {None, LocatorValue(q, n)}
                       \/ \E o \in history[p] : o.build = n.build /\ loc[n.loc] = LocatorValue(p, o)

LEMMA RepeatLocator ==
    ASSUME FInv, NEW p \in Plans, NEW q \in Plans, NEW a \in Asks(p), AdoptRepeat(a, q)
    PROVE  current[q] # None /\ Succeeds(q, current[q], p)
<1>1. PICK o \in Sources(a) :
         LET n == NewClaim(o, a, q)
         IN /\ Reserved(n, q) /\ current[q].state = "active"
            /\ o.loc # None => loc[o.loc] \in {None, LocatorValue(a.plan, o), LocatorValue(q, n)}
            /\ loc' = [l \in Locators |-> IF l = o.loc THEN LocatorValue(q, n) ELSE loc[l]]
  BY DEF AdoptRepeat
<1>2. a.plan = p /\ o \in history[p] /\ current[q] # None /\ current[q] \in Claim
  BY <1>1 DEF AdoptRepeat, Asks, Sources, Released, Reserved, FInv, AInv, Records, Typed
<1> DEFINE n == NewClaim(o, a, q)
<1>3. /\ n.build = o.build /\ n.loc = o.loc
      /\ n = [current[q] EXCEPT !.state = "preparing"]
  BY <1>1 DEF NewClaim, Reserved
<1>4. /\ n.build = current[q].build /\ n.gen = current[q].gen /\ n.loc = current[q].loc
  BY <1>2, <1>3 DEF Claim
<1>5. LocatorValue(q, n) = LocatorValue(q, current[q])
  BY <1>4 DEF LocatorValue
<1> QED BY <1>1, <1>2, <1>3, <1>4, <1>5 DEF Succeeds, Registers

LEMMA AdoptLocatorWrites ==
    ASSUME FInv, NEW s \in Sessions, AdoptLocator(s), loc' # loc
    PROVE  \E p, q \in Plans : current[q] # None /\ Succeeds(q, current[q], p)
<1> DEFINE a == op[s].ask
<1> DEFINE p == op[s].plan
<1> DEFINE q == op[s].to
<1>1. Adopting(s, "a.locator") /\ "a.locator" \in AdoptSteps
  BY DEF AdoptLocator, AdoptSteps
<1>2. /\ op[s].step = "a.locator" /\ AdoptFlies(op[s]) /\ AdoptCarries(op[s])
      /\ p \in Plans /\ q \in Plans /\ a.plan = p
      /\ current[q] # None => current[q].build = a.build
  BY <1>1, AdoptFiles
<1>3. current[p] = None /\ current[q] # None
  BY <1>2 DEF AdoptFlies
<1>4. \E o \in history[p] : o.build = a.build /\ o.gen = a.gen
  BY <1>2, <1>3 DEF AdoptCarries
<1>5. TheSource(a) \in history[p] /\ TheSource(a).build = a.build
  BY <1>2, <1>3, <1>4 DEF TheSource, Sources
<1>6. /\ Registers(q, current[q])
      /\ current[q].loc # None =>
            loc[current[q].loc] \in {None, LocatorValue(p, TheSource(a)), LocatorValue(q, current[q])}
  BY <1>2 DEF AdoptLocator, Registers
<1> QED BY <1>2, <1>3, <1>5, <1>6 DEF Succeeds

\* The overwritten value is older, of the same plan or the same Build.
LEMMA RegistersNewer ==
    ASSUME FInv, NEW q \in Plans, current[q] # None, Registers(q, current[q]),
           NEW l \in Locators, loc[l] # None, loc'[l] # loc[l],
           \/ LocatorFree(q, current[q].loc, Ledger(q))
           \/ \E p \in Plans : Succeeds(q, current[q], p)
    PROVE  /\ loc'[l] # None /\ loc'[l].gen > loc[l].gen
           /\ loc'[l].plan = loc[l].plan \/ loc'[l].build = loc[l].build
<1> DEFINE c == current[q]
<1>1. c \in Claim /\ c.gen \in Int
  BY RecordTypes DEF FInv, AInv, Records, Typed
<1>2. c.loc = l /\ loc'[l] = LocatorValue(q, c) /\ l # None
  BY NoneIsAbsence DEF Registers
<1>3. LocatorValue(q, c) \in Locator /\ LocatorValue(q, c) # None
  BY <1>1, NoneIsAbsence DEF LocatorValue, Locator, Claim
<1>4. PICK p \in Plans : \E d \in history[p] :
         loc[l] = LocatorValue(p, d) /\ (p = q \/ d.build = c.build)
  <2>1. CASE LocatorFree(q, c.loc, Ledger(q))
    BY <1>2, <2>1 DEF LocatorFree, Ledger
  <2>2. CASE \E p \in Plans : Succeeds(q, c, p)
    BY <1>2, <2>2 DEF Succeeds
  <2> QED BY <2>1, <2>2
<1>5. PICK d \in history[p] : loc[l] = LocatorValue(p, d) /\ (p = q \/ d.build = c.build)
  BY <1>4
<1>6. d.gen < c.gen /\ d.gen \in Int
  BY <1>5, RecordTypes DEF FInv, AInv, Records, Newest, Ages
<1> QED BY <1>1, <1>2, <1>3, <1>5, <1>6 DEF LocatorValue

LEMMA ANextLocator ==
    ASSUME FInv, ANext, NEW l \in Locators, loc[l] # None, loc'[l] # loc[l]
    PROVE  /\ loc'[l] # None /\ loc'[l].gen > loc[l].gen
           /\ loc'[l].plan = loc[l].plan \/ loc'[l].build = loc[l].build
<1> DEFINE Written == \E q \in Plans : 
               /\ current[q] # None /\ Registers(q, current[q])
               /\ \/ LocatorFree(q, current[q].loc, Ledger(q))
                  \/ \E p \in Plans : Succeeds(q, current[q], p)
<1>1. loc' # loc
  OBVIOUS
<1>2. CASE Next
  <2>1. Written
    BY <1>1, <1>2, LeaseLocator
  <2> QED BY <2>1, RegistersNewer
<1>3. ASSUME NEW e \in Lineage, NEW a \in Asks(e[1]),
             \/ AdoptRestore(a, e[2]) \/ AdoptRepeat(a, e[2])
             \/ \E s \in Sessions : AdoptJournal(s, a, e[2])
      PROVE  Written
  <2>1. e[1] \in Plans /\ e[2] \in Plans
    BY LineageOK
  <2>2. AdoptRepeat(a, e[2])
    BY <1>1, <1>3 DEF AdoptRestore, AdoptJournal
  <2>3. current[e[2]] # None /\ Succeeds(e[2], current[e[2]], e[1])
    BY <2>1, <2>2, RepeatLocator
  <2> QED BY <2>1, <2>3 DEF Succeeds
<1>4. ASSUME NEW s \in Sessions, AdoptWrite(s) PROVE Written
  <2>1. AdoptLocator(s)
    BY <1>1, <1>4 DEF AdoptWrite, AdoptReserve, AdoptSnapshot, AdoptArchive, AdoptMove, AdoptRelease,
       AdoptActivate
  <2>2. PICK p, q \in Plans : current[q] # None /\ Succeeds(q, current[q], p)
    BY <1>1, <2>1, AdoptLocatorWrites
  <2> QED BY <2>2 DEF Succeeds
<1>5. CASE ~Next
  <2>1. Written
    BY <1>3, <1>4, <1>5 DEF ANext
  <2> QED BY <2>1, RegistersNewer
<1> QED BY <1>2, <1>5

\* A locator follows its Build to the successor, and never back.
THEOREM LocatorsMoveForwardAdopting == ASpec => LocatorMovesForward
<1> DEFINE A == \A l \in Locators : loc[l] # None /\ loc'[l] # loc[l] =>
          /\ loc'[l] # None /\ loc'[l].gen > loc[l].gen
          /\ loc'[l].plan = loc[l].plan \/ loc'[l].build = loc[l].build
<1>1. FInv /\ [ANext]_vars => [A]_loc
  BY ANextLocator DEF vars
<1> HIDE DEF A
<1>2. ASpec => [][A]_loc
  BY <1>1, FilesInvariance, PTL DEF ASpec
<1> QED BY <1>2 DEF A, LocatorMovesForward

-----------------------------------------------------------------------------
(***************************************************************************)
(* The refinement: owner, status and evidence of a Build, as the records and *)
(* files give them.                                                        *)
(***************************************************************************)

\* Plan p owns Build b: it holds it, and any other holder is still being handed it.
Owning(p, b) ==
    /\ current[p] # None /\ current[p].build = b
    /\ \A q \in Plans \ {p} :
          current[q] # None /\ current[q].build = b => current[p].state = "transferring"

Disowned(b) == \A p \in Plans : current[p] # None => current[p].build # b

Phase(c) ==
    CASE c.state = "preparing" -> IF c.xfer = None THEN "reserved" ELSE "moving"
      [] c.state = "active" -> "live"
      [] c.state = "transferring" -> "moving"
      [] c.state = "retiring" -> "ending"

\* The last revision among those kept.
LastOf(S) == CHOOSE r \in S : \A t \in S : r >= t

OwnersRead ==
    /\ \A b \in Builds, p \in Plans :
          Owning(p, b) => OwnerOf(b) = p /\ StatusOf(b) = Phase(current[p])
    /\ \A b \in Builds : Disowned(b) =>
          OwnerOf(b) = None /\ StatusOf(b) = IF b \in Minted THEN "over" ELSE "unborn"
    /\ \A b \in Builds : Disowned(b) \/ \E p \in Plans : Owning(p, b)

MintedRead ==
    \A b : b \in Minted <=> \E p \in Plans : \/ current[p] # None /\ current[p].build = b
                                             \/ \E c \in history[p] : c.build = b

KeptRead ==
    \A b, r : r \in KeptRevisions(b) <=>
        \/ r = 0
        \/ \E p \in Plans : snap[p][b] # None /\ snap[p][b].rev = r
        \/ \E a \in arch : a.build = b /\ a.rev = r

EvidenceRead ==
    /\ \A b \in Builds : EvidenceOf(b) = LastOf(KeptRevisions(b))
    /\ \A b \in Builds, p \in Plans :
          (snap[p][b] # None /\ \A q \in Plans : snap[q][b] # None => snap[q][b].rev <= snap[p][b].rev) =>
             EvidenceOf(b) = snap[p][b].rev /\ EvidenceOf(b) > 0
    /\ \A b \in Builds :
          ((\A p \in Plans : snap[p][b] = None) /\ \A a \in arch : a.build # b) => EvidenceOf(b) = 0

LEMMA OwnersReading == FInv => OwnersRead
<1> SUFFICES ASSUME FInv PROVE OwnersRead
  OBVIOUS
<1>1. ASSUME NEW b \in Builds, NEW p \in Plans, Owning(p, b)
      PROVE  OwnerOf(b) = p /\ StatusOf(b) = Phase(current[p])
  <2>1. p \in Owners(b) /\ b \in Minted
    BY <1>1 DEF Owning, Owners, Minted, Ledger
  <2>2. ASSUME NEW o \in Owners(b) \ {p} PROVE current[o].state # "transferring"
    BY <1>1, <2>2, Shared DEF Owning, Owners, FInv, AInv
  <2>3. ASSUME NEW q \in OwnersProper(b) PROVE q = p
    BY <1>1, <2>1, <2>3 DEF OwnersProper, Owners, Owning
  <2>4. p \in OwnersProper(b)
    BY <2>1, <2>2 DEF OwnersProper
  <2>5. OwnerOf(b) = p
    BY <2>1, <2>3, <2>4 DEF OwnerOf
  <2>6. p # None
    BY NoneIsAbsence
  <2> QED BY <2>1, <2>5, <2>6 DEF StatusOf, Phase
<1>2. ASSUME NEW b \in Builds, Disowned(b)
      PROVE  OwnerOf(b) = None /\ StatusOf(b) = IF b \in Minted THEN "over" ELSE "unborn"
  <2>1. OwnerOf(b) = None
    BY <1>2 DEF Disowned, OwnerOf, Owners
  <2> QED BY <2>1 DEF StatusOf
<1>3. ASSUME NEW b \in Builds, ~Disowned(b) PROVE \E p \in Plans : Owning(p, b)
  <2>1. PICK p \in Plans : current[p] # None /\ current[p].build = b
    BY <1>3 DEF Disowned
  <2>2. CASE \E q \in Plans \ {p} : current[q] # None /\ current[q].build = b
    BY <2>1, <2>2 DEF Owning, FInv, AInv, Records, OneOwner
  <2> QED BY <2>1, <2>2 DEF Owning
<1> QED BY <1>1, <1>2, <1>3 DEF OwnersRead

LEMMA MintedReading == MintedRead
BY DEF Minted, Ledger, MintedRead

LEMMA KeptReading == KeptRead
BY DEF KeptRevisions, KeptRead

LEMMA EvidenceReading == FInv => EvidenceRead
<1> SUFFICES ASSUME FInv PROVE EvidenceRead
  OBVIOUS
<1>1. ASSUME NEW b \in Builds PROVE EvidenceOf(b) = LastOf(KeptRevisions(b))
  BY DEF EvidenceOf, LastOf
<1>2. ASSUME NEW b \in Builds, NEW m \in KeptRevisions(b), m \in Int,
             \A t \in KeptRevisions(b) : t \in Int /\ m >= t
      PROVE  EvidenceOf(b) = m
  <2>1. EvidenceOf(b) \in KeptRevisions(b) /\ \A t \in KeptRevisions(b) : EvidenceOf(b) >= t
    BY <1>2 DEF EvidenceOf
  <2> DEFINE e == EvidenceOf(b)
  <2>2. e \in KeptRevisions(b) /\ e >= m
    BY <2>1
  <2> HIDE DEF e
  <2>3. e \in Int /\ m >= e
    BY <1>2, <2>2
  <2>4. e = m
    BY <1>2, <2>2, <2>3
  <2> QED BY <2>4 DEF e
<1>3. ASSUME NEW b \in Builds, NEW p \in Plans, snap[p][b] # None,
             \A q \in Plans : snap[q][b] # None => snap[q][b].rev <= snap[p][b].rev
      PROVE  EvidenceOf(b) = snap[p][b].rev /\ EvidenceOf(b) > 0
  <2> DEFINE m == snap[p][b].rev
  <2>1. m \in KeptRevisions(b) /\ m \in Int /\ m > 0
    BY <1>3, KeptReading, FileTypes DEF KeptRead, FInv, Files
  <2>2. ASSUME NEW t \in KeptRevisions(b) PROVE t \in Int /\ m >= t
    <3>1. CASE t = 0
      BY <2>1, <3>1
    <3>2. CASE \E q \in Plans : snap[q][b] # None /\ snap[q][b].rev = t
      BY <1>3, <3>2, FileTypes DEF FInv, Files
    <3>3. CASE \E a \in arch : a.build = b /\ a.rev = t
      <4>1. PICK a \in arch : a.build = b /\ a.rev = t
        BY <3>3
      <4>2. t \in Int
        BY <4>1, ArchiveTypes DEF FInv, Files
      <4> QED BY <1>3, <4>1, <4>2 DEF FInv, Files, SnapshotsStand
    <3> QED BY <3>1, <3>2, <3>3, KeptReading DEF KeptRead
  <2> QED BY <1>2, <2>1, <2>2
<1>4. ASSUME NEW b \in Builds, \A p \in Plans : snap[p][b] = None, \A a \in arch : a.build # b
      PROVE  EvidenceOf(b) = 0
  <2>1. 0 \in KeptRevisions(b) /\ \A t \in KeptRevisions(b) : t = 0
    BY <1>4, KeptReading DEF KeptRead
  <2> QED BY <1>2, <2>1
<1> QED BY <1>1, <1>3, <1>4 DEF EvidenceRead

\* The same of the next state.
LEMMA NextReading ==
    ASSUME FInv'
    PROVE  OwnersRead' /\ MintedRead' /\ KeptRead' /\ EvidenceRead'
<1>1. OwnersRead'
  BY OwnersReading, PTL
<1>2. MintedRead'
  BY MintedReading, PTL
<1>3. KeptRead'
  BY KeptReading, PTL
<1>4. EvidenceRead'
  BY EvidenceReading, PTL
<1> QED BY <1>1, <1>2, <1>3, <1>4

\* A step of the files and records is a step of ownership, or none.
Refines == [Ownership!ANext]_(Ownership!avars)

SameOwner(b) == OwnerOf(b)' = OwnerOf(b) /\ StatusOf(b)' = StatusOf(b)

SameEvidence(b) == EvidenceOf(b)' = EvidenceOf(b)

Same(b) == SameOwner(b) /\ SameEvidence(b)

SameBut(b) == \A x \in Builds \ {b} : Same(x)

LEMMA Stutters ==
    ASSUME \A b \in Builds : Same(b)
    PROVE  Refines
BY DEF Refines, Same, SameOwner, SameEvidence, Ownership!avars

LEMMA Binds ==
    ASSUME NEW b \in Builds, SameBut(b), NEW p \in Plans, \A x \in Builds : OwnerOf(x) # p,
           StatusOf(b) = "unborn", StatusOf(b)' = "reserved", OwnerOf(b)' = p, SameEvidence(b)
    PROVE  Refines
<1>1. Ownership!Bind(b, p)
  BY DEF SameBut, Same, SameOwner, SameEvidence, Ownership!Bind, Ownership!Owns
<1> QED BY <1>1 DEF Refines, Ownership!ANext

LEMMA WritesFirst ==
    ASSUME NEW b \in Builds, SameBut(b), SameOwner(b),
           StatusOf(b) = "reserved", EvidenceOf(b) = 0, EvidenceOf(b)' = 1
    PROVE  Refines
<1>1. Ownership!FirstEvidence(b)
  BY DEF SameBut, Same, SameOwner, SameEvidence, Ownership!FirstEvidence
<1> QED BY <1>1 DEF Refines, Ownership!ANext

LEMMA WritesNext ==
    ASSUME NEW b \in Builds, SameBut(b), SameOwner(b),
           StatusOf(b) \in {"live", "moving"}, EvidenceOf(b)' = EvidenceOf(b) + 1
    PROVE  Refines
<1>1. Ownership!Write(b) \/ Ownership!Copy(b)
  BY DEF SameBut, Same, SameOwner, SameEvidence, Ownership!Write, Ownership!Copy
<1> QED BY <1>1 DEF Refines, Ownership!ANext

\* Where an owned Build may go while its owner stays.
LEMMA Proceeds ==
    ASSUME NEW b \in Builds, SameBut(b), OwnerOf(b)' = OwnerOf(b), SameEvidence(b),
           \/ StatusOf(b)' = StatusOf(b)
           \/ /\ StatusOf(b) \in {"reserved", "moving"} /\ EvidenceOf(b) > 0
              /\ StatusOf(b)' = "live"
           \/ StatusOf(b) = "live" /\ StatusOf(b)' = "moving"
           \/ StatusOf(b) \in {"reserved", "live"} /\ StatusOf(b)' = "ending"
    PROVE  Refines
<1>1. CASE StatusOf(b)' = StatusOf(b)
  BY <1>1, Stutters DEF SameBut, Same, SameOwner
<1>2. CASE /\ StatusOf(b) \in {"reserved", "moving"} /\ EvidenceOf(b) > 0
           /\ StatusOf(b)' = "live"
  <2>1. Ownership!GoLive(b)
    BY <1>2 DEF SameBut, Same, SameOwner, SameEvidence, Ownership!GoLive
  <2> QED BY <2>1 DEF Refines, Ownership!ANext
<1>3. CASE StatusOf(b) = "live" /\ StatusOf(b)' = "moving"
  <2>1. Ownership!BeginMove(b)
    BY <1>3 DEF SameBut, Same, SameOwner, SameEvidence, Ownership!BeginMove
  <2> QED BY <2>1 DEF Refines, Ownership!ANext
<1>4. CASE StatusOf(b) \in {"reserved", "live"} /\ StatusOf(b)' = "ending"
  <2>1. Ownership!BeginEnd(b)
    BY <1>4 DEF SameBut, Same, SameOwner, SameEvidence, Ownership!BeginEnd
  <2> QED BY <2>1 DEF Refines, Ownership!ANext
<1> QED BY <1>1, <1>2, <1>3, <1>4

LEMMA HandsOver ==
    ASSUME NEW b \in Builds, SameBut(b), SameEvidence(b), NEW q \in Plans,
           \A x \in Builds : OwnerOf(x) # q,
           StatusOf(b) = "moving", StatusOf(b)' = "moving", OwnerOf(b)' = q
    PROVE  Refines
<1>1. Ownership!HandOver(b, q)
  BY DEF SameBut, Same, SameOwner, SameEvidence, Ownership!HandOver, Ownership!Owns
<1> QED BY <1>1 DEF Refines, Ownership!ANext

LEMMA Ends ==
    ASSUME NEW b \in Builds, SameBut(b), SameEvidence(b),
           StatusOf(b) = "ending", StatusOf(b)' = "over", OwnerOf(b)' = None
    PROVE  Refines
<1>1. Ownership!End(b)
  BY DEF SameBut, Same, SameOwner, SameEvidence, Ownership!End
<1> QED BY <1>1 DEF Refines, Ownership!ANext

-----------------------------------------------------------------------------
(***************************************************************************)
(* What stays the same.                                                    *)
(***************************************************************************)

\* A Build whose files are as they were.
LEMMA FilesAside ==
    ASSUME FInv, FInv', NEW b \in Builds, \A r : r \in KeptRevisions(b)' <=> r \in KeptRevisions(b)
    PROVE  SameEvidence(b)
<1>1. EvidenceOf(b) = LastOf(KeptRevisions(b)) /\ EvidenceOf(b)' = LastOf(KeptRevisions(b)')
  <2>1. EvidenceRead /\ EvidenceRead'
    BY EvidenceReading, NextReading
  <2> QED BY <2>1 DEF EvidenceRead, LastOf
<1>2. KeptRevisions(b)' = KeptRevisions(b)
  <2>1. \A r : r \in KeptRevisions(b)' <=> r \in KeptRevisions(b)
    OBVIOUS
  <2> QED BY <2>1 DEF KeptRevisions
<1> QED BY <1>1, <1>2 DEF SameEvidence

LEMMA FilesUnchanged ==
    ASSUME FInv, FInv', UNCHANGED <<snap, arch>>
    PROVE  \A b \in Builds : SameEvidence(b)
<1> TAKE b \in Builds
<1>1. \A r : r \in KeptRevisions(b)' <=> r \in KeptRevisions(b)
  BY DEF KeptRevisions
<1> QED BY <1>1, FilesAside

\* A Build whose claims are as they were.
LEMMA ClaimsAside ==
    ASSUME FInv, FInv', NEW b \in Builds,
           \A p \in Plans :
              /\ \/ current'[p] = current[p]
                 \/ /\ current[p] # None => current[p].build # b
                    /\ current'[p] # None => current'[p].build # b
              /\ \A c \in history'[p] : c \in history[p] \/ c.build # b
              /\ history[p] \subseteq history'[p]
    PROVE  SameOwner(b)
<1>1. OwnersRead /\ OwnersRead' /\ MintedRead /\ MintedRead'
  BY OwnersReading, MintedReading, NextReading
<1>2. ASSUME NEW p \in Plans, \/ current[p] # None /\ current[p].build = b
                              \/ current'[p] # None /\ current'[p].build = b
      PROVE  current'[p] = current[p]
  BY <1>2
<1>3. b \in Minted' <=> b \in Minted
  BY <1>1, <1>2 DEF MintedRead
<1>4. CASE Disowned(b)
  <2>1. Disowned(b)'
    BY <1>2, <1>4 DEF Disowned
  <2> QED BY <1>1, <1>3, <1>4, <2>1 DEF OwnersRead, SameOwner
<1>5. ASSUME NEW p \in Plans, Owning(p, b) PROVE SameOwner(b)
  <2>1. current'[p] = current[p]
    BY <1>2, <1>5 DEF Owning
  <2>2. Owning(p, b)'
    BY <1>2, <1>5, <2>1 DEF Owning
  <2>3. Phase(current[p])' = Phase(current[p])
    BY <2>1 DEF Phase
  <2> QED BY <1>1, <1>5, <2>2, <2>3 DEF OwnersRead, SameOwner
<1> QED BY <1>1, <1>4, <1>5 DEF OwnersRead

\* A plan that owns nothing is nobody's owner.
LEMMA OwnsNothing ==
    ASSUME FInv, NEW p \in Plans, \A b \in Builds : ~Owning(p, b)
    PROVE  \A b \in Builds : OwnerOf(b) # p
<1> SUFFICES ASSUME NEW b \in Builds PROVE OwnerOf(b) # p
  OBVIOUS
<1>1. OwnersRead
  BY OwnersReading
<1>2. CASE Disowned(b)
  BY <1>1, <1>2, NoneIsAbsence DEF OwnersRead
<1>3. ASSUME NEW q \in Plans, Owning(q, b) PROVE OwnerOf(b) # p
  BY <1>1, <1>3 DEF OwnersRead
<1> QED BY <1>1, <1>2, <1>3 DEF OwnersRead

\* Neither files nor records change.
LEMMA NothingHappens ==
    ASSUME FInv, FInv', UNCHANGED <<current, history, snap, arch>>
    PROVE  Refines
<1>1. \A b \in Builds : SameEvidence(b)
  BY FilesUnchanged
<1>2. \A b \in Builds : SameOwner(b)
  BY ClaimsAside
<1> QED BY <1>1, <1>2, Stutters DEF Same

\* Only the claim of p, of Build b before and after, changes.
LEMMA OthersAside ==
    ASSUME FInv, FInv', NEW p \in Plans, NEW b \in Builds,
           \A q \in Plans \ {p} : current'[q] = current[q],
           current[p] # None => current[p].build = b, current'[p] # None => current'[p].build = b,
           \A q \in Plans : /\ \A c \in history'[q] : c \in history[q] \/ c.build = b
                            /\ history[q] \subseteq history'[q],
           UNCHANGED <<snap, arch>>
    PROVE  SameBut(b) /\ SameEvidence(b)
<1>1. \A x \in Builds : SameEvidence(x)
  BY FilesUnchanged
<1>2. ASSUME NEW x \in Builds \ {b} PROVE SameOwner(x)
  <2>1. ASSUME NEW q \in Plans
        PROVE  /\ \/ current'[q] = current[q]
                  \/ /\ current[q] # None => current[q].build # x
                     /\ current'[q] # None => current'[q].build # x
               /\ \A c \in history'[q] : c \in history[q] \/ c.build # x
               /\ history[q] \subseteq history'[q]
    OBVIOUS
  <2> QED BY <2>1, ClaimsAside
<1> QED BY <1>1, <1>2 DEF SameBut, Same

\* The only snapshot of a Build is its newest evidence.
LEMMA LoneEvidence ==
    ASSUME FInv, NEW p \in Plans, NEW b \in Builds, snap[p][b] # None,
           \A q \in Plans \ {p} : current[q] # None => current[q].build # b
    PROVE  EvidenceOf(b) = snap[p][b].rev /\ EvidenceOf(b) > 0
<1>1. \A q \in Plans : snap[q][b] # None => snap[q][b].rev <= snap[p][b].rev
  BY FileTypes DEF FInv, Files, SnapshotsStand
<1> QED BY <1>1, EvidenceReading DEF EvidenceRead

\* A claim that no other plan shares is restated: its Build proceeds as that does.
LEMMA RestatedRefines ==
    ASSUME FInv, FInv', NEW p \in Plans, NEW b \in Builds, NEW n \in Claim,
           current[p] # None, current[p].build = b, n.build = b,
           \A q \in Plans \ {p} : current[q] # None => current[q].build # b,
           current' = [current EXCEPT ![p] = n], UNCHANGED <<history, snap, arch>>,
           \/ Phase(n) = Phase(current[p])
           \/ /\ Phase(current[p]) \in {"reserved", "moving"} /\ Phase(n) = "live"
              /\ snap[p][b] # None
           \/ Phase(current[p]) = "live" /\ Phase(n) = "moving"
           \/ Phase(current[p]) \in {"reserved", "live"} /\ Phase(n) = "ending"
    PROVE  Refines
<1>1. current'[p] = n /\ n # None /\ \A q \in Plans \ {p} : current'[q] = current[q]
  BY NoneIsAbsence DEF FInv, AInv, Records, Typed
<1>2. SameBut(b) /\ SameEvidence(b)
  BY <1>1, OthersAside
<1>3. Owning(p, b) /\ Owning(p, b)'
  BY <1>1 DEF Owning
<1>4. /\ OwnerOf(b) = p /\ OwnerOf(b)' = p
      /\ StatusOf(b) = Phase(current[p]) /\ StatusOf(b)' = Phase(n)
  <2>1. OwnersRead /\ OwnersRead'
    BY OwnersReading, NextReading
  <2>2. Phase(current[p])' = Phase(n)
    BY <1>1 DEF Phase
  <2> QED BY <1>3, <2>1, <2>2 DEF OwnersRead
<1>5. snap[p][b] # None => EvidenceOf(b) > 0
  BY LoneEvidence
<1> QED BY <1>2, <1>4, <1>5, Proceeds

\* The archive of an ending claim holds what its snapshot held.
LEMMA ArchivedAside ==
    ASSUME FInv, FInv', NEW p \in Plans, current[p] # None, current[p].state \in Transition,
           arch' = arch \cup {ArchiveOf(p, current[p])}, UNCHANGED <<current, history, snap>>
    PROVE  Refines
<1> DEFINE c == current[p]
<1>1. c \in Claim /\ Keeps(p, c)
  BY DEF FInv, AInv, Records, Typed, Files, ClaimsKeep
<1>2. KeptRead /\ KeptRead'
  BY KeptReading, NextReading
<1>3. c.rev \in KeptRevisions(c.build)
  BY <1>1, <1>2, ArchiveFields DEF Keeps, Ending, KeptRead
<1>4. ArchiveOf(p, c).build = c.build /\ ArchiveOf(p, c).rev = c.rev
  BY <1>1, ArchiveFields
<1>5. ASSUME NEW b \in Builds PROVE SameEvidence(b)
  <2>1. ASSUME NEW r PROVE r \in KeptRevisions(b)' <=> r \in KeptRevisions(b)
    BY <1>2, <1>3, <1>4 DEF KeptRead
  <2> QED BY <2>1, FilesAside
<1>6. \A b \in Builds : SameOwner(b)
  BY ClaimsAside
<1> QED BY <1>5, <1>6, Stutters DEF Same

\* What moves away is archived.
LEMMA MovedAside ==
    ASSUME FInv, FInv', NEW p \in Plans, current[p] # None, current[p].state \in Transition,
           ArchiveOf(p, current[p]) \in arch,
           snap' = [snap EXCEPT ![p][current[p].build] = None], UNCHANGED <<current, history, arch>>
    PROVE  Refines
<1> DEFINE c == current[p]
<1>1. c \in Claim /\ Keeps(p, c) /\ c.build \in Builds
  BY DEF FInv, AInv, Records, Typed, Claim, Files, ClaimsKeep
<1>2. KeptRead /\ KeptRead'
  BY KeptReading, NextReading
<1>3. /\ snap'[p][c.build] = None
      /\ \A q \in Plans, x \in Builds : q # p \/ x # c.build => snap'[q][x] = snap[q][x]
  BY <1>1 DEF FInv, Files, FilesTyped
<1>4. snap[p][c.build] # None => snap[p][c.build].rev = c.rev
  BY <1>1 DEF Keeps, Ending
<1>5. ArchiveOf(p, c).build = c.build /\ ArchiveOf(p, c).rev = c.rev
  BY <1>1, ArchiveFields
<1>6. ASSUME NEW b \in Builds PROVE SameEvidence(b)
  <2>1. ASSUME NEW r PROVE r \in KeptRevisions(b)' <=> r \in KeptRevisions(b)
    <3>1. CASE b # c.build
      BY <1>2, <1>3, <3>1 DEF KeptRead
    <3>2. CASE b = c.build
      BY <1>2, <1>3, <1>4, <1>5, <3>2 DEF KeptRead
    <3> QED BY <3>1, <3>2
  <2> QED BY <2>1, FilesAside
<1>7. \A b \in Builds : SameOwner(b)
  BY ClaimsAside
<1> QED BY <1>6, <1>7, Stutters DEF Same

\* A snapshot is written: only that Build's evidence changes.
LEMMA WrittenAside ==
    ASSUME FInv, FInv', NEW p \in Plans, NEW b \in Builds, NEW f,
           snap' = [snap EXCEPT ![p][b] = f], UNCHANGED <<current, history, arch>>
    PROVE  SameBut(b) /\ SameOwner(b)
<1>1. \A x \in Builds : SameOwner(x)
  BY ClaimsAside
<1>2. \A q \in Plans : \A x \in Builds \ {b} : snap'[q][x] = snap[q][x]
  BY DEF FInv, Files, FilesTyped
<1>3. ASSUME NEW x \in Builds \ {b} PROVE SameEvidence(x)
  <2>1. KeptRead /\ KeptRead'
    BY KeptReading, NextReading
  <2>2. ASSUME NEW r PROVE r \in KeptRevisions(x)' <=> r \in KeptRevisions(x)
    BY <1>2, <2>1 DEF KeptRead
  <2> QED BY <2>2, FilesAside
<1> QED BY <1>1, <1>3 DEF SameBut, Same

-----------------------------------------------------------------------------
(***************************************************************************)
(* The operations, as steps of ownership.                                  *)
(***************************************************************************)
LEMMA RReserve ==
    ASSUME FInv, FInv', NEW p \in Plans, NEW b \in Builds, NEW l \in Locators \cup {None},
           Reserve(p, b, l)
    PROVE  Refines
<1> DEFINE n == [build |-> b, gen |-> NextGen(p), state |-> "preparing", loc |-> l,
                 why |-> None, rev |-> 0, retry |-> 0, xfer |-> None]
<1>1. /\ current' = [current EXCEPT ![p] = n] /\ current[p] = None /\ b \notin Minted
      /\ UNCHANGED <<history, snap, arch>>
  BY DEF Reserve
<1>2. /\ n.build = b /\ Phase(n) = "reserved"
  BY DEF Phase
<1> HIDE DEF n
<1>3. current'[p] = n /\ \A q \in Plans \ {p} : current'[q] = current[q]
  BY <1>1 DEF FInv, AInv, Records, Typed
<1>4. n # None
  <2>1. current' \in [Plans -> Claim \cup {None}] /\ generation[p] \in 0..MaxGen /\ NextGen(p) \in Gens
    BY ConstantsOK DEF Reserve, NextGen, FInv, AInv, Records, Typed
  <2> QED BY <2>1, ConstantsOK, NoneIsAbsence DEF n, Claim
<1>5. SameBut(b) /\ SameEvidence(b)
  BY <1>1, <1>2, <1>3, OthersAside
<1>6. Disowned(b)
  BY <1>1, Unminted DEF Disowned, FInv, AInv
<1>7. Owning(p, b)'
  BY <1>2, <1>3, <1>4, <1>6 DEF Disowned, Owning
<1>8. StatusOf(b) = "unborn" /\ StatusOf(b)' = "reserved" /\ OwnerOf(b)' = p
  <2>1. OwnersRead /\ OwnersRead'
    BY OwnersReading, NextReading
  <2>2. Phase(current[p])' = Phase(n)
    BY <1>3 DEF Phase
  <2> QED BY <1>1, <1>2, <1>6, <1>7, <2>1, <2>2 DEF OwnersRead
<1>9. \A x \in Builds : OwnerOf(x) # p
  BY <1>1, OwnsNothing DEF Owning
<1> QED BY <1>5, <1>8, <1>9, Binds

LEMMA RFinishSnapshot ==
    ASSUME FInv, FInv', NEW s \in Sessions, NEW p \in Plans, FinishSnapshot(s, p)
    PROVE  Refines
<1> DEFINE c == current[p]
<1>0. PICK b \in Builds : b = c.build
  BY DEF FinishSnapshot, FInv, AInv, Records, Typed, Claim
<1>1. /\ c # None /\ c.build = b /\ c.state \in Live
      /\ ~(c.state = "preparing" /\ c.xfer # None)
      /\ snap[p][b] = None => c.state = "preparing"
      /\ snap' = [snap EXCEPT ![p][b] = Saved(p, c)] /\ UNCHANGED <<current, history, arch>>
  BY <1>0 DEF FinishSnapshot
<1>2. Keeps(p, c)
  BY <1>1 DEF FInv, AInv, Records, Typed, Claim, Files, ClaimsKeep
<1>3. CASE snap[p][b] # None
  <2>1. UNCHANGED snap
    BY <1>1, <1>2, <1>3, Rewritten DEF Saved, FInv, Files
  <2> QED BY <1>1, <2>1, NothingHappens
<1>4. CASE snap[p][b] = None
  <2>1. \A q \in Plans \ {p} : current[q] # None => current[q].build # b
    BY <1>1, <1>4, Alone DEF FInv, AInv
  <2>2. /\ \A q \in Plans : snap[q][b] = None
        /\ \A a \in arch : a.build # b
    BY <1>1, <1>2, <1>4, <2>1 DEF Keeps, Fresh, FInv, Files, SnapshotsStand
  <2>3. EvidenceOf(b) = 0
    BY <1>2, <2>2, EvidenceReading DEF EvidenceRead
  <2>4. /\ snap'[p][b] # None /\ snap'[p][b].rev = 1
        /\ \A q \in Plans \ {p} : snap'[q][b] = None
    <3>1. snap'[p][b] = [gen |-> c.gen, rev |-> 1]
      BY <1>1, <1>2, <1>4 DEF Saved, FInv, Files, FilesTyped
    <3>2. [gen |-> c.gen, rev |-> 1] \in Snapshot
      BY <1>1, ConstantsOK DEF Snapshot, FInv, AInv, Records, Typed, Claim
    <3> QED BY <1>1, <1>2, <2>2, <3>1, <3>2, NoneIsAbsence DEF FInv, Files, FilesTyped
  <2>5. EvidenceOf(b)' = 1
    BY <1>2, <2>4, NextReading DEF EvidenceRead
  <2>6. SameBut(b) /\ SameOwner(b)
    BY <1>1, <1>2, WrittenAside
  <2>7. Owning(p, b) /\ StatusOf(b) = "reserved"
    <3>1. Owning(p, b) /\ Phase(c) = "reserved"
      BY <1>1, <1>4, <2>1 DEF Owning, Phase
    <3> QED BY <1>2, <3>1, OwnersReading DEF OwnersRead
  <2> QED BY <1>2, <2>3, <2>5, <2>6, <2>7, WritesFirst
<1> QED BY <1>3, <1>4

LEMMA RFinishActivate ==
    ASSUME FInv, FInv', NEW s \in Sessions, NEW p \in Plans, FinishActivate(s, p)
    PROVE  Refines
<1> DEFINE c == current[p]
<1> DEFINE n == Activated(c)
<1>1. /\ Holds(s, p, "activate") /\ current' = [current EXCEPT ![p] = n]
      /\ UNCHANGED <<history, snap, arch>>
  BY DEF FinishActivate
<1>2. /\ c # None /\ c \in Claim /\ c.build \in Builds
      /\ c.state \in Live /\ ~(c.state = "preparing" /\ c.xfer # None)
      /\ snap[p][c.build] # None
  BY <1>1, LeaseFiles DEF LeaseFlies, LeaseCarries, LeaseSteps
<1>3. n \in Claim /\ n.build = c.build /\ n.state = "active"
  BY <1>2, ActivatedFields DEF SameBuild
<1>4. \A q \in Plans \ {p} : current[q] # None => current[q].build # c.build
  BY <1>2, Alone DEF FInv, AInv
<1> HIDE DEF n
<1>5. Phase(c) \in {"reserved", "live"} /\ Phase(n) = "live"
  BY <1>2, <1>3 DEF Phase
<1> QED BY <1>1, <1>2, <1>3, <1>4, <1>5, RestatedRefines

LEMMA RMutate ==
    ASSUME FInv, FInv', NEW p \in Plans, NEW b \in Builds, NEW g \in Gens, NEW r \in Revs,
           Mutate(p, b, g, r)
    PROVE  Refines
<1> DEFINE f == [gen |-> g, rev |-> r + 1]
<1>1. /\ current[p] # None /\ current[p].build = b /\ current[p].state = "active"
      /\ snap[p][b] # None /\ snap[p][b].rev = r /\ r < MaxRev
      /\ snap' = [snap EXCEPT ![p][b] = f] /\ UNCHANGED <<current, history, arch>>
  BY DEF Mutate
<1>2. f \in Snapshot /\ f.rev = r + 1
  BY <1>1, ConstantsOK DEF Snapshot
<1> HIDE DEF f
<1>3. \A q \in Plans \ {p} : current[q] # None => current[q].build # b
  BY <1>1, Alone DEF FInv, AInv
<1>4. EvidenceOf(b) = r
  BY <1>1, <1>3, LoneEvidence
<1>5. EvidenceOf(b)' = r + 1
  <2>1. snap'[p][b] = f /\ f # None
    BY <1>1, <1>2, NoneIsAbsence DEF FInv, Files, FilesTyped
  <2>2. \A q \in Plans \ {p} : snap'[q][b] = None
    BY <1>1, <1>3 DEF FInv, Files, SnapshotsStand, FilesTyped
  <2>3. f.rev \in Int
    BY <1>2, ConstantsOK
  <2> QED BY <1>2, <2>1, <2>2, <2>3, NextReading DEF EvidenceRead
<1>6. SameBut(b) /\ SameOwner(b)
  BY <1>1, WrittenAside
<1>7. StatusOf(b) = "live"
  <2>1. Owning(p, b) /\ Phase(current[p]) = "live"
    BY <1>1, <1>3 DEF Owning, Phase
  <2> QED BY <2>1, OwnersReading DEF OwnersRead
<1> QED BY <1>4, <1>5, <1>6, <1>7, WritesNext

LEMMA RRetireJournal ==
    ASSUME FInv, FInv', NEW s \in Sessions, NEW p \in Plans,
           NEW b \in Builds, NEW g \in Gens, NEW d \in Decisions, NEW r \in Revs,
           RetireJournal(s, p, b, g, d, r)
    PROVE  Refines
<1> DEFINE c == current[p]
<1> DEFINE n == Journalled(c, d, r)
<1>1. /\ current' = [current EXCEPT ![p] = n] /\ UNCHANGED <<history, snap, arch>>
      /\ c # None /\ c.build = b /\ c.state \in {"preparing", "active", "retiring"}
      /\ ~(c.state = "preparing" /\ c.xfer # None)
  BY DEF RetireJournal, CanRetire
<1>2. c \in Claim
  BY <1>1 DEF FInv, AInv, Records, Typed
<1>3. n \in Claim /\ n.build = c.build /\ n.state = "retiring"
  <2>1. SameBuild(c, n) /\ n.state = "retiring"
    BY <1>2, JournalledFields
  <2> QED BY <2>1 DEF SameBuild
<1> HIDE DEF n
<1>4. Phase(c) \in {"reserved", "live", "ending"} /\ Phase(n) = "ending"
  BY <1>1, <1>3 DEF Phase
<1>5. \A q \in Plans \ {p} : current[q] # None => current[q].build # c.build
  BY <1>1, Alone DEF FInv, AInv
<1> QED BY <1>1, <1>3, <1>4, <1>5, RestatedRefines

LEMMA RRetireArchive ==
    ASSUME FInv, FInv', NEW s \in Sessions, NEW p \in Plans, RetireArchive(s, p)
    PROVE  Refines
<1>1. /\ Holds(s, p, "archive") /\ arch' = arch \cup {ArchiveOf(p, current[p])}
      /\ UNCHANGED <<current, history, snap>>
  BY DEF RetireArchive
<1>2. current[p] # None /\ current[p].state = "retiring"
  BY <1>1, LeaseFiles DEF LeaseFlies, LeaseSteps
<1> QED BY <1>1, <1>2, ArchivedAside

LEMMA RRetireMove ==
    ASSUME FInv, FInv', NEW s \in Sessions, NEW p \in Plans, RetireMove(s, p)
    PROVE  Refines
<1>1. /\ Holds(s, p, "move") /\ snap' = [snap EXCEPT ![p][current[p].build] = None]
      /\ UNCHANGED <<current, history, arch>>
  BY DEF RetireMove
<1>2. current[p] # None /\ current[p].state = "retiring" /\ ArchiveOf(p, current[p]) \in arch
  BY <1>1, LeaseFiles DEF LeaseFlies, LeaseCarries, LeaseSteps
<1> QED BY <1>1, <1>2, MovedAside

LEMMA RRetireRelease ==
    ASSUME FInv, FInv', NEW s \in Sessions, NEW p \in Plans, RetireRelease(s, p)
    PROVE  Refines
<1> DEFINE c == current[p]
<1> DEFINE h == Ended(c)
<1>1. /\ Holds(s, p, "release") /\ current' = [current EXCEPT ![p] = None]
      /\ history' = [history EXCEPT ![p] = @ \cup {h}] /\ UNCHANGED <<snap, arch>>
  BY DEF RetireRelease
<1>0. /\ c # None /\ c \in Claim /\ c.build \in Builds /\ Stands(p, c) /\ c.state = "retiring"
  BY <1>1, LeaseFiles DEF LeaseFlies, LeaseSteps
<1>2. PICK b \in Builds : /\ c.build = b /\ c # None /\ c \in Claim
                          /\ Stands(p, c) /\ c.state = "retiring"
  BY <1>0
<1>3. h.build = b
  BY <1>2, EndedFields DEF SameBuild, Stands
<1> HIDE DEF h
<1>4. /\ current'[p] = None /\ history'[p] = history[p] \cup {h}
      /\ \A q \in Plans \ {p} : current'[q] = current[q] /\ history'[q] = history[q]
  BY <1>1 DEF FInv, AInv, Records, Typed
<1>5. \A q \in Plans \ {p} : current[q] # None => current[q].build # b
  BY <1>2, Alone DEF FInv, AInv
<1>6. SameBut(b) /\ SameEvidence(b)
  BY <1>1, <1>2, <1>3, <1>4, OthersAside
<1>7. StatusOf(b) = "ending"
  <2>1. Owning(p, b) /\ Phase(c) = "ending"
    BY <1>2, <1>5 DEF Owning, Phase
  <2> QED BY <1>2, <2>1, OwnersReading DEF OwnersRead
<1>8. OwnerOf(b)' = None /\ StatusOf(b)' = "over"
  <2>1. Disowned(b)'
    BY <1>4, <1>5 DEF Disowned
  <2>2. b \in Minted'
    BY <1>3, <1>4, NextReading DEF MintedRead
  <2> QED BY <1>2, <2>1, <2>2, NextReading DEF OwnersRead
<1> QED BY <1>2, <1>6, <1>7, <1>8, Ends

LEMMA RRetireRefused ==
    ASSUME FInv, FInv', NEW p \in Plans, NEW b \in Builds, NEW g \in Gens, NEW d \in Decisions,
           RetireRefused(p, b, g, d)
    PROVE  Refines
<1> DEFINE c == current[p]
<1> DEFINE n == Misrecorded(c)
<1>1. /\ current' = [current EXCEPT ![p] = n] /\ c # None /\ c.build = b /\ c.state = "retiring"
      /\ UNCHANGED <<history, snap, arch>>
  BY DEF RetireRefused
<1>2. c \in Claim
  BY <1>1 DEF FInv, AInv, Records, Typed
<1>3. n \in Claim /\ n.build = c.build /\ n.state = c.state
  BY <1>2, MisrecordedFields DEF SameBuild
<1> HIDE DEF n
<1>4. Phase(n) = Phase(c)
  BY <1>1, <1>3 DEF Phase
<1>5. \A q \in Plans \ {p} : current[q] # None => current[q].build # c.build
  BY <1>1, Alone DEF FInv, AInv
<1> QED BY <1>1, <1>3, <1>4, <1>5, RestatedRefines

\* The plans and the Build of an adoption in flight.
LEMMA AdoptPlans ==
    ASSUME FInv, NEW s \in Sessions, NEW step \in AdoptSteps, Adopting(s, step)
    PROVE  \E p \in Plans, q \in Plans, a \in Archive, b \in Builds :
              /\ p # q /\ op[s].plan = p /\ op[s].to = q /\ op[s].ask = a /\ a.plan = p /\ a.build = b
              /\ op[s].step = step /\ AdoptFlies(op[s]) /\ AdoptCarries(op[s])
              /\ current[p] # None =>
                    /\ current[p] \in Claim /\ current[p].build = b /\ Keeps(p, current[p])
                    /\ current[p].state = "transferring" /\ current[p].xfer.plan = q
                    /\ Phase(current[p]) = "moving" /\ Owning(p, b)
                    /\ a = ArchiveOf(p, current[p])
                    /\ \A r \in Plans \ {p} : current[r] # None /\ current[r].build = b => r = q
              /\ current[q] # None =>
                    /\ current[q] \in Claim /\ current[q].build = b /\ current[q].state = "preparing"
                    /\ current[q].xfer # None /\ Phase(current[q]) = "moving"
<1> DEFINE p == op[s].plan
<1> DEFINE q == op[s].to
<1> DEFINE a == op[s].ask
<1>1. /\ AdoptFlies(op[s]) /\ AdoptCarries(op[s])
      /\ op[s].step = step /\ p \in Plans /\ q \in Plans /\ p # q
      /\ a \in Archive /\ a.plan = p /\ a.build \in Builds
      /\ current[p] # None =>
           /\ current[p] \in Claim /\ Keeps(p, current[p])
           /\ current[p].state = "transferring" /\ current[p].xfer.plan = q
           /\ current[p].build = a.build /\ a = ArchiveOf(p, current[p])
      /\ current[q] # None =>
           /\ current[q] \in Claim /\ current[q].build = a.build
           /\ current[q].state = "preparing" /\ current[q].xfer # None
  BY AdoptFiles
<1>2. current[p] # None =>
        /\ Phase(current[p]) = "moving" /\ Owning(p, a.build)
        /\ \A r \in Plans \ {p} : current[r] # None /\ current[r].build = a.build => r = q
  BY <1>1, Shared DEF Phase, Owning, FInv, AInv
<1>3. current[q] # None => Phase(current[q]) = "moving"
  BY <1>1 DEF Phase
<1> HIDE DEF p, q, a
<1>4. op[s].plan = p /\ op[s].to = q /\ op[s].ask = a
  BY DEF p, q, a
<1> QED BY <1>1, <1>2, <1>3, <1>4

LEMMA RAdoptJournal ==
    ASSUME FInv, FInv', NEW p \in Plans, NEW q \in Plans, <<p, q>> \in Lineage,
           NEW a \in Asks(p), NEW s \in Sessions, AdoptJournal(s, a, q)
    PROVE  Refines
<1>1. p # q /\ a \in Archive /\ a.plan = p /\ a.rev # 0 /\ a.build \in Builds
  BY LineageOK DEF Asks, Archive
<1>2. PICK o \in Sources(a) :
         LET n == NewClaim(o, a, q)
         IN /\ Names(o, a, q)
            /\ current' = IF Released(a) \/ IsOutgoing(o) THEN current
                          ELSE [current EXCEPT ![p] = Suspended(o, a, q, n.gen)]
  BY <1>1 DEF AdoptJournal
<1>3. UNCHANGED <<history, snap, arch>>
  BY DEF AdoptJournal
<1>4. CASE IsOutgoing(o)
  <2>1. UNCHANGED current
    BY <1>2, <1>4
  <2> QED BY <1>3, <2>1, NothingHappens
<1>5. CASE ~IsOutgoing(o)
  <2> DEFINE n == NewClaim(o, a, q)
  <2> DEFINE m == Suspended(o, a, q, n.gen)
  <2>1. /\ ~Released(a) /\ o = current[p] /\ o # None /\ o \in Claim /\ o.build = a.build
        /\ o.state \in {"active", "transferring"} /\ AdoptedGen(o, q) <= MaxGen
    BY <1>1, <1>2, <1>5 DEF Names, Sources, Released, FInv, AInv, Records, Typed
  <2>2. o.state = "active"
    BY <1>5, <2>1 DEF FInv, AInv, Records, Standing, Stands
  <2>3. n.gen = AdoptedGen(o, q)
    BY <1>5 DEF NewClaim
  <2>4. AdoptedGen(o, q) \in Gens
    BY <2>1, RecordTypes, ConstantsOK DEF AdoptedGen, Claim, FInv, AInv, Records, Typed
  <2>5. m \in Claim /\ m.build = o.build /\ m.state = "transferring"
    BY <1>1, <2>1, <2>3, <2>4, SuspendedFields
  <2>6. current' = [current EXCEPT ![p] = m]
    BY <1>2, <1>5, <2>1
  <2> HIDE DEF n, m
  <2>7. \A r \in Plans \ {p} : current[r] # None => current[r].build # a.build
    BY <2>1, <2>2, Alone DEF FInv, AInv
  <2>8. Phase(o) = "live" /\ Phase(m) = "moving"
    BY <2>2, <2>5 DEF Phase
  <2> QED BY <1>1, <1>3, <2>1, <2>5, <2>6, <2>7, <2>8, RestatedRefines
<1> QED BY <1>4, <1>5

LEMMA RAdoptRestore ==
    ASSUME FInv, FInv', NEW p \in Plans, NEW q \in Plans, <<p, q>> \in Lineage,
           NEW a \in Asks(p), AdoptRestore(a, q)
    PROVE  Refines
<1> DEFINE o == current[p]
<1> DEFINE m == Restored(o)
<1>1. /\ a.plan = p /\ o # None /\ o \in Claim /\ o.build = a.build
      /\ o.state = "transferring"
      /\ \A r \in Plans \ {p} : current[r] # None => current[r].build # o.build
  BY Unpromised DEF FInv, AInv
<1>2. /\ current' = [current EXCEPT ![p] = m] /\ snap[p][a.build] # None
      /\ UNCHANGED <<history, snap, arch>>
  BY <1>1 DEF AdoptRestore, Restored, Restorable
<1>3. m \in Claim /\ m.build = o.build /\ m.state = "active" /\ a.build \in Builds
  BY <1>1, RestoredFields DEF Asks
<1> HIDE DEF m
<1>4. Phase(o) = "moving" /\ Phase(m) = "live"
  BY <1>1, <1>3 DEF Phase
<1>5. /\ o.build = a.build /\ m.build = a.build
      /\ \A r \in Plans \ {p} : current[r] # None => current[r].build # a.build
  BY <1>1, <1>3
<1> QED BY <1>1, <1>2, <1>3, <1>4, <1>5, RestatedRefines

\* The successor is reserved: the predecessor goes on owning the Build.
LEMMA RAdoptReserve ==
    ASSUME FInv, FInv', NEW s \in Sessions, AdoptReserve(s)
    PROVE  Refines
<1>1. Adopting(s, "a.reserve") /\ "a.reserve" \in AdoptSteps
  BY DEF AdoptReserve, AdoptSteps
<1>2. PICK p \in Plans, q \in Plans, a \in Archive, b \in Builds :
         /\ p # q /\ op[s].plan = p /\ op[s].to = q /\ op[s].ask = a /\ a.plan = p /\ a.build = b
         /\ op[s].step = "a.reserve" /\ AdoptFlies(op[s])
         /\ current[p] # None =>
               /\ current[p] \in Claim /\ current[p].build = b
               /\ current[p].state = "transferring" /\ Phase(current[p]) = "moving" /\ Owning(p, b)
  BY <1>1, AdoptPlans
<1>3. /\ UNCHANGED <<history, snap, arch>>
      /\ IF current[q] = None THEN current' = [current EXCEPT ![q] = NewClaim(TheSource(a), a, q)]
                              ELSE UNCHANGED current
  BY <1>2 DEF AdoptReserve
<1>4. CASE current[q] # None
  BY <1>3, <1>4, NothingHappens
<1>5. CASE current[q] = None
  <2>1. current[p] # None /\ current[p].gen = a.gen
    BY <1>2, <1>5 DEF AdoptFlies
  <2>2. TheSource(a) = current[p]
    BY <1>2, <2>1 DEF TheSource, Sources
  <2>3. NewClaim(current[p], a, q).build = b
    BY <1>2, <2>1 DEF NewClaim
  <2>4. current'[q].build = b /\ \A r \in Plans \ {q} : current'[r] = current[r]
    BY <1>3, <1>5, <2>2, <2>3 DEF FInv, AInv, Records, Typed
  <2>5. SameBut(b) /\ SameEvidence(b)
    BY <1>3, <1>5, <2>4, OthersAside
  <2>6. Owning(p, b)' /\ Phase(current[p])' = "moving"
    BY <1>2, <2>1, <2>4 DEF Owning, Phase
  <2>7. SameOwner(b)
    <3>1. OwnersRead /\ OwnersRead'
      BY OwnersReading, NextReading
    <3> QED BY <1>2, <2>1, <2>6, <3>1 DEF OwnersRead, SameOwner
  <2> QED BY <2>5, <2>7, Stutters DEF SameBut, Same
<1> QED BY <1>4, <1>5

\* The successor's first snapshot continues the source at the next revision.
LEMMA RAdoptSnapshot ==
    ASSUME FInv, FInv', NEW s \in Sessions, AdoptSnapshot(s)
    PROVE  Refines
<1>1. Adopting(s, "a.snapshot") /\ "a.snapshot" \in AdoptSteps
  BY DEF AdoptSnapshot, AdoptSteps
<1>2. PICK p \in Plans, q \in Plans, a \in Archive, b \in Builds :
         /\ p # q /\ op[s].plan = p /\ op[s].to = q /\ op[s].ask = a /\ a.plan = p /\ a.build = b
         /\ op[s].step = "a.snapshot" /\ AdoptFlies(op[s])
         /\ current[p] # None => Phase(current[p]) = "moving" /\ Owning(p, b)
         /\ current[q] # None => current[q] \in Claim
  BY <1>1, AdoptPlans
<1> DEFINE f == SuccessorSnapshot(a, current[q].gen)
<1>3. /\ UNCHANGED <<current, history, arch>>
      /\ snap' = [snap EXCEPT ![q][b] = IF snap[q][b] # None THEN snap[q][b] ELSE f]
  BY <1>2 DEF AdoptSnapshot
<1>4. CASE snap[q][b] # None
  <2>1. UNCHANGED snap
    BY <1>3, <1>4, Rewritten DEF FInv, Files
  <2> QED BY <1>3, <2>1, NothingHappens
<1>5. CASE snap[q][b] = None
  <2>1. current[q] # None /\ current[q].gen \in Gens
    BY <1>2 DEF AdoptFlies, Claim
  <2>2. /\ current[p] # None /\ snap[p][b] # None /\ snap[p][b].rev = a.rev
        /\ a.rev \in Int /\ a.rev < MaxRev
        /\ \A r \in Plans \ {q} : current[r] # None /\ current[r].build = b => r = p
    BY <1>1, <1>2, <1>5, <2>1, NotYetCopied
  <2>3. \A r \in Plans \ {p} : snap[r][b] = None
    BY <1>5, <2>2 DEF FInv, Files, SnapshotsStand
  <2>4. EvidenceOf(b) = a.rev
    BY <2>2, <2>3, EvidenceReading DEF EvidenceRead
  <2>5. f \in Snapshot /\ f.rev = a.rev + 1
    BY <2>1, <2>2, ConstantsOK DEF SuccessorSnapshot, Snapshot, Archive
  <2> HIDE DEF f
  <2>6. /\ snap'[q][b] = f /\ f # None
        /\ \A r \in Plans \ {q} : snap'[r][b] = snap[r][b]
    BY <1>3, <1>5, <2>5, NoneIsAbsence DEF FInv, Files, FilesTyped
  <2>7. EvidenceOf(b)' = a.rev + 1
    <3>1. \A r \in Plans : snap'[r][b] # None => snap'[r][b].rev <= snap'[q][b].rev
      BY <2>2, <2>3, <2>5, <2>6
    <3> QED BY <2>5, <2>6, <3>1, NextReading DEF EvidenceRead
  <2>8. SameBut(b) /\ SameOwner(b)
    BY <1>3, WrittenAside
  <2>9. StatusOf(b) = "moving"
    BY <1>2, <2>2, OwnersReading DEF OwnersRead
  <2> QED BY <2>4, <2>7, <2>8, <2>9, WritesNext
<1> QED BY <1>4, <1>5

LEMMA RAdoptArchive ==
    ASSUME FInv, FInv', NEW s \in Sessions, AdoptArchive(s)
    PROVE  Refines
<1>1. Adopting(s, "a.archive") /\ "a.archive" \in AdoptSteps
  BY DEF AdoptArchive, AdoptSteps
<1>2. PICK p \in Plans, a \in Archive :
         /\ op[s].plan = p /\ op[s].ask = a /\ op[s].step = "a.archive" /\ AdoptFlies(op[s])
         /\ current[p] # None => current[p].state = "transferring" /\ a = ArchiveOf(p, current[p])
  BY <1>1, AdoptPlans
<1>3. current[p] # None
  BY <1>2 DEF AdoptFlies
<1>4. arch' = arch \cup {ArchiveOf(p, current[p])} /\ UNCHANGED <<current, history, snap>>
  BY <1>2, <1>3 DEF AdoptArchive
<1> QED BY <1>2, <1>3, <1>4, ArchivedAside

LEMMA RAdoptMove ==
    ASSUME FInv, FInv', NEW s \in Sessions, AdoptMove(s)
    PROVE  Refines
<1>1. Adopting(s, "a.move") /\ "a.move" \in AdoptSteps
  BY DEF AdoptMove, AdoptSteps
<1>2. PICK p \in Plans, a \in Archive :
         /\ op[s].plan = p /\ op[s].ask = a /\ op[s].step = "a.move"
         /\ AdoptFlies(op[s]) /\ AdoptCarries(op[s])
         /\ current[p] # None => /\ current[p].state = "transferring" /\ current[p].build = a.build
                                 /\ a = ArchiveOf(p, current[p])
  BY <1>1, AdoptPlans
<1>3. current[p] # None /\ a \in arch
  BY <1>2 DEF AdoptFlies, AdoptCarries
<1>4. snap' = [snap EXCEPT ![p][current[p].build] = None] /\ UNCHANGED <<current, history, arch>>
  BY <1>2, <1>3 DEF AdoptMove
<1> QED BY <1>2, <1>3, <1>4, MovedAside

\* The release of the predecessor hands the Build over.
LEMMA RAdoptRelease ==
    ASSUME FInv, FInv', NEW s \in Sessions, AdoptRelease(s)
    PROVE  Refines
<1>1. Adopting(s, "a.release") /\ "a.release" \in AdoptSteps
  BY DEF AdoptRelease, AdoptSteps
<1>2. PICK p \in Plans, q \in Plans, a \in Archive, b \in Builds :
         /\ p # q /\ op[s].plan = p /\ op[s].to = q /\ op[s].ask = a /\ a.plan = p /\ a.build = b
         /\ op[s].step = "a.release" /\ AdoptFlies(op[s])
         /\ current[p] # None =>
               /\ current[p] \in Claim /\ current[p].build = b
               /\ current[p].state = "transferring" /\ Phase(current[p]) = "moving" /\ Owning(p, b)
               /\ \A r \in Plans \ {p} : current[r] # None /\ current[r].build = b => r = q
         /\ current[q] # None =>
               current[q].build = b /\ current[q].state = "preparing" /\ Phase(current[q]) = "moving"
  BY <1>1, AdoptPlans
<1> DEFINE h == [current[p] EXCEPT !.state = "superseded"]
<1>3. /\ UNCHANGED <<snap, arch>>
      /\ history' = [history EXCEPT ![p] = @ \cup {h}] /\ current' = [current EXCEPT ![p] = None]
  BY <1>2 DEF AdoptRelease
<1>4. current[p] # None /\ current[q] # None
  BY <1>2 DEF AdoptFlies
<1>5. h.build = b
  BY <1>2, <1>4 DEF Claim
<1> HIDE DEF h
<1>6. /\ current'[p] = None /\ history'[p] = history[p] \cup {h}
      /\ \A r \in Plans \ {p} : current'[r] = current[r] /\ history'[r] = history[r]
  BY <1>3 DEF FInv, AInv, Records, Typed
<1>7. SameBut(b) /\ SameEvidence(b)
  BY <1>2, <1>3, <1>4, <1>5, <1>6, OthersAside
<1>8. OwnerOf(b) = p /\ StatusOf(b) = "moving"
  BY <1>2, <1>4, OwnersReading DEF OwnersRead
<1>9. OwnerOf(b)' = q /\ StatusOf(b)' = "moving"
  <2>1. Owning(q, b)' /\ Phase(current[q])' = "moving"
    BY <1>2, <1>4, <1>6 DEF Owning, Phase
  <2> QED BY <2>1, NextReading DEF OwnersRead
<1>10. \A x \in Builds : OwnerOf(x) # q
  BY <1>2, <1>4, OwnsNothing DEF Owning
<1> QED BY <1>7, <1>8, <1>9, <1>10, HandsOver

LEMMA RAdoptActivate ==
    ASSUME FInv, FInv', NEW s \in Sessions, AdoptActivate(s)
    PROVE  Refines
<1>1. Adopting(s, "a.activate") /\ "a.activate" \in AdoptSteps
  BY DEF AdoptActivate, AdoptSteps
<1>2. PICK p \in Plans, q \in Plans, a \in Archive, b \in Builds :
         /\ p # q /\ op[s].plan = p /\ op[s].to = q /\ op[s].ask = a /\ a.plan = p /\ a.build = b
         /\ op[s].step = "a.activate" /\ AdoptFlies(op[s]) /\ AdoptCarries(op[s])
         /\ current[q] # None =>
               /\ current[q] \in Claim /\ current[q].build = b /\ current[q].state = "preparing"
               /\ current[q].xfer # None /\ Phase(current[q]) = "moving"
  BY <1>1, AdoptPlans
<1> DEFINE n == Activated(current[q])
<1>3. current' = [current EXCEPT ![q] = n] /\ UNCHANGED <<history, snap, arch>>
  BY <1>2 DEF AdoptActivate
<1>4. current[p] = None /\ current[q] # None /\ current[q].xfer.plan = p /\ snap[q][b] # None
  BY <1>2 DEF AdoptFlies, AdoptCarries
<1>5. n \in Claim /\ n.build = b /\ n.state = "active"
  BY <1>2, <1>4, ActivatedFields DEF SameBuild
<1> HIDE DEF n
<1>6. \A r \in Plans \ {q} : current[r] # None => current[r].build # b
  BY <1>2, <1>4 DEF FInv, AInv, Records, OneOwner
<1>7. Phase(n) = "live"
  BY <1>5 DEF Phase
<1> QED BY <1>2, <1>3, <1>4, <1>5, <1>6, <1>7, RestatedRefines

-----------------------------------------------------------------------------
(***************************************************************************)
(* The refinement.                                                         *)
(***************************************************************************)
LEMMA InitOwns == Init => Ownership!AInit
<1> SUFFICES ASSUME Init PROVE Ownership!AInit
  OBVIOUS
<1>1. FInv
  BY FInvInit
<1>2. ASSUME NEW b \in Builds
      PROVE  OwnerOf(b) = None /\ StatusOf(b) = "unborn" /\ EvidenceOf(b) = 0
  <2>1. Disowned(b) /\ b \notin Minted
    BY MintedReading DEF Init, Disowned, MintedRead
  <2>2. OwnerOf(b) = None /\ StatusOf(b) = "unborn"
    BY <1>1, <2>1, OwnersReading DEF OwnersRead
  <2>3. (\A p \in Plans : snap[p][b] = None) /\ \A a \in arch : a.build # b
    BY DEF Init
  <2>4. EvidenceOf(b) = 0
    BY <1>1, <2>3, EvidenceReading DEF EvidenceRead
  <2> QED BY <2>2, <2>4
<1> QED BY <1>2 DEF Ownership!AInit

LEMMA LeaseRefines ==
    ASSUME FInv, FInv', Next
    PROVE  Refines
<1>1. ASSUME NEW p \in Plans, PlanStep(p) PROVE Refines
  <2>1. ASSUME NEW how \in Closures, ClosePlan(p, how) PROVE Refines
    BY <2>1, NothingHappens DEF ClosePlan
  <2> QED BY <1>1, <2>1, RReserve, RMutate, RRetireRefused DEF PlanStep
<1>2. ASSUME NEW s \in Sessions, NEW p \in Plans, Finish(s, p) PROVE Refines
  <2>1. ASSUME FinishLocator(s, p) PROVE Refines
    BY <2>1, NothingHappens DEF FinishLocator
  <2> QED BY <1>2, <2>1, RFinishSnapshot, RFinishActivate DEF Finish
<1>3. ASSUME NEW s \in Sessions, NEW p \in Plans, Retire(s, p) PROVE Refines
  BY <1>3, RRetireJournal, RRetireArchive, RRetireMove, RRetireRelease DEF Retire
<1>4. ASSUME NEW s \in Sessions, Crash(s) PROVE Refines
  BY <1>4, NothingHappens DEF Crash
<1> QED BY <1>1, <1>2, <1>3, <1>4 DEF Next

LEMMA StepRefines == FInv /\ FInv' /\ [ANext]_vars => [Ownership!ANext]_(Ownership!avars)
<1> SUFFICES ASSUME FInv, FInv', [ANext]_vars PROVE Refines
  BY DEF Refines
<1>1. CASE Next
  BY <1>1, LeaseRefines
<1>2. ASSUME NEW e \in Lineage, NEW a \in Asks(e[1]),
             \/ AdoptRestore(a, e[2]) \/ AdoptRepeat(a, e[2])
             \/ \E s \in Sessions : AdoptJournal(s, a, e[2])
      PROVE  Refines
  <2>1. e[1] \in Plans /\ e[2] \in Plans /\ <<e[1], e[2]>> \in Lineage
    BY LineageOK
  <2>2. ASSUME AdoptRepeat(a, e[2]) PROVE Refines
    BY <2>2, NothingHappens DEF AdoptRepeat
  <2> QED BY <1>2, <2>1, <2>2, RAdoptRestore, RAdoptJournal
<1>3. ASSUME NEW s \in Sessions, AdoptWrite(s) PROVE Refines
  <2>1. ASSUME AdoptLocator(s) PROVE Refines
    BY <2>1, NothingHappens DEF AdoptLocator
  <2> QED BY <1>3, <2>1, RAdoptReserve, RAdoptSnapshot, RAdoptArchive, RAdoptMove, RAdoptRelease,
             RAdoptActivate DEF AdoptWrite
<1>4. CASE UNCHANGED vars
  BY <1>4, NothingHappens DEF vars
<1> QED BY <1>1, <1>2, <1>3, <1>4 DEF ANext

\* The transactions of leases and adoptions, cut by crashes anywhere, implement the
\* ownership the store promises: each write is a step of it or changes nothing.
THEOREM OwnershipImplemented == ASpec => ImplementsOwnership
<1>1. Init => Ownership!AInit
  BY InitOwns
<1>2. FInv /\ FInv' /\ [ANext]_vars => [Ownership!ANext]_(Ownership!avars)
  BY StepRefines
<1>3. ASpec => Ownership!AInit /\ [][Ownership!ANext]_(Ownership!avars)
  BY <1>1, <1>2, FilesInvariance, PTL DEF ASpec
<1> QED BY <1>3 DEF ImplementsOwnership, Ownership!ASpec
=============================================================================
