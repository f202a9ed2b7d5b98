-------------------------- MODULE MemoryRestore_proofs --------------------------
(***************************************************************************)
(* Proofs about MemoryRestore, for every bound and whatever os.link answers: *)
(* an index a search trusts is of the live ledger, a store that is open is   *)
(* whole, and the acknowledged files outlive every cut of a restore.        *)
(*                                                                         *)
(* While a restore is in doubt the marker names a set of files, the prior    *)
(* set, by their identities alone.  The invariant says that there is such a  *)
(* set, whole and of the acknowledged change, that a file that bears one of  *)
(* its identities is the file of that set, and how far the job under way has *)
(* brought the live names from one whole set to another.                    *)
(***************************************************************************)
EXTENDS MemoryRestore, Integers, TLAPS

USE DEF Names, Ids

-----------------------------------------------------------------------------
(***************************************************************************)
(* The inductive invariant.                                                *)
(***************************************************************************)
Matches(fs) == Trusted(fs) => fs["index"].change = Change(fs)

\* A whole set of files of one change.  Its index may be behind the sidecar's
\* stamps, never ahead of them.
Sound(fs, change) ==
    /\ Change(fs) = change
    /\ fs["ledger"] # None => fs["ledger"].gen = Gen(fs)
    /\ fs["index"] # None => fs["index"].gen <= Gen(fs) /\ fs["index"].epoch <= Epoch(fs)
    /\ Matches(fs)

\* A set to publish: its sidecar and index carry the stamps of its ledger.
Matched(fs) ==
    /\ fs["ledger"] # None /\ fs["meta"] # None /\ fs["meta"].gen = fs["ledger"].gen
    /\ fs["index"] # None =>
          /\ fs["index"].gen = fs["meta"].gen /\ fs["index"].epoch = fs["meta"].epoch
          /\ fs["index"].change = fs["ledger"].change

\* The same file, or a copy of it.
Copied(f, g) == (f = None <=> g = None) /\ (f # None => g = [f EXCEPT !.id = g.id])

At(steps) == job # None /\ job.at \in steps

JobStands ==
    /\ At({"journal"}) => \A n \in Names : Copied(live[n], kept[n])
    /\ job \in Publishing => Matched(job.new)

\* The disk has the active marker exactly while the namespace has it.
MarkerDurable ==
    IF Phase = "active" THEN disk.marker = marker
    ELSE disk.marker = None \/ disk.marker.phase = "complete"

\* What an open store is, and what a power loss would make of it.
OpenStands == Phase # "active" =>
    /\ Sound(live, acked) /\ Sound(disk.live, acked)
    /\ disk.live["ledger"] = live["ledger"] /\ disk.live["meta"] = live["meta"]
    /\ disk.live["index"] # live["index"] => ~Trusted(disk.live)

\* The prior set: what the marker's identities are of.
Named(P) ==
    /\ \A n \in Names : IdOf(P[n]) = marker.prior[n]
    /\ Sound(P, acked)

Recognised(P) ==
    \A n \in Names : \A f \in {live[n], kept[n], disk.live[n], disk.kept[n]} :
        f # None /\ f.id = marker.prior[n] => f = P[n]

\* Its ledger and sidecar are where a rollback looks for them.
Recoverable(P) ==
    \A n \in {"ledger", "meta"} :
        /\ kept[n] \in {P[n], None}
        /\ P[n] # None => P[n] \in {live[n], kept[n]}
        /\ disk.kept[n] = P[n]

\* How far a restore or a rollback has come.
Progress(P) ==
    /\ At({"unindex", "ledger", "meta", "index", "complete"}) => kept = P
    /\ At({"ledger", "meta", "index", "back-ledger", "back-meta", "back-index"}) =>
          live["index"] = None
    /\ At({"meta", "index", "complete"}) => Copied(job.new["ledger"], live["ledger"])
    /\ At({"index", "complete"}) => Copied(job.new["meta"], live["meta"])
    /\ At({"complete"}) => Copied(job.new["index"], live["index"])
    /\ At({"back-meta", "back-index", "back-complete"}) => live["ledger"] = P["ledger"]
    /\ At({"back-index", "back-complete"}) => live["meta"] = P["meta"]
    /\ At({"back-complete"}) => live["index"] = P["index"]

InDoubt(P) ==
    /\ Named(P) /\ Recognised(P) /\ Recoverable(P) /\ Progress(P)
    /\ Matches(live) /\ Matches(disk.live)

DoubtStands == Phase = "active" => \E P \in Files : InDoubt(P)

IInv == TypeOK /\ JobStands /\ MarkerDurable /\ OpenStands /\ DoubtStands

-----------------------------------------------------------------------------
(***************************************************************************)
(* Files and identities.                                                   *)
(***************************************************************************)

\* Six identities are one more than any five things can bear.
LEMMA Pigeonhole ==
    ASSUME NEW a, NEW b, NEW c, NEW d, NEW e
    PROVE  \E id \in Ids : id # a /\ id # b /\ id # c /\ id # d /\ id # e
<1> SUFFICES ASSUME \A id \in {0, 1, 2, 3, 4, 5} : id = a \/ id = b \/ id = c \/ id = d \/ id = e
             PROVE  FALSE
  OBVIOUS
<1> QED OBVIOUS

\* A fresh identity is no file's of that name, nor one the marker names.
LEMMA Fresh ==
    ASSUME NEW n \in Names
    PROVE  /\ FreshId(n) \in Ids
           /\ FreshId(n) # IdOf(live[n]) /\ FreshId(n) # IdOf(kept[n])
           /\ FreshId(n) # IdOf(disk.live[n]) /\ FreshId(n) # IdOf(disk.kept[n])
           /\ marker # None => FreshId(n) # marker.prior[n]
<1> DEFINE m == IF marker = None THEN None ELSE marker.prior[n]
<1>1. PICK id \in Ids : /\ id # IdOf(live[n]) /\ id # IdOf(kept[n]) /\ id # IdOf(disk.live[n])
                        /\ id # IdOf(disk.kept[n]) /\ id # m
  BY Pigeonhole
<1>2. id \notin Used(n)
  BY <1>1 DEF Used
<1>3. FreshId(n) \in Ids /\ FreshId(n) \notin Used(n)
  BY <1>1, <1>2 DEF FreshId
<1> QED BY <1>3 DEF Used

\* The stamps and changes of files are numbers.
LEMMA FileFields ==
    ASSUME NEW f \in File
    PROVE  /\ f # None /\ f.id # None /\ f.id \in Ids /\ f.change \in 0 .. MaxChange
           /\ f.gen \in 0 .. MaxGen /\ f.epoch \in 0 .. MaxEpoch
BY NoneIsNothing DEF File

LEMMA SetFields ==
    ASSUME NEW fs \in Files
    PROVE  /\ Change(fs) \in 0 .. MaxChange /\ Gen(fs) \in 0 .. MaxGen /\ Epoch(fs) \in 0 .. MaxEpoch
           /\ \A n \in Names : fs[n] \in File \cup {None} /\ IdOf(fs[n]) \in Ids \cup {None}
BY Bounds, FileFields DEF Files, Change, Gen, Epoch, IdOf

LEMMA NewFileType ==
    ASSUME NEW n \in Names, NEW change \in 0 .. MaxChange, NEW gen \in 0 .. MaxGen,
           NEW epoch \in 0 .. MaxEpoch
    PROVE  LET f == NewFile(n, change, gen, epoch)
           IN f \in File /\ f.change = change /\ f.gen = gen /\ f.epoch = epoch
BY Fresh DEF NewFile, File

-----------------------------------------------------------------------------
(***************************************************************************)
(* An open store: the writers, a search, and the staging of a restore.      *)
(***************************************************************************)
LEMMA OpenPhase ==
    ASSUME TypeOK
    PROVE  /\ Open => Phase = None /\ Phase # "active"
           /\ Phase = "active" => marker # None /\ marker \in Marker /\ marker.phase = "active"
           /\ Phase # "active" => marker = None \/ marker.phase = "complete"
BY NoneIsNothing DEF TypeOK, Open, Phase, Marker

\* A writer leaves a ledger of the next change, under stamps no older than
\* the present ones, and an index that is of that change or stale.
LEMMA WrittenStands ==
    ASSUME IInv, Open, job = None, acked < MaxChange, NEW files \in Files, Written(files),
           files["ledger"] # None, files["ledger"].change = acked + 1,
           files["ledger"].gen = Gen(files), Gen(live) <= Gen(files), Epoch(live) <= Epoch(files),
           \/ files["index"] = live["index"] /\ ~Trusted(files)
           \/ files["index"] # None /\ files["index"].change = acked + 1
              /\ files["index"].gen = Gen(files) /\ files["index"].epoch = Epoch(files)
    PROVE  IInv'
<1> DEFINE dl == [n \in Names |-> IF disk.live[n] = live[n] THEN files[n] ELSE disk.live[n]]
<1>1. /\ live' = files /\ disk' = [disk EXCEPT !.live = dl] /\ acked' = acked + 1
      /\ UNCHANGED <<kept, marker, job>>
  BY DEF Written, IInv, TypeOK, Disk
<1>2. /\ live \in Files /\ disk \in Disk /\ disk.live \in Files /\ acked \in 0 .. MaxChange
      /\ Phase # "active" /\ Phase' = Phase
  BY <1>1, OpenPhase DEF IInv, TypeOK, Disk, Phase
<1>3. dl \in Files
  BY <1>2 DEF Files
<1>4. disk'.live = dl /\ disk'.kept = disk.kept /\ disk'.marker = disk.marker /\ disk' \in Disk
  BY <1>1, <1>2, <1>3 DEF Disk
<1>5. TypeOK' /\ JobStands' /\ MarkerDurable' /\ DoubtStands'
  BY <1>1, <1>2, <1>4, Bounds, NoneIsNothing
  DEF IInv, TypeOK, JobStands, MarkerDurable, DoubtStands, Open, Phase, At
<1>6. /\ Sound(live, acked) /\ Sound(disk.live, acked)
      /\ disk.live["ledger"] = live["ledger"] /\ disk.live["meta"] = live["meta"]
      /\ disk.live["index"] # live["index"] => ~Trusted(disk.live)
  BY <1>2 DEF IInv, OpenStands
<1>7. /\ dl["ledger"] = files["ledger"] /\ dl["meta"] = files["meta"]
      /\ dl["index"] = IF disk.live["index"] = live["index"] THEN files["index"] ELSE disk.live["index"]
      /\ Gen(dl) = Gen(files) /\ Epoch(dl) = Epoch(files) /\ Change(dl) = acked + 1
      /\ Change(files) = acked + 1
  BY <1>6 DEF Gen, Epoch, Change
<1>8. /\ Gen(disk.live) = Gen(live) /\ Epoch(disk.live) = Epoch(live)
      /\ Gen(live) \in Int /\ Epoch(live) \in Int /\ Gen(files) \in Int /\ Epoch(files) \in Int
      /\ \A fs \in Files : fs["index"] # None => fs["index"].gen \in Int /\ fs["index"].epoch \in Int
  BY <1>2, <1>6, SetFields, FileFields, Bounds DEF Gen, Epoch, Files
<1> HIDE DEF dl
<1>9. Sound(files, acked + 1)
  BY <1>2, <1>6, <1>7, <1>8 DEF Sound, Matches, Trusted
<1>10. Sound(dl, acked + 1) /\ (dl["index"] # files["index"] => ~Trusted(dl))
  BY <1>2, <1>3, <1>6, <1>7, <1>8, <1>9 DEF Sound, Matches, Trusted
<1>11. OpenStands'
  BY <1>1, <1>4, <1>7, <1>9, <1>10 DEF OpenStands
<1> QED BY <1>5, <1>11 DEF IInv

LEMMA KeepsAppend ==
    ASSUME IInv, Append
    PROVE  IInv'
<1> DEFINE l == NewFile("ledger", acked + 1, Gen(live), 0)
<1> DEFINE x == NewFile("index", acked + 1, Gen(live), Epoch(live))
<1> DEFINE files == [live EXCEPT !["ledger"] = l, !["index"] = IF Trusted(live) THEN x ELSE @]
<1>1. Open /\ job = None /\ acked < MaxChange /\ Written(files)
  BY DEF Append
<1>2. /\ live \in Files /\ acked + 1 \in 0 .. MaxChange /\ 0 \in 0 .. MaxEpoch
      /\ Gen(live) \in 0 .. MaxGen /\ Epoch(live) \in 0 .. MaxEpoch
  BY <1>1, Bounds, SetFields DEF IInv, TypeOK
<1>3. /\ l \in File /\ l.change = acked + 1 /\ l.gen = Gen(live) /\ l # None
      /\ x \in File /\ x.change = acked + 1 /\ x.gen = Gen(live) /\ x.epoch = Epoch(live) /\ x # None
  BY <1>2, NewFileType, FileFields
<1> HIDE DEF l, x
<1>4. /\ files \in Files /\ files["ledger"] = l /\ files["meta"] = live["meta"]
      /\ files["index"] = IF Trusted(live) THEN x ELSE live["index"]
  BY <1>2, <1>3 DEF Files
<1> HIDE DEF files
<1>5. Gen(files) = Gen(live) /\ Epoch(files) = Epoch(live)
  BY <1>4 DEF Gen, Epoch
<1>6. Trusted(live) \/ ~Trusted(files)
  BY <1>4, <1>5 DEF Trusted
<1> QED BY <1>1, <1>2, <1>3, <1>4, <1>5, <1>6, Bounds, WrittenStands

LEMMA KeepsWithhold ==
    ASSUME IInv, Withhold
    PROVE  IInv'
<1> DEFINE l == NewFile("ledger", acked + 1, Gen(live), 0)
<1> DEFINE m == NewFile("meta", 0, Gen(live), Epoch(live) + 1)
<1> DEFINE files == [live EXCEPT !["ledger"] = l, !["meta"] = m]
<1>1. Open /\ job = None /\ acked < MaxChange /\ Epoch(live) < MaxEpoch /\ Written(files)
  BY DEF Withhold
<1>2. /\ live \in Files /\ acked + 1 \in 0 .. MaxChange /\ 0 \in 0 .. MaxEpoch /\ 0 \in 0 .. MaxChange
      /\ Gen(live) \in 0 .. MaxGen /\ Epoch(live) \in Int /\ Epoch(live) + 1 \in 0 .. MaxEpoch
  BY <1>1, Bounds, SetFields DEF IInv, TypeOK
<1>3. /\ l \in File /\ l.change = acked + 1 /\ l.gen = Gen(live) /\ l # None
      /\ m \in File /\ m.gen = Gen(live) /\ m.epoch = Epoch(live) + 1 /\ m # None
  BY <1>2, NewFileType, FileFields
<1> HIDE DEF l, m
<1>4. /\ files \in Files /\ files["ledger"] = l /\ files["meta"] = m
      /\ files["index"] = live["index"]
  BY <1>2, <1>3 DEF Files
<1> HIDE DEF files
<1>5. Gen(files) = Gen(live) /\ Epoch(files) = Epoch(live) + 1
  BY <1>3, <1>4 DEF Gen, Epoch
<1>6. ~Trusted(files)
  <2>1. live["index"] # None => live["index"].epoch <= Epoch(live) /\ live["index"].epoch \in Int
    BY <1>1, <1>2, OpenPhase, FileFields, Bounds DEF IInv, OpenStands, Sound, Files
  <2> QED BY <1>2, <1>4, <1>5, <2>1 DEF Trusted
<1> QED BY <1>1, <1>2, <1>3, <1>4, <1>5, <1>6, Bounds, WrittenStands

LEMMA KeepsCompact ==
    ASSUME IInv, Compact
    PROVE  IInv'
<1> DEFINE g == Gen(live) + 1
<1> DEFINE l == NewFile("ledger", acked + 1, g, 0)
<1> DEFINE m == NewFile("meta", 0, g, Epoch(live))
<1> DEFINE x == NewFile("index", acked + 1, g, Epoch(live))
<1> DEFINE files == [live EXCEPT !["ledger"] = l, !["meta"] = m, !["index"] = x]
<1>1. Open /\ job = None /\ acked < MaxChange /\ Gen(live) < MaxGen /\ Written(files)
  BY DEF Compact
<1>2. /\ live \in Files /\ acked + 1 \in 0 .. MaxChange /\ 0 \in 0 .. MaxEpoch /\ 0 \in 0 .. MaxChange
      /\ Gen(live) \in Int /\ g \in 0 .. MaxGen /\ g >= Gen(live) /\ Epoch(live) \in 0 .. MaxEpoch
  BY <1>1, Bounds, SetFields DEF IInv, TypeOK
<1>3. /\ l \in File /\ l.change = acked + 1 /\ l.gen = g /\ l # None
      /\ m \in File /\ m.gen = g /\ m.epoch = Epoch(live) /\ m # None
      /\ x \in File /\ x.change = acked + 1 /\ x.gen = g /\ x.epoch = Epoch(live) /\ x # None
  BY <1>2, NewFileType, FileFields
<1> HIDE DEF g, l, m, x
<1>4. /\ files \in Files /\ files["ledger"] = l /\ files["meta"] = m
      /\ files["index"] = x
  BY <1>2, <1>3 DEF Files
<1> HIDE DEF files
<1>5. Gen(files) = g /\ Epoch(files) = Epoch(live)
  BY <1>3, <1>4 DEF Gen, Epoch
<1> QED BY <1>1, <1>2, <1>3, <1>4, <1>5, Bounds, WrittenStands

\* A search rebuilds a stale index, whatever the marker.
LEMMA KeepsHeal ==
    ASSUME IInv, Heal
    PROVE  IInv'
<1> DEFINE x == NewFile("index", Change(live), Gen(live), Epoch(live))
<1>1. /\ job = None /\ live["index"] # None /\ ~Trusted(live)
      /\ live' = [live EXCEPT !["index"] = x] /\ UNCHANGED <<kept, marker, disk, job, acked>>
  BY DEF Heal
<1>2. /\ live \in Files /\ Change(live) \in 0 .. MaxChange /\ Gen(live) \in 0 .. MaxGen
      /\ Epoch(live) \in 0 .. MaxEpoch /\ disk.live \in Files
  BY SetFields DEF IInv, TypeOK, Disk
<1>3. /\ x \in File /\ x.change = Change(live) /\ x.gen = Gen(live) /\ x.epoch = Epoch(live)
      /\ x # None /\ x.id = FreshId("index")
  BY <1>2, NewFileType, FileFields DEF NewFile
<1> HIDE DEF x
<1>4. /\ live' \in Files /\ live'["ledger"] = live["ledger"] /\ live'["meta"] = live["meta"]
      /\ live'["index"] = x
      /\ Change(live') = Change(live) /\ Gen(live') = Gen(live) /\ Epoch(live') = Epoch(live)
  BY <1>1, <1>2, <1>3 DEF Files, Change, Gen, Epoch
<1>5. TypeOK' /\ JobStands' /\ MarkerDurable'
  BY <1>1, <1>4, NoneIsNothing DEF IInv, TypeOK, JobStands, MarkerDurable, Phase, At
<1>6. OpenStands'
  <2> SUFFICES ASSUME Phase # "active" PROVE OpenStands'
    BY <1>1 DEF OpenStands, Phase
  <2>1. /\ Sound(live, acked) /\ Sound(disk.live, acked)
        /\ disk.live["ledger"] = live["ledger"] /\ disk.live["meta"] = live["meta"]
        /\ disk.live["index"] # live["index"] => ~Trusted(disk.live)
    BY DEF IInv, OpenStands
  <2>2. Sound(live', acked)
    BY <1>2, <1>3, <1>4, <2>1, Bounds DEF Sound, Matches, Trusted
  <2>3. ~Trusted(disk.live)
    BY <1>1, <2>1 DEF Trusted, Gen, Epoch
  <2> QED BY <1>1, <1>4, <2>1, <2>2, <2>3 DEF OpenStands
<1>7. DoubtStands'
  <2> SUFFICES ASSUME Phase = "active" PROVE \E P \in Files : InDoubt(P)'
    BY <1>1 DEF DoubtStands, Phase
  <2>1. PICK P \in Files : InDoubt(P)
    BY DEF IInv, DoubtStands
  <2>2. x.id # marker.prior["index"]
    BY <1>3, Fresh, NoneIsNothing DEF Phase
  <2>3. Named(P)' /\ Recoverable(P)' /\ Progress(P)'
    BY <1>1, <1>4, <2>1 DEF InDoubt, Named, Recoverable, Progress, At
  <2>4. Recognised(P)'
    BY <1>1, <1>4, <2>1, <2>2 DEF InDoubt, Recognised
  <2>5. Matches(live)' /\ Matches(disk.live)'
    BY <1>1, <1>3, <1>4, <2>1 DEF InDoubt, Matches
  <2> QED BY <2>1, <2>3, <2>4, <2>5 DEF InDoubt
<1> QED BY <1>5, <1>6, <1>7 DEF IInv

\* What is staged as the prior set is the live set, as it is or copied.
LEMMA KeepsStage ==
    ASSUME IInv, NEW gen \in 0 .. MaxGen, NEW linked \in Links, NEW indexed \in BOOLEAN,
           Stage(gen, linked, indexed)
    PROVE  IInv'
<1> DEFINE new(n, change) == [id |-> 0, change |-> change, gen |-> gen,
                              epoch |-> IF n = "ledger" THEN 0 ELSE Epoch(live)]
<1> DEFINE staged == [n \in Names |-> CASE n = "index" -> IF indexed THEN new(n, acked + 1) ELSE None
                                        [] n = "meta" -> new(n, 0)
                                        [] OTHER -> new(n, acked + 1)]
<1> DEFINE copies == [n \in Names |-> IF live[n] = None \/ linked THEN live[n]
                                      ELSE [live[n] EXCEPT !.id = FreshId(n)]]
<1>1. /\ Open /\ job = None /\ acked < MaxChange /\ kept' = copies
      /\ job' = [at |-> "journal", new |-> staged] /\ UNCHANGED <<live, marker, disk, acked>>
  BY DEF Stage
<1>2. /\ live \in Files /\ Epoch(live) \in 0 .. MaxEpoch /\ acked + 1 \in 0 .. MaxChange
      /\ 0 \in 0 .. MaxChange /\ 0 \in 0 .. MaxEpoch
  BY <1>1, Bounds, SetFields DEF IInv, TypeOK
<1>3. /\ new("ledger", acked + 1) \in File /\ new("meta", 0) \in File /\ new("index", acked + 1) \in File
  BY <1>2 DEF File
<1>4. /\ staged["ledger"] = new("ledger", acked + 1) /\ staged["meta"] = new("meta", 0)
      /\ staged["index"] = IF indexed THEN new("index", acked + 1) ELSE None
      /\ staged \in Files
  BY <1>3 DEF Files
<1>5. Matched(staged)
  BY <1>3, <1>4, FileFields DEF Matched
<1>6. ASSUME NEW n \in Names
      PROVE  copies[n] \in File \cup {None} /\ Copied(live[n], copies[n])
  <2>1. live[n] \in File \cup {None} /\ FreshId(n) \in Ids
    BY <1>2, Fresh DEF Files
  <2>2. CASE live[n] = None \/ linked
    BY <2>1, <2>2, FileFields DEF Copied, File
  <2>3. CASE ~(live[n] = None \/ linked)
    <3>1. copies[n] = [live[n] EXCEPT !.id = FreshId(n)] /\ live[n] \in File
      BY <2>1, <2>3
    <3>2. copies[n] \in File /\ copies[n].id = FreshId(n)
      BY <2>1, <3>1 DEF File
    <3> QED BY <2>3, <3>1, <3>2, FileFields DEF Copied
  <2> QED BY <2>2, <2>3
<1>7. copies \in Files
  BY <1>6 DEF Files
<1> HIDE DEF staged, copies
<1>8. job' \in Publishing /\ job' # None /\ job'.at = "journal" /\ job'.new = staged
  BY <1>1, <1>4, NoneIsNothing DEF Publishing
<1>9. Phase' = Phase /\ Phase # "active" /\ marker = None
  BY <1>1, OpenPhase DEF IInv, Open, Phase
<1>10. TypeOK'
  BY <1>1, <1>7, <1>8, <1>9 DEF IInv, TypeOK
<1>11. JobStands'
  BY <1>1, <1>5, <1>6, <1>8 DEF JobStands
<1> QED BY <1>1, <1>9, <1>10, <1>11
        DEF IInv, MarkerDurable, OpenStands, DoubtStands

\* The marker names the staged set, which is then the prior set.
LEMMA KeepsJournal ==
    ASSUME IInv, Journal
    PROVE  IInv'
<1> DEFINE m == [phase |-> "active", prior |-> [n \in Names |-> IdOf(kept[n])]]
<1>1. /\ job # None /\ job.at = "journal" /\ marker' = m /\ Step("unindex")
      /\ UNCHANGED <<live, kept, acked>> /\ Synced
  BY DEF Journal
<1>2. /\ live \in Files /\ kept \in Files /\ job \in Publishing /\ marker = None /\ Phase # "active"
      /\ job.new \in Files
  BY <1>1, OpenPhase DEF IInv, TypeOK, Publishing, Restoring, Open
<1>3. m \in Marker /\ m # None /\ m.phase = "active" /\ \A n \in Names : m.prior[n] = IdOf(kept[n])
  BY <1>2, SetFields, NoneIsNothing DEF Marker
<1> HIDE DEF m
<1>4. /\ job' \in Publishing /\ job' # None /\ job'.at = "unindex" /\ job'.new = job.new
  BY <1>1, <1>2, NoneIsNothing DEF Step, Publishing
<1>5. /\ disk'.live = live /\ disk'.kept = kept /\ disk'.marker = m /\ disk' \in Disk
      /\ Phase' = "active"
  BY <1>1, <1>2, <1>3 DEF Synced, Disk, Phase
<1>6. TypeOK'
  BY <1>1, <1>2, <1>3, <1>4, <1>5 DEF IInv, TypeOK
<1>7. JobStands' /\ MarkerDurable' /\ OpenStands'
  BY <1>1, <1>2, <1>4, <1>5 DEF IInv, JobStands, MarkerDurable, OpenStands, At
<1>8. \A n \in Names : Copied(live[n], kept[n])
  BY <1>1 DEF IInv, JobStands, At
<1>9. Sound(live, acked) /\ Sound(kept, acked)
  <2>1. Sound(live, acked)
    BY <1>2 DEF IInv, OpenStands
  <2>2. \A n \in Names : live[n] # None => live[n] \in File
    BY <1>2 DEF Files
  <2>3. \A n \in Names : /\ live[n] = None <=> kept[n] = None
                         /\ live[n] # None => /\ kept[n].change = live[n].change
                                              /\ kept[n].gen = live[n].gen
                                              /\ kept[n].epoch = live[n].epoch
    BY <1>8, <2>2 DEF Copied, File
  <2>4. Change(kept) = Change(live) /\ Gen(kept) = Gen(live) /\ Epoch(kept) = Epoch(live)
    BY <2>3 DEF Change, Gen, Epoch
  <2> QED BY <2>1, <2>3, <2>4 DEF Sound, Matches, Trusted
<1>10. ASSUME NEW n \in Names, live[n] # None, live[n].id = marker'.prior[n]
       PROVE  live[n] = kept[n]
  <2>1. live[n] \in File /\ kept[n] # None /\ kept[n] = [live[n] EXCEPT !.id = kept[n].id]
        /\ live[n].id = kept[n].id
    BY <1>1, <1>2, <1>3, <1>8, <1>10 DEF Files, Copied, IdOf
  <2> QED BY <2>1 DEF File
<1>11. InDoubt(kept)'
  <2>1. Named(kept)'
    BY <1>1, <1>3, <1>9 DEF Named
  <2>2. Recognised(kept)'
    BY <1>1, <1>5, <1>10 DEF Recognised
  <2>3. Recoverable(kept)'
    BY <1>1, <1>5 DEF Recoverable
  <2>4. Progress(kept)'
    BY <1>1, <1>4 DEF Progress, At
  <2>5. Matches(live)' /\ Matches(disk.live)'
    BY <1>1, <1>5, <1>9 DEF Sound
  <2> QED BY <2>1, <2>2, <2>3, <2>4, <2>5 DEF InDoubt
<1>12. DoubtStands'
  <2>1. \E P \in Files : InDoubt(P)'
    BY <1>2, <1>1, <1>11
  <2> QED BY <2>1 DEF DoubtStands
<1> QED BY <1>6, <1>7, <1>12 DEF IInv

-----------------------------------------------------------------------------
(***************************************************************************)
(* Publishing under the active marker.                                     *)
(***************************************************************************)
LEMMA DoubtKept ==
    ASSUME IInv, Phase = "active", UNCHANGED <<marker, acked>>, TypeOK', JobStands', MarkerDurable',
           \E P \in Files : InDoubt(P)'
    PROVE  IInv'
<1>1. Phase' = "active"
  BY DEF Phase
<1> QED BY <1>1 DEF IInv, OpenStands, DoubtStands

\* A job that works under the marker, and the prior set it may have to restore.
LEMMA UnderMarker ==
    ASSUME IInv, job # None, job.at \notin {"journal", "settle", "clean", "unmark"}
    PROVE  /\ Phase = "active" /\ marker # None /\ marker \in Marker /\ disk.marker = marker
           /\ disk \in Disk /\ live \in Files /\ kept \in Files
           /\ disk.live \in Files /\ disk.kept \in Files
           /\ \E P \in Files : InDoubt(P)
           /\ job.at \in {"unindex", "ledger", "meta", "index", "complete"} =>
                 job \in Publishing /\ job.new \in Files /\ Matched(job.new)
BY OpenPhase DEF IInv, TypeOK, MarkerDurable, DoubtStands, JobStands, Disk, Publishing, Restoring

LEMMA NextPublishStep ==
    ASSUME job \in Publishing, NEW at \in {"unindex", "ledger", "meta", "index", "complete"}, Step(at)
    PROVE  job' \in Publishing /\ job' # None /\ job'.at = at /\ job'.new = job.new
BY NoneIsNothing DEF Step, Publishing

\* A published file bears an identity of its own.
LEMMA Published ==
    ASSUME IInv, live \in Files, job \in Publishing, marker # None, NEW n \in Names, Publish(n)
    PROVE  /\ live' \in Files /\ \A m \in Names \ {n} : live'[m] = live[m]
           /\ job.new[n] = None => live'[n] = live[n]
           /\ job.new[n] # None => /\ Copied(job.new[n], live'[n]) /\ live'[n] # None
                                   /\ live'[n].id # marker.prior[n]
<1> DEFINE f == [job.new[n] EXCEPT !.id = FreshId(n)]
<1>1. live' = [live EXCEPT ![n] = IF job.new[n] = None THEN @ ELSE f]
  BY DEF Publish
<1>2. /\ job.new[n] \in File \cup {None} /\ FreshId(n) \in Ids /\ FreshId(n) # marker.prior[n]
  BY Fresh DEF Publishing, Files
<1>3. CASE job.new[n] = None
  BY <1>1, <1>3 DEF Files
<1>4. CASE job.new[n] # None
  <2>1. f \in File /\ f.id = FreshId(n)
    BY <1>2, <1>4 DEF File
  <2>2. f # None /\ Copied(job.new[n], f)
    BY <1>4, <2>1, FileFields DEF Copied
  <2>3. live' \in Files /\ live'[n] = f /\ \A m \in Names \ {n} : live'[m] = live[m]
    BY <1>1, <1>4, <2>1 DEF Files
  <2> QED BY <1>2, <1>4, <2>1, <2>2, <2>3
<1> QED BY <1>3, <1>4

\* Copies have the same change and stamps.
LEMMA CopyFields ==
    ASSUME NEW f \in File, NEW g, Copied(f, g)
    PROVE  g # None /\ g.change = f.change /\ g.gen = f.gen /\ g.epoch = f.epoch
BY FileFields DEF Copied, File

LEMMA KeepsUnindex ==
    ASSUME IInv, Unindex
    PROVE  IInv'
<1>1. /\ job # None /\ job.at = "unindex" /\ live' = [live EXCEPT !["index"] = None] /\ Step("ledger")
      /\ UNCHANGED <<kept, marker, disk, acked>>
  BY DEF Unindex
<1>2. /\ Phase = "active" /\ live \in Files /\ job \in Publishing /\ Matched(job.new)
  BY <1>1, UnderMarker
<1>3. /\ job' \in Publishing /\ job' # None /\ job'.at = "ledger" /\ job'.new = job.new
  BY <1>1, <1>2, NextPublishStep
<1>4. /\ live' \in Files /\ live'["index"] = None
      /\ live'["ledger"] = live["ledger"] /\ live'["meta"] = live["meta"]
  BY <1>1, <1>2 DEF Files
<1>5. TypeOK' /\ JobStands' /\ MarkerDurable'
  BY <1>1, <1>2, <1>3, <1>4 DEF IInv, TypeOK, JobStands, MarkerDurable, Phase, At
<1>6. PICK P \in Files : InDoubt(P)
  BY <1>1, UnderMarker
<1>7. Named(P)' /\ Recoverable(P)' /\ Progress(P)'
  BY <1>1, <1>3, <1>4, <1>6 DEF InDoubt, Named, Recoverable, Progress, At
<1>8. Recognised(P)' /\ Matches(live)' /\ Matches(disk.live)'
  BY <1>1, <1>4, <1>6 DEF InDoubt, Recognised, Matches, Trusted
<1> QED BY <1>1, <1>2, <1>5, <1>6, <1>7, <1>8, DoubtKept DEF InDoubt

LEMMA KeepsPublishLedger ==
    ASSUME IInv, PublishLedger
    PROVE  IInv'
<1>1. /\ job # None /\ job.at = "ledger" /\ Publish("ledger") /\ Step("meta")
      /\ UNCHANGED <<kept, marker, acked>> /\ Synced
  BY DEF PublishLedger
<1>2. /\ Phase = "active" /\ marker # None /\ marker \in Marker /\ live \in Files /\ kept \in Files
      /\ job \in Publishing /\ Matched(job.new)
  BY <1>1, UnderMarker
<1>3. /\ job' \in Publishing /\ job' # None /\ job'.at = "meta" /\ job'.new = job.new
  BY <1>1, <1>2, NextPublishStep
<1>4. /\ live' \in Files /\ live'["index"] = live["index"] /\ live'["meta"] = live["meta"]
      /\ Copied(job.new["ledger"], live'["ledger"]) /\ live'["ledger"].id # marker.prior["ledger"]
  BY <1>1, <1>2, Published DEF Matched
<1>5. /\ disk' \in Disk /\ disk'.live = live' /\ disk'.kept = kept /\ disk'.marker = marker
  BY <1>1, <1>2, <1>4 DEF Synced, Disk
<1>6. TypeOK' /\ JobStands' /\ MarkerDurable'
  BY <1>1, <1>2, <1>3, <1>4, <1>5 DEF IInv, TypeOK, JobStands, MarkerDurable, Phase, At
<1>7. PICK P \in Files : InDoubt(P)
  BY <1>1, UnderMarker
<1>8. kept = P /\ live["index"] = None
  BY <1>1, <1>7 DEF InDoubt, Progress, At
<1>9. Named(P)' /\ Recoverable(P)' /\ Progress(P)'
  BY <1>1, <1>3, <1>4, <1>5, <1>7, <1>8 DEF InDoubt, Named, Recoverable, Progress, At
<1>10. Recognised(P)'
  BY <1>1, <1>4, <1>5, <1>7 DEF InDoubt, Recognised
<1>11. Matches(live)' /\ Matches(disk.live)'
  BY <1>4, <1>5, <1>8 DEF Matches, Trusted
<1> QED BY <1>1, <1>2, <1>6, <1>7, <1>9, <1>10, <1>11, DoubtKept DEF InDoubt

LEMMA KeepsPublishMeta ==
    ASSUME IInv, PublishMeta
    PROVE  IInv'
<1>1. /\ job # None /\ job.at = "meta" /\ Publish("meta") /\ Step("index")
      /\ UNCHANGED <<kept, marker, disk, acked>>
  BY DEF PublishMeta
<1>2. /\ Phase = "active" /\ marker # None /\ live \in Files
      /\ job \in Publishing /\ Matched(job.new)
  BY <1>1, UnderMarker
<1>3. /\ job' \in Publishing /\ job' # None /\ job'.at = "index" /\ job'.new = job.new
  BY <1>1, <1>2, NextPublishStep
<1>4. /\ live' \in Files /\ live'["index"] = live["index"] /\ live'["ledger"] = live["ledger"]
      /\ Copied(job.new["meta"], live'["meta"]) /\ live'["meta"].id # marker.prior["meta"]
  BY <1>1, <1>2, Published DEF Matched
<1>5. TypeOK' /\ JobStands' /\ MarkerDurable'
  BY <1>1, <1>2, <1>3, <1>4 DEF IInv, TypeOK, JobStands, MarkerDurable, Phase, At
<1>6. PICK P \in Files : InDoubt(P)
  BY <1>1, UnderMarker
<1>7. kept = P /\ live["index"] = None /\ Copied(job.new["ledger"], live["ledger"])
  BY <1>1, <1>6 DEF InDoubt, Progress, At
<1>8. Named(P)' /\ Recoverable(P)' /\ Progress(P)'
  BY <1>1, <1>3, <1>4, <1>6, <1>7 DEF InDoubt, Named, Recoverable, Progress, At
<1>9. Recognised(P)'
  BY <1>1, <1>4, <1>6 DEF InDoubt, Recognised
<1>10. Matches(live)' /\ Matches(disk.live)'
  BY <1>1, <1>4, <1>6, <1>7 DEF InDoubt, Matches, Trusted
<1> QED BY <1>1, <1>2, <1>5, <1>6, <1>8, <1>9, <1>10, DoubtKept DEF InDoubt

\* What is published is a set that matches.
LEMMA PublishedSet ==
    ASSUME NEW new \in Files, NEW fs \in Files, Matched(new), \A n \in Names : Copied(new[n], fs[n])
    PROVE  \A change : Change(fs) = change => Sound(fs, change)
<1>1. \A n \in Names : new[n] # None => new[n] \in File
  BY DEF Files
<1>2. \A n \in Names : /\ new[n] = None <=> fs[n] = None
                       /\ new[n] # None => /\ fs[n].change = new[n].change /\ fs[n].gen = new[n].gen
                                           /\ fs[n].epoch = new[n].epoch
  BY <1>1, CopyFields DEF Copied
<1>3. fs["index"] # None => fs["index"].gen \in Int /\ fs["index"].epoch \in Int
  BY FileFields, Bounds DEF Files
<1> QED BY <1>2, <1>3 DEF Matched, Sound, Matches, Trusted, Change, Gen, Epoch

LEMMA KeepsPublishIndex ==
    ASSUME IInv, PublishIndex
    PROVE  IInv'
<1>1. /\ job # None /\ job.at = "index" /\ Publish("index") /\ Step("complete")
      /\ UNCHANGED <<kept, marker, acked>> /\ Synced
  BY DEF PublishIndex
<1>2. /\ Phase = "active" /\ marker # None /\ marker \in Marker /\ live \in Files /\ kept \in Files
      /\ job \in Publishing /\ job.new \in Files /\ Matched(job.new)
  BY <1>1, UnderMarker
<1>3. /\ job' \in Publishing /\ job' # None /\ job'.at = "complete" /\ job'.new = job.new
  BY <1>1, <1>2, NextPublishStep
<1>4. PICK P \in Files : InDoubt(P)
  BY <1>1, UnderMarker
<1>5. /\ kept = P /\ live["index"] = None
      /\ Copied(job.new["ledger"], live["ledger"]) /\ Copied(job.new["meta"], live["meta"])
  BY <1>1, <1>4 DEF InDoubt, Progress, At
<1>6. /\ live' \in Files /\ live'["meta"] = live["meta"] /\ live'["ledger"] = live["ledger"]
      /\ job.new["index"] = None => live'["index"] = None
      /\ job.new["index"] # None => /\ Copied(job.new["index"], live'["index"]) /\ live'["index"] # None
                                    /\ live'["index"].id # marker.prior["index"]
  BY <1>1, <1>2, <1>5, Published
<1>7. Copied(job.new["index"], live'["index"])
  BY <1>6 DEF Copied
<1>8. /\ disk' \in Disk /\ disk'.live = live' /\ disk'.kept = kept /\ disk'.marker = marker
  BY <1>1, <1>2, <1>6 DEF Synced, Disk
<1>9. TypeOK' /\ JobStands' /\ MarkerDurable'
  BY <1>1, <1>2, <1>3, <1>6, <1>8 DEF IInv, TypeOK, JobStands, MarkerDurable, Phase, At
<1>10. Named(P)' /\ Recoverable(P)' /\ Progress(P)'
  BY <1>1, <1>3, <1>4, <1>5, <1>6, <1>7, <1>8 DEF InDoubt, Named, Recoverable, Progress, At
<1>11. Recognised(P)'
  BY <1>1, <1>4, <1>6, <1>8 DEF InDoubt, Recognised
<1>12. Matches(live)' /\ Matches(disk.live)'
  <2>1. \A n \in Names : Copied(job.new[n], live'[n])
    BY <1>5, <1>6, <1>7
  <2>2. Sound(live', Change(live'))
    BY <1>2, <1>6, <2>1, PublishedSet
  <2> QED BY <1>8, <2>2 DEF Sound
<1> QED BY <1>1, <1>2, <1>4, <1>9, <1>10, <1>11, <1>12, DoubtKept DEF InDoubt

-----------------------------------------------------------------------------
(***************************************************************************)
(* Retiring the marker.                                                    *)
(***************************************************************************)

\* Completing the marker opens a store that is whole.
LEMMA CompletedStands ==
    ASSUME IInv, Phase = "active", marker \in Marker, live \in Files, kept \in Files,
           Completed, acked' \in 0 .. MaxChange, Sound(live, acked')
    PROVE  IInv'
<1> DEFINE m == [marker EXCEPT !.phase = "complete"]
<1>1. /\ marker' = m /\ job' = [at |-> "unmark"] /\ UNCHANGED <<live, kept>>
      /\ disk' = [live |-> live', kept |-> kept', marker |-> marker']
  BY DEF Completed, Synced
<1>2. m \in Marker /\ m.phase = "complete" /\ m # None
  BY NoneIsNothing DEF Marker
<1>3. job' \in Restoring /\ job' \notin Publishing /\ job' # None /\ job'.at = "unmark"
  BY <1>1, NoneIsNothing DEF Restoring, Publishing
<1> HIDE DEF m
<1>4. /\ disk' \in Disk /\ disk'.live = live /\ disk'.marker = m /\ Phase' = "complete"
  BY <1>1, <1>2 DEF Disk, Phase
<1>5. TypeOK'
  BY <1>1, <1>2, <1>3, <1>4 DEF IInv, TypeOK
<1>6. JobStands' /\ MarkerDurable' /\ OpenStands' /\ DoubtStands'
  BY <1>1, <1>2, <1>3, <1>4 DEF JobStands, MarkerDurable, OpenStands, DoubtStands, At
<1> QED BY <1>5, <1>6 DEF IInv

\* The new set is published, and is what is reported from here on.
LEMMA KeepsComplete ==
    ASSUME IInv, Complete
    PROVE  IInv'
<1>1. job # None /\ job.at = "complete" /\ Completed /\ acked' = Change(live)
  BY DEF Complete
<1>2. /\ Phase = "active" /\ marker \in Marker /\ live \in Files /\ kept \in Files
      /\ job.new \in Files /\ Matched(job.new)
  BY <1>1, UnderMarker
<1>3. PICK P \in Files : InDoubt(P)
  BY <1>1, UnderMarker
<1>4. \A n \in Names : Copied(job.new[n], live[n])
  BY <1>1, <1>3 DEF InDoubt, Progress, At
<1>5. Sound(live, acked') /\ acked' \in 0 .. MaxChange
  BY <1>1, <1>2, <1>4, PublishedSet, SetFields
<1> QED BY <1>1, <1>2, <1>5, CompletedStands

\* The prior set is back at the live names.
LEMMA KeepsRolledBack ==
    ASSUME IInv, RolledBack
    PROVE  IInv'
<1>1. job # None /\ job.at = "back-complete" /\ Completed /\ acked' = acked
  BY DEF RolledBack
<1>2. /\ Phase = "active" /\ marker \in Marker /\ live \in Files /\ kept \in Files
      /\ acked \in 0 .. MaxChange
  BY <1>1, UnderMarker DEF IInv, TypeOK
<1>3. PICK P \in Files : InDoubt(P)
  BY <1>1, UnderMarker
<1>4. live = P
  <2>1. \A n \in Names : live[n] = P[n]
    BY <1>1, <1>3 DEF InDoubt, Progress, At
  <2> QED BY <1>2, <1>3, <2>1 DEF Files
<1>5. Sound(live, acked)
  BY <1>3, <1>4 DEF InDoubt, Named
<1> QED BY <1>1, <1>2, <1>5, CompletedStands

\* A step of an open store that leaves its files alone, on the disk or in full.
LEMMA OpenKept ==
    ASSUME IInv, Phase # "active", UNCHANGED <<live, acked>>, TypeOK', JobStands',
           marker' = None \/ UNCHANGED marker, UNCHANGED disk \/ Synced
    PROVE  IInv'
<1>1. disk \in Disk /\ Phase' # "active"
  BY NoneIsNothing DEF IInv, TypeOK, Phase
<1>2. disk'.live \in {disk.live, live} /\ (disk'.marker = disk.marker \/ disk'.marker = marker')
  BY DEF Synced
<1>3. MarkerDurable'
  <2>1. disk.marker = None \/ disk.marker.phase = "complete"
    BY DEF IInv, MarkerDurable
  <2>2. marker' = None \/ marker'.phase = "complete"
    BY OpenPhase, NoneIsNothing DEF IInv, TypeOK, Marker, Phase
  <2> QED BY <1>1, <1>2, <2>1, <2>2 DEF MarkerDurable
<1>4. OpenStands'
  BY <1>1, <1>2 DEF IInv, OpenStands
<1> QED BY <1>1, <1>3, <1>4 DEF IInv, DoubtStands

\* The jobs that are at a step beyond the publishing.
LEMMA RestoringAt ==
    ASSUME NEW at \in {"restage", "remove", "back-ledger", "back-meta", "back-index",
                       "back-complete", "unmark", "settle", "clean"}
    PROVE  /\ [at |-> at] \in Restoring /\ [at |-> at] \notin Publishing
           /\ [at |-> at] # None /\ [at |-> at].at = at
BY NoneIsNothing DEF Restoring, Publishing

LEMMA KeepsUnmark ==
    ASSUME IInv, Unmark
    PROVE  IInv'
<1>1. /\ job # None /\ job.at = "unmark" /\ marker' = None /\ job' = [at |-> "settle"]
      /\ UNCHANGED <<live, kept, disk, acked>>
  BY DEF Unmark
<1>2. Phase # "active" /\ Phase' = None
  BY <1>1 DEF IInv, TypeOK, Phase
<1>3. TypeOK' /\ JobStands'
  BY <1>1, <1>2, RestoringAt DEF IInv, TypeOK, JobStands, At
<1> QED BY <1>1, <1>2, <1>3, OpenKept

LEMMA KeepsSettle ==
    ASSUME IInv, Settle
    PROVE  IInv'
<1>1. /\ job # None /\ job.at = "settle" /\ job' = [at |-> "clean"]
      /\ UNCHANGED <<live, kept, marker, acked>> /\ Synced
  BY DEF Settle
<1>2. marker = None /\ Phase # "active" /\ live \in Files /\ kept \in Files
  BY <1>1, OpenPhase DEF IInv, TypeOK, Open
<1>3. disk' \in Disk
  BY <1>1, <1>2 DEF Synced, Disk
<1>4. TypeOK' /\ JobStands'
  BY <1>1, <1>2, <1>3, RestoringAt DEF IInv, TypeOK, JobStands, At
<1> QED BY <1>1, <1>2, <1>4, OpenKept

LEMMA KeepsClean ==
    ASSUME IInv, Clean
    PROVE  IInv'
<1>1. /\ job # None /\ job.at = "clean" /\ kept' = Emptied /\ job' = None
      /\ UNCHANGED <<live, marker, disk, acked>>
  BY DEF Clean
<1>2. marker = None /\ Phase # "active"
  BY <1>1, OpenPhase DEF IInv, TypeOK, Open
<1>3. kept' \in Files
  BY <1>1, <1>2 DEF Emptied, Files
<1>4. TypeOK' /\ JobStands'
  BY <1>1, <1>3, NoneIsNothing DEF IInv, TypeOK, JobStands, At, Publishing, Phase
<1> QED BY <1>1, <1>2, <1>4, OpenKept

-----------------------------------------------------------------------------
(***************************************************************************)
(* Rolling back.                                                           *)
(***************************************************************************)

\* A job that ends, or one that only starts to roll back.
LEMMA StoreKept ==
    ASSUME IInv, UNCHANGED <<live, kept, marker, disk, acked>>,
           \/ job' = None
           \/ job' = [at |-> "restage"] /\ Phase = "active"
           \/ job' = [at |-> "unmark"] /\ Phase = "complete"
           \/ job' = [at |-> "clean"] /\ marker = None
    PROVE  IInv'
<1>1. /\ job' \in Restoring \cup {None} /\ job' \notin Publishing
      /\ job' # None => job'.at \in {"restage", "unmark", "clean"}
  BY RestoringAt, NoneIsNothing DEF Publishing
<1>2. Phase' = Phase
  BY DEF Phase
<1>3. TypeOK'
  BY <1>1, <1>2, RestoringAt DEF IInv, TypeOK
<1>4. JobStands' /\ MarkerDurable' /\ OpenStands'
  BY <1>1, <1>2 DEF IInv, JobStands, MarkerDurable, OpenStands, At
<1>5. DoubtStands'
  <2> SUFFICES ASSUME Phase = "active" PROVE \E P \in Files : InDoubt(P)'
    BY <1>2 DEF DoubtStands
  <2>1. PICK P \in Files : InDoubt(P)
    BY DEF IInv, DoubtStands
  <2>2. Progress(P)'
    BY <1>1 DEF Progress, At
  <2>3. InDoubt(P)'
    BY <2>1, <2>2 DEF InDoubt, Named, Recognised, Recoverable
  <2> QED BY <2>1, <2>3
<1> QED BY <1>3, <1>4, <1>5 DEF IInv

LEMMA KeepsFault ==
    ASSUME IInv, Fault
    PROVE  IInv'
BY StoreKept, UnderMarker DEF Fault, store

LEMMA KeepsReconcile ==
    ASSUME IInv, Reconcile
    PROVE  IInv'
<1>1. UNCHANGED <<live, kept, marker, disk, acked>>
  BY DEF Reconcile, store
<1>2. CASE marker = None
  BY <1>1, <1>2, StoreKept DEF Reconcile, Phase
<1>3. CASE marker # None
  <2>1. Phase \in {"active", "complete"} /\ Phase # None
    BY <1>3, NoneIsNothing DEF IInv, TypeOK, Phase, Marker
  <2> QED BY <1>1, <2>1, StoreKept DEF Reconcile
<1> QED BY <1>2, <1>3

LEMMA KeepsCrash ==
    ASSUME IInv, Crash
    PROVE  IInv'
BY StoreKept DEF Crash, store

\* The index is kept again, as it is or as a copy that no longer bears the
\* identity the marker names.
LEMMA KeepsRestage ==
    ASSUME IInv, NEW linked \in Links, Restage(linked)
    PROVE  IInv'
<1> DEFINE copy == IF linked THEN live["index"] ELSE [live["index"] EXCEPT !.id = FreshId("index")]
<1> DEFINE again == IF Restageable THEN copy ELSE kept["index"]
<1>1. /\ job # None /\ job.at = "restage" /\ job' = [at |-> "remove"]
      /\ kept' = [kept EXCEPT !["index"] = again] /\ disk' = [disk EXCEPT !.kept["index"] = again]
      /\ UNCHANGED <<live, marker, acked>>
  BY DEF Restage
<1>2. /\ Phase = "active" /\ marker # None /\ marker \in Marker /\ disk.marker = marker
      /\ disk \in Disk /\ live \in Files /\ kept \in Files /\ disk.kept \in Files
  BY <1>1, UnderMarker
<1>3. PICK P \in Files : InDoubt(P)
  BY <1>1, UnderMarker
<1>4. /\ again \in File \cup {None}
      /\ again # None /\ again.id = marker.prior["index"] => again = P["index"]
  <2>1. /\ FreshId("index") \in Ids /\ FreshId("index") # marker.prior["index"]
        /\ live["index"] \in File \cup {None} /\ kept["index"] \in File \cup {None}
    BY <1>2, Fresh DEF Files
  <2>2. /\ live["index"] # None /\ live["index"].id = marker.prior["index"] => live["index"] = P["index"]
        /\ kept["index"] # None /\ kept["index"].id = marker.prior["index"] => kept["index"] = P["index"]
    BY <1>3 DEF InDoubt, Recognised
  <2>3. CASE Restageable /\ ~linked
    <3>1. live["index"] \in File
      BY <2>1, <2>3 DEF Restageable
    <3>2. again = [live["index"] EXCEPT !.id = FreshId("index")]
      BY <2>3
    <3> QED BY <2>1, <3>1, <3>2 DEF File
  <2>4. CASE ~(Restageable /\ ~linked)
    BY <2>1, <2>2, <2>4
  <2> QED BY <2>3, <2>4
<1> HIDE DEF again
<1>5. /\ kept' \in Files /\ kept'["index"] = again
      /\ kept'["ledger"] = kept["ledger"] /\ kept'["meta"] = kept["meta"]
  BY <1>1, <1>2, <1>4 DEF Files
<1>6. /\ disk' \in Disk /\ disk'.live = disk.live /\ disk'.marker = disk.marker
      /\ disk'.kept["index"] = again
      /\ disk'.kept["ledger"] = disk.kept["ledger"] /\ disk'.kept["meta"] = disk.kept["meta"]
  BY <1>1, <1>2, <1>4 DEF Files, Disk
<1>7. TypeOK' /\ JobStands' /\ MarkerDurable'
  BY <1>1, <1>2, <1>5, <1>6, RestoringAt DEF IInv, TypeOK, JobStands, MarkerDurable, Phase, At
<1>8. Named(P)' /\ Recoverable(P)' /\ Progress(P)'
  BY <1>1, <1>3, <1>5, <1>6 DEF InDoubt, Named, Recoverable, Progress, At
<1>9. Recognised(P)' /\ Matches(live)' /\ Matches(disk.live)'
  BY <1>1, <1>3, <1>4, <1>5, <1>6 DEF InDoubt, Recognised
<1> QED BY <1>1, <1>2, <1>3, <1>7, <1>8, <1>9, DoubtKept DEF InDoubt

LEMMA KeepsRemoveIndex ==
    ASSUME IInv, RemoveIndex
    PROVE  IInv'
<1>1. /\ job # None /\ job.at = "remove" /\ live' = [live EXCEPT !["index"] = None]
      /\ job' = [at |-> "back-ledger"] /\ UNCHANGED <<kept, marker, disk, acked>>
  BY DEF RemoveIndex
<1>2. Phase = "active" /\ live \in Files
  BY <1>1, UnderMarker
<1>3. PICK P \in Files : InDoubt(P)
  BY <1>1, UnderMarker
<1>4. /\ live' \in Files /\ live'["index"] = None
      /\ live'["ledger"] = live["ledger"] /\ live'["meta"] = live["meta"]
  BY <1>1, <1>2 DEF Files
<1>5. TypeOK' /\ JobStands' /\ MarkerDurable'
  BY <1>1, <1>2, <1>4, RestoringAt DEF IInv, TypeOK, JobStands, MarkerDurable, Phase, At
<1>6. Named(P)' /\ Recoverable(P)' /\ Progress(P)'
  BY <1>1, <1>3, <1>4, RestoringAt DEF InDoubt, Named, Recoverable, Progress, At
<1>7. Recognised(P)' /\ Matches(live)' /\ Matches(disk.live)'
  BY <1>1, <1>3, <1>4 DEF InDoubt, Recognised, Matches, Trusted
<1> QED BY <1>1, <1>2, <1>3, <1>5, <1>6, <1>7, DoubtKept DEF InDoubt

\* A file moved back is the prior one; an attempt that finds another one ends.
LEMMA MovedBack ==
    ASSUME IInv, Phase = "active", live \in Files, kept \in Files, marker \in Marker,
           NEW P \in Files, InDoubt(P), NEW n \in Names, NEW next, Back(n, next)
    PROVE  \/ job' = None /\ UNCHANGED <<live, kept>>
           \/ /\ job' = [at |-> next] /\ live' \in Files /\ kept' \in Files
              /\ live'[n] = P[n] /\ kept'[n] \in {kept[n], None}
              /\ \A m \in Names \ {n} : live'[m] = live[m] /\ kept'[m] = kept[m]
<1> DEFINE found == IF kept[n] # None THEN kept[n] ELSE live[n]
<1>1. CASE marker.prior[n] # None /\ IdOf(found) # marker.prior[n]
  BY <1>1 DEF Back
<1>2. CASE marker.prior[n] = None
  <2>1. P[n] = None
    BY <1>2, FileFields DEF InDoubt, Named, IdOf, Files
  <2>2. /\ live' = [live EXCEPT ![n] = None] /\ job' = [at |-> next]
        /\ kept' = [kept EXCEPT ![n] = IF kept[n] = live[n] THEN @ ELSE None]
    BY <1>2 DEF Back
  <2> QED BY <2>1, <2>2 DEF Files
<1>3. CASE marker.prior[n] # None /\ IdOf(found) = marker.prior[n]
  <2>1. found # None /\ found.id = marker.prior[n] /\ found \in {live[n], kept[n]}
    BY <1>3 DEF IdOf
  <2>2. found = P[n]
    BY <2>1 DEF InDoubt, Recognised
  <2>3. /\ live' = [live EXCEPT ![n] = found] /\ job' = [at |-> next]
        /\ kept' = [kept EXCEPT ![n] = IF kept[n] = live[n] THEN @ ELSE None]
    BY <1>3 DEF Back
  <2> HIDE DEF found
  <2> QED BY <2>2, <2>3 DEF Files
<1> QED BY <1>1, <1>2, <1>3

LEMMA KeepsRestoreLedger ==
    ASSUME IInv, RestoreLedger
    PROVE  IInv'
<1>1. /\ job # None /\ job.at = "back-ledger" /\ Back("ledger", "back-meta")
      /\ UNCHANGED <<marker, disk, acked>>
  BY DEF RestoreLedger, Back
<1>2. Phase = "active" /\ live \in Files /\ kept \in Files /\ marker \in Marker
  BY <1>1, UnderMarker
<1>3. PICK P \in Files : InDoubt(P)
  BY <1>1, UnderMarker
<1>4. CASE job' = None /\ UNCHANGED <<live, kept>>
  BY <1>1, <1>4, StoreKept
<1>5. CASE /\ job' = [at |-> "back-meta"] /\ live' \in Files /\ kept' \in Files
           /\ live'["ledger"] = P["ledger"] /\ kept'["ledger"] \in {kept["ledger"], None}
           /\ \A m \in Names \ {"ledger"} : live'[m] = live[m] /\ kept'[m] = kept[m]
  <2>1. TypeOK' /\ JobStands' /\ MarkerDurable'
    BY <1>1, <1>2, <1>5, RestoringAt DEF IInv, TypeOK, JobStands, MarkerDurable, Phase, At
  <2>2. Named(P)' /\ Recoverable(P)' /\ Progress(P)'
    BY <1>1, <1>3, <1>5, RestoringAt DEF InDoubt, Named, Recoverable, Progress, At
  <2>3. Recognised(P)'
    BY <1>1, <1>3, <1>5 DEF InDoubt, Recognised
  <2>4. Matches(live)' /\ Matches(disk.live)'
    BY <1>1, <1>3, <1>5 DEF InDoubt, Progress, At, Matches, Trusted
  <2> QED BY <1>1, <1>2, <1>3, <2>1, <2>2, <2>3, <2>4, DoubtKept DEF InDoubt
<1> QED BY <1>1, <1>2, <1>3, <1>4, <1>5, MovedBack

LEMMA KeepsRestoreMeta ==
    ASSUME IInv, RestoreMeta
    PROVE  IInv'
<1>1. /\ job # None /\ job.at = "back-meta" /\ Back("meta", "back-index")
      /\ UNCHANGED <<marker, disk, acked>>
  BY DEF RestoreMeta, Back
<1>2. Phase = "active" /\ live \in Files /\ kept \in Files /\ marker \in Marker
  BY <1>1, UnderMarker
<1>3. PICK P \in Files : InDoubt(P)
  BY <1>1, UnderMarker
<1>4. CASE job' = None /\ UNCHANGED <<live, kept>>
  BY <1>1, <1>4, StoreKept
<1>5. CASE /\ job' = [at |-> "back-index"] /\ live' \in Files /\ kept' \in Files
           /\ live'["meta"] = P["meta"] /\ kept'["meta"] \in {kept["meta"], None}
           /\ \A m \in Names \ {"meta"} : live'[m] = live[m] /\ kept'[m] = kept[m]
  <2>1. TypeOK' /\ JobStands' /\ MarkerDurable'
    BY <1>1, <1>2, <1>5, RestoringAt DEF IInv, TypeOK, JobStands, MarkerDurable, Phase, At
  <2>2. Named(P)' /\ Recoverable(P)' /\ Progress(P)'
    BY <1>1, <1>3, <1>5, RestoringAt DEF InDoubt, Named, Recoverable, Progress, At
  <2>3. Recognised(P)'
    BY <1>1, <1>3, <1>5 DEF InDoubt, Recognised
  <2>4. Matches(live)' /\ Matches(disk.live)'
    BY <1>1, <1>3, <1>5 DEF InDoubt, Progress, At, Matches, Trusted
  <2> QED BY <1>1, <1>2, <1>3, <2>1, <2>2, <2>3, <2>4, DoubtKept DEF InDoubt
<1> QED BY <1>1, <1>2, <1>3, <1>4, <1>5, MovedBack

LEMMA KeepsRestoreIndex ==
    ASSUME IInv, RestoreIndex
    PROVE  IInv'
<1>1. /\ job # None /\ job.at = "back-index" /\ Back("index", "back-complete")
      /\ UNCHANGED <<marker, disk, acked>>
  BY DEF RestoreIndex, Back
<1>2. Phase = "active" /\ live \in Files /\ kept \in Files /\ marker \in Marker
  BY <1>1, UnderMarker
<1>3. PICK P \in Files : InDoubt(P)
  BY <1>1, UnderMarker
<1>4. CASE job' = None /\ UNCHANGED <<live, kept>>
  BY <1>1, <1>4, StoreKept
<1>5. CASE /\ job' = [at |-> "back-complete"] /\ live' \in Files /\ kept' \in Files
           /\ live'["index"] = P["index"] /\ kept'["index"] \in {kept["index"], None}
           /\ \A m \in Names \ {"index"} : live'[m] = live[m] /\ kept'[m] = kept[m]
  <2>1. TypeOK' /\ JobStands' /\ MarkerDurable'
    BY <1>1, <1>2, <1>5, RestoringAt DEF IInv, TypeOK, JobStands, MarkerDurable, Phase, At
  <2>2. Named(P)' /\ Recoverable(P)' /\ Progress(P)'
    BY <1>1, <1>3, <1>5, RestoringAt DEF InDoubt, Named, Recoverable, Progress, At
  <2>3. Recognised(P)'
    BY <1>1, <1>3, <1>5 DEF InDoubt, Recognised
  <2>4. live' = P
    <3>1. \A n \in Names : live'[n] = P[n]
      BY <1>1, <1>3, <1>5 DEF InDoubt, Progress, At
    <3> QED BY <1>5, <3>1 DEF Files
  <2>5. Matches(live)' /\ Matches(disk.live)'
    BY <1>1, <1>3, <2>4 DEF InDoubt, Named, Sound, Matches
  <2> QED BY <1>1, <1>2, <1>3, <2>1, <2>2, <2>3, <2>5, DoubtKept DEF InDoubt
<1> QED BY <1>1, <1>2, <1>3, <1>4, <1>5, MovedBack

LEMMA KeepsPowerLoss ==
    ASSUME IInv, PowerLoss
    PROVE  IInv'
<1>1. /\ live' = disk.live /\ kept' = disk.kept /\ marker' = disk.marker /\ job' = None
      /\ UNCHANGED <<disk, acked>>
  BY DEF PowerLoss
<1>2. live' \in Files /\ kept' \in Files /\ marker' \in Marker \cup {None} /\ disk \in Disk
  BY <1>1 DEF IInv, TypeOK, Disk
<1>3. TypeOK' /\ JobStands'
  BY <1>1, <1>2, NoneIsNothing DEF IInv, TypeOK, JobStands, At, Publishing
<1>4. CASE Phase = "active"
  <2>1. Phase' = "active" /\ UNCHANGED marker
    BY <1>1, <1>4 DEF IInv, MarkerDurable, Phase
  <2>2. PICK P \in Files : InDoubt(P)
    BY <1>4 DEF IInv, DoubtStands
  <2>3. Named(P)' /\ Recognised(P)' /\ Progress(P)' /\ Matches(live)' /\ Matches(disk.live)'
    BY <1>1, <2>1, <2>2 DEF InDoubt, Named, Recognised, Progress, At
  <2>4. Recoverable(P)'
    BY <1>1, <2>2 DEF InDoubt, Recoverable
  <2>5. MarkerDurable'
    BY <1>1, <2>1 DEF MarkerDurable
  <2> QED BY <1>1, <1>3, <1>4, <2>1, <2>2, <2>3, <2>4, <2>5, DoubtKept DEF InDoubt
<1>5. CASE Phase # "active"
  <2>1. marker' = None \/ marker'.phase = "complete"
    BY <1>1, <1>5 DEF IInv, MarkerDurable
  <2>2. Phase' # "active"
    BY <2>1, NoneIsNothing DEF Phase
  <2>3. MarkerDurable' /\ OpenStands' /\ DoubtStands'
    BY <1>1, <1>5, <2>1, <2>2 DEF IInv, MarkerDurable, OpenStands, DoubtStands
  <2> QED BY <1>3, <2>3 DEF IInv
<1> QED BY <1>4, <1>5

-----------------------------------------------------------------------------
(***************************************************************************)
(* The theorems.                                                           *)
(***************************************************************************)
LEMMA InvInit == Init => IInv
<1> SUFFICES ASSUME Init PROVE IInv
  OBVIOUS
<1> DEFINE none == [n \in Names |-> None]
<1>1. /\ live = none /\ kept = none /\ marker = None /\ job = None /\ acked = 0
      /\ disk = [live |-> none, kept |-> none, marker |-> None]
  BY DEF Init
<1>2. none \in Files /\ \A n \in Names : none[n] = None
  BY DEF Files
<1> HIDE DEF none
<1>3. disk \in Disk /\ disk.live = none /\ disk.kept = none /\ disk.marker = None
  BY <1>1, <1>2 DEF Disk
<1>4. Phase # "active"
  BY <1>1, NoneIsNothing DEF Phase
<1>5. TypeOK
  BY <1>1, <1>2, <1>3, Bounds DEF TypeOK
<1>6. JobStands /\ MarkerDurable /\ DoubtStands
  BY <1>1, <1>3, <1>4, NoneIsNothing DEF JobStands, MarkerDurable, DoubtStands, At, Publishing
<1>7. OpenStands
  BY <1>1, <1>2, <1>3 DEF OpenStands, Sound, Matches, Trusted, Change, Gen
<1> QED BY <1>5, <1>6, <1>7 DEF IInv

LEMMA InvNext == IInv /\ [Next]_vars => IInv'
<1> SUFFICES ASSUME IInv, [Next]_vars PROVE IInv'
  OBVIOUS
<1>1. CASE Append \/ Withhold \/ Compact \/ Heal
  BY <1>1, KeepsAppend, KeepsWithhold, KeepsCompact, KeepsHeal
<1>2. CASE \E gen \in 0 .. MaxGen, linked \in Links, indexed \in BOOLEAN : Stage(gen, linked, indexed)
  BY <1>2, KeepsStage
<1>3. CASE Journal \/ Unindex \/ PublishLedger \/ PublishMeta \/ PublishIndex
  BY <1>3, KeepsJournal, KeepsUnindex, KeepsPublishLedger, KeepsPublishMeta, KeepsPublishIndex
<1>4. CASE Complete \/ Unmark \/ Settle \/ Clean
  BY <1>4, KeepsComplete, KeepsUnmark, KeepsSettle, KeepsClean
<1>5. CASE Fault \/ Reconcile
  BY <1>5, KeepsFault, KeepsReconcile
<1>6. CASE \E linked \in Links : Restage(linked)
  BY <1>6, KeepsRestage
<1>7. CASE RemoveIndex \/ RestoreLedger \/ RestoreMeta \/ RestoreIndex \/ RolledBack
  BY <1>7, KeepsRemoveIndex, KeepsRestoreLedger, KeepsRestoreMeta, KeepsRestoreIndex, KeepsRolledBack
<1>8. CASE Crash \/ PowerLoss
  BY <1>8, KeepsCrash, KeepsPowerLoss
<1>9. CASE UNCHANGED vars
  BY <1>9 DEF vars, IInv, TypeOK, JobStands, MarkerDurable, OpenStands, DoubtStands, InDoubt,
     Named, Recognised, Recoverable, Progress, At, Phase
<1> QED BY <1>1, <1>2, <1>3, <1>4, <1>5, <1>6, <1>7, <1>8, <1>9 DEF Next

\* What the store, its disk and the job under way are to each other holds after
\* every write, cut and power loss of a restore and of its rollbacks.
THEOREM Invariance == Spec => []IInv
<1>1. Init => IInv
  BY InvInit
<1>2. IInv /\ [Next]_vars => IInv'
  BY InvNext
<1> QED BY <1>1, <1>2, PTL DEF Spec

\* The files keep their types, and a job finds the marker in its phase.
THEOREM TypeCorrect == Spec => []TypeOK
<1>1. IInv => TypeOK
  BY DEF IInv
<1> QED BY <1>1, Invariance, PTL

\* An index a search would trust is of the very ledger that is live.
THEOREM TrustedIsOfTheLedger == Spec => []TrustedIndexMatches
<1>1. IInv => TrustedIndexMatches
  BY DEF IInv, OpenStands, Sound, DoubtStands, InDoubt, Matches, TrustedIndexMatches
<1> QED BY <1>1, Invariance, PTL

\* A store that no active marker closes has all that was acknowledged, and its
\* sidecar is its ledger's.
THEOREM OpenIsWhole == Spec => []OpenStoreIsWhole
<1>1. IInv => OpenStoreIsWhole
  BY DEF IInv, OpenStands, Sound, OpenStoreIsWhole
<1> QED BY <1>1, Invariance, PTL

\* The prior set's ledger and sidecar are in the namespace and on the disk.
LEMMA InvPrior == IInv => PriorIsKept
<1> SUFFICES ASSUME IInv, Phase = "active", NEW n \in {"ledger", "meta"}, marker.prior[n] # None
             PROVE  \A fs \in {<<live, kept>>, <<disk.live, disk.kept>>} :
                       \E f \in {fs[1][n], fs[2][n]} :
                          IdOf(f) = marker.prior[n] /\ (n = "ledger" => f.change = acked)
  BY DEF PriorIsKept
<1>1. PICK P \in Files : InDoubt(P)
  BY DEF IInv, DoubtStands
<1>2. IdOf(P[n]) = marker.prior[n] /\ P[n] # None
  BY <1>1 DEF InDoubt, Named, IdOf
<1>3. n = "ledger" => P[n].change = acked
  BY <1>1, <1>2 DEF InDoubt, Named, Sound, Change
<1>4. P[n] \in {live[n], kept[n]} /\ P[n] = disk.kept[n]
  BY <1>1, <1>2 DEF InDoubt, Recoverable
<1> QED BY <1>2, <1>3, <1>4

\* Whatever cuts a restore or a rollback, the acknowledged ledger and its sidecar
\* are not lost.
THEOREM PriorSurvives == Spec => []PriorIsKept
<1> QED BY InvPrior, Invariance, PTL
=============================================================================
