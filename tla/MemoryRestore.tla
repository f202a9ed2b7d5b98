----------------------------- MODULE MemoryRestore -----------------------------
(***************************************************************************)
(* Putting a backup in place of the local memory (restore_vault.py).        *)
(*                                                                         *)
(* The store is three files: the ledger, its sidecar of stamps ("meta") and *)
(* the search index.  A restore keeps the prior three in a staging          *)
(* directory, writes a marker that closes the store to every writer,        *)
(* publishes the new three one by one and marks the exchange complete       *)
(* before it removes the marker.  A restore that dies in between is rolled   *)
(* back at the next session start, from the files it kept.                  *)
(*                                                                         *)
(* A file is its content and its identity (inode, size and times): what a    *)
(* ledger holds is the number of the last acknowledged change it has.  One   *)
(* job at a time holds the store lock; it may die between any two of its     *)
(* writes, and a power loss also undoes the renames no directory sync has    *)
(* made durable.  A search takes the store lock too, but not the writers'    *)
(* lock that honours the marker.                                           *)
(***************************************************************************)
EXTENDS Naturals, FiniteSets

CONSTANTS
    None,       \* no file, no marker, no job
    Links,      \* what os.link may answer: TRUE a hard link, FALSE a refusal
    MaxChange,  \* bound: acknowledged changes, restores included
    MaxEpoch,   \* bound: withholds
    MaxGen      \* bound: generations of ledgers and backups

ASSUME Bounds == /\ MaxChange \in Nat /\ MaxEpoch \in Nat /\ MaxGen \in Nat
                 /\ Links \subseteq BOOLEAN /\ Links # {}

VARIABLES
    live,       \* the three files at their live names
    kept,       \* the staging directory's prior-* files
    marker,     \* the restore marker, or None
    disk,       \* the names a power loss would leave: live, kept and marker
    job,        \* what the holder of the store lock is at, or None
    acked       \* the last change reported done: an append or a restore

vars == <<live, kept, marker, disk, job, acked>>
store == <<live, kept, marker, disk>>

Names == {"ledger", "meta", "index"}
Ids == 0 .. 5           \* identities in use at once; a freed one is taken again
File == [id : Ids, change : 0 .. MaxChange, gen : 0 .. MaxGen, epoch : 0 .. MaxEpoch]
Files == [Names -> File \cup {None}]

\* The marker names the identity of each prior file, or that there was none.
Marker == [phase : {"active", "complete"}, prior : [Names -> Ids \cup {None}]]
Disk == [live : Files, kept : Files, marker : Marker \cup {None}]

\* The new files are staged by the job that publishes them.
Publishing == [at : {"journal", "unindex", "ledger", "meta", "index", "complete"},
               new : Files]
Restoring == [at : {"restage", "remove", "back-ledger", "back-meta", "back-index",
                    "back-complete", "unmark", "settle", "clean"}]
ASSUME NoneIsNothing ==
    /\ None \notin File \cup Ids \cup Marker \cup Publishing \cup Restoring
    /\ None \notin {"active", "complete"}

-----------------------------------------------------------------------------
(***************************************************************************)
(* Reading the store.                                                      *)
(***************************************************************************)
Change(fs) == IF fs["ledger"] = None THEN 0 ELSE fs["ledger"].change
Gen(fs) == IF fs["meta"] = None THEN 0 ELSE fs["meta"].gen
Epoch(fs) == IF fs["meta"] = None THEN 0 ELSE fs["meta"].epoch

\* A search trusts an index that carries the sidecar's two stamps.
Trusted(fs) == /\ fs["index"] # None
               /\ fs["index"].gen = Gen(fs)
               /\ fs["index"].epoch = Epoch(fs)

IdOf(f) == IF f = None THEN None ELSE f.id
Phase == IF marker = None THEN None ELSE marker.phase

\* Identities are compared only between files of one name.  A new file has
\* none of those still in use there, so two files are equal only when they are
\* one file unchanged.
Used(n) == {IdOf(fs[n]) : fs \in {live, kept, disk.live, disk.kept}}
           \cup (IF marker = None THEN {} ELSE {marker.prior[n]})
FreshId(n) == CHOOSE id \in Ids : id \notin Used(n)
NewFile(n, change, gen, epoch) ==
    [id |-> FreshId(n), change |-> change, gen |-> gen, epoch |-> epoch]

\* The recovery set is whole: what is still kept is the file that was kept,
\* and what is not has been moved back.
Verified ==
    \A n \in Names :
        LET identity == marker.prior[n] IN
        IF identity = None THEN kept[n] = None
        ELSE identity = IF kept[n] # None THEN kept[n].id ELSE IdOf(live[n])

-----------------------------------------------------------------------------
(***************************************************************************)
(* Ordinary writers: a capture, a withhold and a compaction, each atomic    *)
(* here (MemoryLedger has their steps).  The writers' lock refuses them      *)
(* while a marker exists.                                                   *)
(***************************************************************************)
Open_Unchecked == job = None
Open == marker = None

\* They write in place or sync what they rename.
Written(files) ==
    /\ live' = files
    /\ disk' = [disk EXCEPT !.live =
                   [n \in Names |-> IF @[n] = live[n] THEN files[n] ELSE @[n]]]
    /\ acked' = acked + 1
    /\ UNCHANGED <<kept, marker, job>>

Append ==
    /\ Open /\ job = None /\ acked < MaxChange
    /\ LET next == acked + 1 IN
       Written([live EXCEPT
           !["ledger"] = NewFile("ledger", next, Gen(live), 0),
           !["index"] = IF Trusted(live)       \* extended when it is current
                        THEN NewFile("index", next, Gen(live), Epoch(live)) ELSE @])

Withhold ==
    /\ Open /\ job = None /\ acked < MaxChange /\ Epoch(live) < MaxEpoch
    /\ Written([live EXCEPT
           !["ledger"] = NewFile("ledger", acked + 1, Gen(live), 0),
           !["meta"] = NewFile("meta", 0, Gen(live), Epoch(live) + 1)])

Compact ==
    /\ Open /\ job = None /\ acked < MaxChange /\ Gen(live) < MaxGen
    /\ LET gen == Gen(live) + 1 IN
       Written([live EXCEPT
           !["ledger"] = NewFile("ledger", acked + 1, gen, 0),
           !["meta"] = NewFile("meta", 0, gen, Epoch(live)),
           !["index"] = NewFile("index", acked + 1, gen, Epoch(live))])

\* A search rebuilds an index that exists and is stale, marker or no marker.
Heal ==
    /\ job = None
    /\ live["index"] # None /\ ~Trusted(live) /\ live["ledger"] # None
    /\ live' = [live EXCEPT !["index"] =
                   NewFile("index", Change(live), Gen(live), Epoch(live))]
    /\ UNCHANGED <<kept, marker, disk, job, acked>>

-----------------------------------------------------------------------------
(***************************************************************************)
(* The restore (_apply_restore).                                           *)
(***************************************************************************)
Synced == disk' = [live |-> live', kept |-> kept', marker |-> marker']
Step(at) == job' = [job EXCEPT !.at = at]

\* The prior files are linked into the staging directory, or copied where the
\* file system has no links; `indexed' is whether this machine has FTS5.
Stage(gen, linked, indexed) ==
    /\ Open /\ job = None /\ acked < MaxChange
    /\ kept' = [n \in Names |->
                   IF live[n] = None \/ linked THEN live[n]
                   ELSE [live[n] EXCEPT !.id = FreshId(n)]]
    /\ LET new(n, change) ==
               [id |-> 0, change |-> change, gen |-> gen,
                epoch |-> IF n = "ledger" THEN 0 ELSE Epoch(live)]
       IN job' = [at |-> "journal",
                  new |-> [n \in Names |->
                      CASE n = "index" -> IF indexed THEN new(n, acked + 1) ELSE None
                        [] n = "meta" -> new(n, 0)
                        [] OTHER -> new(n, acked + 1)]]
    /\ UNCHANGED <<live, marker, disk, acked>>

\* The marker's identities are those of the kept files.
Journal ==
    /\ job # None /\ job.at = "journal"
    /\ marker' = [phase |-> "active", prior |-> [n \in Names |-> IdOf(kept[n])]]
    /\ Step("unindex")
    /\ UNCHANGED <<live, kept, acked>>
    /\ Synced

Unindex_Trusting ==
    /\ job # None /\ job.at = "unindex"
    /\ Step("ledger")
    /\ UNCHANGED <<store, acked>>
Unindex ==
    /\ job # None /\ job.at = "unindex"
    /\ live' = [live EXCEPT !["index"] = None]
    /\ Step("ledger")
    /\ UNCHANGED <<kept, marker, disk, acked>>

\* A staged file renamed over the live one; it gets its identity here.
Publish(n) ==
    live' = [live EXCEPT ![n] =
        IF job.new[n] = None THEN @ ELSE [job.new[n] EXCEPT !.id = FreshId(n)]]

PublishLedger ==
    /\ job # None /\ job.at = "ledger"
    /\ Publish("ledger")
    /\ Step("meta")
    /\ UNCHANGED <<kept, marker, acked>>
    /\ Synced

PublishMeta ==
    /\ job # None /\ job.at = "meta"
    /\ Publish("meta")
    /\ Step("index")
    /\ UNCHANGED <<kept, marker, disk, acked>>

PublishIndex ==
    /\ job # None /\ job.at = "index"
    /\ Publish("index")
    /\ Step("complete")
    /\ UNCHANGED <<kept, marker, acked>>
    /\ Synced

-----------------------------------------------------------------------------
(***************************************************************************)
(* Retiring the marker (_complete_restore_transaction) and the staging.     *)
(***************************************************************************)
Completed_Unmarked ==
    /\ marker' = None
    /\ job' = [at |-> "settle"]
    /\ UNCHANGED <<live, kept, disk>>
Completed ==
    /\ marker' = [marker EXCEPT !.phase = "complete"]
    /\ job' = [at |-> "unmark"]
    /\ UNCHANGED <<live, kept>>
    /\ Synced

\* From here the restore is reported done, whatever becomes of the marker.
Complete ==
    /\ job # None /\ job.at = "complete"
    /\ Completed
    /\ acked' = Change(live)

Unmark ==
    /\ job # None /\ job.at = "unmark"
    /\ marker' = None
    /\ job' = [at |-> "settle"]
    /\ UNCHANGED <<live, kept, disk, acked>>

Settle ==
    /\ job # None /\ job.at = "settle"
    /\ job' = [at |-> "clean"]
    /\ UNCHANGED <<live, kept, marker, acked>>
    /\ Synced

\* The staging directory is removed only under the lock and without a marker.
Emptied == IF marker = None THEN [n \in Names |-> None] ELSE kept

Clean ==
    /\ job # None /\ job.at = "clean"
    /\ kept' = Emptied
    /\ job' = None
    /\ UNCHANGED <<live, marker, disk, acked>>

-----------------------------------------------------------------------------
(***************************************************************************)
(* Rolling back (_restore_prior_set), by the restore that met a fault or by *)
(* the next session's start.                                               *)
(***************************************************************************)
Fault ==
    /\ job # None /\ job.at \in {"unindex", "ledger", "meta", "index", "complete"}
    /\ job' = [at |-> "restage"]
    /\ UNCHANGED <<store, acked>>

Reconcile_AnyPhase ==
    /\ job = None
    /\ job' = CASE Phase = None -> [at |-> "clean"]
                [] OTHER -> IF Verified THEN [at |-> "restage"] ELSE None
    /\ UNCHANGED <<store, acked>>
Reconcile ==
    /\ job = None
    /\ job' = CASE Phase = None -> [at |-> "clean"]
                [] Phase = "complete" -> [at |-> "unmark"]
                [] OTHER -> IF Verified THEN [at |-> "restage"] ELSE None
    /\ UNCHANGED <<store, acked>>

\* An index an earlier attempt already moved back is kept again before the
\* live one is removed.
Restageable == /\ kept["index"] = None
               /\ live["index"] # None
               /\ live["index"].id = marker.prior["index"]

Restage(linked) ==
    /\ job # None /\ job.at = "restage"
    /\ LET copy == IF linked THEN live["index"]
                   ELSE [live["index"] EXCEPT !.id = FreshId("index")]
           again == IF Restageable THEN copy ELSE kept["index"]
       IN /\ kept' = [kept EXCEPT !["index"] = again]
          /\ disk' = [disk EXCEPT !.kept["index"] = again]
    /\ job' = [at |-> "remove"]
    /\ UNCHANGED <<live, marker, acked>>

RemoveIndex ==
    /\ job # None /\ job.at = "remove"
    /\ live' = [live EXCEPT !["index"] = None]
    /\ job' = [at |-> "back-ledger"]
    /\ UNCHANGED <<kept, marker, disk, acked>>

\* One prior file moved back; a rename onto the same file leaves both names.
\* A file that is not the one kept ends the attempt under the marker.
Back(n, next) ==
    LET identity == marker.prior[n]
        found == IF kept[n] # None THEN kept[n] ELSE live[n]
    IN /\ IF identity # None /\ IdOf(found) # identity
          THEN job' = None /\ UNCHANGED <<live, kept>>
          ELSE /\ live' = [live EXCEPT ![n] = IF identity = None THEN None ELSE found]
               /\ kept' = [kept EXCEPT ![n] = IF kept[n] = live[n] THEN @ ELSE None]
               /\ job' = [at |-> next]
       /\ UNCHANGED <<marker, disk, acked>>

RestoreLedger == job # None /\ job.at = "back-ledger" /\ Back("ledger", "back-meta")
RestoreMeta == job # None /\ job.at = "back-meta" /\ Back("meta", "back-index")
RestoreIndex == job # None /\ job.at = "back-index" /\ Back("index", "back-complete")

\* The renames are synced before the marker is completed.
RolledBack ==
    /\ job # None /\ job.at = "back-complete"
    /\ Completed
    /\ UNCHANGED acked

-----------------------------------------------------------------------------
\* The process dies, or its deadline expires: what it wrote stays.
Crash == job # None /\ job' = None /\ UNCHANGED <<store, acked>>

\* The machine dies, and every rename since the last directory sync is undone.
\* Renames reach the disk in their order, so a power loss that undoes only the
\* last of them is one that came earlier.
PowerLoss ==
    /\ live' = disk.live /\ kept' = disk.kept /\ marker' = disk.marker
    /\ job' = None
    /\ UNCHANGED <<disk, acked>>

-----------------------------------------------------------------------------
Init ==
    /\ live = [n \in Names |-> None]
    /\ kept = [n \in Names |-> None]
    /\ marker = None
    /\ disk = [live |-> live, kept |-> kept, marker |-> None]
    /\ job = None
    /\ acked = 0

Next ==
    \/ Append \/ Withhold \/ Compact \/ Heal
    \/ \E gen \in 0 .. MaxGen, linked \in Links, indexed \in BOOLEAN :
           Stage(gen, linked, indexed)
    \/ Journal \/ Unindex \/ PublishLedger \/ PublishMeta \/ PublishIndex
    \/ Complete \/ Unmark \/ Settle \/ Clean
    \/ Fault \/ Reconcile
    \/ \E linked \in Links : Restage(linked)
    \/ RemoveIndex \/ RestoreLedger \/ RestoreMeta \/ RestoreIndex \/ RolledBack
    \/ Crash \/ PowerLoss

Spec == Init /\ [][Next]_vars

-----------------------------------------------------------------------------
(***************************************************************************)
(* Properties.                                                             *)
(***************************************************************************)
\* Every variable has its type, and a job that works under the marker finds
\* it in the phase its step expects.
TypeOK ==
    /\ live \in Files /\ kept \in Files
    /\ marker \in Marker \cup {None}
    /\ disk \in Disk
    /\ job \in Publishing \cup Restoring \cup {None}
    /\ acked \in 0 .. MaxChange
    /\ job # None =>
         /\ job.at \in {"journal", "settle", "clean"} => marker = None
         /\ job.at = "unmark" => Phase = "complete"
         /\ job.at \notin {"journal", "settle", "clean", "unmark"} => Phase = "active"

\* At every cut of a restore or of its rollback, and after a power loss at
\* any of them, an index a search would trust is of the very ledger that is
\* live.  A backup may carry the generation the local store has, so the
\* stamps alone do not tell the two ledgers apart.
TrustedIndexMatches == Trusted(live) => live["index"].change = Change(live)

\* A store no active marker closes is a whole set: its ledger holds
\* everything that was acknowledged and nothing a failed restore left, and
\* its sidecar carries that ledger's generation.
OpenStoreIsWhole ==
    Phase # "active" =>
        /\ Change(live) = acked
        /\ live["ledger"] # None => Gen(live) = live["ledger"].gen

\* While a restore is in doubt, the acknowledged ledger and its sidecar are
\* still there, at the live name or in the staging directory, on the disk as
\* well as in the namespace.
PriorIsKept ==
    Phase = "active" =>
        \A fs \in {<<live, kept>>, <<disk.live, disk.kept>>} :
            \A n \in {"ledger", "meta"} :
                marker.prior[n] # None =>
                    \E f \in {fs[1][n], fs[2][n]} :
                        IdOf(f) = marker.prior[n] /\ (n = "ledger" => f.change = acked)

\* What the recovery message promises, "I preserved the prior files for
\* recovery. Restart the Engine session once; it will retry recovery before
\* memory writes resume": an interrupted restore can always be retried.
RecoverySetVerifies == (Phase = "active" /\ job = None) => Verified
=============================================================================
