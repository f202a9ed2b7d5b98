------------------------------ MODULE MemoryLedger ------------------------------
(***************************************************************************)
(* The memory store: capture of the conversation (capture.py), the ledger   *)
(* and its stamps (ledger.py), withholding and restoring (forget.py),       *)
(* erasure and compaction (compact.py), and the derived search index        *)
(* (index.py).                                                             *)
(*                                                                         *)
(* Every writer, the search that repairs the index included, runs under one *)
(* exclusive store lock from its outermost guarded call to its return       *)
(* (mutation_authority.mutation_scope), so one job is under way at a time.  *)
(* What makes the store hard is where that job may die: a job is a sequence *)
(* of durable writes, each its own action, and Crash (the process dies, or  *)
(* a step raises) may come between any two of them.                         *)
(*                                                                         *)
(* A message is identified by its conversation and its place in it; an      *)
(* empty, noisy or long message, which capture drops or splits, is left     *)
(* out.  A line's stamp is its place in the ledger's order: an erased line   *)
(* leaves a gap where the file closes up, which is all that byte positions   *)
(* add, since a serialised writer never leaves them out of step.            *)
(***************************************************************************)
EXTENDS Integers, FiniteSets

CONSTANTS
    Conversations,  \* sessions whose transcripts are captured
    None,           \* no journal, no index, no job
    MaxSaid,        \* bound: messages of all transcripts together
    MaxMarks,       \* bound: withhold and restore markers
    MaxEpoch,       \* bound: starts of a withhold or a restore
    MaxGen          \* bound: compactions

VARIABLES
    said,       \* conversation -> messages of its transcript
    cursor,     \* conversation -> messages captured (the cursor file)
    journal,    \* the prepared capture transaction, or None
    minted,     \* captures prepared: what makes a record id new
    ledger,     \* the ledger's lines
    length,     \* lines ever appended
    gen,        \* the ledger's generation (its sidecar)
    epoch,      \* the index epoch (its sidecar)
    index,      \* the search index and its stamps, or None
    job         \* what the holder of the store lock is at, or None

transcripts == said
capture == <<cursor, journal, minted>>
lines == <<ledger, length>>
stamps == <<gen, epoch>>
vars == <<said, cursor, journal, minted, ledger, length, gen, epoch, index, job>>

ASSUME Bounds == /\ MaxSaid \in Nat \ {0} /\ MaxMarks \in Nat
                 /\ MaxEpoch \in Nat /\ MaxGen \in Nat

\* One captured message.  `id' tells apart two captures of the same message.
Record == [conv : Conversations, seq : Nat \ {0}, id : Nat]

\* A withhold names one record or a whole session; an erasure one record.
Target == Record \cup Conversations
Turn == [at : Nat, kind : {"turn"}, about : Record]
Mark == [at : Nat, kind : {"withhold", "restore"}, about : Target]
Erasure == [at : Nat, kind : {"erasure"}, about : Record]
Line == Turn \cup Mark \cup Erasure

Journal == [conv : Conversations, upto : Nat, records : SUBSET Record]
Index == [gen : Nat, epoch : Nat, hidden : SUBSET Target, rows : SUBSET Turn]

Capturing == [at : {"prepare", "append", "index", "clear"},
              conv : Conversations, replay : BOOLEAN]
Marking == [at : {"mark"}, kind : {"withhold", "restore"}, about : Target]
Compacting == [at : {"swap", "reindex"}]
Job == Capturing \cup Marking \cup Compacting

ASSUME NoneIsNothing == None \notin Journal \cup Index \cup Job
ASSUME SessionsAreNotRecords == Conversations \cap Record = {}

-----------------------------------------------------------------------------
(***************************************************************************)
(* Reading the ledger.                                                     *)
(***************************************************************************)
Turns == {l \in ledger : l.kind = "turn"}
Marks == {l \in ledger : l.kind \in {"withhold", "restore"}}
ErasureTargets == {l.about : l \in {m \in ledger : m.kind = "erasure"}}
Captured(r) == \E l \in Turns : l.about = r

\* withheld_targets: of the markers naming a target, the last one decides.
Withheld ==
    {m.about : m \in {l \in Marks : /\ l.kind = "withhold"
                                    /\ \A k \in Marks : k.about = l.about => k.at <= l.at}}

IsWithheld(r, targets) == r \in targets \/ r.conv \in targets

\* live_records: the lines recall may surface.
Live == {l \in Turns : ~IsWithheld(l.about, Withheld)}

\* _index_is_current: only an index with the store's present stamps is read.
Current(ix) == ix # None /\ ix.gen = gen /\ ix.epoch = epoch

Rebuilt == [gen |-> gen, epoch |-> epoch, hidden |-> Withheld, rows |-> Live]

Init ==
    /\ said = [c \in Conversations |-> 0]
    /\ cursor = [c \in Conversations |-> 0]
    /\ journal = None /\ minted = 0
    /\ ledger = {} /\ length = 0
    /\ gen = 0 /\ epoch = 0
    /\ index \in {None, [gen |-> 0, epoch |-> 0, hidden |-> {}, rows |-> {}]}
    /\ job = None

-----------------------------------------------------------------------------
(***************************************************************************)
(* Jobs and their one lock.                                                *)
(***************************************************************************)
At(step) == job # None /\ job.at = step
Capturing_At(step) == job' = [job EXCEPT !.at = step]
Release == job' = None

AppendLine(kind, about) ==
    /\ ledger' = ledger \cup {[at |-> length + 1, kind |-> kind, about |-> about]}
    /\ length' = length + 1

\* The process dies, or a step raises: the lock is free and the files stay.
Crash ==
    /\ job # None
    /\ Release
    /\ UNCHANGED <<transcripts, capture, lines, stamps, index>>

-----------------------------------------------------------------------------
(***************************************************************************)
(* Capture.                                                                *)
(***************************************************************************)
Say(c) ==
    /\ Cardinality({m \in Conversations \X (1..MaxSaid) : m[2] <= said[m[1]]}) < MaxSaid
    /\ said' = [said EXCEPT ![c] = @ + 1]
    /\ UNCHANGED <<capture, lines, stamps, index, job>>

\* A session stops, or the drain reaches its transcript.  A journal some earlier
\* process left, of whatever session, is rolled forward first.
CaptureBegin(c) ==
    /\ job = None
    /\ job' = [at |-> IF journal = None THEN "prepare" ELSE "append",
               conv |-> c, replay |-> journal # None]
    /\ UNCHANGED <<transcripts, capture, lines, stamps, index>>

NothingNew ==
    /\ At("prepare") /\ said[job.conv] <= cursor[job.conv]
    /\ Release
    /\ UNCHANGED <<transcripts, capture, lines, stamps, index>>

Delta(c) == cursor[c] + 1..said[c]
CursorAfter_PastTheEnd(c) == said[c] + 1
CursorAfter(c) == said[c]

\* The journal is on disk before any of its records is in the ledger.
Prepare ==
    /\ At("prepare") /\ said[job.conv] > cursor[job.conv]
    /\ minted' = minted + 1
    /\ journal' = [conv |-> job.conv, upto |-> CursorAfter(job.conv),
                   records |-> [conv : {job.conv}, seq : Delta(job.conv), id : {minted + 1}]]
    /\ Capturing_At("append")
    /\ UNCHANGED <<transcripts, cursor, lines, stamps, index>>

\* _recover_capture_transaction: what of the journal the ledger does not hold yet.
Missing_All == journal.records
Missing == {r \in journal.records : ~Captured(r)}

AppendTurn ==
    /\ At("append")
    /\ \E r \in Missing :
          /\ \A q \in Missing : r.seq <= q.seq
          /\ AppendLine("turn", r)
    /\ UNCHANGED <<transcripts, capture, stamps, index, job>>

Appended_TooSoon == TRUE
Appended == Missing = {}

\* _write_cursor: the cursor of the journal's session, only ever forward.
CursorOf_CurrentSession == job.conv
CursorOf == journal.conv

AdvanceCursor ==
    /\ At("append") /\ Appended
    /\ cursor' = [cursor EXCEPT ![CursorOf] = IF @ < journal.upto THEN journal.upto ELSE @]
    /\ Capturing_At("index")
    /\ UNCHANGED <<transcripts, journal, minted, lines, stamps, index>>

\* extend: adds the new turns to an index that is current and leaves any other alone.
Extended_IgnoringWithholds ==
    IF Current(index)
    THEN [index EXCEPT !.rows = @ \cup {l \in Turns : l.about \in journal.records}]
    ELSE index
Extended ==
    IF Current(index)
    THEN [index EXCEPT !.rows = @ \cup {l \in Turns : /\ l.about \in journal.records
                                                      /\ ~IsWithheld(l.about, index.hidden)}]
    ELSE index

\* After a replay only a full rebuild is sure to leave neither hole nor double.
ApplyIndex ==
    /\ At("index")
    /\ index' = IF job.replay THEN Rebuilt ELSE Extended
    /\ Capturing_At("clear")
    /\ UNCHANGED <<transcripts, capture, lines, stamps>>

\* A fault inside extend leaves the index as it was and makes it stale.
ExtendFaults ==
    /\ At("index") /\ ~job.replay /\ index # None
    /\ epoch' = epoch + 1
    /\ Capturing_At("clear")
    /\ UNCHANGED <<transcripts, capture, lines, gen, index>>

\* The journal goes last.  A replay then turns to its own session's messages.
ClearJournal ==
    /\ At("clear")
    /\ journal' = None
    /\ IF job.replay THEN job' = [job EXCEPT !.at = "prepare", !.replay = FALSE] ELSE Release
    /\ UNCHANGED <<transcripts, cursor, minted, lines, stamps, index>>

-----------------------------------------------------------------------------
(***************************************************************************)
(* Withholding, restoring, erasing, compacting.                            *)
(***************************************************************************)
\* _target_state: a target must exist, and a withheld one is not withheld again.
Exists(t) == \E l \in Turns : l.about = t \/ l.about.conv = t

\* _write_control: the index is made stale before the marker is written.
ControlBegin(kind, t) ==
    /\ job = None
    /\ epoch < MaxEpoch /\ Cardinality(Marks) < MaxMarks
    /\ Exists(t)
    /\ kind = "withhold" => t \notin Withheld
    /\ epoch' = epoch + 1
    /\ job' = [at |-> "mark", kind |-> kind, about |-> t]
    /\ UNCHANGED <<transcripts, capture, lines, gen, index>>

ControlAppend ==
    /\ At("mark")
    /\ AppendLine(job.kind, job.about)
    /\ Release
    /\ UNCHANGED <<transcripts, capture, stamps, index>>

\* enact_erasure: the operator merged a request that names the record.  The next
\* compaction carries it out.  One append, so one action under the lock.
EnactErasure(r) ==
    /\ job = None
    /\ Captured(r) /\ r \notin ErasureTargets
    /\ AppendLine("erasure", r)
    /\ UNCHANGED <<transcripts, capture, stamps, index, job>>

\* compact: the generation moves before the rewritten ledger replaces the old one.
CompactBegin ==
    /\ job = None
    /\ gen < MaxGen
    /\ gen' = gen + 1
    /\ job' = [at |-> "swap"]
    /\ UNCHANGED <<transcripts, capture, lines, epoch, index>>

\* The erased turns go; the markers that name them stay, and so does the rest.
Kept_DropsMarks == {l \in Turns : l.about \notin ErasureTargets} \cup (ledger \ (Turns \cup Marks))
Kept == {l \in ledger : l.kind = "turn" => l.about \notin ErasureTargets}

Swap ==
    /\ At("swap")
    /\ ledger' = Kept
    /\ job' = [at |-> "reindex"]
    /\ UNCHANGED <<transcripts, capture, length, stamps, index>>

Reindex ==
    /\ At("reindex")
    /\ index' = Rebuilt
    /\ Release
    /\ UNCHANGED <<transcripts, capture, lines, stamps>>

\* _heal_if_stale: a search that finds a stale index rebuilds it.  A crash on the
\* way leaves the old one, so it is one action under the lock.
Heal ==
    /\ job = None
    /\ index # None /\ ~Current(index)
    /\ index' = Rebuilt
    /\ UNCHANGED <<transcripts, capture, lines, stamps, job>>

-----------------------------------------------------------------------------
Next ==
    \/ \E c \in Conversations : Say(c)
    \/ \E c \in Conversations : CaptureBegin(c)
    \/ NothingNew
    \/ Prepare
    \/ AppendTurn
    \/ AdvanceCursor
    \/ ApplyIndex
    \/ ExtendFaults
    \/ ClearJournal
    \/ \E l \in Turns, kind \in {"withhold", "restore"} :
          ControlBegin(kind, l.about) \/ ControlBegin(kind, l.about.conv)
    \/ ControlAppend
    \/ \E l \in Turns : EnactErasure(l.about)
    \/ CompactBegin
    \/ Swap
    \/ Reindex
    \/ Heal
    \/ Crash

Spec == Init /\ [][Next]_vars

JobStep ==
    \/ NothingNew \/ Prepare \/ AppendTurn \/ AdvanceCursor \/ ApplyIndex \/ ExtendFaults
    \/ ClearJournal \/ ControlAppend \/ Swap \/ Reindex

(***************************************************************************)
(* Fairness.  A job that holds the lock runs on, faults come to an end, and *)
(* each session's transcript is reached again and again: by its own stops,  *)
(* or by the drain at a later session's start, and the store lock is waited *)
(* for.                                                                     *)
(***************************************************************************)
MemoryFairness ==
    /\ <>[][Crash => JobStep]_vars
    /\ WF_vars(JobStep)
    /\ \A c \in Conversations : SF_vars(CaptureBegin(c))

FairSpec == Spec /\ MemoryFairness

-----------------------------------------------------------------------------
(***************************************************************************)
(* Properties.                                                             *)
(***************************************************************************)
TypeOK ==
    /\ said \in [Conversations -> Nat]
    /\ cursor \in [Conversations -> Nat]
    /\ \A c \in Conversations : cursor[c] <= said[c]
    /\ journal \in Journal \cup {None}
    /\ minted \in Nat
    /\ ledger \subseteq Line
    /\ length \in Nat
    /\ gen \in Nat /\ epoch \in Nat
    /\ index \in Index \cup {None}
    /\ job \in Job \cup {None}

\* The message is in the ledger, or the operator had it erased.
Recorded(c, n) ==
    \E r \in {l.about : l \in Turns} \cup ErasureTargets : r.conv = c /\ r.seq = n

\* A message below the cursor will never be read from its transcript again, so it
\* has its line (_write_cursor after the appends, compact removes only the erased).
NothingLost == \A c \in Conversations : \A n \in 1..cursor[c] : Recorded(c, n)

\* However often captures are cut and rolled forward, a message is in the ledger
\* once (test_every_capture_transaction_boundary_recovers_without_loss_or_duplicate).
CapturedOnce ==
    \A l, m \in Turns :
        (l.about.conv = m.about.conv /\ l.about.seq = m.about.seq) => l = m

\* The parity law (extend's docstring): between captures, an index that searches
\* trust holds exactly the lines a scan of the ledger would surface: no hole, no
\* withheld turn, no erased one.
RecallIsWhole == (Current(index) /\ journal = None) => index.rows = Live

\* What was withheld stays out of recall until a restore of that very target is
\* recorded (withhold: "restore brings them back"); no compaction undoes it.
OnlyRestoreReveals ==
    [][\A t \in Withheld : t \notin Withheld' =>
          \E m \in ledger' \ ledger : m.kind = "restore" /\ m.about = t]_vars

\* Everything said is captured in the end, however often a capture is cut.
EverythingCaptured ==
    \A c \in Conversations : \A n \in 1..MaxSaid :
        (said[c] >= n) ~> Recorded(c, n)

\* drain.py: "Why the drain cannot re-land erased content": what a compaction has
\* removed never comes back.
ErasedStaysErased ==
    [][\A r \in ErasureTargets : ~Captured(r) => ~Captured(r)']_vars

-----------------------------------------------------------------------------
(***************************************************************************)
(* The inductive invariant.                                                *)
(***************************************************************************)
\* A line is stamped once, and later than every line before it.
Stamped ==
    /\ \A l \in ledger : l.at <= length
    /\ index # None => index.gen <= gen /\ index.epoch <= epoch

\* What a job relies on of what it has already written.
JobUnderWay ==
    /\ At("prepare") => journal = None
    /\ (At("append") \/ At("index") \/ At("clear")) => journal # None
    /\ (At("index") \/ At("clear")) => Missing = {} /\ journal.upto <= cursor[journal.conv]
    /\ (At("mark") \/ At("swap") \/ At("reindex")) => ~Current(index)

\* A journal holds each message above the cursor once, and no other capture of it
\* is in the ledger.
JournalExact ==
    journal # None =>
        /\ journal.upto <= said[journal.conv]
        /\ \A r \in journal.records : r.conv = journal.conv /\ r.seq <= journal.upto
        /\ \A q, r \in journal.records : q.seq = r.seq => q = r
        /\ \A r \in journal.records, l \in Turns :
              (l.about.conv = r.conv /\ l.about.seq = r.seq) => l.about = r
        /\ \A n \in cursor[journal.conv] + 1..journal.upto :
              \E r \in journal.records : r.seq = n

\* A line above the cursor is the journal's.
AboveCursor ==
    \A l \in Turns : cursor[l.about.conv] < l.about.seq =>
        journal # None /\ l.about \in journal.records

\* A current index was built under the present withholds, surfaces nothing it must
\* not, and lacks at most what the journal is still to bring.
IndexSound ==
    Current(index) =>
        /\ index.hidden = Withheld
        /\ index.rows \subseteq Live
        /\ \A l \in Live \ index.rows : journal # None /\ l.about \in journal.records
        /\ At("clear") => index.rows = Live

IInv ==
    /\ TypeOK /\ Stamped /\ JobUnderWay /\ JournalExact /\ AboveCursor
    /\ IndexSound /\ NothingLost /\ CapturedOnce

=============================================================================
