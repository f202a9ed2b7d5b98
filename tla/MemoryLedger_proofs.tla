--------------------------- MODULE MemoryLedger_proofs ---------------------------
(***************************************************************************)
(* Proofs about MemoryLedger, for any conversations and any bounds: no cut  *)
(* of a capture, a withhold or a compaction loses a message, captures one   *)
(* twice, or leaves searches an index that differs from the ledger.         *)
(***************************************************************************)
EXTENDS MemoryLedger, TLAPS

\* A line is one of three kinds, and its kind says what it names.
LEMMA LineKinds ==
    ASSUME ledger \subseteq Line, NEW l \in ledger
    PROVE  /\ l.at \in Nat
           /\ l.kind \in {"turn", "withhold", "restore", "erasure"}
           /\ l.kind \in {"turn", "erasure"} => l.about \in Record
           /\ l.kind \in {"withhold", "restore"} => l.about \in Target
           /\ l.kind = "turn" => l \in Turn
BY DEF Line, Turn, Mark, Erasure

\* What recall surfaces depends on the ledger's lines alone.
LEMMA SameLines ==
    ASSUME ledger' = ledger
    PROVE  /\ Turns' = Turns /\ Marks' = Marks /\ ErasureTargets' = ErasureTargets
           /\ Withheld' = Withheld /\ Live' = Live
           /\ \A r : Captured(r)' = Captured(r)
BY DEF Turns, Marks, ErasureTargets, Withheld, Live, Captured

\* What is withheld and what is surfaced are of their types.
LEMMA ReadTypes ==
    ASSUME TypeOK
    PROVE  Withheld \subseteq Target /\ Live \subseteq Turn /\ Turns \subseteq Turn
<1>1. Turns \subseteq Turn
  BY LineKinds DEF Turns, TypeOK
<1>2. Withheld \subseteq Target
  BY LineKinds DEF Withheld, Marks, TypeOK
<1> QED BY <1>1, <1>2 DEF Live

\* A new line adds to one of the three kinds.
LEMMA AppendedLine ==
    ASSUME TypeOK, NEW kind, NEW about, AppendLine(kind, about)
    PROVE  /\ ledger' = ledger \cup {[at |-> length + 1, kind |-> kind, about |-> about]}
           /\ length' = length + 1 /\ length' \in Nat
           /\ kind = "turn" =>
                /\ Turns' = Turns \cup {[at |-> length + 1, kind |-> kind, about |-> about]}
                /\ Marks' = Marks /\ ErasureTargets' = ErasureTargets /\ Withheld' = Withheld
           /\ kind = "erasure" =>
                /\ Turns' = Turns /\ Marks' = Marks /\ Withheld' = Withheld
                /\ ErasureTargets' = ErasureTargets \cup {about}
           /\ kind \in {"withhold", "restore"} =>
                /\ Turns' = Turns /\ ErasureTargets' = ErasureTargets
                /\ Marks' = Marks \cup {[at |-> length + 1, kind |-> kind, about |-> about]}
<1> DEFINE new == [at |-> length + 1, kind |-> kind, about |-> about]
<1>1. /\ ledger' = ledger \cup {new} /\ length' = length + 1 /\ length' \in Nat
  BY DEF AppendLine, TypeOK
<1>2. new.kind = kind /\ new.about = about
  OBVIOUS
<1>3. kind = "turn" => Turns' = Turns \cup {new} /\ Marks' = Marks /\ ErasureTargets' = ErasureTargets
  BY <1>1, <1>2 DEF Turns, Marks, ErasureTargets
<1>4. kind = "erasure" =>
        Turns' = Turns /\ Marks' = Marks /\ ErasureTargets' = ErasureTargets \cup {about}
  BY <1>1, <1>2 DEF Turns, Marks, ErasureTargets
<1>5. kind \in {"withhold", "restore"} =>
        Turns' = Turns /\ ErasureTargets' = ErasureTargets /\ Marks' = Marks \cup {new}
  BY <1>1, <1>2 DEF Turns, Marks, ErasureTargets
<1>6. Marks' = Marks => Withheld' = Withheld
  BY DEF Withheld
<1> QED BY <1>1, <1>3, <1>4, <1>5, <1>6

\* A compaction takes erased turns away and nothing else.
LEMMA Compacted ==
    ASSUME TypeOK, Swap
    PROVE  /\ Turns' = {l \in Turns : l.about \notin ErasureTargets}
           /\ Marks' = Marks /\ ErasureTargets' = ErasureTargets /\ Withheld' = Withheld
           /\ ledger' \subseteq ledger
<1>1. ledger' = {l \in ledger : l.kind = "turn" => l.about \notin ErasureTargets}
  BY DEF Swap, Kept
<1>2. Marks' = Marks
  BY <1>1 DEF Marks
<1>3. ErasureTargets' = ErasureTargets
  BY <1>1 DEF ErasureTargets
<1>4. Turns' = {l \in Turns : l.about \notin ErasureTargets}
  BY <1>1 DEF Turns
<1>5. Withheld' = Withheld
  BY <1>2 DEF Withheld
<1> QED BY <1>1, <1>2, <1>3, <1>4, <1>5

-----------------------------------------------------------------------------
(***************************************************************************)
(* Type correctness.                                                       *)
(***************************************************************************)

\* The initial state is well typed.
LEMMA TypeInit == Init => TypeOK
<1> SUFFICES ASSUME Init PROVE TypeOK
  OBVIOUS
<1>1. [gen |-> 0, epoch |-> 0, hidden |-> {}, rows |-> {}] \in Index
  BY DEF Index
<1> QED BY <1>1 DEF Init, TypeOK

\* An index built now is well typed.
LEMMA RebuiltType == ASSUME TypeOK PROVE Rebuilt \in Index
BY ReadTypes DEF Rebuilt, Index, TypeOK

\* What a capture prepares is a journal.
LEMMA PreparedType == ASSUME TypeOK, Prepare PROVE journal' \in Journal /\ minted' \in Nat
<1>1. job.conv \in Conversations
  BY NoneIsNothing DEF TypeOK, Prepare, At, Job, Capturing, Marking, Compacting
<1> DEFINE d == Delta(job.conv)
<1>2. d \subseteq Nat \ {0}
  BY <1>1 DEF Delta, TypeOK
<1>3. minted + 1 \in Nat /\ said[job.conv] \in Nat
  BY <1>1 DEF TypeOK
<1>4. [conv : {job.conv}, seq : d, id : {minted + 1}] \subseteq Record
  BY <1>1, <1>2, <1>3 DEF Record
<1> QED BY <1>1, <1>3, <1>4 DEF Prepare, Journal, CursorAfter

\* Every step leaves the state well typed.
LEMMA TypeStep ==
    ASSUME IInv, Next
    PROVE  TypeOK'
<1>0. TypeOK
  BY DEF IInv
<1>j. job # None => job \in Job
  BY <1>0 DEF TypeOK
<1>c. \A step \in {"prepare", "append", "index", "clear"} : At(step) => job \in Capturing
  BY <1>j DEF At, Job, Capturing, Marking, Compacting
<1>1. ASSUME NEW c \in Conversations, Say(c) PROVE TypeOK'
  BY <1>0, <1>1 DEF Say, TypeOK, capture, lines, stamps
<1>2. ASSUME NEW c \in Conversations, CaptureBegin(c) PROVE TypeOK'
  BY <1>0, <1>2 DEF CaptureBegin, TypeOK, transcripts, capture, lines, stamps, Job, Capturing
<1>3. CASE NothingNew
  BY <1>0, <1>3 DEF NothingNew, Release, TypeOK, transcripts, capture, lines, stamps
<1>4. CASE Prepare
  <2>1. journal' \in Journal /\ minted' \in Nat
    BY <1>0, <1>4, PreparedType
  <2>2. job' \in Job
    BY <1>4, <1>c DEF Prepare, Capturing_At, Capturing, Job
  <2> QED BY <1>0, <1>4, <2>1, <2>2 DEF Prepare, TypeOK, transcripts, lines, stamps
<1>5. CASE AppendTurn
  <2>1. PICK r \in Missing : AppendLine("turn", r)
    BY <1>5 DEF AppendTurn
  <2>2. journal # None
    BY <1>5 DEF AppendTurn, IInv, JobUnderWay
  <2>3. r \in Record
    BY <1>0, <2>2 DEF Missing, TypeOK, Journal
  <2>4. [at |-> length + 1, kind |-> "turn", about |-> r] \in Line
    BY <1>0, <2>3 DEF TypeOK, Line, Turn
  <2> QED BY <1>0, <1>5, <2>1, <2>4, AppendedLine DEF AppendTurn, TypeOK, transcripts, capture, stamps
<1>6. CASE AdvanceCursor
  <2>1. journal # None /\ journal \in Journal /\ job \in Capturing
    BY <1>0, <1>6, <1>c DEF AdvanceCursor, IInv, JobUnderWay, TypeOK
  <2>2. journal.upto \in Nat /\ journal.conv \in Conversations
        /\ journal.upto <= said[journal.conv]
    BY <2>1 DEF Journal, IInv, JournalExact
  <2>3. job' \in Job
    BY <1>6, <2>1 DEF AdvanceCursor, Capturing_At, Capturing, Job
  <2> QED BY <1>0, <1>6, <2>2, <2>3 DEF AdvanceCursor, CursorOf, TypeOK, transcripts, lines, stamps
<1>7. CASE ApplyIndex
  <2>1. job \in Capturing /\ job' \in Job
    BY <1>7, <1>c DEF ApplyIndex, Capturing_At, Capturing, Job
  <2>2. Extended \in Index \cup {None}
    <3>1. CASE Current(index)
      <4>1. index \in Index
        BY <1>0, <3>1 DEF Current, TypeOK
      <4>2. {l \in Turns : l.about \in journal.records /\ ~IsWithheld(l.about, index.hidden)}
              \subseteq Turn
        BY <1>0, ReadTypes
      <4> QED BY <3>1, <4>1, <4>2 DEF Extended, Index
    <3>2. CASE ~Current(index)
      BY <1>0, <3>2 DEF Extended, TypeOK
    <3> QED BY <3>1, <3>2
  <2>3. index' \in Index \cup {None}
    BY <1>0, <1>7, <2>2, RebuiltType DEF ApplyIndex
  <2> QED BY <1>0, <1>7, <2>1, <2>3 DEF ApplyIndex, TypeOK, transcripts, capture, lines, stamps
<1>8. CASE ExtendFaults
  <2>1. job' \in Job
    BY <1>8, <1>c DEF ExtendFaults, Capturing_At, Capturing, Job
  <2> QED BY <1>0, <1>8, <2>1 DEF ExtendFaults, TypeOK, transcripts, capture, lines
<1>9. CASE ClearJournal
  <2>1. job' \in Job \cup {None}
    BY <1>9, <1>c DEF ClearJournal, Release, Capturing, Job
  <2> QED BY <1>0, <1>9, <2>1 DEF ClearJournal, TypeOK, transcripts, lines, stamps
<1>10. ASSUME NEW l \in Turns, NEW kind \in {"withhold", "restore"}, NEW t \in {l.about, l.about.conv},
              ControlBegin(kind, t)
       PROVE  TypeOK'
  <2>1. l.about \in Record /\ l.about.conv \in Conversations
    BY <1>0, LineKinds DEF Turns, TypeOK, Record
  <2>2. job' \in Job
    BY <1>10, <2>1 DEF ControlBegin, Job, Marking, Target
  <2> QED BY <1>0, <1>10, <2>2 DEF ControlBegin, TypeOK, transcripts, capture, lines
<1>11. CASE ControlAppend
  <2>1. job \in Marking
    BY <1>11, <1>j DEF ControlAppend, At, Job, Capturing, Marking, Compacting
  <2>2. [at |-> length + 1, kind |-> job.kind, about |-> job.about] \in Line
    BY <1>0, <2>1 DEF TypeOK, Line, Mark, Marking
  <2> QED BY <1>0, <1>11, <2>2, AppendedLine
          DEF ControlAppend, Release, TypeOK, transcripts, capture, stamps
<1>12. ASSUME NEW l \in Turns, EnactErasure(l.about) PROVE TypeOK'
  <2>1. l.about \in Record
    BY <1>0, LineKinds DEF Turns, TypeOK
  <2>2. [at |-> length + 1, kind |-> "erasure", about |-> l.about] \in Line
    BY <1>0, <2>1 DEF TypeOK, Line, Erasure
  <2> QED BY <1>0, <1>12, <2>2, AppendedLine
          DEF EnactErasure, TypeOK, transcripts, capture, stamps
<1>13. CASE CompactBegin
  BY <1>0, <1>13 DEF CompactBegin, TypeOK, transcripts, capture, lines, Job, Compacting
<1>14. CASE Swap
  <2>1. ledger' \subseteq Line
    BY <1>0, <1>14, Compacted DEF TypeOK
  <2> QED BY <1>0, <1>14, <2>1 DEF Swap, TypeOK, transcripts, capture, stamps, Job, Compacting
<1>15. CASE Reindex
  BY <1>0, <1>15, RebuiltType DEF Reindex, Release, TypeOK, transcripts, capture, lines, stamps
<1>16. CASE Heal
  BY <1>0, <1>16, RebuiltType DEF Heal, TypeOK, transcripts, capture, lines, stamps
<1>17. CASE Crash
  BY <1>0, <1>17 DEF Crash, Release, TypeOK, transcripts, capture, lines, stamps
<1> QED
  BY <1>1, <1>2, <1>3, <1>4, <1>5, <1>6, <1>7, <1>8, <1>9, <1>10, <1>11, <1>12, <1>13,
     <1>14, <1>15, <1>16, <1>17 DEF Next

-----------------------------------------------------------------------------
(***************************************************************************)
(* The stamps of lines and of the index.                                   *)
(***************************************************************************)

\* What a change of the ledger or of the stamps must respect to keep Stamped.
LEMMA StampedKept ==
    ASSUME TypeOK, Stamped, TypeOK',
           ledger' = ledger /\ length' = length,
           gen <= gen' /\ epoch <= epoch',
           index' \in {index, Rebuilt} \/ (Current(index) /\ index'.gen = gen /\ index'.epoch = epoch)
    PROVE  Stamped'
BY DEF Stamped, Rebuilt, Current, TypeOK, Index

\* A new line is stamped after every other.
LEMMA StampedLine ==
    ASSUME TypeOK, Stamped, NEW kind, NEW about, AppendLine(kind, about),
           gen' = gen /\ epoch' = epoch /\ index' = index
    PROVE  Stamped'
<1>1. \A l \in ledger : l.at \in Nat /\ l.at <= length
  BY LineKinds DEF Stamped, TypeOK
<1>2. \A l \in ledger' : l.at <= length'
  BY <1>1 DEF AppendLine, TypeOK
<1> QED BY <1>2 DEF Stamped

\* A line's stamp is of the past, and so are those of the index.
LEMMA StampedStep ==
    ASSUME IInv, Next, TypeOK'
    PROVE  Stamped'
<1>0. TypeOK /\ Stamped
  BY DEF IInv
<1>1. ASSUME NEW c \in Conversations, Say(c) \/ CaptureBegin(c) PROVE Stamped'
  BY <1>0, <1>1 DEF Say, CaptureBegin, Stamped, lines, stamps
<1>2. CASE NothingNew \/ Prepare \/ AdvanceCursor \/ ClearJournal \/ Crash
  BY <1>0, <1>2 DEF NothingNew, Prepare, AdvanceCursor, ClearJournal, Crash, Stamped, lines, stamps
<1>3. CASE AppendTurn
  BY <1>0, <1>3, StampedLine DEF AppendTurn, stamps
<1>4. CASE ApplyIndex
  <2>1. index' \in {index, Rebuilt} \/ (Current(index) /\ index'.gen = gen /\ index'.epoch = epoch)
    <3>1. CASE Current(index) /\ ~job.replay
      <4>1. index \in Index
        BY <1>0, <3>1 DEF Current, TypeOK
      <4> QED BY <1>4, <3>1, <4>1 DEF ApplyIndex, Extended, Index, Current
    <3> QED BY <1>4, <3>1 DEF ApplyIndex, Extended
  <2> QED BY <1>0, <1>4, <2>1, StampedKept DEF ApplyIndex, lines, stamps, TypeOK
<1>5. CASE ExtendFaults
  BY <1>0, <1>5, StampedKept DEF ExtendFaults, lines, TypeOK
<1>6. ASSUME NEW t, NEW kind, ControlBegin(kind, t) PROVE Stamped'
  BY <1>0, <1>6, StampedKept DEF ControlBegin, lines, TypeOK
<1>7. CASE ControlAppend
  BY <1>0, <1>7, StampedLine DEF ControlAppend, stamps
<1>8. ASSUME NEW l \in Turns, EnactErasure(l.about) PROVE Stamped'
  BY <1>0, <1>8, StampedLine DEF EnactErasure, stamps
<1>9. CASE CompactBegin
  BY <1>0, <1>9, StampedKept DEF CompactBegin, lines, TypeOK
<1>10. CASE Swap
  BY <1>0, <1>10, Compacted DEF Swap, Stamped, stamps
<1>11. CASE Reindex \/ Heal
  BY <1>0, <1>11, StampedKept DEF Reindex, Heal, lines, stamps, TypeOK
<1> QED
  BY <1>1, <1>2, <1>3, <1>4, <1>5, <1>6, <1>7, <1>8, <1>9, <1>10, <1>11 DEF Next

\* Once the generation or the epoch has moved, no index is current.
LEMMA StampMovesOn ==
    ASSUME TypeOK, Stamped, index' = index,
           \/ gen' = gen + 1
           \/ epoch' = epoch + 1
    PROVE  ~Current(index)'
BY DEF TypeOK, Stamped, Current, Index

-----------------------------------------------------------------------------
(***************************************************************************)
(* The job and what it has already written.                                *)
(***************************************************************************)

\* The step a job is at says which kind of job it is.
LEMMA JobAt ==
    ASSUME TypeOK
    PROVE  /\ \A step \in {"prepare", "append", "index", "clear"} : At(step) => job \in Capturing
           /\ At("mark") => job \in Marking
           /\ \A step \in {"swap", "reindex"} : At(step) => job \in Compacting
BY DEF TypeOK, At, Job, Capturing, Marking, Compacting

\* A capture that goes on to its next step is at that step and at no other.
LEMMA NextStep ==
    ASSUME TypeOK, job \in Capturing, NEW step, Capturing_At(step)
    PROVE  /\ job' # None => \A other : At(other)' <=> other = step
           /\ job'.conv = job.conv /\ job'.replay = job.replay
BY DEF Capturing_At, Capturing, At

\* A job that does not touch what it relies on keeps it.
LEMMA UnderWayKept ==
    ASSUME JobUnderWay, ledger' = ledger, journal' = journal, cursor' = cursor,
           index' = index, gen' = gen, epoch' = epoch, job' \in {job, None}
    PROVE  JobUnderWay'
<1>1. Missing' = Missing
  BY SameLines DEF Missing
<1> QED BY <1>1 DEF JobUnderWay, At, Current

\* No step takes away what the job under way relies on.
LEMMA JobStepKeeps ==
    ASSUME IInv, Next, TypeOK'
    PROVE  JobUnderWay'
<1>0. TypeOK /\ Stamped /\ JobUnderWay
  BY DEF IInv
<1>n. /\ job' # None => job' \in Job
      /\ journal' # None => journal' \in Journal
      /\ None \notin Job \cup Journal
  BY NoneIsNothing DEF TypeOK
<1>1. ASSUME NEW c \in Conversations, Say(c) PROVE JobUnderWay'
  BY <1>0, <1>1, UnderWayKept DEF Say, capture, lines, stamps
<1>2. ASSUME NEW c \in Conversations, CaptureBegin(c) PROVE JobUnderWay'
  BY <1>0, <1>2 DEF CaptureBegin, capture, At, JobUnderWay
<1>3. CASE NothingNew \/ Crash
  BY <1>0, <1>3, UnderWayKept DEF NothingNew, Crash, Release, capture, lines, stamps
<1>4. CASE Prepare
  <2>1. journal' # None
    BY <1>0, <1>4, <1>n, PreparedType
  <2>2. \A other : At(other)' => other = "append"
    BY <1>0, <1>4, JobAt, NextStep DEF Prepare, At
  <2> QED BY <2>1, <2>2 DEF JobUnderWay
<1>5. CASE AppendTurn
  BY <1>0, <1>5 DEF AppendTurn, capture, stamps, At, JobUnderWay
<1>6. CASE AdvanceCursor
  <2>1. \A other : At(other)' => other = "index"
    BY <1>0, <1>6, JobAt, NextStep DEF AdvanceCursor, At
  <2>2. journal # None /\ journal' = journal /\ Missing' = Missing /\ Missing = {}
    BY <1>0, <1>6, SameLines DEF AdvanceCursor, JobUnderWay, Missing, lines, Appended
  <2>3. journal.upto <= cursor'[journal.conv]
    <3>1. journal.conv \in Conversations /\ journal.upto \in Nat /\ cursor[journal.conv] \in Nat
      BY <1>0, <2>2 DEF TypeOK, Journal
    <3> QED BY <1>0, <1>6, <3>1 DEF AdvanceCursor, CursorOf, TypeOK
  <2> QED BY <2>1, <2>2, <2>3 DEF JobUnderWay
<1>7. CASE ApplyIndex \/ ExtendFaults
  <2>1. \A other : At(other)' => other = "clear"
    BY <1>0, <1>7, JobAt, NextStep DEF ApplyIndex, ExtendFaults, At
  <2>2. journal # None /\ journal' = journal /\ cursor' = cursor /\ ledger' = ledger
        /\ Missing = {} /\ journal.upto <= cursor[journal.conv]
    BY <1>0, <1>7 DEF ApplyIndex, ExtendFaults, JobUnderWay, capture, lines
  <2>3. Missing' = {}
    BY <2>2, SameLines DEF Missing
  <2> QED BY <2>1, <2>2, <2>3 DEF JobUnderWay
<1>8. CASE ClearJournal
  <2>1. \A other : At(other)' => other = "prepare"
    BY <1>0, <1>8, JobAt DEF ClearJournal, Release, At, Capturing
  <2> QED BY <1>8, <2>1 DEF JobUnderWay, ClearJournal
<1>9. ASSUME NEW t, NEW kind, ControlBegin(kind, t) PROVE JobUnderWay'
  <2>1. ~Current(index)'
    BY <1>0, <1>9, StampMovesOn DEF ControlBegin
  <2> QED BY <1>9, <2>1 DEF ControlBegin, JobUnderWay, At
<1>10. CASE ControlAppend
  BY <1>10 DEF ControlAppend, Release, JobUnderWay, At
<1>11. ASSUME NEW l \in Turns, EnactErasure(l.about) PROVE JobUnderWay'
  BY <1>11 DEF EnactErasure, JobUnderWay, At
<1>12. CASE CompactBegin
  <2>1. ~Current(index)'
    BY <1>0, <1>12, StampMovesOn DEF CompactBegin
  <2> QED BY <1>12, <2>1 DEF CompactBegin, JobUnderWay, At
<1>13. CASE Swap
  <2>1. ~Current(index)'
    BY <1>0, <1>13 DEF Swap, JobUnderWay, stamps, Current
  <2> QED BY <1>13, <2>1 DEF Swap, JobUnderWay, At
<1>14. CASE Reindex \/ Heal
  BY <1>14 DEF Reindex, Heal, Release, JobUnderWay, At
<1> QED
  BY <1>1, <1>2, <1>3, <1>4, <1>5, <1>6, <1>7, <1>8, <1>9, <1>10, <1>11, <1>12, <1>13, <1>14
     DEF Next

-----------------------------------------------------------------------------
(***************************************************************************)
(* Capture: no message is lost, none captured twice.                       *)
(***************************************************************************)
CaptureInv == JournalExact /\ AboveCursor /\ NothingLost /\ CapturedOnce

\* What is captured depends on the ledger's turns and erasures, the cursor and
\* the journal; turns may only go when an erasure names them.
LEMMA CaptureKept ==
    ASSUME TypeOK, CaptureInv, cursor' = cursor, journal' = journal,
           \A c \in Conversations : said[c] <= said'[c] /\ said'[c] \in Nat,
           Turns' \subseteq Turns, ErasureTargets \subseteq ErasureTargets',
           \A l \in Turns \ Turns' : l.about \in ErasureTargets'
    PROVE  CaptureInv'
<1>1. JournalExact'
  <2>1. SUFFICES ASSUME journal # None PROVE JournalExact'
    BY DEF JournalExact
  <2>2. journal.upto \in Nat /\ journal.conv \in Conversations /\ said[journal.conv] \in Nat
    BY <2>1 DEF TypeOK, Journal
  <2>3. journal.upto <= said'[journal.conv]
    BY <2>1, <2>2 DEF CaptureInv, JournalExact
  <2> QED BY <2>1, <2>3 DEF CaptureInv, JournalExact
<1>2. AboveCursor'
  BY DEF CaptureInv, AboveCursor
<1>3. NothingLost'
  <2>1. ASSUME NEW c \in Conversations, NEW n \in 1..cursor[c] PROVE Recorded(c, n)'
    BY <2>1 DEF CaptureInv, NothingLost, Recorded
  <2> QED BY <2>1 DEF NothingLost
<1>4. CapturedOnce'
  BY DEF CaptureInv, CapturedOnce
<1> QED BY <1>1, <1>2, <1>3, <1>4 DEF CaptureInv

\* A capture starts from the cursor, with no line above it.
LEMMA CapturePrepare ==
    ASSUME IInv, Prepare
    PROVE  CaptureInv'
<1>0. TypeOK /\ CaptureInv /\ journal = None
  BY DEF IInv, CaptureInv, Prepare, JobUnderWay
<1>1. job.conv \in Conversations /\ job.conv = journal'.conv /\ journal'.upto = said[job.conv]
      /\ journal'.records
           = [conv : {job.conv}, seq : cursor[job.conv] + 1..said[job.conv], id : {minted + 1}]
  BY <1>0, JobAt DEF Prepare, Capturing, CursorAfter, Delta
<1>2. said[job.conv] \in Nat /\ cursor[job.conv] \in Nat /\ said' = said /\ cursor' = cursor
  BY <1>0, <1>1 DEF TypeOK, Prepare, transcripts
<1>3. Turns' = Turns /\ ErasureTargets' = ErasureTargets
  BY SameLines DEF Prepare, lines
<1>4. \A r \in journal'.records :
        r.conv = job.conv /\ r.seq \in cursor[job.conv] + 1..said[job.conv] /\ r.id = minted + 1
        /\ r = [conv |-> r.conv, seq |-> r.seq, id |-> r.id]
  BY <1>1
<1>5. \A r \in journal'.records, l \in Turns : ~(l.about.conv = r.conv /\ l.about.seq = r.seq)
  BY <1>0, <1>1, <1>2, <1>4 DEF CaptureInv, AboveCursor
<1>6. \A n \in cursor[job.conv] + 1..said[job.conv] :
        [conv |-> job.conv, seq |-> n, id |-> minted + 1] \in journal'.records
  BY <1>1
<1>7. JournalExact'
  <2>1. journal'.upto <= said'[journal'.conv]
    BY <1>1, <1>2
  <2>2. \A r \in journal'.records : r.conv = journal'.conv /\ r.seq <= journal'.upto
    BY <1>1, <1>2, <1>4
  <2>3. \A q, r \in journal'.records : q.seq = r.seq => q = r
    BY <1>4
  <2>4. \A n \in cursor'[journal'.conv] + 1..journal'.upto : \E r \in journal'.records : r.seq = n
    <3>1. ASSUME NEW n \in cursor[job.conv] + 1..said[job.conv]
          PROVE  \E r \in journal'.records : r.seq = n
      BY <1>6
    <3> QED BY <1>1, <1>2, <3>1
  <2> QED BY <1>3, <1>5, <2>1, <2>2, <2>3, <2>4 DEF JournalExact
<1>8. AboveCursor' /\ CapturedOnce'
  BY <1>0, <1>2, <1>3 DEF CaptureInv, AboveCursor, CapturedOnce
<1>9. NothingLost'
  BY <1>0, <1>2, <1>3 DEF CaptureInv, NothingLost, Recorded
<1> QED BY <1>7, <1>8, <1>9 DEF CaptureInv

\* A line of the journal is appended only when the ledger has no capture of it.
LEMMA CaptureAppend ==
    ASSUME IInv, AppendTurn
    PROVE  CaptureInv'
<1>0. TypeOK /\ CaptureInv /\ journal # None
  BY DEF IInv, CaptureInv, AppendTurn, JobUnderWay
<1>1. PICK r \in Missing : AppendLine("turn", r)
  BY DEF AppendTurn
<1>2. r \in journal.records /\ ~Captured(r)
  BY <1>1 DEF Missing
<1> DEFINE new == [at |-> length + 1, kind |-> "turn", about |-> r]
<1>3. Turns' = Turns \cup {new} /\ ErasureTargets' = ErasureTargets /\ new.about = r
  BY <1>0, <1>1, AppendedLine
<1>4. said' = said /\ cursor' = cursor /\ journal' = journal
  BY DEF AppendTurn, transcripts, capture
<1>5. \A l \in Turns : ~(l.about.conv = r.conv /\ l.about.seq = r.seq)
  BY <1>0, <1>2 DEF CaptureInv, JournalExact, Captured
<1>6. JournalExact'
  BY <1>0, <1>2, <1>3, <1>4 DEF CaptureInv, JournalExact
<1>7. AboveCursor'
  BY <1>0, <1>2, <1>3, <1>4 DEF CaptureInv, AboveCursor
<1>8. NothingLost'
  BY <1>0, <1>3, <1>4 DEF CaptureInv, NothingLost, Recorded
<1>9. CapturedOnce'
  BY <1>0, <1>3, <1>5 DEF CaptureInv, CapturedOnce
<1> QED BY <1>6, <1>7, <1>8, <1>9 DEF CaptureInv

\* The cursor passes a message only when the ledger has its line.
LEMMA CaptureAdvance ==
    ASSUME IInv, AdvanceCursor
    PROVE  CaptureInv'
<1>0. TypeOK /\ CaptureInv /\ journal # None /\ Missing = {}
  BY DEF IInv, CaptureInv, AdvanceCursor, Appended, JobUnderWay
<1> DEFINE c0 == journal.conv
<1>1. c0 \in Conversations /\ journal.upto \in Nat
  BY <1>0 DEF TypeOK, Journal
<1>2. said' = said /\ journal' = journal /\ Turns' = Turns /\ ErasureTargets' = ErasureTargets
  BY SameLines DEF AdvanceCursor, lines, transcripts
<1>3. /\ \A c \in Conversations : cursor[c] \in Nat /\ cursor'[c] \in Nat /\ cursor[c] <= cursor'[c]
      /\ \A c \in Conversations \ {c0} : cursor'[c] = cursor[c]
      /\ cursor'[c0] = IF cursor[c0] < journal.upto THEN journal.upto ELSE cursor[c0]
  BY <1>0, <1>1 DEF AdvanceCursor, CursorOf, TypeOK
<1>4. JournalExact'
  <2>1. \A n \in cursor'[c0] + 1..journal.upto : n \in cursor[c0] + 1..journal.upto
    BY <1>1, <1>3
  <2> QED BY <1>0, <1>2, <2>1 DEF CaptureInv, JournalExact
<1>5. AboveCursor'
  <2>1. \A l \in Turns : l.about.conv \in Conversations /\ l.about.seq \in Nat
    BY <1>0, ReadTypes DEF Turn, Record
  <2> QED BY <1>0, <1>2, <1>3, <2>1 DEF CaptureInv, AboveCursor
<1>6. NothingLost'
  <2>1. ASSUME NEW c \in Conversations, NEW n \in 1..cursor'[c] PROVE Recorded(c, n)
    <3>1. CASE n <= cursor[c]
      BY <1>0, <1>3, <3>1 DEF CaptureInv, NothingLost
    <3>2. CASE ~(n <= cursor[c])
      <4>1. c = c0 /\ n \in cursor[c0] + 1..journal.upto
        BY <1>1, <1>3, <3>2
      <4>2. PICK r \in journal.records : r.seq = n
        BY <1>0, <4>1 DEF CaptureInv, JournalExact
      <4>3. r.conv = c /\ Captured(r)
        BY <1>0, <4>1, <4>2 DEF Missing, CaptureInv, JournalExact
      <4> QED BY <4>2, <4>3 DEF Recorded, Captured
    <3> QED BY <3>1, <3>2
  <2> QED BY <1>2, <2>1 DEF NothingLost, Recorded
<1>7. CapturedOnce'
  BY <1>0, <1>2 DEF CaptureInv, CapturedOnce
<1> QED BY <1>4, <1>5, <1>6, <1>7 DEF CaptureInv

\* When the journal goes, every line of it is below the cursor.
LEMMA CaptureClear ==
    ASSUME IInv, ClearJournal
    PROVE  CaptureInv'
<1>0. TypeOK /\ CaptureInv /\ journal # None /\ journal.upto <= cursor[journal.conv]
  BY DEF IInv, CaptureInv, ClearJournal, JobUnderWay
<1>1. journal' = None /\ cursor' = cursor /\ Turns' = Turns /\ ErasureTargets' = ErasureTargets
  BY SameLines DEF ClearJournal, lines
<1>2. \A l \in Turns : ~(cursor[l.about.conv] < l.about.seq)
  <2>1. \A l \in Turns : /\ l.about.seq \in Nat /\ l.about.conv \in Conversations
                         /\ cursor[l.about.conv] \in Nat
    BY <1>0, ReadTypes DEF Turn, Record, TypeOK
  <2>2. \A r \in journal.records : r.conv = journal.conv /\ r.seq <= journal.upto
    BY <1>0 DEF CaptureInv, JournalExact
  <2>3. journal.upto \in Nat
    BY <1>0 DEF TypeOK, Journal
  <2> QED BY <1>0, <2>1, <2>2, <2>3 DEF CaptureInv, AboveCursor
<1>3. JournalExact' /\ AboveCursor' /\ CapturedOnce'
  BY <1>0, <1>1, <1>2 DEF CaptureInv, JournalExact, AboveCursor, CapturedOnce
<1>4. NothingLost'
  BY <1>0, <1>1 DEF CaptureInv, NothingLost, Recorded
<1> QED BY <1>3, <1>4 DEF CaptureInv

\* No step loses a message or captures one again.
LEMMA CaptureStep ==
    ASSUME IInv, Next
    PROVE  CaptureInv'
<1>0. TypeOK /\ CaptureInv
  BY DEF IInv, CaptureInv
<1>s. \A c \in Conversations : said[c] <= said[c] /\ said[c] \in Nat
  BY <1>0 DEF TypeOK
<1>k. ASSUME said' = said, cursor' = cursor, journal' = journal, ledger' = ledger
      PROVE  CaptureInv'
  BY <1>0, <1>s, <1>k, SameLines, CaptureKept
<1>1. ASSUME NEW c \in Conversations, Say(c) PROVE CaptureInv'
  <2>1. \A d \in Conversations : said[d] <= said'[d] /\ said'[d] \in Nat
    BY <1>0, <1>1 DEF Say, TypeOK
  <2> QED BY <1>0, <1>1, <2>1, SameLines, CaptureKept DEF Say, capture, lines
<1>2. ASSUME NEW c \in Conversations, CaptureBegin(c) PROVE CaptureInv'
  BY <1>k, <1>2 DEF CaptureBegin, transcripts, capture, lines
<1>3. CASE NothingNew \/ ApplyIndex \/ ExtendFaults \/ CompactBegin \/ Reindex \/ Heal \/ Crash
  BY <1>k, <1>3 DEF NothingNew, ApplyIndex, ExtendFaults, CompactBegin, Reindex, Heal, Crash,
                    transcripts, capture, lines
<1>4. CASE Prepare \/ AppendTurn \/ AdvanceCursor \/ ClearJournal
  BY <1>4, CapturePrepare, CaptureAppend, CaptureAdvance, CaptureClear
<1>5. ASSUME NEW t, NEW kind, ControlBegin(kind, t) PROVE CaptureInv'
  BY <1>k, <1>5 DEF ControlBegin, transcripts, capture, lines
<1>6. CASE ControlAppend
  <2>1. job.kind \in {"withhold", "restore"}
    BY <1>0, <1>6, JobAt DEF ControlAppend, Marking
  <2>2. Turns' = Turns /\ ErasureTargets' = ErasureTargets
    BY <1>0, <1>6, <2>1, AppendedLine DEF ControlAppend
  <2> QED BY <1>0, <1>s, <1>6, <2>2, CaptureKept DEF ControlAppend, transcripts, capture
<1>7. ASSUME NEW l \in Turns, EnactErasure(l.about) PROVE CaptureInv'
  <2>1. Turns' = Turns /\ ErasureTargets \subseteq ErasureTargets'
    BY <1>0, <1>7, AppendedLine DEF EnactErasure
  <2> QED BY <1>0, <1>s, <1>7, <2>1, CaptureKept DEF EnactErasure, transcripts, capture
<1>8. CASE Swap
  <2>1. Turns' \subseteq Turns /\ ErasureTargets' = ErasureTargets
        /\ \A l \in Turns \ Turns' : l.about \in ErasureTargets'
    BY <1>0, <1>8, Compacted
  <2> QED BY <1>0, <1>s, <1>8, <2>1, CaptureKept DEF Swap, transcripts, capture
<1> QED BY <1>1, <1>2, <1>3, <1>4, <1>5, <1>6, <1>7, <1>8 DEF Next

-----------------------------------------------------------------------------
(***************************************************************************)
(* The index: what a search trusts is what a scan would surface.           *)
(***************************************************************************)

\* Nothing the index answers for has changed, and the job is not at the last
\* step of a capture, or was there already.
LEMMA IndexKept ==
    ASSUME IndexSound, index' = index, gen' = gen, epoch' = epoch, journal' = journal,
           Withheld' = Withheld, Live' = Live, At("clear")' => At("clear")
    PROVE  IndexSound'
BY DEF IndexSound, Current

\* An index rebuilt now is the whole of what a scan surfaces.
LEMMA IndexRebuilt ==
    ASSUME index' = Rebuilt, gen' = gen, epoch' = epoch, ledger' = ledger
    PROVE  IndexSound'
<1>1. index'.hidden = Withheld' /\ index'.rows = Live'
  BY SameLines DEF Rebuilt
<1> QED BY <1>1 DEF IndexSound

\* What recall may surface of a ledger that grew by one turn.
LEMMA LiveGrows ==
    ASSUME NEW l, Turns' = Turns \cup {l}, Withheld' = Withheld
    PROVE  Live \subseteq Live' /\ Live' \subseteq Live \cup {l}
BY DEF Live, IsWithheld

\* No step leaves a current index short of a line, nor lets it surface one too many.
LEMMA IndexStep ==
    ASSUME IInv, Next, TypeOK'
    PROVE  IndexSound'
<1>0. TypeOK /\ Stamped /\ JobUnderWay /\ IndexSound
  BY DEF IInv
<1>k. ASSUME index' = index, gen' = gen, epoch' = epoch, journal' = journal, ledger' = ledger,
             At("clear")' => At("clear")
      PROVE  IndexSound'
  BY <1>0, <1>k, SameLines, IndexKept
<1>1. ASSUME NEW c \in Conversations, Say(c) PROVE IndexSound'
  BY <1>k, <1>1 DEF Say, capture, lines, stamps, At
<1>2. ASSUME NEW c \in Conversations, CaptureBegin(c) PROVE IndexSound'
  BY <1>k, <1>2 DEF CaptureBegin, capture, lines, stamps, At
<1>3. CASE NothingNew \/ Crash
  BY <1>k, <1>3 DEF NothingNew, Crash, Release, capture, lines, stamps, At
<1>4. CASE Prepare
  <2>1. journal = None /\ ~At("clear")'
    BY <1>0, <1>4, JobAt, NextStep DEF Prepare, JobUnderWay, At
  <2>2. Withheld' = Withheld /\ Live' = Live /\ index' = index /\ gen' = gen /\ epoch' = epoch
    BY <1>4, SameLines DEF Prepare, lines, stamps
  <2> QED BY <1>0, <2>1, <2>2 DEF IndexSound, Current
<1>5. CASE AppendTurn
  <2>1. journal # None /\ journal' = journal /\ ~At("clear")'
        /\ index' = index /\ gen' = gen /\ epoch' = epoch
    BY <1>0, <1>5 DEF AppendTurn, capture, stamps, At, JobUnderWay
  <2>2. PICK r \in Missing : AppendLine("turn", r)
    BY <1>5 DEF AppendTurn
  <2> DEFINE new == [at |-> length + 1, kind |-> "turn", about |-> r]
  <2>3. Turns' = Turns \cup {new} /\ Withheld' = Withheld /\ new.about \in journal.records
    BY <1>0, <2>2, AppendedLine DEF Missing
  <2>4. Live \subseteq Live' /\ Live' \subseteq Live \cup {new}
    BY <2>3, LiveGrows
  <2> HIDE DEF new
  <2> QED BY <1>0, <2>1, <2>3, <2>4 DEF IndexSound, Current
<1>6. CASE AdvanceCursor
  <2>1. ~At("clear")'
    BY <1>0, <1>6, JobAt, NextStep DEF AdvanceCursor, At
  <2> QED BY <1>k, <1>6, <2>1 DEF AdvanceCursor, lines, stamps
<1>7. CASE ApplyIndex
  <2>1. gen' = gen /\ epoch' = epoch /\ ledger' = ledger /\ journal' = journal
    BY <1>7 DEF ApplyIndex, capture, lines, stamps
  <2>2. CASE job.replay
    BY <1>7, <2>1, <2>2, IndexRebuilt DEF ApplyIndex
  <2>3. CASE ~job.replay /\ ~Current(index)
    BY <1>7, <2>1, <2>3 DEF ApplyIndex, Extended, IndexSound, Current
  <2>4. CASE ~job.replay /\ Current(index)
    <3> DEFINE added == {l \in Turns : /\ l.about \in journal.records
                                       /\ ~IsWithheld(l.about, index.hidden)}
    <3>1. index \in Index
      BY <1>0, <2>4 DEF TypeOK, Current
    <3>2. index' = [index EXCEPT !.rows = @ \cup added]
      BY <1>7, <2>4 DEF ApplyIndex, Extended
    <3>3. index'.hidden = index.hidden /\ index'.rows = index.rows \cup added
      BY <3>1, <3>2 DEF Index
    <3>4. index.hidden = Withheld /\ index.rows \subseteq Live
          /\ \A l \in Live \ index.rows : l.about \in journal.records
      BY <1>0, <2>4 DEF IndexSound
    <3>5. added \subseteq Live /\ Live \subseteq index.rows \cup added
      BY <3>4 DEF Live
    <3>6. index'.rows = Live
      BY <3>3, <3>4, <3>5
    <3> QED BY <2>1, <3>3, <3>4, <3>6, SameLines DEF IndexSound
  <2> QED BY <2>2, <2>3, <2>4
<1>8. CASE ExtendFaults
  <2>1. ~Current(index)'
    BY <1>0, <1>8, StampMovesOn DEF ExtendFaults
  <2> QED BY <2>1 DEF IndexSound
<1>9. CASE ClearJournal
  <2>1. \A other : At(other)' => other = "prepare"
    BY <1>0, <1>9, JobAt DEF ClearJournal, Release, At, Capturing
  <2>2. Withheld' = Withheld /\ Live' = Live /\ index' = index /\ gen' = gen /\ epoch' = epoch
    BY <1>9, SameLines DEF ClearJournal, lines, stamps
  <2>3. Current(index) => index.hidden = Withheld /\ index.rows = Live
    BY <1>0, <1>9 DEF ClearJournal, IndexSound
  <2> QED BY <2>1, <2>2, <2>3 DEF IndexSound, Current
<1>10. ASSUME NEW t, NEW kind, ControlBegin(kind, t) PROVE IndexSound'
  <2>1. ~Current(index)'
    BY <1>0, <1>10, StampMovesOn DEF ControlBegin
  <2> QED BY <2>1 DEF IndexSound
<1>11. CASE ControlAppend \/ Swap
  <2>1. ~Current(index) /\ index' = index /\ gen' = gen /\ epoch' = epoch
    BY <1>0, <1>11 DEF ControlAppend, Swap, JobUnderWay, stamps
  <2> QED BY <2>1 DEF IndexSound, Current
<1>12. ASSUME NEW l \in Turns, EnactErasure(l.about) PROVE IndexSound'
  <2>1. Turns' = Turns /\ Withheld' = Withheld
    BY <1>0, <1>12, AppendedLine DEF EnactErasure
  <2>2. Live' = Live
    BY <2>1 DEF Live
  <2> QED BY <1>0, <1>12, <2>1, <2>2, IndexKept DEF EnactErasure, capture, stamps, At
<1>13. CASE CompactBegin
  <2>1. ~Current(index)'
    BY <1>0, <1>13, StampMovesOn DEF CompactBegin
  <2> QED BY <2>1 DEF IndexSound
<1>14. CASE Reindex \/ Heal
  BY <1>14, IndexRebuilt DEF Reindex, Heal, lines, stamps
<1> QED
  BY <1>1, <1>2, <1>3, <1>4, <1>5, <1>6, <1>7, <1>8, <1>9, <1>10, <1>11, <1>12, <1>13, <1>14
     DEF Next

-----------------------------------------------------------------------------
(***************************************************************************)
(* The theorems.                                                           *)
(***************************************************************************)

\* The initial state satisfies the inductive invariant: nothing is captured yet,
\* and an index, if there is one, is as empty as the ledger.
LEMMA IInvInit == Init => IInv
<1> SUFFICES ASSUME Init PROVE IInv
  OBVIOUS
<1>1. TypeOK
  BY TypeInit
<1>2. Turns = {} /\ Marks = {} /\ Withheld = {} /\ Live = {}
  BY DEF Init, Turns, Marks, Withheld, Live
<1>3. Stamped /\ JobUnderWay /\ JournalExact
  BY DEF Init, Stamped, JobUnderWay, JournalExact, At
<1>4. AboveCursor /\ CapturedOnce
  BY <1>2 DEF AboveCursor, CapturedOnce
<1>5. IndexSound
  BY <1>2 DEF Init, IndexSound, At, Current
<1>6. NothingLost
  BY DEF Init, NothingLost
<1> QED BY <1>1, <1>3, <1>4, <1>5, <1>6 DEF IInv

\* A step that changes nothing keeps the inductive invariant.
LEMMA IInvStutter == ASSUME IInv, UNCHANGED vars PROVE IInv'
<1>0. /\ said' = said /\ cursor' = cursor /\ journal' = journal /\ minted' = minted
      /\ ledger' = ledger /\ length' = length /\ gen' = gen /\ epoch' = epoch
      /\ index' = index /\ job' = job
  BY DEF vars
<1>1. TypeOK' /\ Stamped'
  BY <1>0 DEF IInv, TypeOK, Stamped
<1>2. JobUnderWay'
  BY <1>0, UnderWayKept DEF IInv
<1>3. CaptureInv'
  <2>1. TypeOK /\ CaptureInv /\ \A c \in Conversations : said[c] <= said'[c] /\ said'[c] \in Nat
    BY <1>0 DEF IInv, CaptureInv, TypeOK
  <2> QED BY <1>0, <2>1, SameLines, CaptureKept
<1>4. IndexSound'
  BY <1>0, SameLines, IndexKept DEF IInv, At
<1> QED BY <1>1, <1>2, <1>3, <1>4 DEF IInv, CaptureInv

\* The invariant is inductive: no step of a capture, a withhold, a compaction or a
\* search, and no crash between two of them, breaks it.
THEOREM Invariance == Spec => []IInv
<1>1. Init => IInv
  BY IInvInit
<1>2. IInv /\ [Next]_vars => IInv'
  <2> SUFFICES ASSUME IInv, [Next]_vars PROVE IInv'
    OBVIOUS
  <2>1. CASE Next
    <3>1. TypeOK'
      BY <2>1, TypeStep
    <3> QED BY <2>1, <3>1, StampedStep, JobStepKeeps, CaptureStep, IndexStep DEF IInv, CaptureInv
  <2>2. CASE UNCHANGED vars
    BY <2>2, IInvStutter
  <2> QED BY <2>1, <2>2
<1> QED BY <1>1, <1>2, PTL DEF Spec

\* The state stays well typed.
THEOREM TypeCorrect == Spec => []TypeOK
<1>1. IInv => TypeOK
  BY DEF IInv
<1> QED BY <1>1, Invariance, PTL

\* A message the cursor has passed has its line, or was erased on request
\* (capture.py: the cursor is written after the appends).
THEOREM NothingIsLost == Spec => []NothingLost
<1>1. IInv => NothingLost
  BY DEF IInv
<1> QED BY <1>1, Invariance, PTL

\* A message has at most one line, however often its capture was cut and rolled
\* forward (_recover_capture_transaction appends only what is missing).
THEOREM CapturedAtMostOnce == Spec => []CapturedOnce
<1>1. IInv => CapturedOnce
  BY DEF IInv
<1> QED BY <1>1, Invariance, PTL

\* Between captures, an index that searches trust answers with what a scan of the
\* ledger would surface (index.py: extend, rebuild, _heal_if_stale).
THEOREM RecallWhole == Spec => []RecallIsWhole
<1>1. IInv => RecallIsWhole
  BY DEF IInv, IndexSound, RecallIsWhole
<1> QED BY <1>1, Invariance, PTL

\* The marks only change when a withhold or a restore is recorded.
LEMMA MarksMove ==
    ASSUME IInv, Next, ~ControlAppend
    PROVE  Withheld' = Withheld
<1>0. TypeOK
  BY DEF IInv
<1>1. CASE ledger' = ledger
  BY <1>1, SameLines
<1>2. CASE AppendTurn
  BY <1>0, <1>2, AppendedLine DEF AppendTurn
<1>3. ASSUME NEW l \in Turns, EnactErasure(l.about) PROVE Withheld' = Withheld
  BY <1>0, <1>3, AppendedLine DEF EnactErasure
<1>4. CASE Swap
  BY <1>0, <1>4, Compacted
<1>5. \/ ledger' = ledger \/ AppendTurn \/ Swap
      \/ \E l \in Turns : EnactErasure(l.about)
  BY DEF Next, Say, CaptureBegin, NothingNew, Prepare, AdvanceCursor, ApplyIndex, ExtendFaults,
         ClearJournal, ControlBegin, CompactBegin, Reindex, Heal, Crash, lines
<1> QED BY <1>1, <1>2, <1>3, <1>4, <1>5

\* A target that is no longer withheld was restored, by a marker that names it.
LEMMA MarkReveals ==
    ASSUME IInv, ControlAppend, NEW t \in Withheld, t \notin Withheld'
    PROVE  \E m \in ledger' \ ledger : m.kind = "restore" /\ m.about = t
<1>0. TypeOK /\ Stamped
  BY DEF IInv
<1> DEFINE new == [at |-> length + 1, kind |-> job.kind, about |-> job.about]
<1>1. job.kind \in {"withhold", "restore"}
  BY <1>0, JobAt DEF ControlAppend, Marking
<1>2. Marks' = Marks \cup {new} /\ ledger' = ledger \cup {new}
  BY <1>0, <1>1, AppendedLine DEF ControlAppend
<1>3. length \in Nat /\ \A l \in ledger : l.at \in Nat /\ l.at <= length
  BY <1>0, LineKinds DEF TypeOK, Stamped
<1>4. new \notin ledger
  BY <1>3
<1>5. PICK l \in Marks : /\ l.kind = "withhold" /\ l.about = t
                         /\ \A k \in Marks : k.about = l.about => k.at <= l.at
  BY DEF Withheld
<1>6. job.about = t
  <2>1. SUFFICES ASSUME job.about # t PROVE t \in Withheld'
    OBVIOUS
  <2>2. l \in Marks' /\ \A k \in Marks' : k.about = l.about => k.at <= l.at
    BY <1>2, <1>5, <2>1
  <2> QED BY <1>5, <2>2 DEF Withheld
<1>7. job.kind = "restore"
  <2>1. SUFFICES ASSUME job.kind = "withhold" PROVE t \in Withheld'
    BY <1>1
  <2>2. \A k \in Marks' : k.at <= new.at
    BY <1>2, <1>3 DEF Marks
  <2>3. new \in Marks' /\ new.kind = "withhold" /\ new.about = t
    BY <1>2, <1>6, <2>1
  <2> QED BY <2>2, <2>3 DEF Withheld
<1> QED BY <1>2, <1>4, <1>6, <1>7

\* Nothing but a restore of that very target brings a withheld target back, and no
\* compaction does (forget.py: withheld_targets; compact.py keeps the markers).
THEOREM RestoreReveals == Spec => OnlyRestoreReveals
<1>1. IInv /\ [Next]_vars =>
        [\A t \in Withheld : t \notin Withheld' =>
            \E m \in ledger' \ ledger : m.kind = "restore" /\ m.about = t]_vars
  <2> SUFFICES ASSUME IInv, Next, NEW t \in Withheld, t \notin Withheld'
               PROVE  \E m \in ledger' \ ledger : m.kind = "restore" /\ m.about = t
    OBVIOUS
  <2> QED BY MarksMove, MarkReveals
<1> QED BY <1>1, Invariance, PTL DEF Spec, OnlyRestoreReveals
=============================================================================
