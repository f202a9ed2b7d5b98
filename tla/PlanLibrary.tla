----------------------------- MODULE PlanLibrary -----------------------------
(***************************************************************************)
(* One plan on the shelf (plan_store.py) and the gates it passes on its way *)
(* to a Build (the verbs of project_manager.py).                           *)
(*                                                                         *)
(* The plan is a record, and one snapshot file per revision.  A verb reads  *)
(* the record without a lock, is refused or not by what it read (its door), *)
(* and writes under the plan's lock, where it judges the record again: any  *)
(* number of other sessions' verbs come between the two.  Minting a         *)
(* revision and redacting one write several files, between which the        *)
(* session may crash and others may read.                                  *)
(***************************************************************************)
EXTENDS Integers, FiniteSets

CONSTANTS
    Sessions,
    Depths,         \* review depths
    ColdDepths,     \* those that ask for a cold review
    Findings,       \* ids of findings
    Decisions,      \* dispositions
    None,           \* nothing granted, reviewed, decided, read or being written
    MaxRev          \* bound: revisions

ASSUME DepthsOK == ColdDepths \subseteq Depths
ASSUME MaxRevOK == MaxRev \in Nat \ {0}

VARIABLES
    record,         \* the plan record
    bodies,         \* revisions whose snapshot is on disk
    intents,        \* revisions with an intent marker: their redaction began
    writing,        \* what the holder of the plan's lock has yet to write
    read            \* session -> the record as it last read it

vars == <<record, bodies, intents, writing, read>>

Revisions == 1..MaxRev

\* A revision number stands for its digest: every revision has its own.
Approval == [revision : Revisions, depth : Depths]
Finding == [id : Findings, text : 0..1, disposition : Decisions \cup {None}]
Review == [of : Approval, findings : SUBSET Finding]
SealReceipt == [revision : Revisions, reviewed : Revisions]

Record == [head : Revisions, redacted : SUBSET Revisions,
           approval : Approval \cup {None}, review : Review \cup {None},
           presented : Review \cup {None}, seal : SealReceipt \cup {None},
           closed : BOOLEAN]
Reading == [record : Record, validated : BOOLEAN]
Transaction == [step : {"record", "unlink", "mark", "clear"}, revision : Revisions]

ASSUME NoneIsNothing ==
    None \notin Approval \cup Review \cup SealReceipt \cup Reading \cup Transaction \cup Decisions

\* create: revision 1, and no evidence of any gate.
Init ==
    /\ record = [head |-> 1, redacted |-> {}, approval |-> None, review |-> None,
                 presented |-> None, seal |-> None, closed |-> FALSE]
    /\ bodies = {1}
    /\ intents = {}
    /\ writing = None
    /\ read = [s \in Sessions |-> None]

-----------------------------------------------------------------------------
(***************************************************************************)
(* What is judged of a record, wherever it was read.                       *)
(***************************************************************************)
Choosable(r) == r.seal = None /\ ~r.closed

\* Approved, never reviewed, and then changed.
Stale(r) == r.approval # None /\ r.review = None /\ r.approval.revision # r.head

Decided(f) == f.disposition # None
Ids(v) == {f.id : f \in v.findings}

ReviewFrozen(r) == r.seal # None \/ \E f \in r.review.findings : Decided(f)
FindingFrozen(r, id) == r.seal # None \/ \E f \in r.review.findings : f.id = id /\ Decided(f)

AllDecided(v) == \A f \in v.findings : Decided(f)

\* seal_refusals, but for those about the document, the program and the receipts.
Sealable(r) ==
    /\ Choosable(r)
    /\ r.approval # None /\ ~Stale(r)
    /\ r.review = None => r.approval.depth \notin ColdDepths
    /\ r.review # None =>
         /\ r.review.of.revision = r.approval.revision
         /\ AllDecided(r.review)
         /\ r.presented = r.review

\* verify_chain: the revisions it complains of, as lost or as half redacted.
Lost == {n \in 1..record.head : n \notin record.redacted \cup intents \cup bodies}
HalfRedacted == {n \in intents : n \notin record.redacted \/ n \in bodies}
Problems == Lost \cup HalfRedacted

-----------------------------------------------------------------------------
(***************************************************************************)
(* Reading, and writing what one read justified.                           *)
(***************************************************************************)
Read(s) ==
    /\ read' = [read EXCEPT ![s] = [record |-> record, validated |-> FALSE]]
    /\ UNCHANGED <<record, bodies, intents, writing>>

Holds(s) == read[s] # None /\ writing = None
Seen(s) == read[s].record

Update(s, r) ==
    /\ record' = r
    /\ read' = [read EXCEPT ![s] = None]
    /\ UNCHANGED <<bodies, intents, writing>>

Granted(r, a) == [r EXCEPT !.approval = a]

\* Under the lock: an approval that somebody reviewed is not replaced.
Replaceable(r, a) == r.approval = a \/ r.review = None

Approve(s, d) ==
    /\ Holds(s)
    /\ Choosable(Seen(s))
    /\ Seen(s).review # None =>
         /\ Seen(s).approval.depth = d
         /\ Seen(s).review.of.revision = Seen(s).head
    /\ record.head = Seen(s).head
    /\ Choosable(record)
    /\ LET a == [revision |-> record.head, depth |-> d]
       IN Replaceable(record, a) /\ Update(s, Granted(record, a))

\* Under the lock: the review is of what is approved now, and the only one.
Recordable_AnyApproval(r, a) == r.seal = None /\ r.review = None
Recordable(r, a) == r.approval = a /\ r.seal = None /\ r.review = None

RecordReview(s, F) ==
    /\ Holds(s)
    /\ LET seen == Seen(s)
       IN /\ seen.seal = None /\ seen.review = None
          /\ seen.approval # None /\ ~Stale(seen)
          /\ Recordable(record, seen.approval)
          /\ Update(s, [record EXCEPT !.review =
                [of |-> seen.approval,
                 findings |-> {[id |-> f, text |-> 0, disposition |-> None] : f \in F}]])

\* Under the lock: nobody began to adjudicate the review, or sealed the plan.
Amendable_AsRead(r) == TRUE
Amendable(r) == ~ReviewFrozen(r)

\* New ids are compared with those that were read and, when the record is
\* validated before it is written, with those under the lock.
AmendReview(s, f, text) ==
    /\ Holds(s)
    /\ Seen(s).review # None
    /\ ~ReviewFrozen(Seen(s)) /\ f \notin Ids(Seen(s).review)
    /\ Amendable(record) /\ f \notin Ids(record.review)
    /\ Update(s, [record EXCEPT !.review.findings =
                    @ \cup {[id |-> f, text |-> text, disposition |-> None]}])

Corrected(r, id) ==
    [r EXCEPT !.review.findings = {IF f.id = id THEN [f EXCEPT !.text = 1 - @] ELSE f : f \in @}]

AmendFinding(s, id) ==
    /\ Holds(s)
    /\ Seen(s).review # None /\ id \in Ids(Seen(s).review)
    /\ ~FindingFrozen(Seen(s), id)
    /\ ~FindingFrozen(record, id)
    /\ Update(s, Corrected(record, id))

Disposed(r, id, d) ==
    [r EXCEPT !.review.findings = {IF f.id = id THEN [f EXCEPT !.disposition = d] ELSE f : f \in @}]

DisposeFinding(s, id, d) ==
    /\ Holds(s)
    /\ Seen(s).review # None /\ id \in Ids(Seen(s).review)
    /\ Seen(s).seal = None
    /\ record.seal = None
    /\ Update(s, Disposed(record, id, d))

\* Under the lock: what was shown is what is on record.
Shown_Unchecked(r, seen) == r.seal = None
Shown(r, seen) == r.seal = None /\ r.review = seen.review

PresentFindings(s) ==
    /\ Holds(s)
    /\ Seen(s).review # None /\ AllDecided(Seen(s).review)
    /\ Shown(record, Seen(s))
    /\ Update(s, [record EXCEPT !.presented = record.review])

\* The refusals are collected over one reading, and the record is read again.
ValidateSeal(s) ==
    /\ read[s] # None /\ ~read[s].validated
    /\ Sealable(Seen(s)) /\ Problems = {}
    /\ read' = [read EXCEPT ![s] = [record |-> record, validated |-> TRUE]]
    /\ UNCHANGED <<record, bodies, intents, writing>>

\* Without a review, the operator's own reading at the approval is what was reviewed.
Reviewed_ByPanel(r) == IF r.review # None THEN r.review.of.revision ELSE None
Reviewed(r) == IF r.review # None THEN r.review.of.revision ELSE r.approval.revision

\* Only the second reading is compared under the lock.
Seal(s) ==
    /\ Holds(s) /\ read[s].validated
    /\ record = Seen(s)
    /\ record.seal = None
    /\ Update(s, [record EXCEPT !.seal = [revision |-> record.head, reviewed |-> Reviewed(record)]])

\* Of a plan that no Build holds (a Build's plan is closed by BuildLease).
Close(s) ==
    /\ Holds(s)
    /\ ~record.closed
    /\ Update(s, [record EXCEPT !.closed = TRUE])

Reopen(s) ==
    /\ Holds(s)
    /\ Seen(s).closed /\ Seen(s).seal = None
    /\ record.closed /\ record.seal = None
    /\ Update(s, [record EXCEPT !.closed = FALSE])

-----------------------------------------------------------------------------
(***************************************************************************)
(* Writing several files under the lock.                                   *)
(***************************************************************************)
Writes(step) == writing # None /\ writing.step = step

\* The seal is judged at the door only: append_revision compares the head.
Revise(s) ==
    /\ Holds(s)
    /\ Seen(s).seal = None
    /\ record.head = Seen(s).head
    /\ record.head < MaxRev
    /\ bodies' = bodies \cup {record.head + 1}
    /\ writing' = [step |-> "record", revision |-> record.head + 1]
    /\ read' = [read EXCEPT ![s] = None]
    /\ UNCHANGED <<record, intents>>

ReviseRecord ==
    /\ Writes("record")
    /\ record' = [record EXCEPT !.head = writing.revision]
    /\ writing' = None
    /\ UNCHANGED <<bodies, intents, read>>

\* The intent marker outlives a crash of the redaction.
Intended_Nowhere(n) == intents
Intended(n) == intents \cup {n}

\* Never of the head.  The intent is written first, unless the revision is marked already.
Redact(n) ==
    /\ writing = None
    /\ n < record.head
    /\ IF n \in record.redacted
       THEN /\ bodies' = bodies \ {n}
            /\ writing' = [step |-> "clear", revision |-> n]
            /\ UNCHANGED intents
       ELSE /\ intents' = Intended(n)
            /\ writing' = [step |-> "unlink", revision |-> n]
            /\ UNCHANGED bodies
    /\ UNCHANGED <<record, read>>

RedactUnlink ==
    /\ Writes("unlink")
    /\ bodies' = bodies \ {writing.revision}
    /\ writing' = [writing EXCEPT !.step = "mark"]
    /\ UNCHANGED <<record, intents, read>>

RedactMark ==
    /\ Writes("mark")
    /\ record' = [record EXCEPT !.redacted = @ \cup {writing.revision}]
    /\ writing' = [writing EXCEPT !.step = "clear"]
    /\ UNCHANGED <<bodies, intents, read>>

RedactClear ==
    /\ Writes("clear")
    /\ intents' = intents \ {writing.revision}
    /\ writing' = None
    /\ UNCHANGED <<record, bodies, read>>

\* The lock goes with the process.
Crash ==
    /\ writing # None
    /\ writing' = None
    /\ UNCHANGED <<record, bodies, intents, read>>

-----------------------------------------------------------------------------
Gate(s) ==
    \/ \E d \in Depths : Approve(s, d)
    \/ \E F \in SUBSET Findings : RecordReview(s, F)
    \/ \E f \in Findings, text \in 0..1 : AmendReview(s, f, text)
    \/ \E f \in Findings : AmendFinding(s, f)
    \/ \E f \in Findings, d \in Decisions : DisposeFinding(s, f, d)
    \/ PresentFindings(s)
    \/ ValidateSeal(s) \/ Seal(s)
    \/ Close(s) \/ Reopen(s)

Next ==
    \/ \E s \in Sessions : Read(s) \/ Gate(s) \/ Revise(s)
    \/ ReviseRecord
    \/ \E n \in Revisions : Redact(n)
    \/ RedactUnlink \/ RedactMark \/ RedactClear
    \/ Crash

Spec == Init /\ [][Next]_vars

-----------------------------------------------------------------------------
(***************************************************************************)
(* Properties.                                                             *)
(***************************************************************************)
TypeOK ==
    /\ record \in Record
    /\ bodies \subseteq Revisions
    /\ intents \subseteq Revisions
    /\ writing \in Transaction \cup {None}
    /\ read \in [Sessions -> Reading \cup {None}]

\* Wherever a redaction or a revision was cut short, the chain reads truthfully: the
\* head is readable, no revision removed by intent reads as lost, and none that
\* reads as redacted is still on disk (redact_revision, verify_chain).
ChainReadsTruthfully ==
    /\ record.head \in bodies
    /\ Lost = {}
    /\ record.redacted \cap bodies = {}
    /\ \A n \in 1..record.head : n \notin bodies /\ n \notin record.redacted => n \in HalfRedacted

\* The one review of a plan is of the approval it holds, also when several sessions
\* approve, revise and record reviews at once: no review is orphaned by a later
\* approval, or recorded for one that was replaced (approve, record_review).
ReviewIsOfTheApproval ==
    record.review # None => record.approval = record.review.of

\* What the operator was shown was decided, finding by finding: no finding slipped in
\* between the reading that was shown and its record (cmd_present_findings).
PresentedIsDecided ==
    record.presented # None => AllDecided(record.presented)

\* A judgment stays about what it was made of: a review is never replaced, a finding
\* that was disposed of keeps its text, none joins a review in adjudication, and
\* after the seal nothing of the review changes (frozen_reason, change).
JudgmentsStand ==
    [][LET v == record.review
           w == record'.review
       IN v # None =>
            /\ w # None /\ w.of = v.of
            /\ \A f \in v.findings : Decided(f) => \E g \in w.findings : g.id = f.id /\ g.text = f.text
            /\ (\E f \in v.findings : Decided(f)) => Ids(w) = Ids(v)
            /\ record.seal # None => w = v]_vars

\* cmd_seal: "Nothing locks before this, and nothing changes after it."
SealedIsTheHead ==
    record.seal # None => record.head = record.seal.revision
=============================================================================
