--------------------------- MODULE PlanLibrary_proofs ---------------------------
(***************************************************************************)
(* Proofs about PlanLibrary, for any sessions, depths, findings and number  *)
(* of revisions: what the unlocked reading of one session cannot spoil of   *)
(* another's gate, and what a crash cannot spoil of the revision chain.     *)
(***************************************************************************)
EXTENDS PlanLibrary, TLAPS

\* A session that read an approval or a review reads one that is still on
\* record: no verb removes either.  What a sealing verb reads again is approved.
ReadingsAreOfThePast ==
    \A s \in Sessions : read[s] # None =>
        /\ Seen(s).review # None => record.review # None
        /\ Seen(s).approval # None => record.approval # None
        /\ read[s].validated => Seen(s).approval # None

\* Where a transaction on the revisions stands.
TransactionStands ==
    writing # None =>
        LET n == writing.revision IN
        /\ writing.step = "record" => n = record.head + 1 /\ n \in bodies
        /\ writing.step \in {"unlink", "mark"} => n < record.head /\ n \in intents /\ n \notin record.redacted
        /\ writing.step = "mark" => n \notin bodies
        /\ writing.step = "clear" => n \in record.redacted

\* What the revisions are: readable, marked, or being redacted.  The head is
\* never among those that are or will be removed.
RevisionsStand ==
    /\ record.head \in bodies
    /\ \A n \in 1..record.head : n \in bodies \/ n \in record.redacted \/ n \in intents
    /\ record.redacted \cap bodies = {}
    /\ \A n \in record.redacted \cup intents : n < record.head

IInv == TypeOK /\ ReadingsAreOfThePast /\ TransactionStands /\ RevisionsStand

-----------------------------------------------------------------------------
\* What the gates write leaves the revisions alone, and keeps the review.
Judged(s, r) ==
    /\ Holds(s) /\ Update(s, r)
    /\ r \in Record
    /\ r.head = record.head /\ r.redacted = record.redacted
    /\ record.review # None => r.review # None
    /\ record.approval # None => r.approval # None

LEMMA NoneFacts ==
    /\ None \notin Approval /\ None \notin Review /\ None \notin SealReceipt
    /\ None \notin Reading /\ None \notin Transaction /\ None \notin Decisions
BY NoneIsNothing

\* The record of a session's reading.
LEMMA SeenIsRecord ==
    ASSUME TypeOK, NEW s \in Sessions, read[s] # None
    PROVE  Seen(s) \in Record /\ read[s] \in Reading
BY DEF TypeOK, Reading, Seen

LEMMA ReviewType ==
    ASSUME NEW r \in Record, r.review # None
    PROVE  /\ r.review \in Review
           /\ r.review.of \in Approval
           /\ r.review.findings \subseteq Finding
BY DEF Record, Review

\* The findings of a review replaced, the review is otherwise what it was.
LEMMA FindingsReplaced ==
    ASSUME NEW r \in Record, r.review # None, NEW F \in SUBSET Finding
    PROVE  /\ [r EXCEPT !.review.findings = F] \in Record
           /\ [r EXCEPT !.review.findings = F].review = [of |-> r.review.of, findings |-> F]
           /\ [r EXCEPT !.review.findings = F].head = r.head
           /\ [r EXCEPT !.review.findings = F].redacted = r.redacted
           /\ [r EXCEPT !.review.findings = F].approval = r.approval
           /\ [r EXCEPT !.review.findings = F].presented = r.presented
           /\ [r EXCEPT !.review.findings = F].seal = r.seal
<1> DEFINE q == [r EXCEPT !.review.findings = F]
<1>1. r.review \in Review /\ r.review.of \in Approval
  BY ReviewType
<1>2. [r.review EXCEPT !.findings = F] = [of |-> r.review.of, findings |-> F]
  BY <1>1 DEF Review
<1>3. [of |-> r.review.of, findings |-> F] \in Review
  BY <1>1 DEF Review
<1>4. q = [r EXCEPT !.review = [of |-> r.review.of, findings |-> F]]
  BY <1>2
<1>5. [of |-> r.review.of, findings |-> F] # None
  BY <1>3, NoneFacts
<1> QED BY <1>3, <1>4, <1>5 DEF Record

-----------------------------------------------------------------------------
(***************************************************************************)
(* Every gate is a judged write.                                           *)
(***************************************************************************)
LEMMA ApproveJudged ==
    ASSUME TypeOK, NEW s \in Sessions, NEW d \in Depths, Approve(s, d)
    PROVE  /\ Judged(s, record')
           /\ record'.review = record.review /\ record'.presented = record.presented
           /\ record.review # None => record'.approval = record.approval
<1> DEFINE a == [revision |-> record.head, depth |-> d]
<1>1. record \in Record /\ record.head \in Revisions
  BY DEF TypeOK, Record
<1>2. a \in Approval /\ a # None
  BY <1>1, NoneFacts DEF Approval
<1>3. Granted(record, a) \in Record
  BY <1>1, <1>2 DEF Granted, Record
<1>4. Holds(s) /\ Replaceable(record, a) /\ Update(s, Granted(record, a)) /\ record' = Granted(record, a)
  BY DEF Approve, Update
<1>5. /\ record'.review = record.review /\ record'.presented = record.presented
      /\ record'.head = record.head /\ record'.redacted = record.redacted
      /\ record'.approval = a
  BY <1>1, <1>4 DEF Granted, Record
<1> QED BY <1>2, <1>3, <1>4, <1>5 DEF Judged, Replaceable

LEMMA RecordReviewJudged ==
    ASSUME TypeOK, NEW s \in Sessions, NEW F \in SUBSET Findings, RecordReview(s, F)
    PROVE  /\ Judged(s, record')
           /\ record.review = None /\ record'.presented = record.presented
           /\ record'.approval = record.approval
           /\ record'.review.of = record.approval
<1> DEFINE G == {[id |-> f, text |-> 0, disposition |-> None] : f \in F}
           v == [of |-> Seen(s).approval, findings |-> G]
<1>1. /\ record \in Record /\ Seen(s) \in Record
      /\ Holds(s) /\ Seen(s).approval # None
      /\ Recordable(record, Seen(s).approval)
      /\ Update(s, [record EXCEPT !.review = v])
  BY SeenIsRecord DEF RecordReview, Holds, TypeOK
<1>2. Seen(s).approval \in Approval
  BY <1>1 DEF Record
<1>3. G \subseteq Finding
  BY DEF Finding
<1>4. v \in Review /\ v # None
  BY <1>2, <1>3, NoneFacts DEF Review
<1>5. [record EXCEPT !.review = v] \in Record
  BY <1>1, <1>4 DEF Record
<1>6. /\ record' = [record EXCEPT !.review = v]
      /\ record'.review = v /\ record'.presented = record.presented
      /\ record'.approval = record.approval
      /\ record'.head = record.head /\ record'.redacted = record.redacted
  BY <1>1 DEF Update, Record
<1>7. record.review = None /\ record.approval = Seen(s).approval
  BY <1>1 DEF Recordable
<1> QED BY <1>1, <1>5, <1>6, <1>7, <1>4 DEF Judged

\* The three verbs that change the findings of the review on record.
FindingsBecome(F) ==
    /\ record.review # None
    /\ F \in SUBSET Finding
    /\ record' = [record EXCEPT !.review.findings = F]

LEMMA FindingsBecomeJudged ==
    ASSUME TypeOK, NEW s \in Sessions, NEW F, FindingsBecome(F), Holds(s), Update(s, record')
    PROVE  /\ Judged(s, record')
           /\ record'.review.of = record.review.of /\ record'.review.findings = F
           /\ record'.review # None /\ record.review # None
           /\ record'.presented = record.presented
           /\ record'.approval = record.approval
           /\ record'.seal = record.seal
<1>1. record \in Record
  BY DEF TypeOK
<1>2. record'.review = [of |-> record.review.of, findings |-> F] /\ record' \in Record
  BY <1>1, FindingsReplaced DEF FindingsBecome
<1>3. [of |-> record.review.of, findings |-> F] # None
  BY <1>1, ReviewType, NoneFacts DEF FindingsBecome, Review
<1> QED BY <1>1, <1>2, <1>3, FindingsReplaced DEF FindingsBecome, Judged

LEMMA AmendReviewFindings ==
    ASSUME IInv, NEW s \in Sessions, NEW f \in Findings, NEW text \in 0..1, AmendReview(s, f, text)
    PROVE  /\ FindingsBecome(record.review.findings \cup {[id |-> f, text |-> text, disposition |-> None]})
           /\ ~ReviewFrozen(record) /\ Holds(s) /\ Update(s, record')
<1>1. record \in Record /\ Holds(s) /\ Seen(s).review # None
  BY DEF AmendReview, IInv, TypeOK
<1>2. record.review # None
  BY <1>1 DEF IInv, ReadingsAreOfThePast, Holds
<1>3. record.review.findings \subseteq Finding
  BY <1>1, <1>2, ReviewType
<1>4. [id |-> f, text |-> text, disposition |-> None] \in Finding
  BY DEF Finding
<1> QED BY <1>1, <1>2, <1>3, <1>4 DEF AmendReview, Amendable, FindingsBecome, Update

LEMMA AmendFindingFindings ==
    ASSUME IInv, NEW s \in Sessions, NEW id \in Findings, AmendFinding(s, id)
    PROVE  /\ FindingsBecome({IF f.id = id THEN [f EXCEPT !.text = 1 - @] ELSE f : f \in record.review.findings})
           /\ ~FindingFrozen(record, id) /\ Holds(s) /\ Update(s, record')
<1>1. record \in Record /\ Holds(s) /\ Seen(s).review # None
  BY DEF AmendFinding, IInv, TypeOK
<1>2. record.review # None
  BY <1>1 DEF IInv, ReadingsAreOfThePast, Holds
<1>3. record.review.findings \subseteq Finding
  BY <1>1, <1>2, ReviewType
<1>4. \A f \in Finding : [f EXCEPT !.text = 1 - @] \in Finding
  BY DEF Finding
<1>5. {IF f.id = id THEN [f EXCEPT !.text = 1 - @] ELSE f : f \in record.review.findings} \in SUBSET Finding
  BY <1>3, <1>4
<1> QED BY <1>1, <1>2, <1>5 DEF AmendFinding, FindingsBecome, Update, Corrected

LEMMA DisposeFindingFindings ==
    ASSUME IInv, NEW s \in Sessions, NEW id \in Findings, NEW d \in Decisions, DisposeFinding(s, id, d)
    PROVE  /\ FindingsBecome({IF f.id = id THEN [f EXCEPT !.disposition = d] ELSE f : f \in record.review.findings})
           /\ record.seal = None /\ Holds(s) /\ Update(s, record')
<1>1. record \in Record /\ Holds(s) /\ Seen(s).review # None
  BY DEF DisposeFinding, IInv, TypeOK
<1>2. record.review # None
  BY <1>1 DEF IInv, ReadingsAreOfThePast, Holds
<1>3. record.review.findings \subseteq Finding
  BY <1>1, <1>2, ReviewType
<1>4. \A f \in Finding : [f EXCEPT !.disposition = d] \in Finding
  BY DEF Finding
<1>5. {IF f.id = id THEN [f EXCEPT !.disposition = d] ELSE f : f \in record.review.findings} \in SUBSET Finding
  BY <1>3, <1>4
<1> QED BY <1>1, <1>2, <1>5 DEF DisposeFinding, FindingsBecome, Update, Disposed

LEMMA PresentJudged ==
    ASSUME TypeOK, NEW s \in Sessions, PresentFindings(s)
    PROVE  /\ Judged(s, record')
           /\ record'.review = record.review /\ record'.approval = record.approval
           /\ record'.presented # None => AllDecided(record'.presented)
           /\ record'.seal = record.seal
<1>1. record \in Record /\ Holds(s) /\ AllDecided(Seen(s).review) /\ record.review = Seen(s).review
  BY DEF PresentFindings, Shown, TypeOK
<1>2. record' = [record EXCEPT !.presented = record.review] /\ Update(s, record')
  BY DEF PresentFindings, Update
<1>3. record' \in Record
  BY <1>1, <1>2 DEF Record
<1>4. /\ record'.review = record.review /\ record'.presented = record.review
      /\ record'.approval = record.approval /\ record'.seal = record.seal
      /\ record'.head = record.head /\ record'.redacted = record.redacted
  BY <1>1, <1>2 DEF Record
<1> QED BY <1>1, <1>2, <1>3, <1>4 DEF Judged

LEMMA SealJudged ==
    ASSUME IInv, NEW s \in Sessions, Seal(s)
    PROVE  /\ Judged(s, record')
           /\ record'.review = record.review /\ record'.approval = record.approval
           /\ record'.presented = record.presented
<1> DEFINE v == [revision |-> record.head, reviewed |-> Reviewed(record)]
<1>1. /\ record \in Record /\ Holds(s) /\ record = Seen(s) /\ read[s].validated
      /\ record' = [record EXCEPT !.seal = v] /\ Update(s, record')
  BY DEF Seal, Update, IInv, TypeOK
<1>2. record.approval # None
  BY <1>1 DEF IInv, ReadingsAreOfThePast, Holds
<1>3. record.approval \in Approval /\ record.head \in Revisions
  BY <1>1, <1>2 DEF Record
<1>4. Reviewed(record) \in Revisions
  BY <1>1, <1>3, ReviewType DEF Reviewed, Approval
<1>5. v \in SealReceipt
  BY <1>3, <1>4 DEF SealReceipt
<1>6. record' \in Record
  BY <1>1, <1>5 DEF Record
<1>7. /\ record'.review = record.review /\ record'.approval = record.approval
      /\ record'.presented = record.presented
      /\ record'.head = record.head /\ record'.redacted = record.redacted
  BY <1>1 DEF Record
<1> QED BY <1>1, <1>6, <1>7 DEF Judged

LEMMA ClosedJudged ==
    ASSUME TypeOK, NEW s \in Sessions, Close(s) \/ Reopen(s)
    PROVE  /\ Judged(s, record')
           /\ record'.review = record.review /\ record'.approval = record.approval
           /\ record'.presented = record.presented /\ record'.seal = record.seal
<1>1. PICK c \in BOOLEAN : Holds(s) /\ record' = [record EXCEPT !.closed = c] /\ Update(s, record')
  BY DEF Close, Reopen, Update
<1>2. record \in Record /\ record' \in Record
  BY <1>1 DEF TypeOK, Record
<1>3. /\ record'.review = record.review /\ record'.approval = record.approval
      /\ record'.presented = record.presented /\ record'.seal = record.seal
      /\ record'.head = record.head /\ record'.redacted = record.redacted
  BY <1>1, <1>2 DEF Record
<1> QED BY <1>1, <1>2, <1>3 DEF Judged

\* Every gate but the validation of a seal writes what it judged.
LEMMA GateJudged ==
    ASSUME IInv, NEW s \in Sessions, Gate(s)
    PROVE  ValidateSeal(s) \/ Judged(s, record')
<1>1. TypeOK
  BY DEF IInv
<1>2. ASSUME NEW d \in Depths, Approve(s, d) PROVE Judged(s, record')
  BY <1>1, <1>2, ApproveJudged
<1>3. ASSUME NEW F \in SUBSET Findings, RecordReview(s, F) PROVE Judged(s, record')
  BY <1>1, <1>3, RecordReviewJudged
<1>4. ASSUME NEW f \in Findings, NEW text \in 0..1, AmendReview(s, f, text) PROVE Judged(s, record')
  BY <1>1, <1>4, AmendReviewFindings, FindingsBecomeJudged
<1>5. ASSUME NEW f \in Findings, AmendFinding(s, f) PROVE Judged(s, record')
  BY <1>1, <1>5, AmendFindingFindings, FindingsBecomeJudged
<1>6. ASSUME NEW f \in Findings, NEW d \in Decisions, DisposeFinding(s, f, d) PROVE Judged(s, record')
  BY <1>1, <1>6, DisposeFindingFindings, FindingsBecomeJudged
<1>7. ASSUME PresentFindings(s) PROVE Judged(s, record')
  BY <1>1, <1>7, PresentJudged
<1>8. ASSUME Seal(s) PROVE Judged(s, record')
  BY <1>8, SealJudged
<1>9. ASSUME Close(s) \/ Reopen(s) PROVE Judged(s, record')
  BY <1>1, <1>9, ClosedJudged
<1> QED BY <1>2, <1>3, <1>4, <1>5, <1>6, <1>7, <1>8, <1>9 DEF Gate

-----------------------------------------------------------------------------
(***************************************************************************)
(* The invariant.                                                          *)
(***************************************************************************)
LEMMA InitIInv == Init => IInv
<1> SUFFICES ASSUME Init PROVE IInv
  OBVIOUS
<1>1. 1 \in Revisions
  BY MaxRevOK DEF Revisions
<1>2. TypeOK
  BY <1>1 DEF Init, TypeOK, Record
<1>3. ReadingsAreOfThePast /\ TransactionStands
  BY DEF Init, ReadingsAreOfThePast, TransactionStands
<1>4. RevisionsStand
  BY DEF Init, RevisionsStand
<1> QED BY <1>2, <1>3, <1>4 DEF IInv

LEMMA JudgedKeepsIInv ==
    ASSUME IInv, NEW s \in Sessions, Judged(s, record')
    PROVE  IInv'
<1>1. /\ record' \in Record
      /\ record'.head = record.head /\ record'.redacted = record.redacted
      /\ UNCHANGED <<bodies, intents, writing>>
      /\ read' = [read EXCEPT ![s] = None]
  BY DEF Judged, Update
<1>2. TypeOK'
  BY <1>1 DEF IInv, TypeOK
<1>3. ReadingsAreOfThePast'
  <2> SUFFICES ASSUME NEW t \in Sessions, read'[t] # None
               PROVE  /\ Seen(t)'.review # None => record'.review # None
                      /\ Seen(t)'.approval # None => record'.approval # None
                      /\ read'[t].validated => Seen(t)'.approval # None
    BY DEF ReadingsAreOfThePast
  <2>1. t # s /\ read'[t] = read[t]
    BY <1>1 DEF IInv, TypeOK
  <2> QED BY <2>1 DEF IInv, ReadingsAreOfThePast, Judged, Seen
<1>4. TransactionStands' /\ RevisionsStand'
  BY <1>1 DEF IInv, TransactionStands, RevisionsStand
<1> QED BY <1>2, <1>3, <1>4 DEF IInv

\* Reading, or reading again once a seal was validated.
LEMMA ReadingKeepsIInv ==
    ASSUME IInv, NEW s \in Sessions, Read(s) \/ ValidateSeal(s)
    PROVE  IInv' /\ UNCHANGED <<record, bodies, intents, writing>>
<1>1. PICK v \in BOOLEAN :
        /\ read' = [read EXCEPT ![s] = [record |-> record, validated |-> v]]
        /\ v => ValidateSeal(s)
  BY DEF Read, ValidateSeal
<1>2. UNCHANGED <<record, bodies, intents, writing>>
  BY DEF Read, ValidateSeal
<1>3. v => record.approval # None
  BY <1>1 DEF ValidateSeal, Sealable, IInv, ReadingsAreOfThePast
<1>4. [record |-> record, validated |-> v] \in Reading
  BY DEF Reading, IInv, TypeOK
<1>5. TypeOK'
  BY <1>1, <1>2, <1>4 DEF IInv, TypeOK
<1>6. ReadingsAreOfThePast'
  <2> SUFFICES ASSUME NEW t \in Sessions, read'[t] # None
               PROVE  /\ Seen(t)'.review # None => record.review # None
                      /\ Seen(t)'.approval # None => record.approval # None
                      /\ read'[t].validated => Seen(t)'.approval # None
    BY <1>2 DEF ReadingsAreOfThePast
  <2>1. CASE t = s
    BY <2>1, <1>1, <1>3 DEF IInv, TypeOK, Seen
  <2>2. CASE t # s
    BY <2>2, <1>1 DEF IInv, TypeOK, ReadingsAreOfThePast, Seen
  <2> QED BY <2>1, <2>2
<1>7. TransactionStands' /\ RevisionsStand'
  BY <1>2 DEF IInv, TransactionStands, RevisionsStand
<1> QED BY <1>2, <1>5, <1>6, <1>7 DEF IInv

\* The writes of a revision and of a redaction, and a crash between them.
RevisionStep ==
    \/ \E s \in Sessions : Revise(s)
    \/ ReviseRecord
    \/ \E n \in Revisions : Redact(n)
    \/ RedactUnlink \/ RedactMark \/ RedactClear
    \/ Crash

\* They leave the evidence of every gate as it is.
LEMMA RevisionStepGates ==
    ASSUME TypeOK, RevisionStep
    PROVE  /\ record'.review = record.review /\ record'.approval = record.approval
           /\ record'.presented = record.presented /\ record'.seal = record.seal
<1>1. CASE UNCHANGED record
  BY <1>1
<1>2. CASE ReviseRecord \/ RedactMark
  BY <1>2 DEF ReviseRecord, RedactMark, TypeOK, Record
<1> QED BY <1>1, <1>2 DEF RevisionStep, Revise, Redact, RedactUnlink, RedactClear, Crash

LEMMA RevisionStepTypes ==
    ASSUME IInv, RevisionStep
    PROVE  TypeOK'
<1>1. /\ record \in Record /\ bodies \subseteq Revisions /\ intents \subseteq Revisions
      /\ writing \in Transaction \cup {None} /\ read \in [Sessions -> Reading \cup {None}]
      /\ record.head \in Revisions /\ record.redacted \subseteq Revisions
      /\ MaxRev \in Nat
  BY MaxRevOK DEF IInv, TypeOK, Record
<1>2. writing # None => writing \in Transaction /\ writing.revision \in Revisions
  BY <1>1 DEF Transaction
<1>3. ASSUME NEW s \in Sessions, Revise(s) PROVE TypeOK'
  <2>1. record.head + 1 \in Revisions
    BY <1>1, <1>3 DEF Revise, Revisions
  <2>2. [step |-> "record", revision |-> record.head + 1] \in Transaction
    BY <2>1 DEF Transaction
  <2> QED BY <1>1, <1>3, <2>1, <2>2 DEF Revise, TypeOK
<1>4. ASSUME ReviseRecord PROVE TypeOK'
  <2>1. record' \in Record
    BY <1>1, <1>2, <1>4 DEF ReviseRecord, Writes, Record
  <2> QED BY <1>1, <1>4, <2>1 DEF ReviseRecord, TypeOK
<1>5. ASSUME NEW n \in Revisions, Redact(n) PROVE TypeOK'
  <2>1. /\ [step |-> "clear", revision |-> n] \in Transaction
        /\ [step |-> "unlink", revision |-> n] \in Transaction
    BY DEF Transaction
  <2> QED BY <1>1, <1>5, <2>1 DEF Redact, Intended, TypeOK
<1>6. ASSUME RedactUnlink PROVE TypeOK'
  <2>1. writing' \in Transaction
    BY <1>2, <1>6 DEF RedactUnlink, Writes, Transaction
  <2> QED BY <1>1, <1>6, <2>1 DEF RedactUnlink, TypeOK
<1>7. ASSUME RedactMark PROVE TypeOK'
  <2>1. writing' \in Transaction
    BY <1>2, <1>7 DEF RedactMark, Writes, Transaction
  <2>2. record' \in Record
    BY <1>1, <1>2, <1>7 DEF RedactMark, Writes, Record
  <2> QED BY <1>1, <1>7, <2>1, <2>2 DEF RedactMark, TypeOK
<1>8. ASSUME RedactClear PROVE TypeOK'
  BY <1>1, <1>8 DEF RedactClear, TypeOK
<1>9. ASSUME Crash PROVE TypeOK'
  BY <1>1, <1>9 DEF Crash, TypeOK
<1> QED BY <1>3, <1>4, <1>5, <1>6, <1>7, <1>8, <1>9 DEF RevisionStep

LEMMA RevisionStepReadings ==
    ASSUME IInv, RevisionStep
    PROVE  ReadingsAreOfThePast'
<1> SUFFICES ASSUME NEW t \in Sessions, read'[t] # None
             PROVE  /\ Seen(t)'.review # None => record'.review # None
                    /\ Seen(t)'.approval # None => record'.approval # None
                    /\ read'[t].validated => Seen(t)'.approval # None
  BY DEF ReadingsAreOfThePast
<1>1. read'[t] = read[t]
  BY DEF RevisionStep, Revise, ReviseRecord, Redact, RedactUnlink, RedactMark, RedactClear, Crash,
         IInv, TypeOK
<1> QED BY <1>1, RevisionStepGates DEF IInv, ReadingsAreOfThePast, Seen

LEMMA RevisionStepStands ==
    ASSUME IInv, RevisionStep
    PROVE  TransactionStands' /\ RevisionsStand'
<1>1. /\ record \in Record /\ record.head \in 1..MaxRev /\ MaxRev \in Nat
      /\ writing \in Transaction \cup {None} /\ intents \subseteq 1..MaxRev
      /\ record.redacted \subseteq 1..MaxRev
  BY MaxRevOK DEF IInv, TypeOK, Record, Revisions
<1>2. writing # None => writing \in Transaction /\ writing.revision \in 1..MaxRev
  BY <1>1 DEF Transaction, Revisions
<1>3. ASSUME NEW s \in Sessions, Revise(s) PROVE TransactionStands' /\ RevisionsStand'
  BY <1>1, <1>3 DEF Revise, IInv, TransactionStands, RevisionsStand
<1>4. ASSUME ReviseRecord PROVE TransactionStands' /\ RevisionsStand'
  <2>1. /\ record'.head = record.head + 1 /\ record'.redacted = record.redacted
        /\ record.head + 1 \in bodies
        /\ UNCHANGED <<bodies, intents>> /\ writing' = None
    BY <1>1, <1>4 DEF ReviseRecord, Writes, Record, IInv, TransactionStands
  <2>2. \A n \in 1..(record.head + 1) : n \in 1..record.head \/ n = record.head + 1
    BY <1>1
  <2>3. \A n \in record.redacted \cup intents : n < record.head + 1
    <3> SUFFICES ASSUME NEW n \in record.redacted \cup intents PROVE n < record.head + 1
      OBVIOUS
    <3>1. n < record.head
      BY DEF IInv, RevisionsStand
    <3>2. n \in 1..MaxRev
      BY <1>1
    <3> QED BY <1>1, <3>1, <3>2
  <2>4. RevisionsStand'
    BY <1>1, <2>1, <2>2, <2>3 DEF IInv, RevisionsStand
  <2> QED BY <2>1, <2>4 DEF TransactionStands
<1>5. ASSUME NEW n \in Revisions, Redact(n) PROVE TransactionStands' /\ RevisionsStand'
  <2>1. UNCHANGED record /\ n < record.head /\ n \in Int
    BY <1>5 DEF Redact, Revisions
  <2>2. CASE n \in record.redacted
    BY <1>1, <1>5, <2>1, <2>2, NoneFacts DEF Redact, IInv, TransactionStands, RevisionsStand
  <2>3. CASE n \notin record.redacted
    BY <1>1, <1>5, <2>1, <2>3 DEF Redact, Intended, IInv, TransactionStands, RevisionsStand
  <2> QED BY <2>2, <2>3
<1>6. ASSUME RedactUnlink PROVE TransactionStands' /\ RevisionsStand'
  <2>1. /\ writing'.step = "mark" /\ writing'.revision = writing.revision
    BY <1>2, <1>6 DEF RedactUnlink, Writes, Transaction
  <2>2. UNCHANGED <<record, intents>> /\ bodies' = bodies \ {writing.revision}
    BY <1>6 DEF RedactUnlink
  <2> QED BY <1>1, <1>2, <1>6, <2>1, <2>2
          DEF RedactUnlink, Writes, IInv, TransactionStands, RevisionsStand
<1>7. ASSUME RedactMark PROVE TransactionStands' /\ RevisionsStand'
  <2>1. writing'.step = "clear" /\ writing'.revision = writing.revision
    BY <1>2, <1>7 DEF RedactMark, Writes, Transaction
  <2>2. /\ record'.head = record.head /\ record'.redacted = record.redacted \cup {writing.revision}
        /\ UNCHANGED <<bodies, intents>>
    BY <1>1, <1>7 DEF RedactMark, Record
  <2> QED BY <1>1, <1>2, <1>7, <2>1, <2>2
          DEF RedactMark, Writes, IInv, TransactionStands, RevisionsStand
<1>8. ASSUME RedactClear PROVE TransactionStands' /\ RevisionsStand'
  BY <1>1, <1>2, <1>8 DEF RedactClear, Writes, IInv, TransactionStands, RevisionsStand
<1>9. ASSUME Crash PROVE TransactionStands' /\ RevisionsStand'
  BY <1>9 DEF Crash, IInv, TransactionStands, RevisionsStand
<1> QED BY <1>3, <1>4, <1>5, <1>6, <1>7, <1>8, <1>9 DEF RevisionStep

LEMMA StutterKeepsIInv == IInv /\ UNCHANGED vars => IInv'
BY DEF vars, IInv, TypeOK, ReadingsAreOfThePast, Seen, TransactionStands, RevisionsStand

\* The next-state relation, sorted by what a step writes.
LEMMA StepKinds ==
    ASSUME Next
    PROVE  \/ RevisionStep
           \/ \E s \in Sessions : Read(s) \/ Gate(s)
BY DEF Next, RevisionStep

LEMMA NextIInv == IInv /\ [Next]_vars => IInv'
<1>1. ASSUME IInv, NEW s \in Sessions, Gate(s) PROVE IInv'
  <2>1. CASE ValidateSeal(s)
    BY <1>1, <2>1, ReadingKeepsIInv
  <2>2. CASE Judged(s, record')
    BY <1>1, <2>2, JudgedKeepsIInv
  <2> QED BY <1>1, <2>1, <2>2, GateJudged
<1>2. ASSUME IInv, NEW s \in Sessions, Read(s) PROVE IInv'
  BY <1>2, ReadingKeepsIInv
<1>3. ASSUME IInv, RevisionStep PROVE IInv'
  BY <1>3, RevisionStepTypes, RevisionStepReadings, RevisionStepStands DEF IInv
<1> QED BY <1>1, <1>2, <1>3, StutterKeepsIInv, StepKinds

\* The inductive invariant holds of every reachable state.
LEMMA Invariant == Spec => []IInv
BY InitIInv, NextIInv, PTL DEF Spec

-----------------------------------------------------------------------------
(***************************************************************************)
(* The theorems.                                                           *)
(***************************************************************************)
\* The record, the snapshots and every reading have their types.
THEOREM TypeCorrect == Spec => []TypeOK
BY Invariant, PTL DEF IInv

\* At every cut of a redaction or a revision the chain reads truthfully, for any
\* number of revisions: the head is readable, what is gone was marked or is
\* reported as half redacted, and what is marked is gone.
THEOREM TruthfulChain == Spec => []ChainReadsTruthfully
<1>1. IInv => ChainReadsTruthfully
  BY DEF IInv, RevisionsStand, ChainReadsTruthfully, Lost, HalfRedacted
<1> QED BY <1>1, Invariant, PTL

\* No interleaving of approvals, revisions and reviews orphans a review: what was
\* reviewed is what is approved.
THEOREM ReviewedIsApproved == Spec => []ReviewIsOfTheApproval
<1>1. Init => ReviewIsOfTheApproval
  BY DEF Init, ReviewIsOfTheApproval
<1>2. ASSUME IInv, ReviewIsOfTheApproval, [Next]_vars PROVE ReviewIsOfTheApproval'
  <2>1. ASSUME NEW s \in Sessions, Gate(s) PROVE ReviewIsOfTheApproval'
    <3>1. TypeOK
      BY <1>2 DEF IInv
    <3>2. CASE \E d \in Depths : Approve(s, d)
      BY <1>2, <3>1, <3>2, ApproveJudged DEF ReviewIsOfTheApproval
    <3>3. CASE \E F \in SUBSET Findings : RecordReview(s, F)
      BY <3>1, <3>3, RecordReviewJudged DEF ReviewIsOfTheApproval
    <3>4. ASSUME NEW F, FindingsBecome(F), Holds(s), Update(s, record') PROVE ReviewIsOfTheApproval'
      BY <1>2, <3>1, <3>4, FindingsBecomeJudged DEF ReviewIsOfTheApproval
    <3>5. CASE \E f \in Findings, text \in 0..1 : AmendReview(s, f, text)
      BY <1>2, <3>4, <3>5, AmendReviewFindings
    <3>6. CASE \E f \in Findings : AmendFinding(s, f)
      BY <1>2, <3>4, <3>6, AmendFindingFindings
    <3>7. CASE \E f \in Findings, d \in Decisions : DisposeFinding(s, f, d)
      BY <1>2, <3>4, <3>7, DisposeFindingFindings
    <3>8. CASE PresentFindings(s)
      BY <1>2, <3>1, <3>8, PresentJudged DEF ReviewIsOfTheApproval
    <3>9. CASE Seal(s)
      BY <1>2, <3>9, SealJudged DEF ReviewIsOfTheApproval
    <3>10. CASE Close(s) \/ Reopen(s)
      BY <1>2, <3>1, <3>10, ClosedJudged DEF ReviewIsOfTheApproval
    <3>11. CASE ValidateSeal(s)
      BY <1>2, <3>11 DEF ValidateSeal, ReviewIsOfTheApproval
    <3> QED BY <2>1, <3>2, <3>3, <3>5, <3>6, <3>7, <3>8, <3>9, <3>10, <3>11 DEF Gate
  <2>2. ASSUME NEW s \in Sessions, Read(s) PROVE ReviewIsOfTheApproval'
    BY <1>2, <2>2 DEF Read, ReviewIsOfTheApproval
  <2>3. CASE RevisionStep
    BY <1>2, <2>3, RevisionStepGates DEF IInv, ReviewIsOfTheApproval
  <2>4. CASE UNCHANGED vars
    BY <1>2, <2>4 DEF vars, ReviewIsOfTheApproval
  <2> QED BY <1>2, <2>1, <2>2, <2>3, <2>4, StepKinds
<1> QED BY <1>1, <1>2, Invariant, PTL DEF Spec

\* What is on record as shown to the operator was decided throughout.
THEOREM ShownIsDecided == Spec => []PresentedIsDecided
<1>1. Init => PresentedIsDecided
  BY DEF Init, PresentedIsDecided
<1>2. ASSUME IInv, PresentedIsDecided, [Next]_vars PROVE PresentedIsDecided'
  <2>1. ASSUME NEW s \in Sessions, Gate(s) PROVE PresentedIsDecided'
    <3>1. TypeOK
      BY <1>2 DEF IInv
    <3>2. ASSUME record'.presented = record.presented PROVE PresentedIsDecided'
      BY <1>2, <3>2 DEF PresentedIsDecided, AllDecided, Decided
    <3>3. CASE \E d \in Depths : Approve(s, d)
      BY <3>1, <3>2, <3>3, ApproveJudged
    <3>4. CASE \E F \in SUBSET Findings : RecordReview(s, F)
      BY <3>1, <3>2, <3>4, RecordReviewJudged
    <3>5. ASSUME NEW F, FindingsBecome(F), Holds(s), Update(s, record') PROVE PresentedIsDecided'
      BY <3>1, <3>2, <3>5, FindingsBecomeJudged
    <3>6. CASE \E f \in Findings, text \in 0..1 : AmendReview(s, f, text)
      BY <1>2, <3>5, <3>6, AmendReviewFindings
    <3>7. CASE \E f \in Findings : AmendFinding(s, f)
      BY <1>2, <3>5, <3>7, AmendFindingFindings
    <3>8. CASE \E f \in Findings, d \in Decisions : DisposeFinding(s, f, d)
      BY <1>2, <3>5, <3>8, DisposeFindingFindings
    <3>9. CASE PresentFindings(s)
      BY <3>1, <3>9, PresentJudged DEF PresentedIsDecided, AllDecided, Decided
    <3>10. CASE Seal(s)
      BY <1>2, <3>2, <3>10, SealJudged
    <3>11. CASE Close(s) \/ Reopen(s)
      BY <3>1, <3>2, <3>11, ClosedJudged
    <3>12. CASE ValidateSeal(s)
      BY <3>2, <3>12 DEF ValidateSeal
    <3> QED BY <2>1, <3>3, <3>4, <3>6, <3>7, <3>8, <3>9, <3>10, <3>11, <3>12 DEF Gate
  <2>2. ASSUME NEW s \in Sessions, Read(s) PROVE PresentedIsDecided'
    BY <1>2, <2>2 DEF Read, PresentedIsDecided, AllDecided, Decided
  <2>3. CASE RevisionStep
    BY <1>2, <2>3, RevisionStepGates DEF IInv, PresentedIsDecided, AllDecided, Decided
  <2>4. CASE UNCHANGED vars
    BY <1>2, <2>4 DEF vars, PresentedIsDecided, AllDecided, Decided
  <2> QED BY <1>2, <2>1, <2>2, <2>3, <2>4, StepKinds
<1> QED BY <1>1, <1>2, Invariant, PTL DEF Spec

\* A review once recorded is the one that stands, and what was adjudicated of it,
\* or all of it once the plan is sealed, is not touched again.
Stands(v, w) ==
    /\ w # None /\ w.of = v.of
    /\ \A f \in v.findings : Decided(f) => \E g \in w.findings : g.id = f.id /\ g.text = f.text
    /\ (\E f \in v.findings : Decided(f)) => Ids(w) = Ids(v)
    /\ record.seal # None => w = v

LEMMA SameReviewStands ==
    ASSUME record.review # None, record'.review = record.review
    PROVE  Stands(record.review, record'.review)
BY DEF Stands

LEMMA AmendedReviewStands ==
    ASSUME IInv, NEW s \in Sessions, NEW f \in Findings, NEW text \in 0..1, AmendReview(s, f, text)
    PROVE  Stands(record.review, record'.review)
<1>1. ~ReviewFrozen(record) /\ record'.review # None /\ record'.review.of = record.review.of
  BY AmendReviewFindings, FindingsBecomeJudged DEF IInv
<1> QED BY <1>1 DEF ReviewFrozen, Stands

LEMMA AmendedFindingStands ==
    ASSUME IInv, NEW s \in Sessions, NEW id \in Findings, AmendFinding(s, id)
    PROVE  Stands(record.review, record'.review)
<1> DEFINE c(f) == IF f.id = id THEN [f EXCEPT !.text = 1 - @] ELSE f
           v == record.review
           w == record'.review
<1>1. /\ ~FindingFrozen(record, id) /\ w # None /\ v # None
      /\ w.of = v.of /\ w.findings = {c(f) : f \in v.findings}
  BY AmendFindingFindings, FindingsBecomeJudged DEF IInv
<1>2. v.findings \subseteq Finding
  BY <1>1, ReviewType DEF IInv, TypeOK
<1>3. \A f \in v.findings : c(f).id = f.id
  BY <1>2 DEF Finding
<1>4. Ids(w) = Ids(v)
  <2>1. \A g \in w.findings : \E f \in v.findings : g.id = f.id
    BY <1>1, <1>3
  <2>2. \A f \in v.findings : \E g \in w.findings : g.id = f.id
    BY <1>1, <1>3
  <2> HIDE DEF v, w
  <2> QED BY <2>1, <2>2 DEF Ids
<1>5. \A f \in v.findings : Decided(f) => c(f) = f
  BY <1>1 DEF FindingFrozen
<1>6. \A f \in v.findings : Decided(f) => f \in w.findings
  BY <1>1, <1>5
<1>7. record.seal = None
  BY <1>1 DEF FindingFrozen
<1> QED BY <1>1, <1>4, <1>6, <1>7 DEF Stands

LEMMA DisposedReviewStands ==
    ASSUME IInv, NEW s \in Sessions, NEW id \in Findings, NEW d \in Decisions, DisposeFinding(s, id, d)
    PROVE  Stands(record.review, record'.review)
<1> DEFINE c(f) == IF f.id = id THEN [f EXCEPT !.disposition = d] ELSE f
           v == record.review
           w == record'.review
<1>1. /\ record.seal = None /\ w # None /\ v # None
      /\ w.of = v.of /\ w.findings = {c(f) : f \in v.findings}
  BY DisposeFindingFindings, FindingsBecomeJudged DEF IInv
<1>2. v.findings \subseteq Finding
  BY <1>1, ReviewType DEF IInv, TypeOK
<1>3. \A f \in v.findings : c(f).id = f.id /\ c(f).text = f.text
  BY <1>2 DEF Finding
<1>4. Ids(w) = Ids(v)
  <2>1. \A g \in w.findings : \E f \in v.findings : g.id = f.id
    BY <1>1, <1>3
  <2>2. \A f \in v.findings : \E g \in w.findings : g.id = f.id
    BY <1>1, <1>3
  <2> HIDE DEF v, w
  <2> QED BY <2>1, <2>2 DEF Ids
<1>5. \A f \in v.findings : \E g \in w.findings : g.id = f.id /\ g.text = f.text
  BY <1>1, <1>3
<1> QED BY <1>1, <1>4, <1>5 DEF Stands

\* No session's amendment, disposition or second review spoils another's judgment.
THEOREM JudgmentsAreFinal == Spec => JudgmentsStand
<1>1. ASSUME IInv, record.review # None, [Next]_vars PROVE Stands(record.review, record'.review)
  <2>1. ASSUME NEW s \in Sessions, Gate(s) PROVE Stands(record.review, record'.review)
    <3>1. TypeOK
      BY <1>1 DEF IInv
    <3>2. CASE \E d \in Depths : Approve(s, d)
      BY <1>1, <3>1, <3>2, ApproveJudged, SameReviewStands
    <3>3. CASE \E F \in SUBSET Findings : RecordReview(s, F)
      BY <1>1, <3>1, <3>3, RecordReviewJudged
    <3>4. CASE \E f \in Findings, text \in 0..1 : AmendReview(s, f, text)
      BY <1>1, <3>4, AmendedReviewStands
    <3>5. CASE \E f \in Findings : AmendFinding(s, f)
      BY <1>1, <3>5, AmendedFindingStands
    <3>6. CASE \E f \in Findings, d \in Decisions : DisposeFinding(s, f, d)
      BY <1>1, <3>6, DisposedReviewStands
    <3>7. CASE PresentFindings(s)
      BY <1>1, <3>1, <3>7, PresentJudged, SameReviewStands
    <3>8. CASE Seal(s)
      BY <1>1, <3>8, SealJudged, SameReviewStands
    <3>9. CASE Close(s) \/ Reopen(s)
      BY <1>1, <3>1, <3>9, ClosedJudged, SameReviewStands
    <3>10. CASE ValidateSeal(s)
      BY <1>1, <3>10, SameReviewStands DEF ValidateSeal
    <3> QED BY <2>1, <3>2, <3>3, <3>4, <3>5, <3>6, <3>7, <3>8, <3>9, <3>10 DEF Gate
  <2>2. ASSUME NEW s \in Sessions, Read(s) PROVE Stands(record.review, record'.review)
    BY <1>1, <2>2, SameReviewStands DEF Read
  <2>3. CASE RevisionStep
    BY <1>1, <2>3, RevisionStepGates, SameReviewStands DEF IInv
  <2>4. CASE UNCHANGED vars
    BY <1>1, <2>4, SameReviewStands DEF vars
  <2> QED BY <1>1, <2>1, <2>2, <2>3, <2>4, StepKinds
<1>2. ASSUME IInv, [Next]_vars
      PROVE  [record.review # None => Stands(record.review, record'.review)]_vars
  BY <1>1, <1>2
<1> QED BY <1>2, Invariant, PTL DEF Spec, JudgmentsStand, Stands
=============================================================================
