------------------------- MODULE IssueRecovery_proofs -------------------------
(***************************************************************************)
(* Proofs about IssueRecovery, for any number of sources, sessions and     *)
(* submissions: no submission is ever POSTed twice.                        *)
(***************************************************************************)
EXTENDS IssueRecovery, TLAPS

\* A submission is a source and a generation; its successor, if the bound allows
\* one, is the next generation of the same source.
LEMMA SuccessorIsNext ==
    ASSUME NEW i \in Submissions, i[2] < MaxGen
    PROVE  /\ Successor(i) \in Submissions
           /\ Successor(i)[1] = i[1] /\ Successor(i)[2] = i[2] + 1
BY MaxGenPositive DEF Successor, Submissions, Gens

\* What a save does to the journal: one record, by an allowed transition.
LEMMA SaveShape ==
    ASSUME NEW s \in Sessions, TypeOK, call[s] # None,
           NEW record \in Record, NEW next \in Call \cup {None},
           Save(s, record, next)
    PROVE  /\ call[s] \in Call /\ call[s].sid \in Submissions
           /\ records' = [records EXCEPT ![call[s].sid] = record]
           /\ unmoved' \subseteq Sessions
           /\ Follows(records[call[s].sid], record)
           /\ call' = [call EXCEPT ![s] = next] \/ call' = [call EXCEPT ![s] = None]
BY DEF Save, Advance, TypeOK, Call

-----------------------------------------------------------------------------
(***************************************************************************)
(* Type correctness.                                                       *)
(***************************************************************************)

\* The initial state is well typed.
LEMMA TypeInit == Init => TypeOK
BY DEF Init, TypeOK, Copies

\* Each step of a call leaves the state well typed.
LEMMA TypeStep ==
    ASSUME TypeOK, NEW s \in Sessions, Step(s)
    PROVE  TypeOK'
<1> USE DEF TypeOK
<1>0. /\ call[s] # None => call[s] \in Call
      /\ unmoved \subseteq Sessions
  OBVIOUS
<1>1. CASE Recheck(s)
  <2>1. PICK closed \in SeenClosed(call[s].sid) :
          IF closed
          THEN call[s].sid[2] < MaxGen
               /\ GoTo(s, [call[s] EXCEPT !.at = "prepare", !.sid = Successor(call[s].sid)])
          ELSE GoTo(s, [call[s] EXCEPT !.at = "verify"])
    BY <1>1 DEF Recheck
  <2>2. call[s] \in Call /\ call[s].sid \in Submissions
    BY <1>0, <1>1 DEF Recheck, At, Call
  <2>3. call' \in [Sessions -> Call \cup {None}]
    <3>1. CASE closed
      <4>1. Successor(call[s].sid) \in Submissions
        BY <2>1, <2>2, <3>1, SuccessorIsNext
      <4>2. [call[s] EXCEPT !.at = "prepare", !.sid = Successor(call[s].sid)] \in Call
        BY <2>2, <4>1 DEF Call
      <4> QED BY <2>1, <3>1, <4>2 DEF GoTo
    <3>2. CASE ~closed
      BY <2>1, <2>2, <3>2 DEF GoTo, Call
    <3> QED BY <3>1, <3>2
  <2> QED BY <1>1, <2>1, <2>3 DEF Recheck, GoTo, outside
<1>2. CASE Prepare(s)
  <2>1. [state |-> "prepared", closed |-> None] \in Record
    BY DEF Record
  <2>2. [call[s] EXCEPT !.at = "match"] \in Call
    BY <1>0, <1>2 DEF Prepare, At, Call
  <2> QED BY <1>2, <2>1, <2>2, SaveShape DEF Prepare, At, outside
<1>3. CASE Match(s)
  BY <1>0, <1>3 DEF Match, At, GoTo, Call, outside
<1>4. CASE Claim(s)
  <2>1. call[s] # None /\ call[s] \in Call /\ call[s].sid \in Submissions
    BY <1>0, <1>4 DEF Claim, At, Call
  <2>2. records[call[s].sid] # None
    BY <1>4, NoneIsNothing DEF Claim, Save, Advance, Follows, Record
  <2>3. [records[call[s].sid] EXCEPT !.state = "send-claimed"] \in Record
    BY <2>1, <2>2 DEF Record, Held
  <2>4. [call[s] EXCEPT !.at = "send"] \in Call
    BY <1>0, <2>1 DEF Call
  <2> QED BY <1>4, <2>1, <2>3, <2>4, SaveShape DEF Claim, outside
<1>5. CASE Forgo(s)
  BY <1>0, <1>5 DEF Forgo, At, GoTo, Call, outside
<1>6. CASE Post(s)
  BY <1>0, <1>6 DEF Post, At, GoTo, Call
<1>7. CASE Answered(s)
  BY <1>0, <1>7 DEF Answered, At, GoTo, Call
<1>8. CASE Verify(s)
  <2>1. PICK closed \in SeenClosed(call[s].sid) :
          GoTo(s, [call[s] EXCEPT !.at = "confirm", !.obs = IF closed THEN @ ELSE None])
    BY <1>8 DEF Verify
  <2>2. closed \in BOOLEAN
    BY DEF SeenClosed
  <2> QED BY <1>0, <1>8, <2>1, <2>2 DEF Verify, At, GoTo, Call, outside
<1>9. CASE NotFound(s)
  BY <1>9 DEF NotFound, Leave, GoTo, outside
<1>10. CASE Confirm(s)
  <2>1. call[s] # None /\ call[s] \in Call /\ call[s].sid \in Submissions
    BY <1>0, <1>10 DEF Confirm, At, Call
  <2> DEFINE r == records[call[s].sid]
  <2>2. CASE Confirmed(r, call[s]) = r \/ ~Follows(r, Confirmed(r, call[s]))
    BY <1>10, <2>2 DEF Confirm, Leave, GoTo, outside
  <2>3. CASE ~(Confirmed(r, call[s]) = r \/ ~Follows(r, Confirmed(r, call[s])))
    <3>1. r # None
      BY <2>3, NoneIsNothing DEF Follows, Confirmed
    <3>2. Confirmed(r, call[s]) \in Record
      BY <2>1, <3>1 DEF Confirmed, Record, Call, Terminal
    <3>3. Save(s, Confirmed(r, call[s]), None)
      BY <1>10, <2>3 DEF Confirm
    <3> QED BY <1>10, <2>1, <3>2, <3>3, SaveShape DEF Confirm, outside
  <2> QED BY <2>2, <2>3
<1>11. CASE Hold(s)
  <2>1. call[s] # None /\ call[s] \in Call /\ call[s].sid \in Submissions
    BY <1>0, <1>11 DEF Hold, Call
  <2>2. [records[call[s].sid] EXCEPT !.state = Outcome(call[s])] \in Record
    <3>1. records[call[s].sid] # None
      BY <1>11 DEF Hold, Save, Advance, Follows, Outcome
    <3> QED BY <2>1, <3>1 DEF Record, Held, Outcome
  <2> QED BY <1>11, <2>1, <2>2, SaveShape DEF Hold, outside
<1>12. CASE Conflict(s)
  BY <1>12 DEF Conflict, Leave, GoTo, outside
<1> QED
  BY <1>1, <1>2, <1>3, <1>4, <1>5, <1>6, <1>7, <1>8, <1>9, <1>10, <1>11, <1>12 DEF Step

\* Entering a call loads the commit the journal is at.
LEMMA EnterShape ==
    ASSUME TypeOK, NEW s \in Sessions, Begin(s)
    PROVE  /\ UNCHANGED <<records, outside>> /\ unmoved' = unmoved \cup {s}
           /\ \E at \in {"prepare", "match", "recheck", "verify"}, i \in Submissions,
                 o \in Observations \cup {None} :
                /\ call' = [call EXCEPT ![s] = [at |-> at, sid |-> i, obs |-> o]]
                /\ at # "prepare" => records[i] # None
                /\ at = "recheck" => Over(i)
                /\ at = "prepare" =>
                     \/ i[2] = 1
                     \/ \E j \in Submissions : j[2] < MaxGen /\ Over(j) /\ i = Successor(j)
<1>1. CASE \E k \in Keys : \E o \in Sources(k) : Submit(s, k, o)
  <2>0. PICK k \in Keys : \E o \in Sources(k) : Submit(s, k, o)
    BY <1>1
  <2>1. PICK o \in Sources(k) : Submit(s, k, o)
    BY <2>0
  <2>2. o \in Observations \cup {None}
    BY <2>1 DEF Sources
  <2>3. CASE Enter(s, "prepare", <<k, 1>>, o)
    <3>1. <<k, 1>> \in Submissions /\ <<k, 1>>[2] = 1
      BY MaxGenPositive DEF Submissions, Gens
    <3> QED BY <2>2, <2>3, <3>1 DEF Enter, GoTo
  <2>4. ASSUME NEW g \in Gens, Latest(<<k, g>>),
               IF Resume(<<k, g>>, o) = "prepare"
               THEN g < MaxGen /\ Enter(s, "prepare", Successor(<<k, g>>), o)
               ELSE Enter(s, Resume(<<k, g>>, o), <<k, g>>, o)
        PROVE  /\ UNCHANGED <<records, outside>> /\ unmoved' = unmoved \cup {s}
               /\ \E at \in {"prepare", "match", "recheck", "verify"}, i \in Submissions,
                     o1 \in Observations \cup {None} :
                    /\ call' = [call EXCEPT ![s] = [at |-> at, sid |-> i, obs |-> o1]]
                    /\ at # "prepare" => records[i] # None
                    /\ at = "recheck" => Over(i)
                    /\ at = "prepare" =>
                         \/ i[2] = 1
                         \/ \E j \in Submissions : j[2] < MaxGen /\ Over(j) /\ i = Successor(j)
    <3> DEFINE i == <<k, g>>
    <3>1. i \in Submissions /\ i[2] = g /\ records[i] # None
      BY <2>4 DEF Submissions, Latest
    <3>2. CASE Resume(i, o) = "prepare"
      <4>1. g < MaxGen /\ Enter(s, "prepare", Successor(i), o)
        BY <2>4, <3>2
      <4>2. Over(i)
        BY <3>1, <3>2 DEF Resume, Over
      <4>3. Successor(i) \in Submissions
        BY <3>1, <4>1, SuccessorIsNext
      <4> QED BY <2>2, <3>1, <4>1, <4>2, <4>3 DEF Enter, GoTo
    <3>3. CASE Resume(i, o) # "prepare"
      <4>1. Enter(s, Resume(i, o), i, o)
        BY <2>4, <3>3
      <4>2. Resume(i, o) \in {"match", "recheck", "verify"}
        BY <3>3 DEF Resume
      <4>3. Resume(i, o) = "recheck" => Over(i)
        BY <3>1 DEF Resume, Over, MayRecur
      <4> QED BY <2>2, <3>1, <3>3, <4>1, <4>2, <4>3 DEF Enter, GoTo
    <3> QED BY <3>2, <3>3
  <2> QED BY <2>1, <2>3, <2>4 DEF Submit
<1>2. CASE \E i \in Submissions : \E o \in Sources(i[1]) \cup {None} : Recover(s, i, o)
  <2>0. PICK i \in Submissions : \E o \in Sources(i[1]) \cup {None} : Recover(s, i, o)
    BY <1>2
  <2>1. PICK o \in Sources(i[1]) \cup {None} : Recover(s, i, o)
    BY <2>0
  <2>2. o \in Observations \cup {None}
    BY <2>1 DEF Sources
  <2> QED BY <2>1, <2>2 DEF Recover, Enter, GoTo
<1> QED BY <1>1, <1>2 DEF Begin

\* Every step leaves the state well typed.
LEMMA TypeNext == ASSUME TypeOK, [Next]_vars PROVE TypeOK'
<1>1. ASSUME NEW s \in Sessions, Begin(s) PROVE TypeOK'
  <2>1. PICK at \in {"prepare", "match", "recheck", "verify"}, i \in Submissions,
             o \in Observations \cup {None} :
          call' = [call EXCEPT ![s] = [at |-> at, sid |-> i, obs |-> o]]
    BY <1>1, EnterShape
  <2>2. UNCHANGED <<records, outside>>
    BY <1>1, EnterShape
  <2>3. unmoved' \subseteq Sessions
    BY <1>1, EnterShape DEF TypeOK
  <2>4. [at |-> at, sid |-> i, obs |-> o] \in Call
    BY DEF Call
  <2> QED BY <2>1, <2>2, <2>3, <2>4 DEF TypeOK, outside
<1>2. ASSUME NEW s \in Sessions, Interrupted(s) PROVE TypeOK'
  BY <1>2 DEF Interrupted, Leave, GoTo, TypeOK, outside
<1>3. ASSUME NEW i \in Submissions, Supersede(i) PROVE TypeOK'
  <2>1. records[i] \in Record 
    BY <1>3 DEF Supersede, TypeOK
  <2>2. [records[i] EXCEPT !.state = "superseded"] \in Record
    BY <2>1 DEF Record, Terminal
  <2> QED BY <1>3, <2>1, <2>2 DEF Supersede, TypeOK, outside
<1>4. ASSUME NEW i \in Submissions, Land(i) PROVE TypeOK'
  BY <1>4 DEF Land, TypeOK, Copies
<1>5. ASSUME NEW i \in Submissions, CloseOrReopen(i) PROVE TypeOK'
  BY <1>5 DEF CloseOrReopen, TypeOK, Copies
<1>6. CASE UNCHANGED vars
  BY <1>6 DEF vars, outside, TypeOK
<1> QED
  BY <1>1, <1>2, <1>3, <1>4, <1>5, <1>6, TypeStep DEF Next, World

\* The journal, GitHub, the calls and the count of POSTs stay well typed.
THEOREM TypeCorrect == Spec => []TypeOK
<1>1. Init => TypeOK
  BY TypeInit
<1>2. TypeOK /\ [Next]_vars => TypeOK'
  BY TypeNext
<1> QED
  BY <1>1, <1>2, PTL DEF Spec

-----------------------------------------------------------------------------
(***************************************************************************)
(* The journal only moves forward.                                         *)
(***************************************************************************)

KeepsClosure(old, new) == old # None /\ old.closed # None => new.closed = old.closed

\* Every write of the journal is one record's allowed transition, and a record
\* that was not there comes from a Prepare.
LEMMA JournalShape ==
    ASSUME TypeOK, [Next]_vars
    PROVE  \/ records' = records
           \/ \E i \in Submissions, r \in Record :
                /\ records' = [records EXCEPT ![i] = r]
                /\ Follows(records[i], r) /\ KeepsClosure(records[i], r)
                /\ \/ records[i] # None
                   \/ \E s \in Sessions : Prepare(s) /\ call[s].sid = i
<1> DEFINE Shape ==
             \/ records' = records
             \/ \E i \in Submissions, r \in Record :
                  /\ records' = [records EXCEPT ![i] = r]
                  /\ Follows(records[i], r) /\ KeepsClosure(records[i], r)
                  /\ \/ records[i] # None
                     \/ \E s \in Sessions : Prepare(s) /\ call[s].sid = i
<1>1. ASSUME NEW s \in Sessions, Prepare(s) PROVE Shape
  <2>1. call[s] \in Call /\ call[s].sid \in Submissions
    BY <1>1 DEF Prepare, At, TypeOK, Call
  <2>2. [state |-> "prepared", closed |-> None] \in Record
    BY DEF Record
  <2>3. records[call[s].sid] = None
    BY <1>1, <2>1 DEF Prepare, Save, Advance, Follows, Allowed, TypeOK, Record, Held, Terminal
  <2> QED BY <1>1, <2>1, <2>2, <2>3 DEF Prepare, Save, Advance, KeepsClosure
<1>2. ASSUME NEW s \in Sessions, Claim(s) PROVE Shape
  <2>1. call[s] \in Call /\ call[s].sid \in Submissions
    BY <1>2 DEF Claim, At, TypeOK, Call
  <2>2. records[call[s].sid] # None
    BY <1>2 DEF Claim, Save, Advance, Follows
  <2>3. [records[call[s].sid] EXCEPT !.state = "send-claimed"] \in Record
    BY <2>1, <2>2 DEF TypeOK, Record, Held
  <2>4. KeepsClosure(records[call[s].sid], [records[call[s].sid] EXCEPT !.state = "send-claimed"])
    BY <2>1, <2>2 DEF TypeOK, Record, KeepsClosure
  <2> QED BY <1>2, <2>1, <2>2, <2>3, <2>4 DEF Claim, Save, Advance
<1>3. ASSUME NEW s \in Sessions, Confirm(s) PROVE Shape
  <2> DEFINE r == Confirmed(records[call[s].sid], call[s])
  <2>1. call[s] \in Call /\ call[s].sid \in Submissions
    BY <1>3 DEF Confirm, At, TypeOK, Call
  <2>2. CASE UNCHANGED records
    BY <2>2
  <2>3. CASE Save(s, r, None) /\ Follows(records[call[s].sid], r)
    <3>1. records[call[s].sid] # None
      BY <2>3 DEF Follows, Confirmed
    <3>2. r \in Record
      BY <2>1, <3>1 DEF TypeOK, Confirmed, Record, Call, Terminal
    <3>3. KeepsClosure(records[call[s].sid], r)
      BY DEF KeepsClosure, Confirmed
    <3> QED BY <2>1, <2>3, <3>1, <3>2, <3>3 DEF Save, Advance
  <2> QED BY <1>3, <2>2, <2>3 DEF Confirm
<1>4. ASSUME NEW s \in Sessions, Hold(s) PROVE Shape
  <2>1. call[s] \in Call /\ call[s].sid \in Submissions
    BY <1>4 DEF Hold, TypeOK, Call
  <2>2. records[call[s].sid] # None
    BY <1>4 DEF Hold, Save, Advance, Follows, Outcome
  <2>3. [records[call[s].sid] EXCEPT !.state = Outcome(call[s])] \in Record
    BY <2>1, <2>2 DEF TypeOK, Record, Held, Outcome
  <2>4. KeepsClosure(records[call[s].sid], [records[call[s].sid] EXCEPT !.state = Outcome(call[s])])
    BY <2>1, <2>2 DEF TypeOK, Record, KeepsClosure
  <2> QED BY <1>4, <2>1, <2>2, <2>3, <2>4 DEF Hold, Save, Advance
<1>5. ASSUME NEW i \in Submissions, Supersede(i) PROVE Shape
  <2>1. records[i] \in Record
    BY <1>5 DEF Supersede, TypeOK
  <2>2. [records[i] EXCEPT !.state = "superseded"] \in Record
    BY <2>1 DEF Record, Terminal
  <2>3. Follows(records[i], [records[i] EXCEPT !.state = "superseded"])
    BY <1>5, <2>1 DEF Supersede, Follows, Allowed, Record, Held, Terminal
  <2>4. KeepsClosure(records[i], [records[i] EXCEPT !.state = "superseded"])
    BY <2>1 DEF Record, KeepsClosure
  <2> QED BY <1>5, <2>1, <2>2, <2>3, <2>4 DEF Supersede
<1>6. ASSUME NEW s \in Sessions, Step(s) PROVE Shape
  BY <1>1, <1>2, <1>3, <1>4, <1>6
     DEF Step, Recheck, Match, Forgo, Post, Answered, Verify, NotFound, Conflict
<1>7. ASSUME NEW s \in Sessions, Begin(s) \/ Interrupted(s) PROVE Shape
  BY <1>7, EnterShape DEF Interrupted
<1>8. ASSUME NEW i \in Submissions, Land(i) \/ CloseOrReopen(i) PROVE Shape
  BY <1>8 DEF Land, CloseOrReopen
<1>9. CASE UNCHANGED vars
  BY <1>9 DEF vars
<1> QED
  BY <1>5, <1>6, <1>7, <1>8, <1>9 DEF Next, World

\* What a record's state licenses or forbids is never taken back.
LEMMA StepForward ==
    ASSUME TypeOK, [Next]_vars, NEW i \in Submissions, records[i] # None
    PROVE  /\ records'[i] # None
           /\ records[i].state # "prepared" => records'[i].state # "prepared"
           /\ records[i].state \in Terminal => records'[i].state = records[i].state
           /\ records[i].closed # None => records'[i].closed = records[i].closed
<1>1. CASE records' = records
  BY <1>1
<1>2. ASSUME NEW j \in Submissions, NEW r \in Record,
             records' = [records EXCEPT ![j] = r], Follows(records[j], r), KeepsClosure(records[j], r)
      PROVE  /\ records'[i] # None
             /\ records[i].state # "prepared" => records'[i].state # "prepared"
             /\ records[i].state \in Terminal => records'[i].state = records[i].state
             /\ records[i].closed # None => records'[i].closed = records[i].closed
  <2>1. CASE j # i
    BY <1>2, <2>1 DEF TypeOK
  <2>2. CASE j = i
    <3>1. records'[i] = r /\ r # None /\ records[i] \in Record
      BY <1>2, <2>2, NoneIsNothing DEF TypeOK
    <3>2. records[i].state # "prepared" => r.state # "prepared"
      BY <1>2, <2>2, <3>1 DEF Follows, Allowed, Record, Held, Terminal
    <3>3. records[i].state \in Terminal => r.state = records[i].state
      BY <1>2, <2>2, <3>1 DEF Follows, Allowed, Record, Held, Terminal
    <3> QED BY <1>2, <2>2, <3>1, <3>2, <3>3 DEF KeepsClosure
  <2> QED BY <2>1, <2>2
<1> QED
  BY <1>1, <1>2, JournalShape

\* The journal never takes back what licenses or forbids a send.
THEOREM JournalForward == Spec => JournalMovesForward
<1>1. TypeOK /\ [Next]_vars =>
        [\A i \in Submissions : records[i] # None =>
            /\ records'[i] # None
            /\ records[i].state # "prepared" => records'[i].state # "prepared"
            /\ records[i].state \in Terminal => records'[i].state = records[i].state
            /\ records[i].closed # None => records'[i].closed = records[i].closed]_records
  BY StepForward
<1> QED
  BY <1>1, TypeCorrect, PTL DEF Spec, JournalMovesForward

-----------------------------------------------------------------------------
(***************************************************************************)
(* What an old reading may still be trusted for.                               *)
(***************************************************************************)

\* A settled submission stays settled, and so does a consumed claim.
LEMMA OverStays ==
    ASSUME TypeOK, [Next]_vars
    PROVE  /\ \A i \in Submissions : Over(i) => Over(i)'
           /\ \A i \in Submissions : Consumed(i) => Consumed(i)'
           /\ \A j \in Submissions : EarlierOver(j) => EarlierOver(j)'
<1>1. ASSUME NEW i \in Submissions, Over(i) PROVE Over(i)'
  <2>1. records[i] # None /\ records[i].state \in Terminal
    BY <1>1 DEF Over, Terminal
  <2>2. records'[i] # None /\ records'[i].state = records[i].state
        /\ (records[i].closed # None => records'[i].closed = records[i].closed)
    BY <2>1, StepForward
  <2> QED BY <1>1, <2>2 DEF Over
<1>2. ASSUME NEW i \in Submissions, Consumed(i) PROVE Consumed(i)'
  <2>1. records'[i] # None /\ records'[i].state # "prepared"
    BY <1>2, StepForward DEF Consumed
  <2> QED BY <2>1 DEF Consumed
<1>3. ASSUME NEW j \in Submissions, EarlierOver(j) PROVE EarlierOver(j)'
  <2>1. SUFFICES ASSUME NEW i \in Submissions, i[1] = j[1], i[2] < j[2] PROVE Over(i)'
    BY DEF EarlierOver
  <2> QED BY <1>1, <1>3, <2>1 DEF EarlierOver
<1> QED BY <1>1, <1>2, <1>3

\* Once the newest submission of a source is settled, so is everything earlier
\* than the next.
LEMMA SettledBelowNext ==
    ASSUME Succession, NEW i \in Submissions, Over(i), i[2] < MaxGen
    PROVE  EarlierOver(Successor(i))
<1>1. /\ Successor(i)[1] = i[1] /\ Successor(i)[2] = i[2] + 1
  BY SuccessorIsNext
<1>2. SUFFICES ASSUME NEW j \in Submissions, j[1] = i[1], j[2] < i[2] + 1 PROVE Over(j)
  BY <1>1 DEF EarlierOver
<1>3. EarlierOver(i)
  BY DEF Succession, Over
<1>4. CASE j[2] < i[2]
  BY <1>2, <1>3, <1>4 DEF EarlierOver
<1>5. CASE j[2] = i[2]
  <2>1. i = <<i[1], i[2]>> /\ j = <<j[1], j[2]>>
    BY DEF Submissions
  <2> QED BY <1>2, <1>5, <2>1
<1>6. j[2] \in Int /\ i[2] \in Int
  BY DEF Submissions, Gens
<1> QED BY <1>2, <1>4, <1>5, <1>6

\* A first submission has nothing before it.
LEMMA NothingBeforeFirst ==
    ASSUME NEW i \in Submissions, i[2] = 1
    PROVE  EarlierOver(i)
BY DEF EarlierOver, Submissions, Gens

-----------------------------------------------------------------------------
(***************************************************************************)
(* Only the process whose claim was acknowledged may send.                 *)
(***************************************************************************)

\* The steps that neither claim nor send: a call proceeds with a submission it
\* already had, or with the successor of a settled one.
LEMMA OtherStep ==
    ASSUME IInv, NEW s \in Sessions, Step(s), ~Claim(s), ~Post(s), call'[s] # None
    PROVE  /\ call[s] # None /\ call[s].sid \in Submissions
           /\ call'[s].at # "send" /\ call'[s].at # "sent" /\ call'[s].at # "recheck"
           /\ posted' = posted
           /\ \/ /\ call'[s].sid = call[s].sid /\ call'[s].at # "prepare"
                 /\ call[s].at # "prepare" \/ records'[call[s].sid] # None
                 /\ call'[s].at \in {"uncertain", "rejected"} => call[s].at \in {"send", "sent"}
              \/ /\ call[s].at = "recheck" /\ call'[s].at = "prepare"
                 /\ call[s].sid[2] < MaxGen /\ call'[s].sid = Successor(call[s].sid)
<1>0. call \in [Sessions -> Call \cup {None}]
  BY DEF IInv, TypeOK
<1>1. CASE Recheck(s)
  <2>1. PICK closed \in SeenClosed(call[s].sid) :
          IF closed
          THEN call[s].sid[2] < MaxGen
               /\ GoTo(s, [call[s] EXCEPT !.at = "prepare", !.sid = Successor(call[s].sid)])
          ELSE GoTo(s, [call[s] EXCEPT !.at = "verify"])
    BY <1>1 DEF Recheck
  <2>2. call[s] \in Call /\ call[s].at = "recheck" /\ call[s].sid \in Submissions
    BY <1>0, <1>1 DEF Recheck, At, Call
  <2>3. posted' = posted
    BY <1>1 DEF Recheck, outside
  <2>4. CASE closed
    <3>1. /\ call'[s] = [call[s] EXCEPT !.at = "prepare", !.sid = Successor(call[s].sid)]
          /\ call[s].sid[2] < MaxGen
      BY <1>0, <2>1, <2>4 DEF GoTo
    <3>2. call'[s].at = "prepare" /\ call'[s].sid = Successor(call[s].sid)
      BY <2>2, <3>1 DEF Call
    <3>3. call[s] # None
      BY <1>1 DEF Recheck, At
    <3> QED BY <2>2, <2>3, <3>1, <3>2, <3>3
  <2>5. CASE ~closed
    BY <1>0, <1>1, <2>1, <2>2, <2>3, <2>5 DEF Recheck, At, GoTo, Call
  <2> QED BY <2>4, <2>5
<1>2. CASE Prepare(s)
  <2>1. call[s] # None /\ call[s] \in Call /\ call[s].sid \in Submissions /\ posted' = posted
    BY <1>0, <1>2 DEF Prepare, At, Call, outside
  <2>2. call'[s] = [call[s] EXCEPT !.at = "match"]
    BY <1>0, <1>2 DEF Prepare, Save, Advance
  <2>3. records'[call[s].sid] = [state |-> "prepared", closed |-> None]
    BY <1>2, <2>1 DEF Prepare, Save, Advance, IInv, TypeOK
  <2>4. [state |-> "prepared", closed |-> None] # None
    BY NoneIsNothing DEF Record
  <2> QED BY <2>1, <2>2, <2>3, <2>4 DEF Call
<1>3. CASE Match(s)
  BY <1>0, <1>3 DEF Match, At, GoTo, Call, outside
<1>5. CASE Forgo(s)
  BY <1>0, <1>5 DEF Forgo, At, GoTo, Call, outside
<1>7. CASE Answered(s)
  BY <1>0, <1>7 DEF Answered, At, GoTo, Call
<1>8. CASE Verify(s)
  <2>1. PICK closed \in SeenClosed(call[s].sid) :
          GoTo(s, [call[s] EXCEPT !.at = "confirm", !.obs = IF closed THEN @ ELSE None])
    BY <1>8 DEF Verify
  <2> QED BY <1>0, <1>8, <2>1 DEF Verify, At, GoTo, Call, outside
<1>9. CASE NotFound(s) \/ Conflict(s) \/ Confirm(s) \/ Hold(s)
  BY <1>0, <1>9 DEF NotFound, Conflict, Confirm, Hold, Save, Advance, Leave, GoTo
<1> QED
  BY <1>1, <1>2, <1>3, <1>5, <1>7, <1>8, <1>9 DEF Step

\* A call relies only on what holds whatever the other calls do.
LEMMA CallsStay ==
    ASSUME IInv, [Next]_vars,
           NEW s \in Sessions, call[s] # None, call'[s] = call[s], posted'[call[s].sid] = posted[call[s].sid]
    PROVE  CallOK(call[s])'
<1>1. CallOK(call[s]) /\ call[s] \in Call /\ call[s].sid \in Submissions
  BY DEF IInv, CallsOK, TypeOK, Call
<1>2. /\ \A i \in Submissions : Over(i) => Over(i)'
      /\ \A i \in Submissions : Consumed(i) => Consumed(i)'
      /\ \A j \in Submissions : EarlierOver(j) => EarlierOver(j)'
  BY OverStays DEF IInv
<1>3. records[call[s].sid] # None => records'[call[s].sid] # None
  BY <1>1, StepForward DEF IInv
<1>4. CallOK(call[s])' <=>
        /\ call[s].at = "prepare" => EarlierOver(call[s].sid)'
        /\ call[s].at # "prepare" => records'[call[s].sid] # None
        /\ call[s].at = "recheck" => Over(call[s].sid)'
        /\ call[s].at \in {"send", "sent", "uncertain", "rejected"} => Consumed(call[s].sid)'
        /\ call[s].at = "send" => posted'[call[s].sid] = 0
  BY DEF CallOK, EarlierOver, Over, Consumed
<1> QED
  BY <1>1, <1>2, <1>3, <1>4 DEF CallOK

\* A call that moves moves to a step it may take.
LEMMA MoverOK ==
    ASSUME IInv, [Next]_vars, NEW s \in Sessions, Step(s) \/ Begin(s), call'[s] # None
    PROVE  CallOK(call[s])'
<1>0. call \in [Sessions -> Call \cup {None}] /\ records \in [Submissions -> Record \cup {None}]
  BY DEF IInv, TypeOK
<1>1. PICK c \in Call : c = call'[s]
  BY TypeNext DEF IInv, TypeOK
<1>2. SUFFICES /\ c.at = "prepare" => EarlierOver(c.sid)'
               /\ c.at # "prepare" => records'[c.sid] # None
               /\ c.at = "recheck" => Over(c.sid)'
               /\ c.at \in {"send", "sent", "uncertain", "rejected"} => Consumed(c.sid)'
               /\ c.at = "send" => posted'[c.sid] = 0
  BY <1>1 DEF CallOK, EarlierOver, Over, Consumed
<1>3. /\ \A i \in Submissions : Over(i) => Over(i)'
      /\ \A i \in Submissions : Consumed(i) => Consumed(i)'
      /\ \A j \in Submissions : EarlierOver(j) => EarlierOver(j)'
  BY OverStays DEF IInv
<1>4. \A i \in Submissions : records[i] # None => records'[i] # None
  BY StepForward DEF IInv
<1>5. call[s] # None => call[s] \in Call /\ call[s].sid \in Submissions /\ CallOK(call[s])
  BY <1>0 DEF IInv, CallsOK, Call
<1>6. CASE Begin(s)
  <2>1. PICK at \in {"prepare", "match", "recheck", "verify"}, i \in Submissions,
             o \in Observations \cup {None} :
          /\ call' = [call EXCEPT ![s] = [at |-> at, sid |-> i, obs |-> o]]
          /\ at # "prepare" => records[i] # None
          /\ at = "recheck" => Over(i)
          /\ at = "prepare" =>
               \/ i[2] = 1
               \/ \E j \in Submissions : j[2] < MaxGen /\ Over(j) /\ i = Successor(j)
    BY <1>6, EnterShape DEF IInv
  <2>2. c.at = at /\ c.sid = i
    BY <1>0, <1>1, <2>1
  <2>3. at = "prepare" => EarlierOver(i)
    BY <2>1, SettledBelowNext, NothingBeforeFirst DEF IInv
  <2> QED BY <1>3, <1>4, <2>1, <2>2, <2>3
<1>7. CASE Claim(s)
  <2>1. call[s] # None /\ call[s].at = "claim"
    BY <1>7 DEF Claim, At
  <2> DEFINE i == call[s].sid
  <2>2. i \in Submissions /\ records[i] \in Record /\ records[i].state = "prepared"
    <3>1. records[i] # None /\ i \in Submissions
      BY <1>5, <2>1 DEF CallOK
    <3>2. records[i] \in Record
      BY <1>0, <3>1
    <3>3. Follows(records[i], [records[i] EXCEPT !.state = "send-claimed"])
      BY <1>7 DEF Claim, Save, Advance
    <3> QED BY <3>1, <3>2, <3>3 DEF Follows, Allowed, Record, Held, Terminal
  <2>3. posted[i] = 0
    <3>1. ~Consumed(i)
      BY <2>2 DEF Consumed
    <3>2. posted[i] \in Nat /\ ~(posted[i] > 0)
      BY <2>2, <3>1 DEF IInv, PostsClaimed, TypeOK
    <3> QED BY <3>2
  <2>4. records'[i] = [records[i] EXCEPT !.state = "send-claimed"] /\ posted' = posted
    BY <1>0, <1>7, <2>2 DEF Claim, Save, Advance, outside
  <2>5. c.at = "send" /\ c.sid = i
    <3>1. c = [call[s] EXCEPT !.at = "send"]
      BY <1>0, <1>1, <1>7 DEF Claim, Save, Advance
    <3> QED BY <1>5, <2>1, <3>1 DEF Call
  <2>6. records'[i].state = "send-claimed"
    BY <2>2, <2>4 DEF Record
  <2>7. records'[i] # None
    BY <1>4, <2>2, NoneIsNothing
  <2> QED BY <2>3, <2>4, <2>5, <2>6, <2>7 DEF Consumed
<1>8. CASE Post(s)
  <2>1. call[s] # None /\ call[s].at = "send"
    BY <1>8 DEF Post, At
  <2>2. c.at = "sent" /\ c.sid = call[s].sid
    BY <1>0, <1>1, <1>5, <1>8, <2>1 DEF Post, GoTo, Call
  <2> QED BY <1>3, <1>4, <1>5, <2>1, <2>2 DEF CallOK
<1>9. CASE Step(s) /\ ~Claim(s) /\ ~Post(s)
  <2>1. /\ call[s] # None /\ call[s].sid \in Submissions
        /\ c.at # "send" /\ c.at # "sent" /\ c.at # "recheck"
        /\ \/ /\ c.sid = call[s].sid /\ c.at # "prepare"
              /\ call[s].at # "prepare" \/ records'[call[s].sid] # None
              /\ c.at \in {"uncertain", "rejected"} => call[s].at \in {"send", "sent"}
           \/ /\ call[s].at = "recheck" /\ c.at = "prepare"
              /\ call[s].sid[2] < MaxGen /\ c.sid = Successor(call[s].sid)
    BY <1>1, <1>9, OtherStep
  <2>2. CASE c.sid = call[s].sid /\ c.at # "prepare"
    BY <1>3, <1>4, <1>5, <2>1, <2>2 DEF CallOK
  <2>3. CASE c.at = "prepare"
    <3>1. Over(call[s].sid)
      BY <1>5, <2>1, <2>3 DEF CallOK
    <3>2. EarlierOver(c.sid)
      BY <2>1, <2>3, <3>1, SettledBelowNext DEF IInv
    <3>3. c.sid \in Submissions
      BY DEF Call
    <3> QED BY <1>3, <2>3, <3>2, <3>3
  <2> QED BY <2>1, <2>2, <2>3
<1> QED
  BY <1>6, <1>7, <1>8, <1>9

\* One call moves at a time, and only a Post counts as one.
LEMMA CallShape ==
    ASSUME IInv, [Next]_vars
    PROVE  /\ \/ /\ call' = call /\ posted' = posted
              \/ \E s \in Sessions :
                    /\ Step(s) \/ Begin(s) \/ Interrupted(s)
                    /\ Interrupted(s) => call'[s] = None
                    /\ \A t \in Sessions : t # s => call'[t] = call[t]
                    /\ \/ posted' = posted
                       \/ /\ Post(s) /\ At(s, "send") /\ call[s].sid \in Submissions
                          /\ posted' = [posted EXCEPT ![call[s].sid] = posted[call[s].sid] + 1]
<1>0. call \in [Sessions -> Call \cup {None}]
  BY DEF IInv, TypeOK
<1>1. ASSUME NEW s \in Sessions, Step(s)
      PROVE  \A t \in Sessions : t # s => call'[t] = call[t]
  BY <1>0, <1>1
     DEF Step, Recheck, Prepare, Match, Claim, Forgo, Post, Answered, Verify, NotFound,
         Confirm, Hold, Conflict, Save, Advance, GoTo, Leave
<1>2. ASSUME NEW s \in Sessions, Post(s)
      PROVE  /\ At(s, "send") /\ call[s].sid \in Submissions
             /\ posted' = [posted EXCEPT ![call[s].sid] = posted[call[s].sid] + 1]
  BY <1>0, <1>2 DEF Post, At, Call
<1>3. ASSUME NEW s \in Sessions, Step(s), ~Post(s)
      PROVE  posted' = posted
  BY <1>3 DEF Step, Recheck, Prepare, Match, Claim, Forgo, Answered, Verify, NotFound,
              Confirm, Hold, Conflict, outside
<1>4. ASSUME NEW s \in Sessions, Begin(s) \/ Interrupted(s)
      PROVE  /\ posted' = posted
             /\ \A t \in Sessions : t # s => call'[t] = call[t]
  BY <1>0, <1>4, EnterShape DEF Interrupted, Leave, GoTo, outside, IInv
<1>5. ASSUME NEW s \in Sessions, Interrupted(s) PROVE call'[s] = None
  BY <1>0, <1>5 DEF Interrupted, Leave, GoTo
<1>6. ASSUME NEW i \in Submissions, World(i) PROVE call' = call /\ posted' = posted
  BY <1>6 DEF World, Supersede, Land, CloseOrReopen, outside
<1>7. CASE UNCHANGED vars
  BY <1>7 DEF vars, outside
<1> QED
  BY <1>1, <1>2, <1>3, <1>4, <1>5, <1>6, <1>7 DEF Next

\* No step takes a call beyond what the journal still grants it.
LEMMA CallsNext == ASSUME IInv, [Next]_vars PROVE CallsOK'
<1>1. SUFFICES ASSUME NEW t \in Sessions, call'[t] # None PROVE CallOK(call[t])'
  BY DEF CallsOK
<1>0. posted \in [Submissions -> Nat] /\ call \in [Sessions -> Call \cup {None}]
  BY DEF IInv, TypeOK
<1>2. CASE call' = call /\ posted' = posted
  BY <1>1, <1>2, CallsStay
<1>3. ASSUME NEW s \in Sessions,
             Step(s) \/ Begin(s) \/ Interrupted(s),
             Interrupted(s) => call'[s] = None,
             \A u \in Sessions : u # s => call'[u] = call[u],
             \/ posted' = posted
             \/ /\ Post(s) /\ At(s, "send") /\ call[s].sid \in Submissions
                /\ posted' = [posted EXCEPT ![call[s].sid] = posted[call[s].sid] + 1]
      PROVE  CallOK(call[t])'
  <2>1. CASE t = s
    BY <1>1, <1>3, <2>1, MoverOK
  <2>2. CASE t # s /\ posted'[call[t].sid] = posted[call[t].sid]
    BY <1>1, <1>3, <2>2, CallsStay
  <2>3. CASE t # s /\ posted'[call[t].sid] # posted[call[t].sid]
    <3>1. call[t] = call'[t] /\ call[t] # None /\ call[t].sid \in Submissions
      BY <1>0, <1>1, <1>3, <2>3 DEF Call
    <3>2. At(s, "send") /\ call[s].sid = call[t].sid
      BY <1>0, <1>3, <2>3, <3>1
    <3>3. call[t].at # "send"
      BY <2>3, <3>1, <3>2 DEF IInv, OneSender, At
    <3>4. PICK c \in Call : c = call[t]
      BY <1>0, <3>1
    <3>5. c = call'[t] /\ CallOK(c) /\ c.at # "send" /\ c.sid \in Submissions
      BY <3>1, <3>3, <3>4 DEF IInv, CallsOK
    <3>6. /\ \A i \in Submissions : Over(i) => Over(i)'
          /\ \A i \in Submissions : Consumed(i) => Consumed(i)'
          /\ \A j \in Submissions : EarlierOver(j) => EarlierOver(j)'
      BY OverStays DEF IInv
    <3>7. records[c.sid] # None => records'[c.sid] # None
      BY <3>5, StepForward DEF IInv
    <3>8. /\ c.at = "prepare" => EarlierOver(c.sid)'
          /\ c.at # "prepare" => records'[c.sid] # None
          /\ c.at = "recheck" => Over(c.sid)'
          /\ c.at \in {"send", "sent", "uncertain", "rejected"} => Consumed(c.sid)'
          /\ c.at = "send" => posted'[c.sid] = 0
      BY <3>5, <3>6, <3>7 DEF CallOK
    <3> QED BY <3>5, <3>8 DEF CallOK, EarlierOver, Over, Consumed
  <2> QED BY <2>1, <2>2, <2>3
<1> QED
  BY <1>2, <1>3, CallShape

\* A permit is never shared: whoever claims finds the record unclaimed, and then
\* nobody holds a permit for it.
LEMMA OneSenderNext == ASSUME IInv, [Next]_vars PROVE OneSender'
<1>0. call \in [Sessions -> Call \cup {None}] /\ records \in [Submissions -> Record \cup {None}]
  BY DEF IInv, TypeOK
<1>1. ASSUME NEW s \in Sessions, Claim(s), NEW t \in Sessions, t # s, At(t, "send")
      PROVE  call[t].sid # call[s].sid
  <2>1. call[s] # None /\ call[s].at = "claim" /\ call[s].sid \in Submissions
    BY <1>0, <1>1 DEF Claim, At, Call
  <2>2. records[call[s].sid] # None
    BY <2>1 DEF IInv, CallsOK, CallOK
  <2>3. Follows(records[call[s].sid], [records[call[s].sid] EXCEPT !.state = "send-claimed"])
    BY <1>1 DEF Claim, Save, Advance
  <2>4. records[call[s].sid].state = "prepared"
    BY <1>0, <2>1, <2>2, <2>3 DEF Follows, Allowed, Record, Held, Terminal
  <2>5. Consumed(call[t].sid)
    BY <1>1 DEF At, IInv, CallsOK, CallOK
  <2> QED BY <2>4, <2>5 DEF Consumed
<1>2. ASSUME NEW s \in Sessions, Step(s) \/ Begin(s), call'[s] # None, call'[s].at = "send"
      PROVE  Claim(s)
  <2>1. CASE Begin(s)
    BY <1>0, <1>2, <2>1, EnterShape DEF IInv
  <2>2. CASE Post(s)
    BY <1>0, <1>2, <2>2 DEF Post, At, GoTo, Call
  <2>3. CASE Step(s) /\ ~Claim(s) /\ ~Post(s)
    BY <1>2, <2>3, OtherStep
  <2> QED BY <1>2, <2>1, <2>2, <2>3
<1>3. CASE call' = call
  BY <1>3 DEF IInv, OneSender, At
<1>4. ASSUME NEW s \in Sessions,
             Step(s) \/ Begin(s) \/ Interrupted(s),
             Interrupted(s) => call'[s] = None,
             \A u \in Sessions : u # s => call'[u] = call[u]
      PROVE  OneSender'
  <2>1. SUFFICES ASSUME NEW t \in Sessions, NEW u \in Sessions, t # u,
                        At(t, "send")', At(u, "send")', call'[t].sid = call'[u].sid
                 PROVE  FALSE
    BY DEF OneSender
  <2>2. CASE t # s /\ u # s
    BY <1>4, <2>1, <2>2 DEF IInv, OneSender, At
  <2>3. ASSUME NEW v \in Sessions, v # s, At(v, "send")', At(s, "send")', call'[v].sid = call'[s].sid
        PROVE  FALSE
    <3>1. Claim(s)
      BY <1>2, <1>4, <2>3 DEF At
    <3>2. At(v, "send") /\ call[v] = call'[v]
      BY <1>4, <2>3 DEF At
    <3>3. call'[s] = [call[s] EXCEPT !.at = "send"] /\ call[s] \in Call
      BY <1>0, <2>3, <3>1 DEF Claim, Save, Advance, At
    <3>4. call'[s].sid = call[s].sid
      BY <3>3 DEF Call
    <3> QED BY <1>1, <2>3, <3>1, <3>2, <3>4
  <2> QED BY <2>1, <2>2, <2>3
<1> QED
  BY <1>3, <1>4, CallShape

\* A POST is sent under a consumed claim, and only by whoever has sent none.
LEMMA PostsNext == ASSUME IInv, [Next]_vars PROVE PostsClaimed' /\ AtMostOnePost'
<1>0. posted \in [Submissions -> Nat]
  BY DEF IInv, TypeOK
<1>1. \A i \in Submissions : Consumed(i) => Consumed(i)'
  BY OverStays DEF IInv
<1>2. CASE posted' = posted
  BY <1>1, <1>2 DEF IInv, PostsClaimed, AtMostOnePost
<1>3. ASSUME NEW s \in Sessions, At(s, "send"), call[s].sid \in Submissions,
             posted' = [posted EXCEPT ![call[s].sid] = posted[call[s].sid] + 1]
      PROVE  PostsClaimed' /\ AtMostOnePost'
  <2>1. Consumed(call[s].sid) /\ posted[call[s].sid] = 0
    BY <1>3 DEF IInv, CallsOK, CallOK, At
  <2>2. \A i \in Submissions : posted'[i] = IF i = call[s].sid THEN 1 ELSE posted[i]
    BY <1>0, <1>3, <2>1
  <2>3. PostsClaimed'
    <3>1. SUFFICES ASSUME NEW i \in Submissions, posted'[i] > 0 PROVE Consumed(i)'
      BY DEF PostsClaimed
    <3>2. Consumed(i)
      BY <2>1, <2>2, <3>1 DEF IInv, PostsClaimed
    <3> QED BY <1>1, <3>2
  <2>4. AtMostOnePost'
    BY <2>2 DEF IInv, AtMostOnePost
  <2> QED BY <2>3, <2>4
<1> QED
  BY <1>2, <1>3, CallShape

\* A record joins a source only above settled ones.
LEMMA SuccessionNext == ASSUME IInv, [Next]_vars PROVE Succession'
<1>0. records \in [Submissions -> Record \cup {None}]
  BY DEF IInv, TypeOK
<1>1. SUFFICES ASSUME NEW j \in Submissions, records'[j] # None PROVE EarlierOver(j)'
  BY DEF Succession
<1>2. \A i \in Submissions : EarlierOver(i) => EarlierOver(i)'
  BY OverStays DEF IInv
<1>3. CASE records[j] # None
  BY <1>2, <1>3 DEF IInv, Succession
<1>4. CASE records[j] = None
  <2>1. PICK s \in Sessions : Prepare(s) /\ call[s].sid = j
    <3>1. records' # records
      BY <1>1, <1>4
    <3>2. PICK i \in Submissions, r \in Record :
            /\ records' = [records EXCEPT ![i] = r]
            /\ records[i] # None \/ \E s \in Sessions : Prepare(s) /\ call[s].sid = i
      BY <3>1, JournalShape DEF IInv
    <3>3. i = j
      BY <1>0, <1>1, <1>4, <3>2
    <3> QED BY <1>4, <3>2, <3>3
  <2>2. EarlierOver(j)
    BY <2>1 DEF Prepare, At, IInv, CallsOK, CallOK
  <2> QED BY <1>2, <2>2
<1> QED BY <1>3, <1>4

-----------------------------------------------------------------------------
(***************************************************************************)
(* The theorems.                                                           *)
(***************************************************************************)
\* Nothing is journalled, sent or under way in the initial state.
LEMMA InitIInv == Init => IInv
<1> SUFFICES ASSUME Init PROVE IInv
  OBVIOUS
<1>1. TypeOK
  BY TypeInit
<1>2. CallsOK /\ OneSender /\ Succession
  BY DEF Init, CallsOK, OneSender, At, Succession
<1>3. PostsClaimed /\ AtMostOnePost
  BY DEF Init, PostsClaimed, AtMostOnePost
<1> QED BY <1>1, <1>2, <1>3 DEF IInv

\* What the calls rely on holds in every reachable state.
THEOREM Invariance == Spec => []IInv
<1>1. Init => IInv
  BY InitIInv
<1>2. IInv /\ [Next]_vars => IInv'
  <2> SUFFICES ASSUME IInv, [Next]_vars PROVE IInv'
    OBVIOUS
  <2>1. TypeOK'
    BY TypeNext DEF IInv
  <2> QED BY <2>1, CallsNext, OneSenderNext, PostsNext, SuccessionNext DEF IInv
<1> QED
  BY <1>1, <1>2, PTL DEF Spec

\* A submission is POSTed at most once, whatever its callers and GitHub do.
THEOREM PostedOnce == Spec => []AtMostOnePost
<1>1. IInv => AtMostOnePost
  BY DEF IInv
<1> QED
  BY <1>1, Invariance, PTL

\* A source files again only when nothing earlier of it is unsettled.
THEOREM SettledFirst == Spec => []EarlierIsSettled
<1>1. IInv => EarlierIsSettled
  <2>1. SUFFICES ASSUME IInv, NEW i \in Submissions, NEW j \in Submissions,
                        i[1] = j[1], i[2] < j[2], posted[j] > 0
                 PROVE  Over(i)
    BY DEF EarlierIsSettled, Over
  <2>2. records[j] # None
    BY <2>1 DEF IInv, PostsClaimed, Consumed
  <2> QED BY <2>1, <2>2 DEF IInv, Succession, EarlierOver
<1> QED
  BY <1>1, Invariance, PTL
=============================================================================
