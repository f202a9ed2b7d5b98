----------------------------- MODULE IssueRecovery -----------------------------
(***************************************************************************)
(* Filing an Engine issue at most once (issue_recovery.py), over a journal  *)
(* kept in one Git ref (issue_recovery_store.py).                          *)
(*                                                                         *)
(* The GitHub API has no create-if-absent.  A submission is therefore a    *)
(* journal record that is claimed by compare-and-swap before its POST, and  *)
(* only the process whose own claim was acknowledged may send.  Any answer *)
(* may be lost; a POST whose answer was lost may still land much later.    *)
(* Whatever is uncertain is held, and resolved by looking for the issue    *)
(* (reconcile) or by an operator who accepts a duplicate (supersede).      *)
(***************************************************************************)
EXTENDS Integers

CONSTANTS
    Keys,           \* <<producer, source_key>> identities
    Manual,         \* those filed by a person: no recurrence
    Observations,   \* identities of an automatic producer's observations
    Sessions,       \* processes using the journal
    None,           \* no record, no observation, no call
    MaxGen          \* bound: submissions one source may come to

VARIABLES
    records,    \* submission -> its journal record, or None
    github,     \* submission -> the issues that carry its marker
    wire,       \* POSTs sent and not yet processed by GitHub
    call,       \* session -> the call it is inside, or None
    unmoved,    \* sessions whose call loaded the commit the journal's ref points at
    posted      \* submission -> POSTs ever sent (ghost)

outside == <<github, wire, posted>>
vars == <<records, outside, call, unmoved>>

ASSUME ManualAreKeys == Manual \subseteq Keys
ASSUME MaxGenPositive == MaxGen \in Nat \ {0}

Gens == 1..MaxGen
Submissions == Keys \X Gens     \* what submission_id names: one per record
Held == {"send-claimed", "recovery-needed", "rejected"}
Terminal == {"confirmed", "superseded"}

\* `closed' is closed_observation: which observation first saw the issue closed.
Record == [state : {"prepared"} \cup Held \cup Terminal, closed : Observations \cup {None}]

\* `obs' is the observation the call is about; from "confirm" on, that of a closure
\* it has to record, if any.
Call == [at : {"recheck", "prepare", "match", "claim", "send", "sent",
               "uncertain", "rejected", "verify", "numbered", "confirm"},
         sid : Submissions, obs : Observations \cup {None}]

\* One issue, open or closed; several when an issue that was filed without the
\* journal was missed by every search.
Copies == {"absent", "open", "closed", "several"}

ASSUME NoneIsNothing == None \notin Record /\ None \notin Call /\ None \notin Observations

\* A person's submission may have been filed before the journal was activated.
Init ==
    /\ records = [i \in Submissions |-> None]
    /\ github \in [Submissions -> {"absent", "open", "closed"}]
    /\ \A i \in Submissions : github[i] # "absent" => i[1] \in Manual /\ i[2] = 1
    /\ wire = {}
    /\ call = [s \in Sessions |-> None]
    /\ unmoved = {}
    /\ posted = [i \in Submissions |-> 0]

-----------------------------------------------------------------------------
(***************************************************************************)
(* The journal.                                                            *)
(***************************************************************************)
Allowed_AnyState(old, new) == TRUE

\* _history_transition: a record only moves forward.
Allowed(old, new) ==
    CASE old = "prepared"        -> new \in {"send-claimed", "confirmed", "superseded"}
      [] old = "send-claimed"    -> new \in {"confirmed", "rejected", "recovery-needed", "superseded"}
      [] old \in Held \ {"send-claimed"} -> new \in Terminal
      [] OTHER -> FALSE

\* A new record is a prepared one; a confirmed one may still gain the observation
\* of its closure, once.
Follows(old, new) ==
    \/ old = None /\ new.state = "prepared"
    \/ /\ old # None
       /\ IF old.state = new.state
          THEN old.state = "confirmed" /\ old.closed = None /\ new.closed # None
          ELSE Allowed(old.state, new.state)

GoTo(s, c) ==
    /\ call' = [call EXCEPT ![s] = c]
    /\ UNCHANGED unmoved

Leave(s) ==
    /\ call' = [call EXCEPT ![s] = None]
    /\ unmoved' = unmoved \ {s}

\* The ref advances past the commit every other call loaded.
Advance(s, record, next) ==
    /\ records' = [records EXCEPT ![call[s].sid] = record]
    /\ call' = [call EXCEPT ![s] = next]
    /\ unmoved' = IF next = None THEN {} ELSE {s}

\* compare_and_swap: only from the very commit the caller loaded.  The ref may
\* advance and yet the caller not learn it: the answer is lost, or the readback
\* already finds another writer's commit.
Save_Forced(s, record, next) ==
    Advance(s, record, next) \/ Advance(s, record, None)
Save(s, record, next) ==
    /\ s \in unmoved
    /\ Follows(records[call[s].sid], record)
    /\ Advance(s, record, next) \/ Advance(s, record, None)

\* Another writer's commit came first: the call ends, having written nothing.
Conflict(s) ==
    /\ call[s] # None /\ s \notin unmoved
    /\ call[s].at \in {"prepare", "claim", "confirm", "uncertain", "rejected"}
    /\ Leave(s)
    /\ UNCHANGED <<records, outside>>

\* Any other interruption: the service is unavailable or the process dies.
Interrupted(s) ==
    /\ call[s] # None
    /\ Leave(s)
    /\ UNCHANGED <<records, outside>>

-----------------------------------------------------------------------------
(***************************************************************************)
(* Entering: load the journal and decide from the newest record.           *)
(***************************************************************************)
Latest(i) ==
    /\ records[i] # None
    /\ \A g \in Gens : records[<<i[1], g>>] # None => g <= i[2]

Enter(s, at, i, o) ==
    /\ call[s] = None
    /\ call' = [call EXCEPT ![s] = [at |-> at, sid |-> i, obs |-> o]]
    /\ unmoved' = unmoved \cup {s}
    /\ UNCHANGED <<records, outside>>

Sources(k) == IF k \in Manual THEN {None} ELSE Observations

\* The first sight of a closure is only recorded; a later, different observation
\* may file again, if the issue is still closed.
MayRecur_Unseen(i, o) == i[1] \notin Manual /\ o # records[i].closed
MayRecur(i, o) ==
    /\ i[1] \notin Manual
    /\ records[i].closed # None /\ o # records[i].closed

\* What a submission does with the newest record i of its source.
Resume(i, o) ==
    IF records[i].state = "prepared" THEN "match"
    ELSE IF records[i].state = "superseded" THEN "prepare"
    ELSE IF records[i].state = "confirmed" /\ MayRecur(i, o) THEN "recheck"
    ELSE "verify"

Successor(i) == <<i[1], i[2] + 1>>

Submit(s, k, o) ==
    \/ /\ \A g \in Gens : records[<<k, g>>] = None
       /\ Enter(s, "prepare", <<k, 1>>, o)
    \/ \E g \in Gens :
         LET i == <<k, g>>
         IN /\ Latest(i)
            /\ IF Resume(i, o) = "prepare"
               THEN g < MaxGen /\ Enter(s, "prepare", Successor(i), o)
               ELSE Enter(s, Resume(i, o), i, o)

\* An explicit retry, the recovery pass or the operator's reconcile: any record,
\* and never a permit to send.
Recover(s, i, o) ==
    /\ records[i] # None
    /\ Enter(s, "verify", i, o)

-----------------------------------------------------------------------------
(***************************************************************************)
(* The steps of a call.                                                    *)
(***************************************************************************)
At(s, at) == call[s] # None /\ call[s].at = at

\* With several, the recorded one is read by its number.
SeenClosed(i) ==
    IF github[i] = "several" THEN BOOLEAN ELSE {github[i] = "closed"}

Recheck(s) ==
    /\ At(s, "recheck")
    /\ LET c == call[s]
       IN \E closed \in SeenClosed(c.sid) :
            IF closed
            THEN c.sid[2] < MaxGen
                 /\ GoTo(s, [c EXCEPT !.at = "prepare", !.sid = Successor(c.sid)])
            ELSE GoTo(s, [c EXCEPT !.at = "verify"])
    /\ UNCHANGED <<records, outside>>

\* What validate asks of a record's previous one.
Preceded(i) ==
    i[2] > 1 => LET previous == records[<<i[1], i[2] - 1>>]
                IN previous # None /\ previous.state \in Terminal

Prepare(s) ==
    /\ At(s, "prepare")
    /\ Preceded(call[s].sid)
    /\ Save(s, [state |-> "prepared", closed |-> None],
            [call[s] EXCEPT !.at = "match"])
    /\ UNCHANGED outside

\* The first search.  It may miss an issue that is there: absence proves nothing.
Match(s) ==
    /\ At(s, "match")
    /\ \/ GoTo(s, [call[s] EXCEPT !.at = "claim"])
       \/ github[call[s].sid] # "absent" /\ GoTo(s, [call[s] EXCEPT !.at = "verify"])
    /\ UNCHANGED <<records, outside>>

Claim(s) ==
    /\ At(s, "claim")
    /\ Save(s, [records[call[s].sid] EXCEPT !.state = "send-claimed"],
            [call[s] EXCEPT !.at = "send"])
    /\ UNCHANGED outside

\* The second search found the issue, is not sure of one, or failed.
Forgo(s) ==
    /\ At(s, "send")
    /\ \/ GoTo(s, [call[s] EXCEPT !.at = "uncertain"])
       \/ github[call[s].sid] \in {"open", "closed"} /\ GoTo(s, [call[s] EXCEPT !.at = "numbered"])
    /\ UNCHANGED <<records, outside>>

\* The permit is consumed before the transport is called.
Post(s) ==
    /\ At(s, "send")
    /\ posted' = [posted EXCEPT ![call[s].sid] = @ + 1]
    /\ wire' = wire \cup {call[s].sid}
    /\ GoTo(s, [call[s] EXCEPT !.at = "sent"])
    /\ UNCHANGED <<records, github>>

\* 201, a 4xx, or no usable answer (which says nothing of the request).
Answered(s) ==
    /\ At(s, "sent")
    /\ LET i == call[s].sid
       IN \/ /\ i \notin wire /\ github[i] # "absent"
             /\ GoTo(s, [call[s] EXCEPT !.at = "numbered"])
             /\ UNCHANGED wire
          \/ /\ i \in wire
             /\ wire' = wire \ {i}
             /\ GoTo(s, [call[s] EXCEPT !.at = "rejected"])
          \/ /\ GoTo(s, [call[s] EXCEPT !.at = "uncertain"])
             /\ UNCHANGED wire
    /\ UNCHANGED <<records, github, posted>>

\* The issue is found by its marker, unless several carry it, or by its number,
\* which the filing or a confirmed record tells; then it is read.  Otherwise the
\* submission stays held.
Found_OpenOnly(c) == github[c.sid] = "open"
Found(c) ==
    \/ github[c.sid] \in {"open", "closed"}
    \/ github[c.sid] = "several" /\ (c.at = "numbered" \/ records[c.sid].state = "confirmed")

Verify(s) ==
    /\ At(s, "verify") \/ At(s, "numbered")
    /\ Found(call[s])
    /\ \E closed \in SeenClosed(call[s].sid) :
          GoTo(s, [call[s] EXCEPT !.at = "confirm", !.obs = IF closed THEN @ ELSE None])
    /\ UNCHANGED <<records, outside>>

NotFound(s) ==
    /\ At(s, "verify")
    /\ ~Found(call[s])
    /\ Leave(s)
    /\ UNCHANGED <<records, outside>>

Confirmed_Flag(r, c) ==
    [state |-> "confirmed", closed |-> IF r.closed = None THEN c.obs # None ELSE r.closed]
\* A confirmed record is enriched with its closure or left as it is; one that was
\* superseded meanwhile is not brought back.
Confirmed(r, c) ==
    [state |-> "confirmed", closed |-> IF r.closed = None THEN c.obs ELSE r.closed]

Confirm(s) ==
    /\ At(s, "confirm")
    /\ LET r == records[call[s].sid]
       IN IF Confirmed(r, call[s]) = r \/ ~Follows(r, Confirmed(r, call[s]))
          THEN Leave(s) /\ UNCHANGED records
          ELSE Save(s, Confirmed(r, call[s]), None)
    /\ UNCHANGED outside

Outcome(c) == IF c.at = "rejected" THEN "rejected" ELSE "recovery-needed"

Hold(s) ==
    /\ call[s] # None /\ call[s].at \in {"rejected", "uncertain"}
    /\ Save(s, [records[call[s].sid] EXCEPT !.state = Outcome(call[s])], None)
    /\ UNCHANGED outside

\* The operator's word that the earlier writer is quiescent cannot be checked.
Supersede(i) ==
    /\ records[i] # None /\ records[i].state \notin Terminal
    /\ records' = [records EXCEPT ![i].state = "superseded"]
    /\ unmoved' = {}
    /\ UNCHANGED <<outside, call>>

-----------------------------------------------------------------------------
(***************************************************************************)
(* GitHub and the people using it.                                         *)
(***************************************************************************)
\* A POST may reach GitHub at any time, or never.
Land(i) ==
    /\ i \in wire
    /\ wire' = wire \ {i}
    /\ github' = [github EXCEPT ![i] = IF @ = "absent" THEN "open" ELSE "several"]
    /\ UNCHANGED <<records, call, unmoved, posted>>

CloseOrReopen(i) ==
    /\ github[i] \in {"open", "closed"}
    /\ github' = [github EXCEPT ![i] = IF @ = "open" THEN "closed" ELSE "open"]
    /\ UNCHANGED <<records, wire, call, unmoved, posted>>

-----------------------------------------------------------------------------
Step(s) ==
    \/ Recheck(s) \/ Prepare(s) \/ Match(s) \/ Claim(s) \/ Forgo(s) \/ Post(s)
    \/ Answered(s) \/ Verify(s) \/ NotFound(s) \/ Confirm(s) \/ Hold(s) \/ Conflict(s)

Begin(s) ==
    \/ \E k \in Keys : \E o \in Sources(k) : Submit(s, k, o)
    \/ \E i \in Submissions : \E o \in Sources(i[1]) \cup {None} : Recover(s, i, o)

World(i) == Supersede(i) \/ Land(i) \/ CloseOrReopen(i)

Next ==
    \/ \E s \in Sessions : Step(s) \/ Begin(s) \/ Interrupted(s)
    \/ \E i \in Submissions : World(i)

Spec == Init /\ [][Next]_vars

(***************************************************************************)
(* Fairness.  A call runs on unless it is interrupted, interruptions end,  *)
(* and a retained submission is looked for again and again: by every later  *)
(* pass of its producer, or by the operator.                               *)
(***************************************************************************)
InterruptionsEnd == <>[][\A s \in Sessions : Interrupted(s) => Step(s)]_vars

FairSpec ==
    /\ Spec
    /\ InterruptionsEnd
    /\ \A s \in Sessions : WF_vars(Step(s))
    /\ \A i \in Submissions :
          SF_vars(\E s \in Sessions : \E o \in Sources(i[1]) : Recover(s, i, o))

-----------------------------------------------------------------------------
(***************************************************************************)
(* Properties.                                                             *)
(***************************************************************************)

\* Every variable holds a value of its type.
TypeOK ==
    /\ unmoved \subseteq Sessions
    /\ records \in [Submissions -> Record \cup {None}]
    /\ github \in [Submissions -> Copies]
    /\ wire \in SUBSET Submissions
    /\ call \in [Sessions -> Call \cup {None}]
    /\ posted \in [Submissions -> Nat]

\* A submission is POSTed at most once, whatever crashes, restarts, lost answers
\* and competing sessions do: the journal can record a send permit, never replay it.
AtMostOnePost == \A i \in Submissions : posted[i] <= 1

\* A source files again only once its earlier submission is settled: superseded by
\* an operator, or confirmed and its closure already observed.  Nothing that may
\* still land is ever followed by a second POST that no operator accepted.
EarlierIsSettled ==
    \A i, j \in Submissions : (i[1] = j[1] /\ i[2] < j[2] /\ posted[j] > 0) =>
        /\ records[i] # None
        /\ \/ records[i].state = "superseded"
           \/ records[i].state = "confirmed" /\ records[i].closed # None

\* The journal never takes back what licenses or forbids a send: a consumed claim
\* never becomes unclaimed, a decision or a confirmation never changes, and the
\* observation that first saw a closure stays the one recorded.
JournalMovesForward ==
    [][\A i \in Submissions : records[i] # None =>
          /\ records'[i] # None
          /\ records[i].state # "prepared" => records'[i].state # "prepared"
          /\ records[i].state \in Terminal => records'[i].state = records[i].state
          /\ records[i].closed # None => records'[i].closed = records[i].closed]_records

Settled(i) == records[i] # None /\ records[i].state \in Terminal

\* An issue that landed, however late and whoever lost the answer, is eventually
\* confirmed in the journal, unless an operator superseded it or several carry its
\* marker.
LandedIsConfirmed ==
    \A i \in Submissions :
        (records[i] # None /\ github[i] \in {"open", "closed"}) ~>
            (Settled(i) \/ github[i] = "several")

-----------------------------------------------------------------------------
(***************************************************************************)
(* The inductive invariant.  A call may rely, however old what it loaded, on   *)
(* what was settled or consumed when it looked, because those stay; that   *)
(* its record is still prepared it learns only from the journal's own      *)
(* transition check, in the same step as the advance of the ref.           *)
(***************************************************************************)
Over(i) ==
    /\ records[i] # None
    /\ \/ records[i].state = "superseded"
       \/ records[i].state = "confirmed" /\ records[i].closed # None

Consumed(i) == records[i] # None /\ records[i].state # "prepared"

EarlierOver(j) == \A i \in Submissions : i[1] = j[1] /\ i[2] < j[2] => Over(i)

CallOK(c) ==
    /\ c.at = "prepare" => EarlierOver(c.sid)
    /\ c.at # "prepare" => records[c.sid] # None
    /\ c.at = "recheck" => Over(c.sid)
    /\ c.at \in {"send", "sent", "uncertain", "rejected"} => Consumed(c.sid)
    /\ c.at = "send" => posted[c.sid] = 0

CallsOK == \A s \in Sessions : call[s] # None => CallOK(call[s])

OneSender ==
    \A s, t \in Sessions : (At(s, "send") /\ At(t, "send") /\ call[s].sid = call[t].sid) => s = t

PostsClaimed == \A i \in Submissions : posted[i] > 0 => Consumed(i)

Succession == \A j \in Submissions : records[j] # None => EarlierOver(j)

IInv ==
    /\ TypeOK /\ CallsOK /\ OneSender /\ PostsClaimed /\ Succession /\ AtMostOnePost
=============================================================================
