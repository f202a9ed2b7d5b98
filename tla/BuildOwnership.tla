---------------------------- MODULE BuildOwnership ----------------------------
(***************************************************************************)
(* What build_state_store.py promises, with no files, journals or locks: a *)
(* Build has at most one owning plan and a plan at most one Build; only a  *)
(* live Build is written to; ownership changes hands only while nobody can *)
(* write; evidence never shrinks; and what is over stays over.             *)
(***************************************************************************)
EXTENDS Integers

CONSTANTS Plans, Builds, None

VARIABLES
    owner,    \* build -> the plan that owns it, or None
    status,   \* build -> where it is in its life
    evidence  \* build -> newest revision retained anywhere

avars == <<owner, status, evidence>>

AInit ==
    /\ owner = [b \in Builds |-> None]
    /\ status = [b \in Builds |-> "unborn"]
    /\ evidence = [b \in Builds |-> 0]

Owns(p) == \E b \in Builds : owner[b] = p

Bind(b, p) ==
    /\ status[b] = "unborn" /\ ~Owns(p)
    /\ status' = [status EXCEPT ![b] = "reserved"]
    /\ owner' = [owner EXCEPT ![b] = p]
    /\ UNCHANGED evidence

FirstEvidence(b) ==
    /\ status[b] = "reserved" /\ evidence[b] = 0
    /\ evidence' = [evidence EXCEPT ![b] = 1]
    /\ UNCHANGED <<owner, status>>

GoLive(b) ==
    /\ status[b] \in {"reserved", "moving"} /\ evidence[b] > 0
    /\ status' = [status EXCEPT ![b] = "live"]
    /\ UNCHANGED <<owner, evidence>>

Write(b) ==
    /\ status[b] = "live"
    /\ evidence' = [evidence EXCEPT ![b] = @ + 1]
    /\ UNCHANGED <<owner, status>>

BeginMove(b) ==
    /\ status[b] = "live"
    /\ status' = [status EXCEPT ![b] = "moving"]
    /\ UNCHANGED <<owner, evidence>>

Copy(b) ==
    /\ status[b] = "moving"
    /\ evidence' = [evidence EXCEPT ![b] = @ + 1]
    /\ UNCHANGED <<owner, status>>

HandOver(b, q) ==
    /\ status[b] = "moving" /\ owner[b] # q /\ ~Owns(q)
    /\ owner' = [owner EXCEPT ![b] = q]
    /\ UNCHANGED <<status, evidence>>

BeginEnd(b) ==
    /\ status[b] \in {"reserved", "live"}
    /\ status' = [status EXCEPT ![b] = "ending"]
    /\ UNCHANGED <<owner, evidence>>

End(b) ==
    /\ status[b] = "ending"
    /\ status' = [status EXCEPT ![b] = "over"]
    /\ owner' = [owner EXCEPT ![b] = None]
    /\ UNCHANGED evidence

ANext == \E b \in Builds :
    \/ \E p \in Plans : Bind(b, p) \/ HandOver(b, p)
    \/ FirstEvidence(b) \/ GoLive(b) \/ Write(b)
    \/ BeginMove(b) \/ Copy(b) \/ BeginEnd(b) \/ End(b)

ASpec == AInit /\ [][ANext]_avars
=============================================================================
