----------------------------- MODULE WorkAdmission -----------------------------
(***************************************************************************)
(* Which nodes the scheduler would claim next (admission_plan in             *)
(* build_coordinator_dag.py): a pure derivation from the plan and the work   *)
(* of WorkGraph, which a session reads and then claims from, one by one.     *)
(***************************************************************************)
EXTENDS WorkGraph, SequencesExt

CONSTANT IdOrder    \* Nodes, in the order of their ids

\* The longest chain of work reachable from a node, itself included.
CriticalPath(p) ==
    LET length[n \in WorkItems(p)] ==
          1 + Max({0} \cup {length[m] : m \in {i \in WorkItems(p) : n \in Deps(p, i)}})
    IN length

\* The longest chain first, then by id.  The plan alone decides.
AdmissionRank ==
    LET position == [n \in Nodes |-> CHOOSE i \in DOMAIN IdOrder : IdOrder[i] = n]
        Before(length, m, n) ==
            \/ length[m] > length[n]
            \/ length[m] = length[n] /\ position[m] < position[n]
    IN [p \in Plans |->
          LET length == CriticalPath(p)
          IN SortSeq(SelectSeq(IdOrder, LAMBDA n : n \in WorkItems(p)),
                     LAMBDA m, n : Before(length, m, n))]

\* Whether one more node may be claimed by a pass that has selected some.
Admissible_IgnoringPass(selected, n) ==
    /\ Ready(n)
    /\ ~\E h \in Holders \ {n} : Conflict(plan, n, h)
    /\ Cardinality(SlotsInUse) + Cardinality(selected) < Slots[plan]
Admissible(selected, n) ==
    /\ Ready(n)
    /\ ~\E h \in (Holders \ {n}) \cup selected : Conflict(plan, n, h)
    /\ Cardinality(SlotsInUse) + Cardinality(selected) < Slots[plan]

Admitted ==
    FoldLeft(LAMBDA selected, n : IF Admissible(selected, n) THEN selected \cup {n} ELSE selected,
             {}, AdmissionRank[plan])

-----------------------------------------------------------------------------
\* A session may claim all that one pass admitted: claiming one of them, whichever,
\* leaves the others claimable (admission_plan against claimable_set).
AdmittedStayClaimable ==
    [][\A n \in Nodes :
          work[n].claim = None /\ work'[n].claim # None /\ n \in Admitted =>
             \A m \in Admitted \ {n} : Claimable(m)']_vars
=============================================================================
