----------------------------- MODULE MCWorkGraph -----------------------------
(* Small instances of WorkGraph: node nb depends on na, and nc on nothing.  Under
   plan pp, na and nc collide; plan pq changes na, so that they no longer do, and
   has one slot instead of two. *)
EXTENDS WorkAdmission

CONSTANTS na, nb, nc, pp, pq

WorkOnA(needs) == na :> [deps |-> {}, needs |-> needs, text |-> "a"]
Others ==
    nb :> [deps |-> {na}, needs |-> {"y"}, text |-> "b"] @@
    nc :> [deps |-> {}, needs |-> {"x"}, text |-> "c"]

MCItem == pp :> (WorkOnA({"x"}) @@ Others) @@ pq :> (WorkOnA({"z"}) @@ Others)
ABC == <<na, nb, nc>>
MCSlots == pp :> 2 @@ pq :> 1
=============================================================================
