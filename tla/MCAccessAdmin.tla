--------------------------- MODULE MCAccessAdmin ---------------------------
(* AccessAdmin on three users, one custom role and two FSPs, with a bound on *)
(* how often a request begins while another is under way.  Sequences of      *)
(* requests that do not overlap are not bounded.                             *)
(*                                                                           *)
(* The FSPs are interchangeable, and so are the users other than the seeded  *)
(* one and the requests.                                                     *)
EXTENDS AccessAdmin, TLC

CONSTANT MaxOverlaps

VARIABLE overlaps

UnderWay(q) == ctx[q] # None \/ req[q] # None

Overlapping ==
  \E p, q \in Request : /\ p # q /\ UnderWay(p)
                        /\ ~UnderWay(q) /\ UnderWay(q)'

BoundedInit == Init /\ overlaps = 0

BoundedNext ==
  /\ Next
  /\ overlaps' = overlaps + IF Overlapping THEN 1 ELSE 0
  /\ overlaps' <= MaxOverlaps

BoundedSpec == BoundedInit /\ [][BoundedNext]_<<vars, overlaps>>

Interchangeable ==
  Permutations(Fsp) \cup Permutations(User \ {Seeded}) \cup Permutations(Request)
=============================================================================
