------------------------ MODULE MCResponseSubscriber ------------------------
(* Instances of ResponseSubscriber for TLC. *)
EXTENDS ResponseSubscriber

CONSTANTS k1, k2, fspX, q1, a1, b1

Quote(k) == [res |-> "quotes", payee |-> NoPayee, key |-> k]
Party(p, k) == [res |-> "parties", payee |-> p, key |-> k]

(* A quote wait among two lookups of one party, of which one names the     *)
(* payee: they share the subject of the Hub's errors.                      *)
MixedTuple == (q1 :> Quote(k1)) @@ (a1 :> Party(fspX, k2)) @@ (b1 :> Party(AnyPayee, k2))
=============================================================================
