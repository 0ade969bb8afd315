----------------------------- MODULE MCConnector -----------------------------
(* Instances of Connector for TLC. *)
EXTENDS Connector, TLC

CONSTANTS x1, x2, x3, w1, w2

(* A party lookup, a POST /transfers and a PATCH. *)
MixedKind == (x1 :> "parties") @@ (x2 :> "transfers") @@ (x3 :> "patch")
=============================================================================
