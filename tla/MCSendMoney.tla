----------------------------- MODULE MCSendMoney -----------------------------
(* Instances of SendMoney for TLC. *)
EXTENDS SendMoney, TLC

CONSTANTS p0, a1, a2, b1

(* A retried acceptParty and an acceptQuote. *)
RetriesKind ==
    (p0 :> "sendMoney") @@ (a1 :> "acceptParty") @@ (a2 :> "acceptParty") @@ (b1 :> "acceptQuote")
=============================================================================
