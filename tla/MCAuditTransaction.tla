--------------------------- MODULE MCAuditTransaction ---------------------------
(* Instances of AuditTransaction for TLC. *)
EXTENDS AuditTransaction, TLC

CONSTANTS e1, e2, e3, e4, e5, e6, e7, e8, w1, w2

(* An action the quotes phase does not have, a message that cannot be      *)
(* stored, the PATCH that the payee refused, the dispute resolved by the   *)
(* connector, a message of no known phase, the reservation the PATCH was   *)
(* about, a message that cannot be decoded, and a malformed resolution.    *)
DisputePhase == (e1 :> "quotes") @@ (e2 :> "parties") @@ (e3 :> "patch") @@ (e4 :> "patch")
                @@ (e5 :> "unknown") @@ (e6 :> "transfers") @@ (e7 :> "undecodable") @@ (e8 :> "patch")
DisputeAction == (e1 :> "unsupported") @@ (e2 :> "response") @@ (e3 :> "error") @@ (e4 :> "resolved")
                 @@ (e5 :> "request") @@ (e6 :> "response") @@ (e7 :> "request") @@ (e8 :> "resolved")
DisputeGateway == [e \in Event |-> IF e \in {e3, e4, e6, e8} THEN "connector" ELSE "outbound"]
DisputeOccurredAt == (e1 :> 1) @@ (e2 :> 1) @@ (e3 :> 3) @@ (e4 :> 4) @@ (e5 :> 5) @@ (e6 :> 2)
                     @@ (e7 :> 1) @@ (e8 :> 4)
DisputeState == [e \in Event |-> IF e = e6 THEN "RESERVED" ELSE None]

(* The dispute and its resolution behind a message that is rejected; and   *)
(* what fails each time, with what cannot be decoded, before the dispute.  *)
DisputeStreams == {{e2, e3, e4, e6}, {e1, e3, e7, e8}, {e1, e5, e7}}
=============================================================================
