----------------------------- MODULE MCLiveStats -----------------------------
(* The instance of LiveStats for TLC: a transfer within one FSP, whose      *)
(* PATCH fails (e1) and whose dispute is then resolved (e2).                *)
EXTENDS LiveStats, TLC

CONSTANTS e1, e2, t1, f1, r1, r2, w1

MCTxn == [e \in Event |-> t1]
MCPayer == t1 :> f1
MCPayee == [e \in Event |-> f1]
MCIdentified == [e \in Event |-> TRUE]
MCSets == [e \in Event |-> IF e = e1 THEN {"err", "disp"} ELSE {}]
=============================================================================
