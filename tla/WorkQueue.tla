------------------------------ MODULE WorkQueue ------------------------------
(***************************************************************************)
(* What the payee side promises for a request of the Hub that it accepted: *)
(* the request stays queued until it is settled, it is settled only after  *)
(* it has been tried, and a settled request is never reopened. It may be   *)
(* tried more than once, also after it is settled.                         *)
(***************************************************************************)
CONSTANT Message
VARIABLES queued, settled, tried

TypeOK ==
    /\ queued \subseteq Message
    /\ settled \subseteq Message
    /\ tried \subseteq Message

Init == queued = {} /\ settled = {} /\ tried = {}

Accept(m) ==
    /\ m \notin queued \cup settled
    /\ queued' = queued \cup {m}
    /\ UNCHANGED <<settled, tried>>

Try(m) ==
    /\ m \in queued \cup settled
    /\ tried' = tried \cup {m}
    /\ UNCHANGED <<queued, settled>>

Settle(m) ==
    /\ m \in queued \cap tried
    /\ queued' = queued \ {m}
    /\ settled' = settled \cup {m}
    /\ UNCHANGED tried

Next == \E m \in Message : Accept(m) \/ Try(m) \/ Settle(m)

Spec == Init /\ [][Next]_<<queued, settled, tried>>
=============================================================================
