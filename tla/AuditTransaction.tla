--------------------------- MODULE AuditTransaction ---------------------------
(***************************************************************************)
(* app-auditor: the consumer of the audit stream, the row of the           *)
(* transactions table into which it merges the audit messages about one    *)
(* transfer, and the transfer status that is read from that row.           *)
(*                                                                         *)
(* The messages are published by the gateways of both sides of the         *)
(* transfer, outbound, inbound and connector, concurrently. Replicas of    *)
(* the auditor share one durable consumer, which acknowledges explicitly   *)
(* and redelivers without limit.                                           *)
(*                                                                         *)
(* Payload columns (the parties, amounts, request and response bodies) are *)
(* left out: each takes the last value that is not NULL.                   *)
(***************************************************************************)
EXTENDS Integers, FiniteSets

CONSTANTS
    Event,                  \* audit messages about one transfer
    phase,                  \* InvocationPhase of each
    action,                 \* InvocationAction of each
    gateway,                \* InvocationGateway of each
    occurredAt,             \* when it happened
    transferState,          \* the transferState in it, or None
    Unstorable,             \* messages a column constraint rejects
    Malformed,              \* resolutions without a transfer id or a valid time
    Streams,                \* the sets of them the gateways may publish
    Worker,                 \* deliveries the replicas can hold at a time
    MaxDeliveryAttempts,    \* MAX_DELIVERY_ATTEMPTS
    MaxFaults,              \* bound: failures, expiries, deaths together
    None                    \* NULL

ASSUME ConstantsAssumption ==
    /\ phase \in [Event -> {"parties", "quotes", "transfers", "patch", "unknown", "undecodable"}]
    /\ action \in [Event -> {"request", "response", "error", "resolved", "unsupported"}]
    /\ gateway \in [Event -> {"outbound", "inbound", "connector"}]
    /\ occurredAt \in [Event -> Nat]
    /\ transferState \in [Event -> {"RESERVED", "COMMITTED", "ABORTED", None}]
    /\ \A e \in Event : action[e] = "resolved" => phase[e] = "patch"
    /\ Unstorable \subseteq Event /\ Malformed \subseteq Event
    /\ Streams \subseteq SUBSET Event
    /\ MaxDeliveryAttempts \in Nat \ {0}
    /\ MaxFaults \in Nat
    /\ None \notin Event \cup Nat \cup {"RESERVED", "COMMITTED", "ABORTED"}

Gateway == {"outbound", "inbound", "connector"}

(* The timestamp columns: <phase>_requested_at and _responded_at, and the  *)
(* same for each gateway except in the patch phase.                        *)
Column == ({"parties", "quotes", "transfers"} \X (Gateway \cup {"any"})) \cup {<<"patch", "any">>}

Time == Nat \cup {None}

-----------------------------------------------------------------------------
VARIABLES
    queued,       \* messages in the stream that are not settled
    acked,        \* messages acknowledged
    terminated,   \* messages dropped with term()
    outstanding,  \* queued messages whose acknowledgement is awaited
    deliveries,   \* times each was delivered, counted up to MaxDeliveryAttempts
    at,           \* the message each worker holds, or None
    attempt,      \* its redeliveryCount
    pc,           \* where its handler is
    row,          \* the row of the transfer; there is none if startedAt is NULL
    applied,      \* messages whose statement the database has executed
    faults        \* number of failures so far

stream == <<queued, acked, terminated, outstanding, deliveries>>
db == <<row, applied>>
vars == <<stream, at, attempt, pc, db, faults>>

NoTimes == [c \in Column |-> None]

NoRow ==
    [startedAt |-> None, requestedAt |-> NoTimes, respondedAt |-> NoTimes, flow |-> None,
     error |-> FALSE, transferState |-> None, possibleDispute |-> FALSE,
     disputeResolvedAt |-> None]

Row ==
    [startedAt : Time, requestedAt : [Column -> Time], respondedAt : [Column -> Time],
     flow : {1, 2, 3, None}, error : BOOLEAN,
     transferState : {"RESERVED", "COMMITTED", "ABORTED", None},
     possibleDispute : BOOLEAN, disputeResolvedAt : Time]

(* The type of the state. *)
TypeOK ==
    /\ queued \subseteq Event
    /\ acked \subseteq Event
    /\ terminated \subseteq Event
    /\ outstanding \subseteq queued
    /\ deliveries \in [Event -> 0 .. MaxDeliveryAttempts]
    /\ at \in [Worker -> Event \cup {None}]
    /\ attempt \in [Worker -> 0 .. MaxDeliveryAttempts]
    /\ pc \in [Worker -> {"idle", "dispatch", "ack", "failed", "rejected"}]
    /\ row \in Row
    /\ applied \subseteq Event
    /\ faults \in Nat

Init ==
    /\ queued \in Streams /\ acked = {} /\ terminated = {} /\ outstanding = {}
    /\ deliveries = [e \in Event |-> 0]
    /\ at = [w \in Worker |-> None]
    /\ attempt = [w \in Worker |-> 0]
    /\ pc = [w \in Worker |-> "idle"]
    /\ row = NoRow
    /\ applied = {}
    /\ faults = 0

Fault == faults < MaxFaults /\ faults' = faults + 1

Goto(w, l) == pc' = [pc EXCEPT ![w] = l]

-----------------------------------------------------------------------------
(* The row. *)

(* LEAST, GREATEST and COALESCE of a column and a new value, where a NULL  *)
(* gives way to the other.                                                 *)
Least(a, b) == IF a = None THEN b ELSE IF b = None \/ a <= b THEN a ELSE b
Greatest(a, b) == IF a = None THEN b ELSE IF b = None \/ b <= a THEN a ELSE b
Coalesce(new, old) == IF new = None THEN old ELSE new

(* The columns a message stamps: its phase's, and its gateway's in it.     *)
GatewayFields(e) ==
    [c \in Column |->
        IF c[1] = phase[e] /\ c[2] \in {"any", gateway[e]} THEN occurredAt[e] ELSE None]

(* What the mapper makes of a message: its flow f is stamped, like the     *)
(* response columns, when the stage is answered, and its transferState s   *)
(* and possible dispute d depend on the phase.                             *)
StageInput(e, f, s, d) ==
    [startedAt |-> occurredAt[e],
     requestedAt |-> IF action[e] = "request" THEN GatewayFields(e) ELSE NoTimes,
     respondedAt |-> IF action[e] = "request" THEN NoTimes ELSE GatewayFields(e),
     flow |-> IF action[e] = "request" THEN None ELSE f,
     error |-> action[e] = "error",
     transferState |-> s,
     possibleDispute |-> d,
     disputeResolvedAt |-> None]

toPartiesInput(e) == StageInput(e, 1, None, FALSE)
toQuotesInput(e) == StageInput(e, 2, None, FALSE)
toTransfersInput(e) ==
    StageInput(e, 3, IF action[e] = "response" THEN transferState[e] ELSE None, FALSE)
toPatchInput(e) == StageInput(e, None, None, action[e] = "error")

LeastTimes(f, g) == [c \in Column |-> Least(f[c], g[c])]
GreatestTimes(f, g) == [c \in Column |-> Greatest(f[c], g[c])]

Merge(r, x, error, dispute) ==
    [startedAt |-> Least(r.startedAt, x.startedAt),
     requestedAt |-> LeastTimes(r.requestedAt, x.requestedAt),
     respondedAt |-> GreatestTimes(r.respondedAt, x.respondedAt),
     flow |-> Greatest(r.flow, x.flow),
     error |-> error,
     transferState |-> Coalesce(x.transferState, r.transferState),
     possibleDispute |-> dispute,
     disputeResolvedAt |-> r.disputeResolvedAt]

(* Mutants: the dispute flag, or the error flag, is taken from the new     *)
(* message.                                                                *)
UpsertNewDispute(r, x) == Merge(r, x, r.error \/ x.error, x.possibleDispute)
UpsertNewError(r, x) == Merge(r, x, x.error, r.possibleDispute \/ x.possibleDispute)

(* INSERT ... ON DUPLICATE KEY UPDATE: one atomic statement. Inserting is  *)
(* merging into a row that is all NULL.                                    *)
upsert(r, x) == Merge(r, x, r.error \/ x.error, r.possibleDispute \/ x.possibleDispute)

(* UPDATE ... WHERE correlation_id: nothing if there is no row.            *)
resolveDispute(r, e) ==
    IF r.startedAt = None THEN r
    ELSE [r EXCEPT !.possibleDispute = FALSE, !.disputeResolvedAt = occurredAt[e]]

(* The status GET /sendmoney tells the FSPs of the transfer. *)
toCurrentState(r) ==
    IF r.transferState = "COMMITTED" THEN "Completed"
    ELSE IF r.error THEN "Aborted"
    ELSE IF /\ r.flow = 2
            /\ r.respondedAt[<<"quotes", "any">>] # None
            /\ r.requestedAt[<<"transfers", "any">>] = None
         THEN "WaitingForQuoteAcceptance"
    ELSE IF /\ r.flow = 1
            /\ r.respondedAt[<<"parties", "any">>] # None
            /\ r.requestedAt[<<"quotes", "any">>] = None
         THEN "WaitingForPartyAcceptance"
    ELSE "Pending"

-----------------------------------------------------------------------------
(* The stream. *)

Published == queued \cup acked \cup terminated

(* JetStream sends the message to a replica, with the count of deliveries. *)
Deliver(w, e) ==
    /\ at[w] = None
    /\ e \in queued \ outstanding
    /\ outstanding' = outstanding \cup {e}
    /\ LET n == IF deliveries[e] < MaxDeliveryAttempts THEN deliveries[e] + 1
                ELSE MaxDeliveryAttempts
       IN  /\ deliveries' = [deliveries EXCEPT ![e] = n]
           /\ attempt' = [attempt EXCEPT ![w] = n]
    /\ at' = [at EXCEPT ![w] = e]
    /\ Goto(w, "dispatch")
    /\ UNCHANGED <<queued, acked, terminated, db, faults>>

Held(e) == \E w \in Worker : at[w] = e

(* ack_wait has passed: the message may be delivered again. It is a        *)
(* failure only if a replica still has it.                                 *)
AckWaitExpires(e) ==
    /\ e \in outstanding
    /\ outstanding' = outstanding \ {e}
    /\ IF Held(e) THEN Fault ELSE UNCHANGED faults
    /\ UNCHANGED <<queued, acked, terminated, deliveries, at, attempt, pc, db>>

Finish(w) ==
    /\ at' = [at EXCEPT ![w] = None]
    /\ attempt' = [attempt EXCEPT ![w] = 0]
    /\ Goto(w, "idle")

(* The replies. The stream ignores one about a message that is settled.    *)
Ack(w) ==
    /\ acked' = acked \cup ({at[w]} \cap queued)
    /\ queued' = queued \ {at[w]}
    /\ outstanding' = outstanding \ {at[w]}
    /\ Finish(w)
    /\ UNCHANGED <<terminated, deliveries>>

Term(w) ==
    /\ terminated' = terminated \cup ({at[w]} \cap queued)
    /\ queued' = queued \ {at[w]}
    /\ outstanding' = outstanding \ {at[w]}
    /\ Finish(w)
    /\ UNCHANGED <<acked, deliveries>>

Nak(w) ==
    /\ outstanding' = outstanding \ {at[w]}
    /\ Finish(w)
    /\ UNCHANGED <<queued, acked, terminated, deliveries>>

-----------------------------------------------------------------------------
(* The consumer. *)

(* A command is executed: the database stores the new row, rejects it, or  *)
(* fails, and then may have stored it. There is none for an action that    *)
(* the phase does not have: the switch throws.                             *)
Execute(w, new) ==
    /\ \/ /\ action[at[w]] = "unsupported"
          /\ Goto(w, "failed")
          /\ UNCHANGED <<db, faults>>
       \/ /\ action[at[w]] # "unsupported"
          /\ at[w] \notin Unstorable
          /\ row' = new
          /\ applied' = applied \cup {at[w]}
          /\ \/ Goto(w, "ack") /\ UNCHANGED faults
             \/ Goto(w, "failed") /\ Fault
       \/ /\ action[at[w]] # "unsupported"
          /\ Goto(w, "failed")
          /\ Fault
          /\ UNCHANGED db
       \/ /\ action[at[w]] # "unsupported"
          /\ at[w] \in Unstorable
          /\ Goto(w, "rejected")
          /\ UNCHANGED <<db, faults>>
    /\ UNCHANGED <<stream, at, attempt>>

dispatchParties(w) ==
    /\ pc[w] = "dispatch"
    /\ phase[at[w]] = "parties"
    /\ Execute(w, upsert(row, toPartiesInput(at[w])))

dispatchQuotes(w) ==
    /\ pc[w] = "dispatch"
    /\ phase[at[w]] = "quotes"
    /\ Execute(w, upsert(row, toQuotesInput(at[w])))

dispatchTransfers(w) ==
    /\ pc[w] = "dispatch"
    /\ phase[at[w]] = "transfers"
    /\ Execute(w, upsert(row, toTransfersInput(at[w])))

dispatchPatch(w) ==
    /\ pc[w] = "dispatch"
    /\ phase[at[w]] = "patch" /\ action[at[w]] # "resolved"
    /\ Execute(w, upsert(row, toPatchInput(at[w])))

(* A resolution counts only from the connector, and only if it says of     *)
(* which transfer and when; any other is acknowledged all the same.        *)
Ignored(e) == action[e] = "resolved" /\ (gateway[e] # "connector" \/ e \in Malformed)

dispatchPatchResolved(w) ==
    /\ pc[w] = "dispatch"
    /\ phase[at[w]] = "patch" /\ action[at[w]] = "resolved"
    /\ IF Ignored(at[w])
       THEN Goto(w, "ack") /\ UNCHANGED <<stream, at, attempt, db, faults>>
       ELSE Execute(w, resolveDispute(row, at[w]))

(* The message is decoded outside the try: what cannot be decoded throws   *)
(* out of the loop, and the rejection nobody handles ends the process. It  *)
(* is restarted; the message stays outstanding until ack_wait has passed.  *)
LoopThrows(w) ==
    /\ pc[w] = "dispatch"
    /\ phase[at[w]] = "undecodable"
    /\ Finish(w)
    /\ UNCHANGED <<stream, db, faults>>

(* A message of no known phase is terminated at once. *)
TermUnknown(w) ==
    /\ pc[w] = "dispatch"
    /\ phase[at[w]] = "unknown"
    /\ Term(w)
    /\ UNCHANGED <<db, faults>>

(* The dashboard's counters, which never fail the message, and the         *)
(* acknowledgement.                                                        *)
recordAndAck(w) ==
    /\ pc[w] = "ack"
    /\ Ack(w)
    /\ UNCHANGED <<db, faults>>

(* Mutants: a failed message is acknowledged; it is always returned.       *)
FailureAcked(w) ==
    /\ pc[w] \in {"failed", "rejected"}
    /\ Ack(w)
    /\ UNCHANGED <<db, faults>>


(* A message the database rejects for good, or that has been delivered     *)
(* often enough, is terminated; any other is returned, without delay.      *)
handleProcessingFailure(w) ==
    /\ pc[w] \in {"failed", "rejected"}
    /\ IF pc[w] = "rejected" \/ attempt[w] >= MaxDeliveryAttempts THEN Term(w) ELSE Nak(w)
    /\ UNCHANGED <<db, faults>>

(* The replica dies and is restarted, or the reply it sends, which the     *)
(* stream does not confirm, is lost.                                       *)
Crash(w) ==
    /\ at[w] # None
    /\ Fault
    /\ Finish(w)
    /\ UNCHANGED <<stream, db>>

dispatch(w) ==
    \/ dispatchParties(w) \/ dispatchQuotes(w) \/ dispatchTransfers(w)
    \/ dispatchPatch(w) \/ dispatchPatchResolved(w)

consume(w) ==
    LoopThrows(w) \/ TermUnknown(w) \/ dispatch(w) \/ recordAndAck(w) \/ handleProcessingFailure(w)

Next ==
    \/ \E e \in Event : AckWaitExpires(e)
    \/ \E w \in Worker, e \in Event : Deliver(w, e)
    \/ \E w \in Worker : consume(w) \/ Crash(w)

Spec == Init /\ [][Next]_vars

Undecodable(e) == phase[e] = "undecodable"

(* JetStream goes on delivering what is not outstanding, in between the    *)
(* returns of a message that cannot be decoded, and noticing what is not   *)
(* acknowledged, and so does the loop of a replica.                        *)
Redeliver == \E e \in Event : ~Undecodable(e) /\ \E w \in Worker : Deliver(w, e)
AckWaits == \E e \in Event : ~Undecodable(e) /\ ~Held(e) /\ AckWaitExpires(e)

Fairness ==
    /\ SF_vars(Redeliver) /\ WF_vars(AckWaits)
    /\ \A w \in Worker : WF_vars(consume(w))

FairSpec == Spec /\ Fairness
-----------------------------------------------------------------------------
(* Properties. *)

Upserts(e) ==
    phase[e] \notin {"unknown", "undecodable"} /\ action[e] \notin {"resolved", "unsupported"}
Upserted == {e \in applied : Upserts(e)}
Stamps(e, c) == c[1] = phase[e] /\ c[2] \in {"any", gateway[e]}
FlowOf(e) == CASE phase[e] = "parties" -> 1 [] phase[e] = "quotes" -> 2 [] phase[e] = "transfers" -> 3

IsLeast(v, T) == IF T = {} THEN v = None ELSE v \in T /\ \A t \in T : v <= t
IsGreatest(v, T) == IF T = {} THEN v = None ELSE v \in T /\ \A t \in T : t <= v

Requests(c) == {e \in Upserted : action[e] = "request" /\ Stamps(e, c)}
Responses(c) == {e \in Upserted : action[e] # "request" /\ Stamps(e, c)}
Staged == {e \in Upserted : action[e] # "request" /\ phase[e] # "patch"}

(* The row is the merge of the set of messages the database has executed:  *)
(* in whatever order they came, however often each, and by however many    *)
(* replicas at once, each request column holds the earliest request, each  *)
(* response column the latest response or error, flow the furthest stage   *)
(* answered, and error whether there was any.                              *)
RowIsMerge ==
    /\ IsLeast(row.startedAt, {occurredAt[e] : e \in Upserted})
    /\ \A c \in Column :
          /\ IsLeast(row.requestedAt[c], {occurredAt[e] : e \in Requests(c)})
          /\ IsGreatest(row.respondedAt[c], {occurredAt[e] : e \in Responses(c)})
    /\ IsGreatest(row.flow, {FlowOf(e) : e \in Staged})
    /\ row.error <=> \E e \in Upserted : action[e] = "error"

(* A message is acknowledged only when the database has executed it (a     *)
(* resolution by another gateway, or malformed, is ignored), and dropped   *)
(* only when its phase is unknown, the database rejects it, or it was      *)
(* delivered MaxDeliveryAttempts times.                                    *)
SettledIsRecorded ==
    /\ \A e \in acked : e \in applied \/ Ignored(e)
    /\ \A e \in terminated :
          phase[e] = "unknown" \/ e \in Unstorable \/ deliveries[e] = MaxDeliveryAttempts
    /\ applied \cap Unstorable = {}

Disputed(e) == phase[e] = "patch" /\ action[e] = "error"
Resolves(e) == action[e] = "resolved" /\ ~Ignored(e)

(* A PATCH the payee refused stays visible as a possible dispute until     *)
(* somebody resolves it; nothing else raises or resolves one.              *)
DisputeKept ==
    /\ (\E e \in applied : Disputed(e)) => row.possibleDispute \/ row.disputeResolvedAt # None
    /\ row.possibleDispute => \E e \in applied : Disputed(e)
    /\ row.disputeResolvedAt # None => \E e \in applied : Resolves(e)

(* The payer is told to accept a quote (or a party) only if that stage was *)
(* answered well, and nothing is recorded of a failure or of the next      *)
(* stage.                                                                  *)
Answered(p) == \E e \in applied : phase[e] = p /\ action[e] = "response"

WaitingIsTrue ==
    /\ toCurrentState(row) = "WaitingForQuoteAcceptance" =>
          /\ Answered("quotes")
          /\ \A e \in applied : phase[e] # "transfers" /\ action[e] # "error"
    /\ toCurrentState(row) = "WaitingForPartyAcceptance" =>
          /\ Answered("parties")
          /\ \A e \in applied : phase[e] # "quotes" /\ action[e] # "error"

(* A transfer reported as aborted is never again reported as anything but  *)
(* aborted, or completed.                                                  *)
AbortedStays ==
    [][toCurrentState(row) = "Aborted" => toCurrentState(row') \in {"Aborted", "Completed"}]_vars

(* The invariant that is inductive: what the place of a handler says about *)
(* the message it holds, and the messages the database can have executed.  *)
WorkerState(w) ==
    /\ at[w] = None <=> pc[w] = "idle"
    /\ at[w] # None => /\ attempt[w] <= deliveries[at[w]]
                       /\ at[w] \in Published
    /\ pc[w] = "ack" => at[w] \in applied \/ Ignored(at[w])
    /\ pc[w] = "rejected" => at[w] \in Unstorable

Workers == \A w \in Worker : WorkerState(w)

Executed == \A e \in applied : Upserts(e) \/ Resolves(e)

Inv ==
    /\ TypeOK /\ Workers /\ Executed
    /\ RowIsMerge /\ SettledIsRecorded /\ DisputeKept

=============================================================================
