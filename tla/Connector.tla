------------------------------ MODULE Connector ------------------------------
(***************************************************************************)
(* The payee side: web-inbound queues the Hub's requests (GET /parties,    *)
(* POST /quotes, POST and PATCH /transfers) in JetStream, and the replicas *)
(* of a connector, which share a durable consumer, call the payee FSP and  *)
(* answer the Hub.                                                         *)
(*                                                                         *)
(* The durable consumer acknowledges explicitly and sets no ack_wait or    *)
(* max_deliver, so that JetStream redelivers, without limit, a message     *)
(* that is not acknowledged in time: its holder is slow, has it still      *)
(* buffered behind other messages, or has died.                            *)
(***************************************************************************)
EXTENDS Integers, FiniteSets

CONSTANTS
    Message,    \* the Hub's requests for one payee
    kind,       \* the resource each one is about
    Worker,     \* listeners of the connector's replicas
    None,       \* no message
    MaxFaults   \* bound: failures, expiries and deaths together

ASSUME ConstantsAssumption ==
    /\ kind \in [Message -> {"parties", "quotes", "transfers", "patch"}]
    /\ None \notin Message
    /\ MaxFaults \in Nat

-----------------------------------------------------------------------------
VARIABLES
    queued,       \* messages in the stream that are not acknowledged
    settled,      \* messages that are
    outstanding,  \* queued messages whose acknowledgement is awaited
    buffer,       \* what each worker has been sent and not looked at
    at,           \* the message each worker is handling, or None
    pc,           \* where its handler is
    error,        \* the error its handler has caught
    tried,        \* messages for which the FSP was called
    again,        \* messages for which it was called more than once
    processed,    \* messages the FSP has processed
    refused,      \* messages the FSP has refused with an FspiopException
    answers,      \* <<message, outcome>> the Hub has received
    attempted,    \* messages for which an answer to the Hub was tried
    audit,        \* <<message, type>> in the audit stream
    disturbed,    \* messages that met a failure
    faults        \* number of failures so far

vars == <<queued, settled, outstanding, buffer, at, pc, error, tried, again,
          processed, refused, answers, attempted, audit, disturbed, faults>>

stream == <<queued, settled, outstanding>>
effects == <<tried, again, processed, refused, answers, attempted>>

(* The type of the state. *)
TypeOK ==
    /\ queued \subseteq Message
    /\ settled \subseteq Message
    /\ outstanding \subseteq Message
    /\ buffer \in [Worker -> SUBSET Message]
    /\ at \in [Worker -> Message \cup {None}]
    /\ pc \in [Worker -> {"idle", "audit", "call", "put", "respond", "putError", "auditError",
                          "caught"}]
    /\ error \in [Worker -> {"none", "fspiop", "fspClient", "other"}]
    /\ tried \subseteq Message
    /\ again \subseteq Message
    /\ processed \subseteq Message
    /\ refused \subseteq Message
    /\ answers \subseteq Message \X {"result", "error"}
    /\ attempted \subseteq Message
    /\ audit \subseteq Message \X {"request", "response", "error"}
    /\ disturbed \subseteq Message
    /\ faults \in Nat

Init ==
    /\ queued = {} /\ settled = {} /\ outstanding = {}
    /\ buffer = [w \in Worker |-> {}]
    /\ at = [w \in Worker |-> None]
    /\ pc = [w \in Worker |-> "idle"]
    /\ error = [w \in Worker |-> "none"]
    /\ tried = {} /\ again = {} /\ processed = {} /\ refused = {}
    /\ answers = {} /\ attempted = {}
    /\ audit = {}
    /\ disturbed = {}
    /\ faults = 0

(* Something goes wrong while m is handled. *)
Fault(m) ==
    /\ faults < MaxFaults
    /\ faults' = faults + 1
    /\ disturbed' = disturbed \cup {m}

NoFault == UNCHANGED <<faults, disturbed>>

Goto(w, l) == pc' = [pc EXCEPT ![w] = l]
Caught(w, l, e) == Goto(w, l) /\ error' = [error EXCEPT ![w] = e]

-----------------------------------------------------------------------------
(* web-inbound publishes the request on the payee's subject of the stream. *)
Accept(m) ==
    /\ m \notin queued \cup settled
    /\ queued' = queued \cup {m}
    /\ UNCHANGED <<settled, outstanding, buffer, at, pc, error, effects, audit>>
    /\ NoFault

(* The handlers of web-inbound, which return an error to the Hub when they *)
(* cannot publish. All but GET /parties audit the request before; one that *)
(* was audited and not published is one never queued.                      *)
HandleGetParties(m) == kind[m] = "parties" /\ Accept(m)
HandlePost(m) == kind[m] \in {"quotes", "transfers"} /\ Accept(m)
HandlePatchTransfers(m) == kind[m] = "patch" /\ Accept(m)

Receive(m) ==
    HandleGetParties(m) \/ HandlePost(m) \/ HandlePatchTransfers(m)

(* JetStream sends the message to some worker of the durable consumer. *)
Deliver(w, m) ==
    /\ m \in queued \ outstanding
    /\ outstanding' = outstanding \cup {m}
    /\ buffer' = [buffer EXCEPT ![w] = @ \cup {m}]
    /\ UNCHANGED <<queued, settled, at, pc, error, effects, audit>>
    /\ NoFault

Held(m) == \E w \in Worker : at[w] = m \/ m \in buffer[w]

(* ack_wait has passed: the message may be delivered again. It is a        *)
(* failure only if a worker still has it.                                  *)
AckWaitExpires(m) ==
    /\ m \in outstanding
    /\ outstanding' = outstanding \ {m}
    /\ IF Held(m) THEN Fault(m) ELSE NoFault
    /\ UNCHANGED <<queued, settled, buffer, at, pc, error, effects, audit>>

(* The consume loop handles one message after the other. *)
consume(w, m) ==
    /\ at[w] = None
    /\ m \in buffer[w]
    /\ buffer' = [buffer EXCEPT ![w] = @ \ {m}]
    /\ at' = [at EXCEPT ![w] = m]
    /\ Goto(w, "audit")
    /\ UNCHANGED <<stream, error, effects, audit>>
    /\ NoFault

Finish(w) ==
    /\ at' = [at EXCEPT ![w] = None]
    /\ Caught(w, "idle", "none")

(* Mutant: the message is not acknowledged. *)
AckForgotten(w) ==
    /\ outstanding' = outstanding \ {at[w]}
    /\ Finish(w)
    /\ UNCHANGED <<queued, settled>>

(* Acknowledging a message that is settled already changes nothing. *)
Ack(w) ==
    /\ queued' = queued \ {at[w]}
    /\ settled' = settled \cup {at[w]}
    /\ outstanding' = outstanding \ {at[w]}
    /\ Finish(w)

Nak(w) ==
    /\ outstanding' = outstanding \ {at[w]}
    /\ Finish(w)
    /\ UNCHANGED <<queued, settled>>

-----------------------------------------------------------------------------
(* Mutant: a request that cannot be audited is acknowledged.               *)
AuditRequestAck(w) ==
    /\ pc[w] = "audit"
    /\ \/ /\ audit' = audit \cup {<<at[w], "request">>}
          /\ Goto(w, "call")
          /\ UNCHANGED <<stream, at, error>>
          /\ NoFault
       \/ /\ Ack(w)
          /\ Fault(at[w])
          /\ UNCHANGED audit
    /\ UNCHANGED <<buffer, effects>>

(* The perform handlers. The request is audited before anything else; when *)
(* that fails the message is returned. A failed publish may have reached   *)
(* the stream.                                                             *)
AuditRequest(w) ==
    /\ pc[w] = "audit"
    /\ \/ /\ audit' = audit \cup {<<at[w], "request">>}
          /\ Goto(w, "call")
          /\ UNCHANGED <<stream, at, error>>
          /\ NoFault
       \/ /\ audit' \in {audit, audit \cup {<<at[w], "request">>}}
          /\ Nak(w)
          /\ Fault(at[w])
    /\ UNCHANGED <<buffer, effects>>

(* Where an error of the try block leads: the catch block of a callback    *)
(* handler first answers with an error; that of patch-transfers audits     *)
(* what the FSP said, if it did.                                           *)
CatchAt(m, e) ==
    IF kind[m] # "patch" THEN "putError"
    ELSE IF e = "fspClient" THEN "auditError" ELSE "caught"

(* An error with which the FSP refuses for good: a PATCH refused with an   *)
(* FspClientException will be returned to the queue.                       *)
Refusal(m) == IF kind[m] = "patch" THEN {"fspiop"} ELSE {"fspiop", "fspClient"}

(* The FSP is called: it processes the request, refuses it (validation     *)
(* does so as well), or fails, and then may have processed it.             *)
CallFsp(w) ==
    /\ pc[w] = "call"
    /\ tried' = tried \cup {at[w]}
    /\ again' = again \cup (tried \cap {at[w]})
    /\ \/ /\ processed' = processed \cup {at[w]}
          /\ Goto(w, IF kind[at[w]] = "patch" THEN "respond" ELSE "put")
          /\ UNCHANGED <<error, refused>>
          /\ NoFault
       \/ \E e \in Refusal(at[w]) :
             /\ refused' = refused \cup {at[w]}
             /\ Caught(w, CatchAt(at[w], e), e)
             /\ UNCHANGED processed
             /\ NoFault
       \/ \E e \in {"fspClient", "other"} :
             /\ processed' \in {processed, processed \cup {at[w]}}
             /\ Caught(w, CatchAt(at[w], e), e)
             /\ UNCHANGED refused
             /\ Fault(at[w])
    /\ UNCHANGED <<stream, buffer, at, answers, attempted, audit>>

(* The result is PUT to the Hub; a PUT that fails may have arrived.        *)
PutResult(w) ==
    /\ pc[w] = "put"
    /\ attempted' = attempted \cup {at[w]}
    /\ \/ /\ answers' = answers \cup {<<at[w], "result">>}
          /\ Goto(w, "respond")
          /\ UNCHANGED error
          /\ NoFault
       \/ /\ answers' \in {answers, answers \cup {<<at[w], "result">>}}
          /\ Caught(w, "putError", "other")
          /\ Fault(at[w])
    /\ UNCHANGED <<stream, buffer, at, tried, again, processed, refused, audit>>

(* The response is audited inside the same try block, and the message      *)
(* acknowledged.                                                           *)
AuditResponse(w) ==
    /\ pc[w] = "respond"
    /\ \/ /\ audit' = audit \cup {<<at[w], "response">>}
          /\ Ack(w)
          /\ NoFault
       \/ /\ audit' \in {audit, audit \cup {<<at[w], "response">>}}
          /\ Caught(w, CatchAt(at[w], "other"), "other")
          /\ Fault(at[w])
          /\ UNCHANGED <<stream, at>>
    /\ UNCHANGED <<buffer, effects>>

(* The catch block of a callback handler: the Hub gets an error, whatever  *)
(* it got before.                                                          *)
PutError(w) ==
    /\ pc[w] = "putError"
    /\ attempted' = attempted \cup {at[w]}
    /\ \/ /\ answers' = answers \cup {<<at[w], "error">>}
          /\ NoFault
       \/ /\ answers' \in {answers, answers \cup {<<at[w], "error">>}}
          /\ Fault(at[w])
    /\ Goto(w, "auditError")
    /\ UNCHANGED <<stream, buffer, at, error, tried, again, processed, refused, audit>>

(* The error is audited. A callback handler swallows a failure and throws  *)
(* an FspiopException in any case; that of patch-transfers throws it.      *)
AuditError(w) ==
    /\ pc[w] = "auditError"
    /\ \/ /\ audit' = audit \cup {<<at[w], "error">>}
          /\ Caught(w, "caught", IF kind[at[w]] = "patch" THEN error[w] ELSE "fspiop")
          /\ NoFault
       \/ /\ audit' \in {audit, audit \cup {<<at[w], "error">>}}
          /\ Caught(w, "caught", IF kind[at[w]] = "patch" THEN "other" ELSE "fspiop")
          /\ Fault(at[w])
    /\ UNCHANGED <<stream, buffer, at, effects>>

(* Mutants: every failed message is acknowledged; the loop ends with an    *)
(* error that is no FspiopException.                                       *)
SettleAlways(w) ==
    /\ pc[w] = "caught"
    /\ Ack(w)
    /\ UNCHANGED <<buffer, effects, audit>>
    /\ NoFault

SettleOrStop(w) ==
    /\ pc[w] = "caught"
    /\ error[w] = "fspiop"
    /\ Ack(w)
    /\ UNCHANGED <<buffer, effects, audit>>
    /\ NoFault

(* The listener acknowledges a message that failed with an FspiopException *)
(* and returns any other.                                                  *)
Settle(w) ==
    /\ pc[w] = "caught"
    /\ IF error[w] = "fspiop" THEN Ack(w) ELSE Nak(w)
    /\ UNCHANGED <<buffer, effects, audit>>
    /\ NoFault

(* The replica dies and is restarted; what it held is unacknowledged.      *)
Crash(w) ==
    /\ at[w] # None \/ buffer[w] # {}
    /\ Finish(w)
    /\ buffer' = [buffer EXCEPT ![w] = {}]
    /\ faults < MaxFaults
    /\ faults' = faults + 1
    /\ disturbed' = disturbed \cup ({at[w]} \ {None})
    /\ UNCHANGED <<stream, effects, audit>>

Handle(w) ==
    \/ AuditRequest(w) \/ CallFsp(w) \/ PutResult(w) \/ AuditResponse(w)
    \/ PutError(w) \/ AuditError(w) \/ Settle(w)

Next ==
    \/ \E m \in Message : Receive(m) \/ AckWaitExpires(m)
    \/ \E w \in Worker, m \in Message : Deliver(w, m) \/ consume(w, m)
    \/ \E w \in Worker : Handle(w) \/ Crash(w)

Spec == Init /\ [][Next]_vars

(* JetStream delivers what is not outstanding and notices what is not      *)
(* acknowledged; a worker gets to every message it was sent, in turn, and  *)
(* its handler runs to its end. Failures are bounded, the answers of the   *)
(* FSP and the Hub are not assumed to be good.                             *)
Fairness ==
    /\ \A m \in Message :
          /\ WF_vars(\E w \in Worker : Deliver(w, m))
          /\ WF_vars(~Held(m) /\ AckWaitExpires(m))
    /\ \A w \in Worker :
          /\ WF_vars(Handle(w))
          /\ \A m \in Message : WF_vars(consume(w, m))

FairSpec == Spec /\ Fairness
-----------------------------------------------------------------------------
(* Properties. *)

(* The queue keeps the promise of WorkQueue: no accepted request is lost   *)
(* or settled without the FSP having been called, whatever fails.          *)
Queue == INSTANCE WorkQueue WITH queued <- queued, settled <- settled, tried <- tried

QueuePromise == Queue!Spec

Callback(m) == kind[m] # "patch"

(* A settled request has had its effect: an answer to the Hub was tried    *)
(* for GET /parties, POST /quotes and POST /transfers, and a PATCH was     *)
(* processed by the FSP or refused with an FspiopException.                *)
SettledHasEffect ==
    \A m \in settled :
        IF Callback(m) THEN m \in attempted ELSE m \in processed \cup refused

(* The Hub is told of a result only if the FSP has processed the request,  *)
(* and the FSP is called only for a request the audit trail has.           *)
ResultIsReal ==
    /\ \A m \in Message : <<m, "result">> \in answers => m \in processed
    /\ \A m \in tried : <<m, "request">> \in audit

Once(m) ==
    /\ m \notin again
    /\ m \notin processed \cap refused
    /\ <<m, "error">> \in answers => m \in refused
    /\ m \in settled /\ Callback(m) =>
          IF m \in processed THEN <<m, "result">> \in answers
                            ELSE <<m, "error">> \in answers

(* Without a failure that concerns it, a request is handled exactly once:  *)
(* the FSP is called once, and the Hub gets one outcome, the one that      *)
(* tells what the FSP did.                                                 *)
ExactlyOnce == \A m \in Message \ disturbed : Once(m)

(* The invariant that is inductive. The stream's own state, and what a     *)
(* worker has done by where it is.                                         *)
StreamState ==
    /\ outstanding \subseteq queued
    /\ queued \cap settled = {}
    /\ tried \subseteq queued \cup settled
    /\ settled \subseteq tried
    /\ \A w \in Worker :
        /\ buffer[w] \subseteq queued \cup settled
        /\ at[w] # None => at[w] \in queued \cup settled
        /\ at[w] = None <=> pc[w] = "idle"

Done(w, m) ==
    /\ pc[w] # "audit" => <<m, "request">> \in audit
    /\ pc[w] \notin {"audit", "call"} => m \in tried
    /\ pc[w] \in {"put", "respond"} => m \in processed
    /\ Callback(m) => /\ pc[w] \in {"respond", "auditError", "caught"} => m \in attempted
                      /\ pc[w] = "caught" => error[w] = "fspiop"
    /\ ~Callback(m) => /\ pc[w] \notin {"put", "putError"}
                       /\ pc[w] = "auditError" => error[w] # "fspiop"
                       /\ pc[w] = "caught" /\ error[w] = "fspiop" => m \in refused

WorkersDone == \A w \in Worker : at[w] # None => Done(w, at[w])

(* A request without failures has one holder at most, which is awaited,    *)
(* and has been tried only if it is settled or its holder is past the call.*)
Holds(w, m) == at[w] = m \/ m \in buffer[w]

AtUndisturbed(w, m) ==
    /\ m \notin buffer[w]
    /\ pc[w] \in {"put", "respond"} => m \notin refused
    /\ pc[w] \in {"putError", "auditError", "caught"} =>
          m \in refused /\ m \notin processed /\ (pc[w] = "caught" => error[w] = "fspiop")
    /\ Callback(m) =>
          /\ pc[w] = "respond" => <<m, "result">> \in answers
          /\ pc[w] \in {"auditError", "caught"} => <<m, "error">> \in answers
    /\ ~Callback(m) => pc[w] # "auditError"

OneHolder ==
    \A m \in Message \ disturbed :
        /\ \A v, w \in Worker : Holds(v, m) /\ Holds(w, m) => v = w
        /\ \A w \in Worker : Holds(w, m) => m \in outstanding
        /\ \A w \in Worker : at[w] = m => AtUndisturbed(w, m)
        /\ m \in tried =>
              \/ m \in settled
              \/ \E w \in Worker : at[w] = m /\ pc[w] \notin {"audit", "call"}
        /\ m \notin tried => m \notin processed \cup refused

Inv ==
    /\ TypeOK /\ StreamState /\ WorkersDone /\ OneHolder
    /\ SettledHasEffect /\ ResultIsReal /\ ExactlyOnce

(* Every accepted request is settled once failures stop.                   *)
EverySettled == \A m \in Message : m \in queued ~> m \in settled
=============================================================================
