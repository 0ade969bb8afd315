------------------------------ MODULE SendMoney ------------------------------
(***************************************************************************)
(* The send-money handlers of web-outbound for one transferId: POST        *)
(* /secured/sendmoney, which looks up the payee and caches the transfer in *)
(* Redis, and any number of PUTs (the client's own and the gateway's       *)
(* retries, on any replica) that accept the party (POST /quotes to the     *)
(* Hub) or the quote (POST /transfers, the leg that moves money). PUTs are *)
(* serialised by a Redis lock with a TTL.                                  *)
(*                                                                         *)
(* Every await is a step boundary. Time passes in ticks: `waited` counts   *)
(* the ticks since the request to the Hub was sent, where the HTTP timeout *)
(* and the callback timer start together, and `overhead` those a handler   *)
(* spends on everything else (Redis, the audit publisher).                 *)
(*                                                                         *)
(* A wait for a callback is what ResponseSubscriber promises of one whose  *)
(* subject is unique: it ends with a callback or with the timer.           *)
(***************************************************************************)
EXTENDS Integers, FiniteSets

CONSTANTS
    Put,           \* the PUT requests for the transfer
    Post,          \* the POST request that creates it
    kind,          \* what each request asks for
    None,          \* null
    WaitTimeout,   \* FspiopResponseSubscriber.DEFAULT_TIMEOUT_MS
    HttpTimeout,   \* FSPIOP_SOCKET_TIMEOUT_MS
    LockTtl,       \* IN_FLIGHT_LOCK_TTL_MS
    MaxOverhead    \* bound: ticks a handler spends outside the wait

Handler == Put \cup {Post}
Kind == {"sendMoney", "acceptParty", "acceptQuote"}

ASSUME ConstantsAssumption ==
    /\ Post \notin Put /\ None \notin Handler
    /\ kind \in [Handler -> Kind]
    /\ kind[Post] = "sendMoney"
    /\ \A h \in Put : kind[h] # "sendMoney"
    /\ WaitTimeout \in Nat /\ HttpTimeout \in Nat
    /\ LockTtl \in Nat \ {0} /\ MaxOverhead \in Nat

(* The lock outlives the longest work it guards: what the handlers'        *)
(* comment on IN_FLIGHT_LOCK_TTL_MS asks for.                              *)
LockOutlivesWork ==
    /\ MaxOverhead + WaitTimeout < LockTtl
    /\ MaxOverhead + HttpTimeout < LockTtl

(* What Redis keeps of the transfer: whether the quote and the transfer    *)
(* callback have been stored in it.                                        *)
TransferRequest == [quotes : BOOLEAN, transfer : BOOLEAN]

ASSUME NullAssumption == None \notin TransferRequest

-----------------------------------------------------------------------------
VARIABLES
    cache,      \* the cached transfer in Redis, or None
    lock,       \* the handler whose token the lock holds, or None
    lockAge,    \* ticks since the lock was taken
    pc,         \* where each handler is
    req,        \* the handler's copy of the cached transfer, or None
    reply,      \* how the handler's wait for the callback ended
    waited,     \* ticks since the handler sent its request to the Hub
    overhead,   \* ticks the handler spent elsewhere
         \* how many requests of each kind were sent to the Hub
    sent,       \* the handlers that sent their request to the Hub
    audit,      \* audit messages published: <<handler, type>>
    result,     \* what the handler answered
    faulty      \* a replica crashed or Redis failed to delete the transfer

vars == <<cache, lock, lockAge, pc, req, reply, waited, overhead, sent,
          audit, result, faulty>>

Location == {"idle", "get", "home", "audit", "try", "posting", "awaiting", "save",
             "respond", "delete", "fail", "clear", "finish", "done", "crashed"}

(* The type of the state. *)
TypeOK ==
    /\ cache \in TransferRequest \cup {None}
    /\ lock \in Put \cup {None}
    /\ lockAge \in Nat
    /\ pc \in [Handler -> Location]
    /\ req \in [Handler -> TransferRequest \cup {None}]
    /\ reply \in [Handler -> {"none", "ok", "error", "timeout"}]
    /\ waited \in [Handler -> Nat]
    /\ overhead \in [Handler -> Nat]
    /\ sent \subseteq Handler
    /\ audit \subseteq Handler \X {"request", "response"}
    /\ result \in [Handler -> {"none", "ok", "failed", "rejected"}]
    /\ faulty \in BOOLEAN

Init ==
    /\ cache = None
    /\ lock = None
    /\ lockAge = 0
    /\ pc = [h \in Handler |-> "idle"]
    /\ req = [h \in Handler |-> None]
    /\ reply = [h \in Handler |-> "none"]
    /\ waited = [h \in Handler |-> 0]
    /\ overhead = [h \in Handler |-> 0]
    /\ sent = {}
    /\ audit = {}
    /\ result = [h \in Handler |-> "none"]
    /\ faulty = FALSE

Goto(h, l) == pc' = [pc EXCEPT ![h] = l]

Return(h, r) ==
    /\ result' = [result EXCEPT ![h] = r]
    /\ Goto(h, "finish")

Publish(h, type) == audit' = audit \cup {<<h, type>>}

-----------------------------------------------------------------------------
(* POST /secured/sendmoney: the amount is validated before anything else.  *)
StartPost ==
    /\ pc[Post] = "idle"
    /\ \/ Goto(Post, "audit") /\ UNCHANGED result
       \/ Return(Post, "rejected")
    /\ UNCHANGED <<cache, lock, lockAge, req, reply, waited, overhead, sent, audit, faulty>>

(* A PUT takes the lock, or is rejected without touching the Hub. Its      *)
(* client knows the transferId from the POST's answer.                     *)
AcquireLock(h) ==
    /\ h \in Put
    /\ pc[h] = "idle"
    /\ pc[Post] = "done" /\ result[Post] = "ok"
    /\ IF lock = None
       THEN /\ lock' = h
            /\ lockAge' = 0
            /\ Goto(h, "get")
            /\ UNCHANGED result
       ELSE /\ result' = [result EXCEPT ![h] = "rejected"]
            /\ Goto(h, "done")
            /\ UNCHANGED <<lock, lockAge>>
    /\ UNCHANGED <<cache, req, reply, waited, overhead, sent, audit, faulty>>

(* Redis took the lock but its answer was lost: the handler fails before   *)
(* the try block, and only the TTL frees the lock.                         *)
AcquireLockLost(h) ==
    /\ h \in Put
    /\ pc[h] = "idle"
    /\ pc[Post] = "done" /\ result[Post] = "ok"
    /\ lock = None
    /\ lock' = h
    /\ lockAge' = 0
    /\ result' = [result EXCEPT ![h] = "failed"]
    /\ Goto(h, "done")
    /\ UNCHANGED <<cache, req, reply, waited, overhead, sent, audit, faulty>>

(* Rejected before the try block: nothing is deleted.                      *)
GetFails(h) ==
    /\ pc[h] = "get"
    /\ Return(h, "failed")
    /\ UNCHANGED <<cache, lock, lockAge, req, reply, waited, overhead, sent, audit, faulty>>

(* The guards of executeLocked against a transfer that is unknown or in    *)
(* the wrong phase; also the validations that depend on the caller's       *)
(* input only (fspiop-source, fees, amount, routing).                      *)
AlreadyDone(h, t) ==
    IF kind[h] = "acceptParty" THEN t.quotes ELSE t.transfer

GetRejects(h) ==
    /\ pc[h] = "get"
    /\ Return(h, "rejected")
    /\ UNCHANGED <<cache, lock, lockAge, req, reply, waited, overhead, sent, audit, faulty>>

(* Mutants: acceptParty accepts a transfer that has its quote; acceptQuote *)
(* one that has none.                                                      *)
GetAcceptPartyAgain(h) ==
    /\ pc[h] = "get"
    /\ kind[h] = "acceptParty"
    /\ cache # None
    /\ req' = [req EXCEPT ![h] = cache]
    /\ Goto(h, "audit")
    /\ UNCHANGED <<cache, lock, lockAge, reply, waited, overhead, sent, audit, result, faulty>>

GetAcceptQuoteUnquoted(h) ==
    /\ pc[h] = "get"
    /\ kind[h] = "acceptQuote"
    /\ cache # None
    /\ req' = [req EXCEPT ![h] = cache]
    /\ Goto(h, "audit")
    /\ UNCHANGED <<cache, lock, lockAge, reply, waited, overhead, sent, audit, result, faulty>>

(* acceptParty goes on to the audit record; acceptQuote may first store    *)
(* the homeTransactionId and needs a stored quote.                         *)
GetAcceptParty(h) ==
    /\ pc[h] = "get"
    /\ kind[h] = "acceptParty"
    /\ cache # None
    /\ ~AlreadyDone(h, cache)
    /\ req' = [req EXCEPT ![h] = cache]
    /\ Goto(h, "audit")
    /\ UNCHANGED <<cache, lock, lockAge, reply, waited, overhead, sent, audit, result, faulty>>

GetAcceptQuote(h) ==
    /\ pc[h] = "get"
    /\ kind[h] = "acceptQuote"
    /\ cache # None
    /\ ~AlreadyDone(h, cache)
    /\ req' = [req EXCEPT ![h] = cache]
    /\ \/ Goto(h, "home") /\ UNCHANGED result
       \/ cache.quotes /\ Goto(h, "audit") /\ UNCHANGED result
       \/ ~cache.quotes /\ Return(h, "rejected")
    /\ UNCHANGED <<cache, lock, lockAge, reply, waited, overhead, sent, audit, faulty>>

(* redisClient.set with the homeTransactionId, then the check for a quote  *)
(* and the amount. A failed SET may have been applied.                     *)
SetHomeTransactionId(h) ==
    /\ pc[h] = "home"
    /\ \/ /\ cache' = req[h]
          /\ \/ req[h].quotes /\ Goto(h, "audit") /\ UNCHANGED result
             \/ Return(h, "rejected")
       \/ cache' \in {cache, req[h]} /\ Return(h, "failed")
    /\ UNCHANGED <<lock, lockAge, req, reply, waited, overhead, sent, audit, faulty>>

(* The request is audited: inside the try block for the POST, before it    *)
(* for a PUT.                                                              *)
AuditRequest(h) ==
    /\ pc[h] = "audit"
    /\ Publish(h, "request")
    /\ Goto(h, "try")
    /\ UNCHANGED <<cache, lock, lockAge, req, reply, waited, overhead, sent, result, faulty>>

(* Mutant: the failure of the audit record is ignored. *)
AuditRequestFailsOpen(h) ==
    /\ pc[h] = "audit"
    /\ Goto(h, "try")
    /\ UNCHANGED <<cache, lock, lockAge, req, reply, waited, overhead, sent, audit, result, faulty>>

AuditRequestFails(h) ==
    /\ pc[h] = "audit"
    /\ IF h = Post THEN Goto(h, "fail") /\ UNCHANGED result
                   ELSE Return(h, "failed")
    /\ UNCHANGED <<cache, lock, lockAge, req, reply, waited, overhead, sent, audit, faulty>>

(* Declined by the payer, suspicious, or the monitor's Redis call failed. *)
Refuse(h) ==
    /\ pc[h] = "try"
    /\ h # Post
    /\ Goto(h, "fail")
    /\ UNCHANGED <<cache, lock, lockAge, req, reply, waited, overhead, sent, audit, result, faulty>>

(* waitFor() and the HTTP request to the Hub, started together. *)
SendToHub(h) ==
    /\ pc[h] = "try"
    /\ Goto(h, "posting")
    /\ sent' = sent \cup {h}
    /\ UNCHANGED <<cache, lock, lockAge, req, reply, waited, overhead, audit, result, faulty>>

HttpAccepted(h) ==
    /\ pc[h] = "posting"
    /\ Goto(h, "awaiting")
    /\ UNCHANGED <<cache, lock, lockAge, req, reply, waited, overhead, sent, audit, result, faulty>>

HttpFailed(h) ==
    /\ pc[h] = "posting"
    /\ Goto(h, "fail")
    /\ UNCHANGED <<cache, lock, lockAge, req, reply, waited, overhead, sent, audit, result, faulty>>

(* The Hub's callback, or the timer, settles the wait. *)
Callback(h) ==
    /\ pc[h] \in {"posting", "awaiting"}
    /\ reply[h] = "none"
    /\ \E r \in {"ok", "error"} : reply' = [reply EXCEPT ![h] = r]
    /\ UNCHANGED <<cache, lock, lockAge, pc, req, waited, overhead, sent, audit, result, faulty>>

WaitTimesOut(h) ==
    /\ pc[h] \in {"posting", "awaiting"}
    /\ reply[h] = "none"
    /\ waited[h] >= WaitTimeout
    /\ reply' = [reply EXCEPT ![h] = "timeout"]
    /\ UNCHANGED <<cache, lock, lockAge, pc, req, waited, overhead, sent, audit, result, faulty>>

(* Mutant: only a callback ends the await. *)
AwaitReturnsOnCallback(h) ==
    /\ pc[h] = "awaiting"
    /\ reply[h] \in {"ok", "error"}
    /\ Goto(h, "fail")
    /\ UNCHANGED <<cache, lock, lockAge, req, reply, waited, overhead, sent, audit, result, faulty>>

(* The callback's content goes into the handler's copy: the party without  *)
(* a quote, the quote, or the transfer of a quote.                         *)
WithCallback(k) == [quotes |-> k # "sendMoney", transfer |-> k = "acceptQuote"]

(* A party without an FSP id fails the POST. *)
AwaitReturns(h) ==
    /\ pc[h] = "awaiting"
    /\ reply[h] # "none"
    /\ \/ /\ reply[h] = "ok"
          /\ req' = [req EXCEPT ![h] = WithCallback(kind[h])]
          /\ Goto(h, IF kind[h] = "acceptQuote" THEN "respond" ELSE "save")
       \/ /\ reply[h] # "ok" \/ h = Post
          /\ Goto(h, "fail")
          /\ UNCHANGED req
    /\ UNCHANGED <<cache, lock, lockAge, reply, waited, overhead, sent, audit, result, faulty>>

(* redisClient.set. A failed SET may have been applied. *)
Save(h) ==
    /\ pc[h] = "save"
    /\ \/ cache' = req[h] /\ Goto(h, "respond")
       \/ cache' \in {cache, req[h]} /\ Goto(h, "fail")
    /\ UNCHANGED <<lock, lockAge, req, reply, waited, overhead, sent, audit, result, faulty>>

(* The response is audited; acceptQuote then deletes the transfer.         *)
AuditResponse(h) ==
    /\ pc[h] = "respond"
    /\ Publish(h, "response")
    /\ IF kind[h] = "acceptQuote" THEN Goto(h, "delete") /\ UNCHANGED result
                                  ELSE Return(h, "ok")
    /\ UNCHANGED <<cache, lock, lockAge, req, reply, waited, overhead, sent, faulty>>

AuditResponseFails(h) ==
    /\ pc[h] = "respond"
    /\ Goto(h, "fail")
    /\ UNCHANGED <<cache, lock, lockAge, req, reply, waited, overhead, sent, audit, result, faulty>>

DeleteTransfer(h) ==
    /\ pc[h] = "delete"
    /\ \/ cache' = None /\ Return(h, "ok")
       \/ cache' \in {cache, None} /\ Goto(h, "fail") /\ UNCHANGED result
    /\ UNCHANGED <<lock, lockAge, req, reply, waited, overhead, sent, audit, faulty>>

(* The catch block: the error is audited if possible (a record that        *)
(* nothing here reads), then the transfer is deleted if possible, and the  *)
(* error is thrown in any case.                                            *)
AuditError(h) ==
    /\ pc[h] = "fail"
    /\ Goto(h, "clear")
    /\ UNCHANGED <<cache, lock, lockAge, req, reply, waited, overhead, sent, audit, result, faulty>>

(* Mutant: the transfer stays cached after a failure. *)
ClearTransferNever(h) ==
    /\ pc[h] = "clear"
    /\ Return(h, "failed")
    /\ UNCHANGED <<cache, lock, lockAge, req, reply, waited, overhead, sent, audit, faulty>>

ClearTransfer(h) ==
    /\ pc[h] = "clear"
    /\ \/ cache' = None /\ UNCHANGED faulty
       \/ faulty' = TRUE /\ UNCHANGED cache
    /\ Return(h, "failed")
    /\ UNCHANGED <<lock, lockAge, req, reply, waited, overhead, sent, audit>>

(* The handler's local variables end with it. *)
Leave(h, l) ==
    /\ Goto(h, l)
    /\ req' = [req EXCEPT ![h] = None]
    /\ waited' = [waited EXCEPT ![h] = 0]
    /\ overhead' = [overhead EXCEPT ![h] = 0]

(* The finally block of a PUT: releaseLock deletes the lock only if it     *)
(* still holds this token, and its failure is swallowed. The POST holds no *)
(* lock.                                                                   *)
Finish(h) ==
    /\ pc[h] = "finish"
    /\ \/ lock' = IF lock = h THEN None ELSE lock
       \/ UNCHANGED lock
    /\ Leave(h, "done")
    /\ UNCHANGED <<cache, lockAge, reply, sent, audit, result, faulty>>

Active(h) == pc[h] \notin {"idle", "done", "crashed"}

(* The replica dies. *)
Crash(h) ==
    /\ Active(h)
    /\ Leave(h, "crashed")
    /\ faulty' = TRUE
    /\ UNCHANGED <<cache, lock, lockAge, reply, sent, audit, result>>

(* Redis expires the transfer, or the lock. *)
CacheExpires ==
    /\ cache # None
    /\ cache' = None
    /\ UNCHANGED <<lock, lockAge, pc, req, reply, waited, overhead, sent, audit, result, faulty>>

(* Mutant: the lock never expires. *)
LockExpiresNever == FALSE /\ UNCHANGED vars

LockExpires ==
    /\ lock # None
    /\ lockAge >= LockTtl
    /\ lock' = None
    /\ UNCHANGED <<cache, lockAge, pc, req, reply, waited, overhead, sent, audit, result, faulty>>

(* A handler is in its wait while the HTTP request or the callback is      *)
(* outstanding. Time does not pass a deadline that is due.                 *)
InWait(h) == pc[h] = "posting" \/ (pc[h] = "awaiting" /\ reply[h] = "none")

MayTick(h) ==
    /\ pc[h] = "posting" => waited[h] < HttpTimeout
    /\ InWait(h) /\ reply[h] = "none" => waited[h] < WaitTimeout
    /\ Active(h) /\ ~InWait(h) => overhead[h] < MaxOverhead

Tick ==
    /\ lock # None \/ \E h \in Handler : Active(h)
    /\ lock # None => lockAge < LockTtl
    /\ \A h \in Handler : MayTick(h)
    /\ lockAge' = IF lock # None THEN lockAge + 1 ELSE lockAge
    /\ waited' = [h \in Handler |-> IF InWait(h) THEN waited[h] + 1 ELSE waited[h]]
    /\ overhead' = [h \in Handler |->
          IF Active(h) /\ ~InWait(h) THEN overhead[h] + 1 ELSE overhead[h]]
    /\ UNCHANGED <<cache, lock, pc, req, reply, sent, audit, result, faulty>>

HttpReturns(h) == HttpAccepted(h) \/ HttpFailed(h)

(* The steps a handler takes by itself once it is scheduled. *)
Proceed(h) ==
    \/ GetFails(h) \/ GetRejects(h) \/ GetAcceptParty(h) \/ GetAcceptQuote(h)
    \/ SetHomeTransactionId(h) \/ AuditRequest(h) \/ AuditRequestFails(h)
    \/ Refuse(h) \/ SendToHub(h) \/ AwaitReturns(h) \/ Save(h)
    \/ AuditResponse(h) \/ AuditResponseFails(h) \/ DeleteTransfer(h)
    \/ AuditError(h) \/ ClearTransfer(h) \/ Finish(h)

HandlerStep(h) ==
    \/ AcquireLock(h) \/ AcquireLockLost(h) \/ Proceed(h) \/ HttpReturns(h)
    \/ Callback(h) \/ WaitTimesOut(h) \/ Crash(h)

Next ==
    \/ StartPost
    \/ \E h \in Handler : HandlerStep(h)
    \/ CacheExpires
    \/ LockExpires
    \/ Tick

Spec == Init /\ [][Next]_vars

(* Handlers proceed, HTTP requests return, timers fire, time passes, and   *)
(* Redis expires keys. Nothing is assumed of callbacks.                    *)
Fairness ==
    /\ \A h \in Handler :
          WF_vars(Proceed(h)) /\ WF_vars(HttpReturns(h)) /\ WF_vars(WaitTimesOut(h))
    /\ WF_vars(LockExpires)
    /\ WF_vars(Tick)

FairSpec == Spec /\ Fairness
-----------------------------------------------------------------------------
(* Properties. *)

(* A PUT holds the lock from its acquisition until it releases it: its own *)
(* work is over before the TTL is, so no second PUT for the transfer ever  *)
(* runs beside it.                                                         *)
LockHeldInFlight == \A h \in Put : Active(h) => lock = h

(* The Hub gets at most one POST /quotes and one POST /transfers for the   *)
(* transfer, however many PUTs of each kind arrive, together or one after  *)
(* the other, and whichever Redis or audit call fails; unless a replica    *)
(* dies or the transfer of a failed PUT cannot be deleted.                 *)
AtMostOnePost ==
    ~faulty => \A g, h \in sent : kind[g] = kind[h] => g = h

Ended(h) ==
    /\ h \in sent \cap Put
    /\ result[h] = "failed" \/ (result[h] = "ok" /\ kind[h] = "acceptQuote")

(* A PUT that reached the Hub and answered with an error, and an           *)
(* acceptQuote that reached it and answered at all, has ended the          *)
(* transfer: no later step of any handler brings it back into the cache.   *)
EndedIsFinal == ~faulty => \A h \in Put : Ended(h) => cache = None

(* Money is asked for only on the terms of a quote: a POST /transfers      *)
(* follows a POST /quotes whose callback was a success.                    *)
TransferNeedsQuote ==
    \A h \in sent :
        kind[h] = "acceptQuote" =>
            \E q \in sent : kind[q] = "acceptParty" /\ reply[q] = "ok"

(* Nothing is sent to the Hub that the audit trail does not know of, and   *)
(* every PUT that reached the Hub and succeeded has left its response.     *)
AuditCoversHub ==
    \A h \in sent :
        /\ <<h, "request">> \in audit
        /\ result[h] = "ok" => <<h, "response">> \in audit

(* The invariant that is inductive when LockOutlivesWork holds. First the  *)
(* timing: the age of the lock is the time its holder has been working,    *)
(* which the deadlines bound.                                              *)
Timed ==
    \A h \in Put : Active(h) =>
        /\ lock = h
        /\ lockAge = overhead[h] + waited[h]
        /\ overhead[h] <= MaxOverhead
        /\ waited[h] <= WaitTimeout \/ waited[h] <= HttpTimeout

(* Where a handler is determines what it has done: nothing before it       *)
(* starts, the request sent from "posting" on, an answer from "finish" on; *)
(* no PUT starts before the POST is done.                                  *)
Placed ==
    /\ \A h \in Handler :
        /\ pc[h] = "idle" => waited[h] = 0 /\ overhead[h] = 0 /\ reply[h] = "none"
        /\ h \in sent => pc[h] \notin {"idle", "get", "home", "audit", "try"}
        /\ pc[h] \in {"posting", "awaiting", "save", "respond", "delete"} => h \in sent
        /\ result[h] # "none" => pc[h] \in {"finish", "done", "crashed"}
    /\ pc[Post] \notin {"get", "home", "delete"}
    /\ pc[Post] # "done" => \A h \in Put : pc[h] = "idle"

(* Where a copy of the quote comes from: the callback of an acceptParty.   *)
Quoted == \E q \in sent : kind[q] = "acceptParty" /\ reply[q] = "ok"

Terms ==
    /\ cache # None /\ cache.quotes => Quoted
    /\ \A h \in Handler :
        /\ req[h] # None /\ req[h].quotes => Quoted
        /\ pc[h] = "home" => req[h] # None /\ kind[h] = "acceptQuote"
        /\ pc[h] \in {"audit", "try"} /\ kind[h] = "acceptQuote" =>
              req[h] # None /\ req[h].quotes
        /\ pc[h] = "save" => /\ req[h] # None
                             /\ kind[h] = "acceptParty" => req[h].quotes
                             /\ kind[h] # "acceptQuote"
        /\ pc[h] = "delete" => kind[h] = "acceptQuote"

(* What the lock holder may rely on, without faults. Once POST /quotes has *)
(* been sent, the cache is empty, has the quote or is about to get it or   *)
(* to be emptied; once POST /transfers has, it is empty or about to be.    *)
PastGet == {"home", "audit", "try", "posting", "awaiting", "save", "respond", "delete",
            "fail", "clear"}

SentShows ==
    \A h \in sent :
        /\ kind[h] = "acceptParty" =>
              \/ cache = None
              \/ cache.quotes
              \/ pc[h] \in {"posting", "awaiting", "save", "fail", "clear"}
        /\ kind[h] = "acceptQuote" =>
              cache = None \/ pc[h] \in {"posting", "awaiting", "respond", "delete", "fail", "clear"}

HolderKnows ==
    \A h \in Put :
        /\ pc[h] \in PastGet => \A g \in Put : ~Ended(g)
        /\ pc[h] \in {"audit", "try"} => \A g \in sent : kind[g] # kind[h]
        /\ pc[h] \in {"audit", "try", "posting", "awaiting", "save"} /\ kind[h] = "acceptParty" =>
              \A g \in sent : kind[g] # "acceptQuote"
        /\ pc[h] = "home" =>
              /\ \A g \in sent : kind[g] # "acceptQuote"
              /\ \A g \in sent : kind[g] = "acceptParty" => req[h].quotes

Phases == ~faulty => SentShows /\ HolderKnows

AuditedFirst ==
    \A h \in Handler :
        /\ pc[h] = "try" => <<h, "request">> \in audit
        /\ pc[h] = "delete" => <<h, "response">> \in audit

Inv ==
    /\ TypeOK /\ Timed /\ Placed /\ Terms /\ Phases /\ AuditedFirst
    /\ AtMostOnePost /\ EndedIsFinal /\ TransferNeedsQuote /\ AuditCoversHub

(* The lock of a transfer is always freed, by its holder or by its TTL.    *)
LockEventuallyFree == lock # None ~> lock = None

(* Every handler that started returns, unless its replica dies.            *)
EveryHandlerReturns == \A h \in Handler : Active(h) ~> pc[h] \in {"done", "crashed"}
=============================================================================
