------------------------- MODULE ResponseSubscriber -------------------------
(***************************************************************************)
(* FspiopResponseSubscriber of one web-outbound replica: the in-memory     *)
(* correlation of asynchronous FSPIOP callbacks (PUT /parties, /quotes,    *)
(* /transfers, delivered through JetStream) with the HTTP handlers that    *)
(* are waiting for them, together with the handlers' use of it: waitFor()  *)
(* first, then the downstream HTTP request, cancel() when that request     *)
(* fails, and only then the await of the promise.                          *)
(*                                                                         *)
(* Time is abstracted: an armed timer may fire at any moment, and an entry *)
(* of the recent cache may outlive its TTL at any moment.                  *)
(***************************************************************************)
EXTENDS Integers, Sequences, FiniteSets, SequencesExt

CONSTANTS
    Request,       \* the calls of waitFor(), each made by one HTTP handler
    Key,           \* payer and party tuple, or payer and quote/transfer id
    Payee,         \* FSP ids a callback can come from
    SwitchId,      \* the Hub's own FSP id
    AnyPayee,      \* Parties.ANY_PAYEE
    NoPayee,       \* payee position of a subject that has none
    tuple,         \* what each request asks for
    None,          \* null
    MaxRecent,     \* RECENT_CACHE_MAX_ENTRIES
    MaxCallbacks   \* bound: callbacks the Hub sends for one request

Tuple ==
    [res : {"parties"}, payee : Payee \cup {AnyPayee}, key : Key]
      \cup [res : {"quotes", "transfers"}, payee : {NoPayee}, key : Key]

ASSUME ConstantsAssumption ==
    /\ tuple \in [Request -> Tuple]
    /\ None \notin Request
    /\ SwitchId \notin Payee /\ AnyPayee \notin Payee /\ NoPayee \notin Payee
    /\ SwitchId # AnyPayee /\ SwitchId # NoPayee /\ AnyPayee # NoPayee
    /\ MaxRecent \in Nat \ {0}
    /\ MaxCallbacks \in Nat

-----------------------------------------------------------------------------
(* Subjects. *)

Subject ==
    [res : {tuple[r].res : r \in Request}, ok : BOOLEAN,
     payee : Payee \cup {SwitchId, AnyPayee, NoPayee}, key : Key]

forSuccess(t, payee) ==
    [res |-> t.res, ok |-> TRUE, payee |-> payee, key |-> t.key]

forError(t, payee) ==
    [res |-> t.res, ok |-> FALSE, payee |-> payee, key |-> t.key]

HasAnyPayeeSubject(s) == s.res = "parties"

toAnyPayeeSubject(s) == [s EXCEPT !.payee = AnyPayee]

(* The subjects under which the handler of request r waits. *)
successSubject(r) == forSuccess(tuple[r], tuple[r].payee)
errorSubject(r) == forError(tuple[r], tuple[r].payee)
hubErrorSubject(r) == forError(tuple[r], SwitchId)

SubjectsOf(r) ==
    {successSubject(r), errorSubject(r)}
      \cup (IF tuple[r].res = "parties" THEN {hubErrorSubject(r)} ELSE {})

(* The payees that may answer request r: the one it names, or any. *)
AnsweringPayees(r) == IF tuple[r].payee = AnyPayee THEN Payee ELSE {tuple[r].payee}

Message == [subject : Subject, of : Request]

ASSUME NoneAssumption == None \notin Message

-----------------------------------------------------------------------------
VARIABLES
    pending,    \* subject -> the request whose PendingEntry it holds, or None
    timer,      \* request -> its entry's timeout is armed
    promise,    \* request -> state of the promise waitFor() returned
    reply,      \* request -> the callback that settled the promise, or None
    caller,     \* request -> where its HTTP handler is
    recent,     \* recent callbacks nobody waited for, oldest key first
    stream,     \* callbacks in JetStream this replica has not consumed
    sent,       \* request -> callbacks published for it
    delivered,  \* requests with a callback this replica has consumed
    running     \* the consume loop is running

vars == <<pending, timer, promise, reply, caller, recent, stream, sent,
          delivered, running>>

(* The type of the state. *)
TypeOK ==
    /\ pending \in [Subject -> Request \cup {None}]
    /\ timer \in [Request -> BOOLEAN]
    /\ promise \in [Request -> {"none", "unsettled", "resolved", "rejected", "timedOut"}]
    /\ reply \in [Request -> Message \cup {None}]
    /\ caller \in [Request -> {"idle", "remote", "posting", "awaiting", "done"}]
    /\ recent \in Seq(Message)
    /\ stream \subseteq Message
    /\ sent \in [Request -> Nat]
    /\ delivered \subseteq Request
    /\ running \in BOOLEAN

Init ==
    /\ pending = [s \in Subject |-> None]
    /\ timer = [r \in Request |-> FALSE]
    /\ promise = [r \in Request |-> "none"]
    /\ reply = [r \in Request |-> None]
    /\ caller = [r \in Request |-> "idle"]
    /\ recent = <<>>
    /\ stream = {}
    /\ sent = [r \in Request |-> 0]
    /\ delivered = {}
    /\ running = TRUE

-----------------------------------------------------------------------------
(* cancel(s) removes the entry found under s, whoever registered it, from  *)
(* all its subjects and clears that entry's timer. Mutant: the error       *)
(* subjects stay.                                                          *)
CancelPendingSuccessOnly(s) == [pending EXCEPT ![s] = None]

CancelPending(s) ==
    IF pending[s] = None THEN pending
    ELSE [k \in Subject |-> IF k \in SubjectsOf(pending[s]) THEN None ELSE pending[k]]

CancelTimer(s) ==
    IF pending[s] = None THEN timer ELSE [timer EXCEPT ![pending[s]] = FALSE]

(* A callback matched under s fulfils or rejects the promise of r. *)
SettledAs(r, s) == IF s = successSubject(r) THEN "resolved" ELSE "rejected"

(* takeFromRecent: the candidates are tried in order, then the first       *)
(* cached callback that answers a lookup without payee.                    *)
candidates(r) ==
    IF tuple[r].res = "parties"
    THEN <<successSubject(r), errorSubject(r), hubErrorSubject(r)>>
    ELSE <<successSubject(r), errorSubject(r)>>

InRecent(s) == \E i \in DOMAIN recent : recent[i].subject = s

AnswersAnyPayee(i, r) ==
    /\ HasAnyPayeeSubject(recent[i].subject)
    /\ toAnyPayeeSubject(recent[i].subject) \in SubjectsOf(r)

(* Mutant: the oldest cached callback is taken, whatever its subject. *)
takeOldestFromRecent(r, i) == i = 1

takeFromRecent(r, i) ==
    \/ \E c \in DOMAIN candidates(r) :
          /\ recent[i].subject = candidates(r)[c]
          /\ \A d \in 1 .. c - 1 : ~InRecent(candidates(r)[d])
    \/ /\ \A c \in DOMAIN candidates(r) : ~InRecent(candidates(r)[c])
       /\ AnswersAnyPayee(i, r)
       /\ \A j \in 1 .. i - 1 : ~AnswersAnyPayee(j, r)

MatchedInRecent(r, i) ==
    IF recent[i].subject \in SubjectsOf(r) THEN recent[i].subject
    ELSE toAnyPayeeSubject(recent[i].subject)

(* waitFor() answered from the recent cache: nothing is registered, and    *)
(* the handler sends its HTTP request all the same.                        *)
WaitForCached(r) ==
    /\ caller[r] = "idle"
    /\ \E i \in DOMAIN recent :
          /\ takeFromRecent(r, i)
          /\ promise' = [promise EXCEPT ![r] =
                SettledAs(r, MatchedInRecent(r, i))]
          /\ reply' = [reply EXCEPT ![r] = recent[i]]
          /\ recent' = RemoveAt(recent, i)
    /\ caller' = [caller EXCEPT ![r] = "posting"]
    /\ UNCHANGED <<pending, timer, stream, sent, delivered, running>>

(* Mutant: the error subject is not registered. *)
RegisterSuccessOnly(r) == [pending EXCEPT ![successSubject(r)] = r]

RegisterPending(r) ==
    [k \in Subject |-> IF k \in SubjectsOf(r) THEN r ELSE pending[k]]

(* waitFor() with nothing cached: the entry replaces whatever is           *)
(* registered under its subjects, and its timer is armed.                  *)
WaitFor(r) ==
    /\ caller[r] = "idle"
    /\ ~ \E i \in DOMAIN recent : takeFromRecent(r, i)
    /\ pending' = RegisterPending(r)
    /\ timer' = [timer EXCEPT ![r] = TRUE]
    /\ promise' = [promise EXCEPT ![r] = "unsettled"]
    /\ caller' = [caller EXCEPT ![r] = "posting"]
    /\ UNCHANGED <<reply, recent, stream, sent, delivered, running>>

(* The request is handled by another replica: this one will only see its   *)
(* callback.                                                               *)
RemoteRequest(r) ==
    /\ caller[r] = "idle"
    /\ caller' = [caller EXCEPT ![r] = "remote"]
    /\ UNCHANGED <<pending, timer, promise, reply, recent, stream, sent, delivered, running>>

(* The Hub accepted the HTTP request; the handler awaits the promise. *)
HttpAccepted(r) ==
    /\ caller[r] = "posting"
    /\ caller' = [caller EXCEPT ![r] = "awaiting"]
    /\ UNCHANGED <<pending, timer, promise, reply, recent, stream, sent, delivered, running>>

(* The HTTP request failed: the handler cancels and rethrows. *)
HttpFailed(r) ==
    /\ caller[r] = "posting"
    /\ pending' = CancelPending(successSubject(r))
    /\ timer' = CancelTimer(successSubject(r))
    /\ caller' = [caller EXCEPT ![r] = "done"]
    /\ UNCHANGED <<promise, reply, recent, stream, sent, delivered, running>>

(* The await returns once the promise is settled. *)
AwaitReturns(r) ==
    /\ caller[r] = "awaiting"
    /\ promise[r] # "unsettled"
    /\ caller' = [caller EXCEPT ![r] = "done"]
    /\ UNCHANGED <<pending, timer, promise, reply, recent, stream, sent, delivered, running>>

(* web-inbound received a callback for r, possibly a late or a second one, *)
(* and publishes it on subject s, quotes and transfers after auditing it;  *)
(* the order of publications is not controlled. A callback that is not     *)
(* published, because it is empty or the audit record failed, is one never *)
(* received.                                                               *)
Publish(r, s) ==
    /\ caller[r] # "idle"
    /\ sent[r] < MaxCallbacks
    /\ stream' = stream \cup {[subject |-> s, of |-> r]}
    /\ sent' = [sent EXCEPT ![r] = @ + 1]
    /\ UNCHANGED <<pending, timer, promise, reply, caller, recent, delivered, running>>

HandlePutParties(r) ==
    /\ tuple[r].res = "parties"
    /\ \E p \in AnsweringPayees(r) : Publish(r, forSuccess(tuple[r], p))

HandlePutPartiesError(r) ==
    /\ tuple[r].res = "parties"
    /\ \E p \in AnsweringPayees(r) \cup {SwitchId} : Publish(r, forError(tuple[r], p))

(* The handlers for quotes and for transfers do the same on their subjects. *)
HandlePutResult(r) ==
    tuple[r].res # "parties" /\ Publish(r, forSuccess(tuple[r], NoPayee))

HandlePutResultError(r) ==
    tuple[r].res # "parties" /\ Publish(r, forError(tuple[r], NoPayee))

PublishCallback(r) ==
    \/ HandlePutParties(r) \/ HandlePutPartiesError(r)
    \/ HandlePutResult(r) \/ HandlePutResultError(r)

(* The subject under which dispatch() finds an entry for subject s. *)
Matched(s) ==
    IF pending[s] = None /\ HasAnyPayeeSubject(s) THEN toAnyPayeeSubject(s) ELSE s

(* dispatch() with a waiter: the entry is removed and its promise settled. *)
DispatchToWaiter(m) ==
    LET s == Matched(m.subject)
        r == pending[s]
    IN  /\ running
        /\ m \in stream
        /\ r # None
        /\ pending' = CancelPending(successSubject(r))
        /\ timer' = CancelTimer(successSubject(r))
        /\ promise' = [promise EXCEPT ![r] = SettledAs(r, s)]
        /\ reply' = [reply EXCEPT ![r] = m]
        /\ stream' = stream \ {m}
        /\ delivered' = delivered \cup {m.of}
        /\ UNCHANGED <<caller, recent, sent, running>>

(* addToRecent: the oldest key makes room even for a key that is already   *)
(* there; a key that is there keeps its place.                             *)
addToRecent(m) ==
    LET room == IF Len(recent) >= MaxRecent THEN Tail(recent) ELSE recent
    IN  IF \E i \in DOMAIN room : room[i].subject = m.subject
        THEN [i \in DOMAIN room |-> IF room[i].subject = m.subject THEN m ELSE room[i]]
        ELSE Append(room, m)

(* Mutant: a callback is cached although somebody waits for it. *)
DispatchToRecentAlways(m) ==
    /\ running
    /\ m \in stream
    /\ recent' = addToRecent(m)
    /\ stream' = stream \ {m}
    /\ delivered' = delivered \cup {m.of}
    /\ UNCHANGED <<pending, timer, promise, reply, caller, sent, running>>

(* dispatch() without a waiter. *)
DispatchToRecent(m) ==
    /\ running
    /\ m \in stream
    /\ pending[Matched(m.subject)] = None
    /\ recent' = addToRecent(m)
    /\ stream' = stream \ {m}
    /\ delivered' = delivered \cup {m.of}
    /\ UNCHANGED <<pending, timer, promise, reply, caller, sent, running>>

(* The timer callback: cancel(successSubject), then reject. *)
Timeout(r) ==
    /\ timer[r]
    /\ pending' = CancelPending(successSubject(r))
    /\ timer' = [CancelTimer(successSubject(r)) EXCEPT ![r] = FALSE]
    /\ promise' = [promise EXCEPT ![r] = IF @ = "unsettled" THEN "timedOut" ELSE @]
    /\ UNCHANGED <<reply, caller, recent, stream, sent, delivered, running>>

(* An entry outlives its TTL. Every reader evicts the expired entries      *)
(* first, so that removing it now is removing it when it is next looked    *)
(* at. A refreshed entry keeps its place, so expiry follows no order.      *)
evictExpiredRecent ==
    /\ \E i \in DOMAIN recent : recent' = RemoveAt(recent, i)
    /\ UNCHANGED <<pending, timer, promise, reply, caller, stream, sent, delivered, running>>

(* Shutdown: the loop stops, every entry is cancelled, both maps cleared;  *)
(* the promises are left as they are.                                      *)
onModuleDestroy ==
    /\ running
    /\ running' = FALSE
    /\ timer' = [r \in Request |->
          IF \E s \in Subject : pending[s] = r THEN FALSE ELSE timer[r]]
    /\ pending' = [s \in Subject |-> None]
    /\ recent' = <<>>
    /\ UNCHANGED <<promise, reply, caller, stream, sent, delivered>>

RequestStep(r) ==
    \/ WaitForCached(r) \/ WaitFor(r) \/ RemoteRequest(r)
    \/ HttpAccepted(r) \/ HttpFailed(r) \/ AwaitReturns(r)
    \/ PublishCallback(r) \/ Timeout(r)

Dispatch(m) == DispatchToWaiter(m) \/ DispatchToRecent(m)

Next ==
    \/ \E r \in Request : RequestStep(r)
    \/ \E m \in stream : Dispatch(m)
    \/ evictExpiredRecent
    \/ onModuleDestroy

Spec == Init /\ [][Next]_vars

-----------------------------------------------------------------------------
(* Properties. *)

(* A request whose subjects no other request shares: every quote and       *)
(* transfer wait, whose subject carries the quote or transfer id.          *)
Unique(r) ==
    /\ tuple[r].res # "parties"
    /\ \A q \in Request \ {r} : tuple[q] # tuple[r]

Waiting(r) == caller[r] \in {"posting", "awaiting"} /\ promise[r] = "unsettled"

(* The callback of message m may answer request r: same resource and key,  *)
(* from the payee asked for, from any payee if none was named, or an error *)
(* from the Hub.                                                           *)
Answers(m, r) ==
    /\ m.subject.res = tuple[r].res
    /\ m.subject.key = tuple[r].key
    /\ \/ m.subject.payee = tuple[r].payee
       \/ tuple[r].payee = AnyPayee
       \/ m.subject.payee = SwitchId /\ ~m.subject.ok

(* The pending map is consistent: an entry is found only under its own     *)
(* subjects, it is still found under its success subject (through which    *)
(* cancel() reaches it), its promise is unsettled and its timer is armed.  *)
(* It is what makes cancel(entry.successSubject) in dispatch() remove the  *)
(* dispatched entry itself and clear its own timer.                        *)
PendingConsistent ==
    \A s \in Subject :
        LET r == pending[s] IN
        r # None => /\ s \in SubjectsOf(r)
                    /\ pending[successSubject(r)] = r
                    /\ promise[r] = "unsettled"
                    /\ timer[r]

(* No timer outlives the promise it guards: a timer left armed by a        *)
(* settled wait would, 30 s later, cancel whatever waiter has registered   *)
(* under the same subject meanwhile.                                       *)
SettledHasNoTimer == \A r \in Request : timer[r] => promise[r] = "unsettled"

(* A promise is settled only by a callback that answers the request, is    *)
(* fulfilled by a success and rejected by an error; a quote or transfer    *)
(* wait is settled by the callback of that very request.                   *)
Correlated ==
    \A r \in Request :
        /\ promise[r] \in {"resolved", "rejected"} =>
              /\ reply[r] # None
              /\ Answers(reply[r], r)
              /\ promise[r] = "resolved" <=> reply[r].subject.ok
              /\ Unique(r) => reply[r].of = r
        /\ promise[r] \in {"none", "unsettled", "timedOut"} => reply[r] = None

(* While the replica runs, a quote or transfer wait that is not settled is *)
(* registered under both its subjects and its timer is armed: no step of   *)
(* another request, whatever it shares with third ones, can orphan it.     *)
NoOrphan ==
    \A r \in Request :
        Unique(r) /\ Waiting(r) /\ running =>
            timer[r] /\ \A s \in SubjectsOf(r) : pending[s] = r

(* A quote or transfer wait that is not settled has had no callback: the   *)
(* replica never consumes the answer of a waiting request without handing  *)
(* it over, so a timeout means the Hub had not answered.                   *)
NoMissedCallback ==
    \A r \in Request : Unique(r) /\ Waiting(r) /\ running => r \notin delivered

(* A handler that has returned leaves neither a timer nor a pending entry. *)
NoLeak ==
    \A r \in Request :
        Unique(r) /\ caller[r] = "done" => ~timer[r] /\ \A s \in Subject : pending[s] # r

(* The invariant that is inductive: with the parts above, an armed timer   *)
(* of a quote or transfer wait means that it is registered, a request that *)
(* has not started has left no trace, and callbacks in the stream are on   *)
(* the subjects of their request.                                          *)
TimerRegistered ==
    \A r \in Request :
        Unique(r) =>
            /\ timer[r] => \A s \in SubjectsOf(r) : pending[s] = r
            /\ Waiting(r) /\ running => timer[r]
            /\ caller[r] = "done" => ~timer[r]

IdleUntouched ==
    \A r \in Request :
        caller[r] = "idle" => /\ r \notin delivered
                              /\ promise[r] = "none"
                              /\ \A m \in stream : m.of # r

CallbackSubjects(r) ==
    {forSuccess(tuple[r], p) : p \in AnsweringPayees(r)}
      \cup {forError(tuple[r], p) : p \in AnsweringPayees(r)}
      \cup (IF tuple[r].res = "parties" THEN {hubErrorSubject(r)} ELSE {})

StreamAddressed == \A m \in stream : m.subject \in CallbackSubjects(m.of)

Inv ==
    /\ TypeOK /\ PendingConsistent /\ SettledHasNoTimer /\ TimerRegistered
    /\ IdleUntouched /\ StreamAddressed /\ NoMissedCallback

(* For Correlated, the cached callbacks too are on their request's subjects. *)
Addressed == {m \in Message : m.subject \in CallbackSubjects(m.of)}

CorrelatedInv == Inv /\ Correlated /\ recent \in Seq(Addressed)
=============================================================================
