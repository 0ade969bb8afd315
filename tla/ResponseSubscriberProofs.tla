---------------------- MODULE ResponseSubscriberProofs ----------------------
(***************************************************************************)
(* What FspiopResponseSubscriber guarantees for every set of requests,     *)
(* whatever subjects they share. The inductive invariant is Inv: the       *)
(* consistency of the pending map, which needs that two requests with the  *)
(* same success subject have all their subjects in common, and, for the    *)
(* requests that share no subject, that an armed timer means "registered   *)
(* under all my subjects".                                                 *)
(***************************************************************************)
EXTENDS ResponseSubscriber, TLAPS, SequenceTheorems

(* The subjects a request waits under, and the ones its callbacks are      *)
(* published on, are subjects (waitFor and the web-inbound handlers).      *)
LEMMA SubjectTypes ==
    ASSUME NEW r \in Request
    PROVE  /\ tuple[r] \in Tuple
           /\ successSubject(r) \in Subject
           /\ errorSubject(r) \in Subject
           /\ SubjectsOf(r) \subseteq Subject
           /\ CallbackSubjects(r) \subseteq Subject
           /\ successSubject(r) \in SubjectsOf(r)
<1>1. tuple[r] \in Tuple
  BY ConstantsAssumption
<1>2. /\ tuple[r].res \in {tuple[q].res : q \in Request}
      /\ tuple[r].payee \in Payee \cup {SwitchId, AnyPayee, NoPayee}
      /\ tuple[r].key \in Key
  BY <1>1 DEF Tuple
<1>3. \A p \in Payee \cup {SwitchId, AnyPayee, NoPayee} :
         forSuccess(tuple[r], p) \in Subject /\ forError(tuple[r], p) \in Subject
  BY <1>2 DEF forSuccess, forError, Subject
<1>4. /\ successSubject(r) \in Subject
      /\ errorSubject(r) \in Subject
      /\ hubErrorSubject(r) \in Subject
  BY <1>2, <1>3 DEF successSubject, errorSubject, hubErrorSubject
<1>5. CallbackSubjects(r) \subseteq Subject
  BY <1>2, <1>3, <1>4 DEF CallbackSubjects, AnsweringPayees
<1> QED
  BY <1>1, <1>4, <1>5 DEF SubjectsOf

(* A callback is published on one of its request's callback subjects.      *)
LEMMA PublishedOn ==
    ASSUME NEW r \in Request, PublishCallback(r)
    PROVE  \E s \in CallbackSubjects(r) : Publish(r, s)
<1>1. tuple[r] \in Tuple
  BY SubjectTypes
<1>2. CASE tuple[r].res = "parties"
  BY <1>2 DEF PublishCallback, HandlePutParties, HandlePutPartiesError, HandlePutResult, HandlePutResultError,
              CallbackSubjects, hubErrorSubject
<1>3. CASE tuple[r].res # "parties"
  <2>1. AnsweringPayees(r) = {NoPayee}
    BY <1>1, <1>3, ConstantsAssumption DEF Tuple, AnsweringPayees
  <2> QED
    BY <1>3, <2>1
       DEF PublishCallback, HandlePutParties, HandlePutPartiesError, HandlePutResult, HandlePutResultError, CallbackSubjects
<1> QED
  BY <1>2, <1>3

(* A success subject determines the request's tuple, hence all subjects:   *)
(* an entry that cancel(successSubject) finds is registered under exactly  *)
(* the caller's own subjects.                                              *)
LEMMA SuccessDetermines ==
    ASSUME NEW q \in Request, NEW r \in Request,
           successSubject(q) \in SubjectsOf(r)
    PROVE  tuple[q] = tuple[r] /\ SubjectsOf(q) = SubjectsOf(r)
<1>1. tuple[q] \in Tuple /\ tuple[r] \in Tuple
  BY SubjectTypes
<1>2. successSubject(q) = successSubject(r)
  BY DEF SubjectsOf, successSubject, errorSubject, hubErrorSubject, forSuccess, forError
<1>3. /\ tuple[q].res = tuple[r].res
      /\ tuple[q].payee = tuple[r].payee
      /\ tuple[q].key = tuple[r].key
  BY <1>2 DEF successSubject, forSuccess
<1>4. tuple[q] = tuple[r]
  BY <1>1, <1>3 DEF Tuple
<1> QED
  BY <1>4 DEF SubjectsOf, successSubject, errorSubject, hubErrorSubject

(* A quote or transfer wait shares no subject with another request, and    *)
(* its callbacks are published on the subjects it waits under.             *)
LEMMA UniqueSubjects ==
    ASSUME NEW r \in Request, Unique(r)
    PROVE  /\ \A q \in Request \ {r} : SubjectsOf(q) \cap SubjectsOf(r) = {}
           /\ CallbackSubjects(r) = SubjectsOf(r)
<1>1. tuple[r] \in Tuple /\ tuple[r].res # "parties"
  BY SubjectTypes DEF Unique
<1>2. tuple[r].payee = NoPayee
  BY <1>1 DEF Tuple
<1>3. SubjectsOf(r) = {successSubject(r), errorSubject(r)}
  BY <1>1 DEF SubjectsOf
<1>4. ASSUME NEW q \in Request \ {r}, NEW s \in SubjectsOf(q), s \in SubjectsOf(r)
      PROVE  FALSE
  <2>1. tuple[q] \in Tuple
    BY SubjectTypes
  <2>2. tuple[q].res = tuple[r].res /\ tuple[q].key = tuple[r].key
    BY <1>3, <1>4 DEF SubjectsOf, successSubject, errorSubject, hubErrorSubject,
                      forSuccess, forError
  <2>3. tuple[q].payee = NoPayee
    BY <1>1, <2>1, <2>2 DEF Tuple
  <2>4. tuple[q] = tuple[r]
    BY <1>1, <1>2, <2>1, <2>2, <2>3 DEF Tuple
  <2> QED
    BY <2>4 DEF Unique
<1>5. CallbackSubjects(r) = SubjectsOf(r)
  BY <1>1, <1>2, <1>3, ConstantsAssumption
     DEF CallbackSubjects, AnsweringPayees, successSubject, errorSubject
<1> QED
  BY <1>4, <1>5

-----------------------------------------------------------------------------
(* Removing an entry of the recent cache leaves a sequence of callbacks    *)
(* (takeFromRecent and evictExpiredRecent).                                *)
LEMMA RemoveAtType ==
    ASSUME NEW S, NEW q \in Seq(S), NEW i \in DOMAIN q
    PROVE  RemoveAt(q, i) \in Seq(S)
<1>1. i \in 1 .. Len(q) /\ Len(q) \in Nat
  OBVIOUS
<1>2. SubSeq(q, 1, i - 1) \in Seq(S) /\ SubSeq(q, i + 1, Len(q)) \in Seq(S)
  BY <1>1, SubSeqProperties
<1> QED
  BY <1>2, ConcatProperties DEF RemoveAt

(* addToRecent keeps a sequence of callbacks. *)
LEMMA AddToRecentType ==
    ASSUME NEW S, recent \in Seq(S), NEW m \in S
    PROVE  addToRecent(m) \in Seq(S)
<1> DEFINE room == IF Len(recent) >= MaxRecent THEN Tail(recent) ELSE recent
<1>1. room \in Seq(S)
  <2>1. CASE Len(recent) >= MaxRecent
    <3>1. recent # <<>>
      BY <2>1, ConstantsAssumption
    <3> QED
      BY <2>1, <3>1, HeadTailProperties
  <2>2. CASE ~(Len(recent) >= MaxRecent)
    BY <2>2
  <2> QED
    BY <2>1, <2>2
<1>2. Append(room, m) \in Seq(S)
  BY <1>1
<1>3. [i \in DOMAIN room |-> IF room[i].subject = m.subject THEN m ELSE room[i]]
        \in Seq(S)
  <2> HIDE DEF room
  <2>1. DOMAIN room = 1 .. Len(room) /\ Len(room) \in Nat
    BY <1>1
  <2>2. \A i \in 1 .. Len(room) : room[i] \in S
    BY <1>1
  <2> QED
    BY <2>1, <2>2, SeqDef
<1> QED
  BY <1>2, <1>3 DEF addToRecent

(* cancel() keeps the types of the pending map and of the timers. *)
LEMMA CancelType ==
    ASSUME TypeOK, NEW s \in Subject
    PROVE  /\ CancelPending(s) \in [Subject -> Request \cup {None}]
           /\ CancelTimer(s) \in [Request -> BOOLEAN]
BY DEF TypeOK, CancelPending, CancelTimer

-----------------------------------------------------------------------------
(* Every step of the subscriber and its callers keeps the types. *)
LEMMA TypeStep == TypeOK /\ [Next]_vars => TypeOK'
<1> SUFFICES ASSUME TypeOK, [Next]_vars PROVE TypeOK'
  OBVIOUS
<1> USE DEF TypeOK
<1>1. ASSUME NEW r \in Request, WaitForCached(r) PROVE TypeOK'
  <2>1. PICK i \in DOMAIN recent :
           /\ promise' = [promise EXCEPT ![r] = SettledAs(r, MatchedInRecent(r, i))]
           /\ reply' = [reply EXCEPT ![r] = recent[i]]
           /\ recent' = RemoveAt(recent, i)
    BY <1>1 DEF WaitForCached
  <2>2. recent' \in Seq(Message) /\ recent[i] \in Message
    BY <2>1, RemoveAtType
  <2>3. SettledAs(r, MatchedInRecent(r, i)) \in {"resolved", "rejected"}
    BY DEF SettledAs
  <2> QED
    BY <1>1, <2>1, <2>2, <2>3 DEF WaitForCached
<1>2. ASSUME NEW r \in Request, WaitFor(r) PROVE TypeOK'
  BY <1>2 DEF WaitFor, RegisterPending
<1>3. ASSUME NEW r \in Request, RemoteRequest(r) PROVE TypeOK'
  BY <1>3 DEF RemoteRequest
<1>4. ASSUME NEW r \in Request, HttpAccepted(r) PROVE TypeOK'
  BY <1>4 DEF HttpAccepted
<1>5. ASSUME NEW r \in Request, HttpFailed(r) PROVE TypeOK'
  BY <1>5, SubjectTypes, CancelType DEF HttpFailed
<1>6. ASSUME NEW r \in Request, AwaitReturns(r) PROVE TypeOK'
  BY <1>6 DEF AwaitReturns
<1>7. ASSUME NEW r \in Request, PublishCallback(r) PROVE TypeOK'
  <2>1. PICK s \in CallbackSubjects(r) : Publish(r, s)
    BY <1>7, PublishedOn
  <2>2. s \in Subject
    BY SubjectTypes
  <2> QED
    BY <2>1, <2>2 DEF Publish, Message
<1>8. ASSUME NEW r \in Request, Timeout(r) PROVE TypeOK'
  BY <1>8, SubjectTypes, CancelType DEF Timeout
<1>9. ASSUME NEW m \in stream, DispatchToWaiter(m) PROVE TypeOK'
  <2> DEFINE s == Matched(m.subject)
             r == pending[s]
  <2>1. m \in Message /\ m.subject \in Subject /\ m.of \in Request
    BY DEF Message
  <2>2. s \in Subject
    BY <2>1 DEF Matched, toAnyPayeeSubject, Subject
  <2>3. r \in Request
    BY <1>9, <2>2 DEF DispatchToWaiter
  <2>4. SettledAs(r, s) \in {"resolved", "rejected"}
    BY DEF SettledAs
  <2>5. /\ CancelPending(successSubject(r)) \in [Subject -> Request \cup {None}]
        /\ CancelTimer(successSubject(r)) \in [Request -> BOOLEAN]
    BY <2>3, SubjectTypes, CancelType
  <2> HIDE DEF r, s
  <2> QED
    BY <1>9, <2>1, <2>3, <2>4, <2>5 DEF DispatchToWaiter, r, s
<1>10. ASSUME NEW m \in stream, DispatchToRecent(m) PROVE TypeOK'
  BY <1>10, AddToRecentType DEF DispatchToRecent, Message
<1>11. ASSUME evictExpiredRecent PROVE TypeOK'
  BY <1>11, RemoveAtType DEF evictExpiredRecent
<1>12. ASSUME onModuleDestroy PROVE TypeOK'
  <2>1. timer' \in [Request -> BOOLEAN]
    BY <1>12, Zenon DEF onModuleDestroy
  <2>2. recent' \in Seq(Message)
    BY <1>12 DEF onModuleDestroy
  <2> QED
    BY <1>12, <2>1, <2>2 DEF onModuleDestroy
<1>13. ASSUME UNCHANGED vars PROVE TypeOK'
  BY <1>13 DEF vars
<1> QED
  BY <1>1, <1>2, <1>3, <1>4, <1>5, <1>6, <1>7, <1>8, <1>9, <1>10, <1>11, <1>12, <1>13
     DEF Next, RequestStep, Dispatch

(* Type correctness of the subscriber, for every set of requests. *)
THEOREM TypeCorrect == Spec => []TypeOK
<1>1. Init => TypeOK
  BY ConstantsAssumption DEF Init, TypeOK
<1> QED
  BY <1>1, TypeStep, PTL DEF Spec

-----------------------------------------------------------------------------
(* What cancel(successSubject) of request q does when the pending map is   *)
(* consistent: it removes one entry whole, the one of a request with q's   *)
(* tuple, and no entry of q survives it.                                   *)
LEMMA CancelFacts ==
    ASSUME TypeOK, PendingConsistent, NEW q \in Request
    PROVE  LET c == successSubject(q)
               e == pending[c]
               p == CancelPending(c)
               t == CancelTimer(c)
           IN  /\ e # None => e \in Request /\ tuple[e] = tuple[q] /\ ~t[e]
               /\ \A r \in Request : r # e => t[r] = timer[r]
               /\ \A k \in Subject : p[k] = None \/ p[k] = pending[k]
               /\ \A k \in Subject : p[k] # None => p[successSubject(p[k])] = p[k]
               /\ \A k \in Subject : p[k] # None => p[k] # e
               /\ \A k \in Subject : p[k] # q
               /\ \A r \in Request : Unique(r) /\ r # q =>
                     r # e /\ \A k \in SubjectsOf(r) : p[k] = pending[k]
<1> DEFINE c == successSubject(q)
           e == pending[c]
           p == CancelPending(c)
           t == CancelTimer(c)
<1>1. c \in Subject
  BY SubjectTypes
<1>2. CASE e = None
  <2>1. p = pending /\ t = timer
    BY <1>2 DEF CancelPending, CancelTimer
  <2>2. \A k \in Subject : pending[k] # q
    BY <1>1, <1>2, ConstantsAssumption DEF PendingConsistent
  <2>3. \A k \in Subject : pending[k] # None => pending[successSubject(pending[k])] = pending[k]
    BY DEF PendingConsistent
  <2> QED
    BY <1>2, <2>1, <2>2, <2>3, ConstantsAssumption
<1>3. CASE e # None
  <2>1. e \in Request
    BY <1>1, <1>3 DEF TypeOK
  <2>2. c \in SubjectsOf(e) /\ pending[successSubject(e)] = e
    BY <1>1, <1>3 DEF PendingConsistent
  <2>3. tuple[e] = tuple[q] /\ SubjectsOf(e) = SubjectsOf(q)
    BY <2>1, <2>2, SuccessDetermines
  <2>4. /\ p = [k \in Subject |-> IF k \in SubjectsOf(e) THEN None ELSE pending[k]]
        /\ t = [timer EXCEPT ![e] = FALSE]
    BY <1>3 DEF CancelPending, CancelTimer
  <2>5. ~t[e] /\ \A r \in Request : r # e => t[r] = timer[r]
    BY <2>1, <2>4 DEF TypeOK
  <2>6. ASSUME NEW k \in Subject, p[k] # None
        PROVE  /\ p[k] = pending[k]
               /\ p[k] \in Request
               /\ p[k] # e
               /\ p[k] # q
               /\ p[successSubject(p[k])] = p[k]
    <3>1. k \notin SubjectsOf(e) /\ p[k] = pending[k]
      BY <2>4, <2>6
    <3> DEFINE r == pending[k]
    <3>2. r \in Request /\ k \in SubjectsOf(r) /\ pending[successSubject(r)] = r
      BY <2>6, <3>1 DEF TypeOK, PendingConsistent
    <3>3. r # e /\ r # q
      BY <2>3, <3>1, <3>2
    <3>4. successSubject(r) \notin SubjectsOf(e)
      BY <2>1, <3>1, <3>2, SuccessDetermines
    <3>5. successSubject(r) \in Subject
      BY <3>2, SubjectTypes
    <3> QED
      BY <2>4, <3>1, <3>2, <3>3, <3>4, <3>5
  <2>7. ASSUME NEW r \in Request, Unique(r), r # q
        PROVE  r # e /\ \A k \in SubjectsOf(r) : p[k] = pending[k]
    <3>1. tuple[q] # tuple[r]
      BY <2>7 DEF Unique
    <3>2. r # e
      BY <2>3, <3>1
    <3>3. SubjectsOf(e) \cap SubjectsOf(r) = {}
      BY <2>1, <2>7, <3>2, UniqueSubjects
    <3>4. SubjectsOf(r) \subseteq Subject
      BY SubjectTypes
    <3> QED
      BY <2>4, <3>2, <3>3, <3>4
  <2>8. \A k \in Subject : p[k] = None \/ p[k] = pending[k]
    BY <2>4
  <2> HIDE DEF c, e, p, t
  <2>9. \A k \in Subject : p[k] # q
    BY <2>6, ConstantsAssumption
  <2> QED
    BY <2>1, <2>3, <2>5, <2>6, <2>7, <2>8, <2>9 DEF c, e, p, t
<1> QED
  BY <1>2, <1>3

-----------------------------------------------------------------------------
(* A step that cancels through the success subject of q, settles q or ends *)
(* its handler, and leaves the other requests alone preserves the          *)
(* consistency of the map and of the timers: a failed HTTP request, a      *)
(* timeout and a dispatch are all of this form.                            *)
LEMMA CancelStep ==
    ASSUME Inv, NEW q \in Request, TypeOK',
           pending' = CancelPending(successSubject(q)),
           \A r \in Request \ {q} : timer'[r] = CancelTimer(successSubject(q))[r],
           timer'[q] => ~Unique(q) /\ promise'[q] = "unsettled",
           \A r \in Request \ {q} : promise'[r] = promise[r] /\ caller'[r] = caller[r],
           promise'[q] # "unsettled" \/ caller'[q] = "done",
           running' = running
    PROVE  PendingConsistent' /\ SettledHasNoTimer' /\ TimerRegistered'
<1> DEFINE c == successSubject(q)
           e == pending[c]
<1>1. TypeOK /\ PendingConsistent /\ SettledHasNoTimer /\ TimerRegistered
  BY DEF Inv
<1>2. /\ e # None => e \in Request /\ tuple[e] = tuple[q] /\ ~CancelTimer(c)[e]
      /\ \A r \in Request : r # e => CancelTimer(c)[r] = timer[r]
      /\ \A k \in Subject : pending'[k] = None \/ pending'[k] = pending[k]
      /\ \A k \in Subject : pending'[k] # None => pending'[successSubject(pending'[k])] = pending'[k]
      /\ \A k \in Subject : pending'[k] # None => pending'[k] # e
      /\ \A k \in Subject : pending'[k] # q
      /\ \A r \in Request : Unique(r) /\ r # q =>
            r # e /\ \A k \in SubjectsOf(r) : pending'[k] = pending[k]
  BY <1>1, CancelFacts
<1> HIDE DEF c, e
<1>3. /\ \A r \in Request : timer'[r] /\ r # q => timer[r]
      /\ \A r \in Request : r # q /\ r # e => timer'[r] = timer[r]
  <2>1. \A r \in Request : r # q => timer'[r] = CancelTimer(c)[r]
    BY Zenon DEF c
  <2>3. \A r \in Request : r # None
    BY ConstantsAssumption
  <2> QED
    BY <1>2, <2>1, <2>3, Zenon
<1>4. PendingConsistent'
  <2> SUFFICES ASSUME NEW k \in Subject, pending'[k] # None
               PROVE  /\ k \in SubjectsOf(pending'[k])
                      /\ pending'[successSubject(pending'[k])] = pending'[k]
                      /\ promise'[pending'[k]] = "unsettled"
                      /\ timer'[pending'[k]]
    BY DEF PendingConsistent
  <2>1. pending'[k] = pending[k] /\ pending[k] \in Request /\ pending[k] # q /\ pending[k] # e
    BY <1>1, <1>2 DEF TypeOK
  <2>2. k \in SubjectsOf(pending[k]) /\ promise[pending[k]] = "unsettled" /\ timer[pending[k]]
    BY <1>1, <2>1 DEF PendingConsistent
  <2>3. timer'[pending[k]] = timer[pending[k]]
    BY <1>3, <2>1, Zenon
  <2>4. promise'[pending[k]] = promise[pending[k]]
    BY <2>1
  <2>5. pending'[successSubject(pending'[k])] = pending'[k]
    BY <1>2
  <2>6. k \in SubjectsOf(pending'[k])
    BY <2>1, <2>2, Zenon
  <2>7. promise'[pending'[k]] = "unsettled"
    BY <2>1, <2>2, <2>4, Zenon
  <2>8. timer'[pending'[k]]
    BY <2>1, <2>2, <2>3, Zenon
  <2> QED
    BY <2>5, <2>6, <2>7, <2>8
<1>5. SettledHasNoTimer'
  BY <1>1, <1>3 DEF SettledHasNoTimer
<1>6. TimerRegistered'
  <2> SUFFICES ASSUME NEW r \in Request, Unique(r)
               PROVE  /\ timer'[r] => \A s \in SubjectsOf(r) : pending'[s] = r
                      /\ Waiting(r)' /\ running' => timer'[r]
                      /\ caller'[r] = "done" => ~timer'[r]
    BY DEF TimerRegistered, Unique
  <2>1. CASE r = q
    BY <2>1 DEF Waiting
  <2>2. CASE r # q
    <3>1. timer'[r] = timer[r] /\ promise'[r] = promise[r] /\ caller'[r] = caller[r]
      BY <1>2, <2>2 DEF c
    <3> QED
      BY <1>1, <1>2, <2>2, <3>1 DEF TimerRegistered, Waiting
  <2> QED
    BY <2>1, <2>2
<1> QED
  BY <1>4, <1>5, <1>6

(* A step that touches none of the waiting machinery except by starting to *)
(* wait keeps the consistency of the map; here, a new registration.        *)
LEMMA RegisterStep ==
    ASSUME Inv, NEW q \in Request, WaitFor(q), TypeOK'
    PROVE  PendingConsistent' /\ SettledHasNoTimer' /\ TimerRegistered'
<1>1. /\ TypeOK /\ PendingConsistent /\ SettledHasNoTimer /\ TimerRegistered
      /\ promise[q] = "none"
  BY DEF Inv, IdleUntouched, WaitFor
<1>2. /\ pending' = [k \in Subject |-> IF k \in SubjectsOf(q) THEN q ELSE pending[k]]
      /\ timer' = [timer EXCEPT ![q] = TRUE]
      /\ promise' = [promise EXCEPT ![q] = "unsettled"]
      /\ caller' = [caller EXCEPT ![q] = "posting"]
      /\ running' = running
  BY DEF WaitFor, RegisterPending
<1>3. SubjectsOf(q) \subseteq Subject /\ successSubject(q) \in SubjectsOf(q)
  BY SubjectTypes
<1>4. timer'[q] /\ \A r \in Request : r # q => timer'[r] = timer[r]
  BY <1>1, <1>2 DEF TypeOK
<1>5. /\ promise'[q] = "unsettled" /\ caller'[q] = "posting"
      /\ \A r \in Request : r # q => promise'[r] = promise[r] /\ caller'[r] = caller[r]
  BY <1>1, <1>2 DEF TypeOK
<1>6. PendingConsistent'
  <2> SUFFICES ASSUME NEW k \in Subject, pending'[k] # None
               PROVE  /\ k \in SubjectsOf(pending'[k])
                      /\ pending'[successSubject(pending'[k])] = pending'[k]
                      /\ promise'[pending'[k]] = "unsettled"
                      /\ timer'[pending'[k]]
    BY DEF PendingConsistent
  <2>1. CASE k \in SubjectsOf(q)
    <3>1. pending'[k] = q /\ pending'[successSubject(q)] = q
      BY <1>2, <1>3, <2>1
    <3> QED
      BY <1>4, <1>5, <2>1, <3>1, Zenon
  <2>2. CASE k \notin SubjectsOf(q)
    <3> DEFINE r == pending[k]
    <3>1. pending'[k] = r /\ r \in Request
      BY <1>1, <1>2, <2>2 DEF TypeOK
    <3>2. /\ k \in SubjectsOf(r) /\ pending[successSubject(r)] = r
          /\ promise[r] = "unsettled" /\ timer[r]
      BY <1>1, <3>1 DEF PendingConsistent
    <3>3. r # q
      BY <2>2, <3>2
    <3>4. successSubject(r) \in Subject /\ successSubject(r) \notin SubjectsOf(q)
      BY <2>2, <3>1, <3>2, SubjectTypes, SuccessDetermines
    <3>5. pending'[successSubject(r)] = r
      BY <1>2, <3>2, <3>4
    <3>6. promise'[r] = "unsettled" /\ timer'[r]
      BY <1>4, <1>5, <3>1, <3>2, <3>3, Zenon
    <3> HIDE DEF r
    <3> QED
      BY <3>1, <3>2, <3>5, <3>6, Zenon DEF r
  <2> QED
    BY <2>1, <2>2
<1>7. SettledHasNoTimer'
  BY <1>1, <1>4, <1>5 DEF SettledHasNoTimer
<1>8. TimerRegistered'
  <2> SUFFICES ASSUME NEW r \in Request, Unique(r)
               PROVE  /\ timer'[r] => \A s \in SubjectsOf(r) : pending'[s] = r
                      /\ Waiting(r)' /\ running' => timer'[r]
                      /\ caller'[r] = "done" => ~timer'[r]
    BY DEF TimerRegistered, Unique
  <2>1. CASE r = q
    BY <1>2, <1>3, <1>4, <1>5, <2>1
  <2>2. CASE r # q
    <3>1. \A s \in SubjectsOf(r) : pending'[s] = pending[s]
      BY <1>2, <2>2, SubjectTypes, UniqueSubjects
    <3> QED
      BY <1>1, <1>2, <1>4, <1>5, <2>2, <3>1 DEF TimerRegistered, Waiting
  <2> QED
    BY <2>1, <2>2
<1> QED
  BY <1>6, <1>7, <1>8

-----------------------------------------------------------------------------
(* Consuming the callback of a waiting quote or transfer request finds the *)
(* request's own entry (the lookup of dispatch()).                         *)
LEMMA OwnCallbackMatches ==
    ASSUME Inv, NEW r \in Request, Unique(r), Waiting(r), running,
           NEW m \in stream, m.of = r
    PROVE  pending[m.subject] = r /\ Matched(m.subject) = m.subject
<1>1. m.subject \in SubjectsOf(r)
  BY UniqueSubjects DEF Inv, StreamAddressed
<1>2. timer[r]
  BY DEF Inv, TimerRegistered
<1>3. pending[m.subject] = r
  BY <1>1, <1>2 DEF Inv, TimerRegistered
<1> QED
  BY <1>3, ConstantsAssumption DEF Matched

(* Every step preserves the invariant. *)
LEMMA InvStep == Inv /\ [Next]_vars => Inv'
<1> SUFFICES ASSUME Inv, [Next]_vars PROVE Inv'
  OBVIOUS
<1>0. /\ TypeOK /\ TypeOK' /\ PendingConsistent /\ SettledHasNoTimer
      /\ TimerRegistered /\ IdleUntouched /\ StreamAddressed /\ NoMissedCallback
  BY TypeStep DEF Inv
<1>1. ASSUME NEW q \in Request, WaitForCached(q) PROVE Inv'
  <2>1. /\ UNCHANGED <<pending, timer, stream, delivered, running>>
        /\ promise'[q] \in {"resolved", "rejected"} /\ caller'[q] = "posting"
        /\ \A r \in Request \ {q} : promise'[r] = promise[r] /\ caller'[r] = caller[r]
    BY <1>0, <1>1 DEF WaitForCached, SettledAs, TypeOK
  <2>2. promise[q] = "none" /\ ~timer[q]
    BY <1>0, <1>1 DEF WaitForCached, IdleUntouched, SettledHasNoTimer
  <2>3. \A s \in Subject : pending[s] # q
    BY <2>2, ConstantsAssumption DEF PendingConsistent, Inv
  <2>4. PendingConsistent'
    BY <1>0, <2>1, <2>3 DEF PendingConsistent, TypeOK
  <2>5. SettledHasNoTimer' /\ TimerRegistered'
    BY <1>0, <2>1, <2>2 DEF SettledHasNoTimer, TimerRegistered, Unique, Waiting
  <2>6. IdleUntouched' /\ StreamAddressed' /\ NoMissedCallback'
    BY <1>0, <2>1 DEF IdleUntouched, StreamAddressed, NoMissedCallback, Unique, Waiting
  <2> QED
    BY <1>0, <2>4, <2>5, <2>6 DEF Inv
<1>2. ASSUME NEW q \in Request, WaitFor(q) PROVE Inv'
  <2>1. PendingConsistent' /\ SettledHasNoTimer' /\ TimerRegistered'
    BY <1>0, <1>2, RegisterStep
  <2>2. /\ UNCHANGED <<stream, delivered, running>>
        /\ caller[q] = "idle" /\ caller'[q] = "posting"
        /\ \A r \in Request \ {q} : promise'[r] = promise[r] /\ caller'[r] = caller[r]
    BY <1>0, <1>2 DEF WaitFor, TypeOK
  <2>3. IdleUntouched' /\ StreamAddressed' /\ NoMissedCallback'
    BY <1>0, <2>2 DEF IdleUntouched, StreamAddressed, NoMissedCallback, Unique, Waiting
  <2> QED
    BY <1>0, <2>1, <2>3 DEF Inv
<1>3. ASSUME NEW q \in Request,
             RemoteRequest(q) \/ HttpAccepted(q) \/ AwaitReturns(q)
      PROVE  Inv'
  <2>1. /\ UNCHANGED <<pending, timer, promise, stream, delivered, running>>
        /\ caller'[q] # "idle"
        /\ caller'[q] = "done" => caller[q] = "awaiting" /\ promise[q] # "unsettled"
        /\ caller'[q] = "awaiting" => caller[q] = "posting"
        /\ caller'[q] # "posting"
        /\ \A r \in Request \ {q} : caller'[r] = caller[r]
    BY <1>0, <1>3 DEF RemoteRequest, HttpAccepted, AwaitReturns, TypeOK
  <2>2. PendingConsistent' /\ SettledHasNoTimer'
    BY <1>0, <2>1 DEF PendingConsistent, SettledHasNoTimer
  <2>3. TimerRegistered'
    BY <1>0, <2>1 DEF TimerRegistered, SettledHasNoTimer, Unique, Waiting
  <2>4. IdleUntouched' /\ StreamAddressed' /\ NoMissedCallback'
    BY <1>0, <2>1 DEF IdleUntouched, StreamAddressed, NoMissedCallback, Unique, Waiting
  <2> QED
    BY <1>0, <2>2, <2>3, <2>4 DEF Inv
<1>4. ASSUME NEW q \in Request, HttpFailed(q) PROVE Inv'
  <2>1. /\ UNCHANGED <<promise, stream, delivered, running>>
        /\ pending' = CancelPending(successSubject(q))
        /\ timer' = CancelTimer(successSubject(q))
        /\ caller'[q] = "done"
        /\ \A r \in Request \ {q} : caller'[r] = caller[r]
    BY <1>0, <1>4 DEF HttpFailed, TypeOK
  <2>2. timer'[q] => timer[q] /\ pending[successSubject(q)] # q
    <3>1. pending[successSubject(q)] # q => timer'[q] = timer[q]
      BY <1>0, <2>1, CancelFacts, Zenon
    <3>2. pending[successSubject(q)] = q => ~timer'[q]
      <4>1. q # None
        BY ConstantsAssumption
      <4> QED
        BY <1>0, <2>1, <4>1, CancelFacts, Zenon
    <3> QED
      BY <3>1, <3>2, Zenon
  <2>3. timer'[q] => ~Unique(q) /\ promise'[q] = "unsettled"
    BY <1>0, <2>1, <2>2, SubjectTypes DEF TimerRegistered, SettledHasNoTimer
  <2>4. PendingConsistent' /\ SettledHasNoTimer' /\ TimerRegistered'
    BY <1>0, <2>1, <2>3, CancelStep
  <2>5. IdleUntouched' /\ StreamAddressed' /\ NoMissedCallback'
    BY <1>0, <2>1 DEF IdleUntouched, StreamAddressed, NoMissedCallback, Unique, Waiting
  <2> QED
    BY <1>0, <2>4, <2>5 DEF Inv
<1>5. ASSUME NEW q \in Request, PublishCallback(q) PROVE Inv'
  <2>1. PICK s \in CallbackSubjects(q) : Publish(q, s)
    BY <1>5, PublishedOn
  <2>2. /\ UNCHANGED <<pending, timer, promise, caller, delivered, running>>
        /\ caller[q] # "idle"
        /\ stream' = stream \cup {[subject |-> s, of |-> q]}
    BY <2>1 DEF Publish
  <2>3. PendingConsistent' /\ SettledHasNoTimer' /\ TimerRegistered' /\ NoMissedCallback'
    BY <1>0, <2>2
       DEF PendingConsistent, SettledHasNoTimer, TimerRegistered, NoMissedCallback, Unique, Waiting
  <2>4. IdleUntouched' /\ StreamAddressed'
    BY <1>0, <2>1, <2>2 DEF IdleUntouched, StreamAddressed
  <2> QED
    BY <1>0, <2>3, <2>4 DEF Inv
<1>6. ASSUME NEW q \in Request, Timeout(q) PROVE Inv'
  <2>1. /\ UNCHANGED <<caller, stream, delivered, running>>
        /\ pending' = CancelPending(successSubject(q))
        /\ timer' = [CancelTimer(successSubject(q)) EXCEPT ![q] = FALSE]
        /\ promise'[q] # "unsettled"
        /\ \A r \in Request \ {q} : promise'[r] = promise[r]
        /\ timer[q]
    BY <1>0, <1>6 DEF Timeout, TypeOK
  <2>2. /\ \A r \in Request \ {q} : timer'[r] = CancelTimer(successSubject(q))[r]
        /\ ~timer'[q]
    BY <1>0, <2>1, CancelType, SubjectTypes
  <2>3. PendingConsistent' /\ SettledHasNoTimer' /\ TimerRegistered'
    BY <1>0, <2>1, <2>2, CancelStep
  <2>4. promise[q] = "unsettled" /\ caller[q] # "idle"
    BY <1>0, <2>1 DEF SettledHasNoTimer, IdleUntouched
  <2>5. IdleUntouched' /\ StreamAddressed' /\ NoMissedCallback'
    BY <1>0, <2>1, <2>4 DEF IdleUntouched, StreamAddressed, NoMissedCallback, Unique, Waiting
  <2> QED
    BY <1>0, <2>3, <2>5 DEF Inv
<1>7. ASSUME NEW m \in stream, DispatchToWaiter(m) PROVE Inv'
  <2> DEFINE s == Matched(m.subject)
             q == pending[s]
  <2>1. m.subject \in Subject /\ m.of \in Request
    BY <1>0 DEF TypeOK, Message
  <2>2. s \in Subject
    BY <2>1 DEF Matched, toAnyPayeeSubject, Subject
  <2>3. q \in Request /\ promise[q] = "unsettled" /\ pending[successSubject(q)] = q
    BY <1>0, <1>7, <2>2 DEF DispatchToWaiter, TypeOK, PendingConsistent
  <2>4. /\ UNCHANGED <<caller, running>>
        /\ pending' = CancelPending(successSubject(q))
        /\ timer' = CancelTimer(successSubject(q))
        /\ promise' = [promise EXCEPT ![q] = SettledAs(q, s)]
        /\ stream' = stream \ {m}
        /\ delivered' = delivered \cup {m.of}
    BY <1>7 DEF DispatchToWaiter
  <2> HIDE DEF q, s
  <2>5. /\ promise'[q] \in {"resolved", "rejected"}
        /\ \A r \in Request \ {q} : promise'[r] = promise[r]
    BY <1>0, <2>3, <2>4 DEF TypeOK, SettledAs
  <2>6. ~timer'[q]
    <3>1. q # None
      BY <2>3, ConstantsAssumption
    <3> QED
      BY <1>0, <2>3, <2>4, <3>1 DEF CancelTimer, TypeOK
  <2>7. PendingConsistent' /\ SettledHasNoTimer' /\ TimerRegistered'
    BY <1>0, <2>3, <2>4, <2>5, <2>6, CancelStep
  <2>8. IdleUntouched' /\ StreamAddressed'
    BY <1>0, <2>1, <2>3, <2>4, <2>5 DEF IdleUntouched, StreamAddressed
  <2>9. NoMissedCallback'
    <3> SUFFICES ASSUME NEW r \in Request, Unique(r), Waiting(r)', running
                 PROVE  r \notin delivered'
      BY <2>4 DEF NoMissedCallback, Unique
    <3>1. r # q /\ Waiting(r)
      BY <2>4, <2>5 DEF Waiting
    <3>2. m.of # r
      BY <3>1, OwnCallbackMatches DEF q, s
    <3> QED
      BY <1>0, <2>4, <3>1, <3>2 DEF NoMissedCallback
  <2> QED
    BY <1>0, <2>7, <2>8, <2>9 DEF Inv
<1>8. ASSUME NEW m \in stream, DispatchToRecent(m) PROVE Inv'
  <2>1. /\ UNCHANGED <<pending, timer, promise, caller, running>>
        /\ pending[Matched(m.subject)] = None
        /\ stream' = stream \ {m}
        /\ delivered' = delivered \cup {m.of}
    BY <1>8 DEF DispatchToRecent
  <2>2. PendingConsistent' /\ SettledHasNoTimer' /\ TimerRegistered'
    BY <1>0, <2>1 DEF PendingConsistent, SettledHasNoTimer, TimerRegistered, Unique, Waiting
  <2>3. IdleUntouched' /\ StreamAddressed'
    BY <1>0, <2>1 DEF IdleUntouched, StreamAddressed
  <2>4. NoMissedCallback'
    <3> SUFFICES ASSUME NEW r \in Request, Unique(r), Waiting(r), running
                 PROVE  r \notin delivered'
      BY <2>1 DEF NoMissedCallback, Unique, Waiting
    <3>1. m.of # r
      <4> SUFFICES ASSUME m.of = r PROVE FALSE
        OBVIOUS
      <4>1. pending[m.subject] = r /\ Matched(m.subject) = m.subject
        BY OwnCallbackMatches
      <4> QED
        BY <2>1, <4>1, ConstantsAssumption
    <3> QED
      BY <1>0, <2>1, <3>1 DEF NoMissedCallback
  <2> QED
    BY <1>0, <2>2, <2>3, <2>4 DEF Inv
<1>9. ASSUME evictExpiredRecent \/ UNCHANGED vars PROVE Inv'
  <2>1. UNCHANGED <<pending, timer, promise, caller, stream, delivered, running>>
    BY <1>9 DEF evictExpiredRecent, vars
  <2> QED
    BY <1>0, <2>1
       DEF Inv, PendingConsistent, SettledHasNoTimer, TimerRegistered, IdleUntouched,
           StreamAddressed, NoMissedCallback, Unique, Waiting
<1>10. ASSUME onModuleDestroy PROVE Inv'
  <2>1. /\ UNCHANGED <<promise, caller, stream, delivered>>
        /\ running' = FALSE
        /\ \A s \in Subject : pending'[s] = None
        /\ \A r \in Request : timer'[r] => timer[r] /\ \A s \in Subject : pending[s] # r
    BY <1>10, Zenon DEF onModuleDestroy
  <2>2. \A r \in Request : Unique(r) => ~timer'[r]
    BY <1>0, <2>1, SubjectTypes DEF TimerRegistered
  <2>3. PendingConsistent' /\ SettledHasNoTimer' /\ TimerRegistered'
    BY <1>0, <2>1, <2>2 DEF PendingConsistent, SettledHasNoTimer, TimerRegistered, Unique
  <2>4. IdleUntouched' /\ StreamAddressed' /\ NoMissedCallback'
    BY <1>0, <2>1 DEF IdleUntouched, StreamAddressed, NoMissedCallback
  <2> QED
    BY <1>0, <2>3, <2>4 DEF Inv
<1> QED
  BY <1>1, <1>2, <1>3, <1>4, <1>5, <1>6, <1>7, <1>8, <1>9, <1>10
     DEF Next, RequestStep, Dispatch

LEMMA InitInv == Init => Inv
<1>1. Init => TypeOK
  BY ConstantsAssumption DEF Init, TypeOK
<1> QED
  BY <1>1, ConstantsAssumption
     DEF Init, Inv, PendingConsistent, SettledHasNoTimer, TimerRegistered,
         IdleUntouched, StreamAddressed, NoMissedCallback, Waiting

(* The invariant holds in every state of every behaviour. *)
THEOREM Invariance == Spec => []Inv
BY InitInv, InvStep, PTL DEF Spec

(* The pending map is consistent, whatever subjects the requests share: an *)
(* entry is found under its own subjects only, is still reachable by       *)
(* cancel(), is unsettled and has its timer armed.                         *)
THEOREM PendingIsConsistent == Spec => []PendingConsistent
BY Invariance, PTL DEF Inv

(* No settled wait leaves a timer behind that could cancel a later waiter. *)
THEOREM NoStrayTimer == Spec => []SettledHasNoTimer
BY Invariance, PTL DEF Inv

(* No other request can orphan a quote or transfer wait. *)
THEOREM NeverOrphaned == Spec => []NoOrphan
<1>1. Inv => NoOrphan
  BY DEF Inv, TimerRegistered, NoOrphan
<1> QED
  BY <1>1, Invariance, PTL

(* A quote or transfer wait times out only when no callback for it was     *)
(* consumed while it waited.                                               *)
THEOREM NeverMissed == Spec => []NoMissedCallback
BY Invariance, PTL DEF Inv

(* A quote or transfer handler that has returned leaves nothing behind. *)
THEOREM NeverLeaks == Spec => []NoLeak
<1>1. Inv => NoLeak
  BY ConstantsAssumption DEF Inv, TimerRegistered, PendingConsistent, NoLeak
<1> QED
  BY <1>1, Invariance, PTL

-----------------------------------------------------------------------------
(* Correlation: what settles a promise. *)

(* A callback on a subject of a quote or transfer wait is that request's. *)
LEMMA CallbackDetermines ==
    ASSUME NEW r \in Request, Unique(r), NEW q \in Request,
           NEW s \in CallbackSubjects(q), s \in SubjectsOf(r)
    PROVE  q = r
<1>1. tuple[r] \in Tuple /\ tuple[q] \in Tuple /\ tuple[r].res # "parties"
  BY SubjectTypes DEF Unique
<1>2. s.res = tuple[q].res /\ s.key = tuple[q].key
  BY DEF CallbackSubjects, hubErrorSubject, forSuccess, forError
<1>3. s.res = tuple[r].res /\ s.key = tuple[r].key
  BY DEF SubjectsOf, successSubject, errorSubject, hubErrorSubject, forSuccess, forError
<1>4. tuple[r].payee = NoPayee /\ tuple[q].payee = NoPayee
  BY <1>1, <1>2, <1>3 DEF Tuple
<1>5. tuple[q] = tuple[r]
  <2>1. tuple[q].res = tuple[r].res /\ tuple[q].key = tuple[r].key
    BY <1>2, <1>3
  <2> QED
    BY <1>1, <1>4, <2>1 DEF Tuple
<1> QED
  BY <1>5 DEF Unique

(* What holds of a request whose promise a callback has settled or not. *)
CorrelatedAt(r) ==
    /\ promise[r] \in {"resolved", "rejected"} =>
          /\ reply[r] # None
          /\ Answers(reply[r], r)
          /\ promise[r] = "resolved" <=> reply[r].subject.ok
          /\ Unique(r) => reply[r].of = r
    /\ promise[r] \in {"none", "unsettled", "timedOut"} => reply[r] = None

(* The subject a callback is matched under: its own or, for a lookup      *)
(* without payee, the one with ANY_PAYEE (dispatch and takeFromRecent).   *)
MatchesAs(m, s) ==
    s = m.subject \/ (HasAnyPayeeSubject(m.subject) /\ s = toAnyPayeeSubject(m.subject))

(* A callback matched under a subject of a request answers that request.   *)
LEMMA AnswerSettles ==
    ASSUME NEW r \in Request, NEW m \in Addressed, NEW s \in SubjectsOf(r), MatchesAs(m, s)
    PROVE  /\ Answers(m, r) /\ m # None
           /\ SettledAs(r, s) \in {"resolved", "rejected"}
           /\ SettledAs(r, s) = "resolved" <=> m.subject.ok
           /\ Unique(r) => m.of = r
<1>1. /\ m \in Message /\ m.subject \in Subject /\ m.of \in Request
      /\ m.subject \in CallbackSubjects(m.of)
  BY DEF Addressed, Message
<1>2. tuple[r] \in Tuple /\ s \in Subject
  BY SubjectTypes
<1>3. /\ s.res = tuple[r].res /\ s.key = tuple[r].key
      /\ \/ s = successSubject(r) /\ s.ok = TRUE /\ s.payee = tuple[r].payee
         \/ s = errorSubject(r) /\ s.ok = FALSE /\ s.payee = tuple[r].payee
         \/ s = hubErrorSubject(r) /\ s.ok = FALSE /\ s.payee = SwitchId
  BY DEF SubjectsOf, successSubject, errorSubject, hubErrorSubject, forSuccess, forError
<1>4. /\ s.res = m.subject.res /\ s.key = m.subject.key /\ s.ok = m.subject.ok
      /\ s.payee = m.subject.payee \/ s.payee = AnyPayee
  BY <1>1 DEF MatchesAs, toAnyPayeeSubject, Subject
<1>5. Answers(m, r)
  BY <1>3, <1>4, ConstantsAssumption DEF Answers
<1>6. successSubject(r).ok = TRUE
  BY DEF successSubject, forSuccess
<1>7. SettledAs(r, s) \in {"resolved", "rejected"} /\ (SettledAs(r, s) = "resolved" <=> m.subject.ok)
  BY <1>3, <1>4, <1>6 DEF SettledAs
<1>8. ASSUME Unique(r) PROVE m.of = r
  <2>1. s = m.subject
    BY <1>3, <1>4, <1>8 DEF MatchesAs, HasAnyPayeeSubject, Unique
  <2> QED
    BY <1>1, <1>8, <2>1, CallbackDetermines
<1>9. m # None
  BY <1>1, NoneAssumption
<1> QED
  BY <1>5, <1>7, <1>8, <1>9

(* A callback settles the promise of r alone. *)
LEMMA SettleStep ==
    ASSUME TypeOK, Correlated, NEW r \in Request, NEW m \in Addressed,
           NEW s \in SubjectsOf(r), MatchesAs(m, s),
           promise' = [promise EXCEPT ![r] = SettledAs(r, s)],
           reply' = [reply EXCEPT ![r] = m]
    PROVE  Correlated'
<1>1. /\ Answers(m, r) /\ m # None
      /\ SettledAs(r, s) \in {"resolved", "rejected"}
      /\ SettledAs(r, s) = "resolved" <=> m.subject.ok
      /\ Unique(r) => m.of = r
  BY AnswerSettles
<1>2. promise'[r] = SettledAs(r, s) /\ reply'[r] = m
  BY DEF TypeOK
<1>3. CorrelatedAt(r)'
  BY <1>1, <1>2 DEF CorrelatedAt, Answers
<1>4. ASSUME NEW q \in Request, q # r PROVE CorrelatedAt(q)'
  <2>1. promise'[q] = promise[q] /\ reply'[q] = reply[q]
    BY <1>4 DEF TypeOK
  <2> QED
    BY <2>1 DEF Correlated, CorrelatedAt, Answers
<1> QED
  BY <1>3, <1>4 DEF Correlated, CorrelatedAt

(* A step that settles nothing with a callback. *)
LEMMA UnansweredStep ==
    ASSUME Correlated, reply' = reply,
           \A r \in Request : \/ promise'[r] = promise[r]
                              \/ /\ promise[r] \in {"none", "unsettled"}
                                 /\ promise'[r] \in {"unsettled", "timedOut"}
    PROVE  Correlated'
<1>1. ASSUME NEW r \in Request PROVE CorrelatedAt(r)'
  <2>1. CASE promise'[r] = promise[r]
    BY <2>1 DEF Correlated, CorrelatedAt, Answers
  <2>2. CASE promise[r] \in {"none", "unsettled"} /\ promise'[r] \in {"unsettled", "timedOut"}
    BY <2>2 DEF Correlated, CorrelatedAt
  <2> QED
    BY <2>1, <2>2
<1> QED
  BY <1>1 DEF Correlated, CorrelatedAt

LEMMA CorrelatedStep == CorrelatedInv /\ [Next]_vars => CorrelatedInv'
<1> SUFFICES ASSUME CorrelatedInv, [Next]_vars PROVE CorrelatedInv'
  OBVIOUS
<1>0. /\ Inv /\ TypeOK /\ Correlated /\ recent \in Seq(Addressed) /\ stream \subseteq Message
      /\ PendingConsistent /\ IdleUntouched
      /\ promise \in [Request -> {"none", "unsettled", "resolved", "rejected", "timedOut"}]
  BY DEF CorrelatedInv, Inv, TypeOK
<1>1. Inv'
  BY <1>0, InvStep
<1>2. stream \subseteq Addressed
  BY <1>0 DEF Inv, StreamAddressed, Addressed
<1>3. ASSUME NEW r \in Request, WaitForCached(r) PROVE Correlated' /\ recent' \in Seq(Addressed)
  <2>1. PICK i \in DOMAIN recent :
           /\ takeFromRecent(r, i)
           /\ promise' = [promise EXCEPT ![r] = SettledAs(r, MatchedInRecent(r, i))]
           /\ reply' = [reply EXCEPT ![r] = recent[i]]
           /\ recent' = RemoveAt(recent, i)
    BY <1>3 DEF WaitForCached
  <2>2. PICK m : m = recent[i]
    OBVIOUS
  <2>3. PICK s : s = MatchedInRecent(r, i)
    OBVIOUS
  <2>4. recent' \in Seq(Addressed) /\ m \in Addressed
    BY <1>0, <2>1, <2>2, RemoveAtType
  <2>5. \A c \in DOMAIN candidates(r) : candidates(r)[c] \in SubjectsOf(r)
    BY DEF candidates, SubjectsOf
  <2>6. s \in SubjectsOf(r) /\ MatchesAs(m, s)
    <3>1. CASE recent[i].subject \in SubjectsOf(r)
      BY <2>2, <2>3, <3>1 DEF MatchedInRecent, MatchesAs
    <3>2. CASE recent[i].subject \notin SubjectsOf(r)
      <4>1. AnswersAnyPayee(i, r)
        BY <2>1, <2>5, <3>2 DEF takeFromRecent
      <4> QED
        BY <2>2, <2>3, <3>2, <4>1 DEF MatchedInRecent, MatchesAs, AnswersAnyPayee
    <3> QED
      BY <3>1, <3>2
  <2>7. Correlated'
    BY <1>0, <2>1, <2>2, <2>3, <2>4, <2>6, SettleStep
  <2> QED
    BY <2>4, <2>7
<1>4. ASSUME NEW m \in stream, DispatchToWaiter(m) PROVE Correlated' /\ recent' \in Seq(Addressed)
  <2>1. PICK s : s = Matched(m.subject)
    OBVIOUS
  <2>2. PICK r : r = pending[s]
    OBVIOUS
  <2>3. /\ r # None /\ recent' = recent
        /\ promise' = [promise EXCEPT ![r] = SettledAs(r, s)]
        /\ reply' = [reply EXCEPT ![r] = m]
    BY <1>4, <2>1, <2>2 DEF DispatchToWaiter
  <2>4. m \in Addressed /\ m.subject \in Subject
    BY <1>0, <1>2 DEF Message
  <2>5. s \in Subject /\ MatchesAs(m, s)
    BY <2>1, <2>4 DEF Matched, toAnyPayeeSubject, Subject, MatchesAs
  <2>6. r \in Request /\ s \in SubjectsOf(r)
    BY <1>0, <2>2, <2>3, <2>5 DEF TypeOK, PendingConsistent
  <2>7. Correlated'
    BY <1>0, <2>3, <2>4, <2>5, <2>6, SettleStep
  <2> QED
    BY <1>0, <2>3, <2>7
<1>5. ASSUME NEW m \in stream, DispatchToRecent(m) PROVE Correlated' /\ recent' \in Seq(Addressed)
  <2>1. recent' = addToRecent(m) /\ reply' = reply /\ promise' = promise /\ m \in Addressed
    BY <1>2, <1>5 DEF DispatchToRecent
  <2>2. recent' \in Seq(Addressed)
    BY <1>0, <2>1, AddToRecentType
  <2> QED
    BY <1>0, <2>1, <2>2, UnansweredStep
<1>6. ASSUME evictExpiredRecent PROVE Correlated' /\ recent' \in Seq(Addressed)
  <2>1. PICK i \in DOMAIN recent : recent' = RemoveAt(recent, i) /\ reply' = reply /\ promise' = promise
    BY <1>6 DEF evictExpiredRecent
  <2>2. recent' \in Seq(Addressed)
    BY <1>0, <2>1, RemoveAtType
  <2> QED
    BY <1>0, <2>1, <2>2, UnansweredStep
<1>7. ASSUME onModuleDestroy PROVE Correlated' /\ recent' \in Seq(Addressed)
  <2>1. recent' = <<>> /\ reply' = reply /\ promise' = promise
    BY <1>7 DEF onModuleDestroy
  <2> QED
    BY <1>0, <2>1, UnansweredStep
<1>8. ASSUME NEW r \in Request, WaitFor(r) \/ Timeout(r) PROVE Correlated' /\ recent' \in Seq(Addressed)
  <2>1. reply' = reply /\ recent' = recent
    BY <1>8 DEF WaitFor, Timeout
  <2>2. ASSUME NEW q \in Request
        PROVE  \/ promise'[q] = promise[q]
               \/ promise[q] \in {"none", "unsettled"} /\ promise'[q] \in {"unsettled", "timedOut"}
    BY <1>0, <1>8 DEF WaitFor, Timeout, IdleUntouched
  <2> QED
    BY <1>0, <2>1, <2>2, UnansweredStep
<1>9. ASSUME UNCHANGED <<promise, reply, recent>> PROVE Correlated' /\ recent' \in Seq(Addressed)
  BY <1>0, <1>9, UnansweredStep
<1>10. ASSUME NEW r \in Request,
              RemoteRequest(r) \/ HttpAccepted(r) \/ HttpFailed(r) \/ AwaitReturns(r) \/ PublishCallback(r)
       PROVE  UNCHANGED <<promise, reply, recent>>
  BY <1>10 DEF RemoteRequest, HttpAccepted, HttpFailed, AwaitReturns, PublishCallback, HandlePutParties,
       HandlePutPartiesError, HandlePutResult, HandlePutResultError, Publish
<1>11. Correlated' /\ recent' \in Seq(Addressed)
  <2>1. CASE UNCHANGED vars
    BY <1>9, <2>1 DEF vars
  <2>2. CASE \E r \in Request : RequestStep(r)
    BY <1>3, <1>8, <1>9, <1>10, <2>2 DEF RequestStep
  <2>3. CASE \E m \in stream : Dispatch(m)
    BY <1>4, <1>5, <2>3 DEF Dispatch
  <2> QED
    BY <1>6, <1>7, <2>1, <2>2, <2>3 DEF Next
<1> QED
  BY <1>1, <1>11 DEF CorrelatedInv

(* Correlated: whatever subjects the requests share, and whether a callback *)
(* comes before or after the wait, a promise is settled by a callback that  *)
(* answers it, in the way that callback says, and a quote or transfer wait  *)
(* by its own.                                                              *)
THEOREM AlwaysCorrelated == Spec => []Correlated
<1>1. Init => CorrelatedInv
  <2> SUFFICES ASSUME Init PROVE CorrelatedInv
    OBVIOUS
  <2>1. Inv
    BY InitInv
  <2>2. Correlated /\ recent \in Seq(Addressed)
    BY DEF Init, Correlated
  <2> QED
    BY <2>1, <2>2 DEF CorrelatedInv
<1>2. CorrelatedInv => Correlated
  BY DEF CorrelatedInv
<1> QED
  BY <1>1, <1>2, CorrelatedStep, PTL DEF Spec
=============================================================================
