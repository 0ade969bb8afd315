-------------------------- MODULE SendMoneyProofs --------------------------
(* Proofs about SendMoney, for every set of PUTs and all timeouts for which *)
(* the lock outlives the work it guards.                                   *)
EXTENDS SendMoney, TLAPS

(* What a handler makes of the callback. *)
LEMMA CallbackCopy ==
    ASSUME NEW k
    PROVE  /\ WithCallback(k) \in TransferRequest
           /\ WithCallback(k) # None
           /\ WithCallback(k).quotes <=> k # "sendMoney"
<1>1. WithCallback(k) \in TransferRequest
  BY Zenon DEF WithCallback, TransferRequest
<1>2. WithCallback(k).quotes <=> k # "sendMoney"
  BY Zenon DEF WithCallback
<1> QED
  BY <1>1, <1>2, NullAssumption

(* The type invariant is inductive. *)
LEMMA TypeStep ==
    ASSUME TypeOK, [Next]_vars
    PROVE  TypeOK'
<1>1. CASE StartPost
  BY <1>1, ConstantsAssumption, NullAssumption DEF TypeOK, StartPost, Handler, Kind, Location, TransferRequest, Goto, Return
<1>2. CASE CacheExpires
  BY <1>2, ConstantsAssumption, NullAssumption DEF TypeOK, CacheExpires, Handler, Kind, Location, TransferRequest
<1>3. CASE LockExpires
  BY <1>3, ConstantsAssumption, NullAssumption DEF TypeOK, LockExpires, Handler, Kind, Location, TransferRequest
<1>4. CASE Tick
  BY <1>4, ConstantsAssumption, NullAssumption DEF TypeOK, Tick, Handler, Kind, Location, TransferRequest, InWait, Active, MayTick
<1>5. CASE \E h \in Handler : HandlerStep(h)
  <2> PICK h \in Handler : HandlerStep(h)
    BY <1>5
  <2> USE ConstantsAssumption, NullAssumption DEF TypeOK, Handler, Kind, Location, TransferRequest
  <2>1. CASE AcquireLock(h)
    BY <2>1 DEF AcquireLock, Goto
  <2>2. CASE AcquireLockLost(h)
    BY <2>2 DEF AcquireLockLost, Goto
  <2>3. CASE GetFails(h)
    BY <2>3 DEF GetFails, Goto, Return
  <2>4. CASE GetRejects(h)
    BY <2>4 DEF GetRejects, Goto, Return
  <2>5. CASE GetAcceptParty(h)
    BY <2>5 DEF GetAcceptParty, Goto, AlreadyDone
  <2>6. CASE GetAcceptQuote(h)
    BY <2>6 DEF GetAcceptQuote, Goto, Return, AlreadyDone
  <2>7. CASE SetHomeTransactionId(h)
    BY <2>7 DEF SetHomeTransactionId, Goto, Return
  <2>8. CASE AuditRequest(h)
    BY <2>8 DEF AuditRequest, Goto, Publish
  <2>9. CASE AuditRequestFails(h)
    BY <2>9 DEF AuditRequestFails, Goto, Return
  <2>10. CASE Refuse(h)
    BY <2>10 DEF Refuse, Goto
  <2>11. CASE SendToHub(h)
    BY <2>11 DEF SendToHub, Goto
  <2>12. CASE AwaitReturns(h)
    BY <2>12, CallbackCopy DEF AwaitReturns, Goto
  <2>13. CASE Save(h)
    BY <2>13 DEF Save, Goto
  <2>14. CASE AuditResponse(h)
    BY <2>14 DEF AuditResponse, Goto, Publish, Return
  <2>15. CASE AuditResponseFails(h)
    BY <2>15 DEF AuditResponseFails, Goto
  <2>16. CASE DeleteTransfer(h)
    BY <2>16 DEF DeleteTransfer, Goto, Return
  <2>17. CASE AuditError(h)
    BY <2>17 DEF AuditError, Goto
  <2>18. CASE ClearTransfer(h)
    BY <2>18 DEF ClearTransfer, Goto, Return
  <2>19. CASE Finish(h)
    BY <2>19 DEF Finish, Goto, Leave
  <2>20. CASE HttpAccepted(h)
    BY <2>20 DEF HttpAccepted, Goto
  <2>21. CASE HttpFailed(h)
    BY <2>21 DEF HttpFailed, Goto
  <2>22. CASE Callback(h)
    BY <2>22 DEF Callback
  <2>23. CASE WaitTimesOut(h)
    BY <2>23 DEF WaitTimesOut
  <2>24. CASE Crash(h)
    BY <2>24 DEF Crash, Goto, Leave, Active
  <2> QED
    BY <2>1, <2>2, <2>3, <2>4, <2>5, <2>6, <2>7, <2>8, <2>9, <2>10, <2>11, <2>12, <2>13, <2>14, <2>15, <2>16, <2>17, <2>18, <2>19, <2>20, <2>21, <2>22, <2>23, <2>24 DEF HandlerStep, Proceed, HttpReturns
<1>6. CASE UNCHANGED vars
  BY <1>6 DEF TypeOK, vars
<1> QED
  BY <1>1, <1>2, <1>3, <1>4, <1>5, <1>6 DEF Next

(* The lock is as old as its holder's work, which is bounded.               *)
LEMMA TimedStep ==
    ASSUME TypeOK, Timed, Placed, LockOutlivesWork, [Next]_vars
    PROVE  Timed'
<1> USE ConstantsAssumption DEF TypeOK, Timed, Placed, Handler, Active
<1>1. CASE StartPost
  BY <1>1 DEF StartPost, Goto, Return
<1>2. CASE CacheExpires
  BY <1>2 DEF CacheExpires
<1>3. CASE LockExpires
  BY <1>3 DEF LockExpires, LockOutlivesWork
<1>4. CASE Tick
  BY <1>4 DEF Tick, InWait, MayTick, LockOutlivesWork
<1>5. CASE \E h \in Handler : HandlerStep(h)
  <2> PICK h \in Handler : HandlerStep(h)
    BY <1>5
  <2>1. CASE AcquireLock(h)
    BY <2>1 DEF AcquireLock, Goto
  <2>2. CASE AcquireLockLost(h)
    BY <2>2 DEF AcquireLockLost, Goto
  <2>3. CASE GetFails(h)
    BY <2>3 DEF GetFails, Goto, Return
  <2>4. CASE GetRejects(h)
    BY <2>4 DEF GetRejects, Goto, Return
  <2>5. CASE GetAcceptParty(h)
    BY <2>5 DEF GetAcceptParty, Goto, AlreadyDone
  <2>6. CASE GetAcceptQuote(h)
    BY <2>6 DEF GetAcceptQuote, Goto, Return, AlreadyDone
  <2>7. CASE SetHomeTransactionId(h)
    BY <2>7 DEF SetHomeTransactionId, Goto, Return
  <2>8. CASE AuditRequest(h)
    BY <2>8 DEF AuditRequest, Goto, Publish
  <2>9. CASE AuditRequestFails(h)
    BY <2>9 DEF AuditRequestFails, Goto, Return
  <2>10. CASE Refuse(h)
    BY <2>10 DEF Refuse, Goto
  <2>11. CASE SendToHub(h)
    BY <2>11 DEF SendToHub, Goto
  <2>12. CASE AwaitReturns(h)
    BY <2>12 DEF AwaitReturns, Goto
  <2>13. CASE Save(h)
    BY <2>13 DEF Save, Goto
  <2>14. CASE AuditResponse(h)
    BY <2>14 DEF AuditResponse, Goto, Publish, Return
  <2>15. CASE AuditResponseFails(h)
    BY <2>15 DEF AuditResponseFails, Goto
  <2>16. CASE DeleteTransfer(h)
    BY <2>16 DEF DeleteTransfer, Goto, Return
  <2>17. CASE AuditError(h)
    BY <2>17 DEF AuditError, Goto
  <2>18. CASE ClearTransfer(h)
    BY <2>18 DEF ClearTransfer, Goto, Return
  <2>19. CASE Finish(h)
    BY <2>19 DEF Finish, Goto, Leave
  <2>20. CASE HttpAccepted(h)
    BY <2>20 DEF HttpAccepted, Goto
  <2>21. CASE HttpFailed(h)
    BY <2>21 DEF HttpFailed, Goto
  <2>22. CASE Callback(h)
    BY <2>22 DEF Callback
  <2>23. CASE WaitTimesOut(h)
    BY <2>23 DEF WaitTimesOut
  <2>24. CASE Crash(h)
    BY <2>24 DEF Crash, Goto, Leave
  <2> QED
    BY <2>1, <2>2, <2>3, <2>4, <2>5, <2>6, <2>7, <2>8, <2>9, <2>10, <2>11, <2>12, <2>13, <2>14, <2>15, <2>16, <2>17, <2>18, <2>19, <2>20, <2>21, <2>22, <2>23, <2>24 DEF HandlerStep, Proceed, HttpReturns
<1>6. CASE UNCHANGED vars
  BY <1>6 DEF vars
<1> QED
  BY <1>1, <1>2, <1>3, <1>4, <1>5, <1>6 DEF Next

(* What a handler has done follows from where it is.                       *)
LEMMA PlacedStep ==
    ASSUME TypeOK, Placed, [Next]_vars
    PROVE  Placed'
<1> USE ConstantsAssumption DEF TypeOK, Placed, Handler
<1>1. CASE StartPost
  BY <1>1 DEF StartPost, Goto, Return
<1>2. CASE CacheExpires
  BY <1>2 DEF CacheExpires
<1>3. CASE LockExpires
  BY <1>3 DEF LockExpires
<1>4. CASE Tick
  BY <1>4 DEF Tick, InWait, Active, MayTick
<1>5. CASE \E h \in Handler : HandlerStep(h)
  <2> PICK h \in Handler : HandlerStep(h)
    BY <1>5
  <2>1. CASE AcquireLock(h)
    BY <2>1 DEF AcquireLock, Goto
  <2>2. CASE AcquireLockLost(h)
    BY <2>2 DEF AcquireLockLost, Goto
  <2>3. CASE GetFails(h)
    BY <2>3 DEF GetFails, Goto, Return
  <2>4. CASE GetRejects(h)
    BY <2>4 DEF GetRejects, Goto, Return
  <2>5. CASE GetAcceptParty(h)
    BY <2>5 DEF GetAcceptParty, Goto, AlreadyDone
  <2>6. CASE GetAcceptQuote(h)
    BY <2>6 DEF GetAcceptQuote, Goto, Return, AlreadyDone
  <2>7. CASE SetHomeTransactionId(h)
    BY <2>7 DEF SetHomeTransactionId, Goto, Return
  <2>8. CASE AuditRequest(h)
    BY <2>8 DEF AuditRequest, Goto, Publish
  <2>9. CASE AuditRequestFails(h)
    BY <2>9 DEF AuditRequestFails, Goto, Return
  <2>10. CASE Refuse(h)
    BY <2>10 DEF Refuse, Goto
  <2>11. CASE SendToHub(h)
    BY <2>11 DEF SendToHub, Goto
  <2>12. CASE AwaitReturns(h)
    BY <2>12 DEF AwaitReturns, Goto
  <2>13. CASE Save(h)
    BY <2>13 DEF Save, Goto
  <2>14. CASE AuditResponse(h)
    BY <2>14 DEF AuditResponse, Goto, Publish, Return
  <2>15. CASE AuditResponseFails(h)
    BY <2>15 DEF AuditResponseFails, Goto
  <2>16. CASE DeleteTransfer(h)
    BY <2>16 DEF DeleteTransfer, Goto, Return
  <2>17. CASE AuditError(h)
    BY <2>17 DEF AuditError, Goto
  <2>18. CASE ClearTransfer(h)
    BY <2>18 DEF ClearTransfer, Goto, Return
  <2>19. CASE Finish(h)
    BY <2>19 DEF Finish, Goto, Leave
  <2>20. CASE HttpAccepted(h)
    BY <2>20 DEF HttpAccepted, Goto
  <2>21. CASE HttpFailed(h)
    BY <2>21 DEF HttpFailed, Goto
  <2>22. CASE Callback(h)
    BY <2>22 DEF Callback
  <2>23. CASE WaitTimesOut(h)
    BY <2>23 DEF WaitTimesOut
  <2>24. CASE Crash(h)
    BY <2>24 DEF Crash, Goto, Leave, Active
  <2> QED
    BY <2>1, <2>2, <2>3, <2>4, <2>5, <2>6, <2>7, <2>8, <2>9, <2>10, <2>11, <2>12, <2>13, <2>14, <2>15, <2>16, <2>17, <2>18, <2>19, <2>20, <2>21, <2>22, <2>23, <2>24 DEF HandlerStep, Proceed, HttpReturns
<1>6. CASE UNCHANGED vars
  BY <1>6 DEF vars
<1> QED
  BY <1>1, <1>2, <1>3, <1>4, <1>5, <1>6 DEF Next

(* Every copy of a quote stems from the callback of an acceptParty.        *)
LEMMA TermsStep ==
    ASSUME TypeOK, Placed, Terms, TransferNeedsQuote, [Next]_vars
    PROVE  Terms'
<1> USE ConstantsAssumption, NullAssumption DEF TypeOK, Placed, Terms, Quoted, Handler
<1>1. CASE StartPost
  BY <1>1 DEF StartPost, Goto, Return
<1>2. CASE CacheExpires
  BY <1>2 DEF CacheExpires
<1>3. CASE LockExpires
  BY <1>3 DEF LockExpires
<1>4. CASE Tick
  BY <1>4 DEF Tick, InWait, Active, MayTick
<1>5. CASE \E h \in Handler : HandlerStep(h)
  <2> PICK h \in Handler : HandlerStep(h)
    BY <1>5
  <2>1. CASE AcquireLock(h)
    BY <2>1 DEF AcquireLock, Goto
  <2>2. CASE AcquireLockLost(h)
    BY <2>2 DEF AcquireLockLost, Goto
  <2>3. CASE GetFails(h)
    BY <2>3 DEF GetFails, Goto, Return
  <2>4. CASE GetRejects(h)
    BY <2>4 DEF GetRejects, Goto, Return
  <2>5. CASE GetAcceptParty(h)
    BY <2>5 DEF GetAcceptParty, Goto, AlreadyDone
  <2>6. CASE GetAcceptQuote(h)
    BY <2>6 DEF GetAcceptQuote, Goto, Return, AlreadyDone
  <2>7. CASE SetHomeTransactionId(h)
    BY <2>7 DEF SetHomeTransactionId, Goto, Return
  <2>8. CASE AuditRequest(h)
    BY <2>8 DEF AuditRequest, Goto, Publish
  <2>9. CASE AuditRequestFails(h)
    BY <2>9 DEF AuditRequestFails, Goto, Return
  <2>10. CASE Refuse(h)
    BY <2>10 DEF Refuse, Goto
  <2>11. CASE SendToHub(h)
    BY <2>11 DEF SendToHub, Goto
  <2>12. CASE AwaitReturns(h)
    <3>1. CASE /\ reply[h] = "ok"
               /\ req' = [req EXCEPT ![h] = WithCallback(kind[h])]
               /\ Goto(h, IF kind[h] = "acceptQuote" THEN "respond" ELSE "save")
      <4>1. kind[h] # "sendMoney" => Quoted'
        BY <2>12, <3>1 DEF AwaitReturns, TransferNeedsQuote, Kind
      <4>2. Quoted => Quoted'
        BY <2>12 DEF AwaitReturns
      <4> QED
        BY <2>12, <3>1, <4>1, <4>2, CallbackCopy DEF AwaitReturns, Goto
    <3>2. CASE Goto(h, "fail") /\ UNCHANGED req
      BY <2>12, <3>2 DEF AwaitReturns, Goto
    <3> QED
      BY <2>12, <3>1, <3>2 DEF AwaitReturns
  <2>13. CASE Save(h)
    BY <2>13 DEF Save, Goto
  <2>14. CASE AuditResponse(h)
    BY <2>14 DEF AuditResponse, Goto, Publish, Return
  <2>15. CASE AuditResponseFails(h)
    BY <2>15 DEF AuditResponseFails, Goto
  <2>16. CASE DeleteTransfer(h)
    BY <2>16 DEF DeleteTransfer, Goto, Return
  <2>17. CASE AuditError(h)
    BY <2>17 DEF AuditError, Goto
  <2>18. CASE ClearTransfer(h)
    BY <2>18 DEF ClearTransfer, Goto, Return
  <2>19. CASE Finish(h)
    BY <2>19 DEF Finish, Goto, Leave
  <2>20. CASE HttpAccepted(h)
    BY <2>20 DEF HttpAccepted, Goto
  <2>21. CASE HttpFailed(h)
    BY <2>21 DEF HttpFailed, Goto
  <2>22. CASE Callback(h)
    BY <2>22 DEF Callback
  <2>23. CASE WaitTimesOut(h)
    BY <2>23 DEF WaitTimesOut
  <2>24. CASE Crash(h)
    BY <2>24 DEF Crash, Goto, Leave, Active
  <2> QED
    BY <2>1, <2>2, <2>3, <2>4, <2>5, <2>6, <2>7, <2>8, <2>9, <2>10, <2>11, <2>12, <2>13, <2>14, <2>15, <2>16, <2>17, <2>18, <2>19, <2>20, <2>21, <2>22, <2>23, <2>24 DEF HandlerStep, Proceed, HttpReturns
<1>6. CASE UNCHANGED vars
  BY <1>6 DEF vars
<1> QED
  BY <1>1, <1>2, <1>3, <1>4, <1>5, <1>6 DEF Next

(* A transfer is requested only on the terms of a quote.                   *)
LEMMA NeedsQuoteStep ==
    ASSUME TypeOK, Placed, Terms, TransferNeedsQuote, [Next]_vars
    PROVE  TransferNeedsQuote'
<1> USE ConstantsAssumption DEF TypeOK, Placed, Terms, Quoted, TransferNeedsQuote, Handler
<1>1. CASE StartPost
  BY <1>1 DEF StartPost, Goto, Return
<1>2. CASE CacheExpires
  BY <1>2 DEF CacheExpires
<1>3. CASE LockExpires
  BY <1>3 DEF LockExpires
<1>4. CASE Tick
  BY <1>4 DEF Tick, InWait, Active, MayTick
<1>5. CASE \E h \in Handler : HandlerStep(h)
  <2> PICK h \in Handler : HandlerStep(h)
    BY <1>5
  <2>1. CASE AcquireLock(h)
    BY <2>1 DEF AcquireLock, Goto
  <2>2. CASE AcquireLockLost(h)
    BY <2>2 DEF AcquireLockLost, Goto
  <2>3. CASE GetFails(h)
    BY <2>3 DEF GetFails, Goto, Return
  <2>4. CASE GetRejects(h)
    BY <2>4 DEF GetRejects, Goto, Return
  <2>5. CASE GetAcceptParty(h)
    BY <2>5 DEF GetAcceptParty, Goto, AlreadyDone
  <2>6. CASE GetAcceptQuote(h)
    BY <2>6 DEF GetAcceptQuote, Goto, Return, AlreadyDone
  <2>7. CASE SetHomeTransactionId(h)
    BY <2>7 DEF SetHomeTransactionId, Goto, Return
  <2>8. CASE AuditRequest(h)
    BY <2>8 DEF AuditRequest, Goto, Publish
  <2>9. CASE AuditRequestFails(h)
    BY <2>9 DEF AuditRequestFails, Goto, Return
  <2>10. CASE Refuse(h)
    BY <2>10 DEF Refuse, Goto
  <2>11. CASE SendToHub(h)
    BY <2>11 DEF SendToHub, Goto
  <2>12. CASE AwaitReturns(h)
    BY <2>12 DEF AwaitReturns, Goto
  <2>13. CASE Save(h)
    BY <2>13 DEF Save, Goto
  <2>14. CASE AuditResponse(h)
    BY <2>14 DEF AuditResponse, Goto, Publish, Return
  <2>15. CASE AuditResponseFails(h)
    BY <2>15 DEF AuditResponseFails, Goto
  <2>16. CASE DeleteTransfer(h)
    BY <2>16 DEF DeleteTransfer, Goto, Return
  <2>17. CASE AuditError(h)
    BY <2>17 DEF AuditError, Goto
  <2>18. CASE ClearTransfer(h)
    BY <2>18 DEF ClearTransfer, Goto, Return
  <2>19. CASE Finish(h)
    BY <2>19 DEF Finish, Goto, Leave
  <2>20. CASE HttpAccepted(h)
    BY <2>20 DEF HttpAccepted, Goto
  <2>21. CASE HttpFailed(h)
    BY <2>21 DEF HttpFailed, Goto
  <2>22. CASE Callback(h)
    BY <2>22 DEF Callback
  <2>23. CASE WaitTimesOut(h)
    BY <2>23 DEF WaitTimesOut
  <2>24. CASE Crash(h)
    BY <2>24 DEF Crash, Goto, Leave, Active
  <2> QED
    BY <2>1, <2>2, <2>3, <2>4, <2>5, <2>6, <2>7, <2>8, <2>9, <2>10, <2>11, <2>12, <2>13, <2>14, <2>15, <2>16, <2>17, <2>18, <2>19, <2>20, <2>21, <2>22, <2>23, <2>24 DEF HandlerStep, Proceed, HttpReturns
<1>6. CASE UNCHANGED vars
  BY <1>6 DEF vars
<1> QED
  BY <1>1, <1>2, <1>3, <1>4, <1>5, <1>6 DEF Next

(* The audit trail covers what was sent to the Hub.                        *)
LEMMA AuditStep ==
    ASSUME TypeOK, Placed, AuditedFirst, Terms, AuditCoversHub, [Next]_vars
    PROVE  (AuditedFirst /\ AuditCoversHub)'
<1> USE ConstantsAssumption DEF TypeOK, Placed, Terms, AuditedFirst, AuditCoversHub, Handler
<1>1. CASE StartPost
  BY <1>1 DEF StartPost, Goto, Return
<1>2. CASE CacheExpires
  BY <1>2 DEF CacheExpires
<1>3. CASE LockExpires
  BY <1>3 DEF LockExpires
<1>4. CASE Tick
  BY <1>4 DEF Tick, InWait, Active, MayTick
<1>5. CASE \E h \in Handler : HandlerStep(h)
  <2> PICK h \in Handler : HandlerStep(h)
    BY <1>5
  <2>1. CASE AcquireLock(h)
    BY <2>1 DEF AcquireLock, Goto
  <2>2. CASE AcquireLockLost(h)
    BY <2>2 DEF AcquireLockLost, Goto
  <2>3. CASE GetFails(h)
    BY <2>3 DEF GetFails, Goto, Return
  <2>4. CASE GetRejects(h)
    BY <2>4 DEF GetRejects, Goto, Return
  <2>5. CASE GetAcceptParty(h)
    BY <2>5 DEF GetAcceptParty, Goto, AlreadyDone
  <2>6. CASE GetAcceptQuote(h)
    BY <2>6 DEF GetAcceptQuote, Goto, Return, AlreadyDone
  <2>7. CASE SetHomeTransactionId(h)
    BY <2>7 DEF SetHomeTransactionId, Goto, Return
  <2>8. CASE AuditRequest(h)
    BY <2>8 DEF AuditRequest, Goto, Publish
  <2>9. CASE AuditRequestFails(h)
    BY <2>9 DEF AuditRequestFails, Goto, Return
  <2>10. CASE Refuse(h)
    BY <2>10 DEF Refuse, Goto
  <2>11. CASE SendToHub(h)
    BY <2>11 DEF SendToHub, Goto
  <2>12. CASE AwaitReturns(h)
    BY <2>12 DEF AwaitReturns, Goto
  <2>13. CASE Save(h)
    BY <2>13 DEF Save, Goto
  <2>14. CASE AuditResponse(h)
    BY <2>14 DEF AuditResponse, Goto, Publish, Return
  <2>15. CASE AuditResponseFails(h)
    BY <2>15 DEF AuditResponseFails, Goto
  <2>16. CASE DeleteTransfer(h)
    BY <2>16 DEF DeleteTransfer, Goto, Return
  <2>17. CASE AuditError(h)
    BY <2>17 DEF AuditError, Goto
  <2>18. CASE ClearTransfer(h)
    BY <2>18 DEF ClearTransfer, Goto, Return
  <2>19. CASE Finish(h)
    BY <2>19 DEF Finish, Goto, Leave
  <2>20. CASE HttpAccepted(h)
    BY <2>20 DEF HttpAccepted, Goto
  <2>21. CASE HttpFailed(h)
    BY <2>21 DEF HttpFailed, Goto
  <2>22. CASE Callback(h)
    BY <2>22 DEF Callback
  <2>23. CASE WaitTimesOut(h)
    BY <2>23 DEF WaitTimesOut
  <2>24. CASE Crash(h)
    BY <2>24 DEF Crash, Goto, Leave, Active
  <2> QED
    BY <2>1, <2>2, <2>3, <2>4, <2>5, <2>6, <2>7, <2>8, <2>9, <2>10, <2>11, <2>12, <2>13, <2>14, <2>15, <2>16, <2>17, <2>18, <2>19, <2>20, <2>21, <2>22, <2>23, <2>24 DEF HandlerStep, Proceed, HttpReturns
<1>6. CASE UNCHANGED vars
  BY <1>6 DEF vars
<1> QED
  BY <1>1, <1>2, <1>3, <1>4, <1>5, <1>6 DEF Next

(* What the cache shows of the requests that were sent.                    *)
LEMMA SentShowsStep ==
    ASSUME TypeOK, Timed, Placed, Terms, Phases, [Next]_vars
    PROVE  (~faulty => SentShows)'
<1> USE ConstantsAssumption, NullAssumption DEF TypeOK, Timed, Placed, Terms, Phases, SentShows, HolderKnows, Active, Handler
<1>1. CASE StartPost
  BY <1>1 DEF StartPost, Goto, Return
<1>2. CASE CacheExpires
  BY <1>2 DEF CacheExpires
<1>3. CASE LockExpires
  BY <1>3 DEF LockExpires
<1>4. CASE Tick
  BY <1>4 DEF Tick, InWait, MayTick
<1>5. CASE \E h \in Handler : HandlerStep(h)
  <2> PICK h \in Handler : HandlerStep(h)
    BY <1>5
  <2>1. CASE AcquireLock(h)
    BY <2>1 DEF AcquireLock, Goto
  <2>2. CASE AcquireLockLost(h)
    BY <2>2 DEF AcquireLockLost, Goto
  <2>3. CASE GetFails(h)
    BY <2>3 DEF GetFails, Goto, Return
  <2>4. CASE GetRejects(h)
    BY <2>4 DEF GetRejects, Goto, Return
  <2>5. CASE GetAcceptParty(h)
    BY <2>5 DEF GetAcceptParty, Goto, AlreadyDone
  <2>6. CASE GetAcceptQuote(h)
    BY <2>6 DEF GetAcceptQuote, Goto, Return, AlreadyDone
  <2>7. CASE SetHomeTransactionId(h)
    BY <2>7 DEF SetHomeTransactionId, Goto, Return
  <2>8. CASE AuditRequest(h)
    BY <2>8 DEF AuditRequest, Goto, Publish
  <2>9. CASE AuditRequestFails(h)
    BY <2>9 DEF AuditRequestFails, Goto, Return
  <2>10. CASE Refuse(h)
    BY <2>10 DEF Refuse, Goto
  <2>11. CASE SendToHub(h)
    BY <2>11 DEF SendToHub, Goto
  <2>12. CASE AwaitReturns(h)
    BY <2>12 DEF AwaitReturns, Goto
  <2>13. CASE Save(h)
    <3>1. CASE h = Post
      BY <2>13, <3>1 DEF Save, Goto
    <3>2. CASE h \in Put
      <4>1. kind[h] = "acceptParty" /\ req[h] # None /\ req[h].quotes
        BY <2>13, <3>2, Zenon DEF Save, Kind
      <4>2. cache' = cache \/ cache' = req[h]
        BY <2>13 DEF Save
      <4>3. ASSUME ~faulty
            PROVE  \A g \in sent : kind[g] # "acceptQuote"
        BY <2>13, <3>2, <4>1, <4>3 DEF Save
      <4>4. CASE cache' = req[h]
        BY <2>13, <4>1, <4>3, <4>4 DEF Save
      <4>5. CASE cache' = cache /\ pc' = [pc EXCEPT ![h] = "fail"]
        BY <2>13, <4>3, <4>5 DEF Save
      <4> QED
        BY <2>13, <4>2, <4>4, <4>5 DEF Save, Goto
    <3> QED
      BY <3>1, <3>2
  <2>14. CASE AuditResponse(h)
    BY <2>14 DEF AuditResponse, Goto, Publish, Return
  <2>15. CASE AuditResponseFails(h)
    BY <2>15 DEF AuditResponseFails, Goto
  <2>16. CASE DeleteTransfer(h)
    BY <2>16 DEF DeleteTransfer, Goto, Return
  <2>17. CASE AuditError(h)
    BY <2>17 DEF AuditError, Goto
  <2>18. CASE ClearTransfer(h)
    BY <2>18 DEF ClearTransfer, Goto, Return
  <2>19. CASE Finish(h)
    BY <2>19 DEF Finish, Goto, Leave
  <2>20. CASE HttpAccepted(h)
    BY <2>20 DEF HttpAccepted, Goto
  <2>21. CASE HttpFailed(h)
    BY <2>21 DEF HttpFailed, Goto
  <2>22. CASE Callback(h)
    BY <2>22 DEF Callback
  <2>23. CASE WaitTimesOut(h)
    BY <2>23 DEF WaitTimesOut
  <2>24. CASE Crash(h)
    BY <2>24 DEF Crash, Goto, Leave
  <2> QED
    BY <2>1, <2>2, <2>3, <2>4, <2>5, <2>6, <2>7, <2>8, <2>9, <2>10, <2>11, <2>12, <2>13, <2>14, <2>15, <2>16, <2>17, <2>18, <2>19, <2>20, <2>21, <2>22, <2>23, <2>24 DEF HandlerStep, Proceed, HttpReturns
<1>6. CASE UNCHANGED vars
  BY <1>6 DEF vars
<1> QED
  BY <1>1, <1>2, <1>3, <1>4, <1>5, <1>6 DEF Next

(* What the holder of the lock may rely on.                                *)
LEMMA HolderKnowsStep ==
    ASSUME TypeOK, Timed, Placed, Terms, Phases, EndedIsFinal, [Next]_vars
    PROVE  (~faulty => HolderKnows)'
<1> USE ConstantsAssumption, NullAssumption DEF TypeOK, Timed, Placed, Terms, Phases, SentShows, HolderKnows, PastGet, Ended, Active, Handler
<1>1. CASE StartPost
  BY <1>1 DEF StartPost, Goto, Return
<1>2. CASE CacheExpires
  BY <1>2 DEF CacheExpires
<1>3. CASE LockExpires
  BY <1>3 DEF LockExpires
<1>4. CASE Tick
  BY <1>4 DEF Tick, InWait, MayTick
<1>5. CASE \E h \in Handler : HandlerStep(h)
  <2> PICK h \in Handler : HandlerStep(h)
    BY <1>5
  <2>1. CASE AcquireLock(h)
    BY <2>1 DEF AcquireLock, Goto
  <2>2. CASE AcquireLockLost(h)
    BY <2>2 DEF AcquireLockLost, Goto
  <2>3. CASE GetFails(h)
    BY <2>3 DEF GetFails, Goto, Return
  <2>4. CASE GetRejects(h)
    BY <2>4 DEF GetRejects, Goto, Return
  <2>5. CASE GetAcceptParty(h)
    BY <2>5 DEF GetAcceptParty, Goto, AlreadyDone, EndedIsFinal
  <2>6. CASE GetAcceptQuote(h)
    BY <2>6 DEF GetAcceptQuote, Goto, Return, AlreadyDone, EndedIsFinal
  <2>7. CASE SetHomeTransactionId(h)
    BY <2>7 DEF SetHomeTransactionId, Goto, Return
  <2>8. CASE AuditRequest(h)
    BY <2>8 DEF AuditRequest, Goto, Publish
  <2>9. CASE AuditRequestFails(h)
    BY <2>9 DEF AuditRequestFails, Goto, Return
  <2>10. CASE Refuse(h)
    BY <2>10 DEF Refuse, Goto
  <2>11. CASE SendToHub(h)
    BY <2>11 DEF SendToHub, Goto
  <2>12. CASE AwaitReturns(h)
    BY <2>12 DEF AwaitReturns, Goto
  <2>13. CASE Save(h)
    BY <2>13 DEF Save, Goto
  <2>14. CASE AuditResponse(h)
    BY <2>14 DEF AuditResponse, Goto, Publish, Return
  <2>15. CASE AuditResponseFails(h)
    BY <2>15 DEF AuditResponseFails, Goto
  <2>16. CASE DeleteTransfer(h)
    BY <2>16 DEF DeleteTransfer, Goto, Return
  <2>17. CASE AuditError(h)
    BY <2>17 DEF AuditError, Goto
  <2>18. CASE ClearTransfer(h)
    BY <2>18 DEF ClearTransfer, Goto, Return
  <2>19. CASE Finish(h)
    BY <2>19 DEF Finish, Goto, Leave
  <2>20. CASE HttpAccepted(h)
    BY <2>20 DEF HttpAccepted, Goto
  <2>21. CASE HttpFailed(h)
    BY <2>21 DEF HttpFailed, Goto
  <2>22. CASE Callback(h)
    BY <2>22 DEF Callback
  <2>23. CASE WaitTimesOut(h)
    BY <2>23 DEF WaitTimesOut
  <2>24. CASE Crash(h)
    BY <2>24 DEF Crash, Goto, Leave
  <2> QED
    BY <2>1, <2>2, <2>3, <2>4, <2>5, <2>6, <2>7, <2>8, <2>9, <2>10, <2>11, <2>12, <2>13, <2>14, <2>15, <2>16, <2>17, <2>18, <2>19, <2>20, <2>21, <2>22, <2>23, <2>24 DEF HandlerStep, Proceed, HttpReturns
<1>6. CASE UNCHANGED vars
  BY <1>6 DEF vars
<1> QED
  BY <1>1, <1>2, <1>3, <1>4, <1>5, <1>6 DEF Next

(* No request of a kind is sent twice.                                     *)
LEMMA OnePostStep ==
    ASSUME TypeOK, Timed, Placed, Phases, AtMostOnePost, [Next]_vars
    PROVE  AtMostOnePost'
<1> USE ConstantsAssumption, NullAssumption DEF TypeOK, Placed, Phases, HolderKnows, AtMostOnePost, Handler
<1>1. CASE StartPost
  BY <1>1 DEF StartPost, Goto, Return
<1>2. CASE CacheExpires
  BY <1>2 DEF CacheExpires
<1>3. CASE LockExpires
  BY <1>3 DEF LockExpires
<1>4. CASE Tick
  BY <1>4 DEF Tick, InWait, Active, MayTick
<1>5. CASE \E h \in Handler : HandlerStep(h)
  <2> PICK h \in Handler : HandlerStep(h)
    BY <1>5
  <2>1. CASE AcquireLock(h)
    BY <2>1 DEF AcquireLock, Goto
  <2>2. CASE AcquireLockLost(h)
    BY <2>2 DEF AcquireLockLost, Goto
  <2>3. CASE GetFails(h)
    BY <2>3 DEF GetFails, Goto, Return
  <2>4. CASE GetRejects(h)
    BY <2>4 DEF GetRejects, Goto, Return
  <2>5. CASE GetAcceptParty(h)
    BY <2>5 DEF GetAcceptParty, Goto, AlreadyDone
  <2>6. CASE GetAcceptQuote(h)
    BY <2>6 DEF GetAcceptQuote, Goto, Return, AlreadyDone
  <2>7. CASE SetHomeTransactionId(h)
    BY <2>7 DEF SetHomeTransactionId, Goto, Return
  <2>8. CASE AuditRequest(h)
    BY <2>8 DEF AuditRequest, Goto, Publish
  <2>9. CASE AuditRequestFails(h)
    BY <2>9 DEF AuditRequestFails, Goto, Return
  <2>10. CASE Refuse(h)
    BY <2>10 DEF Refuse, Goto
  <2>11. CASE SendToHub(h)
    BY <2>11 DEF SendToHub, Goto
  <2>12. CASE AwaitReturns(h)
    BY <2>12 DEF AwaitReturns, Goto
  <2>13. CASE Save(h)
    BY <2>13 DEF Save, Goto
  <2>14. CASE AuditResponse(h)
    BY <2>14 DEF AuditResponse, Goto, Publish, Return
  <2>15. CASE AuditResponseFails(h)
    BY <2>15 DEF AuditResponseFails, Goto
  <2>16. CASE DeleteTransfer(h)
    BY <2>16 DEF DeleteTransfer, Goto, Return
  <2>17. CASE AuditError(h)
    BY <2>17 DEF AuditError, Goto
  <2>18. CASE ClearTransfer(h)
    BY <2>18 DEF ClearTransfer, Goto, Return
  <2>19. CASE Finish(h)
    BY <2>19 DEF Finish, Goto, Leave
  <2>20. CASE HttpAccepted(h)
    BY <2>20 DEF HttpAccepted, Goto
  <2>21. CASE HttpFailed(h)
    BY <2>21 DEF HttpFailed, Goto
  <2>22. CASE Callback(h)
    BY <2>22 DEF Callback
  <2>23. CASE WaitTimesOut(h)
    BY <2>23 DEF WaitTimesOut
  <2>24. CASE Crash(h)
    BY <2>24 DEF Crash, Goto, Leave, Active
  <2> QED
    BY <2>1, <2>2, <2>3, <2>4, <2>5, <2>6, <2>7, <2>8, <2>9, <2>10, <2>11, <2>12, <2>13, <2>14, <2>15, <2>16, <2>17, <2>18, <2>19, <2>20, <2>21, <2>22, <2>23, <2>24 DEF HandlerStep, Proceed, HttpReturns
<1>6. CASE UNCHANGED vars
  BY <1>6 DEF vars
<1> QED
  BY <1>1, <1>2, <1>3, <1>4, <1>5, <1>6 DEF Next

(* A transfer that has ended stays ended.                                  *)
LEMMA EndedStep ==
    ASSUME TypeOK, Timed, Placed, Terms, Phases, EndedIsFinal, [Next]_vars
    PROVE  EndedIsFinal'
<1> USE ConstantsAssumption, NullAssumption DEF TypeOK, Timed, Placed, Terms, Phases, SentShows, HolderKnows, PastGet, Ended, Active, Handler, EndedIsFinal
<1>1. CASE StartPost
  BY <1>1 DEF StartPost, Goto, Return
<1>2. CASE CacheExpires
  BY <1>2 DEF CacheExpires
<1>3. CASE LockExpires
  BY <1>3 DEF LockExpires
<1>4. CASE Tick
  BY <1>4 DEF Tick, InWait, MayTick
<1>5. CASE \E h \in Handler : HandlerStep(h)
  <2> PICK h \in Handler : HandlerStep(h)
    BY <1>5
  <2>1. CASE AcquireLock(h)
    BY <2>1 DEF AcquireLock, Goto
  <2>2. CASE AcquireLockLost(h)
    BY <2>2 DEF AcquireLockLost, Goto
  <2>3. CASE GetFails(h)
    BY <2>3 DEF GetFails, Goto, Return
  <2>4. CASE GetRejects(h)
    BY <2>4 DEF GetRejects, Goto, Return
  <2>5. CASE GetAcceptParty(h)
    BY <2>5 DEF GetAcceptParty, Goto, AlreadyDone
  <2>6. CASE GetAcceptQuote(h)
    BY <2>6 DEF GetAcceptQuote, Goto, Return, AlreadyDone
  <2>7. CASE SetHomeTransactionId(h)
    BY <2>7 DEF SetHomeTransactionId, Goto, Return
  <2>8. CASE AuditRequest(h)
    BY <2>8 DEF AuditRequest, Goto, Publish
  <2>9. CASE AuditRequestFails(h)
    BY <2>9 DEF AuditRequestFails, Goto, Return
  <2>10. CASE Refuse(h)
    BY <2>10 DEF Refuse, Goto
  <2>11. CASE SendToHub(h)
    BY <2>11 DEF SendToHub, Goto
  <2>12. CASE AwaitReturns(h)
    BY <2>12 DEF AwaitReturns, Goto
  <2>13. CASE Save(h)
    BY <2>13 DEF Save, Goto
  <2>14. CASE AuditResponse(h)
    BY <2>14 DEF AuditResponse, Goto, Publish, Return
  <2>15. CASE AuditResponseFails(h)
    BY <2>15 DEF AuditResponseFails, Goto
  <2>16. CASE DeleteTransfer(h)
    BY <2>16 DEF DeleteTransfer, Goto, Return
  <2>17. CASE AuditError(h)
    BY <2>17 DEF AuditError, Goto
  <2>18. CASE ClearTransfer(h)
    BY <2>18 DEF ClearTransfer, Goto, Return
  <2>19. CASE Finish(h)
    BY <2>19 DEF Finish, Goto, Leave
  <2>20. CASE HttpAccepted(h)
    BY <2>20 DEF HttpAccepted, Goto
  <2>21. CASE HttpFailed(h)
    BY <2>21 DEF HttpFailed, Goto
  <2>22. CASE Callback(h)
    BY <2>22 DEF Callback
  <2>23. CASE WaitTimesOut(h)
    BY <2>23 DEF WaitTimesOut
  <2>24. CASE Crash(h)
    BY <2>24 DEF Crash, Goto, Leave
  <2> QED
    BY <2>1, <2>2, <2>3, <2>4, <2>5, <2>6, <2>7, <2>8, <2>9, <2>10, <2>11, <2>12, <2>13, <2>14, <2>15, <2>16, <2>17, <2>18, <2>19, <2>20, <2>21, <2>22, <2>23, <2>24 DEF HandlerStep, Proceed, HttpReturns
<1>6. CASE UNCHANGED vars
  BY <1>6 DEF vars
<1> QED
  BY <1>1, <1>2, <1>3, <1>4, <1>5, <1>6 DEF Next

-----------------------------------------------------------------------------
(* The invariant holds initially. *)
LEMMA InitInv == Init => Inv
<1> SUFFICES ASSUME Init
             PROVE  Inv
  OBVIOUS
<1> USE ConstantsAssumption, NullAssumption DEF Init, Handler
<1>1. TypeOK
  BY DEF TypeOK, Kind, Location
<1>2. Timed /\ Placed /\ AuditedFirst
  BY DEF Timed, Placed, AuditedFirst, Active
<1>3. Terms /\ TransferNeedsQuote /\ AuditCoversHub
  BY DEF Terms, TransferNeedsQuote, AuditCoversHub
<1>4. Phases
  BY DEF Phases, SentShows, HolderKnows, PastGet
<1>5. AtMostOnePost /\ EndedIsFinal
  BY DEF AtMostOnePost, EndedIsFinal, Ended
<1> QED
  BY <1>1, <1>2, <1>3, <1>4, <1>5 DEF Inv

(* Every step keeps it. *)
LEMMA NextInv ==
    ASSUME LockOutlivesWork, Inv, [Next]_vars
    PROVE  Inv'
<1>1. TypeOK'
  BY TypeStep DEF Inv
<1>2. Timed'
  BY TimedStep DEF Inv
<1>3. Placed'
  BY PlacedStep DEF Inv
<1>4. Terms'
  BY TermsStep DEF Inv
<1>5. TransferNeedsQuote'
  BY NeedsQuoteStep DEF Inv
<1>6. (AuditedFirst /\ AuditCoversHub)'
  BY AuditStep DEF Inv
<1>7. Phases'
  BY SentShowsStep, HolderKnowsStep DEF Inv, Phases
<1>8. AtMostOnePost'
  BY OnePostStep DEF Inv
<1>9. EndedIsFinal'
  BY EndedStep DEF Inv
<1> QED
  BY <1>1, <1>2, <1>3, <1>4, <1>5, <1>6, <1>7, <1>8, <1>9 DEF Inv

(* It is an invariant of the specification. *)
LEMMA Invariance ==
    ASSUME LockOutlivesWork
    PROVE  Spec => []Inv
<1>1. Inv /\ [Next]_vars => Inv'
  BY NextInv
<1> QED
  BY <1>1, InitInv, PTL DEF Spec

(* The handlers keep their types, for every set of PUTs. *)
THEOREM TypeCorrect == Spec => []TypeOK
<1>1. Init => TypeOK
  BY InitInv DEF Inv
<1>2. TypeOK /\ [Next]_vars => TypeOK'
  BY TypeStep
<1> QED
  BY <1>1, <1>2, PTL DEF Spec

(* If the lock's TTL exceeds the deadlines of the work it guards, a PUT    *)
(* holds the lock whenever it is at work: no retry, on any replica, runs   *)
(* beside it.                                                              *)
THEOREM LockIsHeld ==
    ASSUME LockOutlivesWork
    PROVE  Spec => []LockHeldInFlight
<1>1. Inv => LockHeldInFlight
  BY DEF Inv, Timed, LockHeldInFlight
<1> QED
  BY <1>1, Invariance, PTL

(* Under the same condition the Hub gets at most one POST /quotes and one  *)
(* POST /transfers for a transfer, for any number of retries and any       *)
(* interleaving, unless a replica dies or a failed transfer's cache entry  *)
(* cannot be deleted.                                                      *)
THEOREM NoDuplicatePost ==
    ASSUME LockOutlivesWork
    PROVE  Spec => []AtMostOnePost
<1>1. Inv => AtMostOnePost
  BY DEF Inv
<1> QED
  BY <1>1, Invariance, PTL

(* A transfer whose acceptQuote answered, or whose PUT failed after it     *)
(* reached the Hub, never comes back into the cache.                       *)
THEOREM EndIsFinal ==
    ASSUME LockOutlivesWork
    PROVE  Spec => []EndedIsFinal
<1>1. Inv => EndedIsFinal
  BY DEF Inv
<1> QED
  BY <1>1, Invariance, PTL

(* No POST /transfers without a successful quote callback, whatever fails, *)
(* and whether or not the lock lasts.                                      *)
THEOREM QuoteBeforeTransfer == Spec => []TransferNeedsQuote
<1> DEFINE J == TypeOK /\ Placed /\ Terms /\ TransferNeedsQuote
<1>1. Init => J
  BY InitInv DEF Inv
<1>2. J /\ [Next]_vars => J'
  BY TypeStep, PlacedStep, TermsStep, NeedsQuoteStep
<1>3. J => TransferNeedsQuote
  OBVIOUS
<1> HIDE DEF J
<1> QED
  BY <1>1, <1>2, <1>3, PTL DEF Spec

(* Nothing reaches the Hub that the audit trail does not know of.          *)
THEOREM AuditIsComplete == Spec => []AuditCoversHub
<1> DEFINE J == TypeOK /\ Placed /\ Terms /\ TransferNeedsQuote /\ AuditedFirst /\ AuditCoversHub
<1>1. Init => J
  BY InitInv DEF Inv
<1>2. J /\ [Next]_vars => J'
  BY TypeStep, PlacedStep, TermsStep, NeedsQuoteStep, AuditStep
<1>3. J => AuditCoversHub
  OBVIOUS
<1> HIDE DEF J
<1> QED
  BY <1>1, <1>2, <1>3, PTL DEF Spec
=============================================================================
