-------------------------- MODULE ConnectorProofs --------------------------
(* Proofs about Connector, for every set of requests, workers and any      *)
(* number of failures.                                                     *)
EXTENDS Connector, TLAPS

(* Each handler of web-inbound queues its request. *)
LEMMA ReceiveAccepts == ASSUME NEW m \in Message, Receive(m) PROVE Accept(m)
BY DEF Receive, HandleGetParties, HandlePost, HandlePatchTransfers

(* The type invariant is inductive with the stream's state.                *)
LEMMA TypeStep ==
    ASSUME TypeOK, StreamState, [Next]_vars
    PROVE  TypeOK'
<1> USE ConstantsAssumption DEF TypeOK, StreamState
<1>1. ASSUME NEW m \in Message, Accept(m) \/ AckWaitExpires(m)
      PROVE  TypeOK'
  <2>1. CASE Accept(m)
    BY <2>1 DEF Accept, stream, effects, NoFault
  <2>2. CASE AckWaitExpires(m)
    BY <2>2 DEF AckWaitExpires, stream, effects, NoFault, Fault, Held
  <2> QED
    BY <1>1, <2>1, <2>2
<1>2. ASSUME NEW w \in Worker, NEW m \in Message, Deliver(w, m) \/ consume(w, m)
      PROVE  TypeOK'
  <2>1. CASE Deliver(w, m)
    BY <2>1 DEF Deliver, effects, NoFault
  <2>2. CASE consume(w, m)
    BY <2>2 DEF consume, stream, effects, NoFault, Goto
  <2> QED
    BY <1>2, <2>1, <2>2
<1>3. ASSUME NEW w \in Worker, AuditRequest(w) \/ CallFsp(w) \/ PutResult(w) \/ AuditResponse(w) \/ PutError(w) \/ AuditError(w) \/ Settle(w) \/ Crash(w)
      PROVE  TypeOK'
  <2>1. CASE AuditRequest(w)
    BY <2>1 DEF AuditRequest, stream, effects, NoFault, Fault, Goto, Caught, Finish, Nak
  <2>2. CASE CallFsp(w)
    BY <2>2 DEF CallFsp, stream, effects, NoFault, Fault, Goto, Caught, CatchAt, Refusal
  <2>3. CASE PutResult(w)
    BY <2>3 DEF PutResult, stream, effects, NoFault, Fault, Goto, Caught
  <2>4. CASE AuditResponse(w)
    BY <2>4 DEF AuditResponse, stream, effects, NoFault, Fault, Goto, Caught, CatchAt, Ack, Finish
  <2>5. CASE PutError(w)
    BY <2>5 DEF PutError, stream, effects, NoFault, Fault, Goto
  <2>6. CASE AuditError(w)
    BY <2>6 DEF AuditError, stream, effects, NoFault, Fault, Goto, Caught
  <2>7. CASE Settle(w)
    BY <2>7 DEF Settle, stream, effects, NoFault, Goto, Caught, Ack, Nak, Finish
  <2>8. CASE Crash(w)
    BY <2>8 DEF Crash, stream, effects, Goto, Caught, Finish
  <2> QED
    BY <1>3, <2>1, <2>2, <2>3, <2>4, <2>5, <2>6, <2>7, <2>8
<1>4. CASE UNCHANGED vars
  BY <1>4 DEF vars, stream, effects
<1> QED
  BY <1>1, <1>2, <1>3, <1>4, ReceiveAccepts DEF Next, Handle

(* The stream's state and the workers' holdings fit together.              *)
LEMMA StreamStep ==
    ASSUME TypeOK, StreamState, WorkersDone, [Next]_vars
    PROVE  StreamState'
<1> USE ConstantsAssumption DEF TypeOK, StreamState, WorkersDone, Done, Callback
<1>1. ASSUME NEW m \in Message, Accept(m) \/ AckWaitExpires(m)
      PROVE  StreamState'
  <2>1. CASE Accept(m)
    BY <2>1 DEF Accept, stream, effects, NoFault
  <2>2. CASE AckWaitExpires(m)
    BY <2>2 DEF AckWaitExpires, stream, effects, NoFault, Fault, Held
  <2> QED
    BY <1>1, <2>1, <2>2
<1>2. ASSUME NEW w \in Worker, NEW m \in Message, Deliver(w, m) \/ consume(w, m)
      PROVE  StreamState'
  <2>1. CASE Deliver(w, m)
    BY <2>1 DEF Deliver, effects, NoFault
  <2>2. CASE consume(w, m)
    BY <2>2 DEF consume, stream, effects, NoFault, Goto
  <2> QED
    BY <1>2, <2>1, <2>2
<1>3. ASSUME NEW w \in Worker, AuditRequest(w) \/ CallFsp(w) \/ PutResult(w) \/ AuditResponse(w) \/ PutError(w) \/ AuditError(w) \/ Settle(w) \/ Crash(w)
      PROVE  StreamState'
  <2>1. CASE AuditRequest(w)
    BY <2>1 DEF AuditRequest, stream, effects, NoFault, Fault, Goto, Caught, Finish, Nak
  <2>2. CASE CallFsp(w)
    BY <2>2 DEF CallFsp, stream, effects, NoFault, Fault, Goto, Caught, CatchAt, Refusal
  <2>3. CASE PutResult(w)
    BY <2>3 DEF PutResult, stream, effects, NoFault, Fault, Goto, Caught
  <2>4. CASE AuditResponse(w)
    <3>1. at[w] \in Message /\ at[w] \in queued \cup settled /\ at[w] \in tried
      BY <2>4 DEF AuditResponse
    <3>2. CASE Ack(w)
      BY <2>4, <3>1, <3>2 DEF AuditResponse, Ack, Finish, Caught, Goto, effects
    <3>3. CASE Caught(w, CatchAt(at[w], "other"), "other") /\ Fault(at[w]) /\ UNCHANGED <<stream, at>>
      BY <2>4, <3>1, <3>3 DEF AuditResponse, Fault, CatchAt, Caught, Goto, stream, effects
    <3> QED
      BY <2>4, <3>2, <3>3 DEF AuditResponse
  <2>5. CASE PutError(w)
    BY <2>5 DEF PutError, stream, effects, NoFault, Fault, Goto
  <2>6. CASE AuditError(w)
    BY <2>6 DEF AuditError, stream, effects, NoFault, Fault, Goto, Caught
  <2>7. CASE Settle(w)
    <3>1. at[w] \in Message /\ at[w] \in queued \cup settled /\ at[w] \in tried
      BY <2>7 DEF Settle
    <3>2. CASE error[w] = "fspiop"
      BY <2>7, <3>1, <3>2 DEF Settle, Ack, Finish, Caught, Goto, effects, NoFault
    <3>3. CASE error[w] # "fspiop"
      BY <2>7, <3>1, <3>3 DEF Settle, Nak, Finish, Caught, Goto, effects, NoFault
    <3> QED
      BY <3>2, <3>3
  <2>8. CASE Crash(w)
    BY <2>8 DEF Crash, stream, effects, Goto, Caught, Finish
  <2> QED
    BY <1>3, <2>1, <2>2, <2>3, <2>4, <2>5, <2>6, <2>7, <2>8
<1>4. CASE UNCHANGED vars
  BY <1>4 DEF vars, stream, effects
<1> QED
  BY <1>1, <1>2, <1>3, <1>4, ReceiveAccepts DEF Next, Handle

(* What a worker has done follows from where it is.                        *)
LEMMA WorkersStep ==
    ASSUME TypeOK, StreamState, WorkersDone, [Next]_vars
    PROVE  WorkersDone'
<1> USE ConstantsAssumption DEF TypeOK, StreamState, WorkersDone, Done, Callback
<1>1. ASSUME NEW m \in Message, Accept(m) \/ AckWaitExpires(m)
      PROVE  WorkersDone'
  <2>1. CASE Accept(m)
    BY <2>1 DEF Accept, stream, effects, NoFault
  <2>2. CASE AckWaitExpires(m)
    BY <2>2 DEF AckWaitExpires, stream, effects, NoFault, Fault, Held
  <2> QED
    BY <1>1, <2>1, <2>2
<1>2. ASSUME NEW w \in Worker, NEW m \in Message, Deliver(w, m) \/ consume(w, m)
      PROVE  WorkersDone'
  <2>1. CASE Deliver(w, m)
    BY <2>1 DEF Deliver, effects, NoFault
  <2>2. CASE consume(w, m)
    BY <2>2 DEF consume, stream, effects, NoFault, Goto
  <2> QED
    BY <1>2, <2>1, <2>2
<1>3. ASSUME NEW w \in Worker, AuditRequest(w) \/ CallFsp(w) \/ PutResult(w) \/ AuditResponse(w) \/ PutError(w) \/ AuditError(w) \/ Settle(w) \/ Crash(w)
      PROVE  WorkersDone'
  <2>1. CASE AuditRequest(w)
    BY <2>1 DEF AuditRequest, stream, effects, NoFault, Fault, Goto, Caught, Finish, Nak
  <2>2. CASE CallFsp(w)
    BY <2>2 DEF CallFsp, stream, effects, NoFault, Fault, Goto, Caught, CatchAt, Refusal
  <2>3. CASE PutResult(w)
    BY <2>3 DEF PutResult, stream, effects, NoFault, Fault, Goto, Caught
  <2>4. CASE AuditResponse(w)
    BY <2>4 DEF AuditResponse, stream, effects, NoFault, Fault, Goto, Caught, CatchAt, Ack, Finish
  <2>5. CASE PutError(w)
    BY <2>5 DEF PutError, stream, effects, NoFault, Fault, Goto
  <2>6. CASE AuditError(w)
    BY <2>6 DEF AuditError, stream, effects, NoFault, Fault, Goto, Caught
  <2>7. CASE Settle(w)
    BY <2>7 DEF Settle, stream, effects, NoFault, Goto, Caught, Ack, Nak, Finish
  <2>8. CASE Crash(w)
    BY <2>8 DEF Crash, stream, effects, Goto, Caught, Finish
  <2> QED
    BY <1>3, <2>1, <2>2, <2>3, <2>4, <2>5, <2>6, <2>7, <2>8
<1>4. CASE UNCHANGED vars
  BY <1>4 DEF vars, stream, effects
<1> QED
  BY <1>1, <1>2, <1>3, <1>4, ReceiveAccepts DEF Next, Handle

(* A settled request has had its effect.                                   *)
LEMMA EffectStep ==
    ASSUME TypeOK, StreamState, WorkersDone, SettledHasEffect, [Next]_vars
    PROVE  SettledHasEffect'
<1> USE ConstantsAssumption DEF TypeOK, SettledHasEffect, Callback
<1>1. ASSUME NEW m \in Message, Accept(m) \/ AckWaitExpires(m)
      PROVE  SettledHasEffect'
  <2>1. CASE Accept(m)
    BY <2>1 DEF Accept, stream, effects, NoFault
  <2>2. CASE AckWaitExpires(m)
    BY <2>2 DEF AckWaitExpires, stream, effects, NoFault, Fault, Held
  <2> QED
    BY <1>1, <2>1, <2>2
<1>2. ASSUME NEW w \in Worker, NEW m \in Message, Deliver(w, m) \/ consume(w, m)
      PROVE  SettledHasEffect'
  <2>1. CASE Deliver(w, m)
    BY <2>1 DEF Deliver, effects, NoFault
  <2>2. CASE consume(w, m)
    BY <2>2 DEF consume, stream, effects, NoFault, Goto
  <2> QED
    BY <1>2, <2>1, <2>2
<1>3. ASSUME NEW w \in Worker, AuditRequest(w) \/ CallFsp(w) \/ PutResult(w) \/ AuditResponse(w) \/ PutError(w) \/ AuditError(w) \/ Settle(w) \/ Crash(w)
      PROVE  SettledHasEffect'
  <2>1. CASE AuditRequest(w)
    BY <2>1 DEF AuditRequest, stream, effects, NoFault, Fault, Goto, Caught, Finish, Nak
  <2>2. CASE CallFsp(w)
    BY <2>2 DEF CallFsp, stream, effects, NoFault, Fault, Goto, Caught, CatchAt, Refusal
  <2>3. CASE PutResult(w)
    BY <2>3 DEF PutResult, stream, effects, NoFault, Fault, Goto, Caught
  <2>4. CASE AuditResponse(w)
    <3>1. /\ at[w] \in Message
          /\ TRUE => IF Callback(at[w]) THEN at[w] \in attempted ELSE at[w] \in processed \cup refused
      BY <2>4 DEF AuditResponse, WorkersDone, Done, StreamState
    <3>2. /\ settled' \subseteq IF TRUE THEN settled \cup {at[w]} ELSE settled
          /\ UNCHANGED <<attempted, processed, refused>>
      BY <2>4 DEF AuditResponse, Ack, Nak, effects, stream
    <3> QED
      BY <3>1, <3>2 DEF SettledHasEffect, Callback
  <2>5. CASE PutError(w)
    BY <2>5 DEF PutError, stream, effects, NoFault, Fault, Goto
  <2>6. CASE AuditError(w)
    BY <2>6 DEF AuditError, stream, effects, NoFault, Fault, Goto, Caught
  <2>7. CASE Settle(w)
    <3>1. /\ at[w] \in Message
          /\ error[w] = "fspiop" => IF Callback(at[w]) THEN at[w] \in attempted ELSE at[w] \in processed \cup refused
      BY <2>7 DEF Settle, WorkersDone, Done, StreamState
    <3>2. /\ settled' \subseteq IF error[w] = "fspiop" THEN settled \cup {at[w]} ELSE settled
          /\ UNCHANGED <<attempted, processed, refused>>
      BY <2>7 DEF Settle, Ack, Nak, effects, stream
    <3> QED
      BY <3>1, <3>2 DEF SettledHasEffect, Callback
  <2>8. CASE Crash(w)
    BY <2>8 DEF Crash, stream, effects, Goto, Caught, Finish
  <2> QED
    BY <1>3, <2>1, <2>2, <2>3, <2>4, <2>5, <2>6, <2>7, <2>8
<1>4. CASE UNCHANGED vars
  BY <1>4 DEF vars, stream, effects
<1> QED
  BY <1>1, <1>2, <1>3, <1>4, ReceiveAccepts DEF Next, Handle

(* Results are real.                                                       *)
LEMMA ResultStep ==
    ASSUME TypeOK, StreamState, WorkersDone, ResultIsReal, [Next]_vars
    PROVE  ResultIsReal'
<1> USE ConstantsAssumption DEF TypeOK, StreamState, WorkersDone, Done, Callback, ResultIsReal
<1>1. ASSUME NEW m \in Message, Accept(m) \/ AckWaitExpires(m)
      PROVE  ResultIsReal'
  <2>1. CASE Accept(m)
    BY <2>1 DEF Accept, stream, effects, NoFault
  <2>2. CASE AckWaitExpires(m)
    BY <2>2 DEF AckWaitExpires, stream, effects, NoFault, Fault, Held
  <2> QED
    BY <1>1, <2>1, <2>2
<1>2. ASSUME NEW w \in Worker, NEW m \in Message, Deliver(w, m) \/ consume(w, m)
      PROVE  ResultIsReal'
  <2>1. CASE Deliver(w, m)
    BY <2>1 DEF Deliver, effects, NoFault
  <2>2. CASE consume(w, m)
    BY <2>2 DEF consume, stream, effects, NoFault, Goto
  <2> QED
    BY <1>2, <2>1, <2>2
<1>3. ASSUME NEW w \in Worker, AuditRequest(w) \/ CallFsp(w) \/ PutResult(w) \/ AuditResponse(w) \/ PutError(w) \/ AuditError(w) \/ Settle(w) \/ Crash(w)
      PROVE  ResultIsReal'
  <2>1. CASE AuditRequest(w)
    BY <2>1 DEF AuditRequest, stream, effects, NoFault, Fault, Goto, Caught, Finish, Nak
  <2>2. CASE CallFsp(w)
    BY <2>2 DEF CallFsp, stream, effects, NoFault, Fault, Goto, Caught, CatchAt, Refusal
  <2>3. CASE PutResult(w)
    <3>1. at[w] \in Message /\ at[w] \in processed
      BY <2>3 DEF PutResult
    <3>2. answers' \subseteq answers \cup {<<at[w], "result">>}
      BY <2>3 DEF PutResult
    <3>3. UNCHANGED <<tried, processed, audit>>
      BY <2>3 DEF PutResult
    <3> QED
      BY <3>1, <3>2, <3>3, Zenon
  <2>4. CASE AuditResponse(w)
    BY <2>4 DEF AuditResponse, stream, effects, NoFault, Fault, Goto, Caught, CatchAt, Ack, Finish
  <2>5. CASE PutError(w)
    BY <2>5 DEF PutError, stream, effects, NoFault, Fault, Goto
  <2>6. CASE AuditError(w)
    BY <2>6 DEF AuditError, stream, effects, NoFault, Fault, Goto, Caught
  <2>7. CASE Settle(w)
    BY <2>7 DEF Settle, stream, effects, NoFault, Goto, Caught, Ack, Nak, Finish
  <2>8. CASE Crash(w)
    BY <2>8 DEF Crash, stream, effects, Goto, Caught, Finish
  <2> QED
    BY <1>3, <2>1, <2>2, <2>3, <2>4, <2>5, <2>6, <2>7, <2>8
<1>4. CASE UNCHANGED vars
  BY <1>4 DEF vars, stream, effects
<1> QED
  BY <1>1, <1>2, <1>3, <1>4, ReceiveAccepts DEF Next, Handle

(* A request without failures has one holder.                              *)
LEMMA HolderStep ==
    ASSUME TypeOK, StreamState, WorkersDone, OneHolder, [Next]_vars
    PROVE  OneHolder'
<1> USE ConstantsAssumption DEF TypeOK, StreamState, WorkersDone, Done, Callback, OneHolder, Holds, AtUndisturbed
<1>1. ASSUME NEW m \in Message, Accept(m) \/ AckWaitExpires(m)
      PROVE  OneHolder'
  <2>1. CASE Accept(m)
    BY <2>1 DEF Accept, stream, effects, NoFault
  <2>2. CASE AckWaitExpires(m)
    BY <2>2 DEF AckWaitExpires, stream, effects, NoFault, Fault, Held
  <2> QED
    BY <1>1, <2>1, <2>2
<1>2. ASSUME NEW w \in Worker, NEW m \in Message, Deliver(w, m) \/ consume(w, m)
      PROVE  OneHolder'
  <2>1. CASE Deliver(w, m)
    BY <2>1 DEF Deliver, effects, NoFault
  <2>2. CASE consume(w, m)
    BY <2>2 DEF consume, stream, effects, NoFault, Goto
  <2> QED
    BY <1>2, <2>1, <2>2
<1>3. ASSUME NEW w \in Worker, AuditRequest(w) \/ CallFsp(w) \/ PutResult(w) \/ AuditResponse(w) \/ PutError(w) \/ AuditError(w) \/ Settle(w) \/ Crash(w)
      PROVE  OneHolder'
  <2>1. CASE AuditRequest(w)
    BY <2>1 DEF AuditRequest, stream, effects, NoFault, Fault, Goto, Caught, Finish, Nak
  <2>2. CASE CallFsp(w)
    BY <2>2 DEF CallFsp, stream, effects, NoFault, Fault, Goto, Caught, CatchAt, Refusal
  <2>3. CASE PutResult(w)
    BY <2>3 DEF PutResult, stream, effects, NoFault, Fault, Goto, Caught
  <2>4. CASE AuditResponse(w)
    BY <2>4 DEF AuditResponse, stream, effects, NoFault, Fault, Goto, Caught, CatchAt, Ack, Finish
  <2>5. CASE PutError(w)
    <3>1. PICK x \in Message : x = at[w]
      BY <2>5 DEF PutError
    <3>2. disturbed \subseteq disturbed' /\ (x \notin disturbed' => <<x, "error">> \in answers')
      BY <2>5, <3>1 DEF PutError, Fault, NoFault
    <3>3. answers \subseteq answers'
      BY <2>5 DEF PutError
    <3>4. Callback(x)
      BY <2>5, <3>1 DEF PutError
    <3>5. ASSUME NEW m \in Message \ disturbed', NEW v \in Worker, at[v] = m
          PROVE  AtUndisturbed(v, m)'
      <4>1. CASE v = w
        <5>1. m = x /\ x \notin disturbed /\ pc'[v] = "auditError" /\ <<m, "error">> \in answers'
          BY <2>5, <3>1, <3>2, <3>5, <4>1 DEF PutError, Goto
        <5>2. x \notin buffer[v] /\ x \in refused /\ x \notin processed
          BY <2>5, <3>1, <3>5, <4>1, <5>1 DEF PutError
        <5> QED
          BY <2>5, <3>4, <5>1, <5>2 DEF PutError
      <4>2. CASE v # w
        BY <2>5, <3>1, <3>2, <3>3, <3>5, <4>2 DEF PutError, Goto
      <4> QED
        BY <4>1, <4>2
    <3> HIDE DEF AtUndisturbed
    <3>6. UNCHANGED <<at, buffer, outstanding, settled, tried, processed, refused>>
      BY <2>5 DEF PutError, stream
    <3>7. \A v \in Worker : pc[v] \notin {"audit", "call"} => pc'[v] \notin {"audit", "call"}
      BY <2>5 DEF PutError, Goto
    <3> QED
      BY <3>2, <3>5, <3>6, <3>7
  <2>6. CASE AuditError(w)
    BY <2>6 DEF AuditError, stream, effects, NoFault, Fault, Goto, Caught
  <2>7. CASE Settle(w)
    BY <2>7 DEF Settle, stream, effects, NoFault, Goto, Caught, Ack, Nak, Finish
  <2>8. CASE Crash(w)
    BY <2>8 DEF Crash, stream, effects, Goto, Caught, Finish
  <2> QED
    BY <1>3, <2>1, <2>2, <2>3, <2>4, <2>5, <2>6, <2>7, <2>8
<1>4. CASE UNCHANGED vars
  BY <1>4 DEF vars, stream, effects
<1> QED
  BY <1>1, <1>2, <1>3, <1>4, ReceiveAccepts DEF Next, Handle

(* A request without failures is handled exactly once.                     *)
LEMMA OnceStep ==
    ASSUME TypeOK, StreamState, WorkersDone, OneHolder, ExactlyOnce, [Next]_vars
    PROVE  ExactlyOnce'
<1> USE ConstantsAssumption DEF TypeOK, ExactlyOnce
<1>1. ASSUME NEW m \in Message, Accept(m) \/ AckWaitExpires(m)
      PROVE  ExactlyOnce'
  <2>1. CASE Accept(m)
    BY <2>1 DEF Once, Callback, Accept, stream, effects, NoFault
  <2>2. CASE AckWaitExpires(m)
    BY <2>2 DEF Once, Callback, AckWaitExpires, stream, effects, NoFault, Fault, Held
  <2> QED
    BY <1>1, <2>1, <2>2
<1>2. ASSUME NEW w \in Worker, NEW m \in Message, Deliver(w, m) \/ consume(w, m)
      PROVE  ExactlyOnce'
  <2>1. CASE Deliver(w, m)
    BY <2>1 DEF Once, Callback, Deliver, effects, NoFault
  <2>2. CASE consume(w, m)
    BY <2>2 DEF Once, Callback, consume, stream, effects, NoFault, Goto
  <2> QED
    BY <1>2, <2>1, <2>2
<1>3. ASSUME NEW w \in Worker, AuditRequest(w) \/ CallFsp(w) \/ PutResult(w) \/ AuditResponse(w) \/ PutError(w) \/ AuditError(w) \/ Settle(w) \/ Crash(w)
      PROVE  ExactlyOnce'
  <2>1. CASE AuditRequest(w)
    BY <2>1 DEF Once, Callback, AuditRequest, stream, effects, NoFault, Fault, Goto, Caught, Finish, Nak
  <2>2. CASE CallFsp(w)
    <3>1. PICK x \in Message : x = at[w]
      BY <2>2 DEF CallFsp, StreamState
    <3>2. x \notin disturbed => x \notin tried /\ x \notin settled /\ x \notin processed \cup refused
      BY <2>2, <3>1 DEF CallFsp, StreamState, WorkersDone, Done, Callback, OneHolder, Holds, AtUndisturbed
    <3>3. \A m \in Message : m # x /\ Once(m) => Once(m)'
      BY <2>2, <3>1 DEF CallFsp, Once, stream, effects, NoFault, Fault, Goto, Caught, CatchAt, Refusal
    <3>4. x \notin disturbed' => Once(x)'
      BY <2>2, <3>1, <3>2 DEF CallFsp, Once, Callback, stream, effects, NoFault, Fault, Goto, Caught, CatchAt, Refusal
    <3>5. disturbed \subseteq disturbed'
      BY <2>2 DEF CallFsp, Fault, NoFault
    <3> QED
      BY <3>3, <3>4, <3>5
  <2>3. CASE PutResult(w)
    <3>1. PICK x \in Message : x = at[w]
      BY <2>3 DEF PutResult, StreamState
    <3>2. x \notin disturbed => x \notin settled
      BY <2>3, <3>1 DEF PutResult, StreamState, WorkersDone, Done, Callback, OneHolder, Holds, AtUndisturbed
    <3>3. \A m \in Message : m # x /\ Once(m) => Once(m)'
      BY <2>3, <3>1 DEF PutResult, Once, stream, effects, NoFault, Fault, Goto, Caught
    <3>4. x \notin disturbed' => Once(x)'
      BY <2>3, <3>1, <3>2 DEF PutResult, Once, Callback, stream, effects, NoFault, Fault, Goto, Caught
    <3>5. disturbed \subseteq disturbed'
      BY <2>3 DEF PutResult, Fault, NoFault
    <3> QED
      BY <3>3, <3>4, <3>5
  <2>4. CASE AuditResponse(w)
    <3>1. PICK x \in Message : x = at[w]
      BY <2>4 DEF AuditResponse, StreamState
    <3>2. x \notin disturbed => x \in processed /\ (Callback(x) => <<x, "result">> \in answers)
      BY <2>4, <3>1 DEF AuditResponse, StreamState, WorkersDone, Done, Callback, OneHolder, Holds, AtUndisturbed
    <3>3. \A m \in Message : m # x /\ Once(m) => Once(m)'
      BY <2>4, <3>1 DEF AuditResponse, Once, stream, effects, NoFault, Fault, Goto, Caught, CatchAt, Ack, Finish
    <3>4. x \notin disturbed' => Once(x)'
      BY <2>4, <3>1, <3>2 DEF AuditResponse, Once, Callback, stream, effects, NoFault, Fault, Goto, Caught, CatchAt, Ack, Finish
    <3>5. disturbed \subseteq disturbed'
      BY <2>4 DEF AuditResponse, Fault, NoFault
    <3> QED
      BY <3>3, <3>4, <3>5
  <2>5. CASE PutError(w)
    <3>1. PICK x \in Message : x = at[w]
      BY <2>5 DEF PutError, StreamState
    <3>2. x \notin disturbed => x \in refused /\ x \notin settled
      BY <2>5, <3>1 DEF PutError, StreamState, WorkersDone, Done, Callback, OneHolder, Holds, AtUndisturbed
    <3>3. \A m \in Message : m # x /\ Once(m) => Once(m)'
      BY <2>5, <3>1 DEF PutError, Once, stream, effects, NoFault, Fault, Goto
    <3>4. x \notin disturbed' => Once(x)'
      BY <2>5, <3>1, <3>2 DEF PutError, Once, Callback, stream, effects, NoFault, Fault, Goto
    <3>5. disturbed \subseteq disturbed'
      BY <2>5 DEF PutError, Fault, NoFault
    <3> QED
      BY <3>3, <3>4, <3>5
  <2>6. CASE AuditError(w)
    BY <2>6 DEF Once, Callback, AuditError, stream, effects, NoFault, Fault, Goto, Caught
  <2>7. CASE Settle(w)
    <3>1. PICK x \in Message : x = at[w]
      BY <2>7 DEF Settle, StreamState
    <3>2. x \notin disturbed => x \notin processed /\ (Callback(x) => <<x, "error">> \in answers)
      BY <2>7, <3>1 DEF Settle, StreamState, WorkersDone, Done, Callback, OneHolder, Holds, AtUndisturbed
    <3>3. \A m \in Message : m # x /\ Once(m) => Once(m)'
      BY <2>7, <3>1 DEF Settle, Once, stream, effects, NoFault, Goto, Caught, Ack, Nak, Finish
    <3>4. x \notin disturbed' => Once(x)'
      BY <2>7, <3>1, <3>2 DEF Settle, Once, Callback, stream, effects, NoFault, Goto, Caught, Ack, Nak, Finish
    <3>5. disturbed \subseteq disturbed'
      BY <2>7 DEF Settle, Fault, NoFault
    <3> QED
      BY <3>3, <3>4, <3>5
  <2>8. CASE Crash(w)
    BY <2>8 DEF Once, Callback, Crash, stream, effects, Goto, Caught, Finish
  <2> QED
    BY <1>3, <2>1, <2>2, <2>3, <2>4, <2>5, <2>6, <2>7, <2>8
<1>4. CASE UNCHANGED vars
  BY <1>4 DEF Once, Callback, vars, stream, effects
<1> QED
  BY <1>1, <1>2, <1>3, <1>4, ReceiveAccepts DEF Next, Handle

-----------------------------------------------------------------------------
(* The invariant holds initially. *)
LEMMA InitInv == Init => Inv
<1> SUFFICES ASSUME Init
             PROVE  Inv
  OBVIOUS
<1> USE ConstantsAssumption DEF Init
<1>1. TypeOK
  BY DEF TypeOK
<1>2. StreamState /\ WorkersDone
  BY DEF StreamState, WorkersDone
<1>3. OneHolder
  BY DEF OneHolder, Holds
<1>4. SettledHasEffect /\ ResultIsReal /\ ExactlyOnce
  BY DEF SettledHasEffect, ResultIsReal, ExactlyOnce, Once
<1> QED
  BY <1>1, <1>2, <1>3, <1>4 DEF Inv

(* Every step keeps it. *)
LEMMA NextInv ==
    ASSUME Inv, [Next]_vars
    PROVE  Inv'
<1>1. TypeOK'
  BY TypeStep DEF Inv
<1>2. StreamState'
  BY StreamStep DEF Inv
<1>3. WorkersDone'
  BY WorkersStep DEF Inv
<1>4. OneHolder'
  BY HolderStep DEF Inv
<1>5. SettledHasEffect'
  BY EffectStep DEF Inv
<1>6. ResultIsReal'
  BY ResultStep DEF Inv
<1>7. ExactlyOnce'
  BY OnceStep DEF Inv
<1> QED
  BY <1>1, <1>2, <1>3, <1>4, <1>5, <1>6, <1>7 DEF Inv

(* It is an invariant of the specification. *)
LEMMA Invariance == Spec => []Inv
<1>1. Inv /\ [Next]_vars => Inv'
  BY NextInv
<1> QED
  BY <1>1, InitInv, PTL DEF Spec

(* The connector keeps its types. *)
THEOREM TypeCorrect == Spec => []TypeOK
<1>1. Inv => TypeOK
  BY DEF Inv
<1> QED
  BY <1>1, Invariance, PTL

(* For any number of failures, crashes and redeliveries, no request is     *)
(* acknowledged before it had its effect.                                  *)
THEOREM NothingDropped == Spec => []SettledHasEffect
<1>1. Inv => SettledHasEffect
  BY DEF Inv
<1> QED
  BY <1>1, Invariance, PTL

(* The Hub learns of a result only if the FSP has processed the request.   *)
THEOREM ResultsAreReal == Spec => []ResultIsReal
<1>1. Inv => ResultIsReal
  BY DEF Inv
<1> QED
  BY <1>1, Invariance, PTL

(* A request that meets no failure is handled exactly once, whatever       *)
(* happens to the others.                                                  *)
THEOREM UndisturbedOnce == Spec => []ExactlyOnce
<1>1. Inv => ExactlyOnce
  BY DEF Inv
<1> QED
  BY <1>1, Invariance, PTL

(* Acknowledging is a step of the abstract queue, or none if the message   *)
(* is settled already.                                                     *)
LEMMA AckSettles ==
    ASSUME TypeOK, StreamState, NEW w \in Worker, at[w] \in tried, Ack(w), UNCHANGED tried
    PROVE  [Queue!Next]_<<queued, settled, tried>>
<1>1. PICK m \in Message : m = at[w]
  BY DEF TypeOK
<1>2. CASE m \in queued
  <2>1. Queue!Settle(m)
    BY <1>1, <1>2 DEF Queue!Settle, Ack
  <2> QED
    BY <2>1 DEF Queue!Next
<1>3. CASE m \notin queued
  <2>1. m \in settled
    BY <1>1, <1>3 DEF StreamState
  <2> QED
    BY <1>1, <1>3, <2>1 DEF Ack
<1> QED
  BY <1>2, <1>3

(* Every step of the connector is a step of the abstract queue or leaves   *)
(* it alone.                                                               *)
LEMMA StepRefines ==
    ASSUME Inv, [Next]_vars
    PROVE  [Queue!Next]_<<queued, settled, tried>>
<1> USE DEF Inv
<1>1. ASSUME NEW m \in Message, Accept(m) \/ AckWaitExpires(m)
      PROVE  [Queue!Next]_<<queued, settled, tried>>
  <2>1. CASE Accept(m)
    <3>1. Queue!Accept(m)
      BY <2>1 DEF Accept, effects, Queue!Accept
    <3> QED
      BY <3>1 DEF Queue!Next
  <2>2. CASE AckWaitExpires(m)
    BY <2>2 DEF AckWaitExpires, effects
  <2> QED
    BY <1>1, <2>1, <2>2
<1>2. ASSUME NEW w \in Worker, NEW m \in Message, Deliver(w, m) \/ consume(w, m)
      PROVE  UNCHANGED <<queued, settled, tried>>
  BY <1>2 DEF Deliver, consume, stream, effects
<1>3. ASSUME NEW w \in Worker, Handle(w) \/ Crash(w)
      PROVE  [Queue!Next]_<<queued, settled, tried>>
  <2>1. CASE CallFsp(w)
    <3>1. PICK m \in Message : m = at[w]
      BY <2>1 DEF CallFsp, StreamState, TypeOK
    <3>2. Queue!Try(m)
      BY <2>1, <3>1 DEF CallFsp, stream, StreamState, Queue!Try
    <3> QED
      BY <3>2 DEF Queue!Next
  <2>2. CASE AuditResponse(w)
    <3>1. at[w] \in tried /\ UNCHANGED tried
      BY <2>2 DEF AuditResponse, StreamState, WorkersDone, Done, effects
    <3> QED
      BY <2>2, <3>1, AckSettles DEF AuditResponse, stream
  <2>3. CASE Settle(w)
    <3>1. at[w] \in tried /\ UNCHANGED tried
      BY <2>3 DEF Settle, StreamState, WorkersDone, Done, effects
    <3> QED
      BY <2>3, <3>1, AckSettles DEF Settle, Nak
  <2>4. CASE AuditRequest(w) \/ PutResult(w) \/ PutError(w) \/ AuditError(w) \/ Crash(w)
    BY <2>4 DEF AuditRequest, PutResult, PutError, AuditError, Crash, Nak, stream, effects
  <2> QED
    BY <1>3, <2>1, <2>2, <2>3, <2>4 DEF Handle
<1>4. CASE UNCHANGED vars
  BY <1>4 DEF vars
<1> QED
  BY <1>1, <1>2, <1>3, <1>4, ReceiveAccepts DEF Next

(* The connector implements the abstract work queue: an accepted request   *)
(* stays queued until it is settled, is settled only after it was tried,   *)
(* and is never reopened.                                                  *)
THEOREM ImplementsQueue == Spec => QueuePromise
<1>1. Init => Queue!Init
  BY DEF Init, Queue!Init
<1>2. Inv /\ [Next]_vars => [Queue!Next]_<<queued, settled, tried>>
  BY StepRefines
<1> QED
  BY <1>1, <1>2, Invariance, PTL DEF Spec, QueuePromise, Queue!Spec
=============================================================================
