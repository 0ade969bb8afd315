----------------------- MODULE AuditTransactionProofs -----------------------
(* Proofs about the audit package. First AuditTransaction, for every set   *)
(* of audit messages, every number of replicas and any number of failures; *)
(* then TransactionRollup, for every length of an hour and a day, every    *)
(* delay, lag, gap between ticks and number of replicas the window covers.  *)
EXTENDS AuditTransaction, TransactionRollup, TLAPS

-----------------------------------------------------------------------------
(* The merge. *)

(* NULL is no time.                                                        *)
LEMMA NullIsNoTime == None \notin Nat
BY ConstantsAssumption

(* LEAST keeps the least of a set of times that grows.                     *)
LEMMA LeastGrows ==
    ASSUME NEW S, S \subseteq Nat, NEW v, IsLeast(v, S), NEW t \in Nat
    PROVE  IsLeast(Least(v, t), S \cup {t})
<1>1. CASE S = {}
  BY <1>1, NullIsNoTime DEF IsLeast, Least
<1>2. CASE S # {}
  <2>1. v \in S /\ v \in Nat /\ v # None /\ t # None /\ \A s \in S : v <= s
    BY <1>2, NullIsNoTime DEF IsLeast
  <2>2. Least(v, t) = IF v <= t THEN v ELSE t
    BY <2>1 DEF Least
  <2>3. Least(v, t) \in S \cup {t} /\ \A s \in S \cup {t} : Least(v, t) <= s
    BY <2>1, <2>2
  <2> QED
    BY <2>3 DEF IsLeast
<1> QED
  BY <1>1, <1>2

(* GREATEST keeps the greatest.                                            *)
LEMMA GreatestGrows ==
    ASSUME NEW S, S \subseteq Nat, NEW v, IsGreatest(v, S), NEW t \in Nat
    PROVE  IsGreatest(Greatest(v, t), S \cup {t})
<1>1. CASE S = {}
  BY <1>1, NullIsNoTime DEF IsGreatest, Greatest
<1>2. CASE S # {}
  <2>1. v \in S /\ v \in Nat /\ v # None /\ t # None /\ \A s \in S : s <= v
    BY <1>2, NullIsNoTime DEF IsGreatest
  <2>2. Greatest(v, t) = IF t <= v THEN v ELSE t
    BY <2>1 DEF Greatest
  <2>3. Greatest(v, t) \in S \cup {t} /\ \A s \in S \cup {t} : s <= Greatest(v, t)
    BY <2>1, <2>2
  <2> QED
    BY <2>3 DEF IsGreatest
<1> QED
  BY <1>1, <1>2

(* A NULL changes neither.                                                 *)
LEMMA NullGivesWay ==
    ASSUME NEW v
    PROVE  Least(v, None) = v /\ Greatest(v, None) = v
BY DEF Least, Greatest

(* Both stay among the times.                                              *)
LEMMA TimesStay ==
    ASSUME NEW a \in Time, NEW b \in Time
    PROVE  Least(a, b) \in Time /\ Greatest(a, b) \in Time
BY DEF Least, Greatest, Time

(* What the mapper makes of a message, column by column.                   *)
Input(e) ==
    [startedAt |-> occurredAt[e],
     requestedAt |-> IF action[e] = "request" THEN GatewayFields(e) ELSE NoTimes,
     respondedAt |-> IF action[e] = "request" THEN NoTimes ELSE GatewayFields(e),
     flow |-> IF action[e] = "request" \/ phase[e] = "patch" THEN None ELSE FlowOf(e),
     error |-> action[e] = "error",
     transferState |-> IF phase[e] = "transfers" /\ action[e] = "response"
                       THEN transferState[e] ELSE None,
     possibleDispute |-> Disputed(e),
     disputeResolvedAt |-> None]

(* The mapper's four functions do that.                                    *)
LEMMA InputIs ==
    ASSUME NEW e \in Event
    PROVE  /\ phase[e] = "parties" => toPartiesInput(e) = Input(e)
           /\ phase[e] = "quotes" => toQuotesInput(e) = Input(e)
           /\ phase[e] = "transfers" => toTransfersInput(e) = Input(e)
           /\ phase[e] = "patch" => toPatchInput(e) = Input(e)
<1> USE DEF StageInput, Input, Disputed, FlowOf
<1>1. phase[e] = "parties" => toPartiesInput(e) = Input(e)
  BY DEF toPartiesInput
<1>2. phase[e] = "quotes" => toQuotesInput(e) = Input(e)
  BY DEF toQuotesInput
<1>3. phase[e] = "transfers" => toTransfersInput(e) = Input(e)
  BY DEF toTransfersInput
<1>4. phase[e] = "patch" => toPatchInput(e) = Input(e)
  BY DEF toPatchInput
<1> QED
  BY <1>1, <1>2, <1>3, <1>4

(* It is a row.                                                            *)
LEMMA InputType ==
    ASSUME NEW e \in Event, Upserts(e)
    PROVE  Input(e) \in Row
<1>1. GatewayFields(e) \in [Column -> Time] /\ NoTimes \in [Column -> Time]
  BY ConstantsAssumption DEF GatewayFields, NoTimes, Time
<1>2. phase[e] \in {"parties", "quotes", "transfers", "patch"}
  BY ConstantsAssumption DEF Upserts
<1>3. (IF action[e] = "request" \/ phase[e] = "patch" THEN None ELSE FlowOf(e)) \in {1, 2, 3, None}
  BY <1>2 DEF FlowOf
<1>4. occurredAt[e] \in Time /\ transferState[e] \in {"RESERVED", "COMMITTED", "ABORTED", None}
  BY ConstantsAssumption DEF Time
<1> QED
  BY <1>1, <1>3, <1>4 DEF Input, Row, Disputed, Time

(* The statement, column by column.                                        *)
LEMMA UpsertFields ==
    ASSUME NEW r \in Row, NEW x \in Row
    PROVE  /\ upsert(r, x).startedAt = Least(r.startedAt, x.startedAt)
           /\ \A c \in Column :
                 /\ upsert(r, x).requestedAt[c] = Least(r.requestedAt[c], x.requestedAt[c])
                 /\ upsert(r, x).respondedAt[c] = Greatest(r.respondedAt[c], x.respondedAt[c])
           /\ upsert(r, x).flow = Greatest(r.flow, x.flow)
           /\ upsert(r, x).error = (r.error \/ x.error)
           /\ upsert(r, x).transferState = Coalesce(x.transferState, r.transferState)
           /\ upsert(r, x).possibleDispute = (r.possibleDispute \/ x.possibleDispute)
           /\ upsert(r, x).disputeResolvedAt = r.disputeResolvedAt
           /\ upsert(r, x) \in Row
<1>1. upsert(r, x) =
        [startedAt |-> Least(r.startedAt, x.startedAt),
         requestedAt |-> [c \in Column |-> Least(r.requestedAt[c], x.requestedAt[c])],
         respondedAt |-> [c \in Column |-> Greatest(r.respondedAt[c], x.respondedAt[c])],
         flow |-> Greatest(r.flow, x.flow),
         error |-> r.error \/ x.error,
         transferState |-> Coalesce(x.transferState, r.transferState),
         possibleDispute |-> r.possibleDispute \/ x.possibleDispute,
         disputeResolvedAt |-> r.disputeResolvedAt]
  BY DEF upsert, Merge, LeastTimes, GreatestTimes
<1>2. [c \in Column |-> Least(r.requestedAt[c], x.requestedAt[c])] \in [Column -> Time]
  BY TimesStay DEF Row
<1>3. [c \in Column |-> Greatest(r.respondedAt[c], x.respondedAt[c])] \in [Column -> Time]
  BY TimesStay DEF Row
<1>4. Least(r.startedAt, x.startedAt) \in Time
  BY TimesStay DEF Row
<1>5. Greatest(r.flow, x.flow) \in {1, 2, 3, None}
  BY DEF Row, Greatest
<1>6. Coalesce(x.transferState, r.transferState) \in {"RESERVED", "COMMITTED", "ABORTED", None}
  BY DEF Row, Coalesce
<1>7. r.error \in BOOLEAN /\ r.possibleDispute \in BOOLEAN /\ r.disputeResolvedAt \in Time
  BY DEF Row
<1>8. upsert(r, x) \in Row
  BY <1>1, <1>2, <1>3, <1>4, <1>5, <1>6, <1>7 DEF Row
<1> QED
  BY <1>1, <1>8

-----------------------------------------------------------------------------
(* The database changes in two ways only. *)
Merges(e) ==
    /\ e \in Event \ Unstorable /\ Upserts(e)
    /\ row' = upsert(row, Input(e)) /\ applied' = applied \cup {e}

Resolution(e) ==
    /\ e \in Event \ Unstorable /\ Resolves(e)
    /\ row' = resolveDispute(row, e) /\ applied' = applied \cup {e}

(* Every dispatch stores the message's row, or leaves the database alone.  *)
LEMMA DispatchStep ==
    ASSUME TypeOK, Workers, NEW w \in Worker, dispatch(w)
    PROVE  UNCHANGED db \/ \E e \in Event : Merges(e) \/ Resolution(e)
<1>1. PICK e \in Event : e = at[w]
  BY DEF dispatch, dispatchParties, dispatchQuotes, dispatchTransfers, dispatchPatch,
         dispatchPatchResolved, Workers, WorkerState, TypeOK
<1>2. \A new : Execute(w, new) =>
         UNCHANGED db
         \/ (e \notin Unstorable /\ action[e] # "unsupported" /\ row' = new /\ applied' = applied \cup {e})
  BY <1>1 DEF Execute
<1>3. CASE dispatchParties(w)
  BY <1>1, <1>2, <1>3, InputIs, ConstantsAssumption DEF dispatchParties, Merges, Upserts
<1>4. CASE dispatchQuotes(w)
  BY <1>1, <1>2, <1>4, InputIs, ConstantsAssumption DEF dispatchQuotes, Merges, Upserts
<1>5. CASE dispatchTransfers(w)
  BY <1>1, <1>2, <1>5, InputIs, ConstantsAssumption DEF dispatchTransfers, Merges, Upserts
<1>6. CASE dispatchPatch(w)
  BY <1>1, <1>2, <1>6, InputIs DEF dispatchPatch, Merges, Upserts
<1>7. CASE dispatchPatchResolved(w)
  BY <1>1, <1>2, <1>7 DEF dispatchPatchResolved, Resolution, Resolves
<1> QED
  BY <1>3, <1>4, <1>5, <1>6, <1>7 DEF dispatch

(* So does every step.                                                     *)
LEMMA DbStep ==
    ASSUME TypeOK, Workers, [Next]_vars
    PROVE  UNCHANGED db \/ \E e \in Event : Merges(e) \/ Resolution(e)
<1>1. ASSUME NEW e \in Event, AckWaitExpires(e)
      PROVE  UNCHANGED db
  BY <1>1 DEF AckWaitExpires
<1>2. ASSUME NEW w \in Worker, NEW e \in Event, Deliver(w, e)
      PROVE  UNCHANGED db
  BY <1>2 DEF Deliver, db
<1>3. ASSUME NEW w \in Worker, consume(w) \/ Crash(w)
      PROVE  UNCHANGED db \/ dispatch(w)
  BY <1>3 DEF consume, Crash, LoopThrows, TermUnknown, recordAndAck, handleProcessingFailure
<1>4. CASE UNCHANGED vars
  BY <1>4 DEF vars
<1> QED
  BY <1>1, <1>2, <1>3, <1>4, DispatchStep DEF Next

-----------------------------------------------------------------------------
(* One lemma per part of the invariant. *)

(* The type invariant: the stream and the workers by their action, the row *)
(* by the merge.                                                           *)
LEMMA TypeStep ==
    ASSUME TypeOK, Workers, [Next]_vars
    PROVE  TypeOK'
<1> USE ConstantsAssumption
<1>1. row' \in Row /\ applied' \subseteq Event
  <2>1. CASE UNCHANGED db
    BY <2>1 DEF db, TypeOK
  <2>2. ASSUME NEW e \in Event, Merges(e)
        PROVE  row' \in Row /\ applied' \subseteq Event
    BY <2>2, InputType, UpsertFields DEF Merges, TypeOK
  <2>3. ASSUME NEW e \in Event, Resolution(e)
        PROVE  row' \in Row /\ applied' \subseteq Event
    <3>1. occurredAt[e] \in Time
      BY DEF Time
    <3>2. row \in Row /\ row' = resolveDispute(row, e) /\ applied' \subseteq Event
      BY <2>3 DEF Resolution, TypeOK
    <3>3. resolveDispute(row, e) \in Row
      BY <3>1, <3>2 DEF resolveDispute, Row
    <3> QED
      BY <3>2, <3>3
  <2> QED
    BY <2>1, <2>2, <2>3, DbStep
<1> DEFINE Rest ==
       /\ queued \subseteq Event /\ acked \subseteq Event /\ terminated \subseteq Event
       /\ outstanding \subseteq queued
       /\ deliveries \in [Event -> 0 .. MaxDeliveryAttempts]
       /\ at \in [Worker -> Event \cup {None}]
       /\ attempt \in [Worker -> 0 .. MaxDeliveryAttempts]
       /\ pc \in [Worker -> {"idle", "dispatch", "ack", "failed", "rejected"}]
       /\ faults \in Nat
<1>2. Rest'
  <2>0. Rest
    BY DEF TypeOK
  <2> USE <2>0
  <2>1. ASSUME NEW e \in Event, AckWaitExpires(e)
        PROVE  Rest'
    BY <2>1 DEF AckWaitExpires, Fault
  <2>2. ASSUME NEW w \in Worker, NEW e \in Event, Deliver(w, e)
        PROVE  Rest'
    BY <2>2 DEF Deliver, Goto
  <2>3. ASSUME NEW w \in Worker, dispatch(w)
        PROVE  Rest'
    <3>1. UNCHANGED <<stream, at, attempt>>
      BY <2>3 DEF dispatch, dispatchParties, dispatchQuotes, dispatchTransfers, dispatchPatch,
                  dispatchPatchResolved, Execute
    <3>2. faults' \in Nat
      BY <2>3 DEF dispatch, dispatchParties, dispatchQuotes, dispatchTransfers, dispatchPatch,
                  dispatchPatchResolved, Execute, Fault
    <3>3. \E l \in {"ack", "failed", "rejected"} : Goto(w, l)
      BY <2>3 DEF dispatch, dispatchParties, dispatchQuotes, dispatchTransfers, dispatchPatch,
                  dispatchPatchResolved, Execute
    <3> QED
      BY <3>1, <3>2, <3>3 DEF stream, Goto
  <2>4. ASSUME NEW w \in Worker,
               LoopThrows(w) \/ TermUnknown(w) \/ recordAndAck(w) \/ handleProcessingFailure(w) \/ Crash(w)
        PROVE  Rest'
    <3>1. Ack(w) \/ Term(w) \/ Nak(w) \/ (Finish(w) /\ UNCHANGED stream)
      BY <2>4 DEF LoopThrows, TermUnknown, recordAndAck, handleProcessingFailure, Crash
    <3>2. faults' \in Nat
      BY <2>4 DEF LoopThrows, TermUnknown, recordAndAck, handleProcessingFailure, Crash, Fault
    <3> QED
      BY <3>1, <3>2 DEF Ack, Term, Nak, Finish, Goto, stream
  <2>5. CASE UNCHANGED vars
    BY <2>5 DEF vars, stream
  <2> QED
    BY <2>1, <2>2, <2>3, <2>4, <2>5 DEF Next, consume
<1> QED
  BY <1>1, <1>2 DEF TypeOK

(* What the database executes has a known phase.                           *)
LEMMA ExecutedStep ==
    ASSUME TypeOK, Workers, Executed, [Next]_vars
    PROVE  Executed'
<1>1. CASE UNCHANGED db
  BY <1>1 DEF db, Executed
<1>2. ASSUME NEW e \in Event, Merges(e) \/ Resolution(e)
      PROVE  Executed'
  BY <1>2, ConstantsAssumption DEF Merges, Resolution, Executed, Upserts, Resolves
<1> QED
  BY <1>1, <1>2, DbStep

(* The row stays the merge of what the database has executed.              *)
LEMMA MergeStep ==
    ASSUME TypeOK, Workers, Executed, RowIsMerge, [Next]_vars
    PROVE  RowIsMerge'
<1>1. CASE UNCHANGED db
  BY <1>1 DEF db, RowIsMerge, Requests, Responses, Staged, Upserted
<1>2. ASSUME NEW e \in Event, Resolution(e)
      PROVE  RowIsMerge'
  <2>1. Upserted' = Upserted
    BY <1>2 DEF Resolution, Resolves, Upserted, Upserts
  <2>2. /\ row'.startedAt = row.startedAt /\ row'.requestedAt = row.requestedAt
        /\ row'.respondedAt = row.respondedAt /\ row'.flow = row.flow
        /\ row'.error = row.error
    BY <1>2 DEF Resolution, resolveDispute, TypeOK, Row
  <2> QED
    BY <2>1, <2>2 DEF RowIsMerge, Requests, Responses, Staged
<1>3. ASSUME NEW e \in Event, Merges(e)
      PROVE  RowIsMerge'
  <2>1. /\ row'.startedAt = Least(row.startedAt, occurredAt[e])
        /\ \A c \in Column :
              /\ row'.requestedAt[c] = Least(row.requestedAt[c], Input(e).requestedAt[c])
              /\ row'.respondedAt[c] = Greatest(row.respondedAt[c], Input(e).respondedAt[c])
        /\ row'.flow = Greatest(row.flow, Input(e).flow)
        /\ row'.error = (row.error \/ action[e] = "error")
    <3>1. Input(e).startedAt = occurredAt[e] /\ Input(e).error = (action[e] = "error")
      BY DEF Input
    <3> QED
      BY <1>3, <3>1, InputType, UpsertFields DEF Merges, TypeOK
  <2>2. Upserted' = Upserted \cup {e} /\ Upserted \subseteq Event /\ Upserts(e)
    BY <1>3 DEF Merges, Upserted, TypeOK
  <2>3. \A x \in Event : occurredAt[x] \in Nat
    BY ConstantsAssumption
  <2>4. ASSUME NEW S, S \subseteq Event
        PROVE  {occurredAt[x] : x \in S \cup {e}} = {occurredAt[x] : x \in S} \cup {occurredAt[e]}
    OBVIOUS
  <2>5. IsLeast(row'.startedAt, {occurredAt[x] : x \in Upserted'})
    <3>1. {occurredAt[x] : x \in Upserted} \subseteq Nat
      BY <2>2, <2>3
    <3>2. IsLeast(row.startedAt, {occurredAt[x] : x \in Upserted})
      BY DEF RowIsMerge
    <3> QED
      BY <2>1, <2>2, <2>3, <2>4, <3>1, <3>2, LeastGrows
  <2>6. ASSUME NEW c \in Column
        PROVE  IsLeast(row'.requestedAt[c], {occurredAt[x] : x \in Requests(c)'})
    <3>1. Requests(c) \subseteq Event /\ {occurredAt[x] : x \in Requests(c)} \subseteq Nat
      BY <2>2, <2>3 DEF Requests
    <3>2. IsLeast(row.requestedAt[c], {occurredAt[x] : x \in Requests(c)})
      BY DEF RowIsMerge
    <3>3. CASE action[e] = "request" /\ Stamps(e, c)
      <4>1. Requests(c)' = Requests(c) \cup {e}
        BY <2>2, <3>3 DEF Requests
      <4>2. Input(e).requestedAt[c] = occurredAt[e]
        BY <3>3 DEF Input, GatewayFields, Stamps
      <4> QED
        BY <2>1, <2>3, <2>4, <3>1, <3>2, <4>1, <4>2, LeastGrows
    <3>4. CASE ~(action[e] = "request" /\ Stamps(e, c))
      <4>1. Requests(c)' = Requests(c)
        BY <2>2, <3>4 DEF Requests
      <4>2. Input(e).requestedAt[c] = None
        BY <3>4 DEF Input, GatewayFields, NoTimes, Stamps
      <4> QED
        BY <2>1, <3>2, <4>1, <4>2, NullGivesWay
    <3> QED
      BY <3>3, <3>4
  <2>7. ASSUME NEW c \in Column
        PROVE  IsGreatest(row'.respondedAt[c], {occurredAt[x] : x \in Responses(c)'})
    <3>1. Responses(c) \subseteq Event /\ {occurredAt[x] : x \in Responses(c)} \subseteq Nat
      BY <2>2, <2>3 DEF Responses
    <3>2. IsGreatest(row.respondedAt[c], {occurredAt[x] : x \in Responses(c)})
      BY DEF RowIsMerge
    <3>3. CASE action[e] # "request" /\ Stamps(e, c)
      <4>1. Responses(c)' = Responses(c) \cup {e}
        BY <2>2, <3>3 DEF Responses
      <4>2. Input(e).respondedAt[c] = occurredAt[e]
        BY <3>3 DEF Input, GatewayFields, Stamps
      <4> QED
        BY <2>1, <2>3, <2>4, <3>1, <3>2, <4>1, <4>2, GreatestGrows
    <3>4. CASE ~(action[e] # "request" /\ Stamps(e, c))
      <4>1. Responses(c)' = Responses(c)
        BY <2>2, <3>4 DEF Responses
      <4>2. Input(e).respondedAt[c] = None
        BY <3>4 DEF Input, GatewayFields, NoTimes, Stamps
      <4> QED
        BY <2>1, <3>2, <4>1, <4>2, NullGivesWay
    <3> QED
      BY <3>3, <3>4
  <2>8. IsGreatest(row'.flow, {FlowOf(x) : x \in Staged'})
    <3>1. \A x \in Staged' : FlowOf(x) \in Nat
      <4>1. \A x \in Staged' : x \in Event /\ phase[x] \in {"parties", "quotes", "transfers"}
        BY <2>2, ConstantsAssumption DEF Staged, Upserted, Upserts
      <4> QED
        BY <4>1 DEF FlowOf
    <3>2. IsGreatest(row.flow, {FlowOf(x) : x \in Staged})
      BY DEF RowIsMerge
    <3>3. CASE action[e] # "request" /\ phase[e] # "patch"
      <4>1. Staged' = Staged \cup {e}
        BY <2>2, <3>3 DEF Staged
      <4>2. Input(e).flow = FlowOf(e)
        BY <3>3 DEF Input
      <4>3. {FlowOf(x) : x \in Staged'} = {FlowOf(x) : x \in Staged} \cup {FlowOf(e)}
        BY <4>1
      <4>4. {FlowOf(x) : x \in Staged} \subseteq Nat /\ FlowOf(e) \in Nat
        BY <3>1, <4>1
      <4> QED
        BY <2>1, <3>2, <4>2, <4>3, <4>4, GreatestGrows
    <3>4. CASE ~(action[e] # "request" /\ phase[e] # "patch")
      <4>1. Staged' = Staged
        BY <2>2, <3>4 DEF Staged
      <4>2. Input(e).flow = None
        BY <3>4 DEF Input
      <4> QED
        BY <2>1, <3>2, <4>1, <4>2, NullGivesWay
    <3> QED
      BY <3>3, <3>4
  <2>9. row'.error <=> \E x \in Upserted' : action[x] = "error"
    BY <2>1, <2>2 DEF RowIsMerge
  <2> QED
    BY <2>5, <2>6, <2>7, <2>8, <2>9 DEF RowIsMerge
<1> QED
  BY <1>1, <1>2, <1>3, DbStep

(* A dispute is kept until it is resolved.                                 *)
LEMMA DisputeStep ==
    ASSUME TypeOK, Workers, Executed, RowIsMerge, DisputeKept, [Next]_vars
    PROVE  DisputeKept'
<1>1. CASE UNCHANGED db
  BY <1>1 DEF db, DisputeKept
<1>2. ASSUME NEW e \in Event, Merges(e)
      PROVE  DisputeKept'
  <2>1. /\ row'.possibleDispute = (row.possibleDispute \/ Disputed(e))
        /\ row'.disputeResolvedAt = row.disputeResolvedAt
    <3>1. Input(e).possibleDispute = Disputed(e)
      BY DEF Input
    <3> QED
      BY <1>2, <3>1, InputType, UpsertFields DEF Merges, TypeOK
  <2> QED
    BY <1>2, <2>1 DEF Merges, DisputeKept
<1>3. ASSUME NEW e \in Event, Resolution(e)
      PROVE  DisputeKept'
  <2>1. CASE row.startedAt = None
    <3>1. Upserted = {}
      <4>1. {occurredAt[x] : x \in Upserted} \subseteq Nat
        BY ConstantsAssumption DEF Upserted, TypeOK
      <4>2. {occurredAt[x] : x \in Upserted} = {}
        BY <2>1, <4>1, NullIsNoTime DEF RowIsMerge, IsLeast
      <4> QED
        BY <4>2
    <3>2. row' = row /\ ~Disputed(e)
      BY <1>3, <2>1 DEF Resolution, resolveDispute, Resolves, Disputed
    <3>3. \A x \in applied : ~Disputed(x)
      BY <3>1 DEF Upserted, Upserts, Disputed
    <3> QED
      BY <1>3, <3>2, <3>3 DEF Resolution, DisputeKept
  <2>2. CASE row.startedAt # None
    <3>1. row'.possibleDispute = FALSE /\ row'.disputeResolvedAt # None
      BY <1>3, <2>2, ConstantsAssumption DEF Resolution, resolveDispute, TypeOK, Row
    <3> QED
      BY <1>3, <3>1 DEF Resolution, DisputeKept
  <2> QED
    BY <2>1, <2>2
<1> QED
  BY <1>1, <1>2, <1>3, DbStep

(* A dispatch moves its worker on, and a successful one has stored the     *)
(* message.                                                                *)
LEMMA DispatchOutcome ==
    ASSUME TypeOK, NEW w \in Worker, dispatch(w)
    PROVE  /\ UNCHANGED <<stream, at, attempt>>
           /\ applied \subseteq applied'
           /\ pc[w] = "dispatch"
           /\ \/ /\ pc' = [pc EXCEPT ![w] = "ack"]
                 /\ \/ at[w] \in applied'
                    \/ Ignored(at[w])
              \/ pc' = [pc EXCEPT ![w] = "failed"]
              \/ pc' = [pc EXCEPT ![w] = "rejected"] /\ at[w] \in Unstorable
<1>1. \A new : Execute(w, new) =>
           /\ UNCHANGED <<stream, at, attempt>>
           /\ applied \subseteq applied'
           /\ \/ pc' = [pc EXCEPT ![w] = "ack"] /\ at[w] \in applied'
              \/ pc' = [pc EXCEPT ![w] = "failed"]
              \/ pc' = [pc EXCEPT ![w] = "rejected"] /\ at[w] \in Unstorable
  BY DEF Execute, Goto, db
<1>2. CASE dispatchParties(w) \/ dispatchQuotes(w) \/ dispatchTransfers(w) \/ dispatchPatch(w)
  BY <1>1, <1>2 DEF dispatchParties, dispatchQuotes, dispatchTransfers, dispatchPatch
<1>3. CASE dispatchPatchResolved(w)
  BY <1>1, <1>3 DEF dispatchPatchResolved, Goto, db
<1> QED
  BY <1>2, <1>3 DEF dispatch

(* The other steps of a worker end its delivery.                           *)
LEMMA EndOutcome ==
    ASSUME NEW w \in Worker,
           LoopThrows(w) \/ TermUnknown(w) \/ recordAndAck(w) \/ handleProcessingFailure(w) \/ Crash(w)
    PROVE  Finish(w) /\ UNCHANGED <<deliveries, row, applied>> /\ Published' = Published
<1>1. UNCHANGED <<row, applied>>
  BY DEF LoopThrows, TermUnknown, recordAndAck, handleProcessingFailure, Crash, db
<1>2. Ack(w) \/ Term(w) \/ Nak(w) \/ (Finish(w) /\ UNCHANGED stream)
  BY DEF LoopThrows, TermUnknown, recordAndAck, handleProcessingFailure, Crash
<1>3. CASE Ack(w)
  BY <1>1, <1>3 DEF Ack, Published
<1>4. CASE Term(w)
  BY <1>1, <1>4 DEF Term, Published
<1>5. CASE Nak(w)
  BY <1>1, <1>5 DEF Nak, Published
<1>6. CASE Finish(w) /\ UNCHANGED stream
  BY <1>1, <1>6 DEF stream, Published
<1> QED
  BY <1>2, <1>3, <1>4, <1>5, <1>6

(* What a worker's place says about its message stays true.                *)
LEMMA WorkersStep ==
    ASSUME TypeOK, Workers, [Next]_vars
    PROVE  Workers'
<1> USE ConstantsAssumption
<1>1. ASSUME NEW e \in Event, AckWaitExpires(e)
      PROVE  Workers'
  BY <1>1 DEF AckWaitExpires, db, Workers, WorkerState, Published
<1>2. ASSUME NEW w \in Worker, NEW e \in Event, Deliver(w, e)
      PROVE  Workers'
  <2>1. UNCHANGED <<queued, acked, terminated, row, applied>> /\ Published' = Published
    BY <1>2 DEF Deliver, db, Published
  <2>2. \A x \in Event : deliveries[x] <= deliveries'[x]
    BY <1>2 DEF Deliver, TypeOK
  <2>3. /\ at'[w] = e /\ pc'[w] = "dispatch" /\ attempt'[w] = deliveries'[e] /\ e \in Published
        /\ deliveries'[e] \in Nat /\ e # None
    BY <1>2 DEF Deliver, Goto, TypeOK, Published
  <2>4. WorkerState(w)'
    BY <2>1, <2>3 DEF WorkerState
  <2>5. ASSUME NEW v \in Worker, v # w
        PROVE  WorkerState(v)'
    <3>1. at'[v] = at[v] /\ pc'[v] = pc[v] /\ attempt'[v] = attempt[v]
      BY <1>2, <2>5 DEF Deliver, Goto, TypeOK
    <3>2. WorkerState(v) /\ at[v] \in Event \cup {None} /\ attempt[v] \in Nat
      BY DEF Workers, TypeOK
    <3>3. \A x \in Event : deliveries[x] \in Nat /\ deliveries'[x] \in Nat
      BY <1>2 DEF Deliver, TypeOK
    <3> QED
      BY <2>1, <2>2, <3>1, <3>2, <3>3 DEF WorkerState
  <2> QED
    BY <2>4, <2>5 DEF Workers
<1>3. ASSUME NEW w \in Worker, dispatch(w)
      PROVE  Workers'
  <2>1. Published' = Published /\ UNCHANGED <<deliveries, at, attempt>> /\ applied \subseteq applied'
    BY <1>3, DispatchOutcome DEF stream, Published
  <2>2. ASSUME NEW v \in Worker
        PROVE  WorkerState(v)'
    <3>1. CASE v = w
      BY <1>3, <2>1, <3>1, DispatchOutcome DEF TypeOK, Workers, WorkerState
    <3>2. CASE v # w
      BY <1>3, <2>1, <3>2, DispatchOutcome DEF TypeOK, Workers, WorkerState
    <3> QED
      BY <3>1, <3>2
  <2> QED
    BY <2>2 DEF Workers
<1>4. ASSUME NEW w \in Worker,
             LoopThrows(w) \/ TermUnknown(w) \/ recordAndAck(w) \/ handleProcessingFailure(w) \/ Crash(w)
      PROVE  Workers'
  BY <1>4, EndOutcome DEF Finish, Goto, TypeOK, Workers, WorkerState
<1>5. CASE UNCHANGED vars
  BY <1>5 DEF vars, stream, db, Workers, WorkerState, Published
<1> QED
  BY <1>1, <1>2, <1>3, <1>4, <1>5 DEF Next, consume

(* A message is settled only when it is recorded or given up.              *)
LEMMA SettledStep ==
    ASSUME TypeOK, Workers, SettledIsRecorded, [Next]_vars
    PROVE  SettledIsRecorded'
<1>1. applied \subseteq applied' /\ applied' \cap Unstorable = {}
  BY DbStep DEF db, Merges, Resolution, SettledIsRecorded
<1>2. \A e \in Event : deliveries[e] = MaxDeliveryAttempts => deliveries'[e] = MaxDeliveryAttempts
  <2>1. CASE \E w \in Worker, e \in Event : Deliver(w, e)
    BY <2>1, ConstantsAssumption DEF Deliver, TypeOK
  <2>2. CASE UNCHANGED deliveries
    BY <2>2
  <2> QED
    BY <2>1, <2>2, DispatchOutcome, EndOutcome
       DEF Next, consume, AckWaitExpires, vars, stream
<1>3. ASSUME NEW e \in acked'
      PROVE  e \in applied \/ Ignored(e)
  <2>1. CASE e \in acked
    BY <2>1 DEF SettledIsRecorded
  <2>2. CASE e \notin acked
    <3>1. PICK w \in Worker : recordAndAck(w)
      BY <1>3, <2>2, DispatchOutcome
         DEF Next, consume, AckWaitExpires, Deliver, LoopThrows, Finish, TermUnknown,
             handleProcessingFailure, Term, Nak, Crash, vars, stream
    <3>2. e = at[w] /\ pc[w] = "ack"
      BY <1>3, <2>2, <3>1 DEF recordAndAck, Ack
    <3> QED
      BY <3>2 DEF Workers, WorkerState
  <2> QED
    BY <2>1, <2>2
<1>4. ASSUME NEW e \in terminated'
      PROVE  phase[e] = "unknown" \/ e \in Unstorable \/ deliveries[e] = MaxDeliveryAttempts
  <2>1. CASE e \in terminated
    BY <2>1 DEF SettledIsRecorded
  <2>2. CASE e \notin terminated
    <3>1. PICK w \in Worker : TermUnknown(w) \/ handleProcessingFailure(w)
      BY <1>4, <2>2, DispatchOutcome
         DEF Next, consume, AckWaitExpires, Deliver, LoopThrows, recordAndAck, Ack, Crash, vars, stream
    <3>2. e = at[w] /\ e \in Event
      BY <1>4, <2>2, <3>1 DEF TermUnknown, handleProcessingFailure, Term, Nak, TypeOK
    <3>3. CASE TermUnknown(w)
      BY <3>2, <3>3 DEF TermUnknown
    <3>4. CASE handleProcessingFailure(w)
      <4>1. Term(w)
        BY <1>4, <2>2, <3>4 DEF handleProcessingFailure, Nak
      <4>2. pc[w] = "rejected" \/ attempt[w] >= MaxDeliveryAttempts
        <5>1. SUFFICES ASSUME pc[w] # "rejected", ~(attempt[w] >= MaxDeliveryAttempts)
                       PROVE  FALSE
          OBVIOUS
        <5>2. Nak(w)
          BY <3>4, <5>1 DEF handleProcessingFailure
        <5> QED
          BY <1>4, <2>2, <5>2 DEF Nak
      <4>3. e # None
        BY <3>2, ConstantsAssumption
      <4>4. WorkerState(w) /\ attempt[w] \in Nat /\ deliveries[e] \in 0 .. MaxDeliveryAttempts
        BY <3>2, ConstantsAssumption DEF Workers, TypeOK
      <4> QED
        BY <3>2, <4>2, <4>3, <4>4, ConstantsAssumption DEF WorkerState
    <3> QED
      BY <3>1, <3>3, <3>4
  <2> QED
    BY <2>1, <2>2
<1>5. terminated' \subseteq Event
  BY TypeStep DEF TypeOK
<1> QED
  BY <1>1, <1>2, <1>3, <1>4, <1>5 DEF SettledIsRecorded

-----------------------------------------------------------------------------
(* The invariant holds initially. *)
LEMMA InitInv == Init => Inv
<1> SUFFICES ASSUME Init
             PROVE  Inv
  OBVIOUS
<1> USE ConstantsAssumption DEF Init
<1>1. NoTimes \in [Column -> Time] /\ None \in Time
  BY DEF NoTimes, Time
<1>2. TypeOK
  BY <1>1 DEF TypeOK, NoRow, Row
<1>3. Workers /\ Executed
  BY DEF Workers, WorkerState, Executed
<1>4. RowIsMerge
  <2>1. Upserted = {} /\ Staged = {} /\ \A c \in Column : Requests(c) = {} /\ Responses(c) = {}
    BY DEF Upserted, Staged, Requests, Responses
  <2>2. /\ row.startedAt = None /\ row.flow = None /\ row.error = FALSE
        /\ \A c \in Column : row.requestedAt[c] = None /\ row.respondedAt[c] = None
    BY DEF NoRow, NoTimes
  <2> QED
    BY <2>1, <2>2 DEF RowIsMerge, IsLeast, IsGreatest
<1>5. SettledIsRecorded /\ DisputeKept
  BY DEF SettledIsRecorded, DisputeKept, NoRow
<1> QED
  BY <1>2, <1>3, <1>4, <1>5 DEF Inv

(* Every step keeps it. *)
LEMMA NextInv ==
    ASSUME Inv, [Next]_vars
    PROVE  Inv'
<1>1. TypeOK'
  BY TypeStep DEF Inv
<1>2. Workers'
  BY WorkersStep DEF Inv
<1>3. Executed'
  BY ExecutedStep DEF Inv
<1>4. RowIsMerge'
  BY MergeStep DEF Inv
<1>5. SettledIsRecorded'
  BY SettledStep DEF Inv
<1>6. DisputeKept'
  BY DisputeStep DEF Inv
<1> QED
  BY <1>1, <1>2, <1>3, <1>4, <1>5, <1>6 DEF Inv

(* It is an invariant of the specification. *)
LEMMA Invariance == Spec => []Inv
<1>1. Inv /\ [Next]_vars => Inv'
  BY NextInv
<1> QED
  BY <1>1, InitInv, PTL DEF Spec

(* The auditor keeps its types. *)
THEOREM TypeCorrect == Spec => []TypeOK
<1>1. Inv => TypeOK
  BY DEF Inv
<1> QED
  BY <1>1, Invariance, PTL

(* The row does not depend on the order in which the messages of a         *)
(* transfer arrive, nor on how often each of them does.                    *)
THEOREM MergeIsOrderFree == Spec => []RowIsMerge
<1>1. Inv => RowIsMerge
  BY DEF Inv
<1> QED
  BY <1>1, Invariance, PTL

(* No message is acknowledged unrecorded, and none is dropped before it    *)
(* has been delivered MaxDeliveryAttempts times, unless it is poison.      *)
THEOREM NothingAckedUnrecorded == Spec => []SettledIsRecorded
<1>1. Inv => SettledIsRecorded
  BY DEF Inv
<1> QED
  BY <1>1, Invariance, PTL

(* A refused PATCH is a possible dispute until it is resolved. *)
THEOREM DisputesAreKept == Spec => []DisputeKept
<1>1. Inv => DisputeKept
  BY DEF Inv
<1> QED
  BY <1>1, Invariance, PTL

(* The row shows the payer waiting only when the stage before is answered  *)
(* and the next has not begun: the merge decides it.                       *)
LEMMA MergeTellsWaiting ==
    ASSUME TypeOK, Executed, RowIsMerge
    PROVE  WaitingIsTrue
<1> USE ConstantsAssumption, NullIsNoTime
<1>1. \A e \in applied : e \in Event /\ (action[e] \in {"request", "response", "error"} => e \in Upserted)
  BY DEF TypeOK, Executed, Upserted, Resolves
<1>2. ~row.error => \A e \in applied : action[e] # "error"
  BY <1>1 DEF RowIsMerge
<1>3. ASSUME NEW p \in {"parties", "quotes", "transfers"},
             row.requestedAt[<<p, "any">>] = None
      PROVE  \A e \in applied : ~(phase[e] = p /\ action[e] = "request")
  <2>1. <<p, "any">> \in Column
    BY DEF Column
  <2>2. {occurredAt[e] : e \in Requests(<<p, "any">>)} \subseteq Nat
    BY <1>1 DEF Requests, Upserted
  <2>3. {occurredAt[e] : e \in Requests(<<p, "any">>)} = {}
    BY <1>3, <2>1, <2>2 DEF RowIsMerge, IsLeast
  <2>4. ASSUME NEW e \in Requests(<<p, "any">>)
        PROVE  FALSE
    <3>1. occurredAt[e] \in {occurredAt[x] : x \in Requests(<<p, "any">>)}
      OBVIOUS
    <3> QED
      BY <2>3, <3>1
  <2> QED
    BY <1>1, <2>4 DEF Requests, Stamps
<1>4. ASSUME NEW p \in {"parties", "quotes", "transfers"},
             row.respondedAt[<<p, "any">>] # None, ~row.error
      PROVE  Answered(p)
  <2>1. <<p, "any">> \in Column
    BY DEF Column
  <2>2. Responses(<<p, "any">>) # {}
    <3>1. IsGreatest(row.respondedAt[<<p, "any">>], {occurredAt[e] : e \in Responses(<<p, "any">>)})
      BY <2>1 DEF RowIsMerge
    <3>2. {occurredAt[e] : e \in Responses(<<p, "any">>)} # {}
      BY <1>4, <3>1 DEF IsGreatest
    <3> QED
      BY <3>2
  <2>3. PICK e \in Responses(<<p, "any">>) : TRUE
    BY <2>2
  <2>4. e \in applied /\ e \in Event /\ phase[e] = p
        /\ action[e] \notin {"request", "resolved", "unsupported"}
    BY <1>1, <2>3 DEF Responses, Stamps, Upserted, Upserts
  <2>5. action[e] = "response"
    BY <1>2, <1>4, <2>4
  <2> QED
    BY <2>4, <2>5 DEF Answered
<1>5. ASSUME NEW e \in applied, action[e] \in {"response", "error"},
             phase[e] \in {"parties", "quotes", "transfers"}
      PROVE  row.flow # None /\ FlowOf(e) <= row.flow
  <2>1. e \in Staged
    BY <1>1, <1>5 DEF Staged
  <2>2. \A t \in {FlowOf(x) : x \in Staged} : t <= row.flow
    BY <2>1 DEF RowIsMerge, IsGreatest
  <2>3. \A x \in Staged : FlowOf(x) \in Nat
    <3>1. \A x \in Staged : x \in Event /\ phase[x] \in {"parties", "quotes", "transfers"}
      BY <1>1 DEF Staged, Upserted, Upserts
    <3> QED
      BY <3>1 DEF FlowOf
  <2>4. row.flow \in {FlowOf(x) : x \in Staged}
    BY <2>1 DEF RowIsMerge, IsGreatest
  <2> QED
    BY <2>1, <2>2, <2>3, <2>4
<1>6. ASSUME toCurrentState(row) = "WaitingForQuoteAcceptance"
      PROVE  Answered("quotes") /\ \A e \in applied : phase[e] # "transfers" /\ action[e] # "error"
  <2>1. /\ ~row.error /\ row.flow = 2 /\ row.respondedAt[<<"quotes", "any">>] # None
        /\ row.requestedAt[<<"transfers", "any">>] = None
    BY <1>6 DEF toCurrentState
  <2>2. ASSUME NEW e \in applied, phase[e] = "transfers"
        PROVE  FALSE
    <3>1. action[e] \in {"response", "error"}
      BY <1>1, <1>3, <2>1, <2>2 DEF Executed, Upserts, Resolves
    <3>2. FlowOf(e) = 3
      BY <2>2 DEF FlowOf
    <3> QED
      BY <1>5, <2>1, <2>2, <3>1, <3>2
  <2> QED
    BY <1>2, <1>4, <2>1, <2>2
<1>7. ASSUME toCurrentState(row) = "WaitingForPartyAcceptance"
      PROVE  Answered("parties") /\ \A e \in applied : phase[e] # "quotes" /\ action[e] # "error"
  <2>1. /\ ~row.error /\ row.flow = 1 /\ row.respondedAt[<<"parties", "any">>] # None
        /\ row.requestedAt[<<"quotes", "any">>] = None
    BY <1>7 DEF toCurrentState
  <2>2. ASSUME NEW e \in applied, phase[e] = "quotes"
        PROVE  FALSE
    <3>1. action[e] \in {"response", "error"}
      BY <1>1, <1>3, <2>1, <2>2 DEF Executed, Upserts, Resolves
    <3>2. FlowOf(e) = 2
      BY <2>2 DEF FlowOf
    <3> QED
      BY <1>5, <2>1, <2>2, <3>1, <3>2
  <2> QED
    BY <1>2, <1>4, <2>1, <2>2
<1> QED
  BY <1>6, <1>7 DEF WaitingIsTrue

(* The payer is told to accept only what was answered and not yet          *)
(* followed up.                                                            *)
THEOREM WaitingIsReal == Spec => []WaitingIsTrue
<1>1. Inv => WaitingIsTrue
  BY MergeTellsWaiting DEF Inv
<1> QED
  BY <1>1, Invariance, PTL

(* An aborted transfer stays aborted, or is committed after all. *)
THEOREM AbortedIsSticky == Spec => AbortedStays
<1>1. ASSUME Inv, [Next]_vars, toCurrentState(row) = "Aborted"
      PROVE  toCurrentState(row') \in {"Aborted", "Completed"}
  <2>1. row.error
    BY <1>1 DEF toCurrentState
  <2>2. row'.error
    <3>1. CASE UNCHANGED db
      BY <2>1, <3>1 DEF db
    <3>2. ASSUME NEW e \in Event, Merges(e)
          PROVE  row'.error
      BY <1>1, <2>1, <3>2, InputType, UpsertFields DEF Merges, Inv, TypeOK
    <3>3. ASSUME NEW e \in Event, Resolution(e)
          PROVE  row'.error
      BY <1>1, <2>1, <3>3 DEF Resolution, resolveDispute, Inv, TypeOK, Row
    <3> QED
      BY <1>1, <3>1, <3>2, <3>3, DbStep DEF Inv
  <2> QED
    BY <2>2 DEF toCurrentState
<1>2. Inv /\ [Next]_vars =>
        [toCurrentState(row) = "Aborted" => toCurrentState(row') \in {"Aborted", "Completed"}]_vars
  BY <1>1
<1> QED
  BY <1>2, Invariance, PTL DEF Spec, AbortedStays

-----------------------------------------------------------------------------
(* The rollup: hours, days and the allowance for missed ticks. *)

(* Rounding down to a multiple of a unit.                                  *)
LEMMA RoundingDown ==
    ASSUME NEW u \in Nat \ {0}, NEW t \in Nat
    PROVE  /\ t \div u \in Nat
           /\ (t \div u) * u \in Nat
           /\ (t \div u) * u <= t
           /\ t < (t \div u) * u + u
OBVIOUS

(* Two multiples of a unit are a unit apart.                               *)
LEMMA MultiplesApart ==
    ASSUME NEW u \in Nat \ {0}, NEW i \in Nat, NEW j \in Nat, i * u < j * u
    PROVE  i * u + u <= j * u
<1>1. i < j
  <2>1. CASE j <= i
    <3>1. j * u <= i * u
      BY <2>1
    <3> QED
      BY <3>1
  <2> QED
    BY <2>1
<1>2. (i + 1) * u <= j * u
  BY <1>1
<1> QED
  BY <1>2

(* An hour holds its times.                                                *)
LEMMA HourHolds ==
    ASSUME NEW t \in Nat
    PROVE  HourOf(t) \in Nat /\ HourOf(t) <= t /\ t < HourOf(t) + Hour
BY RoundingDown, RollupAssumption DEF HourOf

(* Two hours are an hour apart.                                            *)
LEMMA HoursApart ==
    ASSUME NEW s \in Nat, NEW t \in Nat, HourOf(s) < HourOf(t)
    PROVE  HourOf(s) + Hour <= HourOf(t)
BY RoundingDown, MultiplesApart, RollupAssumption DEF HourOf

(* A day holds its times.                                                  *)
LEMMA DayHolds ==
    ASSUME NEW t \in Nat
    PROVE  DayOf(t) \in Nat /\ DayOf(t) <= t /\ t < DayOf(t) + Day
BY RoundingDown, RollupAssumption DEF DayOf

(* Two days are a day apart.                                               *)
LEMMA DaysApart ==
    ASSUME NEW s \in Nat, NEW t \in Nat, DayOf(s) < DayOf(t)
    PROVE  DayOf(s) + Day <= DayOf(t)
BY RoundingDown, MultiplesApart, RollupAssumption DEF DayOf

(* A later time is not on an earlier day.                                  *)
LEMMA DaysInOrder ==
    ASSUME NEW s \in Nat, NEW t \in Nat, s <= t
    PROVE  DayOf(s) <= DayOf(t)
<1>1. CASE DayOf(t) < DayOf(s)
  <2>1. DayOf(t) + Day <= DayOf(s)
    BY <1>1, DaysApart
  <2>2. t < DayOf(t) + Day /\ DayOf(s) <= s /\ DayOf(s) \in Nat /\ DayOf(t) \in Nat
    BY DayHolds
  <2> QED
    BY <2>1, <2>2, RollupAssumption
<1> QED
  BY <1>1, DayHolds

(* A bucket is an hour of the clock.                                       *)
LEMMA BucketIsHour ==
    ASSUME NEW b \in BucketHour
    PROVE  /\ b \in Nat /\ b \in Instant
           /\ \E s \in Nat : HourOf(s) = b
<1>1. PICK s \in Instant : b = HourOf(s)
  BY DEF BucketHour
<1>2. s \in Nat /\ s <= MaxTime /\ MaxTime \in Nat
  BY <1>1, RollupAssumption DEF Instant
<1> QED
  BY <1>1, <1>2, HourHolds DEF Instant

(* Multiples of an hour are an hour apart, and so is a bucket from the     *)
(* end of a window.                                                        *)
LEMMA IntMultiplesApart ==
    ASSUME NEW u \in Nat \ {0}, NEW i \in Int, NEW j \in Int, i * u < j * u
    PROVE  i * u + u <= j * u
<1>1. i < j
  <2>1. CASE j <= i
    <3>1. j * u <= i * u
      BY <2>1
    <3> QED
      BY <3>1
  <2> QED
    BY <2>1
<1>2. (i + 1) * u <= j * u
  BY <1>1
<1> QED
  BY <1>2

LEMMA HourMultiple ==
    ASSUME NEW b \in BucketHour
    PROVE  \E i \in Nat : b = i * Hour
<1>1. PICK s \in Nat : b = HourOf(s)
  BY BucketIsHour
<1> QED
  BY <1>1, RoundingDown, RollupAssumption DEF HourOf

LEMMA DayInHours == \E m \in Nat : Day = m * Hour
<1>1. Day = (Day \div Hour) * Hour + (Day % Hour) /\ Day \div Hour \in Nat
  BY RollupAssumption
<1>2. PICK m \in Nat : m = Day \div Hour
  BY <1>1
<1>3. Day = m * Hour
  BY <1>1, <1>2, RollupAssumption
<1> QED
  BY <1>3

LEMMA WindowEndsHour ==
    ASSUME NEW b \in BucketHour, NEW t \in Nat, NEW k \in Int
    PROVE  /\ b < HourOf(t) + k * Hour => b + Hour <= HourOf(t) + k * Hour
           /\ b < DayOf(t) + k * Day => b + Hour <= DayOf(t) + k * Day
<1>1. PICK i \in Nat : b = i * Hour
  BY HourMultiple
<1>2. PICK m \in Nat : Day = m * Hour
  BY DayInHours
<1>3. Hour \in Nat \ {0} /\ Day \in Nat \ {0}
  BY RollupAssumption
<1>4. PICK p \in Nat : HourOf(t) = p * Hour
  BY <1>3, RoundingDown DEF HourOf
<1>5. PICK q \in Nat : DayOf(t) = q * Day
  BY <1>3, RoundingDown DEF DayOf
<1>6. HourOf(t) + k * Hour = (p + k) * Hour /\ p + k \in Int
  BY <1>3, <1>4
<1>7. DayOf(t) + k * Day = ((q + k) * m) * Hour /\ (q + k) * m \in Int
  <2>1. DayOf(t) + k * Day = (q + k) * Day
    BY <1>3, <1>5
  <2>2. (q + k) * (m * Hour) = ((q + k) * m) * Hour
    BY <1>3
  <2> QED
    BY <1>2, <2>1, <2>2
<1>8. PICK e \in Int, f \in Int : e = p + k /\ f = (q + k) * m
  BY <1>6, <1>7
<1>9. /\ i * Hour < e * Hour => i * Hour + Hour <= e * Hour
      /\ i * Hour < f * Hour => i * Hour + Hour <= f * Hour
  BY <1>3, IntMultiplesApart
<1> QED
  BY <1>1, <1>6, <1>7, <1>8, <1>9

(* Two hours before the current one.                                       *)
LEMMA WindowStartsHour ==
    ASSUME NEW b \in BucketHour, NEW t \in Nat, b < HourOf(t) + Hour - 3 * Hour
    PROVE  b + Hour <= HourOf(t) + Hour - 3 * Hour
<1>1. b \in Nat /\ Hour \in Nat /\ HourOf(t) \in Nat
  BY BucketIsHour, HourHolds, RollupAssumption
<1>2. PICK k \in Int : k = -2
  OBVIOUS
<1>3. PICK h \in Int : h = k * Hour
  BY <1>1
<1>4. h = (-2) * Hour
  BY <1>2, <1>3
<1>5. b < HourOf(t) + k * Hour
  BY <1>1, <1>3, <1>4
<1>6. b + Hour <= HourOf(t) + k * Hour
  BY <1>5, WindowEndsHour
<1> QED
  BY <1>1, <1>3, <1>4, <1>6

(* A day starts on itself.                                                 *)
LEMMA DayStart ==
    ASSUME NEW t \in Nat
    PROVE  DayOf(DayOf(t)) = DayOf(t)
<1>1. DayOf(t) \in Nat /\ DayOf(t) <= t
  BY DayHolds
<1>2. DayOf(DayOf(t)) \in Nat /\ DayOf(DayOf(t)) <= DayOf(t) /\ DayOf(t) < DayOf(DayOf(t)) + Day
  BY <1>1, DayHolds
<1>3. DayOf(DayOf(t)) < DayOf(t) => DayOf(DayOf(t)) + Day <= DayOf(t)
  BY <1>1, DaysApart
<1> QED
  BY <1>1, <1>2, <1>3, RollupAssumption

(* The days of the backfill before today.                                  *)
LEMMA RetentionIsNumber == (BackfillDays - 1) * Day \in Nat
<1>1. BackfillDays - 1 \in Nat /\ Day \in Nat
  BY RollupAssumption
<1> QED
  BY <1>1

-----------------------------------------------------------------------------
(* The types of the rollup. *)

(* What a well-typed state says of the numbers in it.                      *)
LEMMA TimesAreNumbers ==
    ASSUME RollupTypeOK
    PROVE  /\ now \in Nat /\ now <= MaxTime /\ MaxTime \in Nat
           /\ synced \in Nat /\ refreshed \in Nat
           /\ \A r \in Replica : /\ began[r] \in Nat /\ today[r] \in Nat /\ day[r] \in Nat
                                /\ windowStart[r] \in Int /\ windowEnd[r] \in Int
           /\ Hour \in Nat /\ Day \in Nat /\ MaxDelay \in Nat /\ Start \in Nat
           /\ MaxLag \in Nat /\ MaxRebuild \in Nat /\ MaxGap \in Nat
           /\ Hour > 0 /\ Day > 0
           /\ MaxGap + MaxDelay + MaxRebuild + MaxLag + MaxLag <= Hour + Hour
<1>1. now \in Instant /\ synced \in Instant /\ refreshed \in Instant /\ MaxTime \in Nat
  BY RollupAssumption DEF RollupTypeOK
<1>2. \A r \in Replica : /\ began[r] \in Instant /\ today[r] \in Instant /\ day[r] \in 0 .. BackfillDays
                        /\ windowStart[r] \in Int /\ windowEnd[r] \in Int
  BY DEF RollupTypeOK
<1>3. BackfillDays \in Nat /\ \A i \in Instant : i \in Nat /\ i <= MaxTime
  BY RollupAssumption DEF Instant
<1>4. MaxGap + MaxDelay + MaxRebuild + MaxLag + MaxLag <= Hour + Hour
  BY RollupAssumption DEF Window
<1> QED
  BY <1>1, <1>2, <1>3, <1>4, RollupAssumption

(* A bucket and the numbers it is compared with.                           *)
LEMMA BucketNumbers ==
    ASSUME NEW b \in BucketHour
    PROVE  b \in Nat
BY BucketIsHour

(* The migration leaves a well-typed state.                                *)
LEMMA RollupInitTypeOK ==
    ASSUME RollupInit PROVE RollupTypeOK
<1>1. Start \in Instant /\ 0 \in Instant /\ 0 \in 0 .. BackfillDays /\ 0 \in 0 .. MaxFailures /\ 0 \in Int
  BY RollupAssumption DEF Instant
<1>2. rows \subseteq StoredRow
  BY RollupAssumption DEF RollupInit, StoredRow, Instant
<1> QED
  BY <1>1, <1>2 DEF RollupInit, RollupTypeOK

(* Every step keeps the types: those of the tables,                        *)
Tables ==
    /\ rows \subseteq StoredRow /\ readRows \subseteq StoredRow
    /\ rollup \in [BucketHour -> SUBSET StoredRow] /\ readRollup \in [BucketHour -> SUBSET StoredRow]
    /\ required \in BOOLEAN /\ readRequired \in BOOLEAN
    /\ aggregate \in [Replica -> SUBSET StoredRow]
    /\ now \in Instant /\ synced \in Instant /\ refreshed \in Instant

(* and those of the schedulers.                                            *)
Schedulers ==
    /\ stage \in [Replica -> {"down", "marker", "populated", "backfill", "ticking", "rolling", "closing"}]
    /\ query \in [Replica -> {"none", "aggregate", "replace"}]
    /\ began \in [Replica -> Instant]
    /\ windowStart \in [Replica -> Int] /\ windowEnd \in [Replica -> Int]
    /\ today \in [Replica -> Instant] /\ day \in [Replica -> 0 .. BackfillDays]
    /\ lock \in Replica \cup {NoReplica}
    /\ failures \in 0 .. MaxFailures

LEMMA TypeParts == RollupTypeOK <=> Tables /\ Schedulers
BY DEF RollupTypeOK, Tables, Schedulers

LEMMA TablesStep ==
    ASSUME RollupTypeOK, [RollupNext]_rollupVars
    PROVE  Tables'
<1>0. Tables /\ now \in Nat /\ MaxTime \in Nat
  BY TypeParts, TimesAreNumbers
<1>1. CASE TimePasses
  BY <1>0, <1>1 DEF TimePasses, Tables, Instant, primary, replica, rebuild
<1>2. ASSUME NEW t \in Started, MergeRow(t) PROVE Tables'
  <2>1. t \in Instant
    BY RollupAssumption DEF Instant
  <2>2. rows' \subseteq StoredRow
    BY <1>0, <1>2, <2>1 DEF MergeRow, Tables, StoredRow
  <2> QED
    BY <1>0, <1>2, <2>2 DEF MergeRow, Tables, replica, rebuild
<1>3. CASE Replicate
  BY <1>0, <1>3 DEF Replicate, Tables, primary, rebuild
<1>4. ASSUME NEW r \in Replica, aggregateWindow(r) PROVE Tables'
  BY <1>0, <1>4 DEF aggregateWindow, Tables, primary, replica
<1>5. ASSUME NEW r \in Replica, Rolled(r) \/ BackfilledDay(r) PROVE Tables'
  <2>1. (rollup \in [BucketHour -> SUBSET StoredRow])'
    BY <1>0, <1>5 DEF Rolled, BackfilledDay, replaceWindow, InBucket, Tables
  <2>2. (aggregate \in [Replica -> SUBSET StoredRow])'
    BY <1>0, <1>5 DEF Rolled, BackfilledDay, EndRebuild, Tables
  <2>3. refreshed' \in Instant
    BY <1>0, <1>5 DEF Rolled, BackfilledDay, Tables
  <2>4. UNCHANGED <<now, rows, required, replica>>
    BY <1>5 DEF Rolled, BackfilledDay
  <2> QED
    BY <1>0, <2>1, <2>2, <2>3, <2>4 DEF Tables, replica
<1>6. ASSUME NEW r \in Replica, markBackfillComplete(r) PROVE Tables'
  BY <1>0, <1>6 DEF markBackfillComplete, Tables, replica, rebuild
<1>7. ASSUME NEW r \in Replica, TickFails(r) \/ BackfillFails(r) \/ Stop(r) PROVE Tables'
  <2>1. (aggregate \in [Replica -> SUBSET StoredRow])'
    BY <1>0, <1>7 DEF TickFails, BackfillFails, Stop, EndRebuild, Tables
  <2>2. UNCHANGED <<now, primary, replica, refreshed>>
    BY <1>7 DEF TickFails, BackfillFails, Stop
  <2> QED
    BY <1>0, <2>1, <2>2 DEF Tables, primary, replica
<1>8. ASSUME UNCHANGED <<now, primary, replica, refreshed, aggregate>> PROVE Tables'
  BY <1>0, <1>8 DEF Tables, primary, replica
<1>9. ASSUME NEW r \in Replica,
             \/ Tick(r) \/ Roll(r) \/ release(r) \/ Bootstrap(r) \/ isBackfillRequired(r)
             \/ getLastUpdatedAt(r) \/ BackfillDay(r)
      PROVE  Tables'
  BY <1>8, <1>9 DEF Tick, Roll, release, Bootstrap, isBackfillRequired, getLastUpdatedAt, BackfillDay,
                    reaggregateWindow, rebuild
<1>10. CASE LockExpires \/ UNCHANGED rollupVars
  BY <1>8, <1>10 DEF LockExpires, rollupVars, rebuild
<1> QED
  BY <1>1, <1>2, <1>3, <1>4, <1>5, <1>6, <1>7, <1>9, <1>10 DEF RollupNext, Run

LEMMA SchedulersStep ==
    ASSUME RollupTypeOK, [RollupNext]_rollupVars
    PROVE  Schedulers'
<1>0. /\ Schedulers /\ now \in Instant /\ DayOf(now) \in Instant /\ 0 \in Instant
      /\ 0 \in 0 .. BackfillDays /\ BackfillDays \in 0 .. BackfillDays
  <2>1. now \in Nat /\ now <= MaxTime /\ MaxTime \in Nat
    BY TimesAreNumbers
  <2>2. DayOf(now) \in Nat /\ DayOf(now) <= now
    BY <2>1, DayHolds
  <2> QED
    BY <2>1, <2>2, TypeParts, RollupAssumption DEF Instant
<1>1. CASE TimePasses \/ Replicate
  BY <1>0, <1>1 DEF TimePasses, Replicate, Schedulers, rebuild, backfill
<1>2. ASSUME NEW t \in Started, MergeRow(t) PROVE Schedulers'
  BY <1>0, <1>2 DEF MergeRow, Schedulers, rebuild, backfill
<1>3. ASSUME NEW r \in Replica, Tick(r) PROVE Schedulers'
  BY <1>0, <1>3 DEF Tick, acquire, MoveTo, Schedulers, rebuild, backfill
<1>4. ASSUME NEW r \in Replica, Roll(r) PROVE Schedulers'
  <2>1. computeWindow.start \in Int /\ computeWindow.end \in Int
    <3>1. HourOf(now) \in Nat /\ Hour \in Nat
      BY TimesAreNumbers, HourHolds
    <3> QED
      BY <3>1 DEF computeWindow, Window
  <2>2. PICK s \in Int, e \in Int : reaggregateWindow(r, s, e)
    BY <1>4, <2>1 DEF Roll
  <2> QED
    BY <1>0, <1>4, <2>2 DEF Roll, reaggregateWindow, Schedulers, backfill
<1>5. ASSUME NEW r \in Replica, aggregateWindow(r) PROVE Schedulers'
  BY <1>0, <1>5 DEF aggregateWindow, Schedulers, backfill
<1>6. ASSUME NEW r \in Replica, Rolled(r) PROVE Schedulers'
  BY <1>0, <1>6 DEF Rolled, EndRebuild, MoveTo, Schedulers, backfill
<1>7. ASSUME NEW r \in Replica, BackfilledDay(r) PROVE Schedulers'
  <2>1. day[r] - 1 \in 0 .. BackfillDays
    <3>1. day[r] \in 0 .. BackfillDays /\ day[r] > 0
      BY <1>0, <1>7 DEF BackfilledDay, Schedulers
    <3> QED
      BY <3>1, RollupAssumption
  <2>2. day' \in [Replica -> 0 .. BackfillDays]
    BY <1>0, <1>7, <2>1 DEF BackfilledDay, Schedulers
  <2> QED
    BY <1>0, <1>7, <2>2 DEF BackfilledDay, EndRebuild, Schedulers
<1>8. ASSUME NEW r \in Replica, BackfillDay(r) PROVE Schedulers'
  <2>1. PICK k : k = (day[r] - 1) * Day /\ k \in Int
    <3>1. day[r] \in Nat /\ Day \in Nat
      BY TimesAreNumbers
    <3> QED
      BY <3>1
  <2>2. today[r] - k \in Int /\ today[r] - k + Day \in Int
    BY <2>1, TimesAreNumbers
  <2>3. PICK s \in Int, e \in Int : reaggregateWindow(r, s, e)
    BY <1>8, <2>1, <2>2 DEF BackfillDay
  <2> QED
    BY <1>0, <1>8, <2>3 DEF BackfillDay, reaggregateWindow, Schedulers, backfill
<1>9. ASSUME NEW r \in Replica, isBackfillRequired(r) \/ getLastUpdatedAt(r) PROVE Schedulers'
  BY <1>0, <1>9 DEF isBackfillRequired, getLastUpdatedAt, StartBackfill, MoveTo, Schedulers, rebuild, backfill
<1>10. ASSUME NEW r \in Replica, release(r) \/ Bootstrap(r) \/ markBackfillComplete(r) PROVE Schedulers'
  BY <1>0, <1>10 DEF release, Bootstrap, markBackfillComplete, EndBackfill, acquire, MoveTo, Schedulers,
                     rebuild, backfill
<1>11. ASSUME NEW r \in Replica, TickFails(r) \/ BackfillFails(r) \/ Stop(r) PROVE Schedulers'
  <2>1. failures' \in 0 .. MaxFailures
    BY <1>0, <1>11, RollupAssumption DEF TickFails, BackfillFails, Stop, Failure, Schedulers
  <2> QED
    BY <1>0, <1>11, <2>1 DEF TickFails, BackfillFails, Stop, EndRebuild, EndBackfill, MoveTo, Schedulers, backfill
<1>12. CASE LockExpires
  <2>1. failures' \in 0 .. MaxFailures
    BY <1>0, <1>12, RollupAssumption DEF LockExpires, Failure, Schedulers
  <2> QED
    BY <1>0, <1>12, <2>1 DEF LockExpires, Schedulers, rebuild, backfill
<1>13. CASE UNCHANGED rollupVars
  BY <1>0, <1>13 DEF rollupVars, Schedulers, rebuild, backfill
<1> QED
  BY <1>1, <1>2, <1>3, <1>4, <1>5, <1>6, <1>7, <1>8, <1>9, <1>10, <1>11, <1>12, <1>13 DEF RollupNext, Run

LEMMA RollupNextTypeOK ==
    ASSUME RollupTypeOK, [RollupNext]_rollupVars
    PROVE  RollupTypeOK'
<1>1. RollupTypeOK' <=> Tables' /\ Schedulers'
  BY DEF RollupTypeOK, Tables, Schedulers
<1> QED
  BY <1>1, TablesStep, SchedulersStep

-----------------------------------------------------------------------------
(* The parts of the invariant, step by step. *)

(* What a step may do to the tables: a message is merged, the replica is   *)
(* synced, time passes, or none of these.                                  *)
Still == UNCHANGED <<now, rows, replica>>

LEMMA StepKinds ==
    ASSUME [RollupNext]_rollupVars
    PROVE  TimePasses \/ Replicate \/ (\E t \in Started : MergeRow(t)) \/ Still
<1>1. ASSUME NEW r \in Replica, Run(r) \/ Stop(r) PROVE Still
  BY <1>1 DEF Run, Stop, Still, Tick, Roll, aggregateWindow, Rolled, TickFails, release, Bootstrap,
              isBackfillRequired, getLastUpdatedAt, BackfillDay, BackfilledDay, markBackfillComplete,
              BackfillFails, primary, replica
<1>2. LockExpires => Still
  BY DEF LockExpires, Still, primary, replica
<1>3. UNCHANGED rollupVars => Still
  BY DEF rollupVars, Still, primary, replica
<1> QED
  BY <1>1, <1>2, <1>3 DEF RollupNext

(* No message changes a bucket that is final.                              *)
LEMMA FinalKept ==
    ASSUME RollupTypeOK, [RollupNext]_rollupVars, NEW b \in BucketHour, Final(b, now)
    PROVE  InBucket(rows, b)' = InBucket(rows, b)
<1>1. CASE UNCHANGED rows
  BY <1>1 DEF InBucket
<1>2. ASSUME NEW t \in Started, MergeRow(t)
      PROVE  InBucket(rows, b)' = InBucket(rows, b)
  <2>1. b \in Nat /\ t \in Nat /\ now \in Nat /\ Hour \in Nat /\ MaxDelay \in Nat /\ Started \subseteq Nat
    BY BucketNumbers, TimesAreNumbers, RollupAssumption
  <2>2. b + Hour <= t
    BY <1>2, <2>1 DEF MergeRow, Final
  <2>3. PICK u \in Started : t <= u /\ \A x : x[1] \notin {t, u} => (x \in rows' <=> x \in rows)
    <3>1. PICK u \in Started, s \in {"open", "settled"} :
            /\ t <= u
            /\ rows' = (rows \ {x \in rows : x[1] \in {t, u}})
                  \cup {<<t, IF \E x \in {x \in rows : x[1] \in {t, u}} : x[2] = "settled"
                            THEN "settled" ELSE s>>}
      BY <1>2 DEF MergeRow
    <3> QED
      BY <3>1
  <2>4. HourOf(t) # b /\ HourOf(u) # b
    BY <2>1, <2>2, <2>3, HourHolds
  <2> QED
    BY <2>3, <2>4 DEF InBucket
<1> QED
  BY <1>1, <1>2, StepKinds DEF TimePasses, Replicate, Still, primary

(* The replica. *)
LEMMA ReplicaStep ==
    ASSUME RollupTypeOK, ReplicaInv, [RollupNext]_rollupVars
    PROVE  ReplicaInv'
<1>0. now \in Nat /\ synced \in Nat /\ MaxLag \in Nat
  BY TimesAreNumbers
<1>1. CASE TimePasses
  BY <1>0, <1>1 DEF TimePasses, ReplicaInv, primary, replica, InBucket, Final
<1>2. CASE Replicate
  BY <1>0, <1>2 DEF Replicate, ReplicaInv, primary, InBucket
<1>3. CASE \E t \in Started : MergeRow(t)
  <2>1. UNCHANGED <<now, synced, readRows>>
    BY <1>3 DEF MergeRow, replica
  <2>2. ASSUME NEW b \in BucketHour, Final(b, synced)
        PROVE  InBucket(readRows, b) = InBucket(rows, b)'
    <3>1. Final(b, now)
      <4>1. b \in Nat /\ Hour \in Nat /\ MaxDelay \in Nat
        BY BucketNumbers, TimesAreNumbers
      <4> QED
        BY <1>0, <2>2, <4>1 DEF Final, ReplicaInv
    <3> QED
      BY <2>2, <3>1, FinalKept DEF ReplicaInv
  <2> QED
    BY <2>1, <2>2 DEF ReplicaInv, InBucket
<1>4. CASE Still
  BY <1>4 DEF Still, replica, ReplicaInv, InBucket
<1> QED
  BY <1>1, <1>2, <1>3, <1>4, StepKinds

(* One rebuild. *)
RebuildOf(r) ==
    /\ began[r] <= now /\ now <= began[r] + MaxRebuild
    /\ stage[r] = "rolling" => /\ windowStart[r] = HourOf(began[r]) + Hour - Window
                               /\ windowEnd[r] = HourOf(began[r]) + Hour
    /\ stage[r] = "backfill" => /\ day[r] > 0
                                /\ windowStart[r] = today[r] - (day[r] - 1) * Day
                                /\ windowEnd[r] = windowStart[r] + Day
    /\ stage[r] \in {"rolling", "backfill"}
    /\ query[r] = "replace" =>
        \A b \in BucketHour :
            windowStart[r] <= b /\ b < windowEnd[r] /\ Final(b, began[r] - MaxLag)
            => InBucket(aggregate[r], b) = InBucket(rows, b)

(* What is final before a rebuild began is final now.                      *)
LEMMA FinalThen ==
    ASSUME RollupTypeOK, NEW r \in Replica, began[r] <= now, NEW b \in BucketHour, Final(b, began[r] - MaxLag)
    PROVE  Final(b, now)
<1>1. b \in Nat /\ Hour \in Nat /\ MaxDelay \in Nat /\ MaxLag \in Nat /\ now \in Nat /\ began[r] \in Nat
  BY BucketNumbers, TimesAreNumbers
<1> QED
  BY <1>1 DEF Final

(* A step that leaves the rebuild of r alone keeps what is said of it.     *)
LEMMA RebuildKept ==
    ASSUME RollupTypeOK, [RollupNext]_rollupVars, NEW r \in Replica, RebuildOf(r),
           began'[r] = began[r], windowStart'[r] = windowStart[r], windowEnd'[r] = windowEnd[r],
           query'[r] = query[r], aggregate'[r] = aggregate[r], stage'[r] = stage[r],
           today'[r] = today[r], day'[r] = day[r], began[r] <= now', now' <= began[r] + MaxRebuild
    PROVE  RebuildOf(r)'
<1>1. ASSUME NEW b \in BucketHour, Final(b, began[r] - MaxLag)
      PROVE  InBucket(rows, b)' = InBucket(rows, b)
  BY <1>1, FinalThen, FinalKept DEF RebuildOf
<1> QED
  BY <1>1 DEF RebuildOf, InBucket, Final

(* The read replica answers with the buckets that are final.               *)
LEMMA AggregateIsFinal ==
    ASSUME RollupTypeOK, ReplicaInv, NEW r \in Replica, RebuildOf(r), aggregateWindow(r),
           stage[r] = "backfill" => BackfillUnderWay(r),
           NEW b \in BucketHour, windowStart[r] <= b, b < windowEnd[r], Final(b, began[r] - MaxLag)
    PROVE  InBucket(aggregate'[r], b) = InBucket(rows, b)
<1>0. /\ b \in Nat /\ Hour \in Nat /\ MaxDelay \in Nat /\ MaxLag \in Nat /\ Day \in Nat
      /\ now \in Nat /\ synced \in Nat /\ began[r] \in Nat /\ today[r] \in Nat /\ day[r] \in Nat
      /\ windowStart[r] \in Int /\ windowEnd[r] \in Int
  BY BucketNumbers, TimesAreNumbers
<1>1. Final(b, synced)
  BY <1>0 DEF RebuildOf, ReplicaInv, Final
<1>2. InBucket(readRows, b) = InBucket(rows, b)
  BY <1>1 DEF ReplicaInv
<1>3. b + Hour <= windowEnd[r]
  <2>1. CASE stage[r] = "rolling"
    <3>1. windowEnd[r] = HourOf(began[r]) + 1 * Hour
      BY <1>0, <2>1 DEF RebuildOf
    <3> QED
      BY <1>0, <3>1, WindowEndsHour
  <2>2. CASE stage[r] = "backfill"
    <3>1. PICK k \in Int : k = 2 - day[r]
      BY <1>0
    <3>2. today[r] - (day[r] - 1) * Day + Day = today[r] + k * Day
      BY <1>0, <3>1
    <3>3. windowEnd[r] = DayOf(today[r]) + k * Day
      BY <2>2, <3>2 DEF RebuildOf, BackfillUnderWay
    <3> QED
      BY <1>0, <3>3, WindowEndsHour
  <2> QED
    BY <2>1, <2>2 DEF RebuildOf
<1>4. aggregate'[r] = {x \in readRows : windowStart[r] <= x[1] /\ x[1] < windowEnd[r]}
  BY DEF aggregateWindow, RollupTypeOK
<1>5. ASSUME NEW x \in readRows, HourOf(x[1]) = b
      PROVE  windowStart[r] <= x[1] /\ x[1] < windowEnd[r]
  <2>1. x[1] \in Nat
    BY RollupAssumption DEF RollupTypeOK, StoredRow, Instant
  <2>2. b <= x[1] /\ x[1] < b + Hour
    BY <1>5, <2>1, HourHolds
  <2> QED
    BY <1>0, <1>3, <2>1, <2>2
<1>6. InBucket(aggregate'[r], b) = InBucket(readRows, b)
  BY <1>4, <1>5 DEF InBucket
<1> QED
  BY <1>2, <1>6

(* What a step of one replica leaves of another.                           *)
Untouched(q) ==
    /\ began'[q] = began[q] /\ windowStart'[q] = windowStart[q] /\ windowEnd'[q] = windowEnd[q]
    /\ query'[q] = query[q] /\ aggregate'[q] = aggregate[q] /\ stage'[q] = stage[q]
    /\ today'[q] = today[q] /\ day'[q] = day[q]

LEMMA OthersUntouched ==
    ASSUME RollupTypeOK, NEW r \in Replica, Run(r) \/ Stop(r), NEW q \in Replica, q # r
    PROVE  Untouched(q)
<1>1. CASE Tick(r) \/ Bootstrap(r) \/ release(r)
  BY <1>1 DEF Tick, Bootstrap, release, MoveTo, Untouched, RollupTypeOK, rebuild, backfill
<1>2. CASE Roll(r) \/ BackfillDay(r) \/ aggregateWindow(r)
  BY <1>2 DEF Roll, BackfillDay, aggregateWindow, reaggregateWindow, Untouched, RollupTypeOK, backfill
<1>3. CASE Rolled(r) \/ BackfilledDay(r) \/ TickFails(r) \/ BackfillFails(r) \/ Stop(r)
  BY <1>3 DEF Rolled, BackfilledDay, TickFails, BackfillFails, Stop, EndRebuild, EndBackfill, MoveTo,
              Untouched, RollupTypeOK, backfill
<1>4. CASE isBackfillRequired(r) \/ getLastUpdatedAt(r) \/ markBackfillComplete(r)
  BY <1>4 DEF isBackfillRequired, getLastUpdatedAt, markBackfillComplete, StartBackfill, EndBackfill, MoveTo,
              Untouched, RollupTypeOK, rebuild, backfill
<1> QED
  BY <1>1, <1>2, <1>3, <1>4 DEF Run

LEMMA RebuildStep ==
    ASSUME RollupTypeOK, ReplicaInv, RebuildInv, PrimaryInv, [RollupNext]_rollupVars
    PROVE  RebuildInv'
<1>0. /\ RebuildInv <=> \A q \in Replica : query[q] # "none" => RebuildOf(q)
      /\ RebuildInv' <=> \A q \in Replica : query'[q] # "none" => RebuildOf(q)'
  BY DEF RebuildInv, RebuildOf
<1>n. now \in Nat /\ MaxRebuild \in Nat /\ \A q \in Replica : began[q] \in Nat /\ day[q] \in Nat
  BY TimesAreNumbers
<1>1. CASE TimePasses
  <2>1. ASSUME NEW q \in Replica, query[q] # "none" PROVE RebuildOf(q)'
    <3>1. began[q] <= now' /\ now' <= began[q] + MaxRebuild
      BY <1>0, <1>1, <1>n, <2>1 DEF TimePasses, RebuildOf
    <3> QED
      BY <1>0, <1>1, <2>1, <3>1, RebuildKept DEF TimePasses, rebuild, backfill
  <2> QED
    BY <1>0, <1>1, <2>1 DEF TimePasses, rebuild
<1>2. CASE \/ Replicate \/ LockExpires \/ UNCHANGED rollupVars \/ \E t \in Started : MergeRow(t)
  <2>1. UNCHANGED <<now, stage, rebuild, backfill>>
    BY <1>2 DEF Replicate, LockExpires, rollupVars, MergeRow
  <2>2. ASSUME NEW q \in Replica, query[q] # "none" PROVE RebuildOf(q)'
    <3>1. RebuildOf(q) /\ began[q] <= now' /\ now' <= began[q] + MaxRebuild
      BY <1>0, <2>1, <2>2 DEF RebuildOf
    <3> QED
      BY <2>1, <3>1, RebuildKept DEF rebuild, backfill
  <2> QED
    BY <1>0, <2>1, <2>2 DEF rebuild
<1>3. ASSUME NEW r \in Replica, Run(r) \/ Stop(r), query'[r] # "none" => RebuildOf(r)' PROVE RebuildInv'
  <2>1. ASSUME NEW q \in Replica, q # r, query'[q] # "none" PROVE RebuildOf(q)'
    <3>1. Untouched(q)
      BY <1>3, <2>1, OthersUntouched
    <3>2. now' = now
      BY <1>3 DEF Run, Stop, Tick, Roll, aggregateWindow, Rolled, TickFails, release, Bootstrap,
              isBackfillRequired, getLastUpdatedAt, BackfillDay, BackfilledDay, markBackfillComplete,
              BackfillFails
    <3>3. RebuildOf(q) /\ began[q] <= now' /\ now' <= began[q] + MaxRebuild
      BY <1>0, <2>1, <3>1, <3>2 DEF RebuildOf, Untouched
    <3> QED
      BY <3>1, <3>3, RebuildKept DEF Untouched
  <2> QED
    BY <1>0, <1>3, <2>1
<1>4. ASSUME NEW r \in Replica, Run(r) \/ Stop(r) PROVE query'[r] # "none" => RebuildOf(r)'
  <2>1. CASE Rolled(r) \/ BackfilledDay(r) \/ TickFails(r) \/ BackfillFails(r) \/ Stop(r)
    BY <2>1 DEF Rolled, BackfilledDay, TickFails, BackfillFails, Stop, EndRebuild, RollupTypeOK
  <2>2. CASE \/ Tick(r) \/ release(r) \/ Bootstrap(r) \/ isBackfillRequired(r) \/ getLastUpdatedAt(r)
             \/ markBackfillComplete(r)
    <3>1. query'[r] = query[r]
      BY <2>2 DEF Tick, release, Bootstrap, isBackfillRequired, getLastUpdatedAt, markBackfillComplete, rebuild
    <3>2. stage[r] \notin {"rolling", "backfill"} \/ query[r] = "none"
      BY <2>2 DEF Tick, release, Bootstrap, isBackfillRequired, getLastUpdatedAt, markBackfillComplete
    <3> QED
      BY <1>0, <3>1, <3>2 DEF RebuildOf
  <2>3. CASE Roll(r)
    <3>1. /\ query'[r] = "aggregate" /\ began'[r] = now /\ now' = now /\ stage'[r] = "rolling"
          /\ windowStart'[r] = computeWindow.start /\ windowEnd'[r] = computeWindow.end
      BY <2>3 DEF Roll, reaggregateWindow, RollupTypeOK
    <3> QED
      BY <1>n, <3>1 DEF RebuildOf, computeWindow
  <2>4. CASE BackfillDay(r)
    <3>1. /\ query'[r] = "aggregate" /\ began'[r] = now /\ now' = now /\ stage'[r] = "backfill"
          /\ day'[r] = day[r] /\ day[r] > 0 /\ today'[r] = today[r]
          /\ windowStart'[r] = today[r] - (day[r] - 1) * Day
          /\ windowEnd'[r] = today[r] - (day[r] - 1) * Day + Day
      BY <2>4 DEF BackfillDay, reaggregateWindow, RollupTypeOK, backfill
    <3> QED
      BY <1>n, <3>1 DEF RebuildOf
  <2>5. CASE aggregateWindow(r)
    <3>1. RebuildOf(r) /\ (stage[r] = "backfill" => BackfillUnderWay(r))
      BY <1>0, <2>5 DEF aggregateWindow, PrimaryInv
    <3>2. UNCHANGED <<now, rows, stage, began, windowStart, windowEnd, today, day>>
      BY <2>5 DEF aggregateWindow, primary, backfill
    <3>3. \A b \in BucketHour :
            windowStart[r] <= b /\ b < windowEnd[r] /\ Final(b, began[r] - MaxLag)
            => InBucket(aggregate'[r], b) = InBucket(rows, b)
      BY <2>5, <3>1, AggregateIsFinal
    <3> QED
      BY <3>1, <3>2, <3>3 DEF RebuildOf, InBucket, Final
  <2> QED
    BY <1>4, <2>1, <2>2, <2>3, <2>4, <2>5 DEF Run
<1> QED
  BY <1>1, <1>2, <1>3, <1>4 DEF RollupNext

(* The rebuilt buckets. *)

(* A rebuild makes current what is settled in its window, and keeps what   *)
(* is settled and current.                                                 *)
LEMMA ReplaceKeeps ==
    ASSUME RollupTypeOK, RebuildInv, NEW r \in Replica, query[r] = "replace", replaceWindow(r), UNCHANGED rows,
           NEW b \in BucketHour, Settled(b, now)
    PROVE  /\ windowStart[r] <= b /\ b < windowEnd[r] => Current(b)'
           /\ Current(b) => Current(b)'
<1>0. /\ b \in Nat /\ Hour \in Nat /\ MaxDelay \in Nat /\ MaxLag \in Nat /\ MaxRebuild \in Nat
      /\ now \in Nat /\ began[r] \in Nat
  BY BucketNumbers, TimesAreNumbers
<1>1. now <= began[r] + MaxRebuild
  BY DEF RebuildInv
<1>2. Final(b, began[r] - MaxLag)
  BY <1>0, <1>1 DEF Settled, Final
<1>3. windowStart[r] <= b /\ b < windowEnd[r] => InBucket(aggregate[r], b) = InBucket(rows, b)
  BY <1>2 DEF RebuildInv
<1>4. rollup'[b] = IF windowStart[r] <= b /\ b < windowEnd[r] THEN InBucket(aggregate[r], b) ELSE rollup[b]
  BY DEF replaceWindow
<1>5. InBucket(rows, b)' = InBucket(rows, b)
  BY DEF InBucket
<1> QED
  BY <1>3, <1>4, <1>5 DEF Current

(* A tick catches up: what is settled by now was settled at the last tick  *)
(* or is in the window.                                                    *)
LEMMA RolledCatchesUp ==
    ASSUME RollupTypeOK, RebuildInv, PrimaryInv, NEW r \in Replica, Rolled(r),
           NEW b \in BucketHour, Settled(b, now), Settled(b, refreshed) => Current(b)
    PROVE  Current(b)'
<1>0. /\ b \in Nat /\ Hour \in Nat /\ MaxDelay \in Nat /\ MaxLag \in Nat /\ MaxRebuild \in Nat /\ MaxGap \in Nat
      /\ now \in Nat /\ began[r] \in Nat /\ refreshed \in Nat
      /\ MaxGap + MaxDelay + MaxRebuild + MaxLag + MaxLag <= Hour + Hour
  BY BucketNumbers, TimesAreNumbers
<1>1. /\ began[r] <= now /\ now <= began[r] + MaxRebuild
      /\ windowStart[r] = HourOf(began[r]) + Hour - 3 * Hour /\ windowEnd[r] = HourOf(began[r]) + Hour
  BY DEF RebuildInv, Rolled, Window
<1>2. HourOf(began[r]) \in Nat /\ HourOf(began[r]) <= began[r] /\ began[r] < HourOf(began[r]) + Hour
  BY <1>0, HourHolds
<1>3. b < windowEnd[r]
  BY <1>0, <1>1, <1>2 DEF Settled, Final
<1>4. CASE windowStart[r] <= b
  BY <1>3, <1>4, ReplaceKeeps DEF Rolled
<1>5. CASE ~(windowStart[r] <= b)
  <2>1. b < HourOf(began[r]) + Hour - 3 * Hour
    BY <1>0, <1>1, <1>2, <1>5
  <2>2. b + Hour <= HourOf(began[r]) + Hour - 3 * Hour
    BY <1>0, <2>1, WindowStartsHour
  <2>3. b + Hour + Hour + Hour <= now
    BY <1>0, <1>1, <1>2, <2>2
  <2>4. now <= refreshed + MaxGap
    BY DEF PrimaryInv
  <2>5. Settled(b, refreshed)
    BY <1>0, <2>3, <2>4 DEF Settled, Final
  <2> QED
    BY <2>5, ReplaceKeeps DEF Rolled
<1> QED
  BY <1>4, <1>5

(* What is settled at the last tick is settled and final now.              *)
LEMMA SettledThen ==
    ASSUME RollupTypeOK, PrimaryInv, NEW b \in BucketHour, Settled(b, refreshed)
    PROVE  Settled(b, now) /\ Final(b, now)
<1>1. /\ b \in Nat /\ Hour \in Nat /\ MaxDelay \in Nat /\ MaxLag \in Nat /\ MaxRebuild \in Nat
      /\ now \in Nat /\ refreshed \in Nat
  BY BucketNumbers, TimesAreNumbers
<1> QED
  BY <1>1 DEF Settled, Final, PrimaryInv

(* A step that keeps the settled buckets.                                  *)
Keeps ==
    \A b \in BucketHour :
        Settled(b, refreshed') /\ (Settled(b, refreshed) => Current(b)) => Current(b)'

LEMMA StepKeeps ==
    ASSUME RollupTypeOK, RebuildInv, PrimaryInv, [RollupNext]_rollupVars
    PROVE  Keeps
<1>1. ASSUME UNCHANGED <<rollup, refreshed>> PROVE Keeps
  BY <1>1, SettledThen, FinalKept DEF Keeps, Current
<1>2. ASSUME NEW r \in Replica, Rolled(r) PROVE Keeps
  <2>1. refreshed' = now
    BY <1>2 DEF Rolled
  <2> QED
    BY <1>2, <2>1, RolledCatchesUp DEF Keeps
<1>3. ASSUME NEW r \in Replica, BackfilledDay(r) PROVE Keeps
  BY <1>3, SettledThen, ReplaceKeeps DEF BackfilledDay, Keeps
<1>4. TimePasses \/ Replicate \/ (\E t \in Started : MergeRow(t)) \/ LockExpires => UNCHANGED <<rollup, refreshed>>
  BY DEF TimePasses, Replicate, MergeRow, LockExpires, primary
<1>5. ASSUME NEW r \in Replica, Run(r) \/ Stop(r)
      PROVE  Rolled(r) \/ BackfilledDay(r) \/ UNCHANGED <<rollup, refreshed>>
  BY <1>5 DEF Run, Stop, Tick, Roll, aggregateWindow, TickFails, release, Bootstrap, isBackfillRequired,
              getLastUpdatedAt, BackfillDay, markBackfillComplete, BackfillFails, primary
<1>6. UNCHANGED rollupVars => UNCHANGED <<rollup, refreshed>>
  BY DEF rollupVars, primary
<1> QED
  BY <1>1, <1>2, <1>3, <1>4, <1>5, <1>6 DEF RollupNext

(* The pace of the ticks.                                                  *)
LEMMA PaceStep ==
    ASSUME RollupTypeOK, PrimaryInv, [RollupNext]_rollupVars
    PROVE  (Start <= refreshed /\ refreshed <= now /\ now <= refreshed + MaxGap)' /\ now <= now'
<1>0. now \in Nat /\ refreshed \in Nat /\ Start \in Nat /\ MaxGap \in Nat
  BY TimesAreNumbers
<1>1. CASE TimePasses
  BY <1>0, <1>1 DEF TimePasses, PrimaryInv
<1>2. CASE ~TimePasses
  <2>1. now' = now
    BY <1>2, StepKinds DEF Replicate, MergeRow, Still
  <2>2. refreshed' = refreshed \/ refreshed' = now
    BY <1>2 DEF RollupNext, Run, Stop, Tick, Roll, aggregateWindow, TickFails, release, Bootstrap,
                isBackfillRequired, getLastUpdatedAt, BackfillDay, markBackfillComplete, BackfillFails,
                Rolled, BackfilledDay, Replicate, MergeRow, LockExpires, rollupVars
  <2> QED
    BY <1>0, <2>1, <2>2 DEF PrimaryInv
<1> QED
  BY <1>1, <1>2

(* A backfill. *)
LEMMA BackfillStep ==
    ASSUME RollupTypeOK, RebuildInv, PrimaryInv, [RollupNext]_rollupVars,
           NEW r \in Replica, stage'[r] = "backfill"
    PROVE  BackfillUnderWay(r)'
<1>0. /\ now \in Nat /\ now' \in Nat /\ Start \in Nat /\ Day \in Nat /\ BackfillDays \in Nat
      /\ today[r] \in Nat /\ day[r] \in Nat /\ Start <= now /\ now <= now'
  <2>1. now' \in Nat
    BY RollupNextTypeOK, RollupAssumption DEF RollupTypeOK, Instant
  <2>2. refreshed \in Nat /\ now \in Nat /\ Start \in Nat
    BY TimesAreNumbers
  <2> QED
    BY <2>1, <2>2, PaceStep, TimesAreNumbers, RollupAssumption DEF PrimaryInv
<1>1. DayOf(now) \in Nat /\ DayOf(now) <= DayOf(now') /\ DayOf(now') \in Nat
  BY <1>0, DaysInOrder, DayHolds
<1>2. Keeps
  BY StepKeeps
<1>3. CASE stage[r] = "backfill" /\ today'[r] = today[r] /\ day'[r] = day[r]
  BY <1>0, <1>1, <1>2, <1>3 DEF PrimaryInv, BackfillUnderWay, Keeps
<1>4. CASE BackfilledDay(r)
  <2>1. /\ stage[r] = "backfill" /\ today'[r] = today[r] /\ day'[r] = day[r] - 1 /\ refreshed' = refreshed
        /\ query[r] = "replace" /\ UNCHANGED rows /\ replaceWindow(r)
    BY <1>4 DEF BackfilledDay, RollupTypeOK
  <2>2. /\ BackfillUnderWay(r) /\ windowStart[r] = today[r] - (day[r] - 1) * Day
        /\ windowEnd[r] = windowStart[r] + Day
    BY <2>1 DEF PrimaryInv, RebuildInv
  <2>3. PICK w, v : w = today[r] - (day[r] - 1) * Day /\ v = today[r] - (day'[r] - 1) * Day
    OBVIOUS
  <2>4. w \in Int /\ v = w + Day
    <3>1. (day[r] - 1) * Day \in Int /\ (day'[r] - 1) * Day = (day[r] - 1) * Day - Day
      BY <1>0, <2>1
    <3> QED
      BY <1>0, <2>3, <3>1
  <2>5. ASSUME NEW b \in BucketHour, today[r] - (BackfillDays - 1) * Day <= b, b < v, Settled(b, refreshed)
        PROVE  Current(b)'
    <3>1. b \in Nat
      BY BucketNumbers
    <3>2. CASE b < w
      BY <1>2, <2>1, <2>2, <2>3, <2>5, <3>2 DEF BackfillUnderWay, Keeps
    <3>3. CASE w <= b
      BY <2>1, <2>2, <2>3, <2>4, <2>5, <3>3, SettledThen, ReplaceKeeps
    <3> QED
      BY <2>4, <3>1, <3>2, <3>3
  <2> QED
    BY <1>1, <2>1, <2>2, <2>3, <2>5, <1>0 DEF BackfillUnderWay
<1>5. CASE StartBackfill(r) /\ UNCHANGED <<now, refreshed>>
  <2>1. today'[r] = DayOf(now) /\ day'[r] = BackfillDays
    BY <1>5 DEF StartBackfill, RollupTypeOK
  <2>2. DayOf(DayOf(now)) = DayOf(now) /\ now < DayOf(now) + Day
    BY <1>0, DayStart, DayHolds
  <2>3. PICK k : k = (BackfillDays - 1) * Day /\ k \in Nat
    BY RetentionIsNumber
  <2>4. \A b \in BucketHour : ~(DayOf(now) - k <= b /\ b < DayOf(now) - k)
    BY <1>1, <2>3, BucketNumbers
  <2> QED
    BY <1>0, <1>1, <1>5, <2>1, <2>2, <2>3, <2>4 DEF BackfillUnderWay
<1>6. \/ stage[r] = "backfill" /\ today'[r] = today[r] /\ day'[r] = day[r]
      \/ BackfilledDay(r)
      \/ StartBackfill(r) /\ UNCHANGED <<now, refreshed>>
  <2>1. CASE TimePasses \/ Replicate \/ (\E t \in Started : MergeRow(t)) \/ LockExpires \/ UNCHANGED rollupVars
    BY <2>1 DEF TimePasses, Replicate, MergeRow, LockExpires, rollupVars, backfill
  <2>2. ASSUME NEW q \in Replica, q # r, Run(q) \/ Stop(q) PROVE stage[r] = "backfill" /\ today'[r] = today[r] /\ day'[r] = day[r]
    BY <2>2, OthersUntouched DEF Untouched
  <2>3. CASE isBackfillRequired(r) \/ getLastUpdatedAt(r)
    BY <2>3 DEF isBackfillRequired, getLastUpdatedAt, MoveTo, RollupTypeOK
  <2>4. CASE Roll(r) \/ aggregateWindow(r) \/ BackfillDay(r)
    BY <2>4 DEF Roll, aggregateWindow, BackfillDay, backfill
  <2>5. CASE \/ Tick(r) \/ Rolled(r) \/ TickFails(r) \/ release(r) \/ Bootstrap(r) \/ markBackfillComplete(r)
             \/ BackfillFails(r) \/ Stop(r)
    BY <2>5 DEF Tick, Rolled, TickFails, release, Bootstrap, markBackfillComplete, BackfillFails, Stop, MoveTo,
                RollupTypeOK
  <2> QED
    BY <2>1, <2>2, <2>3, <2>4, <2>5 DEF RollupNext, Run
<1> QED
  BY <1>3, <1>4, <1>5, <1>6

(* A backfill that is done has rebuilt the retention period.               *)
LEMMA CompleteIsCurrent ==
    ASSUME RollupTypeOK, PrimaryInv, NEW r \in Replica, stage[r] = "backfill", day[r] = 0,
           NEW b \in BucketHour, DayOf(now) - (BackfillDays - 1) * Day <= b, Settled(b, refreshed)
    PROVE  Current(b)
<1>0. /\ now \in Nat /\ Start \in Nat /\ Day \in Nat /\ today[r] \in Nat /\ b \in Nat
      /\ DayOf(now) \in Nat
  BY TimesAreNumbers, DayHolds, BucketNumbers
<1>1. PICK k : k = (BackfillDays - 1) * Day /\ k \in Nat
  BY RetentionIsNumber
<1>2. BackfillUnderWay(r)
  BY DEF PrimaryInv
<1>3. today[r] - (day[r] - 1) * Day = today[r] + Day
  BY <1>0
<1>4. CASE b < today[r] + Day
  BY <1>0, <1>1, <1>2, <1>3, <1>4 DEF BackfillUnderWay
<1>5. CASE today[r] + Day <= b
  <2>1. HourOf(Start) <= b
    BY <1>0, <1>2, <1>5, HourHolds DEF BackfillUnderWay
  <2> QED
    BY <2>1 DEF PrimaryInv, CurrentSince
<1> QED
  BY <1>0, <1>4, <1>5

LEMMA PrimaryStep ==
    ASSUME RollupTypeOK, RebuildInv, PrimaryInv, [RollupNext]_rollupVars
    PROVE  PrimaryInv'
<1>1. CurrentSince(HourOf(Start))'
  BY StepKeeps DEF PrimaryInv, CurrentSince, Keeps
<1>2. ASSUME ~required' PROVE CurrentSince(DayOf(now) - (BackfillDays - 1) * Day)'
  <2>1. PICK k : k = (BackfillDays - 1) * Day /\ k \in Nat
    BY RetentionIsNumber
  <2>2. now \in Nat /\ now' \in Nat /\ now <= now'
    BY RollupNextTypeOK, PaceStep, RollupAssumption DEF RollupTypeOK, Instant
  <2>3. PICK d, e : d = DayOf(now) /\ e = DayOf(now') /\ d <= e /\ d \in Nat /\ e \in Nat
    BY <2>2, DaysInOrder, DayHolds
  <2>4. \A b \in BucketHour : d - k <= b /\ Settled(b, refreshed) => Current(b)
    <3>1. CASE ~required
      BY <2>1, <2>3, <3>1 DEF PrimaryInv, CurrentSince
    <3>2. CASE required
      <4>1. PICK r \in Replica : markBackfillComplete(r)
        BY <1>2, <3>2 DEF RollupNext, Run, Stop, Tick, Roll, aggregateWindow, TickFails, release, Bootstrap,
                isBackfillRequired, getLastUpdatedAt, BackfillDay, BackfillFails, Rolled, BackfilledDay,
                TimePasses, Replicate, MergeRow, LockExpires, rollupVars, primary
      <4> QED
        BY <2>1, <2>3, <4>1, CompleteIsCurrent DEF markBackfillComplete
    <3> QED
      BY <3>1, <3>2 DEF RollupTypeOK
  <2>5. \A b \in BucketHour : e - k <= b => d - k <= b
    BY <2>1, <2>3, BucketNumbers
  <2>6. \A b \in BucketHour : e - k <= b /\ Settled(b, refreshed') => Current(b)'
    BY <2>4, <2>5, StepKeeps DEF Keeps
  <2> QED
    BY <2>1, <2>3, <2>6 DEF CurrentSince
<1> QED
  BY <1>1, <1>2, PaceStep, BackfillStep DEF PrimaryInv

(* The replica's copy of the rollup.                                       *)
LEMMA ReadStep ==
    ASSUME RollupTypeOK, ReplicaInv, PrimaryInv, ReadInv, [RollupNext]_rollupVars
    PROVE  ReadInv'
<1>0. /\ now \in Nat /\ synced \in Nat /\ refreshed \in Nat /\ MaxGap \in Nat /\ MaxLag \in Nat
      /\ MaxRebuild \in Nat /\ Hour \in Nat /\ MaxDelay \in Nat
  BY TimesAreNumbers
<1>1. CASE Replicate
  <2>1. \A b \in BucketHour : Settled(b, now - MaxGap) => Settled(b, refreshed)
    BY <1>0, BucketNumbers DEF Settled, Final, PrimaryInv
  <2>2. UNCHANGED <<rows, now>> /\ synced' = now /\ readRollup' = rollup /\ readRequired' = required
    BY <1>1 DEF Replicate, primary
  <2> QED
    BY <2>1, <2>2 DEF ReadInv, ReadCurrentSince, PrimaryInv, CurrentSince, Current, InBucket
<1>2. CASE UNCHANGED replica
  <2>1. \A b \in BucketHour : Settled(b, synced - MaxGap) => Final(b, now)
    BY <1>0, BucketNumbers DEF Settled, Final, ReplicaInv
  <2>2. \A b \in BucketHour : Settled(b, synced - MaxGap) => InBucket(rows, b)' = InBucket(rows, b)
    BY <2>1, FinalKept
  <2> QED
    BY <1>2, <2>2 DEF ReadInv, ReadCurrentSince, replica
<1> QED
  BY <1>1, <1>2, StepKinds DEF TimePasses, MergeRow, Still

(* The migration.                                                          *)
LEMMA InitHistory ==
    ASSUME RollupInit
    PROVE  HistoryInv
<1>0. /\ Start \in Nat /\ Hour \in Nat /\ MaxDelay \in Nat /\ MaxLag \in Nat /\ MaxRebuild \in Nat /\ MaxGap \in Nat
      /\ HourOf(Start) \in Nat /\ Start < HourOf(Start) + Hour
  BY HourHolds, RollupAssumption
<1>1. ReplicaInv
  BY <1>0 DEF RollupInit, ReplicaInv
<1>2. RebuildInv
  BY DEF RollupInit, RebuildInv
<1>3. \A b \in BucketHour : HourOf(Start) <= b => ~Settled(b, Start) /\ ~Settled(b, Start - MaxGap)
  BY <1>0, BucketNumbers DEF Settled, Final
<1>4. PrimaryInv
  BY <1>0, <1>3 DEF RollupInit, PrimaryInv, CurrentSince
<1>5. ReadInv
  BY <1>3 DEF RollupInit, ReadInv, ReadCurrentSince
<1> QED
  BY <1>1, <1>2, <1>4, <1>5, RollupInitTypeOK DEF HistoryInv

LEMMA HistoryInductive ==
    ASSUME HistoryInv, [RollupNext]_rollupVars
    PROVE  HistoryInv'
BY RollupNextTypeOK, ReplicaStep, RebuildStep, PrimaryStep, ReadStep DEF HistoryInv

-----------------------------------------------------------------------------
(* The dashboard. *)

(* The whole hours of a range lie in it, and its buckets are final.        *)
LEMMA WholeHours ==
    ASSUME NEW from \in Nat, NEW to \in Nat
    PROVE  /\ FullStart(from) \in Nat /\ from <= FullStart(from)
           /\ FullEnd(to) \in Nat /\ FullEnd(to) <= to
           /\ \A b \in BucketHour : b < FullEnd(to) => b + Hour <= FullEnd(to)
           /\ \A s \in Nat : FullStart(from) <= s => FullStart(from) <= HourOf(s)
           /\ \A s \in Nat : s < FullEnd(to) => HourOf(s) < FullEnd(to)
           /\ \A s \in Nat : HourOf(s) < FullEnd(to) => s < FullEnd(to)
<1>1. Hour \in Nat /\ Hour > 0 /\ from + Hour - 1 \in Nat
  BY RollupAssumption
<1>2. FullStart(from) = HourOf(from + Hour - 1) /\ FullEnd(to) = HourOf(to)
  BY DEF FullStart, FullEnd
<1>3. FullStart(from) \in Nat /\ from <= FullStart(from) /\ FullEnd(to) \in Nat /\ FullEnd(to) <= to
  BY <1>1, <1>2, HourHolds
<1>4. \A b \in BucketHour : b < FullEnd(to) => b + Hour <= FullEnd(to)
  BY <1>2, BucketIsHour, HoursApart
<1>5. \A s \in Nat : FullStart(from) <= s => FullStart(from) <= HourOf(s)
  <2> SUFFICES ASSUME NEW s \in Nat, FullStart(from) <= s, HourOf(s) < FullStart(from) PROVE FALSE
    BY <1>3, HourHolds
  <2>1. HourOf(s) + Hour <= FullStart(from)
    BY <1>1, <1>2, HoursApart
  <2> QED
    BY <1>1, <1>3, <2>1, HourHolds
<1>6. \A s \in Nat : s < FullEnd(to) => HourOf(s) < FullEnd(to)
  BY <1>3, HourHolds
<1>7. \A s \in Nat : HourOf(s) < FullEnd(to) => s < FullEnd(to)
  <2> SUFFICES ASSUME NEW s \in Nat, HourOf(s) < FullEnd(to) PROVE s < FullEnd(to)
    OBVIOUS
  <2>1. HourOf(s) + Hour <= FullEnd(to)
    BY <1>2, HoursApart
  <2> QED
    BY <1>1, <1>3, <2>1, HourHolds
<1> QED
  BY <1>3, <1>4, <1>5, <1>6, <1>7

(* A bucket before the window: the replica has its rows for good, and the  *)
(* last tick before the replica was synced has settled it.                 *)
LEMMA BeforeWindow ==
    ASSUME HistoryInv, NEW b \in BucketHour, b + Hour <= computeWindow.start
    PROVE  Final(b, synced) /\ Settled(b, synced - MaxGap)
<1>0. /\ b \in Nat /\ Hour \in Nat /\ MaxDelay \in Nat /\ MaxLag \in Nat /\ MaxRebuild \in Nat /\ MaxGap \in Nat
      /\ now \in Nat /\ synced \in Nat
      /\ MaxGap + MaxDelay + MaxRebuild + MaxLag + MaxLag <= Hour + Hour
  BY BucketNumbers, TimesAreNumbers DEF HistoryInv
<1>1. HourOf(now) \in Nat /\ HourOf(now) <= now /\ computeWindow.start = HourOf(now) + Hour - 3 * Hour
  BY <1>0, HourHolds DEF computeWindow, Window
<1>2. now <= synced + MaxLag
  BY DEF HistoryInv, ReplicaInv
<1> QED
  BY <1>0, <1>1, <1>2 DEF Final, Settled

(* Every bucket of a dashboard range before the window is current on the   *)
(* read replica.                                                           *)
LEMMA RangeIsCurrent ==
    ASSUME HistoryInv, NEW from \in Instant, NEW to \in Instant,
           Horizon <= from, to <= computeWindow.start,
           NEW b \in BucketHour, FullStart(from) <= b, b < FullEnd(to)
    PROVE  readRollup[b] = InBucket(rows, b)
<1>1. RollupTypeOK
  BY DEF HistoryInv
<1>2. /\ from \in Nat /\ to \in Nat /\ b \in Nat /\ now \in Nat /\ synced \in Nat /\ synced <= now /\ Hour \in Nat
      /\ Start \in Nat
  BY <1>1, TimesAreNumbers, BucketNumbers, RollupAssumption DEF Instant, HistoryInv, ReplicaInv
<1>3. FullStart(from) \in Nat /\ from <= FullStart(from) /\ FullEnd(to) \in Nat /\ FullEnd(to) <= to /\ b + Hour <= FullEnd(to)
  BY <1>2, WholeHours
<1>4. HourOf(Start) \in Nat /\ DayOf(now) \in Nat /\ DayOf(synced) \in Nat /\ DayOf(synced) <= DayOf(now)
  BY <1>2, HourHolds, DayHolds, DaysInOrder
<1>5. computeWindow.start \in Int
  BY <1>2, HourHolds DEF computeWindow, Window
<1>6. Settled(b, synced - MaxGap)
  BY <1>2, <1>3, <1>5, BeforeWindow
<1>7. CASE readRequired
  <2>1. HourOf(Start) <= b
    BY <1>2, <1>3, <1>4, <1>7 DEF Horizon
  <2> QED
    BY <1>6, <2>1 DEF HistoryInv, ReadInv, ReadCurrentSince
<1>8. CASE ~readRequired
  <2>1. PICK k : k = (BackfillDays - 1) * Day /\ k \in Nat
    BY RetentionIsNumber
  <2>2. DayOf(synced) - k <= b
    BY <1>2, <1>3, <1>4, <1>8, <2>1 DEF Horizon
  <2> QED
    BY <1>6, <1>8, <2>1, <2>2 DEF HistoryInv, ReadInv, ReadCurrentSince
<1> QED
  BY <1>7, <1>8

(* The replica has the rows before the window for good.                    *)
LEMMA RowsAreCurrent ==
    ASSUME HistoryInv, NEW s \in Instant, NEW to \in Instant, s < to, to <= computeWindow.start, NEW x, x[1] = s
    PROVE  x \in readRows <=> x \in rows
<1>1. PICK b \in BucketHour : b = HourOf(s)
  BY DEF BucketHour
<1>2. s \in Nat /\ to \in Nat /\ now \in Nat /\ Hour \in Nat /\ Hour > 0
  BY TimesAreNumbers, RollupAssumption DEF Instant, HistoryInv
<1>3. computeWindow.start = HourOf(now) + Hour - 3 * Hour /\ HourOf(now) \in Nat
  BY <1>2, HourHolds DEF computeWindow, Window
<1>4. b \in Nat /\ b <= s
  BY <1>1, <1>2, HourHolds
<1>5. b < HourOf(now) + Hour - 3 * Hour
  BY <1>2, <1>3, <1>4
<1>6. b + Hour <= computeWindow.start
  BY <1>2, <1>3, <1>5, WindowStartsHour
<1>7. InBucket(readRows, b) = InBucket(rows, b)
  BY <1>6, BeforeWindow DEF HistoryInv, ReplicaInv
<1> QED
  BY <1>1, <1>7 DEF InBucket

(* With current buckets the parts of a range add up to its rows.           *)
LEMMA HistoryInvImplies ==
    ASSUME HistoryInv
    PROVE  HistoryExact
<1> SUFFICES ASSUME NEW from \in Instant, NEW to \in Instant,
                    from < to, Horizon <= from, to <= computeWindow.start
             PROVE  /\ UNION rangeSource(from, to) = {x \in rows : from <= x[1] /\ x[1] < to}
                    /\ \A p, q \in rangeSource(from, to) : p # q => p \cap q = {}
  BY DEF HistoryExact
<1>1. \A x \in rows : x[1] \in Nat /\ x[1] \in Instant
  BY RollupAssumption DEF HistoryInv, RollupTypeOK, StoredRow, Instant
<1>5. ASSUME NEW s \in Nat, NEW e \in Nat, from <= s, e <= to
      PROVE  Between(s, e) = {x \in rows : s <= x[1] /\ x[1] < e}
  <2>1. \A x \in readRows : x[1] \in Nat /\ x[1] \in Instant
    BY RollupAssumption DEF HistoryInv, RollupTypeOK, StoredRow, Instant
  <2>2. \A x : x[1] \in Instant /\ x[1] < e => (x \in readRows <=> x \in rows)
    BY <1>5, RowsAreCurrent, RollupAssumption DEF Instant
  <2>3. PICK P : P = Between(s, e)
    OBVIOUS
  <2>4. \A x : x \in P <=> x \in readRows /\ s <= x[1] /\ x[1] < e
    BY <2>3 DEF Between
  <2> QED
    BY <1>1, <2>1, <2>2, <2>3, <2>4
<1>2. from \in Nat /\ to \in Nat /\ Hour \in Nat
  BY RollupAssumption DEF Instant
<1>3. CASE ~(FullStart(from) < FullEnd(to))
  BY <1>2, <1>3, <1>5 DEF rangeSource
<1>4. CASE FullStart(from) < FullEnd(to)
  <2>1. PICK fs, fe : fs = FullStart(from) /\ fe = FullEnd(to)
    OBVIOUS
  <2>2. fs \in Nat /\ fe \in Nat /\ from <= fs /\ fs < fe /\ fe <= to
    BY <1>2, <1>4, <2>1, WholeHours
  <2>3. PICK B : B = {b \in BucketHour : fs <= b /\ b < fe}
    OBVIOUS
  <2>4. \A b \in B : readRollup[b] = {x \in rows : HourOf(x[1]) = b}
    BY <2>1, <2>3, RangeIsCurrent DEF InBucket
  <2>5. rangeSource(from, to) = {readRollup[b] : b \in B} \cup {Between(from, fs), Between(fe, to)}
    BY <1>4, <2>1, <2>3 DEF rangeSource
  <2>6. \A x \in rows : HourOf(x[1]) \in B <=> fs <= x[1] /\ x[1] < fe
    <3>1. ASSUME NEW x \in rows, HourOf(x[1]) \in B PROVE fs <= x[1] /\ x[1] < fe
      <4>1. fs <= HourOf(x[1]) /\ HourOf(x[1]) < fe /\ x[1] \in Nat
        BY <1>1, <2>3, <3>1
      <4>2. HourOf(x[1]) <= x[1] /\ HourOf(x[1]) \in Nat
        BY <4>1, HourHolds
      <4>3. x[1] < fe
        BY <1>2, <2>1, <4>1, WholeHours
      <4> QED
        BY <2>2, <4>1, <4>2, <4>3
    <3>2. ASSUME NEW x \in rows, fs <= x[1], x[1] < fe PROVE HourOf(x[1]) \in B
      <4>1. HourOf(x[1]) \in BucketHour
        BY <1>1 DEF BucketHour
      <4> QED
        BY <1>1, <1>2, <2>1, <2>3, <3>2, <4>1, WholeHours
    <3> QED
      BY <3>1, <3>2
  <2>7. \A b \in B : \A x \in readRollup[b] : x \in rows /\ fs <= x[1] /\ x[1] < fe
    BY <2>4, <2>6
  <2>10. PICK L, R, T : /\ L = Between(from, fs) /\ R = Between(fe, to)
                        /\ T = {x \in rows : from <= x[1] /\ x[1] < to}
    OBVIOUS
  <2>11. /\ L = {x \in rows : from <= x[1] /\ x[1] < fs}
         /\ R = {x \in rows : fe <= x[1] /\ x[1] < to}
    BY <1>2, <1>5, <2>2, <2>10
  <2>12. rangeSource(from, to) = {readRollup[b] : b \in B} \cup {L, R}
    BY <2>5, <2>10
  <2>8. UNION rangeSource(from, to) = T
    <3>1. ASSUME NEW x \in UNION rangeSource(from, to) PROVE x \in T
      <4>1. x \in L \/ x \in R \/ \E b \in B : x \in readRollup[b]
        BY <2>12, <3>1
      <4>2. x \in rows /\ (x \in L \/ x \in R \/ (fs <= x[1] /\ x[1] < fe))
        BY <2>7, <2>11, <4>1
      <4> QED
        BY <1>1, <1>2, <2>2, <2>10, <2>11, <4>2
    <3>2. ASSUME NEW x \in T PROVE x \in UNION rangeSource(from, to)
      <4>1. x \in rows /\ from <= x[1] /\ x[1] < to /\ x[1] \in Nat
        BY <1>1, <2>10, <3>2
      <4>2. CASE x[1] < fs
        BY <2>11, <2>12, <4>1, <4>2
      <4>3. CASE fe <= x[1]
        BY <2>11, <2>12, <4>1, <4>3
      <4>4. CASE fs <= x[1] /\ x[1] < fe
        <5>1. HourOf(x[1]) \in B /\ x \in readRollup[HourOf(x[1])]
          BY <2>4, <2>6, <4>1, <4>4
        <5> QED
          BY <2>12, <5>1
      <4> QED
        BY <2>2, <4>1, <4>2, <4>3, <4>4
    <3> QED
      BY <3>1, <3>2
  <2>9. ASSUME NEW p \in rangeSource(from, to), NEW q \in rangeSource(from, to), NEW x, x \in p, x \in q PROVE p = q
    <3>1. \A s \in rangeSource(from, to) : s = L \/ s = R \/ \E b \in B : s = readRollup[b]
      BY <2>12
    <3>2. \A s \in rangeSource(from, to) : x \in s =>
            /\ x \in rows
            /\ x[1] < fs => s = L
            /\ fe <= x[1] => s = R
            /\ fs <= x[1] /\ x[1] < fe => s = readRollup[HourOf(x[1])]
      <4> SUFFICES ASSUME NEW s \in rangeSource(from, to), x \in s
                   PROVE  /\ x \in rows
                          /\ x[1] < fs => s = L
                          /\ fe <= x[1] => s = R
                          /\ fs <= x[1] /\ x[1] < fe => s = readRollup[HourOf(x[1])]
        OBVIOUS
      <4>1. CASE s = L
        BY <1>1, <2>2, <2>11, <4>1
      <4>2. CASE s = R
        BY <1>1, <2>2, <2>11, <4>2
      <4>3. CASE \E b \in B : s = readRollup[b]
        <5>1. PICK b \in B : s = readRollup[b]
          BY <4>3
        <5>2. x \in rows /\ HourOf(x[1]) = b /\ fs <= x[1] /\ x[1] < fe
          BY <2>4, <2>7, <5>1
        <5> QED
          BY <1>1, <2>2, <5>1, <5>2
      <4> QED
        BY <3>1, <4>1, <4>2, <4>3
    <3>3. x[1] \in Nat
      BY <1>1, <2>9, <3>2
    <3> QED
      BY <2>2, <2>9, <3>2, <3>3
  <2> QED
    BY <2>8, <2>9, <2>10
<1> QED
  BY <1>3, <1>4

(* A dashboard range that ends before the window shows every transaction   *)
(* of the range once and in its last state, in every state of the rollup:  *)
(* before, during and after a backfill, although rebuilds read a replica   *)
(* that lags and may overlap, be slow, fail or be stopped.                 *)
THEOREM HistoryIsExact == RollupSpec => []HistoryExact
<1>1. RollupInit => HistoryInv
  BY InitHistory
<1>2. HistoryInv /\ [RollupNext]_rollupVars => HistoryInv'
  BY HistoryInductive
<1>3. HistoryInv => HistoryExact
  BY HistoryInvImplies
<1> QED
  BY <1>1, <1>2, <1>3, PTL DEF RollupSpec
=============================================================================
