------------------------- MODULE SigningKeysProofs -------------------------
(***************************************************************************)
(* Proofs about SigningKeys, for any number of passes, keys and faults:    *)
(* a tenant's row keeps its role and key, a suspension outlives the sweeps *)
(* that could see it, and, where onboarding requests for an id do not      *)
(* overlap, what the cache signs verifies against the key MCM holds.       *)
(***************************************************************************)
EXTENDS SigningKeys, TLAPS

USE BoundsAssumption

-----------------------------------------------------------------------------
(* Rows. *)

LEMMA Rows ==
  /\ NoRow \in Row /\ NoRow.role = "none"
  /\ \A r \in Row : /\ r.role \in {"none", "self", "peer"} /\ r.pub \in Key
                    /\ r.enabled \in BOOLEAN /\ r.activated \in BOOLEAN
  /\ OwnKey \subseteq Key /\ ForeignKey \subseteq Key /\ 0..MaxKeys \subseteq Key /\ 0 \in Key
<1>1. OwnKey \subseteq Key /\ ForeignKey \subseteq Key /\ 0..MaxKeys \subseteq Key /\ 0 \in Key
  BY DEF OwnKey, ForeignKey, Key
<1>2. NoRow \in Row /\ NoRow.role = "none"
  BY <1>1 DEF NoRow, Row
<1>3. \A r \in Row : /\ r.role \in {"none", "self", "peer"} /\ r.pub \in Key
                     /\ r.enabled \in BOOLEAN /\ r.activated \in BOOLEAN
  BY DEF Row
<1> QED
  BY <1>1, <1>2, <1>3

(* A row with other switches. *)
LEMMA Switched ==
  ASSUME NEW r \in Row, NEW e \in BOOLEAN, NEW a \in BOOLEAN
  PROVE  LET n == [r EXCEPT !.enabled = e, !.activated = a]
         IN /\ n \in Row /\ n.role = r.role /\ n.pub = r.pub
            /\ n.enabled = e /\ n.activated = a
BY DEF Row

(* A new row, and a row with another key. *)
LEMMA Keyed ==
  ASSUME NEW r \in Row, NEW role \in {"self", "peer"}, NEW k \in Key
  PROVE  /\ LET n == [r EXCEPT !.role = role, !.pub = k]
            IN /\ n \in Row /\ n.role = role /\ n.pub = k
               /\ n.enabled = r.enabled /\ n.activated = r.activated
         /\ LET n == [r EXCEPT !.pub = k]
            IN /\ n \in Row /\ n.role = r.role /\ n.pub = k
               /\ n.enabled = r.enabled /\ n.activated = r.activated
BY DEF Row

-----------------------------------------------------------------------------
(* What every step does to the row: a row once inserted keeps its role, and a *)
(* tenant's row its key if no operator replaces it.                           *)
RowKept ==
  /\ byHand \subseteq byHand'
  /\ row.role # "none" => /\ row'.role = row.role
                          /\ row.role = "self" /\ "keyed" \notin byHand' => row'.pub = row.pub

LEMMA CopiesStay ==
  ASSUME RowKept
  PROVE  \A r : CopyOf(r) => CopyOf(r)'
BY DEF RowKept, CopyOf

(* A missing row is a copy. *)
LEMMA Fresh == CopyOf(NoRow)
BY DEF CopyOf, NoRow

(* ... and to the copies: each is as it was, a copy of the row or of the     *)
(* replica, or dropped.                                                       *)
Copied ==
  /\ replica' \in {replica, row}
  /\ \A o \in Request : operator'[o].held \in {operator[o].held, row, NoRow}
  /\ \A w \in Worker : worker'[w].held \in {worker[w].held, row, NoRow}

(* What is left to show of a step beside its types. *)
StepOK ==
  /\ CopyOf(row)'
  /\ operator'["policy"].pc = "save" => operator'["policy"].held.role # "none"
  /\ \A w \in Worker : worker'[w].pc # "idle" => worker'[w].held.role = "self"
  /\ \A c \in Call : onboard'[c].pc = "save" => onboard'[c].key # 0

Kept == CopyInv' /\ RowKept /\ Copied

LEMMA CopyFrame ==
  ASSUME CopyInv, TypeOK', RowKept, Copied, StepOK
  PROVE  Kept
<1>1. /\ CopyOf(row) /\ CopyOf(replica) /\ \A o \in Request : CopyOf(operator[o].held)
      /\ \A w \in Worker : CopyOf(worker[w].held)
  BY DEF CopyInv
<1>2. CopyOf(replica)'
  BY <1>1, Fresh, CopiesStay DEF CopyOf, RowKept, Copied
<1>3. \A w \in Worker : CopyOf(worker[w].held)'
  BY <1>1, Fresh, CopiesStay DEF CopyOf, RowKept, Copied
<1>4. \A o \in Request : CopyOf(operator[o].held)'
  BY <1>1, Fresh, CopiesStay DEF CopyOf, RowKept, Copied
<1> QED
  BY <1>2, <1>3, <1>4 DEF CopyInv, Kept, StepOK

(* A row that stays is a copy of itself. *)
LEMMA RowCopy ==
  ASSUME CopyOf(row), row' = row, byHand' = byHand
  PROVE  RowKept /\ CopyOf(row)'
BY DEF RowKept, CopyOf

-----------------------------------------------------------------------------
(* Every action keeps CopyInv. *)

(* Where the row, and the copies of it, are left alone. *)
LEMMA SameRows ==
  ASSUME CopyInv, TypeOK', UNCHANGED <<row, replica, operator, worker, byHand>>,
         \A c \in Call : onboard'[c].pc = "save" => onboard'[c].key # 0
  PROVE  Kept
<1>1. RowKept /\ CopyOf(row)'
  BY RowCopy DEF CopyInv
<1>2. Copied
  BY DEF Copied
<1>3. StepOK
  BY <1>1 DEF StepOK, CopyInv
<1> QED
  BY <1>1, <1>2, <1>3, CopyFrame

LEMMA OnboardCopies ==
  ASSUME CopyInv, NEW c \in Call, Onboard(c)
  PROVE  Kept
<1>0. /\ TypeOK /\ onboard[c].key \in 0..MaxKeys /\ faults \in 0..MaxFaults
      /\ \A d \in Call : onboard[d].pc = "save" => onboard[d].key # 0
  BY DEF CopyInv, TypeOK
<1>1. ASSUME NEW p \in {"idle", "provision", "announce"}, onboard' = [onboard EXCEPT ![c].pc = p],
             UNCHANGED <<row, vault, made>>, OnboardUnchanged,
             announced' \in {announced, announced + 1}, faults' \in 0..MaxFaults
      PROVE  Kept
  <2>1. TypeOK'
    BY <1>0, <1>1 DEF TypeOK, OnboardUnchanged
  <2>2. \A d \in Call : onboard'[d].pc = "save" => onboard'[d].key # 0
    BY <1>0, <1>1 DEF TypeOK
  <2> QED
    BY <1>1, <2>1, <2>2, SameRows DEF OnboardUnchanged
<1>2. CASE OnboardFsp(c)
  BY <1>0, <1>1, <1>2 DEF OnboardFsp
<1>3. CASE provision(c)
  <2>1. made + 1 \in 1..MaxKeys /\ made + 1 # 0
    BY <1>0, <1>3 DEF provision, TypeOK
  <2>2. TypeOK'
    BY <1>0, <1>3, <2>1 DEF provision, TypeOK, OnboardUnchanged
  <2>3. \A d \in Call : onboard'[d].pc = "save" => onboard'[d].key # 0
    BY <1>0, <1>3, <2>1 DEF provision, TypeOK
  <2> QED
    BY <1>3, <2>2, <2>3, SameRows DEF provision, OnboardUnchanged
<1>4. CASE provisionSigningKey(c)
  <2>1. CASE row.role = "none"
    <3>1. /\ row' = [NoRow EXCEPT !.role = "self", !.pub = onboard[c].key]
          /\ onboard' = [onboard EXCEPT ![c].pc = "announce"] /\ onboard[c].key # 0
          /\ onboard[c].key \in Key
      BY <1>0, <1>4, <2>1, Rows DEF provisionSigningKey
    <3>2. row' \in Row /\ row'.role = "self" /\ row'.pub = onboard[c].key
      BY <3>1, Rows DEF NoRow, Row
    <3>3. TypeOK'
      BY <1>0, <1>4, <3>1, <3>2 DEF provisionSigningKey, TypeOK, OnboardUnchanged
    <3>4. \A d \in Call : onboard'[d].pc = "save" => onboard'[d].key # 0
      BY <1>0, <3>1 DEF TypeOK
    <3>6. UNCHANGED <<replica, operator, worker, byHand>>
      BY <1>4 DEF provisionSigningKey, OnboardUnchanged
    <3>5. RowKept /\ CopyOf(row)'
      BY <2>1, <3>1, <3>2, <3>6 DEF RowKept, CopyOf
    <3>7. Copied
      BY <3>6 DEF Copied
    <3>8. StepOK
      BY <3>4, <3>5, <3>6 DEF StepOK, CopyInv
    <3> QED
      BY <3>3, <3>5, <3>7, <3>8, CopyFrame
  <2>2. CASE row.role # "none"
    BY <1>0, <1>1, <1>4, <2>2 DEF provisionSigningKey
  <2> QED
    BY <2>1, <2>2
<1>5. CASE Announce(c)
  BY <1>0, <1>1, <1>5 DEF Announce, Fault
<1>6. CASE OnboardFails(c)
  BY <1>0, <1>1, <1>6 DEF OnboardFails, Fault
<1> QED
  BY <1>2, <1>3, <1>4, <1>5, <1>6 DEF Onboard

(* A pass at its steps. *)
LEMMA PassTypes ==
  ASSUME TypeOK, NEW w \in Worker
  PROVE  /\ \A pc \in PublishPc : /\ [worker EXCEPT ![w].pc = pc] \in [Worker -> [pc : PublishPc, held : Row]]
                                  /\ \A r \in Row : [worker EXCEPT ![w] = [pc |-> pc, held |-> r]]
                                                      \in [Worker -> [pc : PublishPc, held : Row]]
         /\ [worker EXCEPT ![w] = Idle] \in [Worker -> [pc : PublishPc, held : Row]]
         /\ Idle.pc = "idle" /\ Idle.held = NoRow
         /\ Settle(w) => announced' \in Nat
         /\ worker[w].held \in Row /\ worker[w].held.pub \in Key
<1>1. worker \in [Worker -> [pc : PublishPc, held : Row]] /\ announced \in Nat
  BY DEF TypeOK
<1>2. \A pc \in PublishPc : /\ [worker EXCEPT ![w].pc = pc] \in [Worker -> [pc : PublishPc, held : Row]]
                            /\ \A r \in Row : [worker EXCEPT ![w] = [pc |-> pc, held |-> r]]
                                                \in [Worker -> [pc : PublishPc, held : Row]]
  BY <1>1
<1>3. Idle \in [pc : PublishPc, held : Row] /\ Idle.pc = "idle" /\ Idle.held = NoRow
  BY Rows DEF Idle, PublishPc
<1>4. [worker EXCEPT ![w] = Idle] \in [Worker -> [pc : PublishPc, held : Row]]
  BY <1>1, <1>3
<1>5. Settle(w) => announced' \in Nat
  BY <1>1 DEF Settle
<1>6. worker[w].held \in Row /\ worker[w].held.pub \in Key
  BY <1>1, Rows
<1> QED
  BY <1>2, <1>3, <1>4, <1>5, <1>6

(* What a pass does with the row it holds: it goes on, ends, or takes the row. *)
Moves(w) ==
  \/ \E pc \in PublishPc : Step(w, pc) /\ worker[w].pc # "idle"
  \/ End(w)
  \/ worker' = worker
  \/ publishable(row) /\ worker' = [worker EXCEPT ![w] = [pc |-> "register", held |-> row]]

LEMMA PassCopies ==
  ASSUME CopyInv, NEW w \in Worker, PublishPass(w) \/ PassFails(w)
  PROVE  Kept
<1>0. /\ TypeOK /\ PassUnchanged /\ faults \in 0..MaxFaults /\ mcm \in Key /\ announced \in Nat
      /\ row \in Row /\ registered \in BOOLEAN
      /\ \A v \in Worker : worker[v].pc # "idle" => worker[v].held.role = "self"
      /\ {"idle", "register", "read", "publish", "verify", "activate"} \subseteq PublishPc
  BY DEF CopyInv, TypeOK, PublishPass, PassFails, Consume, Reconcile, ensureRegistered, getJwsKey,
       publishJwsKey, PublishRefused, VerifyJwsKey, activate, PublishPc
<1>1. ASSUME Moves(w)
      PROVE  /\ worker' \in [Worker -> [pc : PublishPc, held : Row]]
             /\ \A v \in Worker : /\ worker'[v].held \in {worker[v].held, row, NoRow}
                                  /\ worker'[v].pc # "idle" => worker'[v].held.role = "self"
  <2>1. CASE \E pc \in PublishPc : Step(w, pc) /\ worker[w].pc # "idle"
    BY <1>0, <2>1, PassTypes DEF Step, TypeOK
  <2>2. CASE End(w)
    BY <1>0, <2>2, PassTypes DEF End, TypeOK
  <2>3. CASE worker' = worker
    BY <1>0, <2>3 DEF TypeOK
  <2>4. CASE publishable(row) /\ worker' = [worker EXCEPT ![w] = [pc |-> "register", held |-> row]]
    BY <1>0, <2>4, PassTypes DEF publishable, TypeOK
  <2> QED
    BY <1>1, <2>1, <2>2, <2>3, <2>4 DEF Moves
<1>2. ASSUME Moves(w),
             row' \in Row, RowKept, CopyOf(row)',
             mcm' \in Key, registered' \in BOOLEAN, announced' \in Nat, faults' \in 0..MaxFaults
      PROVE  Kept
  <2>1. TypeOK'
    BY <1>0, <1>1, <1>2 DEF TypeOK, PassUnchanged
  <2>2. UNCHANGED <<replica, operator, onboard, byHand>>
    BY <1>0 DEF PassUnchanged
  <2>0. \A v \in Worker : /\ worker'[v].held \in {worker[v].held, row, NoRow}
                          /\ worker'[v].pc # "idle" => worker'[v].held.role = "self"
    BY <1>1, <1>2
  <2>3. Copied
    BY <2>0, <2>2 DEF Copied
  <2>4. StepOK
    BY <1>2, <2>0, <2>2 DEF StepOK, CopyInv
  <2> QED
    BY <1>2, <2>1, <2>3, <2>4, CopyFrame
<1>3. ASSUME row' = row
      PROVE  row' \in Row /\ RowKept /\ CopyOf(row)'
  BY <1>0, <1>3, RowCopy DEF CopyInv, PassUnchanged
<1>4. CASE Consume(w)
  BY <1>0, <1>2, <1>3, <1>4, PassTypes DEF Moves, Consume
<1>5. CASE Reconcile(w)
  BY <1>0, <1>2, <1>3, <1>5 DEF Moves, Reconcile
<1>6. CASE ensureRegistered(w)
  BY <1>0, <1>2, <1>3, <1>6 DEF Moves, ensureRegistered
<1>7. CASE getJwsKey(w)
  <2>1. ASSUME NEW stored, ChooseByStored(w, stored)
        PROVE  /\ announced' \in Nat
               /\ End(w) \/ \E pc \in PublishPc : Step(w, pc) /\ worker[w].pc # "idle"
    BY <1>0, <1>7, <2>1, PassTypes DEF ChooseByStored, getJwsKey
  <2>2. row' = row /\ mcm' = mcm /\ registered' = registered /\ faults' \in 0..MaxFaults
    BY <1>0, <1>7 DEF getJwsKey, Fault
  <2>3. /\ announced' \in Nat
        /\ End(w) \/ \E pc \in PublishPc : Step(w, pc) /\ worker[w].pc # "idle"
    BY <1>7, <2>1 DEF getJwsKey
  <2> QED
    BY <1>0, <1>2, <1>3, <2>2, <2>3 DEF Moves
<1>8. CASE publishJwsKey(w)
  BY <1>0, <1>2, <1>3, <1>8, PassTypes DEF Moves, publishJwsKey
<1>12. CASE PublishRefused(w)
  BY <1>0, <1>2, <1>3, <1>12, PassTypes DEF Moves, PublishRefused
<1>9. CASE VerifyJwsKey(w)
  BY <1>0, <1>2, <1>3, <1>9 DEF Moves, VerifyJwsKey
<1>10. CASE activate(w)
  <2>1. /\ worker[w].held \in Row /\ worker[w].held.role = "self" /\ CopyOf(worker[w].held)
        /\ CopyOf(row) /\ announced' \in Nat /\ byHand' = byHand
    BY <1>0, <1>10, PassTypes DEF activate, CopyInv, PassUnchanged
  <2>2. /\ row.role = "self" /\ row.pub # 0 /\ worker[w].held.pub # 0
        /\ "keyed" \notin byHand => worker[w].held.pub = row.pub
    BY <2>1 DEF CopyOf
  <2>3. row' \in Row /\ row'.role = "self" /\ row'.pub \in {row.pub, worker[w].held.pub}
    <3>1. PICK h : h = worker[w].held
      OBVIOUS
    <3>2. h \in Row /\ h.role = "self" /\ h.pub = worker[w].held.pub
      BY <2>1, <3>1
    <3>3. PICK n : n = [h EXCEPT !.enabled = TRUE, !.activated = TRUE]
      OBVIOUS
    <3>4. n \in Row /\ n.role = h.role /\ n.pub = h.pub
      BY <3>2, <3>3 DEF Row
    <3>5. row' = row \/ row' = n
      BY <1>10, <3>1, <3>3 DEF activate
    <3> QED
      BY <1>0, <2>2, <3>2, <3>4, <3>5
  <2>4. RowKept /\ CopyOf(row)'
    BY <2>1, <2>2, <2>3 DEF RowKept, CopyOf
  <2> QED
    BY <1>0, <1>2, <1>10, <2>1, <2>3, <2>4 DEF Moves, activate
<1>11. CASE PassFails(w)
  BY <1>0, <1>2, <1>3, <1>11, PassTypes DEF Moves, PassFails, Fault
<1> QED
  BY <1>4, <1>5, <1>6, <1>7, <1>8, <1>9, <1>10, <1>11, <1>12 DEF PublishPass

(* What operators, and others at MCM, do. *)
OperatorStep ==
  \/ LoadPolicy \/ LoadSigningKeys \/ ForeignKeyRegistered \/ HubRegisters
  \/ \E enabled \in BOOLEAN : UpdateJwsPolicy(enabled)
  \/ \E k \in ForeignKey, private \in BOOLEAN : AddSigningKeys(k, private)

LEMMA OperatorTypes ==
  ASSUME TypeOK, NEW o \in Request
  PROVE  /\ [operator EXCEPT ![o] = [pc |-> "save", held |-> row]] \in [Request -> [pc : {"idle", "save"}, held : Row]]
         /\ [operator EXCEPT ![o] = Idle] \in [Request -> [pc : {"idle", "save"}, held : Row]]
         /\ operator[o].held \in Row /\ Idle.pc = "idle" /\ Idle.held = NoRow
<1>1. Idle.pc = "idle" /\ Idle.held = NoRow /\ Idle \in [pc : {"idle", "save"}, held : Row]
  BY Rows DEF Idle
<1> QED
  BY <1>1 DEF TypeOK

LEMMA OperatorCopies ==
  ASSUME CopyInv, OperatorStep
  PROVE  Kept
<1>0. /\ TypeOK /\ row \in Row /\ CopyOf(row)
      /\ operator \in [Request -> [pc : {"idle", "save"}, held : Row]] /\ edits \in 0..MaxEdits
      /\ \A c \in Call : onboard[c].pc = "save" => onboard[c].key # 0
      /\ \A w \in Worker : worker[w].pc # "idle" => worker[w].held.role = "self"
      /\ operator["policy"].pc = "save" => operator["policy"].held.role # "none"
      /\ \A o \in Request : CopyOf(operator[o].held)
      /\ Request = {"policy", "keys"} /\ byHand \subseteq {"enabled", "keyed"}
  BY DEF CopyInv, TypeOK, Request
<1>1. ASSUME NEW o \in Request, OperatorUnchanged, row' \in Row, RowKept, CopyOf(row)', edits' \in 0..MaxEdits,
             byHand' \subseteq {"enabled", "keyed"},
             \/ operator' = [operator EXCEPT ![o] = [pc |-> "save", held |-> row]]
                /\ (o = "policy" => row.role # "none")
             \/ operator' = [operator EXCEPT ![o] = Idle]
      PROVE  Kept
  <2>1. TypeOK'
    BY <1>0, <1>1, OperatorTypes DEF TypeOK, OperatorUnchanged
  <2>2. Copied
    BY <1>0, <1>1, OperatorTypes DEF OperatorUnchanged, Copied
  <2>3. StepOK
    BY <1>0, <1>1, OperatorTypes DEF OperatorUnchanged, StepOK
  <2> QED
    BY <1>1, <2>1, <2>2, <2>3, CopyFrame
<1>2. CASE LoadPolicy \/ LoadSigningKeys
  <2>1. row' = row /\ byHand' = byHand /\ edits' \in 0..MaxEdits
    BY <1>0, <1>2 DEF LoadPolicy, LoadSigningKeys, Load
  <2>2. RowKept /\ CopyOf(row)'
    BY <1>0, <2>1, RowCopy
  <2> QED
    BY <1>0, <1>1, <1>2, <2>1, <2>2 DEF LoadPolicy, LoadSigningKeys, Load
<1>3. CASE ForeignKeyRegistered \/ HubRegisters
  <2>0. foreign \in 0..MaxForeign /\ mcm \in Key
    BY <1>0 DEF TypeOK
  <2>1. mcm' \in Key /\ foreign' \in 0..MaxForeign /\ registered' \in BOOLEAN
    <3>1. CASE ForeignKeyRegistered
      BY <2>0, <3>1 DEF ForeignKeyRegistered, Key
    <3>2. CASE HubRegisters
      BY <2>0, <3>2 DEF HubRegisters
    <3> QED
      BY <1>3, <3>1, <3>2
  <2>2. TypeOK'
    BY <1>0, <1>3, <2>1 DEF TypeOK, ForeignKeyRegistered, HubRegisters
  <2> QED
    BY <1>0, <1>3, <2>2, SameRows DEF ForeignKeyRegistered, HubRegisters
<1>4. ASSUME NEW enabled \in BOOLEAN, UpdateJwsPolicy(enabled)
      PROVE  Kept
  <2>0. PICK held \in Row : held = operator["policy"].held /\ held.role # "none" /\ CopyOf(held)
    BY <1>0, <1>4, OperatorTypes DEF UpdateJwsPolicy
  <2>1. row' \in Row /\ row'.role = held.role /\ row'.pub = held.pub
    BY <1>4, <2>0 DEF UpdateJwsPolicy, Row
  <2>2. byHand \subseteq byHand' /\ byHand' \subseteq {"enabled", "keyed"}
        /\ ("keyed" \in byHand' => "keyed" \in byHand)
    BY <1>0, <1>4 DEF UpdateJwsPolicy
  <2>3. RowKept /\ CopyOf(row)'
    BY <2>0, <2>1, <2>2 DEF RowKept, CopyOf
  <2> QED
    BY <1>0, <1>1, <1>4, <2>1, <2>2, <2>3 DEF UpdateJwsPolicy
<1>5. ASSUME NEW k \in ForeignKey, NEW private \in BOOLEAN, AddSigningKeys(k, private)
      PROVE  Kept
  <2>0. PICK held \in Row : held = operator["keys"].held /\ CopyOf(held)
    BY <1>0, OperatorTypes
  <2>1. k \in Key /\ k # 0
    BY Rows DEF ForeignKey
  <2>2. PICK role \in {"self", "peer"} :
          role = IF held.role # "none" THEN held.role ELSE IF private THEN "self" ELSE "peer"
    BY <2>0 DEF Row
  <2>3. CASE /\ held.role = "none" => row.role = "none"
             /\ row' = [held EXCEPT !.role = role, !.pub = k]
             /\ byHand' = byHand \cup IF role = "self" THEN {"keyed"} ELSE {}
    <3>1. row' \in Row /\ row'.role = role /\ row'.pub = k
      BY <2>0, <2>1, <2>2, <2>3 DEF Row
    <3>2. byHand \subseteq byHand' /\ byHand' \subseteq {"enabled", "keyed"}
          /\ (role = "self" => "keyed" \in byHand')
      BY <1>0, <2>3
    <3>3. row.role # "none" => row.role = role
      BY <2>0, <2>2, <2>3 DEF CopyOf
    <3>4. RowKept /\ CopyOf(row)'
      BY <2>1, <3>1, <3>2, <3>3 DEF RowKept, CopyOf
    <3> QED
      BY <1>0, <1>1, <1>5, <3>1, <3>2, <3>4 DEF AddSigningKeys
  <2>4. CASE row' = row /\ byHand' = byHand
    <3>1. RowKept /\ CopyOf(row)'
      BY <1>0, <2>4, RowCopy
    <3> QED
      BY <1>0, <1>1, <1>5, <2>4, <3>1 DEF AddSigningKeys
  <2> QED
    BY <1>5, <2>0, <2>2, <2>3, <2>4 DEF AddSigningKeys
<1> QED
  BY <1>2, <1>3, <1>4, <1>5 DEF OperatorStep

LEMMA ReadCopies ==
  ASSUME CopyInv, SyncPeer \/ Replicate \/ LoadRows \/ SwapMaps
  PROVE  Kept
<1>0. /\ TypeOK /\ row \in Row /\ replica \in Row /\ CopyOf(replica) /\ mcm \in Key
      /\ cache \in [priv : 0..MaxKeys, loading : BOOLEAN, signs : BOOLEAN]
      /\ vault \in 0..MaxKeys /\ faults \in 0..MaxFaults
      /\ \A c \in Call : onboard[c].pc = "save" => onboard[c].key # 0
      /\ \A w \in Worker : worker[w].pc # "idle" => worker[w].held.role = "self"
      /\ operator["policy"].pc = "save" => operator["policy"].held.role # "none"
      /\ CopyOf(row)
  BY DEF CopyInv, TypeOK
<1>1. ReadUnchanged
  BY DEF SyncPeer, Replicate, LoadRows, SwapMaps
<1>2. CASE SyncPeer
  <2>1. row.role \in {"none", "peer"} /\ row' \in Row /\ row'.role = "peer"
    <3>1. CASE replica.role = "none" /\ row.role = "none" /\ row' = [NoRow EXCEPT !.role = "peer", !.pub = mcm]
      BY <1>0, <3>1, Rows DEF NoRow, Row
    <3>2. CASE replica.role = "peer" /\ row' = [replica EXCEPT !.pub = mcm]
      BY <1>0, <3>2 DEF CopyOf, Row
    <3> QED
      BY <1>2, <3>1, <3>2 DEF SyncPeer
  <2>2. TypeOK'
    BY <1>0, <1>1, <1>2, <2>1 DEF TypeOK, SyncPeer, ReadUnchanged
  <2>3. RowKept
    BY <1>1, <2>1 DEF RowKept, ReadUnchanged
  <2>4. Copied
    BY <1>1, <1>2 DEF SyncPeer, ReadUnchanged, Copied
  <2>5. StepOK
    BY <1>0, <1>1, <2>1 DEF ReadUnchanged, StepOK, CopyOf
  <2> QED
    BY <2>2, <2>3, <2>4, <2>5, CopyFrame
<1>3. ASSUME row' = row, replica' \in {replica, row}, faults' \in 0..MaxFaults,
             cache' \in [priv : 0..MaxKeys, loading : BOOLEAN, signs : BOOLEAN]
      PROVE  Kept
  <2>1. TypeOK'
    BY <1>0, <1>1, <1>3 DEF TypeOK, ReadUnchanged
  <2>2. RowKept /\ CopyOf(row)'
    BY <1>0, <1>1, <1>3, RowCopy DEF ReadUnchanged
  <2>3. Copied
    BY <1>1, <1>3 DEF ReadUnchanged, Copied
  <2>4. StepOK
    BY <1>0, <1>1, <1>3, <2>2 DEF ReadUnchanged, StepOK
  <2> QED
    BY <2>1, <2>2, <2>3, <2>4, CopyFrame
<1>4. CASE Replicate
  BY <1>0, <1>3, <1>4 DEF Replicate
<1>5. CASE LoadRows
  BY <1>0, <1>3, <1>5 DEF LoadRows, isSigningTenant, Row
<1>6. CASE SwapMaps
  <2>1. PICK p : p \in 0..MaxKeys /\ cache' = [priv |-> p, loading |-> FALSE, signs |-> FALSE]
    BY <1>0, <1>6 DEF SwapMaps, resolve
  <2>2. row' = row /\ replica' = replica /\ faults' \in 0..MaxFaults
    BY <1>0, <1>6 DEF SwapMaps, Fault
  <2> QED
    BY <1>3, <2>1, <2>2
<1> QED
  BY <1>2, <1>4, <1>5, <1>6

LEMMA NextKept == CopyInv /\ [Next]_vars => Kept
<1> SUFFICES ASSUME CopyInv, [Next]_vars PROVE Kept
  OBVIOUS
<1>1. CASE UNCHANGED vars
  <2>1. TypeOK'
    BY <1>1 DEF vars, TypeOK, CopyInv
  <2> QED
    BY <1>1, <2>1, SameRows DEF vars, CopyInv
<1> QED
  BY <1>1, OnboardCopies, PassCopies, OperatorCopies, ReadCopies DEF Next, OperatorStep

LEMMA InitCopies == Init => CopyInv
<1> SUFFICES ASSUME Init PROVE CopyInv
  OBVIOUS
<1>1. Idle.pc = "idle" /\ Idle.held = NoRow /\ Idle \in [pc : {"idle", "save"}, held : Row]
      /\ Idle \in [pc : PublishPc, held : Row]
  BY Rows DEF Idle, PublishPc
<1>2. TypeOK
  <2>1. 0 \in 0..MaxKeys /\ 0 \in 0..MaxEdits /\ 0 \in 0..MaxForeign /\ 0 \in 0..MaxFaults
    OBVIOUS
  <2>2. onboard \in [Call -> [pc : {"idle", "provision", "save", "announce"}, key : 0..MaxKeys]]
    BY <2>1 DEF Init
  <2>3. worker \in [Worker -> [pc : PublishPc, held : Row]]
    BY <1>1 DEF Init
  <2>4. cache \in [priv : 0..MaxKeys, loading : BOOLEAN, signs : BOOLEAN]
    BY <2>1 DEF Init
  <2> QED
    BY <1>1, <2>1, <2>2, <2>3, <2>4, Rows DEF Init, TypeOK
<1>3. CopyOf(NoRow) /\ NoRow.role = "none"
  BY Fresh, Rows
<1> QED
  BY <1>1, <1>2, <1>3 DEF Init, CopyInv, CopyOf, Request

-----------------------------------------------------------------------------
(* The types, and what every stale copy still says of the row: its role and,  *)
(* for a tenant, its key.                                                     *)
THEOREM CopiesFaithful == Spec => []CopyInv
<1>1. CopyInv /\ [Next]_vars => CopyInv'
  BY NextKept DEF Kept
<1> QED
  BY InitCopies, <1>1, PTL DEF Spec

(* TenantKept: no peer sync, policy update or pass of trust-manager, however  *)
(* stale the row it saves, takes a tenant's role away, or its key while no    *)
(* operator replaced that.                                                    *)
THEOREM TenantsStay == Spec => TenantKept
<1>1. CopyInv /\ [Next]_vars
        => [row.role = "self" =>
              /\ row'.role = "self"
              /\ "keyed" \notin byHand' => row'.pub = row.pub]_vars
  BY NextKept DEF Kept, RowKept
<1> QED
  BY CopiesFaithful, <1>1, PTL DEF Spec, TenantKept

(* SuspensionRespected: the only step of a pass that switches signing on is   *)
(* activate, and it leaves a tenant it loaded as activated alone.             *)
THEOREM SuspensionsStay == Spec => SuspensionRespected
<1>1. ASSUME CopyInv, [Next]_vars, NEW w \in Worker,
             worker[w].held.activated, ~row.enabled, row'.enabled
      PROVE  worker'[w] = worker[w]
  <2>0. /\ row \in Row /\ worker \in [Worker -> [pc : PublishPc, held : Row]]
        /\ ~(row' = row)
    BY <1>1 DEF CopyInv, TypeOK
  <2>1. CASE \E v \in Worker : PublishPass(v) \/ PassFails(v)
    <3>1. PICK v \in Worker : activate(v)
      BY <2>0, <2>1 DEF PublishPass, PassFails, Consume, Reconcile, ensureRegistered, getJwsKey,
           publishJwsKey, PublishRefused, VerifyJwsKey
    <3>2. ~worker[v].held.activated
      BY <2>0, <3>1 DEF activate
    <3>3. v # w
      BY <1>1, <3>2
    <3> QED
      BY <2>0, <3>1, <3>3 DEF activate, End
  <2>2. CASE ~(\E v \in Worker : PublishPass(v) \/ PassFails(v))
    <3>1. CASE UNCHANGED vars
      BY <3>1 DEF vars
    <3>2. CASE \E c \in Call : Onboard(c)
      BY <3>2 DEF Onboard, OnboardFsp, provision, provisionSigningKey, Announce, OnboardFails, OnboardUnchanged
    <3>3. CASE OperatorStep
      <4>1. ASSUME NEW enabled \in BOOLEAN, UpdateJwsPolicy(enabled) PROVE worker' = worker
        BY <4>1 DEF UpdateJwsPolicy, OperatorUnchanged
      <4>2. ASSUME NEW k \in ForeignKey, NEW private \in BOOLEAN, AddSigningKeys(k, private)
            PROVE  worker' = worker
        BY <4>2 DEF AddSigningKeys, OperatorUnchanged
      <4>3. LoadPolicy \/ LoadSigningKeys \/ ForeignKeyRegistered \/ HubRegisters => worker' = worker
        BY DEF LoadPolicy, LoadSigningKeys, Load, OperatorUnchanged, ForeignKeyRegistered, HubRegisters
      <4> QED
        BY <3>3, <4>1, <4>2, <4>3 DEF OperatorStep
    <3>4. CASE SyncPeer \/ Replicate \/ LoadRows \/ SwapMaps
      BY <3>4 DEF SyncPeer, Replicate, LoadRows, SwapMaps, ReadUnchanged
    <3> QED
      BY <1>1, <2>2, <3>1, <3>2, <3>3, <3>4 DEF Next, OperatorStep
  <2> QED
    BY <2>1, <2>2
<1>2. CopyInv /\ [Next]_vars
        => [\A w \in Worker : worker[w].held.activated /\ ~row.enabled /\ row'.enabled
              => worker'[w] = worker[w]]_vars
  BY <1>1
<1> QED
  BY CopiesFaithful, <1>2, PTL DEF Spec, SuspensionRespected

-----------------------------------------------------------------------------
(* What the cache signs verifies, where onboarding requests do not overlap.  *)

(* What a step may do to the key at MCM: leave it, publish the tenant's, or  *)
(* replace it while the id is not a tenant here.                             *)
McmKept == mcm' \in Key /\ (mcm' = mcm \/ mcm' = row.pub \/ row.role # "self")

(* A step before operators did anything that the code leaves to them. *)
Untouched == CopyInv /\ Verified /\ byHand = {} /\ byHand' = {}

LEMMA ConfirmedStay ==
  ASSUME McmKept, Untouched
  PROVE  \A r : CopyOf(r) /\ Confirmed(r) => Confirmed(r)'
BY DEF McmKept, CopyOf, Confirmed, Untouched

(* The copies stay confirmed. *)
LEMMA CopiesConfirmed ==
  ASSUME Untouched, Kept, McmKept
  PROVE  /\ Confirmed(replica)'
         /\ \A o \in Request : Confirmed(operator[o].held)'
         /\ \A w \in Worker : Confirmed(worker[w].held)'
<1>1. /\ CopyOf(row) /\ CopyOf(replica) /\ \A o \in Request : CopyOf(operator[o].held)
      /\ \A w \in Worker : CopyOf(worker[w].held)
      /\ Confirmed(row) /\ Confirmed(replica) /\ \A o \in Request : Confirmed(operator[o].held)
      /\ \A w \in Worker : Confirmed(worker[w].held)
  BY DEF Untouched, Verified, CopyInv
<1>2. Confirmed(NoRow) /\ CopyOf(NoRow)
  BY Fresh DEF Confirmed, NoRow
<1>3. \A r : CopyOf(r) /\ Confirmed(r) => Confirmed(r)'
  BY ConfirmedStay
<1>4. /\ CopyOf(replica') /\ Confirmed(replica')
      /\ \A o \in Request : CopyOf(operator'[o].held) /\ Confirmed(operator'[o].held)
      /\ \A w \in Worker : CopyOf(worker'[w].held) /\ Confirmed(worker'[w].held)
  BY <1>1, <1>2 DEF Kept, Copied
<1>5. Confirmed(replica)'
  <2>1. PICK x : x = replica'
    OBVIOUS
  <2>2. Confirmed(x)'
    BY <1>3, <1>4, <2>1
  <2> QED
    BY <2>1, <2>2 DEF Confirmed
<1>6. ASSUME NEW o \in Request
      PROVE  Confirmed(operator[o].held)'
  <2>1. PICK h : h = operator'[o].held
    OBVIOUS
  <2>2. Confirmed(h)'
    BY <1>3, <1>4, <2>1
  <2> QED
    BY <2>1, <2>2 DEF Confirmed
<1>10. ASSUME NEW w \in Worker
       PROVE  Confirmed(worker[w].held)'
  <2>1. PICK h : h = worker'[w].held
    OBVIOUS
  <2>2. Confirmed(h)'
    BY <1>3, <1>4, <2>1
  <2> QED
    BY <2>1, <2>2 DEF Confirmed
<1> QED
  BY <1>5, <1>6, <1>10

(* What is left of Verified' to show of each action. *)
Sound ==
  /\ row'.role = "self" => /\ vault' = row'.pub
                           /\ \A c \in Call : onboard'[c].pc \in {"idle", "announce"}
  /\ \A c \in Call : onboard'[c].pc = "save" => vault' = onboard'[c].key
  /\ Confirmed(row)'
  /\ \A w \in Worker : worker'[w].pc = "activate" => mcm' = worker'[w].held.pub
  /\ cache'.signs => row'.role = "self" /\ mcm' = row'.pub
  /\ cache'.priv # 0 => row'.role = "self" /\ cache'.priv = row'.pub /\ mcm' = row'.pub

LEMMA VerifyFrame ==
  ASSUME Untouched, Kept, McmKept, Sound
  PROVE  Verified'
BY CopiesConfirmed DEF Verified, Sound

(* Onboarding: the key is in Vault before the row exists, and nobody else writes it. *)
LEMMA OnboardVerify ==
  ASSUME Untouched, Kept, OneOnboarding, NEW c \in Call, Onboard(c)
  PROVE  Verified'
<1>0. /\ CopyInv /\ TypeOK /\ row \in Row /\ onboard[c].key \in 0..MaxKeys
      /\ mcm \in Key /\ onboard \in [Call -> [pc : {"idle", "provision", "save", "announce"}, key : 0..MaxKeys]]
      /\ CopyOf(row)
      /\ \A d \in Call : d = c
  BY DEF Untouched, Verified, CopyInv, TypeOK, OneOnboarding
<1>1. OnboardUnchanged
  BY DEF Onboard, OnboardFsp, provision, provisionSigningKey, Announce, OnboardFails
<1>2. McmKept
  BY <1>0, <1>1 DEF McmKept, OnboardUnchanged
<1>3. \A w \in Worker : worker'[w].pc = "activate" => mcm' = worker'[w].held.pub
  BY <1>1 DEF OnboardUnchanged, Untouched, Verified
<1>4. ASSUME row' = row
      PROVE  /\ Confirmed(row)'
             /\ cache'.signs => row'.role = "self" /\ mcm' = row'.pub
             /\ cache'.priv # 0 => row'.role = "self" /\ cache'.priv = row'.pub /\ mcm' = row'.pub
  BY <1>1, <1>4 DEF OnboardUnchanged, Untouched, Verified, Confirmed
<1>5. CASE OnboardFsp(c)
  <2>1. row.role # "self" /\ row' = row /\ onboard' = [onboard EXCEPT ![c].pc = "provision"]
    BY <1>0, <1>5 DEF OnboardFsp, holdsKey, CopyOf
  <2>2. Sound
    BY <1>0, <1>3, <1>4, <2>1 DEF Sound
  <2> QED
    BY <1>2, <2>2, VerifyFrame
<1>6. CASE provision(c)
  <2>1. row.role # "self" /\ row' = row /\ onboard' = [onboard EXCEPT ![c] = [pc |-> "save", key |-> made + 1]]
        /\ vault' = made + 1
    BY <1>0, <1>6 DEF provision, Untouched, Verified
  <2>2. Sound
    BY <1>0, <1>3, <1>4, <2>1 DEF Sound
  <2> QED
    BY <1>2, <2>2, VerifyFrame
<1>7. CASE provisionSigningKey(c)
  <2>1. row.role # "self" /\ vault' = vault /\ onboard[c].pc = "save" /\ vault = onboard[c].key
    BY <1>0, <1>7 DEF provisionSigningKey, Untouched, Verified
  <2>2. CASE row.role = "none"
    <3>1. /\ row' = [NoRow EXCEPT !.role = "self", !.pub = onboard[c].key]
          /\ onboard' = [onboard EXCEPT ![c].pc = "announce"]
      BY <1>7, <2>2 DEF provisionSigningKey
    <3>2. row'.role = "self" /\ row'.pub = onboard[c].key /\ ~row'.enabled /\ ~row'.activated
      BY <1>0, <3>1, Rows DEF NoRow, Row
    <3>3. cache.priv = 0 /\ ~cache.signs /\ cache' = cache
      BY <1>1, <2>1 DEF Untouched, Verified, OnboardUnchanged
    <3>4. Confirmed(row)'
      BY <3>2 DEF Confirmed
    <3>5. \A d \in Call : onboard'[d].pc = "announce"
      BY <1>0, <3>1
    <3>6. Sound
      BY <1>3, <2>1, <3>2, <3>3, <3>4, <3>5 DEF Sound
    <3> QED
      BY <1>2, <3>6, VerifyFrame
  <2>3. CASE row.role # "none"
    <3>1. row' = row /\ onboard' = [onboard EXCEPT ![c].pc = "idle"]
      BY <1>7, <2>3 DEF provisionSigningKey
    <3>2. Sound
      BY <1>0, <1>3, <1>4, <2>1, <3>1 DEF Sound
    <3> QED
      BY <1>2, <3>2, VerifyFrame
  <2> QED
    BY <2>2, <2>3
<1>8. CASE Announce(c) \/ OnboardFails(c)
  <2>1. row' = row /\ onboard' = [onboard EXCEPT ![c].pc = "idle"] /\ vault' = vault
    BY <1>8 DEF Announce, OnboardFails
  <2>2. row.role = "self" => vault = row.pub
    BY DEF Untouched, Verified
  <2>3. Sound
    BY <1>0, <1>3, <1>4, <2>1, <2>2 DEF Sound
  <2> QED
    BY <1>2, <2>3, VerifyFrame
<1> QED
  BY <1>5, <1>6, <1>7, <1>8 DEF Onboard

(* Where onboarding and Vault are left alone, and the cached key is as it was. *)
LEMMA SoundFrame ==
  ASSUME Untouched, Kept, McmKept, UNCHANGED <<vault, onboard, cache>>,
         Confirmed(row)',
         \A w \in Worker : worker'[w].pc = "activate" => mcm' = worker'[w].held.pub,
         row'.role = "self" => row.role = "self"
  PROVE  Verified'
<1>1. row.role = "self" => row'.role = "self" /\ row'.pub = row.pub
  BY DEF Untouched, Kept, RowKept
<1>2. row'.role = "self" => /\ vault' = row'.pub
                            /\ \A c \in Call : onboard'[c].pc \in {"idle", "announce"}
  BY <1>1 DEF Untouched, Verified
<1>3. \A c \in Call : onboard'[c].pc = "save" => vault' = onboard'[c].key
  BY DEF Untouched, Verified
<1>4. /\ cache'.signs => row'.role = "self" /\ mcm' = row'.pub
      /\ cache'.priv # 0 => row'.role = "self" /\ cache'.priv = row'.pub /\ mcm' = row'.pub
  BY <1>1 DEF Untouched, Verified, McmKept
<1>5. Sound
  BY <1>2, <1>3, <1>4 DEF Sound
<1> QED
  BY <1>5, VerifyFrame

LEMMA PassVerify ==
  ASSUME Untouched, Kept, NEW w \in Worker, PublishPass(w) \/ PassFails(w)
  PROVE  Verified'
<1>0. /\ CopyInv /\ TypeOK /\ row \in Row /\ mcm \in Key /\ PassUnchanged
      /\ worker \in [Worker -> [pc : PublishPc, held : Row]] /\ Idle.pc = "idle"
      /\ \A v \in Worker : worker[v].pc = "activate" => mcm = worker[v].held.pub
      /\ \A v \in Worker : CopyOf(worker[v].held) /\ (worker[v].pc # "idle" => worker[v].held.role = "self")
  BY DEF Untouched, Verified, CopyInv, TypeOK, PublishPass, PassFails, Consume, Reconcile, ensureRegistered,
       getJwsKey, publishJwsKey, PublishRefused, VerifyJwsKey, activate, Idle
<1>1. \A v \in Worker : worker[v].pc # "idle" => row.role = "self" /\ worker[v].held.pub = row.pub
  BY <1>0 DEF CopyOf, Untouched
<1>2. Confirmed(row) /\ CopyOf(row) /\ UNCHANGED <<vault, onboard, cache>>
  BY <1>0 DEF Untouched, Verified, CopyInv, PassUnchanged
<1>3. ASSUME row' = row, McmKept,
             \A v \in Worker : worker'[v].pc = "activate" => mcm' = worker'[v].held.pub
      PROVE  Verified'
  <2>1. Confirmed(row)'
    BY <1>2, <1>3 DEF Confirmed, McmKept
  <2> QED
    BY <1>2, <1>3, <2>1, SoundFrame
<1>4. ASSUME row' = row, mcm' = mcm,
             End(w) \/ worker' = worker \/ (\E pc \in PublishPc : Step(w, pc) /\ (pc = "activate" => mcm = worker[w].held.pub))
               \/ worker' = [worker EXCEPT ![w] = [pc |-> "register", held |-> row]]
      PROVE  Verified'
  <2>1. McmKept
    BY <1>0, <1>2, <1>4 DEF McmKept
  <2>2. \A v \in Worker : worker'[v].pc = "activate" => mcm' = worker'[v].held.pub
    BY <1>0, <1>4 DEF End, Step
  <2> QED
    BY <1>3, <1>4, <2>1, <2>2
<1>5. CASE Consume(w) \/ Reconcile(w) \/ PublishRefused(w)
  BY <1>4, <1>5 DEF Consume, Reconcile, PublishRefused
<1>6. CASE ensureRegistered(w)
  BY <1>4, <1>6 DEF ensureRegistered, PublishPc
<1>7. CASE getJwsKey(w)
  <2>1. row' = row /\ mcm' = mcm /\ (ChooseByStored(w, mcm) \/ ChooseByStored(w, 0)) /\ worker[w].pc = "read"
    BY <1>7 DEF getJwsKey
  <2>2. worker[w].held.pub # 0
    BY <1>0, <1>1, <1>2, <2>1 DEF CopyOf
  <2>3. End(w) \/ \E pc \in PublishPc : Step(w, pc) /\ (pc = "activate" => mcm = worker[w].held.pub)
    BY <2>1, <2>2 DEF ChooseByStored, PublishPc
  <2> QED
    BY <1>4, <2>1, <2>3
<1>8. CASE VerifyJwsKey(w)
  BY <1>4, <1>8 DEF VerifyJwsKey, PublishPc
<1>9. CASE publishJwsKey(w)
  <2>1. row' = row /\ mcm' = worker[w].held.pub /\ Step(w, "verify") /\ mcm' = row.pub
    BY <1>1, <1>9 DEF publishJwsKey
  <2>2. McmKept
    BY <1>0, <1>2, <2>1, Rows DEF McmKept
  <2>3. \A v \in Worker : worker'[v].pc = "activate" => mcm' = worker'[v].held.pub
    BY <1>0, <1>1, <2>1 DEF Step
  <2> QED
    BY <1>3, <2>1, <2>2, <2>3
<1>10. CASE PassFails(w)
  <2>1. row' = row /\ End(w) /\ (mcm' = mcm \/ (worker[w].pc = "publish" /\ mcm' = worker[w].held.pub))
    BY <1>10 DEF PassFails
  <2>2. mcm' = mcm \/ mcm' = row.pub
    BY <1>1, <2>1
  <2>3. McmKept
    BY <1>0, <1>2, <2>2, Rows DEF McmKept
  <2>4. \A v \in Worker : worker'[v].pc = "activate" => mcm' = worker'[v].held.pub
    BY <1>0, <1>1, <2>1, <2>2 DEF End
  <2> QED
    BY <1>3, <2>1, <2>3, <2>4
<1>11. CASE activate(w)
  <2>1. /\ worker[w].held \in Row /\ mcm' = mcm /\ End(w) /\ row.role = "self"
        /\ mcm = worker[w].held.pub /\ worker[w].held.pub = row.pub
    BY <1>0, <1>1, <1>11 DEF activate
  <2>2. McmKept
    BY <1>0, <1>2, <2>1 DEF McmKept
  <2>3. \A v \in Worker : worker'[v].pc = "activate" => mcm' = worker'[v].held.pub
    BY <1>0, <2>1 DEF End
  <2>4. row'.pub = row.pub
    BY <2>1 DEF Kept, RowKept, Untouched
  <2>5. Confirmed(row)'
    BY <2>1, <2>4 DEF Confirmed
  <2> QED
    BY <1>2, <2>1, <2>2, <2>3, <2>5, SoundFrame
<1> QED
  BY <1>5, <1>6, <1>7, <1>8, <1>9, <1>10, <1>11 DEF PublishPass

LEMMA OperatorVerify ==
  ASSUME Untouched, Kept, OperatorStep
  PROVE  Verified'
<1>0. /\ CopyInv /\ TypeOK /\ row \in Row /\ mcm \in Key
      /\ Confirmed(row) /\ \A o \in Request : Confirmed(operator[o].held) /\ CopyOf(operator[o].held)
      /\ operator["policy"].pc = "save" => operator["policy"].held.role # "none"
      /\ \A w \in Worker : worker[w].pc = "activate" => mcm = worker[w].held.pub
      /\ \A w \in Worker : CopyOf(worker[w].held) /\ (worker[w].pc # "idle" => worker[w].held.role = "self")
      /\ Request = {"policy", "keys"}
  BY DEF Untouched, Verified, CopyInv, TypeOK, Request
<1>1. CASE LoadPolicy \/ LoadSigningKeys \/ HubRegisters
  <2>1. UNCHANGED <<row, vault, onboard, cache, mcm, worker>>
    BY <1>1 DEF LoadPolicy, LoadSigningKeys, Load, OperatorUnchanged, HubRegisters
  <2>2. McmKept /\ Confirmed(row)'
    BY <1>0, <2>1 DEF McmKept, Confirmed
  <2> QED
    BY <1>0, <2>1, <2>2, SoundFrame
<1>2. CASE ForeignKeyRegistered
  <2>1. UNCHANGED <<row, vault, onboard, cache, worker>> /\ row.role # "self"
    BY <1>2 DEF ForeignKeyRegistered
  <2>2. mcm' \in Key
    BY DEF Kept, CopyInv, TypeOK
  <2>3. McmKept /\ Confirmed(row)'
    BY <2>1, <2>2 DEF McmKept, Confirmed
  <2>4. \A w \in Worker : worker'[w].pc = "idle"
    BY <1>0, <2>1 DEF CopyOf
  <2> QED
    BY <2>1, <2>3, <2>4, SoundFrame
<1>3. ASSUME NEW enabled \in BOOLEAN, UpdateJwsPolicy(enabled)
      PROVE  Verified'
  <2>0. PICK held \in Row : /\ held = operator["policy"].held /\ held.role # "none"
                            /\ CopyOf(held) /\ Confirmed(held)
    BY <1>0, <1>3, OperatorTypes DEF UpdateJwsPolicy
  <2>1. /\ UNCHANGED <<vault, onboard, cache, mcm, worker>>
        /\ enabled => mcm = row.pub
        /\ row' = [held EXCEPT !.enabled = enabled, !.activated = @ \/ enabled]
    BY <1>3, <2>0 DEF UpdateJwsPolicy, OperatorUnchanged, Untouched
  <2>2. /\ row'.role = held.role /\ row'.pub = held.pub
        /\ row'.enabled = enabled /\ row'.activated = (held.activated \/ enabled)
    BY <2>0, <2>1 DEF Row
  <2>3. row.role = held.role /\ (row.role = "self" => held.pub = row.pub)
    BY <2>0 DEF CopyOf, Untouched
  <2>4. McmKept
    BY <1>0, <2>1 DEF McmKept
  <2>5. Confirmed(row)'
    <3>1. SUFFICES ASSUME row'.role = "self", row'.enabled \/ row'.activated
                   PROVE  mcm' = row'.pub
      BY DEF Confirmed
    <3>2. CASE enabled
      BY <2>1, <2>2, <2>3, <3>1, <3>2
    <3>3. CASE ~enabled
      <4>1. held.activated /\ held.role = "self"
        BY <2>1, <2>2, <3>1, <3>3
      <4> QED
        BY <2>0, <2>1, <2>2, <4>1 DEF Confirmed
    <3> QED
      BY <3>2, <3>3
  <2> QED
    BY <1>0, <2>1, <2>2, <2>3, <2>4, <2>5, SoundFrame
<1>4. ASSUME NEW k \in ForeignKey, NEW private \in BOOLEAN, AddSigningKeys(k, private)
      PROVE  Verified'
  <2>0. PICK held \in Row : held = operator["keys"].held /\ CopyOf(held)
    BY <1>0, OperatorTypes
  <2>1. UNCHANGED <<vault, onboard, cache, mcm, worker>>
    BY <1>4 DEF AddSigningKeys, OperatorUnchanged
  <2>2. row' = row \/ row'.role # "self"
    <3>1. PICK role : role = IF held.role # "none" THEN held.role ELSE IF private THEN "self" ELSE "peer"
      OBVIOUS
    <3>2. CASE row' = [held EXCEPT !.role = role, !.pub = k] /\ role # "self"
      BY <2>0, <3>2 DEF Row
    <3> QED
      BY <1>4, <2>0, <3>1, <3>2 DEF AddSigningKeys, Untouched
  <2>3. McmKept /\ Confirmed(row)'
    BY <1>0, <2>1, <2>2 DEF McmKept, Confirmed
  <2> QED
    BY <1>0, <2>1, <2>2, <2>3, SoundFrame
<1> QED
  BY <1>1, <1>2, <1>3, <1>4 DEF OperatorStep

LEMMA ReadVerify ==
  ASSUME Untouched, Kept, SyncPeer \/ Replicate \/ LoadRows \/ SwapMaps
  PROVE  Verified'
<1>0. /\ CopyInv /\ TypeOK /\ row \in Row /\ replica \in Row /\ mcm \in Key /\ Confirmed(row)
      /\ CopyOf(replica) /\ Confirmed(replica)
      /\ cache \in [priv : 0..MaxKeys, loading : BOOLEAN, signs : BOOLEAN]
      /\ \A w \in Worker : worker[w].pc = "activate" => mcm = worker[w].held.pub
  BY DEF Untouched, Verified, CopyInv, TypeOK
<1>1. UNCHANGED <<vault, mcm, onboard, worker>>
  BY DEF SyncPeer, Replicate, LoadRows, SwapMaps, ReadUnchanged
<1>2. McmKept
  BY <1>0, <1>1 DEF McmKept
<1>3. CASE SyncPeer
  <2>1. cache' = cache /\ row.role \in {"none", "peer"} /\ row'.role = "peer"
    <3>1. CASE replica.role = "none" /\ row.role = "none" /\ row' = [NoRow EXCEPT !.role = "peer", !.pub = mcm]
      BY <1>0, <1>3, <3>1, Rows DEF NoRow, Row, SyncPeer
    <3>2. CASE replica.role = "peer" /\ row' = [replica EXCEPT !.pub = mcm]
      BY <1>0, <1>3, <3>2 DEF CopyOf, Row, SyncPeer
    <3> QED
      BY <1>3, <3>1, <3>2 DEF SyncPeer
  <2>2. Confirmed(row)'
    BY <2>1 DEF Confirmed
  <2> QED
    BY <1>0, <1>1, <1>2, <2>1, <2>2, SoundFrame
<1>4. ASSUME row' = row, cache'.signs => cache.signs \/ isSigningTenant(replica),
             cache'.priv = cache.priv \/ cache'.priv = 0 \/ (cache.signs /\ cache'.priv = vault)
      PROVE  Verified'
  <2>1. Confirmed(row)'
    BY <1>0, <1>1, <1>4 DEF Confirmed
  <2>2. isSigningTenant(replica) => row.role = "self" /\ mcm = row.pub
    BY <1>0 DEF Untouched, isSigningTenant, CopyOf, Confirmed
  <2>3. /\ cache'.signs => row'.role = "self" /\ mcm' = row'.pub
        /\ cache'.priv # 0 => row'.role = "self" /\ cache'.priv = row'.pub /\ mcm' = row'.pub
    BY <1>1, <1>4, <2>2 DEF Untouched, Verified
  <2>4. Sound
    BY <1>0, <1>1, <1>4, <2>1, <2>3 DEF Sound, Untouched, Verified
  <2> QED
    BY <1>2, <2>4, VerifyFrame
<1>5. CASE Replicate
  BY <1>4, <1>5 DEF Replicate
<1>6. CASE LoadRows
  <2>1. row' = row /\ cache'.priv = cache.priv /\ cache'.signs = isSigningTenant(replica)
    BY <1>0, <1>6 DEF LoadRows
  <2> QED
    BY <1>4, <2>1
<1>7. CASE SwapMaps
  <2>1. /\ row' = row /\ ~cache'.signs
        /\ cache'.priv \in {resolve(cache.signs, vault), resolve(cache.signs, cache.priv)}
    BY <1>7 DEF SwapMaps
  <2> QED
    BY <1>4, <2>1 DEF resolve
<1> QED
  BY <1>3, <1>5, <1>6, <1>7

LEMMA VerifyStep ==
  ASSUME OneOnboarding, VerifyInv, [Next]_vars
  PROVE  VerifyInv'
<1>1. Kept
  BY NextKept DEF VerifyInv
<1>2. SUFFICES ASSUME byHand' = {}
               PROVE  Verified'
  BY <1>1 DEF VerifyInv, Kept
<1>3. Untouched
  BY <1>1, <1>2 DEF VerifyInv, Untouched, Kept, RowKept
<1>4. CASE UNCHANGED vars
  BY <1>3, <1>4 DEF vars, Untouched, Verified, Confirmed
<1> QED
  BY <1>1, <1>3, <1>4, OnboardVerify, PassVerify, OperatorVerify, ReadVerify DEF Next, OperatorStep

(* SignedVerifies, for any numbers of passes, operator requests, faults and   *)
(* keys: a key is published and read back before signing is switched on, the  *)
(* private half is in Vault before the row exists, and the cache takes both   *)
(* from the same snapshot.  Overlapping onboarding requests are excluded: two *)
(* could leave one's private key in Vault and the other's public key in the   *)
(* row.                                                                       *)
THEOREM SignaturesVerify ==
  ASSUME OneOnboarding
  PROVE  Spec => []SignedVerifies
<1>1. Init => VerifyInv
  <2> SUFFICES ASSUME Init PROVE VerifyInv
    OBVIOUS
  <2>1. CopyInv
    BY InitCopies
  <2>2. Idle.pc = "idle" /\ Idle.held = NoRow /\ NoRow.role = "none"
    BY Rows DEF Idle
  <2> QED
    BY <2>1, <2>2 DEF Init, VerifyInv, Verified, Confirmed, Request
<1>2. VerifyInv /\ [Next]_vars => VerifyInv'
  BY VerifyStep
<1>3. VerifyInv => SignedVerifies
  BY DEF VerifyInv, Verified, SignedVerifies
<1> QED
  BY <1>1, <1>2, <1>3, PTL DEF Spec
============================================================================
