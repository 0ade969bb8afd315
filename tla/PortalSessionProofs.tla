------------------------ MODULE PortalSessionProofs ------------------------
(***************************************************************************)
(* Proofs about PortalSession, for any number of tabs and any bounds: the  *)
(* absolute deadline of a session, the refusal of late answers, and that   *)
(* the portal's own tabs never present a refresh token twice.              *)
(***************************************************************************)
EXTENDS PortalSession, SequenceTheorems, TLAPS

USE TimeoutsAssumption, TabAssumption DEF Pc, User

-----------------------------------------------------------------------------
(* Sequences. *)

(* A sequence rewritten in place. *)
LEMMA Rewritten ==
  ASSUME NEW T, NEW s \in Seq(T), NEW z \in [DOMAIN s -> T]
  PROVE  z \in Seq(T) /\ Len(z) = Len(s) /\ DOMAIN z = DOMAIN s
<1>1. Len(s) \in Nat /\ DOMAIN s = 1..Len(s)
  BY LenProperties
<1>2. z \in Seq(T)
  BY <1>1, SeqDef
<1>3. DOMAIN z = 1..Len(s)
  BY <1>1
<1>4. Len(z) = Len(s)
  BY <1>1, <1>2, <1>3, LenProperties
<1> QED
  BY <1>1, <1>2, <1>3, <1>4

(* A sequence with one element more. *)
LEMMA Appended ==
  ASSUME NEW T, NEW s \in Seq(T), NEW x \in T
  PROVE  /\ Append(s, x) \in Seq(T)
         /\ Len(Append(s, x)) = Len(s) + 1
         /\ DOMAIN Append(s, x) = 1..(Len(s) + 1)
         /\ \A i \in 1..Len(s) : Append(s, x)[i] = s[i]
         /\ Append(s, x)[Len(s) + 1] = x
BY AppendProperties

-----------------------------------------------------------------------------
(* What the handlers do to the tokens. *)

(* A change of the tokens and logins that forgets none: what was issued keeps its *)
(* family and deadline, and what is new carries the deadline of its login.        *)
Extended ==
  /\ tokens' \in Seq(Token) /\ born' \in Seq(Nat)
  /\ Len(tokens) <= Len(tokens') /\ Len(born) <= Len(born')
  /\ \A i \in 1..Len(born) : born'[i] = born[i]
  /\ \A i \in 1..Len(tokens) : /\ tokens'[i].family = tokens[i].family
                               /\ tokens'[i].session = tokens[i].session
  /\ \A i \in 1..Len(tokens') : i > Len(tokens) => TokenOK(tokens[i])'

(* Revoking tokens in place. *)
LEMMA RevokeExtends ==
  ASSUME DeadlineInv, UNCHANGED born, tokens' \in [DOMAIN tokens -> Token],
         \A i \in DOMAIN tokens : /\ tokens'[i].family = tokens[i].family
                                  /\ tokens'[i].session = tokens[i].session
  PROVE  Extended /\ Len(tokens') = Len(tokens)
<1>1. tokens \in Seq(Token) /\ born \in Seq(Nat)
  BY DEF DeadlineInv, TypeOK
<1>2. tokens' \in Seq(Token) /\ Len(tokens') = Len(tokens)
  BY <1>1, Rewritten
<1>3. DOMAIN tokens = 1..Len(tokens) /\ Len(tokens) \in Nat /\ Len(born) \in Nat
  BY <1>1, LenProperties
<1>4. \A i \in 1..Len(tokens') : ~(i > Len(tokens))
  BY <1>2, <1>3
<1>5. \A i \in 1..Len(born) : born'[i] = born[i]
  OBVIOUS
<1>6. \A i \in 1..Len(tokens') : i > Len(tokens) => TokenOK(tokens[i])'
  BY <1>4
<1>7. Len(tokens) <= Len(tokens') /\ Len(born) <= Len(born')
  BY <1>2, <1>3
<1> QED
  BY <1>1, <1>2, <1>3, <1>5, <1>6, <1>7 DEF Extended

(* revokeFamily and revokeAllForUser are such changes. *)
LEMMA RevokedInPlace ==
  ASSUME DeadlineInv, NEW f
  PROVE  /\ revokeFamily(f) \in [DOMAIN tokens -> Token]
         /\ \A i \in DOMAIN tokens : /\ revokeFamily(f)[i].family = tokens[i].family
                                     /\ revokeFamily(f)[i].session = tokens[i].session
         /\ revokeAllForUser \in [DOMAIN tokens -> Token]
         /\ \A i \in DOMAIN tokens : /\ revokeAllForUser[i].family = tokens[i].family
                                     /\ revokeAllForUser[i].session = tokens[i].session
<1>1. \A i \in DOMAIN tokens : tokens[i] \in Token
  BY ElementOfSeq, LenProperties DEF DeadlineInv, TypeOK
<1> QED
  BY <1>1 DEF revokeFamily, revokeAllForUser, Token

(* A new token for a login known, or made, in the same step, after the old ones *)
(* were possibly revoked in place.                                              *)
LEMMA IssueExtends ==
  ASSUME DeadlineInv, NEW old \in [DOMAIN tokens -> Token], NEW k \in Token,
         tokens' = Append(old, k), born' \in Seq(Nat), Len(born) <= Len(born'),
         \A i \in 1..Len(born) : born'[i] = born[i],
         \A i \in DOMAIN tokens : /\ old[i].family = tokens[i].family
                                  /\ old[i].session = tokens[i].session,
         k.family \in DOMAIN born', k.session = born'[k.family] + Abs
  PROVE  Extended /\ Len(tokens') = Len(tokens) + 1 /\ tokens'[Len(tokens) + 1] = k
<1>1. tokens \in Seq(Token)
  BY DEF DeadlineInv, TypeOK
<1>2. old \in Seq(Token) /\ Len(old) = Len(tokens)
  BY <1>1, Rewritten
<1>3. DOMAIN tokens = 1..Len(tokens) /\ Len(tokens) \in Nat
  BY <1>1, LenProperties
<1>4. /\ tokens' \in Seq(Token) /\ Len(tokens') = Len(tokens) + 1
      /\ \A i \in 1..Len(tokens) : tokens'[i] = old[i]
      /\ tokens'[Len(tokens) + 1] = k
  BY <1>2, Appended
<1>5. ASSUME NEW i \in 1..Len(tokens'), i > Len(tokens)
      PROVE  TokenOK(tokens[i])'
  <2>1. i = Len(tokens) + 1
    BY <1>3, <1>4, <1>5
  <2>2. tokens'[i] = k
    BY <1>4, <2>1
  <2> QED
    BY <2>2 DEF TokenOK
<1>6. Len(tokens) <= Len(tokens')
  BY <1>3, <1>4
<1>7. \A i \in 1..Len(tokens) : /\ tokens'[i].family = tokens[i].family
                                /\ tokens'[i].session = tokens[i].session
  BY <1>3, <1>4
<1> QED
  BY <1>4, <1>5, <1>6, <1>7 DEF Extended

-----------------------------------------------------------------------------
(* Frames: a step of the server, and one of a tab, keep DeadlineInv. *)

(* Families, answers and tabs survive an extension. *)
LEMMA ExtendedKeeps ==
  ASSUME DeadlineInv, Extended
  PROVE  /\ \A i \in DOMAIN tokens' : TokenOK(tokens[i])'
         /\ \A c : CallOK(c) => CallOK(c)'
         /\ \A r : TabOK(r) => TabOK(r)'
         /\ 0..Len(tokens) \subseteq 0..Len(tokens')
<1>1. /\ tokens \in Seq(Token) /\ born \in Seq(Nat)
      /\ DOMAIN tokens = 1..Len(tokens) /\ Len(tokens) \in Nat
      /\ DOMAIN born = 1..Len(born) /\ Len(born) \in Nat
  BY LenProperties DEF DeadlineInv, TypeOK
<1>2. /\ DOMAIN tokens' = 1..Len(tokens') /\ Len(tokens') \in Nat
      /\ DOMAIN born' = 1..Len(born') /\ Len(born') \in Nat
      /\ Len(tokens) <= Len(tokens') /\ Len(born) <= Len(born')
  BY LenProperties DEF Extended
<1>3. DOMAIN tokens \subseteq DOMAIN tokens' /\ DOMAIN born \subseteq DOMAIN born'
  BY <1>1, <1>2
<1>4. \A f \in DOMAIN born : born'[f] = born[f]
  BY <1>1 DEF Extended
<1>5. \A i \in DOMAIN tokens : /\ tokens'[i].family = tokens[i].family
                               /\ tokens'[i].session = tokens[i].session
  BY <1>1 DEF Extended
<1>6. ASSUME NEW i \in DOMAIN tokens'
      PROVE  TokenOK(tokens[i])'
  <2>1. CASE i \in DOMAIN tokens
    BY <1>3, <1>4, <1>5, <2>1 DEF DeadlineInv, TokenOK
  <2>2. CASE i \notin DOMAIN tokens
    <3>1. i \in 1..Len(tokens') /\ i > Len(tokens)
      BY <1>1, <1>2, <2>2
    <3> QED
      BY <3>1 DEF Extended
  <2> QED
    BY <2>1, <2>2
<1>7. 0..Len(tokens) \subseteq 0..Len(tokens')
  BY <1>1, <1>2
<1>8. \A c : CallOK(c) => CallOK(c)'
  BY <1>3, <1>5, <1>7 DEF CallOK
<1>9. \A r : TabOK(r) => TabOK(r)'
  BY <1>3, <1>4 DEF TabOK
<1> QED
  BY <1>6, <1>7, <1>8, <1>9

(* The server answers, or goes on with, the request in slot s, which becomes c. *)
LEMMA ServerFrame ==
  ASSUME DeadlineInv, Extended, NEW s \in Slot, NEW c \in Call, CallOK(c)',
         call' = [call EXCEPT ![s] = c],
         user' \in [active : BOOLEAN, invalidated : Nat], reused' \in BOOLEAN,
         UNCHANGED <<clock, cookie, stored, lock, tab, admin>>,
         faults' \in 0..MaxFaults
  PROVE  DeadlineInv'
<1>1. TypeOK'
  BY ExtendedKeeps DEF DeadlineInv, TypeOK, Extended
<1>2. \A p \in Slot : CallOK(call[p])'
  BY ExtendedKeeps DEF DeadlineInv, TypeOK
<1>3. \A t \in Tab : TabOK(tab[t])'
  BY ExtendedKeeps DEF DeadlineInv, TypeOK
<1> QED
  BY <1>1, <1>2, <1>3, ExtendedKeeps DEF DeadlineInv

(* The tab t changes its request to c and its own state to r. *)
LEMMA TabFrame ==
  ASSUME DeadlineInv, NEW t \in Tab, NEW c \in Call, NEW r \in TabRow, CallOK(c), TabOK(r),
         call' = [call EXCEPT ![t] = c], tab' = [tab EXCEPT ![t] = r],
         cookie' \in 0..Len(tokens), stored' \in Session, lock' \in Tab \cup {"free"},
         UNCHANGED <<clock, user, tokens, born, reused, admin, faults>>
  PROVE  DeadlineInv'
<1>1. TypeOK'
  BY DEF DeadlineInv, TypeOK, Slot
<1>2. \A p \in Slot : CallOK(call[p])'
  BY DEF DeadlineInv, TypeOK, CallOK, Slot
<1>3. \A p \in Tab : TabOK(tab[p])'
  BY DEF DeadlineInv, TypeOK, TabOK
<1>4. \A i \in DOMAIN tokens' : TokenOK(tokens[i])'
  BY DEF DeadlineInv, TokenOK
<1> QED
  BY <1>1, <1>2, <1>3, <1>4 DEF DeadlineInv

-----------------------------------------------------------------------------
(* The handlers keep DeadlineInv. *)

LEMMA NoCallOK ==
  ASSUME DeadlineInv
  PROVE  NoCall \in Call /\ CallOK(NoCall) /\ NoAccess \in Access
<1>1. NoAccess \in Access
  BY DEF NoAccess, Access
<1>2. NoCall \in Call
  BY <1>1 DEF NoCall, Call, CallKind
<1>3. Len(tokens) \in Nat
  BY LenProperties DEF DeadlineInv, TypeOK
<1> QED
  BY <1>1, <1>2, <1>3 DEF CallOK, NoCall, Granted, Rotating

(* The answer to a request. *)
LEMMA Replied ==
  ASSUME DeadlineInv, Extended, NEW s \in Slot, NEW status \in {200, 401, 500},
         NEW new \in Nat, NEW access \in Access, Reply(s, status, new, access),
         status = 200 /\ call[s].kind \in {"login", "refresh"}
           => new \in DOMAIN tokens' /\ access.exp <= tokens'[new].session
  PROVE  \E c \in Call : CallOK(c)' /\ call' = [call EXCEPT ![s] = c]
<1>1. CASE s = "orphan"
  <2>1. CallOK(NoCall)'
    BY NoCallOK, ExtendedKeeps
  <2> QED
    BY <1>1, <2>1, NoCallOK DEF Reply
<1>2. CASE s # "orphan"
  <2>1. call[s] \in Call /\ CallOK(call[s])
    BY DEF DeadlineInv, TypeOK
  <2> DEFINE d == [kind |-> call[s].kind, token |-> call[s].token, pc |-> "done",
                   status |-> status, new |-> new, access |-> access]
  <2>2. d \in Call
    BY <2>1 DEF Call
  <2>3. call' = [call EXCEPT ![s] = d]
    BY <1>2 DEF Reply
  <2>4. PICK c \in Call : c = d
    BY <2>2
  <2>5. Granted(c) => c.new \in DOMAIN tokens' /\ c.access.exp <= tokens'[c.new].session
    BY <2>4 DEF Granted, Rotating
  <2>6. c.pc = "done" /\ c.token \in 0..Len(tokens')
    BY <2>1, <2>4, ExtendedKeeps DEF CallOK
  <2>7. CallOK(c)'
    BY <2>5, <2>6 DEF CallOK, Rotating
  <2>8. call' = [call EXCEPT ![s] = c]
    BY <2>3, <2>4, Zenon
  <2> QED
    BY <2>7, <2>8
<1> QED
  BY <1>1, <1>2

(* Times and lifetimes are numbers. *)
LEMMA Times ==
  ASSUME DeadlineInv
  PROVE  /\ clock \in Nat /\ clock + Abs \in Nat /\ Len(born) \in Nat /\ Len(tokens) \in Nat
         /\ \A x \in Nat : /\ signAccessToken(x) \in Access /\ signAccessToken(x).exp <= x
                           /\ \A f \in Nat : issueRefreshToken(f, x) \in Token
         /\ \A f, x : /\ issueRefreshToken(f, x).family = f /\ issueRefreshToken(f, x).session = x
                      /\ issueRefreshToken(f, x).live
<1>1. clock \in Nat /\ Len(born) \in Nat /\ Len(tokens) \in Nat
  BY LenProperties DEF DeadlineInv, TypeOK
<1>2. \A x \in Nat : /\ Least(clock + Ttl, x) \in Nat /\ Least(clock + Ttl, x) <= x
                     /\ Least(clock + Idle, x) \in Nat
  BY <1>1 DEF Least
<1>3. clock + Abs \in Nat
  BY <1>1
<1>4. \A x \in Nat : signAccessToken(x) \in Access /\ signAccessToken(x).exp <= x
  BY <1>1, <1>2 DEF signAccessToken, Access
<1>5. \A x, f \in Nat : issueRefreshToken(f, x) \in Token
  BY <1>2 DEF issueRefreshToken, Token
<1>6. \A f, x : /\ issueRefreshToken(f, x).family = f /\ issueRefreshToken(f, x).session = x
              /\ issueRefreshToken(f, x).live
  BY DEF issueRefreshToken
<1> QED
  BY <1>1, <1>3, <1>4, <1>5, <1>6

LEMMA LoginKeeps ==
  ASSUME DeadlineInv, NEW s \in Slot, LoginHandler(s)
  PROVE  DeadlineInv'
<1>1. CASE user.active
  <2> DEFINE k == issueRefreshToken(Len(born) + 1, clock + Abs)
  <2>1. tokens' = Append(tokens, k) /\ born' = Append(born, clock)
    BY <1>1 DEF LoginHandler
  <2>2. tokens \in Seq(Token) /\ born \in Seq(Nat) /\ tokens \in [DOMAIN tokens -> Token]
    BY LenProperties, ElementOfSeq DEF DeadlineInv, TypeOK
  <2>3. k \in Token /\ k.family = Len(born) + 1 /\ k.session = clock + Abs
    BY Times
  <2>4. /\ born' \in Seq(Nat) /\ Len(born') = Len(born) + 1
        /\ DOMAIN born' = 1..(Len(born) + 1)
        /\ \A i \in 1..Len(born) : born'[i] = born[i]
        /\ born'[Len(born) + 1] = clock
    BY <2>1, <2>2, Times, Appended
  <2>5. k.family \in DOMAIN born' /\ k.session = born'[k.family] + Abs /\ Len(born) <= Len(born')
    BY <2>3, <2>4, Times
  <2>6. Extended /\ Len(tokens') = Len(tokens) + 1 /\ tokens'[Len(tokens) + 1] = k
    BY <2>1, <2>2, <2>3, <2>4, <2>5, IssueExtends
  <2>7. Len(tokens) + 1 \in DOMAIN tokens'
    BY <2>6, Times, LenProperties DEF Extended
  <2>8. Reply(s, 200, Len(tokens) + 1, signAccessToken(clock + Abs))
    BY <1>1 DEF LoginHandler
  <2>9. PICK c \in Call : CallOK(c)' /\ call' = [call EXCEPT ![s] = c]
    BY <2>3, <2>6, <2>7, <2>8, Times, Replied
  <2> QED
    BY <2>6, <2>9, ServerFrame DEF LoginHandler, ServerUnchanged, DeadlineInv, TypeOK
<1>2. CASE ~user.active
  <2>1. UNCHANGED <<tokens, born>> /\ Reply(s, 401, 0, NoAccess)
    BY <1>2 DEF LoginHandler
  <2>2. Extended
    BY <2>1, RevokeExtends, ElementOfSeq, LenProperties DEF DeadlineInv, TypeOK
  <2>3. PICK c \in Call : CallOK(c)' /\ call' = [call EXCEPT ![s] = c]
    BY <2>1, <2>2, NoCallOK, Replied
  <2> QED
    BY <2>2, <2>3, ServerFrame DEF LoginHandler, ServerUnchanged, DeadlineInv, TypeOK
<1> QED
  BY <1>1, <1>2

(* Tokens as they are, or revoked in place, are an extension. *)
LEMMA SameTokens ==
  ASSUME DeadlineInv, UNCHANGED <<tokens, born>>
  PROVE  Extended
BY RevokeExtends, ElementOfSeq, LenProperties DEF DeadlineInv, TypeOK

(* A request moves on to pc. *)
LEMMA Moved ==
  ASSUME DeadlineInv, NEW s \in Slot, NEW pc \in Pc
  PROVE  \E c \in Call : /\ [call EXCEPT ![s].pc = pc] = [call EXCEPT ![s] = c]
                         /\ c.kind = call[s].kind /\ c.token = call[s].token /\ c.pc = pc
                         /\ c.status = call[s].status /\ c.new = call[s].new
<1>1. call[s] \in Call /\ call \in [Slot -> Call]
  BY DEF DeadlineInv, TypeOK
<1>2. PICK c \in Call : c = [call[s] EXCEPT !.pc = pc]
  <2>1. [call[s] EXCEPT !.pc = pc] \in Call
    BY <1>1 DEF Call
  <2> QED
    BY <2>1, Zenon
<1>3. /\ c.kind = call[s].kind /\ c.token = call[s].token /\ c.pc = pc
      /\ c.status = call[s].status /\ c.new = call[s].new
  BY <1>1, <1>2 DEF Call
<1>4. [call EXCEPT ![s].pc = pc] = [call EXCEPT ![s] = c]
  BY <1>1, <1>2
<1> QED
  BY <1>3, <1>4

(* A rotation notes its replacement. *)
LEMMA Noted ==
  ASSUME DeadlineInv, NEW s \in Slot, SaveReplacement(s)
  PROVE  \E c \in Call : /\ call' = [call EXCEPT ![s] = c]
                         /\ c.kind = "refresh" /\ c.token = call[s].token /\ c.pc = "saved"
                         /\ c.status = 0 /\ c.new = Len(tokens) + 1
<1>1. call[s] \in Call /\ Len(tokens) + 1 \in Nat /\ NoAccess \in Access
  BY Times, NoCallOK DEF DeadlineInv, TypeOK
<1> DEFINE d == [kind |-> call[s].kind, token |-> call[s].token, pc |-> "saved",
                 status |-> 0, new |-> Len(tokens) + 1, access |-> NoAccess]
<1>2. d \in Call
  BY <1>1 DEF Call
<1>3. call' = [call EXCEPT ![s] = d] /\ d.kind = "refresh"
  BY DEF SaveReplacement
<1>4. /\ d.token = call[s].token /\ d.pc = "saved" /\ d.status = 0
      /\ d.new = Len(tokens) + 1
  OBVIOUS
<1> HIDE DEF d
<1> QED
  BY <1>2, <1>3, <1>4

LEMMA RefreshCheckKeeps ==
  ASSUME DeadlineInv, NEW s \in Slot, RefreshCheck(s)
  PROVE  DeadlineInv'
<1>0. UNCHANGED born /\ reused' \in BOOLEAN
  BY DEF RefreshCheck, DeadlineInv, TypeOK
<1>1. CASE Reply(s, 401, 0, NoAccess)
  <2>1. Extended
    <3>1. CASE UNCHANGED tokens
      BY <1>0, <3>1, SameTokens
    <3>2. CASE \E f : tokens' = revokeFamily(f)
      BY <1>0, <3>2, RevokedInPlace, RevokeExtends
    <3> QED
      BY <3>1, <3>2 DEF RefreshCheck
  <2>2. PICK c \in Call : CallOK(c)' /\ call' = [call EXCEPT ![s] = c]
    BY <1>1, <2>1, NoCallOK, Replied
  <2> QED
    BY <1>0, <2>1, <2>2, ServerFrame DEF RefreshCheck, ServerUnchanged, DeadlineInv, TypeOK
<1>2. CASE /\ call[s].kind = "refresh" /\ call[s].token # 0
           /\ UNCHANGED tokens /\ call' = [call EXCEPT ![s].pc = "checked"]
  <2>1. Extended
    BY <1>0, <1>2, SameTokens
  <2>2. CallOK(call[s])
    BY DEF DeadlineInv, TypeOK
  <2>3. "checked" \in Pc
    OBVIOUS
  <2>4. PICK c \in Call : /\ [call EXCEPT ![s].pc = "checked"] = [call EXCEPT ![s] = c]
                          /\ c.kind = call[s].kind /\ c.token = call[s].token /\ c.pc = "checked"
    BY <2>3, Moved, Zenon
  <2>5. /\ c.kind = "refresh" /\ c.token = call[s].token /\ c.pc = "checked"
        /\ call' = [call EXCEPT ![s] = c]
    BY <1>2, <2>4
  <2>6. CallOK(c)'
    BY <1>2, <2>2, <2>5 DEF CallOK, Granted, Rotating
  <2> QED
    BY <1>0, <2>1, <2>5, <2>6, ServerFrame DEF RefreshCheck, ServerUnchanged, DeadlineInv, TypeOK
<1> QED
  BY <1>1, <1>2 DEF RefreshCheck

LEMMA SaveKeeps ==
  ASSUME DeadlineInv, NEW s \in Slot, SaveReplacement(s)
  PROVE  DeadlineInv'
<1> DEFINE n == call[s].token
           k == issueRefreshToken(tokens[n].family, tokens[n].session)
<1>1. tokens \in Seq(Token) /\ (\A i \in DOMAIN tokens : tokens[i] \in Token)
      /\ DOMAIN tokens = 1..Len(tokens) /\ Len(tokens) \in Nat
  BY LenProperties, ElementOfSeq DEF DeadlineInv, TypeOK
<1>2. n \in DOMAIN tokens /\ n \in 1..Len(tokens)
  BY <1>1 DEF SaveReplacement, DeadlineInv, CallOK
<1>3. TokenOK(tokens[n]) /\ tokens[n].family \in Nat /\ tokens[n].session \in Nat
  BY <1>1, <1>2 DEF DeadlineInv, Token
<1>4. k \in Token /\ k.family = tokens[n].family /\ k.session = tokens[n].session
  BY <1>3, Times
<1>5. born' = born /\ tokens' = Append(tokens, k)
  BY DEF SaveReplacement
<1>6. Extended /\ Len(tokens') = Len(tokens) + 1
  <2>1. /\ k.family \in DOMAIN born' /\ k.session = born'[k.family] + Abs
        /\ born' \in Seq(Nat) /\ Len(born) <= Len(born')
        /\ \A i \in 1..Len(born) : born'[i] = born[i]
    <3>1. born' \in Seq(Nat) /\ Len(born) <= Len(born')
      BY <1>5, Times DEF DeadlineInv, TypeOK
    <3>2. k.family \in DOMAIN born' /\ k.session = born'[k.family] + Abs
      <4> HIDE DEF k
      <4> QED
        BY <1>3, <1>4, <1>5 DEF TokenOK
    <3> QED
      BY <1>5, <3>1, <3>2
  <2>2. tokens \in [DOMAIN tokens -> Token]
    BY <1>1
  <2> HIDE DEF k
  <2> QED
    BY <1>4, <1>5, <2>1, <2>2, IssueExtends
<1>7. Len(tokens) + 1 \in DOMAIN tokens' /\ Len(tokens) + 1 # n
  BY <1>1, <1>2, <1>6, LenProperties DEF Extended
<1>8. PICK c \in Call : CallOK(c)' /\ call' = [call EXCEPT ![s] = c]
  <2>1. PICK c \in Call : /\ call' = [call EXCEPT ![s] = c]
                          /\ c.kind = "refresh" /\ c.token = n /\ c.new = Len(tokens) + 1
                          /\ c.pc = "saved"
    BY Noted
  <2>3. n \in 0..Len(tokens')
    BY <1>1, <1>2, <1>6
  <2>4. CallOK(c)'
    BY <1>7, <2>1, <2>3 DEF CallOK, Rotating, Granted
  <2> QED
    BY <2>1, <2>4
<1> QED
  BY <1>6, <1>8, ServerFrame DEF SaveReplacement, ServerUnchanged, DeadlineInv, TypeOK

(* Revoking the token i. *)
LEMMA OneRevoked ==
  ASSUME DeadlineInv, NEW n, UNCHANGED born,
         tokens' = [i \in DOMAIN tokens |-> [tokens[i] EXCEPT !.live = @ /\ i # n]]
  PROVE  Extended /\ DOMAIN tokens' = DOMAIN tokens /\ Len(tokens') = Len(tokens)
<1>1. \A i \in DOMAIN tokens : tokens[i] \in Token
  BY LenProperties, ElementOfSeq DEF DeadlineInv, TypeOK
<1>2. /\ tokens' \in [DOMAIN tokens -> Token]
      /\ \A i \in DOMAIN tokens : /\ tokens'[i].family = tokens[i].family
                                  /\ tokens'[i].session = tokens[i].session
  BY <1>1 DEF Token
<1> QED
  BY <1>2, RevokeExtends

LEMMA MarkRevokedKeeps ==
  ASSUME DeadlineInv, NEW s \in Slot, markRevoked(s)
  PROVE  DeadlineInv'
<1>1. Extended /\ DOMAIN tokens' = DOMAIN tokens /\ Len(tokens') = Len(tokens)
  BY OneRevoked DEF markRevoked
<1>2. call[s] \in Call /\ CallOK(call[s]) /\ Rotating(call[s]) /\ call[s].new \in Nat
  BY DEF markRevoked, Rotating, DeadlineInv, TypeOK, Call
<1>3. PICK c \in Call : CallOK(c)' /\ call' = [call EXCEPT ![s] = c]
  <2>1. PICK c \in Call : /\ call' = [call EXCEPT ![s] = c]
                          /\ c.kind = "refresh" /\ c.token = call[s].token
                          /\ c.new = call[s].new /\ c.pc = "revoked"
    <3>1. "revoked" \in Pc
      OBVIOUS
    <3>2. PICK c \in Call : /\ [call EXCEPT ![s].pc = "revoked"] = [call EXCEPT ![s] = c]
                            /\ c.kind = call[s].kind /\ c.token = call[s].token
                            /\ c.pc = "revoked" /\ c.new = call[s].new
      BY <3>1, Moved, Zenon
    <3> QED
      BY <3>2 DEF markRevoked
  <2>3. CallOK(c)'
    BY <1>1, <1>2, <2>1 DEF CallOK, Rotating, Granted
  <2> QED
    BY <2>1, <2>3
<1> QED
  BY <1>1, <1>3, ServerFrame DEF markRevoked, ServerUnchanged, DeadlineInv, TypeOK

LEMMA SignKeeps ==
  ASSUME DeadlineInv, NEW s \in Slot, SignRefreshed(s)
  PROVE  DeadlineInv'
<1>1. Extended
  BY SameTokens DEF SignRefreshed
<1>2. CallOK(call[s]) /\ Rotating(call[s]) /\ call[s].new \in DOMAIN tokens
  BY DEF SignRefreshed, Rotating, DeadlineInv, CallOK
<1>3. /\ tokens[call[s].new].session \in Nat /\ call[s].new \in Nat
  <2>1. tokens[call[s].new] \in Token /\ call[s] \in Call
    BY <1>2, LenProperties, ElementOfSeq DEF DeadlineInv, TypeOK
  <2> QED
    BY <2>1 DEF Token, Call
<1>4. PICK c \in Call : CallOK(c)' /\ call' = [call EXCEPT ![s] = c]
  <2>1. PICK a \in Access : /\ Reply(s, 200, call[s].new, a)
                            /\ a.exp <= tokens[call[s].new].session
    BY <1>3, Times DEF SignRefreshed
  <2>2. tokens' = tokens
    BY DEF SignRefreshed
  <2> QED
    BY <1>1, <1>2, <1>3, <2>1, <2>2, Replied
<1> QED
  BY <1>1, <1>4, ServerFrame DEF SignRefreshed, ServerUnchanged, DeadlineInv, TypeOK

LEMMA LogoutKeeps ==
  ASSUME DeadlineInv, NEW s \in Slot, LogoutHandler(s)
  PROVE  DeadlineInv'
<1>3. Extended
  BY OneRevoked DEF LogoutHandler
<1>4. PICK c \in Call : CallOK(c)' /\ call' = [call EXCEPT ![s] = c]
  <2>1. Reply(s, 200, 0, NoAccess) /\ call[s].kind \notin {"login", "refresh"}
    BY DEF LogoutHandler
  <2> QED
    BY <1>3, <2>1, NoCallOK, Replied
<1> QED
  BY <1>3, <1>4, ServerFrame DEF LogoutHandler, ServerUnchanged, DeadlineInv, TypeOK

LEMMA ChangePasswordKeeps ==
  ASSUME DeadlineInv, NEW s \in Slot, ChangePasswordHandler(s)
  PROVE  DeadlineInv'
<1>1. Extended
  <2>1. CASE tokens' = revokeAllForUser
    BY <2>1, RevokedInPlace, RevokeExtends DEF ChangePasswordHandler
  <2>2. CASE UNCHANGED tokens
    BY <2>2, SameTokens DEF ChangePasswordHandler
  <2> QED
    BY <2>1, <2>2 DEF ChangePasswordHandler
<1>2. PICK c \in Call : CallOK(c)' /\ call' = [call EXCEPT ![s] = c]
  <2>1. call[s] \in Call /\ CallOK(call[s]) /\ call[s].kind = "password"
    BY DEF ChangePasswordHandler, DeadlineInv, TypeOK
  <2>2. CASE call' = [call EXCEPT ![s].pc = "revoked"]
    <3>3. PICK c \in Call : /\ call' = [call EXCEPT ![s] = c]
                            /\ c.kind = "password" /\ c.pc = "revoked" /\ c.token = call[s].token
      <4>1. "revoked" \in Pc
        OBVIOUS
      <4>2. PICK c \in Call : /\ [call EXCEPT ![s].pc = "revoked"] = [call EXCEPT ![s] = c]
                              /\ c.kind = call[s].kind /\ c.token = call[s].token
                              /\ c.pc = "revoked"
        BY <4>1, Moved, Zenon
      <4> QED
        BY <2>1, <2>2, <4>2
    <3>4. CallOK(c)'
      BY <1>1, <2>1, <3>3, ExtendedKeeps DEF CallOK, Rotating, Granted
    <3> QED
      BY <3>3, <3>4
  <2>3. CASE Reply(s, 401, 0, NoAccess)
    BY <1>1, <2>1, <2>3, NoCallOK, Replied
  <2> QED
    BY <2>2, <2>3 DEF ChangePasswordHandler
<1> QED
  BY <1>1, <1>2, ServerFrame DEF ChangePasswordHandler, ServerUnchanged, DeadlineInv, TypeOK

LEMMA InvalidateKeeps ==
  ASSUME DeadlineInv, NEW s \in Slot, invalidateTokens(s)
  PROVE  DeadlineInv'
<1>1. Extended
  BY SameTokens DEF invalidateTokens
<1>2. PICK c \in Call : CallOK(c)' /\ call' = [call EXCEPT ![s] = c]
  <2>1. Reply(s, 200, 0, NoAccess) /\ call[s].kind \notin {"login", "refresh"}
    BY DEF invalidateTokens
  <2> QED
    BY <1>1, <2>1, NoCallOK, Replied
<1>3. user' \in [active : BOOLEAN, invalidated : Nat]
  BY Times DEF invalidateTokens, DeadlineInv, TypeOK
<1> QED
  BY <1>1, <1>2, <1>3, ServerFrame DEF invalidateTokens, ServerUnchanged, DeadlineInv, TypeOK

LEMMA ServeFailsKeeps ==
  ASSUME DeadlineInv, NEW t \in Tab, ServeFails(t)
  PROVE  DeadlineInv'
<1>1. Extended /\ t \in Slot
  BY SameTokens DEF ServeFails, Slot
<1>2. PICK c \in Call : CallOK(c)' /\ call' = [call EXCEPT ![t] = c]
  BY <1>1, NoCallOK, Replied DEF ServeFails
<1>3. faults' \in 0..MaxFaults
  BY DEF ServeFails, Fault, DeadlineInv, TypeOK
<1> QED
  BY <1>1, <1>2, <1>3, ServerFrame DEF ServeFails, DeadlineInv, TypeOK

LEMMA HandleKeeps ==
  ASSUME DeadlineInv, NEW s \in Slot, Handle(s)
  PROVE  DeadlineInv'
BY LoginKeeps, RefreshCheckKeeps, SaveKeeps, MarkRevokedKeeps, SignKeeps, LogoutKeeps,
   ChangePasswordKeeps, InvalidateKeeps DEF Handle

-----------------------------------------------------------------------------
(* The tabs keep DeadlineInv. *)

(* A request as it is sent. *)
LEMMA Sent ==
  ASSUME DeadlineInv, NEW t \in Tab, NEW kind \in CallKind, NEW token \in 0..Len(tokens),
         NEW access \in Access
  PROVE  \E c \in Call :
           /\ CallOK(c) /\ Request(t, kind, token, access) = [call EXCEPT ![t] = c]
           /\ c.kind = kind /\ c.token = token /\ c.pc = "sent" /\ c.status = 0
<1> DEFINE c == [kind |-> kind, token |-> token, pc |-> "sent", status |-> 0,
                 new |-> 0, access |-> access]
<1>1. Request(t, kind, token, access) = [call EXCEPT ![t] = c]
  BY DEF Request
<1>2. token \in Nat
  BY Times
<1>3. c \in Call /\ CallOK(c)
  BY <1>2 DEF Call, CallOK, Granted, Rotating
<1> QED
  BY <1>1, <1>3

(* The row of a tab with another operation, and of one that is signed out. *)
LEMMA Rows ==
  ASSUME DeadlineInv, NEW t \in Tab, NEW op \in CallKind
  PROVE  /\ [tab EXCEPT ![t].op = op] = [tab EXCEPT ![t] = [tab[t] EXCEPT !.op = op]]
         /\ [tab[t] EXCEPT !.op = op] \in TabRow /\ TabOK([tab[t] EXCEPT !.op = op])
         /\ [SignedOut EXCEPT !.op = op] \in TabRow /\ TabOK([SignedOut EXCEPT !.op = op])
         /\ SignedOut \in TabRow /\ TabOK(SignedOut)
<1>1. tab \in [Tab -> TabRow] /\ tab[t] \in TabRow /\ TabOK(tab[t])
  BY DEF DeadlineInv, TypeOK
<1>2. [tab[t] EXCEPT !.op = op] \in TabRow
  BY <1>1 DEF TabRow
<1>3. TabOK([tab[t] EXCEPT !.op = op])
  BY <1>1 DEF TabRow, TabOK
<1>4. [SignedOut EXCEPT !.op = op] \in TabRow /\ SignedOut \in TabRow
  BY NoCallOK DEF SignedOut, TabRow, CallKind
<1>5. TabOK([SignedOut EXCEPT !.op = op]) /\ TabOK(SignedOut)
  BY DEF SignedOut, TabOK
<1> QED
  BY <1>1, <1>2, <1>3, <1>4, <1>5

LEMMA StoredTypes ==
  ASSUME DeadlineInv
  PROVE  /\ stored \in Session /\ end(stored) \in Session
         /\ [stored EXCEPT !.last = clock] \in Session
         /\ \A f, x \in Nat : start(f, x) \in Session
<1>1. stored \in Session /\ clock \in Nat
  BY Times DEF DeadlineInv, TypeOK
<1>2. end(stored) \in Session
  BY <1>1 DEF end, Session
<1>3. [stored EXCEPT !.last = clock] \in Session
  BY <1>1 DEF Session
<1>4. \A f, x \in Nat : start(f, x) \in Session
  BY <1>1 DEF start, Session
<1> QED
  BY <1>1, <1>2, <1>3, <1>4

(* A tab starts an operation. *)
LEMMA StartKeeps ==
  ASSUME DeadlineInv, NEW t \in Tab,
         login(t) \/ logout(t) \/ checkSession(t) \/ refreshSession(t) \/ changePassword(t)
           \/ leaveOldSession(t)
  PROVE  DeadlineInv'
<1>1. /\ cookie \in 0..Len(tokens) /\ 0 \in 0..Len(tokens) /\ t \in Slot
      /\ call \in [Slot -> Call] /\ call[t] \in Call /\ CallOK(call[t]) /\ lock \in Tab \cup {"free"}
      /\ stored \in Session /\ end(stored) \in Session /\ NoAccess \in Access
  <2>1. t \in Slot /\ Len(tokens) \in Nat
    BY Times DEF Slot
  <2> QED
    BY <2>1, StoredTypes, NoCallOK DEF DeadlineInv, TypeOK
<1>2. ASSUME NEW kind \in CallKind, NEW token \in 0..Len(tokens), NEW access \in Access,
             NEW r \in TabRow, TabOK(r), call' = Request(t, kind, token, access), tab' = [tab EXCEPT ![t] = r],
             cookie' = cookie, stored' \in Session, lock' \in Tab \cup {"free"}, StoreUnchanged
      PROVE  DeadlineInv'
  <2>1. PICK c \in Call : CallOK(c) /\ call' = [call EXCEPT ![t] = c]
    BY <1>2, Sent
  <2> QED
    BY <1>1, <1>2, <2>1, TabFrame DEF StoreUnchanged
<1>3. ASSUME login(t) PROVE DeadlineInv'
  BY <1>1, <1>2, <1>3, Rows DEF login, withAuthLock, CallKind
<1>4. ASSUME revokeSession(t), lock' = t, cookie' = cookie, StoreUnchanged PROVE DeadlineInv'
  BY <1>1, <1>2, <1>4, Rows DEF revokeSession, CallKind
<1>5. ASSUME tab' = [tab EXCEPT ![t] = SignedOut] \/ tab' = [tab EXCEPT ![t] = [SignedOut EXCEPT !.op = tab[t].op]],
             lock' = lock, call' = call, stored' = stored, cookie' = cookie, StoreUnchanged
      PROVE  DeadlineInv'
  <2>1. tab[t].op \in CallKind
    BY DEF DeadlineInv, TypeOK, TabRow
  <2>2. call' = [call EXCEPT ![t] = call[t]]
    BY <1>1, <1>5
  <2>3. PICK r \in TabRow : TabOK(r) /\ tab' = [tab EXCEPT ![t] = r]
    BY <1>5, <2>1, Rows
  <2> QED
    BY <1>1, <1>5, <2>2, <2>3, TabFrame DEF StoreUnchanged
<1>6. ASSUME checkSession(t) PROVE DeadlineInv'
  BY <1>4, <1>5, <1>6 DEF checkSession, withAuthLock, clearState
<1>7. ASSUME refreshSession(t) PROVE DeadlineInv'
  BY <1>1, <1>2, <1>7, Rows DEF refreshSession, withAuthLock, CallKind
<1>8. ASSUME leaveOldSession(t) PROVE DeadlineInv'
  BY <1>5, <1>8 DEF leaveOldSession
<1>9. ASSUME changePassword(t) PROVE DeadlineInv'
  <2>1. tab[t].access \in Access
    BY DEF DeadlineInv, TypeOK, TabRow
  <2> QED
    BY <1>1, <1>2, <1>9, <2>1, Rows DEF changePassword, withAuthLock, CallKind
<1> QED
  BY <1>3, <1>4, <1>6, <1>7, <1>8, <1>9 DEF logout, withAuthLock

(* What an answer with a token says of the session. *)
LEMMA GrantedSession ==
  ASSUME DeadlineInv, NEW t \in Tab, Granted(call[t])
  PROVE  /\ call[t].new \in DOMAIN tokens /\ call[t].new \in 0..Len(tokens)
         /\ tokens[call[t].new] \in Token
         /\ SignedIn(call[t]) \in TabRow /\ TabOK(SignedIn(call[t]))
         /\ start(tokens[call[t].new].family, tokens[call[t].new].session) \in Session
<1>1. t \in Slot /\ call[t] \in Call /\ CallOK(call[t])
  BY DEF DeadlineInv, TypeOK, Slot
<1>2. /\ call[t].new \in DOMAIN tokens /\ call[t].access \in Access
      /\ call[t].access.exp <= tokens[call[t].new].session
  BY <1>1 DEF CallOK, Call
<1>3. call[t].new \in 0..Len(tokens) /\ tokens[call[t].new] \in Token
  BY <1>2, LenProperties, ElementOfSeq DEF DeadlineInv, TypeOK
<1>4. TokenOK(tokens[call[t].new])
  BY <1>2 DEF DeadlineInv
<1>5. tokens[call[t].new].family \in Nat /\ tokens[call[t].new].session \in Nat
  BY <1>3 DEF Token
<1>6. SignedIn(call[t]) \in TabRow
  BY <1>2, <1>5 DEF SignedIn, TabRow, CallKind
<1>7. TabOK(SignedIn(call[t]))
  BY <1>2, <1>4 DEF SignedIn, TabOK, TokenOK
<1> QED
  BY <1>2, <1>3, <1>5, <1>6, <1>7, StoredTypes

(* An answer arrives. *)
LEMMA ApplyKeeps ==
  ASSUME DeadlineInv, NEW t \in Tab,
         applyLogin(t) \/ applyRefresh(t) \/ logoutDone(t) \/ passwordDone(t)
  PROVE  DeadlineInv'
<1>1. /\ cookie \in 0..Len(tokens) /\ 0 \in 0..Len(tokens) /\ lock \in Tab \cup {"free"}
      /\ stored \in Session /\ end(stored) \in Session
      /\ NoCall \in Call /\ CallOK(NoCall) /\ NoAccess \in Access
      /\ "none" \in CallKind /\ "logout" \in CallKind
  <2>1. Len(tokens) \in Nat
    BY Times
  <2>2. "none" \in CallKind /\ "logout" \in CallKind
    BY DEF CallKind
  <2> QED
    BY <2>1, <2>2, StoredTypes, NoCallOK DEF DeadlineInv, TypeOK
<1>2. ASSUME NEW r \in TabRow, TabOK(r), tab' = [tab EXCEPT ![t] = r], Done(t),
             cookie' \in 0..Len(tokens), stored' \in Session, StoreUnchanged
      PROVE  DeadlineInv'
  <2>1. lock' \in Tab \cup {"free"} /\ call' = [call EXCEPT ![t] = NoCall]
    BY <1>1, <1>2 DEF Done
  <2> QED
    BY <1>1, <1>2, <2>1, TabFrame DEF StoreUnchanged
<1>3. ASSUME tab' = [tab EXCEPT ![t].op = "none"] \/ tab' = clearState(t), Done(t),
             cookie' \in {cookie, 0}, stored' \in {stored, end(stored)}, StoreUnchanged
      PROVE  DeadlineInv'
  <2>1. PICK r \in TabRow : TabOK(r) /\ tab' = [tab EXCEPT ![t] = r]
    BY <1>1, <1>3, Rows DEF clearState
  <2> QED
    BY <1>1, <1>2, <1>3, <2>1
<1>4. ASSUME applyLogin(t) PROVE DeadlineInv'
  <2>1. CASE call[t].status = 200
    <3>1. Granted(call[t])
      BY <1>4, <2>1 DEF applyLogin, Granted, Rotating
    <3> QED
      BY <1>2, <1>4, <2>1, <3>1, GrantedSession DEF applyLogin
  <2>2. CASE call[t].status # 200
    BY <1>3, <1>4, <2>2 DEF applyLogin
  <2> QED
    BY <2>1, <2>2
<1>5. ASSUME applyRefresh(t) PROVE DeadlineInv'
  <2>1. CASE call[t].status = 200
    <3>1. Granted(call[t])
      BY <1>5, <2>1 DEF applyRefresh, Granted, Rotating
    <3>2. CASE updatePolicy(tokens[call[t].new].family)
      BY <1>1, <1>2, <1>5, <2>1, <3>1, <3>2, GrantedSession DEF applyRefresh
    <3>3. CASE ~updatePolicy(tokens[call[t].new].family)
      <4>0. /\ call' = Request(t, "logout", call[t].new, NoAccess) /\ cookie' = call[t].new
            /\ tab' = [tab EXCEPT ![t] = [SignedOut EXCEPT !.op = "logout"]]
            /\ stored' = end(stored) /\ lock' = lock /\ StoreUnchanged
            /\ call[t].new \in 0..Len(tokens)
        BY <1>5, <2>1, <3>1, <3>3, GrantedSession DEF applyRefresh
      <4>1. PICK c \in Call : CallOK(c) /\ call' = [call EXCEPT ![t] = c]
        <5>1. PICK n \in 0..Len(tokens) : n = call[t].new
          BY <4>0
        <5>2. PICK c \in Call : CallOK(c) /\ Request(t, "logout", n, NoAccess) = [call EXCEPT ![t] = c]
          BY <1>1, Sent
        <5> QED
          BY <4>0, <5>1, <5>2
      <4>2. PICK r \in TabRow : TabOK(r) /\ tab' = [tab EXCEPT ![t] = r]
        BY <1>1, <4>0, Rows
      <4> QED
        BY <1>1, <4>0, <4>1, <4>2, TabFrame DEF StoreUnchanged
    <3> QED
      BY <3>2, <3>3
  <2>2. CASE call[t].status # 200
    BY <1>3, <1>5, <2>2 DEF applyRefresh
  <2> QED
    BY <2>1, <2>2
<1>6. ASSUME logoutDone(t) \/ passwordDone(t) PROVE DeadlineInv'
  BY <1>3, <1>6 DEF logoutDone, passwordDone
<1> QED
  BY <1>4, <1>5, <1>6

(* A request is abandoned. *)
LEMMA AbandonKeeps ==
  ASSUME DeadlineInv, NEW t \in Tab, abandon(t)
  PROVE  DeadlineInv'
<1>1. t \in Slot /\ "orphan" \in Slot /\ t # "orphan"
  BY DEF Slot
<1>2. faults' \in 0..MaxFaults /\ lock' \in Tab \cup {"free"}
  BY DEF abandon, Fault, DeadlineInv, TypeOK
<1>3. tab' \in [Tab -> TabRow] /\ \A p \in Tab : TabOK(tab[p])'
  <2>1. PICK r \in TabRow : TabOK(r) /\ tab' = [tab EXCEPT ![t] = r]
    BY Rows DEF abandon, CallKind
  <2>2. TabOK(r)' /\ \A p \in Tab : TabOK(tab[p])
    BY <2>1 DEF abandon, TabOK, DeadlineInv
  <2> QED
    BY <2>1, <2>2 DEF abandon, DeadlineInv, TypeOK, TabOK
<1>4. call' \in [Slot -> Call] /\ \A p \in Slot : CallOK(call[p])'
  <2>1. PICK c : c = IF call[t].pc = "done" THEN NoCall ELSE call[t]
    OBVIOUS
  <2>2. /\ c \in Call /\ CallOK(c) /\ NoCall \in Call /\ CallOK(NoCall)
        /\ \A p \in Slot : CallOK(call[p])
        /\ call' = [call EXCEPT ![t] = NoCall, !["orphan"] = c] /\ call \in [Slot -> Call]
    BY <1>1, <2>1, NoCallOK DEF abandon, DeadlineInv, TypeOK
  <2>3. \A p \in Slot : call'[p] = IF p = "orphan" THEN c ELSE IF p = t THEN NoCall ELSE call[p]
    BY <1>1, <2>2
  <2>4. \A d : CallOK(d) => CallOK(d)'
    BY DEF abandon, CallOK
  <2> QED
    BY <2>2, <2>3, <2>4
<1>5. \A i \in DOMAIN tokens' : TokenOK(tokens[i])'
  BY DEF abandon, DeadlineInv, TokenOK
<1>6. TypeOK'
  BY <1>2, <1>3, <1>4 DEF abandon, DeadlineInv, TypeOK
<1> QED
  BY <1>3, <1>4, <1>5, <1>6 DEF DeadlineInv

(* The administrator and time. *)
LEMMA AdminKeeps ==
  ASSUME DeadlineInv, DeactivateUser \/ ReactivateUser \/ ResetUserPassword
  PROVE  DeadlineInv'
<1>1. Extended
  <2>1. UNCHANGED born /\ (tokens' = tokens \/ tokens' = revokeAllForUser)
    BY DEF DeactivateUser, ReactivateUser, ResetUserPassword, AdminStep
  <2>2. CASE tokens' = tokens
    BY <2>1, <2>2, SameTokens
  <2>3. CASE tokens' = revokeAllForUser
    BY <2>1, <2>3, RevokedInPlace, RevokeExtends
  <2> QED
    BY <2>1, <2>2, <2>3
<1>2. user' \in [active : BOOLEAN, invalidated : Nat] /\ admin' \in 0..MaxAdmin
  <2>1. /\ user' = [active |-> FALSE, invalidated |-> clock]
           \/ user' = [active |-> TRUE, invalidated |-> clock]
           \/ user' = [active |-> user.active, invalidated |-> clock]
        /\ admin' = admin \/ (admin < MaxAdmin /\ admin' = admin + 1)
    BY DEF DeactivateUser, ReactivateUser, ResetUserPassword, AdminStep
  <2>2. clock \in Nat /\ admin \in 0..MaxAdmin /\ user.active \in BOOLEAN
    BY Times DEF DeadlineInv, TypeOK
  <2>3. \A b \in BOOLEAN : [active |-> b, invalidated |-> clock]
                             \in [active : BOOLEAN, invalidated : Nat]
    BY <2>2
  <2>4. admin' \in 0..MaxAdmin
    BY <2>1, <2>2
  <2> QED
    BY <2>1, <2>2, <2>3, <2>4
<1>3. UNCHANGED <<clock, born, cookie, stored, lock, tab, call, reused, faults>>
  BY DEF DeactivateUser, ReactivateUser, ResetUserPassword, AdminStep
<1>4. TypeOK'
  BY <1>1, <1>2, <1>3, ExtendedKeeps DEF DeadlineInv, TypeOK, Extended
<1> QED
  BY <1>1, <1>3, <1>4, ExtendedKeeps DEF DeadlineInv

LEMMA QuietStepsKeep ==
  ASSUME DeadlineInv, recordActivity \/ Tick \/ UNCHANGED vars
  PROVE  DeadlineInv'
<1>1. UNCHANGED <<user, tokens, born, cookie, lock, tab, call, reused, admin, faults>>
  BY DEF recordActivity, Tick, vars
<1>2. stored' \in Session /\ clock' \in 1..MaxClock
  <2>1. stored \in Session /\ [stored EXCEPT !.last = clock] \in Session /\ clock \in 1..MaxClock
    BY StoredTypes DEF DeadlineInv, TypeOK
  <2>2. CASE recordActivity
    BY <2>1, <2>2 DEF recordActivity
  <2>3. CASE Tick
    BY <2>1, <2>3 DEF Tick
  <2>4. CASE UNCHANGED vars
    BY <2>1, <2>4 DEF vars
  <2> QED
    BY <2>2, <2>3, <2>4
<1>3. TypeOK'
  BY <1>1, <1>2 DEF DeadlineInv, TypeOK
<1> QED
  BY <1>1, <1>3 DEF DeadlineInv, TokenOK, CallOK, TabOK

LEMMA InitDeadline == Init => DeadlineInv
<1> SUFFICES ASSUME Init PROVE DeadlineInv
  OBVIOUS
<1>1. tokens = <<>> /\ born = <<>> /\ Len(tokens) = 0 /\ tokens \in Seq(Token) /\ born \in Seq(Nat)
  BY DEF Init
<1>2. NoCall \in Call /\ CallOK(NoCall) /\ SignedOut \in TabRow /\ TabOK(SignedOut)
  <2>1. NoAccess \in Access
    BY DEF NoAccess, Access
  <2>2. NoCall \in Call /\ SignedOut \in TabRow
    BY <2>1 DEF NoCall, Call, CallKind, SignedOut, TabRow
  <2>3. CallOK(NoCall)
    BY <1>1 DEF NoCall, CallOK, Granted, Rotating
  <2>4. TabOK(SignedOut)
    BY DEF SignedOut, TabOK
  <2> QED
    BY <2>2, <2>3, <2>4
<1>3. TypeOK
  <2>1. clock \in 1..MaxClock /\ admin \in 0..MaxAdmin /\ faults \in 0..MaxFaults
    BY DEF Init
  <2>2. stored \in Session /\ user \in [active : BOOLEAN, invalidated : Nat]
    BY DEF Init, FirstRow, NoSession, Session
  <2>3. cookie \in 0..Len(tokens) /\ lock \in Tab \cup {"free"} /\ reused \in BOOLEAN
    <3>1. cookie = 0 /\ lock = "free" /\ reused = FALSE
      BY DEF Init
    <3>2. cookie \in 0..Len(tokens)
      BY <1>1, <3>1
    <3> QED
      BY <3>1, <3>2
  <2>4. tab \in [Tab -> TabRow]
    BY <1>2, Zenon DEF Init
  <2>5. call \in [Slot -> Call]
    BY <1>2, Zenon DEF Init
  <2> QED
    BY <1>1, <2>1, <2>2, <2>3, <2>4, <2>5 DEF TypeOK
<1> QED
  BY <1>1, <1>2, <1>3 DEF Init, DeadlineInv

LEMMA NextDeadline ==
  ASSUME DeadlineInv, [Next]_vars
  PROVE  DeadlineInv'
<1>1. \A t \in Tab : t \in Slot
  BY DEF Slot
<1>2. "orphan" \in Slot
  BY DEF Slot
<1> QED
  BY <1>1, <1>2, QuietStepsKeep, StartKeeps, HandleKeeps, ApplyKeeps, ServeFailsKeeps, AbandonKeeps,
     AdminKeeps DEF Next, Answer

LEMMA DeadlineHolds == Spec => []DeadlineInv
<1>1. Init => DeadlineInv
  BY InitDeadline
<1>2. DeadlineInv /\ [Next]_vars => DeadlineInv'
  BY NextDeadline
<1> QED
  BY <1>1, <1>2, PTL DEF Spec

(* The state of the browser, the tokens and the requests is well typed: in particular *)
(* the cookie always names a token the server has issued.                             *)
THEOREM SessionTypes == Spec => []TypeOK
<1>1. DeadlineInv => TypeOK
  BY DEF DeadlineInv
<1> QED
  BY <1>1, DeadlineHolds, PTL

(* AbsoluteDeadline for any timeouts, tabs and bounds: no chain of refreshes gives a *)
(* tab an access token that the guard accepts past the absolute timeout of its login *)
(* (issueRefreshToken hands the deadline on, signAccessToken is capped by it).       *)
THEOREM DeadlineKept == Spec => []AbsoluteDeadline
<1>1. ASSUME DeadlineInv
      PROVE  AbsoluteDeadline
  <2> SUFFICES ASSUME NEW t \in Tab, NEW row \in ReplicaRow, tab[t].auth,
                      canActivate(tab[t].access, row)
               PROVE  clock < born[tab[t].session] + Abs
    BY DEF AbsoluteDeadline
  <2>1. /\ tab[t].access.exp \in Nat /\ clock \in Nat
        /\ tab[t].session \in DOMAIN born /\ tab[t].access.exp <= born[tab[t].session] + Abs
    BY <1>1, Times DEF DeadlineInv, TypeOK, TabRow, Access, TabOK
  <2>2. born[tab[t].session] \in Nat
    BY <1>1, <2>1, ElementOfSeq, LenProperties DEF DeadlineInv, TypeOK
  <2> QED
    BY <2>1, <2>2 DEF canActivate
<1> QED
  BY <1>1, DeadlineHolds, PTL

-----------------------------------------------------------------------------
(* Late answers. *)

(* What a step of the tab p does to another tab, and a change of operation to the *)
(* access token.                                                                  *)
LEMMA RowOf ==
  ASSUME TypeOK, NEW t \in Tab, NEW p \in Tab
  PROVE  /\ \A r : [tab EXCEPT ![p] = r][t] = IF t = p THEN r ELSE tab[t]
         /\ \A op : /\ [tab EXCEPT ![p].op = op][t].access = tab[t].access
                    /\ [tab EXCEPT ![p].op = op][t].auth = tab[t].auth
<1>1. tab \in [Tab -> TabRow] /\ tab[t] \in TabRow
  BY DEF TypeOK
<1> QED
  BY <1>1 DEF TabRow

LEMMA LateStep ==
  ASSUME TypeOK, Next, NEW t \in Tab,
         call[t].kind = "refresh", tab'[t].auth, tab'[t].access # tab[t].access
  PROVE  tab'[t].session = stored'.id /\ ~expired(stored)'
<1> SUFFICES ASSUME ~(tab'[t].session = stored'.id /\ ~expired(stored)')
             PROVE  FALSE
  OBVIOUS
<1>1. tab' # tab
  OBVIOUS
<1>2. PICK p \in Tab : \/ login(p) \/ logout(p) \/ checkSession(p) \/ refreshSession(p)
                       \/ changePassword(p) \/ leaveOldSession(p)
                       \/ applyLogin(p) \/ applyRefresh(p) \/ logoutDone(p) \/ passwordDone(p)
                       \/ abandon(p)
  <2>1. ASSUME NEW s, Handle(s)
        PROVE  tab' = tab
    BY <2>1 DEF Handle, LoginHandler, RefreshCheck, SaveReplacement, markRevoked, SignRefreshed,
         LogoutHandler, ChangePasswordHandler, invalidateTokens, ServerUnchanged
  <2> QED
    BY <1>1, <2>1 DEF Next, recordActivity, Answer, ServeFails, DeactivateUser, ReactivateUser,
         ResetUserPassword, AdminStep, Tick
<1>3. ASSUME NEW op, tab' = [tab EXCEPT ![p].op = op]
      PROVE  FALSE
  <2>1. [tab EXCEPT ![p].op = op][t].access = tab[t].access
    BY RowOf
  <2> QED
    BY <1>3, <2>1, Zenon
<1>4. \A r : tab' = [tab EXCEPT ![p] = r] => p = t /\ r.auth /\ tab'[t] = r
  BY RowOf
<1>5. /\ ~SignedOut.auth /\ ~[SignedOut EXCEPT !.op = "logout"].auth
      /\ ~[SignedOut EXCEPT !.op = tab[p].op].auth
  BY DEF SignedOut
<1>6. applyLogin(p) \/ applyRefresh(p)
  <2>1. ~login(p) /\ ~refreshSession(p) /\ ~changePassword(p) /\ ~logoutDone(p) /\ ~abandon(p)
    BY <1>3 DEF login, refreshSession, changePassword, logoutDone, abandon
  <2>2. ~revokeSession(p) /\ tab' # clearState(p) /\ ~leaveOldSession(p)
    BY <1>4, <1>5 DEF revokeSession, clearState, leaveOldSession
  <2>3. ~logout(p) /\ ~checkSession(p)
    BY <2>2 DEF logout, checkSession
  <2>4. ~passwordDone(p)
    BY <1>3, <2>2 DEF passwordDone
  <2> QED
    BY <1>2, <2>1, <2>2, <2>3, <2>4
<1>7. CASE applyLogin(p)
  BY <1>3, <1>4, <1>7 DEF applyLogin
<1>8. CASE applyRefresh(p)
  <2>1. /\ updatePolicy(tokens[call[p].new].family) /\ stored' = stored /\ clock' = clock
        /\ tab' = [tab EXCEPT ![p] = SignedIn(call[p])]
    BY <1>3, <1>4, <1>5, <1>8 DEF applyRefresh, clearState, StoreUnchanged
  <2>2. tab'[t].session = tokens[call[p].new].family
    BY <1>4, <2>1 DEF SignedIn
  <2> QED
    BY <2>1, <2>2 DEF updatePolicy, expired
<1> QED
  BY <1>6, <1>7, <1>8

(* LateAnswerRefused for any tabs and bounds: however long a refresh was under way,  *)
(* its access token is taken only for the session in storage, and only while that is *)
(* neither ended nor run out (updatePolicy in refreshSession).                       *)
THEOREM LateAnswersRefused == Spec => LateAnswerRefused
<1>1. DeadlineInv => TypeOK
  BY DEF DeadlineInv
<1>2. TypeOK /\ [Next]_vars =>
        [\A t \in Tab :
           call[t].kind = "refresh" /\ call'[t] = NoCall
             /\ tab'[t].auth /\ tab'[t].access # tab[t].access
           => tab'[t].session = stored'.id /\ ~expired(stored)']_vars
  BY LateStep
<1> QED
  BY <1>1, <1>2, DeadlineHolds, PTL DEF Spec, LateAnswerRefused

-----------------------------------------------------------------------------
(* One request at a time, and the token of the cookie. *)

LEMMA Alone ==
  ASSUME ReuseInv, NEW t \in Tab, lock = "free" \/ call[t].pc # "none"
  PROVE  /\ \A p \in Tab \ {t} : call[p] = NoCall
         /\ lock = "free" => call[t] = NoCall
         /\ lock # "free" => lock = t
<1>1. \A p \in Tab : call[p].pc = "none" => call[p] = NoCall
  BY DEF ReuseInv, DeadlineInv, CallOK, Slot
<1> QED
  BY <1>1 DEF ReuseInv, LockInv

LEMMA LockStep ==
  ASSUME DeadlineInv, NEW t \in Tab, NEW c, call' = [call EXCEPT ![t] = c],
         \A p \in Tab \ {t} : call[p] = NoCall,
         lock' \in {t, "free"}, (c.pc # "none") <=> (lock' = t)
  PROVE  LockInv'
<1>1. \A p \in Tab : call'[p] = IF p = t THEN c ELSE NoCall
  BY DEF DeadlineInv, TypeOK, Slot
<1>2. NoCall.pc = "none"
  BY DEF NoCall
<1> QED
  BY <1>1, <1>2 DEF LockInv

(* The only request under way becomes c. *)
Becomes(t, c) ==
  /\ call' = [call EXCEPT ![t] = c] /\ call["orphan"] = NoCall
  /\ \A p \in Tab \ {t} : call[p] = NoCall

(* What c needs for the token of the cookie to be live when it is presented. *)
Fits(c) ==
  /\ ~reused' /\ c.status # 500
  /\ c.kind = "logout" /\ c.pc = "done" => c.status = 200
  /\ Rotating(c) \/ Granted(c) => tokens'[c.new].live
  /\ c.kind = "refresh" => c.token = cookie'
  /\ cookie' # 0 => tokens'[cookie'].live \/ Spent(c)

LEMMA CookieStep ==
  ASSUME DeadlineInv, NEW t \in Tab, NEW c, Becomes(t, c), Fits(c)
  PROVE  CookieLive'
<1>1. \A p \in Tab : call'[p] = IF p = t THEN c ELSE NoCall
  BY DEF DeadlineInv, TypeOK, Slot, Becomes
<1>2. call'["orphan"] = NoCall
  BY DEF DeadlineInv, TypeOK, Slot, Becomes
<1>3. NoCall.status # 500 /\ NoCall.kind = "none" /\ ~Granted(NoCall) /\ ~Rotating(NoCall)
  BY DEF NoCall, Granted, Rotating
<1>4. \A p \in Tab : /\ call'[p].status # 500
                     /\ call'[p].kind = "logout" /\ call'[p].pc = "done" => call'[p].status = 200
                     /\ Rotating(call'[p]) \/ Granted(call'[p]) => tokens'[call'[p].new].live
                     /\ call'[p].kind = "refresh" => call'[p].token = cookie'
  BY <1>1, <1>3 DEF Fits
<1>5. cookie' # 0 => tokens'[cookie'].live \/ \E p \in Tab : Spent(call'[p])
  BY <1>1 DEF Fits
<1> QED
  BY <1>2, <1>4, <1>5 DEF CookieLive, Fits

(* The answer, with its fields. *)
LEMMA ReplyFields ==
  ASSUME NEW t \in Tab, NEW status, NEW new, NEW access, Reply(t, status, new, access)
  PROVE  \E c : /\ call' = [call EXCEPT ![t] = c] /\ c.kind = call[t].kind /\ c.token = call[t].token
                /\ c.pc = "done" /\ c.status = status /\ c.new = new
<1> DEFINE d == [kind |-> call[t].kind, token |-> call[t].token, pc |-> "done",
                 status |-> status, new |-> new, access |-> access]
<1>1. call' = [call EXCEPT ![t] = d]
  BY DEF Reply
<1>2. /\ d.kind = call[t].kind /\ d.token = call[t].token
      /\ d.pc = "done" /\ d.status = status /\ d.new = new
  OBVIOUS
<1> HIDE DEF d
<1> QED
  BY <1>1, <1>2

(* The token of the cookie is live until an answer is on its way that spends it. *)
LEMMA CookieUnspent ==
  ASSUME CookieLive, NEW t \in Tab, \A p \in Tab \ {t} : call[p] = NoCall, ~Spent(call[t]),
         cookie # 0
  PROVE  tokens[cookie].live
<1>1. ~Spent(NoCall)
  BY DEF Spent, NoCall
<1> QED
  BY <1>1 DEF CookieLive

(* The steps of the server on the request of a tab. *)
LEMMA ServerReuse ==
  ASSUME ReuseInv, NEW t \in Tab, Handle(t)
  PROVE  LockInv' /\ (Quiet' => CookieLive')
<1>1. /\ call[t].pc \in {"sent", "checked", "saved", "revoked"} /\ UNCHANGED <<cookie, lock, faults, admin>>
  BY DEF Handle, LoginHandler, RefreshCheck, SaveReplacement, markRevoked, SignRefreshed,
       LogoutHandler, ChangePasswordHandler, invalidateTokens,
       ServerUnchanged
<1>2. /\ lock = t /\ \A p \in Tab \ {t} : call[p] = NoCall
      /\ DeadlineInv /\ (Quiet' => Quiet /\ CookieLive)
  <2>1. \A p \in Tab \ {t} : call[p] = NoCall
    BY <1>1, Alone
  <2>2. lock = t
    BY <1>1 DEF ReuseInv, LockInv
  <2> QED
    BY <1>1, <2>1, <2>2 DEF ReuseInv, Quiet
<1>3. call[t].pc # "revoked" => ~Spent(call[t])
  BY <1>1 DEF Spent
<1>4. Quiet' /\ call[t].pc # "revoked" => (cookie # 0 => tokens[cookie].live)
  BY <1>2, <1>3, CookieUnspent
<1>5. /\ t \in Slot /\ tokens \in Seq(Token) /\ call[t] \in Call /\ Len(tokens) \in Nat
      /\ DOMAIN tokens = 1..Len(tokens) /\ cookie \in 0..Len(tokens)
      /\ \A i \in DOMAIN tokens : tokens[i] \in Token
  BY <1>2, LenProperties, ElementOfSeq DEF DeadlineInv, TypeOK, Slot
<1>6. ASSUME NEW c, call' = [call EXCEPT ![t] = c], c.pc # "none"
      PROVE  LockInv'
  BY <1>1, <1>2, <1>6, LockStep
<1>7. ASSUME NEW c, call' = [call EXCEPT ![t] = c], Quiet' => Fits(c)
       PROVE  Quiet' => CookieLive'
  <2> SUFFICES ASSUME Quiet' PROVE CookieLive'
    OBVIOUS
  <2>1. Becomes(t, c)
    BY <1>2, <1>7 DEF Becomes, CookieLive
  <2> QED
    BY <1>2, <1>7, <2>1, CookieStep
<1>8. CASE LoginHandler(t)
  <2>0. Quiet' => (cookie # 0 => tokens[cookie].live)
    BY <1>4, <1>8 DEF LoginHandler
  <2>1. CASE user.active
    <3> DEFINE k == issueRefreshToken(Len(born) + 1, clock + Abs)
    <3>1. tokens' = Append(tokens, k) /\ k.live /\ k \in Token
      BY <1>2, <1>5, <1>8, <2>1, Times DEF LoginHandler
    <3>2. PICK c : /\ call' = [call EXCEPT ![t] = c] /\ c.kind = "login" /\ c.pc = "done"
                   /\ c.status = 200 /\ c.new = Len(tokens) + 1
      BY <1>8, <2>1, ReplyFields DEF LoginHandler
    <3>3. tokens'[c.new].live /\ (cookie # 0 => tokens'[cookie] = tokens[cookie])
      BY <1>5, <3>1, <3>2, Appended
    <3>4. reused' = reused
      BY <1>8 DEF LoginHandler
    <3>5. Quiet' => CookieLive'
      <4>1. Quiet' => Fits(c)
        BY <1>1, <1>2, <2>0, <3>2, <3>3, <3>4 DEF Fits, CookieLive
      <4> QED
        BY <1>1, <1>2, <2>0, <3>2, <3>3, <3>4, <4>1, <1>7
    <3> QED
      BY <1>6, <3>2, <3>5
  <2>2. CASE ~user.active
    <3>1. PICK c : /\ call' = [call EXCEPT ![t] = c] /\ c.kind = "login" /\ c.pc = "done"
                   /\ c.status = 401
      BY <1>8, <2>2, ReplyFields DEF LoginHandler
    <3>2. UNCHANGED <<tokens, reused>> /\ ~Granted(c) /\ ~Rotating(c)
      BY <1>8, <2>2, <3>1 DEF LoginHandler, Granted, Rotating
    <3>3. Quiet' => CookieLive'
      <4>1. Quiet' => Fits(c)
        BY <1>1, <1>2, <2>0, <3>1, <3>2 DEF Fits, CookieLive
      <4> QED
        BY <1>1, <1>2, <2>0, <3>1, <3>2, <4>1, <1>7
    <3> QED
      BY <1>6, <3>1, <3>3
  <2> QED
    BY <2>1, <2>2
<1>9. CASE RefreshCheck(t)
  <2>0. Quiet' => (cookie # 0 => tokens[cookie].live)
    BY <1>4, <1>9 DEF RefreshCheck
  <2>1. Quiet' => /\ ~reused' /\ call[t].token = cookie /\ call[t].status # 500
                  /\ call["orphan"] = NoCall
    <3> SUFFICES ASSUME Quiet'
                 PROVE  /\ ~reused' /\ call[t].token = cookie /\ call[t].status # 500
                        /\ call["orphan"] = NoCall
      OBVIOUS
    <3>1. ~reused /\ call[t].token = cookie /\ call[t].status # 500 /\ call["orphan"] = NoCall
      BY <1>2, <1>9 DEF RefreshCheck, CookieLive
    <3>2. call[t].token # 0 => tokens[call[t].token].live
      BY <2>0, <3>1
    <3> QED
      <4>1. CASE UNCHANGED reused
        BY <3>1, <4>1
      <4>2. CASE \E late \in BOOLEAN :
                   /\ call[t].token # 0
                   /\ reused' = (reused \/ (~late /\ ~tokens[call[t].token].live))
        BY <3>1, <3>2, <4>2
      <4>3. \/ UNCHANGED reused
            \/ \E late \in BOOLEAN :
                   /\ call[t].token # 0
                   /\ reused' = (reused \/ (~late /\ ~tokens[call[t].token].live))
        BY <1>9 DEF RefreshCheck
      <4> QED
        BY <3>1, <4>1, <4>2, <4>3
  <2>2. CASE Reply(t, 401, 0, NoAccess)
    <3>1. PICK c : /\ call' = [call EXCEPT ![t] = c] /\ c.kind = "refresh" /\ c.pc = "done"
                   /\ c.status = 401 /\ c.token = call[t].token
      BY <1>9, <2>2, ReplyFields DEF RefreshCheck
    <3>2. ~Granted(c) /\ ~Rotating(c) /\ Spent(c)
      BY <3>1 DEF Granted, Rotating, Spent
    <3>3. Quiet' => CookieLive'
      <4>1. Quiet' => Fits(c)
        BY <1>1, <1>2, <2>1, <3>1, <3>2 DEF Fits
      <4> QED
        BY <1>1, <1>2, <2>1, <3>1, <3>2, <4>1, <1>7
    <3> QED
      BY <1>6, <3>1, <3>3
  <2>3. CASE UNCHANGED tokens /\ call' = [call EXCEPT ![t].pc = "checked"]
    <3>1. PICK c : c = [call[t] EXCEPT !.pc = "checked"]
      OBVIOUS
    <3>2. /\ c.kind = call[t].kind /\ c.pc = "checked"
          /\ c.status = call[t].status /\ c.token = call[t].token
      BY <1>5, <3>1 DEF Call
    <3>3. call' = [call EXCEPT ![t] = c] /\ c.kind = "refresh" /\ ~Granted(c) /\ ~Rotating(c)
      BY <1>9, <2>3, <3>1, <3>2 DEF RefreshCheck, Granted, Rotating
    <3>4. Quiet' => CookieLive'
      <4>1. Quiet' => Fits(c)
        BY <1>1, <1>2, <2>0, <2>1, <2>3, <3>2, <3>3 DEF Fits
      <4> QED
        BY <1>1, <1>2, <2>0, <2>1, <2>3, <3>2, <3>3, <4>1, <1>7
    <3> QED
      BY <1>6, <3>2, <3>3, <3>4
  <2> QED
    BY <1>9, <2>2, <2>3 DEF RefreshCheck
<1>10. CASE SaveReplacement(t) \/ markRevoked(t) \/ SignRefreshed(t)
  <2>1. /\ call[t].kind = "refresh" /\ reused' = reused /\ CallOK(call[t])
        /\ Quiet' => /\ call["orphan"] = NoCall /\ call[t].token = cookie /\ ~reused'
                     /\ call[t].status # 500
    BY <1>2, <1>5, <1>10
       DEF SaveReplacement, markRevoked, SignRefreshed, CookieLive, DeadlineInv
  <2>2. Rotating(call[t]) => /\ Quiet' => tokens[call[t].new].live
                             /\ call[t].new \in DOMAIN tokens /\ call[t].new # call[t].token
    BY <1>2, <2>1 DEF CallOK, CookieLive
  <2>3. CASE SaveReplacement(t)
    <3> DEFINE n == call[t].token
               k == issueRefreshToken(tokens[n].family, tokens[n].session)
    <3>1. tokens' = Append(tokens, k) /\ k.live /\ call[t].pc = "checked"
      BY <1>2, <2>3, Times DEF SaveReplacement
    <3>2. k \in Token
      <4>1. n \in DOMAIN tokens
        BY <1>5, <2>1, <3>1 DEF CallOK
      <4>2. tokens[n].family \in Nat /\ tokens[n].session \in Nat
        BY <1>5, <4>1 DEF Token
      <4> QED
        BY <1>2, <4>2, Times
    <3>3. PICK c : /\ call' = [call EXCEPT ![t] = c]
                   /\ c.kind = "refresh" /\ c.token = n /\ c.pc = "saved"
                   /\ c.status = 0 /\ c.new = Len(tokens) + 1
      BY <1>2, <1>5, <2>3, Noted
    <3>5. tokens'[c.new].live /\ (cookie # 0 => tokens'[cookie] = tokens[cookie])
      <4> HIDE DEF k
      <4> QED
        BY <1>5, <3>1, <3>2, <3>3, Appended
    <3>6. Quiet' => Fits(c)
      <4>1. Quiet' => (cookie' # 0 => tokens'[cookie'].live)
        BY <1>1, <1>4, <3>1, <3>5
      <4>2. Quiet' => c.token = cookie' /\ c.status # 500
        BY <1>1, <2>1, <3>3
      <4> QED
        BY <2>1, <3>3, <3>5, <4>1, <4>2 DEF Fits
    <3> QED
      BY <1>6, <1>7, <3>3, <3>6
  <2>4. CASE markRevoked(t)
    <3>1. Rotating(call[t])
      BY <2>4 DEF markRevoked, Rotating
    <3>2. PICK c : /\ call' = [call EXCEPT ![t] = c]
                   /\ c.kind = "refresh" /\ c.token = call[t].token /\ c.pc = "revoked"
                   /\ c.status = call[t].status /\ c.new = call[t].new
      <4>1. "revoked" \in Pc /\ t \in Slot
        BY <1>5
      <4>2. PICK c \in Call : /\ [call EXCEPT ![t].pc = "revoked"] = [call EXCEPT ![t] = c]
                              /\ c.kind = call[t].kind /\ c.token = call[t].token
                              /\ c.pc = "revoked" /\ c.status = call[t].status
                              /\ c.new = call[t].new
        BY <1>2, <4>1, Moved, Zenon
      <4>3. call' = [call EXCEPT ![t] = c]
        BY <2>4, <4>2, Zenon DEF markRevoked
      <4>4. /\ c.kind = "refresh" /\ c.token = call[t].token /\ c.pc = "revoked"
            /\ c.status = call[t].status /\ c.new = call[t].new
        BY <2>1, <4>2
      <4> QED
        BY <4>3, <4>4, Zenon
    <3>4. Quiet' => tokens'[c.new].live
      BY <1>5, <2>2, <2>4, <3>1, <3>2 DEF markRevoked, Token
    <3>5. Quiet' => Fits(c)
      BY <1>1, <2>1, <3>2, <3>4 DEF Fits, Spent
    <3> QED
      BY <1>6, <1>7, <3>2, <3>5
  <2>5. CASE SignRefreshed(t)
    <3>1. Rotating(call[t])
      BY <2>5 DEF SignRefreshed, Rotating
    <3>2. PICK c : /\ call' = [call EXCEPT ![t] = c] /\ c.kind = "refresh" /\ c.pc = "done"
                   /\ c.status = 200 /\ c.token = call[t].token /\ c.new = call[t].new
      BY <2>1, <2>5, ReplyFields DEF SignRefreshed
    <3>3. Spent(c) /\ (Quiet' => tokens'[c.new].live)
      BY <2>2, <2>5, <3>1, <3>2 DEF Spent, SignRefreshed
    <3>4. Quiet' => Fits(c)
      BY <1>1, <2>1, <3>2, <3>3 DEF Fits
    <3> QED
      BY <1>6, <1>7, <3>2, <3>4
  <2> QED
    BY <1>10, <2>3, <2>4, <2>5
<1>11. CASE LogoutHandler(t)
  <2>1. PICK c : /\ call' = [call EXCEPT ![t] = c] /\ c.kind = "logout" /\ c.pc = "done"
                 /\ c.status = 200
    BY <1>11, ReplyFields DEF LogoutHandler
  <2>2. Spent(c) /\ ~Granted(c) /\ ~Rotating(c)
    BY <2>1 DEF Spent, Granted, Rotating
  <2>3. Quiet' => ~reused' /\ call["orphan"] = NoCall
    BY <1>2, <1>11 DEF LogoutHandler, CookieLive
  <2>4. Quiet' => CookieLive'
    <3>1. Quiet' => Fits(c)
      BY <1>2, <2>1, <2>2, <2>3 DEF Fits
    <3> QED
      BY <1>2, <2>1, <2>2, <2>3, <3>1, <1>7
  <2> QED
    BY <1>6, <2>1, <2>4
<1>12. CASE ChangePasswordHandler(t)
  <2>0. Quiet' => (cookie # 0 => tokens[cookie].live)
    BY <1>4, <1>12 DEF ChangePasswordHandler
  <2>1. Quiet' => ~reused' /\ call["orphan"] = NoCall
    BY <1>2, <1>12 DEF ChangePasswordHandler, CookieLive
  <2>2. CASE call' = [call EXCEPT ![t].pc = "revoked"]
    <3>1. call[t].kind = "password" /\ (Quiet' => call[t].status # 500)
      BY <1>2, <1>12 DEF ChangePasswordHandler, CookieLive
    <3>3. PICK c : /\ call' = [call EXCEPT ![t] = c]
                   /\ c.kind = "password" /\ c.pc = "revoked" /\ c.status = call[t].status
      <4>1. "revoked" \in Pc /\ t \in Slot
        BY <1>5
      <4>2. PICK c \in Call : /\ [call EXCEPT ![t].pc = "revoked"] = [call EXCEPT ![t] = c]
                              /\ c.kind = call[t].kind /\ c.pc = "revoked"
                              /\ c.status = call[t].status
        BY <1>2, <4>1, Moved, Zenon
      <4> QED
        BY <2>2, <3>1, <4>2
    <3>5. Spent(c) /\ ~Granted(c) /\ ~Rotating(c)
      BY <3>3 DEF Spent, Granted, Rotating
    <3>6. Quiet' => Fits(c)
      BY <1>2, <2>1, <3>1, <3>3, <3>5 DEF Fits
    <3> QED
      BY <1>6, <1>7, <3>3, <3>6
  <2>3. CASE Reply(t, 401, 0, NoAccess) /\ UNCHANGED tokens
    <3>1. PICK c : /\ call' = [call EXCEPT ![t] = c] /\ c.kind = "password" /\ c.pc = "done"
                   /\ c.status = 401
      BY <1>12, <2>3, ReplyFields DEF ChangePasswordHandler
    <3>2. ~Granted(c) /\ ~Rotating(c)
      BY <3>1 DEF Granted, Rotating
    <3>3. Quiet' => CookieLive'
      <4>1. Quiet' => Fits(c)
        BY <1>1, <1>2, <2>0, <2>1, <2>3, <3>1, <3>2 DEF Fits
      <4> QED
        BY <1>1, <1>2, <2>0, <2>1, <2>3, <3>1, <3>2, <4>1, <1>7
    <3> QED
      BY <1>6, <3>1, <3>3
  <2> QED
    BY <1>12, <2>2, <2>3 DEF ChangePasswordHandler
<1>13. CASE invalidateTokens(t)
  <2>1. Quiet' => ~reused' /\ call["orphan"] = NoCall
    BY <1>2, <1>13 DEF invalidateTokens, CookieLive
  <2>2. PICK c : /\ call' = [call EXCEPT ![t] = c] /\ c.kind = "password" /\ c.pc = "done"
                 /\ c.status = 200
    BY <1>13, ReplyFields DEF invalidateTokens
  <2>3. Spent(c) /\ ~Granted(c) /\ ~Rotating(c)
    BY <2>2 DEF Spent, Granted, Rotating
  <2>4. Quiet' => Fits(c)
    BY <1>2, <2>1, <2>2, <2>3 DEF Fits
  <2> QED
    BY <1>6, <1>7, <2>2, <2>4
<1> QED
  BY <1>8, <1>9, <1>10, <1>11, <1>12, <1>13 DEF Handle

(* Steps that leave the requests, the tokens and the cookie alone. *)
LEMMA SameReuse ==
  ASSUME ReuseInv, UNCHANGED <<tokens, cookie, lock, call, reused, admin, faults>>
  PROVE  LockInv' /\ (Quiet' => CookieLive')
BY DEF ReuseInv, LockInv, Quiet, CookieLive

(* A tab that takes the lock and sends a request. *)
LEMMA SentReuse ==
  ASSUME ReuseInv, NEW t \in Tab, NEW kind \in CallKind, NEW token \in 0..Len(tokens),
         NEW access \in Access, call' = Request(t, kind, token, access), lock = "free", lock' = t,
         kind = "refresh" => token = cookie, UNCHANGED <<tokens, cookie, reused, admin, faults>>
  PROVE  LockInv' /\ (Quiet' => CookieLive')
<1>1. DeadlineInv /\ (Quiet' => CookieLive)
  BY DEF ReuseInv, Quiet
<1>2. PICK c \in Call : /\ call' = [call EXCEPT ![t] = c] /\ c.kind = kind /\ c.token = token
                        /\ c.pc = "sent" /\ c.status = 0
  BY <1>1, Sent
<1>3. call[t] = NoCall /\ \A p \in Tab \ {t} : call[p] = NoCall
  BY Alone
<1>4. LockInv'
  BY <1>1, <1>2, <1>3, LockStep
<1>5. ASSUME Quiet'
      PROVE  CookieLive'
  <2>1. cookie # 0 => tokens[cookie].live
    <3>1. ~Spent(call[t])
      BY <1>3 DEF Spent, NoCall
    <3> QED
      BY <1>1, <1>3, <1>5, <3>1, CookieUnspent
  <2>2. Fits(c)
    BY <1>1, <1>2, <1>5, <2>1 DEF Fits, Granted, Rotating, CookieLive
  <2>3. Becomes(t, c)
    BY <1>1, <1>2, <1>3, <1>5 DEF Becomes, CookieLive
  <2> QED
    BY <1>1, <2>2, <2>3, CookieStep
<1> QED
  BY <1>4, <1>5

LEMMA StartReuse ==
  ASSUME ReuseInv, NEW t \in Tab,
         login(t) \/ logout(t) \/ checkSession(t) \/ refreshSession(t) \/ changePassword(t)
           \/ leaveOldSession(t)
  PROVE  LockInv' /\ (Quiet' => CookieLive')
<1>1. DeadlineInv /\ cookie \in 0..Len(tokens) /\ 0 \in 0..Len(tokens) /\ NoAccess \in Access
  <2>1. DeadlineInv
    BY DEF ReuseInv
  <2> QED
    BY <2>1, Times, NoCallOK DEF DeadlineInv, TypeOK
<1>2. {"login", "logout", "refresh", "password"} \subseteq CallKind
  BY DEF CallKind
<1>3. UNCHANGED <<tokens, cookie, reused, admin, faults>>
  BY DEF login, logout, checkSession, refreshSession, changePassword, leaveOldSession, StoreUnchanged
<1>4. CASE login(t)
  BY <1>1, <1>2, <1>3, <1>4, SentReuse DEF login, withAuthLock
<1>5. ASSUME revokeSession(t), withAuthLock(t)
      PROVE  LockInv' /\ (Quiet' => CookieLive')
  BY <1>1, <1>2, <1>3, <1>5, SentReuse DEF revokeSession, withAuthLock
<1>6. CASE logout(t)
  BY <1>5, <1>6 DEF logout
<1>7. ASSUME UNCHANGED <<lock, call>>
      PROVE  LockInv' /\ (Quiet' => CookieLive')
  BY <1>3, <1>7, SameReuse
<1>8. CASE checkSession(t)
  BY <1>5, <1>7, <1>8 DEF checkSession
<1>9. CASE refreshSession(t)
  BY <1>1, <1>2, <1>3, <1>9, SentReuse DEF refreshSession, withAuthLock
<1>10. CASE changePassword(t)
  <2>1. tab[t].access \in Access
    BY <1>1 DEF DeadlineInv, TypeOK, TabRow
  <2> QED
    BY <1>1, <1>2, <1>3, <1>10, <2>1, SentReuse DEF changePassword, withAuthLock
<1>11. CASE leaveOldSession(t)
  BY <1>7, <1>11 DEF leaveOldSession
<1> QED
  BY <1>4, <1>6, <1>8, <1>9, <1>10, <1>11

(* An answer arrives, and the cookie is replaced, cleared or kept. *)
LEMMA ApplyReuse ==
  ASSUME ReuseInv, NEW t \in Tab,
         applyLogin(t) \/ applyRefresh(t) \/ logoutDone(t) \/ passwordDone(t)
  PROVE  LockInv' /\ (Quiet' => CookieLive')
<1>1. /\ call[t].pc = "done" /\ UNCHANGED <<tokens, reused, admin, faults>>
  BY DEF applyLogin, applyRefresh, logoutDone, passwordDone, StoreUnchanged
<1>2. /\ DeadlineInv /\ (Quiet' => CookieLive) /\ lock = t
      /\ \A p \in Tab \ {t} : call[p] = NoCall
  <2>1. \A p \in Tab \ {t} : call[p] = NoCall
    BY <1>1, Alone
  <2>2. lock = t
    BY <1>1 DEF ReuseInv, LockInv
  <2> QED
    BY <1>1, <2>1, <2>2 DEF ReuseInv, Quiet
<1>3. ASSUME NEW c, call' = [call EXCEPT ![t] = c], c.pc \in {"none", "sent"}, c.status = 0,
             c.kind # "refresh", lock' = IF c.pc = "none" THEN "free" ELSE t,
             Quiet' => (cookie' # 0 => tokens[cookie'].live)
      PROVE  LockInv' /\ (Quiet' => CookieLive')
  <2>1. LockInv'
    BY <1>2, <1>3, LockStep
  <2>2. ASSUME Quiet'
        PROVE  CookieLive'
    <3>1. Becomes(t, c)
      BY <1>2, <1>3, <2>2 DEF Becomes, CookieLive
    <3>2. Fits(c)
      BY <1>1, <1>2, <1>3, <2>2 DEF Fits, Granted, Rotating, CookieLive
    <3> QED
      BY <1>2, <3>1, <3>2, CookieStep
  <2> QED
    BY <2>1, <2>2
<1>4. ASSUME Done(t), Quiet' => (cookie' # 0 => tokens[cookie'].live)
      PROVE  LockInv' /\ (Quiet' => CookieLive')
  <2>1. NoCall.pc = "none" /\ NoCall.status = 0 /\ NoCall.kind # "refresh"
    BY DEF NoCall
  <2>2. call' = [call EXCEPT ![t] = NoCall] /\ lock' = "free"
    BY <1>2, <1>4 DEF Done
  <2> QED
    BY <1>3, <1>4, <2>1, <2>2
<1>5. Granted(call[t]) => (Quiet' => tokens[call[t].new].live)
  BY <1>2 DEF CookieLive
<1>6. ASSUME ~Spent(call[t]), Quiet', cookie # 0
      PROVE  tokens[cookie].live
  BY <1>2, <1>6, CookieUnspent
<1>7. CASE applyLogin(t)
  <2>1. CASE call[t].status = 200
    BY <1>4, <1>5, <1>7, <2>1 DEF applyLogin, Granted, Rotating
  <2>2. CASE call[t].status # 200
    <3>1. ~Spent(call[t])
      BY <1>7 DEF applyLogin, Spent
    <3> QED
      BY <1>4, <1>6, <1>7, <2>2, <3>1 DEF applyLogin
  <2> QED
    BY <2>1, <2>2
<1>8. CASE applyRefresh(t)
  <2>1. CASE call[t].status = 200
    <3>1. Granted(call[t]) /\ cookie' = call[t].new
      BY <1>8, <2>1 DEF applyRefresh, Granted, Rotating
    <3>2. CASE Done(t)
      BY <1>4, <1>5, <3>1, <3>2
    <3>3. CASE call' = Request(t, "logout", call[t].new, NoAccess) /\ lock' = lock
      <4>1. PICK n \in 0..Len(tokens) : n = call[t].new
        BY <1>2, <3>1, GrantedSession
      <4>2. "logout" \in CallKind /\ NoAccess \in Access
        BY <1>2, NoCallOK DEF CallKind
      <4>3. PICK c \in Call : /\ Request(t, "logout", n, NoAccess) = [call EXCEPT ![t] = c]
                              /\ c.kind = "logout" /\ c.pc = "sent" /\ c.status = 0
        BY <1>2, <4>2, Sent
      <4>4. call' = [call EXCEPT ![t] = c]
        BY <3>3, <4>1, <4>3
      <4> QED
        BY <1>2, <1>3, <1>5, <3>1, <3>3, <4>3, <4>4
    <3> QED
      BY <1>8, <2>1, <3>2, <3>3 DEF applyRefresh
  <2>2. CASE call[t].status # 200
    BY <1>4, <1>8, <2>2 DEF applyRefresh
  <2> QED
    BY <2>1, <2>2
<1>9. CASE logoutDone(t)
  <2>1. Quiet' => call[t].status = 200
    BY <1>2, <1>9 DEF logoutDone, CookieLive
  <2> QED
    BY <1>4, <1>9, <2>1 DEF logoutDone
<1>10. CASE passwordDone(t)
  <2>1. CASE call[t].status = 200
    BY <1>4, <1>10, <2>1 DEF passwordDone
  <2>2. CASE call[t].status # 200
    <3>1. ~Spent(call[t])
      BY <1>10, <2>2 DEF passwordDone, Spent
    <3> QED
      BY <1>4, <1>6, <1>10, <2>2, <3>1 DEF passwordDone
  <2> QED
    BY <2>1, <2>2
<1> QED
  BY <1>7, <1>8, <1>9, <1>10

(* Failed and abandoned requests: the lock is released, and faults counts them. *)
LEMMA FaultReuse ==
  ASSUME ReuseInv, NEW t \in Tab, ServeFails(t) \/ abandon(t)
  PROVE  LockInv' /\ (Quiet' => CookieLive')
<1>1. ~Quiet'
  <2>1. faults \in Nat /\ faults' = faults + 1
    BY DEF ReuseInv, DeadlineInv, TypeOK, ServeFails, abandon, Fault
  <2> QED
    BY <2>1 DEF Quiet
<1>2. /\ DeadlineInv /\ call[t].pc # "none" /\ lock = t
      /\ \A p \in Tab \ {t} : call[p] = NoCall
  <2>1. call[t].pc # "none"
    BY DEF ServeFails, abandon
  <2>2. \A p \in Tab \ {t} : call[p] = NoCall
    BY <2>1, Alone
  <2> QED
    BY <2>1, <2>2 DEF ReuseInv, LockInv
<1>3. CASE ServeFails(t)
  <2>1. PICK c : call' = [call EXCEPT ![t] = c] /\ c.pc = "done"
    BY <1>3, ReplyFields DEF ServeFails
  <2>2. lock' = lock
    BY <1>3 DEF ServeFails
  <2> QED
    BY <1>1, <1>2, <2>1, <2>2, LockStep
<1>4. CASE abandon(t)
  <2>1. lock' = "free" /\ t # "orphan" /\ NoCall.pc = "none"
    BY <1>2, <1>4 DEF abandon, NoCall
  <2>2. \A p \in Tab : call'[p] = NoCall
    <3>1. call \in [Slot -> Call] /\ \A p \in Tab : p \in Slot /\ p # "orphan"
      BY <1>2 DEF DeadlineInv, TypeOK, Slot
    <3>2. PICK d : call' = [call EXCEPT ![t] = NoCall, !["orphan"] = d]
      BY <1>4 DEF abandon
    <3> QED
      BY <1>2, <3>1, <3>2
  <2> QED
    BY <1>1, <2>1, <2>2 DEF LockInv
<1> QED
  BY <1>3, <1>4

(* An orphan exists only after a request was abandoned. *)
LEMMA OrphanReuse ==
  ASSUME ReuseInv, Handle("orphan")
  PROVE  LockInv' /\ (Quiet' => CookieLive')
<1>1. /\ call["orphan"].kind # "none" /\ UNCHANGED <<lock, faults, admin>>
  BY DEF Handle, LoginHandler, RefreshCheck, SaveReplacement, markRevoked, SignRefreshed,
       LogoutHandler, ChangePasswordHandler, invalidateTokens,
       ServerUnchanged
<1>2. ~Quiet'
  BY <1>1 DEF ReuseInv, Quiet, CookieLive, NoCall
<1>3. PICK d : call' = [call EXCEPT !["orphan"] = d]
  <2>1. \A status, new, access : Reply("orphan", status, new, access)
                                  => call' = [call EXCEPT !["orphan"] = NoCall]
    BY DEF Reply
  <2>2. CASE \E pc : call' = [call EXCEPT !["orphan"].pc = pc]
    BY <2>2
  <2>3. CASE \E pc, new : call' = [call EXCEPT !["orphan"].pc = pc, !["orphan"].new = new]
    BY <2>3
  <2> QED
    BY <2>1, <2>2, <2>3 DEF Handle, LoginHandler, RefreshCheck, SaveReplacement, markRevoked, SignRefreshed,
       invalidateTokens, LogoutHandler,
       ChangePasswordHandler
<1>4. \A p \in Tab : call'[p] = call[p]
  BY <1>3 DEF ReuseInv, DeadlineInv, TypeOK, Slot
<1> QED
  BY <1>1, <1>2, <1>4 DEF ReuseInv, LockInv

(* The administrator's steps are counted, but for the activation of an account, *)
(* which touches no token.                                                      *)
LEMMA AdminReuse ==
  ASSUME ReuseInv, DeactivateUser \/ ReactivateUser \/ ResetUserPassword
  PROVE  LockInv' /\ (Quiet' => CookieLive')
<1>1. CASE ReactivateUser
  BY <1>1, SameReuse DEF ReactivateUser, AdminStep
<1>2. CASE DeactivateUser \/ ResetUserPassword
  <2>1. admin \in Nat /\ admin' = admin + 1 /\ UNCHANGED <<lock, call>>
    BY <1>2 DEF ReuseInv, DeadlineInv, TypeOK, DeactivateUser, ResetUserPassword, AdminStep
  <2>2. ~Quiet'
    BY <2>1 DEF Quiet
  <2> QED
    BY <2>1, <2>2 DEF ReuseInv, LockInv
<1> QED
  BY <1>1, <1>2

LEMMA ReuseHolds == Spec => []ReuseInv
<1>1. Init => ReuseInv
  <2> SUFFICES ASSUME Init PROVE ReuseInv
    OBVIOUS
  <2>1. /\ lock = "free" /\ cookie = 0 /\ reused = FALSE /\ \A s \in Slot : call[s] = NoCall
        /\ "orphan" \in Slot /\ \A t \in Tab : t \in Slot
    BY DEF Init, Slot
  <2>2. LockInv
    <3>1. NoCall.pc = "none"
      BY DEF NoCall
    <3> QED
      BY <2>1, <3>1 DEF LockInv
  <2>3. CookieLive
    BY <2>1 DEF CookieLive, NoCall, Granted, Rotating
  <2> QED
    BY <2>2, <2>3, InitDeadline DEF ReuseInv
<1>2. ASSUME ReuseInv, [Next]_vars
      PROVE  ReuseInv'
  <2>1. DeadlineInv'
    BY <1>2, NextDeadline DEF ReuseInv
  <2>2. CASE recordActivity \/ Tick \/ UNCHANGED vars
    <3>1. UNCHANGED <<tokens, cookie, lock, call, reused, admin, faults>>
      BY <2>2 DEF recordActivity, Tick, vars
    <3> QED
      BY <1>2, <2>1, <3>1, SameReuse DEF ReuseInv
  <2>3. CASE \E t \in Tab : \/ login(t) \/ logout(t) \/ checkSession(t) \/ refreshSession(t)
                            \/ changePassword(t) \/ leaveOldSession(t)
    BY <1>2, <2>1, <2>3, StartReuse DEF ReuseInv
  <2>4. CASE \E t \in Tab : Answer(t)
    BY <1>2, <2>1, <2>4, ServerReuse, ApplyReuse DEF ReuseInv, Answer
  <2>5. CASE \E t \in Tab : ServeFails(t) \/ abandon(t)
    BY <1>2, <2>1, <2>5, FaultReuse DEF ReuseInv
  <2>6. CASE Handle("orphan")
    BY <1>2, <2>1, <2>6, OrphanReuse DEF ReuseInv
  <2>7. CASE DeactivateUser \/ ReactivateUser \/ ResetUserPassword
    BY <1>2, <2>1, <2>7, AdminReuse DEF ReuseInv
  <2> QED
    BY <1>2, <2>2, <2>3, <2>4, <2>5, <2>6, <2>7 DEF Next
<1> QED
  BY <1>1, <1>2, PTL DEF Spec

(* NoSelfReuse for any tabs, timeouts and bounds: as long as no request failed or was *)
(* abandoned and no administrator revoked tokens, the tabs of a browser never present *)
(* a refresh token that was already rotated, whatever the interleaving of refreshes,  *)
(* logouts, logins and password changes (the Web Lock of useAuthStore).               *)
THEOREM NeverReused == Spec => []NoSelfReuse
<1>1. ASSUME ReuseInv
      PROVE  NoSelfReuse
  <2>1. faults \in Nat /\ admin \in Nat
    BY <1>1 DEF ReuseInv, DeadlineInv, TypeOK
  <2> QED
    BY <1>1, <2>1 DEF ReuseInv, Quiet, CookieLive, NoSelfReuse
<1> QED
  BY <1>1, ReuseHolds, PTL
============================================================================
