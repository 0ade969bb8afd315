---------------------------- MODULE PortalSession ----------------------------
(***************************************************************************)
(* A portal session end to end: the tabs of one browser, which share a     *)
(* refresh cookie, a session record in local storage and a Web Lock; the   *)
(* auth handlers of web-pivotal, which rotate refresh tokens in families;  *)
(* and the administrator who deactivates the account or resets its         *)
(* password.  A request is its own actor: a tab that gives up on it after  *)
(* 15 s leaves it running on the server.                                   *)
(***************************************************************************)
EXTENDS Naturals, Sequences

CONSTANTS
    Tab,
    Idle,       \* session idle timeout
    Abs,        \* session absolute timeout
    Ttl,        \* access token lifetime
    MaxClock,   \* bound: time
    MaxLogins,  \* bound: logins, hence token families
    MaxTokens,  \* bound: refresh tokens when a refresh starts
    MaxAdmin,   \* bound: deactivations and password resets
    MaxFaults   \* bound: server errors and abandoned requests

ASSUME TimeoutsAssumption ==
    /\ Idle \in Nat \ {0} /\ Abs \in Nat \ {0} /\ Ttl \in Nat \ {0}
    /\ MaxClock \in Nat \ {0} /\ MaxLogins \in Nat /\ MaxTokens \in Nat
    /\ MaxAdmin \in Nat /\ MaxFaults \in Nat

ASSUME TabAssumption == "orphan" \notin Tab /\ "free" \notin Tab

VARIABLES
    clock,
    user,      \* [active, invalidated]: tokensInvalidatedAt, 0 for never
    tokens,    \* refresh_tokens: [family, expires, session, live]
    born,      \* when each family logged in (history)
    cookie,    \* the browser's refresh token, 0 for none
    stored,    \* the shared session of local storage
    lock,      \* the tab that holds the Web Lock, or "free"
    tab,       \* each tab: [auth, session, access, op]
    call,      \* each tab's request as the server sees it, and one that its
               \* tab has abandoned
    reused,    \* reuse of a rotated token was detected (history)
    admin, faults

vars == <<clock, user, tokens, born, cookie, stored, lock, tab, call,
          reused, admin, faults>>

FirstRow == [active |-> TRUE, invalidated |-> 0]
NoAccess == [iat |-> 0, exp |-> 0]
NoCall == [kind |-> "none", token |-> 0, pc |-> "none", status |-> 0,
           new |-> 0, access |-> NoAccess]
NoSession == [id |-> 0, last |-> 0, expires |-> 0, ended |-> FALSE]
SignedOut == [auth |-> FALSE, session |-> 0, access |-> NoAccess, op |-> "none"]

Slot == Tab \cup {"orphan"}
User == [active : BOOLEAN, invalidated : Nat]
Access == [iat : Nat, exp : Nat]
Token == [family : Nat, expires : Nat, session : Nat, live : BOOLEAN]
Session == [id : Nat, last : Nat, expires : Nat, ended : BOOLEAN]
CallKind == {"none", "login", "refresh", "logout", "password"}
Pc == {"none", "sent", "checked", "saved", "revoked", "done"}
Call == [kind : CallKind, token : Nat, pc : Pc,
         status : {0, 200, 401, 500}, new : Nat, access : Access]
TabRow == [auth : BOOLEAN, session : Nat, access : Access, op : CallKind]

TypeOK ==
    /\ clock \in 1..MaxClock
    /\ user \in User
    /\ tokens \in Seq(Token)
    /\ born \in Seq(Nat)
    /\ cookie \in 0..Len(tokens)
    /\ stored \in Session
    /\ lock \in Tab \cup {"free"}
    /\ tab \in [Tab -> TabRow]
    /\ call \in [Slot -> Call]
    /\ reused \in BOOLEAN
    /\ admin \in 0..MaxAdmin /\ faults \in 0..MaxFaults

Init ==
    /\ clock = 1
    /\ user = FirstRow
    /\ tokens = <<>> /\ born = <<>>
    /\ cookie = 0 /\ stored = NoSession
    /\ lock = "free"
    /\ tab = [t \in Tab |-> SignedOut]
    /\ call = [s \in Slot |-> NoCall]
    /\ reused = FALSE
    /\ admin = 0 /\ faults = 0

Fault == faults < MaxFaults /\ faults' = faults + 1

-----------------------------------------------------------------------------
\* Token service and guard.

Least(a, b) == IF a < b THEN a ELSE b

\* signAccessToken: never past the session's deadline.
signAccessToken(session) ==
    [iat |-> clock, exp |-> Least(clock + Ttl, session)]

\* A service that gives every refreshed token a full session.
issueFreshToken(family, session) ==
    [family |-> family, expires |-> clock + Idle, session |-> clock + Abs,
     live |-> TRUE]

\* issueRefreshToken: idle from now, capped by the deadline handed on.
issueRefreshToken(family, session) ==
    [family |-> family, expires |-> Least(clock + Idle, session),
     session |-> session, live |-> TRUE]

\* JwtAuthGuard.canActivate on the user row it read; tokens issued in the
\* second of the invalidation are refused too.
canActivate(a, row) ==
    /\ clock < a.exp
    /\ row.active
    /\ row.invalidated < a.iat

\* The guard reads a replica.  One that lags is taken to have the first row,
\* which refuses no token that a later row accepts.
ReplicaRow == {user, FirstRow}

revokeFamily(f) ==
    [i \in DOMAIN tokens |->
        [tokens[i] EXCEPT !.live = @ /\ tokens[i].family # f]]

revokeAllForUser == [i \in DOMAIN tokens |-> [tokens[i] EXCEPT !.live = FALSE]]

-----------------------------------------------------------------------------
\* SessionActivity on the shared record.  A missing record counts as expired.

expired(s) == \/ s.id = 0 \/ s.ended
              \/ clock >= s.expires
              \/ clock - s.last >= Idle

start(family, session) ==
    [id |-> family, last |-> clock, expires |-> session, ended |-> FALSE]

end(s) == [s EXCEPT !.ended = (s.id # 0)]

\* Input in a signed-in tab; after expiry it changes nothing.
recordActivity ==
    /\ \E t \in Tab : tab[t].auth
    /\ ~expired(stored)
    /\ stored.last # clock
    /\ stored' = [stored EXCEPT !.last = clock]
    /\ UNCHANGED <<clock, user, tokens, born, cookie, lock, tab, call, reused,
                   admin, faults>>

-----------------------------------------------------------------------------
\* The handlers of web-pivotal, on the request in slot s.  The answer to an
\* abandoned request goes nowhere.

ServerUnchanged ==
    UNCHANGED <<clock, cookie, stored, lock, tab, admin, faults>>

Reply(s, status, new, access) ==
    call' = [call EXCEPT ![s] =
               IF s = "orphan" THEN NoCall
               ELSE [kind |-> @.kind, token |-> @.token, pc |-> "done",
                     status |-> status, new |-> new, access |-> access]]

\* LoginHandler with the right password: a new family.
LoginHandler(s) ==
    /\ call[s].kind = "login" /\ call[s].pc = "sent"
    /\ \/ /\ user.active
          /\ tokens' = Append(tokens,
                         issueRefreshToken(Len(born) + 1, clock + Abs))
          /\ born' = Append(born, clock)
          /\ Reply(s, 200, Len(tokens) + 1, signAccessToken(clock + Abs))
       \/ /\ ~user.active
          /\ UNCHANGED <<tokens, born>>
          /\ Reply(s, 401, 0, NoAccess)
    /\ UNCHANGED <<user, reused>>
    /\ ServerUnchanged

\* RefreshTokensHandler up to the user check: unknown, expired, revoked
\* (reuse) and inactive end in 401, all but the first revoking the family.
RefreshCheck(s) ==
    /\ call[s].kind = "refresh" /\ call[s].pc = "sent"
    /\ \/ /\ call[s].token = 0
          /\ UNCHANGED <<tokens, reused>>
          /\ Reply(s, 401, 0, NoAccess)
       \/ /\ call[s].token # 0
          /\ LET existing == tokens[call[s].token]
                 late == clock >= existing.session \/ clock >= existing.expires
             IN \/ /\ late \/ ~existing.live \/ ~user.active
                   /\ tokens' = revokeFamily(existing.family)
                   /\ reused' = (reused \/ (~late /\ ~existing.live))
                   /\ Reply(s, 401, 0, NoAccess)
                \/ /\ ~late /\ existing.live /\ user.active
                   /\ UNCHANGED <<tokens, reused>>
                   /\ call' = [call EXCEPT ![s].pc = "checked"]
    /\ UNCHANGED <<user, born>>
    /\ ServerUnchanged

\* The rotation, one write at a time: the replacement is saved ...
SaveReplacement(s) ==
    /\ call[s].kind = "refresh" /\ call[s].pc = "checked"
    /\ LET existing == tokens[call[s].token]
       IN tokens' = Append(tokens,
                      issueRefreshToken(existing.family, existing.session))
    /\ call' = [call EXCEPT ![s] =
                  [kind |-> @.kind, token |-> @.token, pc |-> "saved", status |-> 0,
                   new |-> Len(tokens) + 1, access |-> NoAccess]]
    /\ UNCHANGED <<user, born, reused>>
    /\ ServerUnchanged

\* ... the old token is revoked ...
markRevoked(s) ==
    /\ call[s].kind = "refresh" /\ call[s].pc = "saved"
    /\ tokens' = [i \in DOMAIN tokens |->
                    [tokens[i] EXCEPT !.live = @ /\ i # call[s].token]]
    /\ call' = [call EXCEPT ![s].pc = "revoked"]
    /\ UNCHANGED <<user, born, reused>>
    /\ ServerUnchanged

\* ... and the access token is signed, with the deadline handed on.
SignRefreshed(s) ==
    /\ call[s].kind = "refresh" /\ call[s].pc = "revoked"
    /\ Reply(s, 200, call[s].new, signAccessToken(tokens[call[s].new].session))
    /\ UNCHANGED <<user, tokens, born, reused>>
    /\ ServerUnchanged

\* LogoutHandler on the cookie's token; without one, nothing to revoke.
LogoutHandler(s) ==
    /\ call[s].kind = "logout" /\ call[s].pc = "sent"
    /\ tokens' = [i \in DOMAIN tokens |->
                    [tokens[i] EXCEPT !.live = @ /\ i # call[s].token]]
    /\ Reply(s, 200, 0, NoAccess)
    /\ UNCHANGED <<user, born, reused>>
    /\ ServerUnchanged

\* The guard, on a replica, then ChangePasswordHandler, on the primary: every
\* session of the user ends ...
ChangePasswordHandler(s) ==
    /\ call[s].kind = "password" /\ call[s].pc = "sent"
    /\ \/ /\ \E row \in ReplicaRow : canActivate(call[s].access, row)
          /\ user.active
          /\ tokens' = revokeAllForUser
          /\ call' = [call EXCEPT ![s].pc = "revoked"]
       \/ /\ \/ \E row \in ReplicaRow : ~canActivate(call[s].access, row)
             \/ ~user.active
          /\ tokens' = tokens
          /\ Reply(s, 401, 0, NoAccess)
    /\ UNCHANGED <<user, born, reused>>
    /\ ServerUnchanged

\* ... and then its access tokens.
invalidateTokens(s) ==
    /\ call[s].kind = "password" /\ call[s].pc = "revoked"
    /\ user' = [user EXCEPT !.invalidated = clock]
    /\ Reply(s, 200, 0, NoAccess)
    /\ UNCHANGED <<tokens, born, reused>>
    /\ ServerUnchanged

Handle(s) ==
    \/ LoginHandler(s) \/ LogoutHandler(s)
    \/ RefreshCheck(s) \/ SaveReplacement(s) \/ markRevoked(s) \/ SignRefreshed(s)
    \/ ChangePasswordHandler(s) \/ invalidateTokens(s)

\* An unexpected error, a database that does not answer: 500, with what was
\* written so far left as it is.
ServeFails(t) ==
    /\ call[t].pc \notin {"none", "done"}
    /\ Fault
    /\ Reply(t, 500, 0, NoAccess)
    /\ UNCHANGED <<clock, user, tokens, born, cookie, stored, lock, tab,
                   reused, admin>>

-----------------------------------------------------------------------------
\* The auth store of a tab.  Operations run under the Web Lock.

clearState(t) == [tab EXCEPT ![t] = SignedOut]

Request(t, kind, token, access) ==
    [call EXCEPT ![t] = [kind |-> kind, token |-> token, pc |-> "sent", status |-> 0,
                         new |-> 0, access |-> access]]

StoreUnchanged == UNCHANGED <<clock, user, tokens, born, reused,
                              admin, faults>>

\* A tab that does not serialise with the others.
withoutAuthLock(t) == tab[t].op = "none" /\ lock' = lock

withAuthLock(t) == lock = "free" /\ tab[t].op = "none" /\ lock' = t

login(t) ==
    /\ ~tab[t].auth
    /\ Len(born) < MaxLogins
    /\ withAuthLock(t)
    /\ tab' = [tab EXCEPT ![t].op = "login"]
    /\ call' = Request(t, "login", 0, NoAccess)
    /\ UNCHANGED <<cookie, stored>>
    /\ StoreUnchanged

\* revokeSession: the marker first, then the tab, then the request.
revokeSession(t) ==
    /\ stored' = end(stored)
    /\ tab' = [tab EXCEPT ![t] = [SignedOut EXCEPT !.op = "logout"]]
    /\ call' = Request(t, "logout", cookie, NoAccess)

logout(t) ==
    /\ tab[t].auth
    /\ withAuthLock(t)
    /\ revokeSession(t)
    /\ UNCHANGED cookie
    /\ StoreUnchanged

\* A tab that minds its own expiry, not the one another tab recorded.
checkOwnExpiry(t) ==
    /\ stored.id # 0 /\ expired(stored)
    /\ ~stored.ended
    /\ withAuthLock(t)
    /\ revokeSession(t)
    /\ UNCHANGED cookie
    /\ StoreUnchanged

\* checkSession, and refreshSession when the record has run out: a session
\* already ended by a tab is only cleared here.
checkSession(t) ==
    /\ stored.id # 0 /\ expired(stored)
    /\ \/ /\ stored.ended
          /\ tab[t].auth
          /\ lock = "free" /\ tab[t].op = "none" /\ lock' = lock
          /\ tab' = clearState(t)
          /\ UNCHANGED <<stored, call>>
       \/ /\ ~stored.ended
          /\ withAuthLock(t)
          /\ revokeSession(t)
    /\ UNCHANGED cookie
    /\ StoreUnchanged

\* A page load, the timer before the access token runs out, or a 401.
refreshSession(t) ==
    /\ ~expired(stored)
    /\ Len(tokens) < MaxTokens \/ ~user.active
    /\ withAuthLock(t)
    /\ tab' = [tab EXCEPT ![t].op = "refresh"]
    /\ call' = Request(t, "refresh", cookie, NoAccess)
    /\ UNCHANGED <<cookie, stored>>
    /\ StoreUnchanged

changePassword(t) ==
    /\ tab[t].auth
    /\ withAuthLock(t)
    /\ tab' = [tab EXCEPT ![t].op = "password"]
    /\ call' = Request(t, "password", 0, tab[t].access)
    /\ UNCHANGED <<cookie, stored>>
    /\ StoreUnchanged

\* monitorSession: another tab signed in as a new session.  It runs whatever
\* request of this tab is under way.
leaveOldSession(t) ==
    /\ tab[t].auth
    /\ ~expired(stored) /\ stored.id # tab[t].session
    /\ tab' = [tab EXCEPT ![t] = [SignedOut EXCEPT !.op = tab[t].op]]
    /\ UNCHANGED <<cookie, stored, lock, call>>
    /\ StoreUnchanged

\* The answer arrives: Done releases the lock.
Done(t) ==
    /\ lock' = IF lock = t THEN "free" ELSE lock
    /\ call' = [call EXCEPT ![t] = NoCall]

SignedIn(c) == [auth |-> TRUE, session |-> tokens[c.new].family,
                access |-> c.access, op |-> "none"]

applyLogin(t) ==
    /\ call[t].kind = "login" /\ call[t].pc = "done"
    /\ \/ /\ call[t].status = 200
          /\ cookie' = call[t].new
          /\ stored' = start(tokens[call[t].new].family,
                             tokens[call[t].new].session)
          /\ tab' = [tab EXCEPT ![t] = SignedIn(call[t])]
       \/ /\ call[t].status # 200
          /\ UNCHANGED <<cookie, stored>>
          /\ tab' = [tab EXCEPT ![t].op = "none"]
    /\ Done(t)
    /\ StoreUnchanged

\* A refreshed token is used only when the stored session still is the one
\* refreshed and has not run out meanwhile.
updatePolicyAny(family) == TRUE

updatePolicy(family) == stored.id = family /\ ~expired(stored)

\* A 200 signs the tab in, or is revoked at once; a 401 ends the session; a
\* 500 leaves it, to be tried again.  The controller clears the cookie on
\* every error.
applyRefresh(t) ==
    /\ call[t].kind = "refresh" /\ call[t].pc = "done"
    /\ \/ /\ call[t].status = 200
          /\ updatePolicy(tokens[call[t].new].family)
          /\ cookie' = call[t].new
          /\ tab' = [tab EXCEPT ![t] = SignedIn(call[t])]
          /\ stored' = stored
          /\ Done(t)
       \/ /\ call[t].status = 200
          /\ ~updatePolicy(tokens[call[t].new].family)
          /\ cookie' = call[t].new
          /\ stored' = end(stored)
          /\ tab' = [tab EXCEPT ![t] = [SignedOut EXCEPT !.op = "logout"]]
          /\ call' = Request(t, "logout", call[t].new, NoAccess)
          /\ lock' = lock
       \/ /\ call[t].status = 401
          /\ cookie' = 0
          /\ stored' = end(stored)
          /\ tab' = clearState(t)
          /\ Done(t)
       \/ /\ call[t].status = 500
          /\ cookie' = 0
          /\ stored' = stored
          /\ tab' = [tab EXCEPT ![t].op = "none"]
          /\ Done(t)
    /\ StoreUnchanged

\* Logout clears the cookie when the server answered; its errors are ignored.
logoutDone(t) ==
    /\ call[t].kind = "logout" /\ call[t].pc = "done"
    /\ cookie' = IF call[t].status = 200 THEN 0 ELSE cookie
    /\ tab' = [tab EXCEPT ![t].op = "none"]
    /\ stored' = stored
    /\ Done(t)
    /\ StoreUnchanged

passwordDone(t) ==
    /\ call[t].kind = "password" /\ call[t].pc = "done"
    /\ \/ /\ call[t].status = 200
          /\ cookie' = 0
          /\ stored' = end(stored)
          /\ tab' = clearState(t)
       \/ /\ call[t].status # 200
          /\ UNCHANGED <<cookie, stored>>
          /\ tab' = [tab EXCEPT ![t].op = "none"]
    /\ Done(t)
    /\ StoreUnchanged

\* AbortSignal.timeout(15_000): the tab goes on, the request too.
abandon(t) ==
    /\ call[t].pc # "none"
    /\ call["orphan"] = NoCall
    /\ Fault
    /\ call' = [call EXCEPT ![t] = NoCall,
                            !["orphan"] = IF call[t].pc = "done" THEN NoCall
                                          ELSE call[t]]
    /\ lock' = IF lock = t THEN "free" ELSE lock
    /\ tab' = [tab EXCEPT ![t].op = "none"]
    /\ UNCHANGED <<clock, user, tokens, born, cookie, stored, reused, admin>>

-----------------------------------------------------------------------------
\* The administrator, and time.

AdminStep(active) ==
    /\ user' = [active |-> active, invalidated |-> clock]
    /\ UNCHANGED <<clock, born, cookie, stored, lock, tab, call, reused, faults>>

DeactivateUser ==
    /\ user.active
    /\ admin < MaxAdmin /\ admin' = admin + 1
    /\ AdminStep(FALSE)
    /\ tokens' = revokeAllForUser

\* UpdateUser that activates the account again; refresh tokens stay as they
\* are.  It follows a deactivation, which is counted.
ReactivateUser ==
    /\ ~user.active
    /\ admin' = admin
    /\ AdminStep(TRUE)
    /\ tokens' = tokens

ResetUserPassword ==
    /\ admin < MaxAdmin /\ admin' = admin + 1
    /\ AdminStep(user.active)
    /\ tokens' = revokeAllForUser

Tick ==
    /\ clock < MaxClock
    /\ clock' = clock + 1
    /\ UNCHANGED <<user, tokens, born, cookie, stored, lock, tab, call, reused,
                   admin, faults>>

-----------------------------------------------------------------------------
Answer(t) == \/ Handle(t) \/ applyLogin(t) \/ applyRefresh(t) \/ logoutDone(t)
             \/ passwordDone(t)

\* What the timer of a signed-in tab does, every second.
monitorSession(t) ==
    /\ tab[t].auth
    /\ checkSession(t) \/ leaveOldSession(t) \/ refreshSession(t)

Next ==
    \/ recordActivity
    \/ \E t \in Tab : \/ login(t) \/ logout(t) \/ checkSession(t)
                      \/ refreshSession(t) \/ changePassword(t)
                      \/ leaveOldSession(t)
                      \/ Answer(t) \/ ServeFails(t) \/ abandon(t)
    \/ Handle("orphan")
    \/ DeactivateUser \/ ReactivateUser \/ ResetUserPassword
    \/ Tick

Spec == Init /\ [][Next]_vars

\* A tab looks at its session every second and when its access token runs
\* out; the Web Lock is handed out in turn; the server answers.
Fairness ==
    /\ \A t \in Tab : WF_vars(Answer(t)) /\ SF_vars(monitorSession(t))
    /\ WF_vars(Handle("orphan"))
    /\ WF_vars(Tick)

FairSpec == Spec /\ Fairness

-----------------------------------------------------------------------------
\* The Web Lock serialises rotation across tabs: as long as no request was
\* abandoned, the portal itself never presents a token it has already rotated
\* while the session runs, which would revoke the whole family; only an
\* administrator or a password change revokes under its feet.
NoSelfReuse == reused => faults > 0 \/ admin > 0

\* Refreshing never moves the absolute deadline: an access token the guard
\* accepts belongs to a login less than the absolute timeout ago.
AbsoluteDeadline ==
    \A t \in Tab, row \in ReplicaRow :
        tab[t].auth /\ canActivate(tab[t].access, row)
                     => clock < born[tab[t].session] + Abs

\* A late answer does not resurrect a session: a tab takes the access token
\* of a refresh only for the session in storage, and only while that has neither
\* ended nor run out, however long the request was under way.
LateAnswerRefused ==
    [][\A t \in Tab :
         call[t].kind = "refresh" /\ call'[t] = NoCall
           /\ tab'[t].auth /\ tab'[t].access # tab[t].access
         => tab'[t].session = stored'.id /\ ~expired(stored)']_vars

\* Tabs converge: again and again every signed-in tab follows the session in
\* storage, which is still running, of an account that is active.  No tab stays
\* signed in to an idle or older session, or to a deactivated account, although
\* tabs learn of those only from storage and from their own refreshes.
TabsConverge ==
    []<>(\A t \in Tab : tab[t].auth => /\ tab[t].session = stored.id
                                       /\ ~expired(stored)
                                       /\ user.active)

-----------------------------------------------------------------------------
\* What the properties rest on.

\* An answer that signs a tab in.
Granted(c) == c.kind \in {"login", "refresh"} /\ c.pc = "done" /\ c.status = 200

\* A rotation that has saved the replacement.
Rotating(c) == c.kind = "refresh" /\ c.pc \in {"saved", "revoked"}

\* A token carries the deadline of the login of its family.
TokenOK(k) == k.family \in DOMAIN born /\ k.session = born[k.family] + Abs

\* A request refers to tokens that were issued, and an answer's access token ends
\* with the session.
CallOK(c) ==
    /\ c.pc = "none" => c = NoCall
    /\ c.token \in 0..Len(tokens)
    /\ c.pc = "checked" => c.kind = "refresh" /\ c.token # 0
    /\ Rotating(c) => c.new \in DOMAIN tokens /\ c.new # c.token
    /\ Granted(c) => c.new \in DOMAIN tokens /\ c.access.exp <= tokens[c.new].session

\* So does the access token of a tab.
TabOK(r) ==
    r.auth => r.session \in DOMAIN born /\ r.access.exp <= born[r.session] + Abs

DeadlineInv ==
    /\ TypeOK
    /\ \A i \in DOMAIN tokens : TokenOK(tokens[i])
    /\ \A s \in Slot : CallOK(call[s])
    /\ \A t \in Tab : TabOK(tab[t])

\* The Web Lock: a tab has a request under way exactly while it holds it.
LockInv == \A t \in Tab : (call[t].pc # "none") <=> (lock = t)

\* The server may have revoked the token of the cookie, and the answer that
\* replaces the cookie is on its way.
Spent(c) == \/ c.pc = "revoked"
            \/ c.pc = "done" /\ c.kind \in {"refresh", "logout"}
            \/ c.pc = "done" /\ c.kind = "password" /\ c.status = 200

\* As long as no request failed and no administrator stepped in, the token in
\* the cookie is live whenever it can be presented.
Quiet == faults = 0 /\ admin = 0

CookieLive ==
    /\ ~reused
    /\ call["orphan"] = NoCall
    /\ \A t \in Tab : /\ call[t].status # 500
                      /\ call[t].kind = "logout" /\ call[t].pc = "done" => call[t].status = 200
                      /\ Rotating(call[t]) \/ Granted(call[t]) => tokens[call[t].new].live
                      /\ call[t].kind = "refresh" => call[t].token = cookie
    /\ cookie # 0 => \/ tokens[cookie].live
                     \/ \E t \in Tab : Spent(call[t])

ReuseInv == DeadlineInv /\ LockInv /\ (Quiet => CookieLive)
=============================================================================
