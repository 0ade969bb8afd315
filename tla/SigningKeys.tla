----------------------------- MODULE SigningKeys -----------------------------
(***************************************************************************)
(* The life of one participant's FSPIOP signing key: onboarding generates  *)
(* it and records its public half, trust-manager publishes that half to    *)
(* the Connection Manager (MCM) and switches signing on, operators move    *)
(* the policy, the peer sync pulls the keys MCM lists, and every web       *)
(* process refreshes the cache it signs from.  Everything in the code is   *)
(* keyed by the FSP id, so the module follows one id.                      *)
(*                                                                         *)
(* The deployment is the Vault profile.  A key pair is a number: the       *)
(* private half in Vault and the public half in the row and at MCM verify  *)
(* each other exactly when they are the same number; 0 is no key.          *)
(***************************************************************************)
EXTENDS Naturals

CONSTANTS
    Call,        \* concurrent onboarding requests for the id
    Event,       \* consume loops of signing-tenant announcements
    Sweep,       \* publish sweeps (a Redis lock lets one run at a time)
    MaxKeys,     \* bound: key pairs onboarding generates
    MaxEdits,    \* bound: operator requests
    MaxForeign,  \* bound: keys somebody else registers at MCM for the id
    MaxFaults    \* bound: failed calls and crashes

ASSUME BoundsAssumption ==
    /\ MaxKeys \in Nat /\ MaxEdits \in Nat
    /\ MaxForeign \in Nat /\ MaxFaults \in Nat
    /\ Event \cap Sweep = {}

VARIABLES
    row,         \* the participant_key row on the write database
    replica,     \* the copy the read connection answers from
    vault,       \* the private key at the tenant's Vault path
    mcm,         \* the public key MCM holds for the id
    registered,  \* whether MCM knows the DFSP
    registrar,   \* whether this deployment registers DFSPs at MCM itself
    announced,   \* signing-tenant messages not yet acknowledged
    onboard,     \* each onboarding request: where it is, the key it made
    worker,      \* each trust-manager pass: where it is, the row it loaded
    operator,    \* the operator requests under way, with the row each loaded
    cache,       \* the private key a web process signs with, and of a refresh
                 \* under way whether the row it read is a signing tenant's
    made,        \* key pairs generated
    edits, foreign, faults,
    byHand       \* what operators did that the code leaves to them: signing
                 \* enabled before MCM held the key, a tenant's key replaced

vars == <<row, replica, vault, mcm, registered, registrar, announced, onboard, worker,
          operator, cache, made, edits, foreign, faults, byHand>>

Worker == Event \cup Sweep
Request == {"policy", "keys"}
OwnKey == 1..MaxKeys
ForeignKey == (MaxKeys + 1)..(MaxKeys + MaxForeign)
Key == 0..(MaxKeys + MaxForeign)

\* ParticipantKey; role "none" stands for a missing row.
Row == [role : {"none", "self", "peer"}, pub : Key,
        enabled : BOOLEAN, activated : BOOLEAN]

NoRow == [role |-> "none", pub |-> 0, enabled |-> FALSE, activated |-> FALSE]

PublishPc == {"idle", "register", "read", "publish", "verify", "activate"}

TypeOK ==
    /\ row \in Row /\ replica \in Row
    /\ vault \in 0..MaxKeys /\ mcm \in Key
    /\ registered \in BOOLEAN /\ registrar \in BOOLEAN
    /\ announced \in Nat
    /\ onboard \in [Call -> [pc : {"idle", "provision", "save", "announce"},
                             key : 0..MaxKeys]]
    /\ worker \in [Worker -> [pc : PublishPc, held : Row]]
    /\ operator \in [Request -> [pc : {"idle", "save"}, held : Row]]
    /\ cache \in [priv : 0..MaxKeys, loading : BOOLEAN, signs : BOOLEAN]
    /\ made \in 0..MaxKeys /\ edits \in 0..MaxEdits
    /\ foreign \in 0..MaxForeign /\ faults \in 0..MaxFaults
    /\ byHand \subseteq {"enabled", "keyed"}

Idle == [pc |-> "idle", held |-> NoRow]

Init ==
    /\ row = NoRow /\ replica = NoRow
    /\ vault = 0 /\ mcm = 0 /\ registered = FALSE
    /\ registrar \in BOOLEAN
    /\ announced = 0
    /\ onboard = [c \in Call |-> [pc |-> "idle", key |-> 0]]
    /\ worker = [w \in Worker |-> Idle]
    /\ operator = [o \in Request |-> Idle]
    /\ cache = [priv |-> 0, loading |-> FALSE, signs |-> FALSE]
    /\ made = 0 /\ edits = 0 /\ foreign = 0 /\ faults = 0
    /\ byHand = {}

Fault ==
    /\ faults < MaxFaults
    /\ faults' = faults + 1

holdsKey(r) == r.pub # 0

isSigningTenant(r) == r.role = "self" /\ r.enabled

\* A row a pass may publish: self-role, with a public key.
publishable(r) == r.role = "self" /\ holdsKey(r)

-----------------------------------------------------------------------------
\* Onboarding (web-pivotal).

OnboardUnchanged ==
    UNCHANGED <<replica, mcm, registered, registrar, worker, operator, cache,
                edits, foreign, byHand>>

\* execute up to provisionSigningKey's check.  The ledger and participant
\* row come before it; when they fail, the request ends here unchanged.
OnboardFsp(c) ==
    /\ onboard[c].pc = "idle"
    /\ ~holdsKey(row)
    /\ made < MaxKeys
    /\ onboard' = [onboard EXCEPT ![c].pc = "provision"]
    /\ UNCHANGED <<row, vault, announced, made, faults>>
    /\ OnboardUnchanged

\* VaultJwsKeyProvisioner.provision: the private half goes to Vault before
\* the caller records the public one.
provision(c) ==
    /\ onboard[c].pc = "provision"
    /\ made < MaxKeys
    /\ made' = made + 1
    /\ vault' = made + 1
    /\ onboard' = [onboard EXCEPT ![c] = [pc |-> "save", key |-> made + 1]]
    /\ UNCHANGED <<row, announced, faults>>
    /\ OnboardUnchanged

\* The row did not exist when it was looked up (one with a key ends the
\* request, and no code writes one without), so save inserts; the unique
\* index on fsp_id refuses a second row.
provisionSigningKey(c) ==
    /\ onboard[c].pc = "save"
    /\ \/ /\ row.role = "none"
          /\ row' = [NoRow EXCEPT !.role = "self", !.pub = onboard[c].key]
          /\ onboard' = [onboard EXCEPT ![c].pc = "announce"]
       \/ /\ row.role # "none"
          /\ row' = row
          /\ onboard' = [onboard EXCEPT ![c].pc = "idle"]
    /\ UNCHANGED <<vault, announced, made, faults>>
    /\ OnboardUnchanged

\* SigningTenantPublisher.publish; a failure is logged and swallowed.
Announce(c) ==
    /\ onboard[c].pc = "announce"
    /\ onboard' = [onboard EXCEPT ![c].pc = "idle"]
    /\ \/ announced' = announced + 1 /\ faults' = faults
       \/ announced' = announced /\ Fault
    /\ UNCHANGED <<row, vault, made>>
    /\ OnboardUnchanged

\* A failed call or a crash ends the request where it stands; the operator
\* may onboard again.
OnboardFails(c) ==
    /\ onboard[c].pc \in {"provision", "save"}
    /\ Fault
    /\ onboard' = [onboard EXCEPT ![c].pc = "idle"]
    /\ UNCHANGED <<row, vault, announced, made>>
    /\ OnboardUnchanged

-----------------------------------------------------------------------------
\* trust-manager: publishAndEnable (one announcement) and reconcile (the
\* hourly sweep) take the same steps on the row they loaded.

PassUnchanged ==
    UNCHANGED <<replica, vault, registrar, onboard, operator, cache, made,
                edits, foreign, byHand>>

Step(w, pc) == worker' = [worker EXCEPT ![w].pc = pc]

End(w) == worker' = [worker EXCEPT ![w] = Idle]

\* What becomes of the announcement when a pass ends well: it is acked.
Settle(w) == announced' = IF w \in Event /\ announced > 0
                          THEN announced - 1 ELSE announced

\* SigningTenantConsumer takes a message; publishAndEnable loads the row
\* from the write side.  A tenant with no key is a permanent error: term.
Consume(w) ==
    /\ w \in Event
    /\ worker[w].pc = "idle"
    /\ announced > 0
    /\ \/ /\ publishable(row)
          /\ worker' = [worker EXCEPT ![w] = [pc |-> "register", held |-> row]]
          /\ announced' = announced
       \/ /\ ~publishable(row)
          /\ worker' = worker
          /\ Settle(w)
    /\ UNCHANGED <<row, mcm, registered, faults>>
    /\ PassUnchanged

\* tick and reconcile: every self-role tenant with a key is visited.
Reconcile(w) ==
    /\ w \in Sweep
    /\ worker[w].pc = "idle"
    /\ publishable(row)
    /\ worker' = [worker EXCEPT ![w] = [pc |-> "register", held |-> row]]
    /\ UNCHANGED <<row, mcm, registered, announced, faults>>
    /\ PassUnchanged

\* Where it is switched on: present already, created here, or created by
\* another pass meanwhile.
ensureRegistered(w) ==
    /\ worker[w].pc = "register"
    /\ registered' = (registered \/ registrar)
    /\ Step(w, "read")
    /\ UNCHANGED <<row, mcm, announced, faults>>
    /\ PassUnchanged

\* A sweep that counts a tenant whose key MCM holds as done.
ChooseRegisteredIsDone(w, stored) ==
    \/ /\ stored = 0
       /\ Step(w, "publish")
       /\ announced' = announced
    \/ /\ stored # 0
       /\ End(w)
       /\ Settle(w)

\* A pass that enables signing before it publishes.
ChooseEnableFirst(w, stored) ==
    \/ /\ stored \in {0, worker[w].held.pub}
       /\ Step(w, "activate")
       /\ announced' = announced
    \/ /\ stored \notin {0, worker[w].held.pub}
       /\ End(w)
       /\ Settle(w)

\* The stored key decides: nothing stored, publish; the same key, activate;
\* another key, leave it (term the announcement, go on with the sweep).
ChooseByStored(w, stored) ==
    \/ /\ stored = 0
       /\ Step(w, "publish")
       /\ announced' = announced
    \/ /\ stored = worker[w].held.pub
       /\ Step(w, "activate")
       /\ announced' = announced
    \/ /\ stored \notin {0, worker[w].held.pub}
       /\ End(w)
       /\ Settle(w)

\* getJwsKey(fspId).catch(() => null): a failed read counts as no key, and so
\* does the 404 for a DFSP that MCM does not know.
getJwsKey(w) ==
    /\ worker[w].pc = "read"
    /\ \/ ChooseByStored(w, mcm) /\ faults' = faults
       \/ ChooseByStored(w, 0) /\ Fault
    /\ UNCHANGED <<row, mcm, registered>>
    /\ PassUnchanged

\* publishAndVerifyJwsKey: post the key, then read it back.
publishJwsKey(w) ==
    /\ worker[w].pc = "publish" /\ registered
    /\ mcm' = worker[w].held.pub
    /\ Step(w, "verify")
    /\ UNCHANGED <<row, registered, announced, faults>>
    /\ PassUnchanged

\* MCM answers 404 for a DFSP it does not know: the announcement is termed,
\* the sweep counts the tenant as failed.
PublishRefused(w) ==
    /\ worker[w].pc = "publish" /\ ~registered
    /\ End(w)
    /\ Settle(w)
    /\ UNCHANGED <<row, mcm, registered, faults>>
    /\ PassUnchanged

VerifyJwsKey(w) ==
    /\ worker[w].pc = "verify"
    /\ \/ mcm = worker[w].held.pub /\ Step(w, "activate")
       \/ mcm # worker[w].held.pub /\ End(w)
    /\ UNCHANGED <<row, mcm, registered, announced, faults>>
    /\ PassUnchanged

\* A pass that switches every confirmed tenant on.
activateAgain(w) ==
    /\ worker[w].pc = "activate"
    /\ row' = [worker[w].held EXCEPT !.enabled = TRUE, !.activated = TRUE]
    /\ End(w)
    /\ Settle(w)
    /\ UNCHANGED <<mcm, registered, faults>>
    /\ PassUnchanged

\* Saves the row as it was loaded, with both columns set; the announcement
\* is acked.  A tenant once activated is left alone.
activate(w) ==
    /\ worker[w].pc = "activate"
    /\ row' = IF worker[w].held.activated THEN row
              ELSE [worker[w].held EXCEPT !.enabled = TRUE, !.activated = TRUE]
    /\ End(w)
    /\ Settle(w)
    /\ UNCHANGED <<mcm, registered, faults>>
    /\ PassUnchanged

\* A failed call or a crash ends the pass: the announcement is naked and
\* redelivered, unless MCM's answer is a 4xx, which terms it; the sweep
\* counts the tenant as failed.  A post may have reached MCM before failing.
PassFails(w) ==
    /\ worker[w].pc # "idle"
    /\ Fault
    /\ \/ announced' = announced
       \/ Settle(w)
    /\ \/ mcm' = mcm
       \/ worker[w].pc = "publish" /\ registered /\ mcm' = worker[w].held.pub
    /\ End(w)
    /\ UNCHANGED <<row, registered>>
    /\ PassUnchanged

-----------------------------------------------------------------------------
\* Operators.

OperatorUnchanged ==
    UNCHANGED <<replica, vault, mcm, registered, registrar, announced, onboard,
                worker, cache, made, foreign, faults>>

\* A request loads the row ...
Load(o) ==
    /\ operator[o].pc = "idle"
    /\ edits < MaxEdits
    /\ operator' = [operator EXCEPT ![o] = [pc |-> "save", held |-> row]]
    /\ edits' = edits + 1
    /\ UNCHANGED <<row, byHand>>
    /\ OperatorUnchanged

LoadPolicy == row.role # "none" /\ Load("policy")

\* ... and UpdateJwsPolicy saves it with the switch of the request; signing is
\* enabled for self-role rows with a key only, and enabling records the
\* activation.  The verify mode of the row is left out.
UpdateJwsPolicy(enabled) ==
    LET held == operator["policy"].held IN
    /\ operator["policy"].pc = "save"
    /\ enabled /\ ~held.enabled => publishable(held)
    /\ row' = [held EXCEPT !.enabled = enabled, !.activated = @ \/ enabled]
    /\ byHand' = byHand \cup IF enabled /\ mcm # row.pub THEN {"enabled"} ELSE {}
    /\ operator' = [operator EXCEPT !["policy"] = Idle]
    /\ edits' = edits
    /\ OperatorUnchanged

LoadSigningKeys == Load("keys")

\* AddSigningKeys: an existing row keeps its role and switches, a new one is
\* a tenant's if a private key comes with it.  The unique index on fsp_id
\* refuses a second row.  A private key goes to the row, not to Vault.
AddSigningKeys(k, private) ==
    LET held == operator["keys"].held
        role == IF held.role # "none" THEN held.role ELSE IF private THEN "self" ELSE "peer" IN
    /\ operator["keys"].pc = "save"
    /\ \/ /\ held.role = "none" => row.role = "none"
          /\ row' = [held EXCEPT !.role = role, !.pub = k]
          /\ byHand' = byHand \cup IF role = "self" THEN {"keyed"} ELSE {}
       \/ /\ held.role = "none" /\ row.role # "none"
          /\ UNCHANGED <<row, byHand>>
    /\ operator' = [operator EXCEPT !["keys"] = Idle]
    /\ edits' = edits
    /\ OperatorUnchanged

\* Somebody else, who owns the id until it is onboarded here, registers a
\* key for it at MCM.
ForeignKeyRegistered ==
    /\ foreign < MaxForeign
    /\ row.role # "self"
    /\ foreign' = foreign + 1
    /\ mcm' = MaxKeys + foreign + 1
    /\ registered' = TRUE
    /\ UNCHANGED <<row, replica, vault, registrar, announced, onboard, worker,
                   operator, cache, made, edits, faults, byHand>>

\* Where the Hub is somebody else's, its operator registers the DFSP at MCM.
HubRegisters ==
    /\ ~registrar /\ ~registered /\ registered' = TRUE
    /\ UNCHANGED <<row, replica, vault, mcm, registrar, announced, onboard,
                   worker, operator, cache, made, edits, foreign, faults, byHand>>

-----------------------------------------------------------------------------
\* The peer sync, the read replica and the cache.

ReadUnchanged ==
    UNCHANGED <<vault, mcm, registered, registrar, announced, onboard, worker,
                operator, made, edits, foreign, byHand>>

\* A sync that does not leave the tenants' own rows alone.
SyncAnyRow ==
    /\ mcm # 0
    /\ replica.pub # mcm
    /\ \/ replica.role = "none" /\ row.role = "none"
          /\ row' = [NoRow EXCEPT !.role = "peer", !.pub = mcm]
       \/ replica.role # "none"
          /\ row' = [replica EXCEPT !.pub = mcm]
    /\ UNCHANGED <<replica, cache, faults>>
    /\ ReadUnchanged

\* PeerJwsSyncScheduler.sync on the id's entry; the existing row is looked
\* up on the replica and saved, as it was read, on the write database.
SyncPeer ==
    /\ mcm # 0
    /\ replica.role # "self"
    /\ replica.pub # mcm
    /\ \/ replica.role = "none" /\ row.role = "none"
          /\ row' = [NoRow EXCEPT !.role = "peer", !.pub = mcm]
       \/ replica.role = "peer"
          /\ row' = [replica EXCEPT !.pub = mcm]
    /\ UNCHANGED <<replica, cache, faults>>
    /\ ReadUnchanged

Replicate ==
    /\ replica # row
    /\ replica' = row
    /\ UNCHANGED <<row, cache, faults>>
    /\ ReadUnchanged

\* A refresh that keeps a key once it is loaded.
LoadRowsIfMissing ==
    /\ ~cache.loading
    /\ cache.priv = 0
    /\ cache' = [cache EXCEPT !.loading = TRUE, !.signs = isSigningTenant(replica)]
    /\ UNCHANGED <<row, replica, faults>>
    /\ ReadUnchanged

\* refreshParticipantSigningKeys: the rows come from the replica ...
LoadRows ==
    /\ ~cache.loading
    /\ cache' = [cache EXCEPT !.loading = TRUE, !.signs = isSigningTenant(replica)]
    /\ UNCHANGED <<row, replica, faults>>
    /\ ReadUnchanged

\* ... the private key from Vault, and all maps are swapped at the end.  A
\* Vault read that fails carries the key loaded before forward.
resolve(signs, read) == IF signs THEN read ELSE 0

SwapMaps ==
    /\ cache.loading
    /\ \/ /\ cache' = [priv |-> resolve(cache.signs, vault),
                       loading |-> FALSE, signs |-> FALSE]
          /\ faults' = faults
       \/ /\ cache' = [priv |-> resolve(cache.signs, cache.priv),
                       loading |-> FALSE, signs |-> FALSE]
          /\ Fault
    /\ UNCHANGED <<row, replica>>
    /\ ReadUnchanged

-----------------------------------------------------------------------------
Onboard(c) == \/ OnboardFsp(c) \/ provision(c) \/ provisionSigningKey(c)
              \/ Announce(c) \/ OnboardFails(c)

PublishPass(w) == \/ Consume(w) \/ Reconcile(w) \/ ensureRegistered(w)
                  \/ getJwsKey(w) \/ publishJwsKey(w) \/ PublishRefused(w)
                  \/ VerifyJwsKey(w) \/ activate(w)

Next ==
    \/ \E c \in Call : Onboard(c)
    \/ \E w \in Worker : PublishPass(w) \/ PassFails(w)
    \/ LoadPolicy \/ LoadSigningKeys
    \/ \E enabled \in BOOLEAN : UpdateJwsPolicy(enabled)
    \/ \E k \in ForeignKey, private \in BOOLEAN : AddSigningKeys(k, private)
    \/ ForeignKeyRegistered \/ HubRegisters
    \/ SyncPeer \/ Replicate \/ LoadRows \/ SwapMaps

Spec == Init /\ [][Next]_vars

\* The timers of the sweep and of the cache keep firing, the replica catches
\* up.
Fairness ==
    /\ \A w \in Sweep : WF_vars(PublishPass(w))
    /\ \A w \in Event : WF_vars(worker[w].pc # "idle" /\ PublishPass(w))
    /\ WF_vars(Replicate)
    /\ WF_vars(LoadRows)
    /\ WF_vars(SwapMaps)

FairSpec == Spec /\ Fairness

-----------------------------------------------------------------------------
\* A request the cache signs is verifiable: MCM holds the public half of the
\* key a web process signs with, unless an operator switched signing on
\* before MCM had it or replaced the tenant's key.  Publishing before
\* enabling, Vault before the row and the swap of all maps together are what
\* this rests on.
SignedVerifies == cache.priv # 0 /\ byHand = {} => mcm = cache.priv

\* A tenant's row stays a tenant's row, with its key unless an operator
\* replaces that: neither the peer sync, which sees the tenant's own key in
\* MCM's list, nor a save of a row loaded earlier takes role or key away.
TenantKept ==
    [][row.role = "self" =>
         /\ row'.role = "self"
         /\ "keyed" \notin byHand' => row'.pub = row.pub]_vars

\* A pass of trust-manager that loaded the row after its activation never
\* turns signing back on: a suspension outlives every sweep that could see it.
SuspensionRespected ==
    [][\A w \in Worker :
         worker[w].held.activated /\ ~row.enabled /\ row'.enabled
           => worker'[w] = worker[w]]_vars

\* No tenant that MCM may know is left stranded: in the end every provisioned
\* tenant has been switched on, or MCM holds a key that contradicts its own,
\* whatever announcements were lost and whichever calls failed.  Where this
\* deployment registers DFSPs MCM knows every tenant; elsewhere one that the
\* Hub's operator has not registered waits for it.
TenantActivated ==
    <>[](row.role = "self" /\ (registrar \/ registered)
           => row.activated \/ mcm \notin {0, row.pub})

\* The cache settles: once the requests stop, a web process signs exactly for
\* a tenant whose row says so, with the key in Vault.
CacheSettles ==
    <>[](cache.priv = IF isSigningTenant(row) THEN vault ELSE 0)

\* What the class comment of the scheduler promises: an automatic pass never
\* replaces a key MCM already holds.
NeverOverwrites == [][mcm = 0 \/ mcm' = mcm \/ foreign' # foreign]_vars

-----------------------------------------------------------------------------
\* What the properties rest on.

\* A request to onboard the id comes after the one before has ended; two at a
\* time could leave one's key in Vault and the other's in the row.
OneOnboarding == \A c, d \in Call : c = d

\* A row loaded earlier, however stale, still has the role of the row and, for
\* a tenant whose key no operator replaced, its key: rows are inserted once.
CopyOf(r) ==
    r.role # "none" => /\ r.role = row.role
                       /\ r.role = "self" => /\ r.pub # 0
                                             /\ "keyed" \notin byHand => r.pub = row.pub

CopyInv ==
    /\ TypeOK
    /\ CopyOf(row) /\ CopyOf(replica)
    /\ \A o \in Request : CopyOf(operator[o].held)
    /\ operator["policy"].pc = "save" => operator["policy"].held.role # "none"
    /\ \A w \in Worker : /\ CopyOf(worker[w].held)
                         /\ worker[w].pc # "idle" => worker[w].held.role = "self"
    /\ \A c \in Call : onboard[c].pc = "save" => onboard[c].key # 0

\* A tenant's row or copy that is, or was, switched on: MCM has its key.
Confirmed(r) == r.role = "self" /\ (r.enabled \/ r.activated) => mcm = r.pub

\* As long as operators leave it to the code.
Verified ==
    /\ row.role = "self" => /\ vault = row.pub
                            /\ \A c \in Call : onboard[c].pc \in {"idle", "announce"}
    /\ \A c \in Call : onboard[c].pc = "save" => vault = onboard[c].key
    /\ Confirmed(row) /\ Confirmed(replica)
    /\ \A o \in Request : Confirmed(operator[o].held)
    /\ \A w \in Worker : /\ Confirmed(worker[w].held)
                         /\ worker[w].pc = "activate" => mcm = worker[w].held.pub
    /\ cache.signs => row.role = "self" /\ mcm = row.pub
    /\ cache.priv # 0 => row.role = "self" /\ cache.priv = row.pub /\ mcm = row.pub

VerifyInv == CopyInv /\ (byHand = {} => Verified)
=============================================================================
