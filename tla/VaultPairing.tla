------------------------------ MODULE VaultPairing ------------------------------
(***************************************************************************)
(* `palladin pair': an Agent profile learns the signing keys of its vaults *)
(* from a transcript a Member confirms, while the same profile is synced,  *)
(* registered again and renamed by other invocations.                      *)
(*                                                                         *)
(* pair opens a session for a fresh activation, posts it, builds the       *)
(* transcript of the candidate manifests it got back, shows its code, and  *)
(* polls the relay until the Member's confirmation (a digest) is there; a  *)
(* lease that runs out on the way is renewed by a second session.  The     *)
(* confirmed anchors are committed under a third authorization, which      *)
(* resolves the profile's NAME again.  Get and search advance the anchors  *)
(* they opened their session with, by compare-and-swap.                    *)
(*                                                                         *)
(* One organization.  A digest is the transcript itself.  The VDK version  *)
(* moves with the manifest revision; one number stands for both.  A commit *)
(* is one step (ProfileOperations models the journal), the signature of a  *)
(* manifest is the key it is made with.                                    *)
(***************************************************************************)
EXTENDS Integers, FiniteSets, Functions

CONSTANTS
    Vaults,       \* vaults the Agent may open
    Identities,   \* profile identities: the X25519 and Ed25519 key pairs
    Agents,       \* Agent ids the service hands out
    Pairs,        \* `pair' invocations; each is its own activation
    Syncs,        \* `get' and `search' invocations
    MaxChanges,   \* bound: changes at the service
    MaxCommands,  \* bound: status, connect and rename commands
    MaxExpiries   \* bound: leases that run out in one pair

VARIABLES
    service,    \* the manifests, the access epoch and each identity's Agent id
    config,     \* the signed profile configurations
    holder,     \* the identity the profile name of the commands resolves to
    relay,      \* the activations at the service
    pair,       \* the pair invocations
    sync,       \* the get and search invocations
    budget      \* changes and commands left

vars == <<service, config, holder, relay, pair, sync, budget>>

NoAgent == "no agent"
NoAnchors == << >>
Over == {"done", "failed"}

\* VaultManifestV2: the fields the checks tell apart
Manifests == [rev: Nat, key: Nat]
\* PublicVaultTrustAnchor
Anchors == [rev: Nat, key: Nat, epoch: Nat]

\* AgentIdentityBinding: the Agent id and the fingerprints of both keys
Binding(i, agent) == [identity |-> i, agent |-> agent]

\* prepare_pairing: the transcript of an activation, the Agent's binding and its
\* vaults in order; the access epoch is not part of it
prepare_pairing(p, binding, manifests) ==
    [activation |-> p, identity |-> binding.identity, agent |-> binding.agent,
     vaults |-> manifests]

TypeOK ==
    /\ service.vault \in [Vaults -> Manifests]
    /\ service.epoch \in Nat \ {0}
    /\ service.agent \in [Identities -> Agents]
    /\ holder \in Identities
    /\ \A i \in Identities :
         /\ config[i].agent \in Agents \cup {NoAgent}
         /\ config[i].active \in BOOLEAN
         /\ DOMAIN config[i].anchors \subseteq Vaults
         /\ \A v \in DOMAIN config[i].anchors : config[i].anchors[v] \in Anchors
         /\ config[i].cache \in Agents \cup {NoAgent}
    /\ \A p \in Pairs : relay[p].status \in
         {"none", "pending", "confirmed", "expired", "stale"}

-----------------------------------------------------------------------------
(* Manifest verification.                                                  *)

\* verify_manifest_against_anchor, without require_advance
verify_current_manifest(m, a) == m.rev >= a.rev /\ m.key = a.key

\* prepare_manifest_batch and prepare_manifest_anchors: every anchor is at the
\* served epoch, every manifest continues its anchor, an unknown vault is pinned
\* at its first manifest
PrepareAllows(anchors, epoch, manifests) ==
    /\ \A v \in DOMAIN anchors : anchors[v].epoch = epoch
    /\ \A v \in DOMAIN manifests \cap DOMAIN anchors :
         verify_current_manifest(manifests[v], anchors[v])

\* initial_vault_trust and pinned_vault_trust: what is kept of a manifest
Pinned(m, epoch) == [rev |-> m.rev, key |-> m.key, epoch |-> epoch]

prepare_manifest_anchors(anchors, epoch, manifests) ==
    [v \in DOMAIN anchors \cup DOMAIN manifests |->
        IF v \in DOMAIN manifests THEN Pinned(manifests[v], epoch) ELSE anchors[v]]

\* public_anchors_from_pairing
public_anchors_from_pairing(epoch, manifests) ==
    [v \in DOMAIN manifests |-> Pinned(manifests[v], epoch)]

\* Mutant: a confirmed status is enough
confirm_by_status(candidate, answer) == answer.status = "confirmed"

\* confirm_pairing_from_relay: the relay's word counts only with the digest of
\* the very transcript this invocation showed
confirm_pairing(candidate, answer) ==
    /\ answer.status = "confirmed"
    /\ answer.digest = candidate

\* validate_confirmed_pairing_identity: the profile found under the name now is
\* the one the transcript is about
validate_confirmed_pairing_identity(candidate, i) ==
    /\ config[i].agent = candidate.agent
    /\ i = candidate.identity

-----------------------------------------------------------------------------
(* The pair command.                                                       *)

\* open_session: the snapshot of the profile the name resolves to
Session == [identity |-> holder, agent |-> config[holder].agent,
            active |-> config[holder].active, leased |-> TRUE, polled |-> FALSE]

NoSession == [identity |-> "none", agent |-> NoAgent, active |-> FALSE,
              leased |-> FALSE, polled |-> FALSE]
NoCandidate == [activation |-> "none"]

Idle == [pc |-> "idle", session |-> NoSession, candidate |-> NoCandidate,
         epoch |-> 0, expiries |-> 0]

Fail(p) == pair' = [pair EXCEPT ![p].pc = "failed"]

\* MissingAgentId, or the session with a fresh activation id
PairOpens(p) ==
    /\ pair[p].pc = "idle"
    /\ IF config[holder].agent = NoAgent
       THEN Fail(p)
       ELSE pair' = [pair EXCEPT ![p].pc = "opened", ![p].session = Session]
    /\ UNCHANGED <<service, config, holder, relay, sync, budget>>

\* pairing_identity_binding: from the session's own keys and Agent id
pairing_identity_binding(s) == Binding(s.identity, s.agent)

\* prepare_runtime_pairing: the answer names the session's Agent, or there is no
\* candidate
prepare_runtime_pairing(p, answer) ==
    LET expected == pairing_identity_binding(pair[p].session) IN
    IF answer.binding = expected
    THEN pair' = [pair EXCEPT ![p].pc = "waiting",
                              ![p].candidate = prepare_pairing(p, expected, answer.manifests),
                              ![p].epoch = answer.epoch]
    ELSE Fail(p)

\* The service knows the session's Agent
Known(s) == service.agent[s.identity] = s.agent

\* create_pairing_activation refused: inactive Agent, expired lease, or the
\* service does not know the Agent
PairRefused(p) ==
    /\ pair[p].pc = "opened"
    /\ \/ ~pair[p].session.active
       \/ ~pair[p].session.leased
       \/ ~Known(pair[p].session)
    /\ Fail(p)
    /\ UNCHANGED <<service, config, holder, relay, sync, budget>>

\* The POST arrives; its answer may be lost, and a POST is not repeated
PairActivates(p) ==
    LET s == pair[p].session IN
    /\ pair[p].pc = "opened" /\ s.active /\ s.leased /\ Known(s)
    /\ relay' = [relay EXCEPT ![p] =
         [status |-> "pending", binding |-> Binding(s.identity, s.agent), digest |-> NoCandidate]]
    /\ \/ prepare_runtime_pairing(p, [binding |-> Binding(s.identity, s.agent),
                                      epoch |-> service.epoch, manifests |-> service.vault])
       \/ Fail(p)
    /\ UNCHANGED <<service, config, holder, sync, budget>>

\* The operation lease runs out (it outlives at least one poll, see the README)
LeaseExpires(p) ==
    /\ pair[p].pc \in {"opened", "waiting"}
    /\ pair[p].session.leased /\ pair[p].expiries < MaxExpiries
    /\ pair[p].pc = "waiting" => pair[p].session.polled
    /\ pair' = [pair EXCEPT ![p].session.leased = FALSE, ![p].expiries = @ + 1]
    /\ UNCHANGED <<service, config, holder, relay, sync, budget>>

\* OperationAuthorizationExpired while polling: a second session for the same
\* activation, for whatever the name resolves to now
PairRenews(p) ==
    /\ pair[p].pc = "waiting" /\ ~pair[p].session.leased
    /\ IF config[holder].agent = NoAgent
       THEN Fail(p)
       ELSE pair' = [pair EXCEPT ![p].session = Session]
    /\ UNCHANGED <<service, config, holder, relay, sync, budget>>

\* get_pairing_status.  An activation is shown to its own Agent only
Answers(p) == Known(pair[p].session) /\ relay[p].binding.agent = pair[p].session.agent

\* confirm_from_relay: every status that is not pending ends the polling
confirm_from_relay(p, answer) ==
    IF confirm_pairing(pair[p].candidate, answer)
    THEN pair' = [pair EXCEPT ![p].pc = "confirmed"]
    ELSE Fail(p)

PairPolls(p) ==
    /\ pair[p].pc = "waiting" /\ pair[p].session.leased
    /\ IF ~Answers(p) THEN Fail(p)
       ELSE IF relay[p].status = "pending"
            THEN /\ ~pair[p].session.polled
                 /\ pair' = [pair EXCEPT ![p].session.polled = TRUE]
            ELSE confirm_from_relay(p, relay[p])
    /\ UNCHANGED <<service, config, holder, relay, sync, budget>>

\* persist_pairing_anchors: the profile found under the name now gets exactly
\* the confirmed anchors.  The authorization may be refused
PairPersists(p) ==
    /\ pair[p].pc = "confirmed"
    /\ IF validate_confirmed_pairing_identity(pair[p].candidate, holder)
       THEN /\ pair' = [pair EXCEPT ![p].pc = "done"]
            /\ config' = [config EXCEPT ![holder].anchors =
                 public_anchors_from_pairing(pair[p].epoch, pair[p].candidate.vaults)]
       ELSE Fail(p) /\ UNCHANGED config
    /\ UNCHANGED <<service, holder, relay, sync, budget>>

PairDenied(p) ==
    /\ pair[p].pc = "confirmed"
    /\ Fail(p)
    /\ UNCHANGED <<service, config, holder, relay, sync, budget>>

PairStep(p) ==
    \/ PairOpens(p) \/ PairRefused(p) \/ PairActivates(p) \/ PairRenews(p)
    \/ PairPolls(p) \/ PairPersists(p) \/ PairDenied(p)

-----------------------------------------------------------------------------
(* The relay and the Member's client.                                      *)

\* The Member confirms the transcript their own client builds, from the
\* manifests as they are now
MemberConfirms(p) ==
    /\ relay[p].status = "pending"
    /\ relay' = [relay EXCEPT ![p].status = "confirmed",
         ![p].digest = prepare_pairing(p, relay[p].binding, service.vault)]
    /\ UNCHANGED <<service, config, holder, pair, sync, budget>>

RelayEnds(p) ==
    /\ relay[p].status = "pending"
    /\ \E status \in {"expired", "stale"} : relay' = [relay EXCEPT ![p].status = status]
    /\ UNCHANGED <<service, config, holder, pair, sync, budget>>

-----------------------------------------------------------------------------
(* Get and search.                                                         *)

NoSync == [pc |-> "idle", search |-> FALSE, identity |-> "none",
           base |-> [agent |-> NoAgent], next |-> NoAnchors]
SyncFails(s) == sync' = [sync EXCEPT ![s].pc = "failed"]

\* load_discovery_cache: none is committed, or it is sealed for this Agent id
load_discovery_cache(c) == c.cache \in {NoAgent, c.agent}

\* open_session; a search then loads the committed cache
SyncOpens(s) ==
    /\ sync[s].pc = "idle"
    /\ \E search \in BOOLEAN :
         IF \/ config[holder].agent = NoAgent
            \/ search /\ ~load_discovery_cache(config[holder])
         THEN SyncFails(s)
         ELSE sync' = [sync EXCEPT ![s] = [pc |-> "opened", search |-> search, identity |-> holder,
                                           base |-> config[holder], next |-> NoAnchors]]
    /\ UNCHANGED <<service, config, holder, relay, pair, budget>>

\* list_vault_manifests and prepare_manifest_batch
SyncLists(s) ==
    LET x == sync[s] IN
    /\ x.pc = "opened"
    /\ IF /\ service.agent[x.identity] = x.base.agent
          /\ PrepareAllows(x.base.anchors, service.epoch, service.vault)
       THEN sync' = [sync EXCEPT ![s].pc = "listed",
              ![s].next = prepare_manifest_anchors(x.base.anchors, service.epoch, service.vault)]
       ELSE SyncFails(s)
    /\ UNCHANGED <<service, config, holder, relay, pair, budget>>

\* persist_manifest_batch: nothing to do, a lost race, or the swap
persist_manifest_batch(x) ==
    LET now == config[x.identity] IN
    /\ now.anchors \in {x.next, x.base.anchors}
    /\ config' = [config EXCEPT ![x.identity].anchors = x.next]

\* persist_discovery_batch: anchors, cache and Agent id must all be the snapshot's
persist_discovery_batch(x) ==
    /\ config[x.identity].agent = x.base.agent
    /\ config[x.identity].anchors = x.base.anchors
    /\ config[x.identity].cache = x.base.cache
    /\ config' = [config EXCEPT ![x.identity].anchors = x.next,
                                ![x.identity].cache = x.base.agent]

Persist(s) ==
    IF sync[s].search THEN persist_discovery_batch(sync[s]) ELSE persist_manifest_batch(sync[s])

SyncPersists(s) ==
    /\ sync[s].pc = "listed"
    /\ Persist(s)
    /\ sync' = [sync EXCEPT ![s].pc = "done"]
    /\ UNCHANGED <<service, holder, relay, pair, budget>>

\* The comparison, the lease or the authorization fails
SyncLoses(s) ==
    /\ sync[s].pc = "listed"
    /\ SyncFails(s)
    /\ UNCHANGED <<service, config, holder, relay, pair, budget>>

SyncStep(s) == SyncOpens(s) \/ SyncLists(s) \/ SyncPersists(s) \/ SyncLoses(s)

-----------------------------------------------------------------------------
(* Commands on the profile, and changes at the service.                    *)

Command ==
    /\ budget.commands > 0
    /\ budget' = [budget EXCEPT !.commands = @ - 1]

\* update_registered_agent_id, as `status' calls it
update_registered_agent_id(c, agent) ==
    [c EXCEPT !.agent = agent, !.anchors = IF c.agent = agent THEN @ ELSE NoAnchors]

\* status: the registration's id and whether it is active
Status ==
    /\ Command
    /\ \E active \in BOOLEAN :
         config' = [config EXCEPT ![holder] =
           [update_registered_agent_id(@, service.agent[holder]) EXCEPT !.active = active]]
    /\ UNCHANGED <<service, holder, relay, pair, sync>>

\* connect writes the configuration anew; another Agent id drops anchors and cache
Connect ==
    /\ Command
    /\ config' = [config EXCEPT ![holder] =
         [agent |-> service.agent[holder], active |-> TRUE,
          anchors |-> IF @.agent = service.agent[holder] THEN @.anchors ELSE NoAnchors,
          cache |-> IF @.agent = service.agent[holder] THEN @.cache ELSE NoAgent]]
    /\ UNCHANGED <<service, holder, relay, pair, sync>>

\* The profile name now belongs to another identity (renames)
Renamed ==
    /\ Command
    /\ \E i \in Identities \ {holder} : holder' = i
    /\ UNCHANGED <<service, config, relay, pair, sync>>

Change ==
    /\ budget.changes > 0
    /\ budget' = [budget EXCEPT !.changes = @ - 1]

\* A new manifest of a vault, or a new signing key with it
ManifestChanges ==
    /\ Change
    /\ \E v \in Vaults, rotate \in {0, 1} :
         service' = [service EXCEPT !.vault[v].rev = @ + 1, !.vault[v].key = @ + rotate]
    /\ UNCHANGED <<config, holder, relay, pair, sync>>

\* The Agent's access is granted again: anchors of the old epoch are void
Reauthorized ==
    /\ Change
    /\ service' = [service EXCEPT !.epoch = @ + 1]
    /\ UNCHANGED <<config, holder, relay, pair, sync>>

\* The Agent is removed and its keys registered under another id
AgentReplaced ==
    /\ Change
    /\ \E i \in Identities, a \in Agents \ Range(service.agent) :
         service' = [service EXCEPT !.agent[i] = a]
    /\ UNCHANGED <<config, holder, relay, pair, sync>>

-----------------------------------------------------------------------------

Init ==
    /\ service = [vault |-> [v \in Vaults |-> [rev |-> 1, key |-> 1]], epoch |-> 1,
                  agent |-> CHOOSE f \in [Identities -> Agents] : IsInjective(f)]
    /\ config = [i \in Identities |->
         [agent |-> service.agent[i], active |-> TRUE, anchors |-> NoAnchors, cache |-> NoAgent]]
    /\ holder = CHOOSE i \in Identities : TRUE
    /\ relay = [p \in Pairs |-> [status |-> "none", binding |-> Binding("none", NoAgent),
                                 digest |-> NoCandidate]]
    /\ pair = [p \in Pairs |-> Idle]
    /\ sync = [s \in Syncs |-> NoSync]
    /\ budget = [changes |-> MaxChanges, commands |-> MaxCommands]

Next ==
    \/ \E p \in Pairs : PairStep(p) \/ LeaseExpires(p) \/ MemberConfirms(p) \/ RelayEnds(p)
    \/ \E s \in Syncs : SyncStep(s)
    \/ Status \/ Connect \/ Renamed
    \/ ManifestChanges \/ Reauthorized \/ AgentReplaced

\* The command's own steps run, and an activation does not stay pending forever
\* (it has an expiry)
Fairness ==
    \A p \in Pairs : WF_vars(PairStep(p)) /\ WF_vars(MemberConfirms(p) \/ RelayEnds(p))

Spec == Init /\ [][Next]_vars /\ Fairness

-----------------------------------------------------------------------------
(* Properties.                                                             *)

ConfirmsKey ==
    \A i \in Identities : \A v \in DOMAIN config[i].anchors \cap DOMAIN config'[i].anchors :
      (config'[i].anchors[v].key # config[i].anchors[v].key) =>
         \E p \in Pairs :
            /\ relay[p].status = "confirmed"
            /\ relay[p].digest.identity = i
            /\ relay[p].digest.agent = config'[i].agent
            /\ relay[p].digest.vaults[v].key = config'[i].anchors[v].key

\* A vault's pinned signing key is replaced only by a pairing the Member
\* confirmed for this very identity and Agent id, and the new key is the one in
\* the transcript the Member's client built: neither a sync, nor a renamed
\* profile, nor a pairing begun before the vault rotated its key can do it
KeyChangesConfirmed == [][ConfirmsKey]_vars

FollowsAgent ==
    \A i \in Identities : (config'[i].anchors # config[i].anchors /\ config'[i].anchors # NoAnchors) =>
       /\ config'[i].agent = config[i].agent
       /\ \/ \E p \in Pairs : /\ pair[p].pc = "confirmed" /\ pair'[p].pc = "done"
                              /\ pair[p].candidate.identity = i
                              /\ pair[p].candidate.agent = config[i].agent
          \/ \E s \in Syncs : /\ sync[s].pc = "listed" /\ sync'[s].pc = "done"
                              /\ sync[s].identity = i
                              /\ sync[s].search => sync[s].base.agent = config[i].agent

\* Trust does not outlive the Agent it was given to: a pairing or a manifest
\* list obtained as one Agent id never lands in a configuration that has been
\* registered under another, whatever was renamed or registered while the
\* command waited
TrustFollowsAgent == [][FollowsAgent]_vars

\* The pair command returns, however often its lease runs out
PairReturns == \A p \in Pairs : pair[p].pc # "idle" ~> pair[p].pc \in Over

\* The manifest revision of a pinned vault never goes back while the pinned key
\* and the access epoch stay (runtime/README.md: later manifests "must preserve
\* that pinned key and advance monotonically")
ManifestsAdvance ==
    [][\A i \in Identities : \A v \in DOMAIN config[i].anchors \cap DOMAIN config'[i].anchors :
         (/\ config'[i].anchors[v].key = config[i].anchors[v].key
          /\ config'[i].anchors[v].epoch = config[i].anchors[v].epoch) =>
             config'[i].anchors[v].rev >= config[i].anchors[v].rev]_vars

\* The committed discovery cache can be opened by the profile it belongs to:
\* it is sealed for the Agent id the configuration names
CacheIsReadable == \A i \in Identities : load_discovery_cache(config[i])
=============================================================================
