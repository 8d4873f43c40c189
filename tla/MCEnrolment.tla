----------------------------- MODULE MCEnrolment ------------------------------
(***************************************************************************)
(* How a profile comes to be trusted, in one run: `scenario' picks the     *)
(* pairing of a profile in the browser (BrowserPairing), the pairing of an *)
(* Agent with its vaults (VaultPairing) or the cutover from the old        *)
(* runtime (LegacyCutover), and the machine it picks runs alone.           *)
(***************************************************************************)
EXTENDS BrowserPairing

CONSTANTS Vaults, Identities, Agents, Pairs, Syncs, MaxChanges, MaxCommands, MaxExpiries, Profiles, Main, Spare,
          MaxCutovers, MaxKills, MaxMoves

VARIABLES
    scenario,
    vaultService, trusted, holder, relay, pair, sync, budget,
    source, archive, marker, root, trust, agents, preset, active, creds, issued, op, kills, moves, joined

V == INSTANCE VaultPairing WITH service <- vaultService, config <- trusted
L == INSTANCE LegacyCutover WITH Names <- Profiles, MaxChanges <- MaxMoves, changes <- moves

vaultsVars == <<vaultService, trusted, holder, relay, pair, sync, budget>>
legacyVars == <<source, archive, marker, root, trust, agents, preset, active, creds, issued, op, kills, moves,
                joined>>
all == <<scenario, vars, vaultsVars, legacyVars>>

Unused == "unused"
NoVaults ==
    /\ vaultService = Unused /\ trusted = Unused /\ holder = Unused /\ relay = Unused /\ pair = Unused
    /\ sync = Unused /\ budget = Unused
NoLegacy ==
    /\ source = Unused /\ archive = Unused /\ marker = Unused /\ root = Unused /\ trust = Unused
    /\ agents = Unused /\ preset = Unused /\ active = Unused /\ creds = Unused /\ issued = Unused
    /\ op = Unused /\ kills = Unused /\ moves = Unused /\ joined = Unused

\* The machine of BrowserPairing rests in an initial state while another runs.
InitOne ==
    /\ Init
    /\ \/ scenario = "browser" /\ NoVaults /\ NoLegacy
       \/ scenario = "vaults" /\ V!Init /\ NoLegacy
       \/ scenario = "legacy" /\ L!Init /\ NoVaults

InBrowser == scenario = "browser" /\ UNCHANGED <<scenario, vaultsVars, legacyVars>>
InVaults == scenario = "vaults" /\ UNCHANGED <<scenario, vars, legacyVars>>
InLegacy == scenario = "legacy" /\ UNCHANGED <<scenario, vars, vaultsVars>>

\* Machines that come to rest when their bounds are used up.
Rest == scenario \in {"vaults", "legacy"} /\ UNCHANGED all

NextOne ==
    \/ InBrowser /\ Next
    \/ InVaults /\ V!Next
    \/ InLegacy /\ L!Next
    \/ Rest

SpecOne == InitOne /\ [][NextOne]_all

-----------------------------------------------------------------------------
\* A vault's pinned signing key is replaced only by a pairing the Member
\* confirmed for this identity and this Agent id, with the key in the
\* transcript the Member's client built (persist_confirmed_pairing).
KeyChangesConfirmed == [][scenario = "vaults" => V!ConfirmsKey]_all

\* Trust does not outlive the Agent it was given to: what was obtained as one
\* Agent id never lands in a configuration registered under another.
TrustFollowsAgent == [][scenario = "vaults" => V!FollowsAgent]_all

\* Whichever command is killed, the plan of a cutover can be read while
\* anything of the old runtime is frozen, and its copies agree
\* (load_manifest, ensure_cleanup_marker, cleanup_archive).
PlanIsKept == scenario = "legacy" => L!PlanIsKept

\* No credential of the old runtime is deleted before every identity meant to
\* replace it is connected, and none is left without the plan that names it
\* (cutover_legacy, cleanup_legacy).
ReplacedBeforeRemoved == scenario = "legacy" => L!ReplacedBeforeRemoved

=============================================================================
