---------------------------- MODULE LegacyCutover ----------------------------
(***************************************************************************)
(* The move from the TypeScript runtime: legacy_typescript.rs, the         *)
(* deleter of legacy_typescript_store.rs and the three commands of         *)
(* palladin-runtime (cutover_legacy_typescript, cleanup_legacy_typescript, *)
(* upgrade_security) that drive them.  The old directory is frozen behind  *)
(* a rename, fresh identities are made from a plan kept in two places, and *)
(* the old credentials go once every fresh identity is connected.  A       *)
(* command may be killed at any step; between commands the user renames,   *)
(* deletes, creates, connects and purges profiles.                         *)
(***************************************************************************)
EXTENDS Integers, FiniteSets, TLC

CONSTANTS
    Names,        \* profiles of the old runtime, by their native name
    Main,         \* the one the old registry calls default
    Spare,        \* a native name the old runtime did not use
    MaxCutovers,  \* bound on manifests written
    MaxKills,     \* bound on commands killed
    MaxChanges    \* bound on the user's commands in between

VARIABLES
    source,   \* the old directory: its name, whether it is there, a manifest in it, a stray temporary file
    archive,  \* .palladin-typescript-legacy: whether it is there, its manifest, its other files
    marker,   \* the plan kept in the native root, 0 for none
    root,     \* the native root: "none", "v2" (before the trust state), "files"
    trust,    \* the trust state is in the secure store
    agents,   \* the native registry: name -> identity
    preset,   \* its default
    active,   \* identities whose signed configuration says agent_active
    creds,    \* credentials of the old runtime in the OS store
    issued, op, kills, changes,
    joined    \* history: identities that have been active

vars == <<source, archive, marker, root, trust, agents, preset, active, creds, issued, op, kills, changes, joined>>

None == "none"
Suffixes == {"x25519", "ed25519"}
Files == {"flat", "agents", "registry"}      \* in the order cleanup removes them
Identity(c, n) == <<c, n>>                    \* what plan c allocates for n
Idle == [at |-> "idle", plan |-> 0]
Own(n) == <<0, n>>                            \* an identity made outside a cutover
AllNames == Names \cup {Spare}

Init ==
    /\ \E where \in {".palladin", ".claw-vault"}, native \in {"none", "v2", "files"} :
        /\ where = ".palladin" => native = "none"
        /\ source = [dir |-> where, there |-> TRUE, manifest |-> 0, stray |-> FALSE]
        /\ root = native /\ trust = (native = "files")
        /\ agents = IF native = "v2" THEN Spare :> Own(Spare) ELSE << >>
        /\ preset = IF native = "v2" THEN Spare ELSE None
    /\ archive = [there |-> FALSE, manifest |-> 0, files |-> {}]
    /\ marker = 0 /\ active = {} /\ creds = Names \X Suffixes
    /\ issued = 0 /\ op = Idle /\ kills = 0 /\ changes = 0 /\ joined = {}

-----------------------------------------------------------------------------
(* LegacyTypeScriptRepository. *)

Pending == archive.there \/ marker # 0
load_manifest == IF archive.there /\ archive.manifest # 0 THEN archive.manifest ELSE marker
\* inspect_legacy_root refuses a directory with a file it does not know.
Detected == source.there /\ ~source.stray

Native == UNCHANGED <<root, trust, agents, preset, active, joined>>
Legacy == UNCHANGED <<source, archive, marker, creds>>
Counters == UNCHANGED <<issued, kills, changes>>
At(step) == op.at = step
Goes(step) == op' = [op EXCEPT !.at = step]

-----------------------------------------------------------------------------
(* cutover_legacy_typescript, under the transaction lock. *)

\* pending_manifest and begin_cutover: a pending plan is taken up again, else a new one is made.
Begin ==
    /\ At("idle") /\ Native /\ Legacy /\ UNCHANGED <<kills, changes>>
    /\ \/ /\ Pending /\ load_manifest # 0 /\ UNCHANGED issued
          /\ op' = [at |-> "trust", plan |-> load_manifest]
       \/ /\ ~Pending /\ Detected /\ issued < MaxCutovers
          /\ ~(source.dir = ".palladin" /\ trust)
          /\ issued' = issued + 1 /\ op' = [at |-> "temporary", plan |-> issued + 1]

\* save_json_atomic writes beside the manifest first.
WriteTemporary ==
    /\ At("temporary") /\ Goes("manifest") /\ Native /\ Counters
    /\ source' = [source EXCEPT !.stray = TRUE] /\ UNCHANGED <<archive, marker, creds>>
SaveManifest ==
    /\ At("manifest") /\ Goes("freeze") /\ Native /\ Counters
    /\ source' = [source EXCEPT !.stray = FALSE, !.manifest = op.plan] /\ UNCHANGED <<archive, marker, creds>>
\* Mutant: the directory is renamed and the manifest is left for later.
FreezeBare ==
    /\ At("freeze") /\ Goes("trust") /\ Native /\ Counters
    /\ source' = [source EXCEPT !.there = FALSE, !.manifest = 0]
    /\ archive' = [there |-> TRUE, manifest |-> 0, files |-> Files] /\ UNCHANGED <<marker, creds>>
\* The rename that takes the directory away from the old runtime.
Freeze ==
    /\ At("freeze") /\ Goes("trust") /\ Native /\ Counters
    /\ source' = [source EXCEPT !.there = FALSE, !.manifest = 0]
    /\ archive' = [there |-> TRUE, manifest |-> source.manifest, files |-> Files] /\ UNCHANGED <<marker, creds>>

\* read_trust_state: recover_pending_operations_locked (with the repair of a missing first registry),
\* or bootstrap_integrity_root, which refuses a root with anything in it.
Trust ==
    /\ At("trust") /\ Legacy /\ Counters /\ UNCHANGED <<agents, preset, active, joined>>
    /\ \/ /\ trust /\ Goes("marker") /\ root' = "files" /\ UNCHANGED trust
       \/ /\ ~trust /\ root = "none" /\ Goes("registry") /\ trust' = TRUE /\ UNCHANGED root
       \/ /\ ~trust /\ root # "none" /\ op' = Idle /\ UNCHANGED <<root, trust>>
SaveRegistry ==
    /\ At("registry") /\ Goes("marker") /\ root' = "files"
    /\ Legacy /\ Counters /\ UNCHANGED <<trust, agents, preset, active, joined>>

ensure_cleanup_marker ==
    /\ At("marker") /\ Native /\ Counters /\ UNCHANGED <<source, archive, creds>>
    /\ IF marker \in {0, op.plan} THEN marker' = op.plan /\ Goes("profiles") ELSE op' = Idle /\ UNCHANGED marker

Planned == {n \in Names : n \notin DOMAIN agents}
\* The registry already holds n, or the identity planned for n, otherwise.
Conflict(n) ==
    IF n \in DOMAIN agents THEN agents[n] # Identity(op.plan, n)
    ELSE \E a \in DOMAIN agents : agents[a] = Identity(op.plan, n)
\* The loop over the plan, one committed profile at a time, then the default.
Create ==
    /\ At("profiles") /\ Legacy /\ Counters /\ UNCHANGED <<root, trust, active, joined>>
    /\ \/ \E n \in Names : Conflict(n) /\ op' = Idle /\ UNCHANGED <<agents, preset>>
       \/ \E n \in Planned :
             /\ ~Conflict(n) /\ UNCHANGED op
             /\ agents' = (n :> Identity(op.plan, n)) @@ agents
             /\ preset' = IF preset = None THEN n ELSE preset
       \/ /\ Planned = {} /\ \A n \in Names : ~Conflict(n)
          /\ op' = Idle /\ preset' = Main /\ UNCHANGED agents

-----------------------------------------------------------------------------
(* cleanup_legacy_typescript. *)

\* Mutant: a fresh profile need not be connected.
ConnectedEnough(c) == \A n \in Names : n \in DOMAIN agents /\ agents[n] = Identity(c, n)
Connected(c) == \A n \in Names : n \in DOMAIN agents /\ agents[n] = Identity(c, n) /\ Identity(c, n) \in active

Cleanup(c) ==
    /\ At("idle") /\ trust /\ Pending /\ c = load_manifest /\ c # 0 /\ Connected(c)
    /\ op' = [at |-> "credentials", plan |-> c] /\ root' = "files"
    /\ Legacy /\ Counters /\ UNCHANGED <<trust, agents, preset, active, joined>>

CleanupOnly == Native /\ Counters /\ UNCHANGED source
\* delete_legacy_typescript_credentials: one deletion after the other; the OS store may refuse.
DeleteCredential ==
    /\ At("credentials") /\ CleanupOnly /\ UNCHANGED <<archive, marker>>
    /\ \/ \E k \in creds : creds' = creds \ {k} /\ UNCHANGED op
       \/ creds = {} /\ Goes("archive") /\ UNCHANGED creds
       \/ creds # {} /\ op' = Idle /\ UNCHANGED creds

\* cleanup_archive: the files, the agents directory, the registry, the manifest, the directory.
RemoveNext ==
    LET a == archive IN
    CASE "flat" \in a.files     -> [a EXCEPT !.files = @ \ {"flat"}]
      [] "agents" \in a.files   -> [a EXCEPT !.files = @ \ {"agents"}]
      [] "registry" \in a.files -> [a EXCEPT !.files = @ \ {"registry"}]
      [] a.manifest # 0         -> [a EXCEPT !.manifest = 0]
      [] OTHER                  -> [there |-> FALSE, manifest |-> 0, files |-> {}]
cleanup_archive ==
    /\ At("archive") /\ CleanupOnly /\ UNCHANGED <<marker, creds>>
    /\ IF archive.there THEN archive' = RemoveNext /\ UNCHANGED op ELSE Goes("unmark") /\ UNCHANGED archive
\* The marker goes last.
RemoveMarker ==
    /\ At("unmark") /\ CleanupOnly /\ UNCHANGED <<archive, creds>>
    /\ marker' = 0 /\ op' = Idle

-----------------------------------------------------------------------------
(* Kills, and the user's other commands between two of these. *)

Kill ==
    /\ ~At("idle") /\ kills < MaxKills /\ kills' = kills + 1 /\ op' = Idle
    /\ Native /\ Legacy /\ UNCHANGED <<issued, changes>>

Between == At("idle") /\ changes < MaxChanges /\ changes' = changes + 1 /\ UNCHANGED <<op, issued, kills>>
Ready == trust /\ root = "files"

\* upgrade_security: the version 2 profiles are committed under a first trust state, none of them active.
Upgrade ==
    /\ Between /\ ~trust /\ root = "v2" /\ trust' = TRUE /\ root' = "files"
    /\ Legacy /\ UNCHANGED <<agents, preset, active, joined>>
Make(n) ==
    /\ Between /\ (Ready \/ (~trust /\ root = "none" /\ ~source.there)) /\ n \notin DOMAIN agents
    /\ trust' = TRUE /\ root' = "files" /\ agents' = (n :> Own(n)) @@ agents
    /\ Own(n) \notin {agents[a] : a \in DOMAIN agents}
    /\ preset' = IF preset = None THEN n ELSE preset
    /\ Legacy /\ UNCHANGED <<active, joined>>
Connect(n) ==
    /\ Between /\ Ready /\ n \in DOMAIN agents /\ active' = active \cup {agents[n]} /\ joined' = joined \cup {agents[n]}
    /\ Legacy /\ UNCHANGED <<root, trust, agents, preset>>
Deactivated(n) ==
    /\ Between /\ Ready /\ n \in DOMAIN agents /\ active' = active \ {agents[n]}
    /\ Legacy /\ UNCHANGED <<root, trust, agents, preset, joined>>
Rename(n, o) ==
    /\ Between /\ Ready /\ n \in DOMAIN agents /\ o \notin DOMAIN agents
    /\ agents' = [a \in (DOMAIN agents \ {n}) \cup {o} |-> IF a = o THEN agents[n] ELSE agents[a]]
    /\ preset' = IF preset = n THEN o ELSE preset
    /\ Legacy /\ UNCHANGED <<root, trust, active, joined>>
\* delete_profile, and purge_profile where it is the default.
Delete(n) ==
    LET rest == DOMAIN agents \ {n} IN
    /\ Between /\ Ready /\ n \in DOMAIN agents
    /\ agents' = [a \in rest |-> agents[a]] /\ active' = active \ {agents[n]}
    /\ preset' \in (IF preset # n THEN {preset} ELSE IF rest = {} THEN {None} ELSE rest)
    /\ Legacy /\ UNCHANGED <<root, trust, joined>>
\* purge refuses unless status is Clear; it takes the native root with everything in it.
Purge ==
    /\ Between /\ Ready /\ ~Pending /\ ~source.there
    /\ root' = "none" /\ trust' = FALSE /\ agents' = << >> /\ preset' = None /\ active' = {}
    /\ Legacy /\ UNCHANGED joined
\* What the old runtime's stray file needs: a person.
Tidy == Between /\ source.stray /\ source' = [source EXCEPT !.stray = FALSE] /\ Native /\ UNCHANGED <<archive, marker, creds>>

Next ==
    \/ Begin \/ WriteTemporary \/ SaveManifest \/ Freeze \/ Trust \/ SaveRegistry \/ ensure_cleanup_marker \/ Create
    \/ (\E c \in 1..MaxCutovers : Cleanup(c)) \/ DeleteCredential \/ cleanup_archive \/ RemoveMarker
    \/ Kill \/ Upgrade \/ Purge \/ Tidy
    \/ \E n \in AllNames : Make(n) \/ Connect(n) \/ Deactivated(n) \/ Delete(n) \/ \E o \in AllNames : Rename(n, o)

Spec == Init /\ [][Next]_vars
-----------------------------------------------------------------------------
(* The maps of the state are what they should be. *)
TypeOK ==
    /\ source.manifest \in 0..MaxCutovers /\ archive.manifest \in 0..MaxCutovers /\ marker \in 0..MaxCutovers
    /\ DOMAIN agents \subseteq AllNames /\ (preset = None <=> agents = << >>)
    /\ creds \subseteq Names \X Suffixes /\ op.plan \in 0..MaxCutovers

(* At every point of both commands, whichever of them is killed, the plan can still be read while anything *)
(* of the old runtime is frozen, and its two copies agree: load_manifest, ensure_cleanup_marker, and the   *)
(* order in which cleanup_archive removes.                                                                 *)
PlanIsKept ==
    /\ Pending => load_manifest # 0
    /\ (archive.manifest # 0 /\ marker # 0) => archive.manifest = marker

(* The old runtime's credentials are never left behind without the plan that names them, and none is   *)
(* deleted before every identity meant to replace them has been connected: cutover, cleanup, and purge *)
(* between them.                                                                                       *)
ReplacedBeforeRemoved ==
    /\ creds # {} => source.there \/ Pending
    /\ creds # Names \X Suffixes => \E c \in 1..issued : \A n \in Names : Identity(c, n) \in joined
=============================================================================
