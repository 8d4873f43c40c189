--------------------------- MODULE IntegrityRoot ----------------------------
(***************************************************************************)
(* The authenticated root of palladin-runtime: a trust state in the OS     *)
(* secure store, a write-ahead journal, the public registry and the        *)
(* identity directories, all changed by one process at a time under a      *)
(* cross-process lock (integrity.rs, and in lib.rs                         *)
(* recover_pending_operations_locked, commit_transition_with_copies_inner, *)
(* apply_journal and finish_purge).                                        *)
(*                                                                         *)
(* Each durable write is one step, so a crash can fall between any two.    *)
(* SHA-256 digests are injective: a digest is the value it stands for.     *)
(* The loops over deletions and directories are driven by what is still    *)
(* there, as every deletion in them ignores what is already gone; their    *)
(* order is left open.  ProfileOperations adds the commands that use this  *)
(* machinery.                                                              *)
(***************************************************************************)
EXTENDS Integers, FiniteSets

CONSTANTS
    Names,          \* profile names
    DefaultName,    \* the literal "default"
    Ids,            \* opaque identity ids
    Orgs,           \* opaque organization credential ids
    Keys,           \* organization API keys
    Absent,         \* "no such file, slot, config or journal"
    MaxGeneration,  \* the largest generation, u64::MAX in the code
    MaxCrashes,     \* how many crashes and failed calls a behaviour has
    TempResidue,    \* a crash inside an atomic file save leaves its temporary file
    HostSockets     \* browser hosts bind sockets in the root

ASSUME GenerationAssumption == MaxGeneration \in Nat
ASSUME ConstantsAssumption ==
    /\ DefaultName \in Names
    /\ Ids \intersect Orgs = {}
    /\ Absent \notin Ids \union Orgs \union Keys \union Names

VARIABLES
    \* what survives a crash
    trust,     \* the trust state of the secure store
    journal,   \* integrity-journal.json
    regFile,   \* registry.json
    cfgFile,   \* identities/<id>/config.json
    dirs,      \* the identity directories that exist
    litter,    \* identity directories holding a leftover temporary file
    strays,    \* other entries of the root: "tmp", "sock"
    root,      \* the root directory exists
    xKey,      \* identities with an X25519 slot
    eKey,      \* identities with an Ed25519 slot
    orgKey,    \* the API key of each organization credential slot
    host,      \* browser host slots: "token", "key"
    crashes,   \* crashes and failed calls so far
    \* the process that holds the transaction lock
    pc,        \* its next step, "idle" when nobody holds the lock
    mode,      \* what it applies a journal or deletes an allocation for
    cmd,       \* the command it runs
    mem,       \* the journal it holds in memory
    last       \* how the last command ended

slots == <<xKey, eKey, orgKey>>
env == <<host, crashes>>
files == <<journal, regFile, cfgFile, dirs, litter, strays, root>>
local == <<mode, cmd, mem>>
vars == <<trust, files, slots, env, pc, local, last>>

-----------------------------------------------------------------------------
(* Values. *)

NoConfig == Absent

\* PublicProfileConfig, down to what the transactions look at.
Config == [org : Orgs, retired : SUBSET Orgs]

ASSUME ConfigAssumption == Absent \notin Config

Entry == [name : Names, cfg : Config \union {NoConfig}]

\* PublicRegistry; the order of its agents is left open.
Registry == [default : Names, agents : UNION {[S -> Entry] : S \in SUBSET Ids}]

\* PublicRegistry::default()
EmptyRegistry == [default |-> DefaultName, agents |-> [i \in {} |-> NoConfig]]

Agents(reg) == DOMAIN reg.agents

\* state.configs: the configs of the agents that have one.
Configured(reg) == {i \in Agents(reg) : reg.agents[i].cfg # NoConfig}

ConfigOrgs(cfg) == {cfg.org} \union cfg.retired

\* organization_referenced_in holds exactly of these.
Referenced(reg) == UNION {ConfigOrgs(reg.agents[i].cfg) : i \in Configured(reg)}

\* The secret owners a registry stands for.
Owners(reg) == Agents(reg) \union Referenced(reg)

TrustKinds == {"Absent", "Committed", "Allocating", "Transition", "PurgeCommitted"}

Trust(kind, gen, reg, alloc, j) ==
    [kind |-> kind, gen |-> gen, reg |-> reg, alloc |-> alloc, j |-> j]

NoTrust == Trust("Absent", 0, EmptyRegistry, {}, Absent)
Committed(gen, reg) == Trust("Committed", gen, reg, {}, Absent)
Allocating(gen, reg, alloc) == Trust("Allocating", gen, reg, alloc, Absent)
PurgeCommitted(gen, reg) == Trust("PurgeCommitted", gen, reg, {}, Absent)

\* The marker binds both generations and digests and the journal's digest.
Transition(gen, reg, j) == Trust("Transition", gen, reg, {}, j)

\* IntegrityJournal::validate, the conditions that are about contents.
ValidJournal(j) ==
    /\ \A i \in DOMAIN j.writes : i \in Agents(j.target) /\ j.target.agents[i].cfg = j.writes[i]
    /\ j.purge => Agents(j.target) = {} /\ DOMAIN j.writes = {}

Steps ==
    {"idle", "recover", "bootRegistry", "repair", "unalloc", "dropJournal", "preflight",
     "configs", "registry", "validate", "delete", "rmdirs", "finish", "rmJournal",
     "purgeFiles", "purgeJournal", "purgeRoot", "purgeTrust", "purgeToken", "purgeKey", "body",
     "save", "seal", "mark", "committed", "setX", "setE", "initAuth", "connect",
     "setOrg", "register"}

-----------------------------------------------------------------------------
(* Ending a command. *)

Goto(step) == pc' = step

\* The command returns: the lock is released and its memory is gone.
Return(how) ==
    /\ pc' = "idle"
    /\ mode' = "recovery"
    /\ cmd' = Absent
    /\ mem' = Absent
    /\ last' = how

Stay == UNCHANGED <<mode, cmd, mem, last>>

\* Where a process goes once nothing is left to recover or apply.
Continue == Goto(IF mode = "commit" THEN "committed" ELSE "body")

\* A check fails and nothing has changed.
Refuse == Return("error") /\ UNCHANGED <<trust, files, slots, env>>

-----------------------------------------------------------------------------
(* Secret slots.  delete_identity removes the X25519 slot, then the Ed25519 slot. *)

DeleteSlot(owners) ==
    \/ \E i \in owners \intersect xKey :
           xKey' = xKey \ {i} /\ UNCHANGED <<eKey, orgKey>>
    \/ \E i \in (owners \intersect eKey) \ xKey :
           eKey' = eKey \ {i} /\ UNCHANGED <<xKey, orgKey>>
    \/ \E o \in owners \intersect Orgs :
           /\ orgKey[o] # Absent
           /\ orgKey' = [orgKey EXCEPT ![o] = Absent]
           /\ UNCHANGED <<xKey, eKey>>

StoredOrgs == {o \in Orgs : orgKey[o] # Absent}

\* generate_opaque_id never repeats an id: one that is stored nowhere will do.
FreshIds == Ids \ (Agents(trust.reg) \union xKey \union eKey \union dirs)
FreshOrgs == Orgs \ (Referenced(trust.reg) \union StoredOrgs)

SlotsGone(owners) == owners \intersect (xKey \union eKey \union StoredOrgs) = {}

-----------------------------------------------------------------------------
(* recover_pending_operations_locked *)

RootHasEntries == root /\ (regFile # Absent \/ journal # Absent \/ strays # {} \/ dirs # {})

\* bootstrap_integrity_root: an empty root is pinned before its registry is written.
BootstrapTrust ==
    /\ pc = "recover"
    /\ trust.kind = "Absent"
    /\ IF RootHasEntries
       THEN Refuse
       ELSE /\ trust' = Committed(0, EmptyRegistry)
            /\ Goto("bootRegistry")
            /\ Stay
            /\ UNCHANGED <<files, slots, env>>

BootstrapRegistry ==
    /\ pc = "bootRegistry"
    /\ regFile' = EmptyRegistry
    /\ root' = TRUE
    /\ Goto("body")
    /\ Stay
    /\ UNCHANGED <<trust, journal, cfgFile, dirs, litter, strays, slots, env>>

\* Committed: a journal without a marker is dropped.
RecoverCommitted ==
    /\ pc = "recover"
    /\ trust.kind = "Committed"
    /\ journal' = Absent
    /\ Goto("repair")
    /\ Stay
    /\ UNCHANGED <<trust, regFile, cfgFile, dirs, litter, strays, root, slots, env>>

\* repair_initial_registry_if_missing: only the registry of generation 0 is rewritten.
RepairRegistry ==
    /\ pc = "repair"
    /\ \/ /\ regFile # Absent
          /\ Goto("body")
          /\ Stay
          /\ UNCHANGED <<trust, files, slots, env>>
       \/ /\ regFile = Absent
          /\ trust.gen = 0 /\ trust.reg = EmptyRegistry
          /\ regFile' = EmptyRegistry
          /\ root' = TRUE
          /\ Goto("body")
          /\ Stay
          /\ UNCHANGED <<trust, journal, cfgFile, dirs, litter, strays, slots, env>>
       \/ /\ regFile = Absent
          /\ ~(trust.gen = 0 /\ trust.reg = EmptyRegistry)
          /\ Refuse

RecoverAllocating ==
    /\ pc = "recover"
    /\ trust.kind = "Allocating"
    /\ Goto("unalloc")
    /\ Stay
    /\ UNCHANGED <<trust, files, slots, env>>

\* delete_allocations, for recovery and for rollback_allocation alike.
DeleteAllocation ==
    /\ pc = "unalloc"
    /\ DeleteSlot(trust.alloc)
    /\ Stay
    /\ UNCHANGED <<trust, files, env, pc>>

\* ... then the committed state is written back.  A rollback ends the command.
CommitUnallocated ==
    /\ pc = "unalloc"
    /\ SlotsGone(trust.alloc)
    /\ trust' = Committed(trust.gen, trust.reg)
    /\ IF mode = "rollback" THEN Return("error") ELSE Goto("dropJournal") /\ Stay
    /\ UNCHANGED <<files, slots, env>>

DropJournal ==
    /\ pc = "dropJournal"
    /\ journal' = Absent
    /\ Goto("body")
    /\ Stay
    /\ UNCHANGED <<trust, regFile, cfgFile, dirs, litter, strays, root, slots, env>>

\* Mutant: recovery rolls a marked transition back.
RecoverTransitionRollsBack ==
    /\ pc = "recover"
    /\ trust.kind = "Transition"
    /\ trust' = Committed(trust.gen, trust.reg)
    /\ Goto("dropJournal")
    /\ Stay
    /\ UNCHANGED <<files, slots, env>>

\* Transition: the journal must be the one the marker names.
RecoverTransition ==
    /\ pc = "recover"
    /\ trust.kind = "Transition"
    /\ IF journal # Absent /\ journal = trust.j
       THEN /\ mem' = journal
            /\ Goto("preflight")
            /\ UNCHANGED <<mode, cmd, last, trust, files, slots, env>>
       ELSE Refuse

RecoverPurge ==
    /\ pc = "recover"
    /\ trust.kind = "PurgeCommitted"
    /\ Goto("purgeFiles")
    /\ Stay
    /\ UNCHANGED <<trust, files, slots, env>>

Recover ==
    \/ BootstrapTrust \/ BootstrapRegistry
    \/ RecoverCommitted \/ RepairRegistry
    \/ RecoverAllocating \/ DeleteAllocation \/ CommitUnallocated \/ DropJournal
    \/ RecoverTransition
    \/ RecoverPurge

-----------------------------------------------------------------------------
(* apply_journal, for a commit and for recovery alike *)

\* preflight_public_purge: only the identities to be removed, and only known files.
PurgeAllowed(ids) == root => strays = {} /\ dirs \subseteq ids /\ litter = {}

Preflight ==
    /\ pc = "preflight"
    /\ IF mem.purge => PurgeAllowed(mem.rmdirs)
       THEN Goto("configs") /\ Stay /\ UNCHANGED <<trust, files, slots, env>>
       ELSE Refuse

\* save_config creates the directory and replaces config.json atomically.
SaveConfig ==
    /\ pc = "configs"
    /\ \E i \in DOMAIN mem.writes :
           /\ cfgFile[i] # mem.writes[i]
           /\ cfgFile' = [cfgFile EXCEPT ![i] = mem.writes[i]]
           /\ dirs' = dirs \union {i}
    /\ root' = TRUE
    /\ Stay
    /\ UNCHANGED <<pc, trust, journal, regFile, litter, strays, slots, env>>

ConfigsSaved ==
    /\ pc = "configs"
    /\ \A i \in DOMAIN mem.writes : cfgFile[i] = mem.writes[i]
    /\ Goto("registry")
    /\ Stay
    /\ UNCHANGED <<trust, files, slots, env>>

SaveRegistry ==
    /\ pc = "registry"
    /\ regFile' = mem.target
    /\ root' = TRUE
    /\ Goto("validate")
    /\ Stay
    /\ UNCHANGED <<trust, journal, cfgFile, dirs, litter, strays, slots, env>>

\* validate_registry_configs: each agent's config file is the one its entry names.
ConfigsValid(reg) == \A i \in Agents(reg) : cfgFile[i] = reg.agents[i].cfg

Validate ==
    /\ pc = "validate"
    /\ IF ConfigsValid(mem.target)
       THEN Goto("delete") /\ Stay /\ UNCHANGED <<trust, files, slots, env>>
       ELSE Refuse

\* A secret that the target still needs is not deleted: the journal is refused there.
DeleteSecrets ==
    /\ pc = "delete"
    /\ \/ /\ mem.dels \intersect Owners(mem.target) # {}
          /\ Refuse
       \/ /\ DeleteSlot(mem.dels \ Owners(mem.target))
          /\ Stay
          /\ UNCHANGED <<pc, trust, files, env>>
       \/ /\ mem.dels \intersect Owners(mem.target) = {}
          /\ SlotsGone(mem.dels)
          /\ Goto("rmdirs")
          /\ Stay
          /\ UNCHANGED <<trust, files, slots, env>>

\* remove_identity_directory: known files, then the directory; anything else in it
\* is an error, and so is an identity that is still an agent.
RemoveDirectories ==
    /\ pc = "rmdirs"
    /\ LET kept == litter \union Agents(mem.target)
       IN \/ /\ mem.rmdirs \intersect kept # {}
             /\ Refuse
          \/ \E i \in (mem.rmdirs \intersect dirs) \ kept :
                 /\ IF cfgFile[i] # Absent
                    THEN cfgFile' = [cfgFile EXCEPT ![i] = Absent] /\ UNCHANGED dirs
                    ELSE dirs' = dirs \ {i} /\ UNCHANGED cfgFile
                 /\ Stay
                 /\ UNCHANGED <<pc, trust, journal, regFile, litter, strays, root, slots, env>>
          \/ /\ mem.rmdirs \intersect (dirs \union kept) = {}
             /\ Goto("finish")
             /\ Stay
             /\ UNCHANGED <<trust, files, slots, env>>

\* Mutant: the old registry is committed again.
FinishTransitionKeepsRegistry ==
    /\ pc = "finish"
    /\ trust' = IF mem.purge
                THEN PurgeCommitted(mem.from + 1, trust.reg)
                ELSE Committed(mem.from + 1, trust.reg)
    /\ Goto("rmJournal")
    /\ Stay
    /\ UNCHANGED <<files, slots, env>>

\* The transition is over: the trust state names the target alone.
FinishTransition ==
    /\ pc = "finish"
    /\ trust' = IF mem.purge
                THEN PurgeCommitted(mem.from + 1, mem.target)
                ELSE Committed(mem.from + 1, mem.target)
    /\ Goto("rmJournal")
    /\ Stay
    /\ UNCHANGED <<files, slots, env>>

RemoveJournal ==
    /\ pc = "rmJournal"
    /\ journal' = Absent
    /\ IF mem.purge THEN Goto("purgeFiles") ELSE Continue
    /\ Stay
    /\ UNCHANGED <<trust, regFile, cfgFile, dirs, litter, strays, root, slots, env>>

Apply ==
    \/ Preflight \/ SaveConfig \/ ConfigsSaved \/ SaveRegistry \/ Validate
    \/ DeleteSecrets \/ RemoveDirectories \/ FinishTransition \/ RemoveJournal

-----------------------------------------------------------------------------
(* finish_purge: the public root, then the trust state, then the browser host. *)

\* purge_public_data: an unknown entry is an error; else the known files go.
PurgeFiles ==
    /\ pc = "purgeFiles"
    /\ \/ /\ ~root
          /\ Goto("purgeTrust")
          /\ Stay
          /\ UNCHANGED <<trust, files, slots, env>>
       \/ /\ root /\ strays = {} /\ dirs = {}
          /\ regFile' = Absent
          /\ Goto("purgeJournal")
          /\ Stay
          /\ UNCHANGED <<trust, journal, cfgFile, dirs, litter, strays, root, slots, env>>
       \/ /\ root /\ ~(strays = {} /\ dirs = {})
          /\ Refuse

PurgeJournal ==
    /\ pc = "purgeJournal"
    /\ journal' = Absent
    /\ Goto("purgeRoot")
    /\ Stay
    /\ UNCHANGED <<trust, regFile, cfgFile, dirs, litter, strays, root, slots, env>>

\* remove_dir fails on whatever appeared meanwhile.
PurgeRoot ==
    /\ pc = "purgeRoot"
    /\ IF strays = {}
       THEN /\ root' = FALSE
            /\ Goto("purgeTrust")
            /\ Stay
            /\ UNCHANGED <<trust, journal, regFile, cfgFile, dirs, litter, strays, slots, env>>
       ELSE Refuse

PurgeTrust ==
    /\ pc = "purgeTrust"
    /\ trust' = NoTrust
    /\ Goto("purgeToken")
    /\ Stay
    /\ UNCHANGED <<files, slots, env>>

PurgeToken ==
    /\ pc = "purgeToken"
    /\ host' = host \ {"token"}
    /\ Goto("purgeKey")
    /\ Stay
    /\ UNCHANGED <<trust, files, slots, crashes>>

\* Mutant: the browser host's key is forgotten.
PurgeKeyForgotten ==
    /\ pc = "purgeKey"
    /\ Continue
    /\ Stay
    /\ UNCHANGED <<trust, files, slots, env>>

PurgeKey ==
    /\ pc = "purgeKey"
    /\ host' = host \ {"key"}
    /\ Continue
    /\ Stay
    /\ UNCHANGED <<trust, files, slots, crashes>>

FinishPurge ==
    PurgeFiles \/ PurgeJournal \/ PurgeRoot \/ PurgeTrust \/ PurgeToken \/ PurgeKey

-----------------------------------------------------------------------------
(* commit_transition_with_copies_inner, up to the marker *)

\* IntegrityJournal::new: an exhausted generation or an invalid journal ends the
\* command, an allocation that was begun stays recorded.
Prepare(target, writes, rmdirs, dels, purge) ==
    LET j == [from |-> trust.gen, target |-> target, writes |-> writes,
              rmdirs |-> rmdirs, dels |-> dels, purge |-> purge]
    IN IF trust.gen < MaxGeneration /\ ValidJournal(j)
       THEN /\ mem' = j
            /\ Goto("save")
            /\ UNCHANGED <<mode, cmd, last, trust, files, slots, env>>
       ELSE Refuse

\* A stale journal goes first; the new one needs the root to be there.
SaveJournal(leased) ==
    /\ pc = "save"
    /\ \/ /\ leased \/ ~root
          /\ Refuse
       \/ /\ journal # Absent
          /\ journal' = Absent
          /\ Stay
          /\ UNCHANGED <<pc, trust, regFile, cfgFile, dirs, litter, strays, root, slots, env>>
       \/ /\ journal = Absent
          /\ root
          /\ journal' = mem
          /\ Goto("seal")
          /\ Stay
          /\ UNCHANGED <<trust, regFile, cfgFile, dirs, litter, strays, root, slots, env>>

\* A lease that was revoked or ran out takes the journal back.
Seal(leased) ==
    /\ pc = "seal"
    /\ \/ /\ leased
          /\ journal' = Absent
          /\ Return("error")
          /\ UNCHANGED <<trust, regFile, cfgFile, dirs, litter, strays, root, slots, env>>
       \/ /\ Goto("mark")
          /\ Stay
          /\ UNCHANGED <<trust, files, slots, env>>

\* The durable marker: from here on the command has happened.
WriteMarker ==
    /\ pc = "mark"
    /\ trust' = Transition(trust.gen, trust.reg, mem)
    /\ mode' = "commit"
    /\ Goto("preflight")
    /\ UNCHANGED <<cmd, mem, last, files, slots, env>>

Commit(leased) == SaveJournal(leased) \/ Seal(leased) \/ WriteMarker

-----------------------------------------------------------------------------
(* The environment. *)

\* The process dies, or a file or secure store call fails and the error is returned
\* at once: either way the lock goes and what is durable stays.  A directory may have
\* been created already; a crash inside NamedTempFile leaves the temporary file.
Crash ==
    /\ pc # "idle"
    /\ crashes < MaxCrashes
    /\ crashes' = crashes + 1
    /\ Return("crash")
    /\ \/ UNCHANGED <<dirs, litter, strays, root>>
       \/ /\ pc = "configs"
          /\ \E i \in DOMAIN mem.writes :
                 /\ dirs' = dirs \union {i}
                 /\ \/ UNCHANGED litter
                    \/ TempResidue /\ litter' = litter \union {i}
          /\ root' = TRUE
          /\ UNCHANGED strays
       \/ /\ TempResidue
          /\ pc \in {"bootRegistry", "repair", "registry", "save"}
          /\ pc = "repair" => regFile = Absent
          /\ pc = "save" => root
          /\ strays' = strays \union {"tmp"}
          /\ root' = TRUE
          /\ UNCHANGED <<dirs, litter>>
    /\ UNCHANGED <<trust, journal, regFile, cfgFile, slots, host>>

\* browser install (BrowserHost has its steps), under the same lock.
ProvisionHost ==
    /\ pc = "idle"
    /\ HostSockets
    /\ host # {"token", "key"}
    /\ host' = {"token", "key"}
    /\ UNCHANGED <<trust, files, slots, crashes, pc, local, last>>

\* A browser host binds its socket inside the root, at any time, and removes it.
HostSocket ==
    /\ HostSockets
    /\ \/ root /\ host = {"token", "key"} /\ "sock" \notin strays /\ strays' = strays \union {"sock"}
       \/ "sock" \in strays /\ strays' = strays \ {"sock"}
    /\ UNCHANGED <<trust, journal, regFile, cfgFile, dirs, litter, root, slots, env, pc, local, last>>
=============================================================================
