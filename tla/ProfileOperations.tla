-------------------------- MODULE ProfileOperations -------------------------
(***************************************************************************)
(* The profile commands of palladin-runtime (lib.rs, with the pure         *)
(* registry functions of palladin-core's profiles.rs) on top of            *)
(* IntegrityRoot: create, rename, set default, delete, purge one profile,  *)
(* purge everything and connect.  A command takes the lock, recovers what  *)
(* an earlier process left behind, and then runs its own body.             *)
(***************************************************************************)
EXTENDS IntegrityRoot

-----------------------------------------------------------------------------
(* palladin-core: the registry functions. *)

Named(reg, n) == {i \in Agents(reg) : reg.agents[i].name = n}

NamesOf(reg) == {reg.agents[i].name : i \in Agents(reg)}

AddProfile(reg, n, i) ==
    [default |-> IF Agents(reg) = {} THEN n ELSE reg.default,
     agents  |-> [j \in Agents(reg) \union {i} |->
                     IF j = i THEN [name |-> n, cfg |-> NoConfig] ELSE reg.agents[j]]]

RenameProfile(reg, n, m) ==
    [default |-> IF reg.default = n THEN m ELSE reg.default,
     agents  |-> [i \in Agents(reg) |->
                     IF reg.agents[i].name = n
                     THEN [name |-> m, cfg |-> reg.agents[i].cfg] ELSE reg.agents[i]]]

WithDefault(reg, n) == [default |-> n, agents |-> reg.agents]

WithConfig(reg, i, cfg) ==
    [default |-> reg.default,
     agents  |-> [j \in Agents(reg) |->
                     IF j = i THEN [name |-> reg.agents[j].name, cfg |-> cfg] ELSE reg.agents[j]]]

\* delete_profile and purge_profile: who remains.
Without(reg, n) ==
    [default |-> reg.default,
     agents  |-> [i \in Agents(reg) \ Named(reg, n) |-> reg.agents[i]]]

\* purge_profile: the first remaining profile becomes the default.
Purged(reg, n) ==
    LET rest == Without(reg, n)
    IN {WithDefault(rest, d) :
           d \in IF reg.default # n THEN {reg.default}
                 ELSE IF Agents(rest) = {} THEN {DefaultName} ELSE NamesOf(rest)}

-----------------------------------------------------------------------------
(* Commands. *)

CommandSet(ops, names, args, typed) ==
    [op : ops, name : names, arg : args, typed : typed, stage : {"resolve"},
     id : {Absent}, org : {Absent}, created : {FALSE}, done : {0}]

Commands ==
    CommandSet({"create", "setDefault", "delete", "purgeProfile"}, Names, {Absent}, {FALSE})
    \union CommandSet({"rename"}, Names, Names, {FALSE})
    \union CommandSet({"connect"}, Names, Keys, BOOLEAN)
    \union CommandSet({"purge", "recover"}, {DefaultName}, {Absent}, {FALSE})

\* The commands whose transition an OperationLease has to allow.
Leased ==
    \/ cmd.op \in {"delete", "purgeProfile"}
    \/ cmd.op = "purge" /\ Agents(trust.reg) # {}

\* acquire_transaction_lock
Begin(c) ==
    /\ pc = "idle"
    /\ cmd' = c
    /\ Goto("recover")
    /\ UNCHANGED <<mode, mem, last, trust, files, slots, env>>

\* verified_state_locked
Verified ==
    /\ trust.kind = "Committed"
    /\ regFile = trust.reg
    /\ ConfigsValid(trust.reg)

RefuseUnverified == pc = "body" /\ ~Verified /\ Refuse

Running(op) == pc = "body" /\ cmd.op = op /\ Verified

Taken(n) == Named(trust.reg, n) # {}

NoWrites == [i \in {} |-> Absent]

-----------------------------------------------------------------------------
(* Commands that are one transition. *)

Rename ==
    /\ Running("rename")
    /\ IF Taken(cmd.name) /\ ~Taken(cmd.arg)
       THEN Prepare(RenameProfile(trust.reg, cmd.name, cmd.arg), NoWrites, {}, {}, FALSE)
       ELSE Refuse

SetDefault ==
    /\ Running("setDefault")
    /\ IF Taken(cmd.name)
       THEN Prepare(WithDefault(trust.reg, cmd.name), NoWrites, {}, {}, FALSE)
       ELSE Refuse

\* commit_profile_removal: a credential goes when no remaining profile refers to it.
\* Its deletions form a list without duplicates, or the journal is invalid.
CommitRemoval(target) ==
    LET i == CHOOSE j \in Named(trust.reg, cmd.name) : TRUE
        cfg == trust.reg.agents[i].cfg
        unused == (IF cfg = NoConfig THEN {} ELSE ConfigOrgs(cfg)) \ Referenced(target)
    IN IF cfg # NoConfig /\ cfg.org \in cfg.retired \intersect unused
       THEN Refuse
       ELSE Prepare(target, NoWrites, {i}, {i} \union unused, FALSE)

Delete ==
    /\ Running("delete")
    /\ \/ Refuse      \* the user declines, or one of the conditions below fails
       \/ /\ cmd.name # trust.reg.default
          /\ Taken(cmd.name)
          /\ CommitRemoval(Without(trust.reg, cmd.name))

PurgeProfile ==
    /\ Running("purgeProfile")
    /\ \/ Refuse
       \/ /\ Taken(cmd.name)
          /\ \E target \in Purged(trust.reg, cmd.name) : CommitRemoval(target)

Purge ==
    /\ Running("purge")
    /\ \/ Refuse
       \/ /\ Agents(trust.reg) # {} => Taken(trust.reg.default)
          /\ PurgeAllowed(Agents(trust.reg))
          /\ Prepare(EmptyRegistry, NoWrites, Agents(trust.reg), Owners(trust.reg), TRUE)

-----------------------------------------------------------------------------
(* create_profile_locked, for create and for connect *)

\* Mutant: nothing is recorded before the slots are written.
AllocateUnrecorded ==
    \E i \in FreshIds :
        /\ cmd' = [cmd EXCEPT !.id = i]
        /\ Goto("setX")
        /\ UNCHANGED <<mode, mem, last, trust, files, slots, env>>

\* begin_allocation: the trust state owns the new id before any slot is written.
AllocateIdentity ==
    \E i \in FreshIds :
        /\ trust' = Allocating(trust.gen, trust.reg, {i})
        /\ cmd' = [cmd EXCEPT !.id = i]
        /\ Goto("setX")
        /\ UNCHANGED <<mode, mem, last, files, slots, env>>

Create ==
    /\ Running("create")
    /\ IF Taken(cmd.name) THEN Refuse ELSE AllocateIdentity

\* rollback_allocation
Rollback ==
    /\ mode' = "rollback"
    /\ Goto("unalloc")
    /\ UNCHANGED <<cmd, mem, last>>

\* A write to the secure store succeeds, or fails with or without having happened.
Store(next) == Goto(next) /\ Stay

\* Mutant: a failed write is not noticed.
SetX25519Unnoticed ==
    /\ pc = "setX"
    /\ xKey' \in {xKey, xKey \union {cmd.id}}
    /\ Store("setE")
    /\ UNCHANGED <<trust, files, eKey, orgKey, env>>

SetX25519 ==
    /\ pc = "setX"
    /\ \/ xKey' = xKey \union {cmd.id} /\ (Store("setE") \/ Rollback)
       \/ UNCHANGED xKey /\ Rollback
    /\ UNCHANGED <<trust, files, eKey, orgKey, env>>

SetEd25519 ==
    /\ pc = "setE"
    /\ \/ eKey' = eKey \union {cmd.id} /\ (Store("initAuth") \/ Rollback)
       \/ UNCHANGED eKey /\ Rollback
    /\ UNCHANGED <<trust, files, xKey, orgKey, env>>

\* initialize_operation_authorization, then the new registry is committed.
InitializeAuthorization ==
    /\ pc = "initAuth"
    /\ \/ Rollback /\ UNCHANGED <<trust, files, slots, env>>
       \/ Prepare(AddProfile(trust.reg, cmd.name, cmd.id), NoWrites, {}, {}, FALSE)

-----------------------------------------------------------------------------
(* connect *)

\* The profile to connect, created when it is missing.
ConnectCreate ==
    /\ Running("connect")
    /\ cmd.stage = "resolve"
    /\ ~Taken(cmd.name)
    /\ AllocateIdentity

\* With an agent type given, set_profile_type is a transition of its own.
ConnectType ==
    /\ Running("connect")
    /\ cmd.stage = "resolve"
    /\ Taken(cmd.name) /\ cmd.typed
    /\ Prepare(trust.reg, NoWrites, {}, {}, FALSE)

Reusable == {o \in Referenced(trust.reg) : orgKey[o] = cmd.arg}

\* find_or_create_organization_credential_authorized, after the identity was loaded
\* and the user agreed.
ConnectCredential ==
    /\ Running("connect")
    /\ (cmd.stage = "resolve" /\ ~cmd.typed) \/ cmd.stage = "typed"
    /\ Taken(cmd.name)
    /\ \E i \in Named(trust.reg, cmd.name) :
           \/ Refuse
           \/ /\ i \in xKey \intersect eKey
              /\ \E o \in Reusable :
                     cmd' = [cmd EXCEPT !.id = i, !.org = o, !.created = FALSE]
              /\ Goto("register")
              /\ UNCHANGED <<mode, mem, last, trust, files, slots, env>>
           \/ /\ i \in xKey \intersect eKey
              /\ Reusable = {}
              /\ \E o \in FreshOrgs :
                     /\ trust' = Allocating(trust.gen, trust.reg, {o})
                     /\ cmd' = [cmd EXCEPT !.id = i, !.org = o, !.created = TRUE]
              /\ Goto("setOrg")
              /\ UNCHANGED <<mode, mem, last, files, slots, env>>

SetOrganizationKey ==
    /\ pc = "setOrg"
    /\ \/ /\ orgKey' = [orgKey EXCEPT ![cmd.org] = cmd.arg]
          /\ Store("register") \/ Rollback
       \/ UNCHANGED orgKey /\ Rollback
    /\ UNCHANGED <<trust, files, xKey, eKey, env>>

\* The config that connect writes: the credential it replaces is retired.
ConnectedConfig(old) ==
    [org     |-> cmd.org,
     retired |-> IF old = NoConfig THEN {} ELSE ConfigOrgs(old) \ {cmd.org}]

\* register_agent.  No answer in time, a refusal, or an unreachable server when there
\* is a config already: a new credential is taken back.  A lease that ends right after
\* the answer leaves it to recovery.  Otherwise the config is saved.
Register ==
    /\ pc = "register"
    /\ \/ /\ cmd.created
          /\ Rollback
          /\ UNCHANGED <<trust, files, slots, env>>
       \/ Refuse
       \/ LET cfg == ConnectedConfig(trust.reg.agents[cmd.id].cfg)
          IN Prepare(WithConfig(trust.reg, cmd.id, cfg), [i \in {cmd.id} |-> cfg], {}, {}, FALSE)

\* cleanup_retired_organizations_with_signing: a second transition drops the retired
\* credentials that no config refers to any more.
RetireCredentials ==
    /\ Running("connect")
    /\ cmd.stage = "saved"
    /\ LET old == trust.reg.agents[cmd.id].cfg
           cfg == [org |-> old.org, retired |-> {}]
           target == WithConfig(trust.reg, cmd.id, cfg)
       IN IF cmd.id \notin Configured(trust.reg) \/ old.retired = {}
          THEN Return("ok") /\ UNCHANGED <<trust, files, slots, env>>
          ELSE Prepare(target, [i \in {cmd.id} |-> cfg], {},
                       old.retired \ Referenced(target), FALSE)

-----------------------------------------------------------------------------

Recovered ==
    /\ Running("recover")
    /\ Return("ok")
    /\ UNCHANGED <<trust, files, slots, env>>

\* What a connect does next once a transition of it is complete.
NextStage ==
    CASE cmd.stage = "resolve" /\ cmd.id # Absent /\ cmd.org = Absent -> "resolve"
      [] cmd.stage = "resolve" /\ cmd.org = Absent -> "typed"
      [] cmd.org # Absent /\ cmd.stage # "saved" -> "saved"
      [] OTHER -> "retired"

Complete ==
    /\ pc = "committed"
    /\ IF cmd.op = "connect" /\ cmd.stage # "saved"
       THEN /\ cmd' = [cmd EXCEPT !.stage = NextStage, !.done = @ + 1,
                                  !.id = IF cmd.org = Absent THEN Absent ELSE @]
            /\ mode' = "recovery"
            /\ mem' = Absent
            /\ Goto("body")
            /\ UNCHANGED last
       ELSE Return(IF cmd.op = "purge" THEN "purged" ELSE "ok")
    /\ UNCHANGED <<trust, files, slots, env>>

Bodies ==
    \/ RefuseUnverified \/ Recovered \/ Complete
    \/ Rename \/ SetDefault \/ Delete \/ PurgeProfile \/ Purge
    \/ Create \/ SetX25519 \/ SetEd25519 \/ InitializeAuthorization
    \/ ConnectCreate \/ ConnectType \/ ConnectCredential \/ SetOrganizationKey
    \/ Register \/ RetireCredentials

\* One step of the process that holds the lock.
HolderStep == Recover \/ Apply \/ FinishPurge \/ Commit(Leased) \/ Bodies

Init ==
    /\ trust = NoTrust
    /\ journal = Absent /\ regFile = Absent
    /\ cfgFile = [i \in Ids |-> Absent]
    /\ dirs = {} /\ litter = {} /\ strays = {} /\ root = FALSE
    /\ xKey = {} /\ eKey = {} /\ orgKey = [o \in Orgs |-> Absent]
    /\ host = {} /\ crashes = 0
    /\ pc = "idle" /\ mode = "recovery" /\ cmd = Absent /\ mem = Absent
    /\ last = "ok"

Next ==
    \/ \E c \in Commands : Begin(c)
    \/ HolderStep
    \/ Crash
    \/ ProvisionHost
    \/ HostSocket

\* A process that holds the lock keeps going, and commands keep being run.
Fairness == WF_vars(HolderStep) /\ WF_vars(\E c \in Commands : Begin(c))

Spec == Init /\ [][Next]_vars /\ Fairness

-----------------------------------------------------------------------------
(* Properties. *)

TypeOK ==
    /\ trust.kind \in TrustKinds /\ trust.gen \in 0 .. MaxGeneration
    /\ trust.alloc \subseteq Ids \union Orgs
    /\ \A i \in Agents(trust.reg) : i \in Ids /\ trust.reg.agents[i] \in Entry
    /\ dirs \subseteq Ids /\ litter \subseteq dirs /\ strays \subseteq {"tmp", "sock"}
    /\ cfgFile \in [Ids -> Config \union {Absent}]
    /\ xKey \subseteq Ids /\ eKey \subseteq Ids
    /\ orgKey \in [Orgs -> Keys \union {Absent}]
    /\ host \subseteq {"token", "key"}
    /\ crashes \in 0 .. MaxCrashes
    /\ pc \in Steps /\ mode \in {"recovery", "rollback", "commit"}
    /\ last \in {"ok", "purged", "error", "crash"}

\* The registry a crash at this moment would recover to.
Effective == IF trust.kind = "Transition" THEN trust.j.target ELSE trust.reg

\* A durable marker is never without the journal it names: commit_transition saves
\* the journal first, and removes it only after the trust state is committed.
MarkerHasJournal == trust.kind = "Transition" => journal = trust.j

\* Whatever crash came before, the registry and config files that a command finds
\* after recovery are the ones the trust state was written for.
RecoveredStateVerifies == pc = "body" => Verified \/ trust.kind = "Absent"

\* Every profile the store stands for can be used: both identity keys are there, and
\* so is every organization credential that a config refers to.
SecretsComplete ==
    /\ Agents(Effective) \subseteq xKey \intersect eKey
    /\ Referenced(Effective) \subseteq StoredOrgs

\* No key outlives its profile unnoticed: whatever is in the secure store belongs to
\* the registry, to a recorded allocation, or to a journal that will delete it.
NoOrphanSecrets ==
    xKey \union eKey \union StoredOrgs
        \subseteq Owners(Effective) \union trust.alloc
                  \union (IF trust.kind = "Transition" THEN trust.j.dels ELSE {})

\* No identity directory outlives its profile either.
NoOrphanDirectories ==
    dirs \subseteq Agents(Effective)
                   \union (IF trust.kind = "Transition" THEN trust.j.rmdirs ELSE {})

\* connect stores an API key once, however many profiles use it and whatever crashed.
OneCredentialPerKey ==
    \A o, p \in Referenced(Effective) : orgKey[o] = orgKey[p] => o = p

\* A profile can always be removed again: its config never lists the credential in use
\* as retired, which would make the deletions of its removal an invalid journal, and
\* while there are profiles the default is one of them, which purge has to resolve.
StaysRemovable ==
    /\ \A i \in Configured(Effective) :
           Effective.agents[i].cfg.org \notin Effective.agents[i].cfg.retired
    /\ Agents(Effective) # {} => Effective.default \in NamesOf(Effective)

\* Recovery never gives up: no check in recover_pending_operations_locked,
\* apply_journal or finish_purge refuses a state that crashes led to, in a root
\* without temporary files and sockets.
RecoverySteps ==
    {"recover", "bootRegistry", "repair", "dropJournal", "preflight", "configs", "registry",
     "validate", "delete", "rmdirs", "finish", "rmJournal", "purgeFiles", "purgeJournal",
     "purgeRoot", "purgeTrust", "purgeToken", "purgeKey"}

RecoveryNeverRefuses ==
    [][(pc \in RecoverySteps /\ pc' = "idle") => last' = "crash"]_vars

\* A purge that reports success left nothing: no root, no trust state, no key and no
\* browser host credential.
PurgeLeavesNothing ==
    [][pc = "committed" /\ pc' = "idle" /\ last' = "purged" =>
          /\ trust = NoTrust /\ ~root /\ dirs = {} /\ strays = {} /\ host = {}
          /\ SlotsGone(Ids \union Orgs)]_vars

\* A commit is done once: no generation is used for two registries, and the registry
\* only changes together with the generation.
GenerationsAdvance ==
    [][trust'.kind # "Absent" /\ trust.kind # "Absent" =>
          /\ trust'.gen \in {trust.gen, trust.gen + 1}
          /\ trust'.gen = trust.gen => trust'.reg = trust.reg]_vars

\* An interrupted command is finished or undone: once commands are run again, the
\* trust state gets back to a committed one.
RecoveryCompletes ==
    trust.kind \in {"Allocating", "Transition", "PurgeCommitted"}
        ~> trust.kind \in {"Committed", "Absent"}

\* The commands implement the atomic store of ProfileStore; a transition takes effect
\* with its marker.
Atomic == INSTANCE ProfileStore WITH
    profiles  <- [n \in NamesOf(Effective) |-> CHOOSE i \in Named(Effective, n) : TRUE],
    default   <- Effective.default,
    connected <- [i \in Configured(Effective) |-> Effective.agents[i].cfg.org],
    version   <- IF trust.kind = "Transition" THEN trust.gen + 1 ELSE trust.gen,
    running   <- IF cmd = Absent THEN Absent
                 ELSE [op |-> cmd.op, name |-> cmd.name, arg |-> cmd.arg],
    effects   <- IF cmd = Absent THEN 0 ELSE cmd.done + (IF mode = "commit" THEN 1 ELSE 0),
    reply     <- last

\* Every step of the commands, crashes and recoveries included, is a step of the
\* atomic store or changes nothing in it.
ImplementsStore == Atomic!StoreSpec
=============================================================================
