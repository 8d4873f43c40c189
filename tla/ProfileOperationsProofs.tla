----------------------- MODULE ProfileOperationsProofs ----------------------
(***************************************************************************)
(* No profile command, crash or recovery loses or leaks a key, for any     *)
(* number of names, identities, credentials, generations and crashes.      *)
(***************************************************************************)
EXTENDS ProfileOperations, TLAPS

-----------------------------------------------------------------------------
(* The inductive invariant. *)

Stored == xKey \union eKey \union StoredOrgs

\* Every secret a registry stands for is in the store.
Backed(reg) ==
    /\ Agents(reg) \subseteq xKey \intersect eKey
    /\ Referenced(reg) \subseteq StoredOrgs

UniqueNames(reg) ==
    \A i, j \in Agents(reg) : reg.agents[i].name = reg.agents[j].name => i = j

Doomed == IF trust.kind = "Transition" THEN trust.j.dels ELSE {}

SlotTypes ==
    /\ xKey \subseteq Ids /\ eKey \subseteq Ids
    /\ orgKey \in [Orgs -> Keys \union {Absent}]

Ops == {"create", "setDefault", "delete", "purgeProfile", "rename", "connect", "purge", "recover"}
Stages == {"resolve", "typed", "saved", "retired"}

CommandType ==
    [op : Ops, name : Names, arg : Keys \union Names \union {Absent}, typed : BOOLEAN,
     stage : Stages, id : Ids \union {Absent}, org : Orgs \union {Absent},
     created : BOOLEAN, done : Nat]

CommandTypes ==
    pc # "idle" => cmd \in CommandType /\ (cmd.op = "connect" => cmd.arg \in Keys)

\* Which trust state the holder of the lock works under.
Phases ==
    /\ pc \in {"bootRegistry", "repair", "dropJournal"} => trust.kind = "Committed"
    /\ pc \in {"unalloc", "setX", "setE", "initAuth", "setOrg"} => trust.kind = "Allocating"
    /\ pc \in {"save", "seal", "mark", "register"} => trust.kind \in {"Committed", "Allocating"}
    /\ pc = "register" /\ cmd.created => trust.kind = "Allocating"
    /\ pc \in {"seal", "mark"} => journal = mem
    /\ pc \in {"preflight", "configs", "registry", "validate", "delete", "rmdirs", "finish"} =>
           trust.kind = "Transition" /\ mem = trust.j
    /\ pc = "rmJournal" =>
           trust.kind = IF mem.purge THEN "PurgeCommitted" ELSE "Committed"
    /\ pc \in {"purgeFiles", "purgeJournal", "purgeRoot", "purgeTrust"} =>
           trust.kind = "PurgeCommitted"
    /\ pc \in {"purgeToken", "purgeKey"} => trust.kind = "Absent"
    /\ pc \in {"body", "committed"} => trust.kind \in {"Committed", "Absent"}

\* What each trust state carries.
Kinds ==
    /\ trust.kind \in TrustKinds
    /\ trust.kind # "Allocating" => trust.alloc = {}
    /\ trust.kind = "Absent" => trust = NoTrust
    /\ trust.kind = "Allocating" => trust.alloc \intersect Owners(trust.reg) = {}
    /\ trust.kind = "PurgeCommitted" => Agents(trust.reg) = {}
    /\ trust.kind = "Transition" =>
           journal = trust.j /\ (trust.j.purge => Agents(trust.j.target) = {})

\* A planned transition accounts for everything that is stored.
Plans ==
    pc \in {"save", "seal", "mark"} =>
        /\ Backed(mem.target)
        /\ Owners(trust.reg) \union trust.alloc \subseteq Owners(mem.target) \union mem.dels
        /\ mem.purge => Agents(mem.target) = {}
        /\ UniqueNames(mem.target)

\* What a command that allocates has recorded and stored so far.
Allocations ==
    /\ pc \in {"setX", "setE", "initAuth"} => cmd.id \in Ids /\ trust.alloc = {cmd.id}
    /\ pc \in {"setX", "setE", "initAuth"} => ~Taken(cmd.name)
    /\ pc \in {"setE", "initAuth"} => cmd.id \in xKey
    /\ pc = "initAuth" => cmd.id \in eKey
    /\ pc \in {"setOrg", "register"} => cmd.id \in Agents(trust.reg)
    /\ pc = "setOrg" => cmd.org \in Orgs /\ cmd.arg \in Keys /\ trust.alloc = {cmd.org}
    /\ pc = "register" => cmd.org \in StoredOrgs /\ trust.alloc \subseteq {cmd.org}

\* Deletions are over before the transition is finished.
Deleted == pc \in {"rmdirs", "finish"} => SlotsGone(trust.j.dels)

Secrets ==
    /\ Backed(Effective) /\ UniqueNames(Effective)
    /\ Stored \subseteq Owners(Effective) \union trust.alloc \union Doomed

IInv ==
    /\ SlotTypes /\ CommandTypes /\ Phases /\ Kinds /\ Plans
    /\ Allocations /\ Deleted /\ Secrets

-----------------------------------------------------------------------------
(* Steps that leave the trust state and the slots alone. *)

\* The conjuncts that are not about the holder of the lock are kept.
LEMMA Quiet ==
    ASSUME IInv, UNCHANGED <<trust, slots>>, trust.kind = "Transition" => journal' = journal
    PROVE  SlotTypes' /\ Kinds' /\ Secrets'
<1>1. xKey' = xKey /\ eKey' = eKey /\ orgKey' = orgKey /\ trust' = trust
  BY DEF slots
<1>2. SlotTypes'
  BY <1>1 DEF IInv, SlotTypes
<1>3. Kinds'
  BY <1>1 DEF IInv, Kinds
<1>4. Secrets'
  BY <1>1 DEF IInv, Secrets, Backed, Effective, Doomed, Stored, StoredOrgs
<1>5. QED
  BY <1>2, <1>3, <1>4

\* Ending a command keeps the invariant.
LEMMA Ended ==
    ASSUME IInv, UNCHANGED <<trust, slots>>, pc' = "idle",
           trust.kind = "Transition" => journal' = journal
    PROVE  IInv'
<1>1. SlotTypes' /\ Kinds' /\ Secrets'
  BY Quiet
<1>2. CommandTypes' /\ Phases' /\ Plans' /\ Allocations' /\ Deleted'
  BY DEF CommandTypes, Phases, Plans, Allocations, Deleted
<1>3. QED
  BY <1>1, <1>2 DEF IInv

Planning == {"save", "seal", "mark"}
Storing == {"setX", "setE", "initAuth", "setOrg", "register"}
Removing == {"rmdirs", "finish"}

\* Elsewhere only the phase has to be looked at.
LEMMA Moved ==
    ASSUME IInv, UNCHANGED <<trust, slots, cmd>>, pc # "idle",
           trust.kind = "Transition" => journal' = journal,
           pc' \notin Planning \union Storing \union Removing,
           Phases'
    PROVE  IInv'
<1>1. SlotTypes' /\ Kinds' /\ Secrets'
  BY Quiet
<1>2. CommandTypes'
  BY DEF IInv, CommandTypes
<1>3. Plans' /\ Allocations' /\ Deleted'
  BY DEF Plans, Allocations, Deleted, Planning, Storing, Removing
<1>4. QED
  BY <1>1, <1>2, <1>3 DEF IInv

-----------------------------------------------------------------------------
(* Initially *)

LEMMA InitIInv == Init => IInv
<1> SUFFICES ASSUME Init PROVE IInv
  OBVIOUS
<1> USE DEF Init
<1>1. StoredOrgs = {}
  BY DEF StoredOrgs
<1>2. Agents(EmptyRegistry) = {}
  BY DEF Agents, EmptyRegistry
<1>3. Referenced(EmptyRegistry) = {}
  BY <1>2 DEF Referenced, Configured
<1>4. SlotTypes /\ CommandTypes
  BY DEF SlotTypes, CommandTypes
<1>5. Phases /\ Plans /\ Allocations /\ Deleted
  BY DEF Phases, Plans, Allocations, Deleted
<1>6. Kinds
  BY DEF Kinds, NoTrust, Trust, TrustKinds
<1>7. Secrets
  BY <1>1, <1>2, <1>3 DEF Secrets, Backed, UniqueNames, Effective, Doomed, Stored, NoTrust, Trust
<1>8. QED
  BY <1>4, <1>5, <1>6, <1>7 DEF IInv

-----------------------------------------------------------------------------
(* recover_pending_operations_locked *)

LEMMA NoSecretsAtFirst ==
    /\ Agents(EmptyRegistry) = {} /\ Referenced(EmptyRegistry) = {}
    /\ UniqueNames(EmptyRegistry)
  BY DEF Agents, EmptyRegistry, Referenced, Configured, UniqueNames

\* Deleting slots keeps what belongs to nobody.
LEMMA SlotDeleted ==
    ASSUME IInv, NEW owners, DeleteSlot(owners)
    PROVE  /\ SlotTypes'
           /\ Stored' \subseteq Stored
           /\ Stored \ owners \subseteq Stored'
           /\ xKey \ owners \subseteq xKey' /\ eKey \ owners \subseteq eKey'
           /\ StoredOrgs \ owners \subseteq StoredOrgs'
<1>1. SlotTypes
  BY DEF IInv
<1>2. CASE \E i \in owners \intersect xKey :
              xKey' = xKey \ {i} /\ UNCHANGED <<eKey, orgKey>>
  BY <1>1, <1>2 DEF SlotTypes, Stored, StoredOrgs
<1>3. CASE \E i \in (owners \intersect eKey) \ xKey :
              eKey' = eKey \ {i} /\ UNCHANGED <<xKey, orgKey>>
  BY <1>1, <1>3 DEF SlotTypes, Stored, StoredOrgs
<1>4. CASE \E o \in owners \intersect Orgs :
              /\ orgKey[o] # Absent
              /\ orgKey' = [orgKey EXCEPT ![o] = Absent]
              /\ UNCHANGED <<xKey, eKey>>
  <2>1. PICK o \in owners \intersect Orgs : 
              /\ orgKey' = [orgKey EXCEPT ![o] = Absent]
              /\ UNCHANGED <<xKey, eKey>>
    BY <1>4, Zenon
  <2>2. StoredOrgs' = StoredOrgs \ {o}
    BY <1>1, <2>1 DEF SlotTypes, StoredOrgs
  <2>3. SlotTypes'
    BY <1>1, <2>1 DEF SlotTypes
  <2>4. QED
    BY <2>1, <2>2, <2>3 DEF Stored
<1>5. QED
  BY <1>2, <1>3, <1>4 DEF DeleteSlot

LEMMA RecoverStep ==
    ASSUME IInv, Recover
    PROVE  IInv'
<1>1. CASE BootstrapTrust
  <2>1. CASE Refuse
    BY <2>1, Ended DEF Refuse, Return, files
  <2>2. CASE ~Refuse
    <3>1. /\ trust = NoTrust /\ trust' = Committed(0, EmptyRegistry)
          /\ pc = "recover" /\ pc' = "bootRegistry" /\ UNCHANGED <<files, slots, cmd, mem>>
      BY <1>1, <2>2 DEF BootstrapTrust, Goto, Stay, IInv, Kinds
    <3>2. SlotTypes' /\ CommandTypes'
      BY <3>1 DEF IInv, SlotTypes, CommandTypes, slots
    <3>3. Phases' /\ Plans' /\ Allocations' /\ Deleted'
      BY <3>1 DEF Phases, Plans, Allocations, Deleted, Committed, Trust
    <3>4. Kinds'
      BY <3>1 DEF Kinds, Committed, Trust, TrustKinds
    <3>5. Secrets'
      BY <3>1 DEF IInv, Secrets, Backed, Effective, Doomed, Stored, StoredOrgs, NoTrust,
                  Committed, Trust, slots
    <3>6. QED
      BY <3>2, <3>3, <3>4, <3>5 DEF IInv
  <2>3. QED
    BY <2>1, <2>2
<1>2. CASE BootstrapRegistry
  <2>1. Phases'
    BY <1>2 DEF BootstrapRegistry, Goto, Stay, IInv, Phases
  <2>2. QED
    BY <1>2, <2>1, Moved DEF BootstrapRegistry, Goto, Stay, Planning, Storing, Removing
<1>3. CASE RecoverCommitted
  <2>1. Phases'
    BY <1>3 DEF RecoverCommitted, Goto, Stay, IInv, Phases
  <2>2. QED
    BY <1>3, <2>1, Moved DEF RecoverCommitted, Goto, Stay, Planning, Storing, Removing
<1>4. CASE RepairRegistry
  <2>1. CASE Refuse
    BY <2>1, Ended DEF Refuse, Return, files
  <2>2. CASE ~Refuse
    <3>1. /\ pc = "repair" /\ pc' = "body" /\ UNCHANGED <<trust, journal, slots, cmd, mem>>
      BY <1>4, <2>2 DEF RepairRegistry, Goto, Stay, files
    <3>2. Phases'
      BY <3>1 DEF IInv, Phases
    <3>3. QED
      BY <3>1, <3>2, Moved DEF Planning, Storing, Removing
  <2>3. QED
    BY <2>1, <2>2
<1>5. CASE RecoverAllocating
  <2>1. Phases'
    BY <1>5 DEF RecoverAllocating, Goto, Stay, IInv, Phases
  <2>2. QED
    BY <1>5, <2>1, Moved DEF RecoverAllocating, Goto, Stay, Planning, Storing, Removing, files
<1>6. CASE DeleteAllocation
  <2>1. /\ DeleteSlot(trust.alloc) /\ pc = "unalloc" /\ trust.kind = "Allocating"
        /\ UNCHANGED <<trust, files, pc, cmd, mem>>
    BY <1>6 DEF DeleteAllocation, Stay, IInv, Phases
  <2>2. /\ SlotTypes' /\ Stored' \subseteq Stored
        /\ xKey \ trust.alloc \subseteq xKey' /\ eKey \ trust.alloc \subseteq eKey'
        /\ StoredOrgs \ trust.alloc \subseteq StoredOrgs'
    BY <2>1, SlotDeleted
  <2>3. CommandTypes' /\ Phases' /\ Kinds'
    BY <2>1 DEF IInv, CommandTypes, Phases, Kinds, files
  <2>4. Plans' /\ Allocations' /\ Deleted'
    BY <2>1 DEF Plans, Allocations, Deleted
  <2>5. Effective = trust.reg /\ Effective' = trust.reg /\ Doomed = {} /\ Doomed' = {}
    BY <2>1 DEF Effective, Doomed
  <2>6. trust.alloc \intersect Owners(trust.reg) = {}
    BY <2>1 DEF IInv, Kinds
  <2>7. Backed(Effective)'
    BY <2>2, <2>5, <2>6 DEF IInv, Secrets, Backed, Owners
  <2>8. Secrets'
    BY <2>1, <2>2, <2>5, <2>7 DEF IInv, Secrets
  <2>9. QED
    BY <2>2, <2>3, <2>4, <2>8 DEF IInv
<1>7. CASE CommitUnallocated
  <2>1. /\ pc = "unalloc" /\ trust.kind = "Allocating" /\ SlotsGone(trust.alloc)
        /\ trust' = Committed(trust.gen, trust.reg) /\ UNCHANGED <<files, slots>>
        /\ pc' \in {"idle", "dropJournal"}
        /\ pc' # "idle" => UNCHANGED cmd
    BY <1>7 DEF CommitUnallocated, Goto, Return, Stay, IInv, Phases
  <2>2. SlotTypes'
    BY <2>1 DEF IInv, SlotTypes, slots
  <2>3. CommandTypes' /\ Plans' /\ Allocations' /\ Deleted'
    BY <2>1 DEF IInv, CommandTypes, Plans, Allocations, Deleted
  <2>4. Phases' /\ Kinds'
    BY <2>1 DEF Phases, Kinds, Committed, Trust, TrustKinds
  <2>5. Secrets'
    BY <2>1 DEF IInv, Secrets, Backed, Effective, Doomed, Stored, StoredOrgs, SlotsGone,
                Committed, Trust, slots
  <2>6. QED
    BY <2>2, <2>3, <2>4, <2>5 DEF IInv
<1>8. CASE DropJournal
  <2>1. Phases'
    BY <1>8 DEF DropJournal, Goto, Stay, IInv, Phases
  <2>2. trust.kind = "Committed"
    BY <1>8 DEF DropJournal, IInv, Phases
  <2>3. QED
    BY <1>8, <2>1, <2>2, Moved DEF DropJournal, Goto, Stay, Planning, Storing, Removing
<1>9. CASE RecoverTransition
  <2>1. CASE Refuse
    BY <2>1, Ended DEF Refuse, Return, files
  <2>2. CASE ~Refuse
    <3>1. /\ pc = "recover" /\ pc' = "preflight" /\ UNCHANGED <<trust, journal, slots, cmd>>
          /\ trust.kind = "Transition" /\ mem' = trust.j
      BY <1>9, <2>2 DEF RecoverTransition, Goto, files
    <3>2. Phases'
      BY <3>1 DEF Phases
    <3>3. QED
      BY <3>1, <3>2, Moved DEF Planning, Storing, Removing
  <2>3. QED
    BY <2>1, <2>2
<1>10. CASE RecoverPurge
  <2>1. Phases'
    BY <1>10 DEF RecoverPurge, Goto, Stay, Phases
  <2>2. QED
    BY <1>10, <2>1, Moved DEF RecoverPurge, Goto, Stay, Planning, Storing, Removing, files
<1>11. QED
  BY <1>1, <1>2, <1>3, <1>4, <1>5, <1>6, <1>7, <1>8, <1>9, <1>10 DEF Recover

-----------------------------------------------------------------------------
(* apply_journal and finish_purge *)

LEMMA ApplyStep ==
    ASSUME IInv, Apply
    PROVE  IInv'
<1>1. CASE Preflight
  <2>1. CASE Refuse
    BY <2>1, Ended DEF Refuse, Return, files
  <2>2. CASE ~Refuse
    <3>1. pc = "preflight" /\ pc' = "configs" /\ UNCHANGED <<trust, journal, slots, cmd, mem>>
      BY <1>1, <2>2 DEF Preflight, Goto, Stay, files
    <3>2. Phases'
      BY <3>1 DEF IInv, Phases
    <3>3. QED
      BY <3>1, <3>2, Moved DEF Planning, Storing, Removing
  <2>3. QED
    BY <2>1, <2>2
<1>2. CASE SaveConfig
  <2>1. Phases'
    BY <1>2 DEF SaveConfig, Goto, Stay, IInv, Phases
  <2>2. QED
    BY <1>2, <2>1, Moved DEF SaveConfig, Goto, Stay, Planning, Storing, Removing, files
<1>3. CASE ConfigsSaved
  <2>1. Phases'
    BY <1>3 DEF ConfigsSaved, Goto, Stay, IInv, Phases
  <2>2. QED
    BY <1>3, <2>1, Moved DEF ConfigsSaved, Goto, Stay, Planning, Storing, Removing, files
<1>4. CASE SaveRegistry
  <2>1. Phases'
    BY <1>4 DEF SaveRegistry, Goto, Stay, IInv, Phases
  <2>2. QED
    BY <1>4, <2>1, Moved DEF SaveRegistry, Goto, Stay, Planning, Storing, Removing, files
<1>5. CASE Validate
  <2>1. CASE Refuse
    BY <2>1, Ended DEF Refuse, Return, files
  <2>2. CASE ~Refuse
    <3>1. pc = "validate" /\ pc' = "delete" /\ UNCHANGED <<trust, journal, slots, cmd, mem>>
      BY <1>5, <2>2 DEF Validate, Goto, Stay, files
    <3>2. Phases'
      BY <3>1 DEF IInv, Phases
    <3>3. QED
      BY <3>1, <3>2, Moved DEF Planning, Storing, Removing
  <2>3. QED
    BY <2>1, <2>2
<1>6. CASE DeleteSecrets
  <2> DEFINE owners == mem.dels \ Owners(mem.target)
  <2>1. CASE Refuse
    BY <2>1, Ended DEF Refuse, Return, files
  <2>2. CASE DeleteSlot(owners) /\ Stay /\ UNCHANGED <<pc, trust, files, env>>
    <3>1. /\ pc = "delete" /\ pc' = "delete" /\ trust.kind = "Transition" /\ mem = trust.j
          /\ UNCHANGED <<trust, journal, cmd, mem>>
      BY <1>6, <2>2 DEF DeleteSecrets, Stay, IInv, Phases, files
    <3>2. /\ SlotTypes' /\ Stored' \subseteq Stored
          /\ xKey \ owners \subseteq xKey' /\ eKey \ owners \subseteq eKey'
          /\ StoredOrgs \ owners \subseteq StoredOrgs'
      BY <2>2, SlotDeleted
    <3>3. CommandTypes' /\ Phases' /\ Kinds'
      BY <3>1 DEF IInv, CommandTypes, Phases, Kinds
    <3>4. Plans' /\ Allocations' /\ Deleted'
      BY <3>1 DEF Plans, Allocations, Deleted
    <3>5. Effective = mem.target /\ Effective' = mem.target /\ Doomed' = Doomed
      BY <3>1 DEF Effective, Doomed
    <3>6. Backed(Effective)'
      BY <3>2, <3>5 DEF IInv, Secrets, Backed, Owners
    <3>7. Secrets'
      BY <3>1, <3>2, <3>5, <3>6 DEF IInv, Secrets
    <3>8. QED
      BY <3>2, <3>3, <3>4, <3>7 DEF IInv
  <2>3. CASE SlotsGone(mem.dels) /\ Goto("rmdirs") /\ Stay /\ UNCHANGED <<trust, files, slots, env>>
    <3>1. /\ pc = "delete" /\ pc' = "rmdirs" /\ trust.kind = "Transition" /\ mem = trust.j
          /\ UNCHANGED <<trust, journal, cmd, mem, slots>>
      BY <1>6, <2>3 DEF DeleteSecrets, Stay, Goto, IInv, Phases, files
    <3>2. SlotTypes' /\ Kinds' /\ Secrets'
      BY <3>1, Quiet
    <3>3. Deleted'
      BY <2>3, <3>1 DEF Deleted, SlotsGone, StoredOrgs, slots
    <3>4. CommandTypes' /\ Phases' /\ Plans' /\ Allocations'
      BY <3>1, Zenon DEF IInv, CommandTypes, Phases, Plans, Allocations
    <3>5. QED
      BY <3>2, <3>3, <3>4 DEF IInv
  <2>4. QED
    BY <1>6, <2>1, <2>2, <2>3 DEF DeleteSecrets
<1>7. CASE RemoveDirectories
  <2>1. CASE Refuse
    BY <2>1, Ended DEF Refuse, Return, files
  <2>2. CASE ~Refuse
    <3>1. /\ pc = "rmdirs" /\ pc' \in {"rmdirs", "finish"}
          /\ UNCHANGED <<trust, journal, cmd, mem, slots>>
      BY <1>7, <2>2, Zenon DEF RemoveDirectories, Stay, Goto, files
    <3>2. SlotTypes' /\ Kinds' /\ Secrets'
      BY <3>1, Quiet
    <3>3. Deleted'
      BY <3>1 DEF IInv, Deleted, SlotsGone, StoredOrgs, slots
    <3>4. CommandTypes' /\ Phases' /\ Plans' /\ Allocations'
      BY <3>1 DEF IInv, CommandTypes, Phases, Plans, Allocations
    <3>5. QED
      BY <3>2, <3>3, <3>4 DEF IInv
  <2>3. QED
    BY <2>1, <2>2
<1>8. CASE FinishTransition
  <2>1. /\ pc = "finish" /\ pc' = "rmJournal" /\ trust.kind = "Transition" /\ mem = trust.j
        /\ UNCHANGED <<files, slots, cmd, mem>>
        /\ trust' = IF mem.purge THEN PurgeCommitted(mem.from + 1, mem.target)
                                 ELSE Committed(mem.from + 1, mem.target)
    BY <1>8 DEF FinishTransition, Goto, Stay, IInv, Phases
  <2>2. SlotTypes' /\ CommandTypes'
    BY <2>1 DEF IInv, SlotTypes, CommandTypes, slots
  <2>3. Phases' /\ Plans' /\ Allocations' /\ Deleted'
    BY <2>1 DEF Phases, Plans, Allocations, Deleted, PurgeCommitted, Committed, Trust
  <2>4. mem.purge => Agents(mem.target) = {}
    BY <2>1 DEF IInv, Kinds
  <2>5. Kinds'
    BY <2>1, <2>4, Zenon DEF Kinds, PurgeCommitted, Committed, Trust, TrustKinds
  <2>6. SlotsGone(mem.dels)
    BY <2>1 DEF IInv, Deleted
  <2>7. Effective = mem.target /\ Effective' = mem.target /\ Doomed = mem.dels /\ Doomed' = {}
        /\ trust.alloc = {} /\ trust'.alloc = {}
    BY <2>1 DEF Effective, Doomed, PurgeCommitted, Committed, Trust, IInv, Kinds
  <2>8. Secrets'
    BY <2>1, <2>6, <2>7 DEF IInv, Secrets, Backed, Stored, StoredOrgs, SlotsGone, slots
  <2>9. QED
    BY <2>2, <2>3, <2>5, <2>8 DEF IInv
<1>9. CASE RemoveJournal
  <2>1. /\ pc = "rmJournal" /\ pc' \in {"purgeFiles", "committed", "body"}
        /\ mem.purge <=> pc' = "purgeFiles"
        /\ UNCHANGED <<trust, slots, cmd>>
    BY <1>9 DEF RemoveJournal, Goto, Stay, Continue
  <2>2. trust.kind \in {"Committed", "PurgeCommitted"} /\ Phases'
    BY <2>1 DEF IInv, Phases
  <2>3. QED
    BY <2>1, <2>2, Moved DEF Planning, Storing, Removing
<1>10. QED
  BY <1>1, <1>2, <1>3, <1>4, <1>5, <1>6, <1>7, <1>8, <1>9 DEF Apply

LEMMA FinishPurgeStep ==
    ASSUME IInv, FinishPurge
    PROVE  IInv'
<1>1. CASE PurgeFiles
  <2>1. CASE Refuse
    BY <2>1, Ended DEF Refuse, Return, files
  <2>2. CASE ~Refuse
    <3>1. /\ pc = "purgeFiles" /\ pc' \in {"purgeTrust", "purgeJournal"}
          /\ UNCHANGED <<trust, journal, slots, cmd, mem>>
      BY <1>1, <2>2 DEF PurgeFiles, Goto, Stay, files
    <3>2. Phases'
      BY <3>1 DEF IInv, Phases
    <3>3. QED
      BY <3>1, <3>2, Moved DEF Planning, Storing, Removing
  <2>3. QED
    BY <2>1, <2>2
<1>2. CASE PurgeJournal
  <2>1. Phases' /\ trust.kind = "PurgeCommitted"
    BY <1>2 DEF PurgeJournal, Goto, Stay, IInv, Phases
  <2>2. QED
    BY <1>2, <2>1, Moved DEF PurgeJournal, Goto, Stay, Planning, Storing, Removing
<1>3. CASE PurgeRoot
  <2>1. CASE Refuse
    BY <2>1, Ended DEF Refuse, Return, files
  <2>2. CASE ~Refuse
    <3>1. pc = "purgeRoot" /\ pc' = "purgeTrust" /\ UNCHANGED <<trust, journal, slots, cmd, mem>>
      BY <1>3, <2>2 DEF PurgeRoot, Goto, Stay, files
    <3>2. Phases'
      BY <3>1 DEF IInv, Phases
    <3>3. QED
      BY <3>1, <3>2, Moved DEF Planning, Storing, Removing
  <2>3. QED
    BY <2>1, <2>2
<1>4. CASE PurgeTrust
  <2>1. /\ pc = "purgeTrust" /\ pc' = "purgeToken" /\ trust.kind = "PurgeCommitted"
        /\ trust' = NoTrust /\ UNCHANGED <<files, slots, cmd, mem>>
    BY <1>4 DEF PurgeTrust, Goto, Stay, IInv, Phases
  <2>2. SlotTypes' /\ CommandTypes'
    BY <2>1 DEF IInv, SlotTypes, CommandTypes, slots
  <2>3. Phases' /\ Plans' /\ Allocations' /\ Deleted' /\ Kinds'
    BY <2>1, Zenon DEF Phases, Plans, Allocations, Deleted, Kinds, NoTrust, Trust, TrustKinds
  <2>4. Agents(trust.reg) = {} /\ Referenced(trust.reg) = {}
    BY <2>1 DEF IInv, Kinds, Referenced, Configured
  <2>5. Stored = {}
    BY <2>1, <2>4 DEF IInv, Secrets, Kinds, Effective, Doomed, Owners
  <2>6. Secrets'
    BY <2>1, <2>5, NoSecretsAtFirst
       DEF Secrets, Backed, Effective, Doomed, Stored, StoredOrgs, NoTrust, Trust, slots
  <2>7. QED
    BY <2>2, <2>3, <2>6 DEF IInv
<1>5. CASE PurgeToken
  <2>1. Phases'
    BY <1>5 DEF PurgeToken, Goto, Stay, IInv, Phases
  <2>2. QED
    BY <1>5, <2>1, Moved DEF PurgeToken, Goto, Stay, Planning, Storing, Removing, files
<1>6. CASE PurgeKey
  <2>1. Phases'
    BY <1>6 DEF PurgeKey, Goto, Stay, IInv, Phases, Continue
  <2>2. QED
    BY <1>6, <2>1, Moved DEF PurgeKey, Goto, Stay, Planning, Storing, Removing, files, Continue
<1>7. QED
  BY <1>1, <1>2, <1>3, <1>4, <1>5, <1>6 DEF FinishPurge

-----------------------------------------------------------------------------
(* Planning and marking a transition *)

LEMMA Planned ==
    ASSUME IInv, pc # "idle", trust.kind \in {"Committed", "Allocating"},
           NEW target, NEW writes, NEW rmdirs, NEW dels, NEW purge,
           Backed(target), UniqueNames(target),
           Owners(trust.reg) \union trust.alloc \subseteq Owners(target) \union dels,
           Prepare(target, writes, rmdirs, dels, purge)
    PROVE  IInv'
<1>1. CASE Refuse
  BY <1>1, Ended DEF Refuse, Return, files
<1>2. CASE ~Refuse
  <2> DEFINE j == [from |-> trust.gen, target |-> target, writes |-> writes,
                   rmdirs |-> rmdirs, dels |-> dels, purge |-> purge]
  <2>1. /\ mem' = j /\ ValidJournal(j) /\ pc' = "save"
        /\ UNCHANGED <<cmd, trust, journal, slots>>
    BY <1>2 DEF Prepare, Goto, files
  <2>2. SlotTypes' /\ Kinds' /\ Secrets'
    BY <2>1, Quiet
  <2>3. CommandTypes' /\ Phases' /\ Allocations' /\ Deleted'
    BY <2>1, Zenon DEF IInv, CommandTypes, Phases, Allocations, Deleted
  <2>4. mem'.target = target /\ mem'.dels = dels /\ mem'.purge = purge
    BY <2>1, Zenon
  <2>5. purge => Agents(target) = {}
    BY <2>1, Zenon DEF ValidJournal
  <2>6. Backed(mem.target)'
    BY <2>1, <2>4, Zenon DEF Backed, StoredOrgs, slots
  <2>7. Plans'
    BY <2>1, <2>4, <2>5, <2>6 DEF Plans
  <2>8. QED
    BY <2>2, <2>3, <2>7 DEF IInv
<1>3. QED
  BY <1>1, <1>2

LEMMA PlanKept ==
    ASSUME IInv, pc \in Planning, pc' \in Planning, UNCHANGED <<trust, slots, mem, cmd>>,
           pc' \in {"seal", "mark"} => journal' = mem
    PROVE  IInv'
<1>1. trust.kind \in {"Committed", "Allocating"}
  BY DEF IInv, Phases, Planning
<1>2. SlotTypes' /\ Kinds' /\ Secrets'
  BY <1>1, Quiet
<1>3. CommandTypes' /\ Phases' /\ Allocations' /\ Deleted'
  BY <1>1 DEF IInv, CommandTypes, Phases, Allocations, Deleted, Planning
<1>4. Plans'
  BY DEF IInv, Plans, Backed, StoredOrgs, Planning, slots
<1>5. QED
  BY <1>2, <1>3, <1>4 DEF IInv

LEMMA CommitStep ==
    ASSUME IInv, NEW leased, Commit(leased)
    PROVE  IInv'
<1>1. CASE SaveJournal(leased)
  <2>1. CASE Refuse
    BY <2>1, Ended DEF Refuse, Return, files
  <2>2. CASE ~Refuse
    <3>1. /\ pc = "save" /\ pc' \in {"save", "seal"} /\ UNCHANGED <<trust, slots, mem, cmd>>
          /\ pc' = "seal" => journal' = mem
      BY <1>1, <2>2 DEF SaveJournal, Goto, Stay
    <3>2. QED
      BY <3>1, PlanKept DEF Planning
  <2>3. QED
    BY <2>1, <2>2
<1>2. CASE Seal(leased)
  <2>1. pc = "seal" /\ trust.kind # "Transition" /\ UNCHANGED <<trust, slots>>
    BY <1>2 DEF Seal, IInv, Phases
  <2>2. CASE pc' = "idle"
    BY <2>1, <2>2, Ended
  <2>3. CASE pc' # "idle"
    <3>1. pc' = "mark" /\ UNCHANGED <<journal, mem, cmd>>
      BY <1>2, <2>3 DEF Seal, Return, Goto, Stay, files
    <3>2. journal = mem
      BY <2>1 DEF IInv, Phases
    <3>3. QED
      BY <2>1, <3>1, <3>2, PlanKept DEF Planning
  <2>4. QED
    BY <2>2, <2>3
<1>3. CASE WriteMarker
  <2>1. /\ pc = "mark" /\ pc' = "preflight" /\ trust' = Transition(trust.gen, trust.reg, mem)
        /\ UNCHANGED <<cmd, mem, files, slots>>
        /\ trust.kind \in {"Committed", "Allocating"} /\ journal = mem
    BY <1>3 DEF WriteMarker, Goto, IInv, Phases
  <2>2. SlotTypes' /\ CommandTypes'
    BY <2>1 DEF IInv, SlotTypes, CommandTypes, slots
  <2>3. Phases' /\ Plans' /\ Allocations' /\ Deleted'
    BY <2>1 DEF Phases, Plans, Allocations, Deleted, Transition, Trust
  <2>4. /\ Backed(mem.target) /\ UniqueNames(mem.target)
        /\ Owners(trust.reg) \union trust.alloc \subseteq Owners(mem.target) \union mem.dels
        /\ mem.purge => Agents(mem.target) = {}
    BY <2>1 DEF IInv, Plans
  <2>5. Kinds'
    BY <2>1, <2>4, Zenon DEF Kinds, Transition, Trust, TrustKinds, files
  <2>6. Effective = trust.reg /\ Effective' = mem.target /\ Doomed = {} /\ Doomed' = mem.dels
        /\ trust'.alloc = {}
    BY <2>1 DEF Effective, Doomed, Transition, Trust
  <2>7. Backed(Effective)'
    BY <2>1, <2>4, <2>6 DEF Backed, StoredOrgs, slots
  <2>8. Stored' = Stored
    BY <2>1 DEF Stored, StoredOrgs, slots
  <2>9. Secrets'
    BY <2>4, <2>6, <2>7, <2>8 DEF IInv, Secrets
  <2>10. QED
    BY <2>2, <2>3, <2>5, <2>9 DEF IInv
<1>4. QED
  BY <1>1, <1>2, <1>3 DEF Commit

-----------------------------------------------------------------------------
(* The registry functions: whose secrets the result stands for. *)

LEMMA SameConfigs ==
    ASSUME NEW r, NEW s, Agents(r) = Agents(s),
           \A i \in Agents(r) : r.agents[i].cfg = s.agents[i].cfg
    PROVE  Referenced(r) = Referenced(s) /\ Owners(r) = Owners(s)
<1>1. Configured(r) = Configured(s)
  BY DEF Configured
<1>2. \A i \in Configured(r) : ConfigOrgs(r.agents[i].cfg) = ConfigOrgs(s.agents[i].cfg)
  BY DEF Configured
<1>3. Referenced(r) = Referenced(s)
  BY <1>1, <1>2 DEF Referenced
<1>4. QED
  BY <1>3 DEF Owners

LEMMA OwnConfig ==
    ASSUME NEW r, NEW i \in Agents(r), r.agents[i].cfg # NoConfig
    PROVE  ConfigOrgs(r.agents[i].cfg) \subseteq Referenced(r)
  BY DEF Referenced, Configured

\* What another registry refers to, given what each of its configs refers to.
LEMMA ReferencedWithin ==
    ASSUME NEW r, NEW S,
           \A i \in Agents(r) :
               r.agents[i].cfg # NoConfig => ConfigOrgs(r.agents[i].cfg) \subseteq S
    PROVE  Referenced(r) \subseteq S
  BY DEF Referenced, Configured

LEMMA RenameKeeps ==
    ASSUME NEW r, UniqueNames(r), NEW n, NEW m, Named(r, m) = {}
    PROVE  LET t == RenameProfile(r, n, m)
           IN Agents(t) = Agents(r) /\ Referenced(t) = Referenced(r)
              /\ Owners(t) = Owners(r) /\ UniqueNames(t)
<1> DEFINE t == RenameProfile(r, n, m)
<1>1. Agents(t) = Agents(r)
  BY DEF RenameProfile, Agents
<1>2. \A i \in Agents(r) : /\ t.agents[i].cfg = r.agents[i].cfg
                           /\ t.agents[i].name = IF r.agents[i].name = n THEN m ELSE r.agents[i].name
  BY DEF RenameProfile, Agents
<1>3. Referenced(t) = Referenced(r) /\ Owners(t) = Owners(r)
  BY <1>1, <1>2, SameConfigs
<1>4. \A i \in Agents(r) : r.agents[i].name # m
  BY DEF Named
<1>5. UniqueNames(t)
  BY <1>1, <1>2, <1>4 DEF UniqueNames
<1>6. QED
  BY <1>1, <1>3, <1>5

LEMMA AddKeeps ==
    ASSUME NEW r, UniqueNames(r), NEW n, Named(r, n) = {}, NEW i, i \notin Agents(r)
    PROVE  LET t == AddProfile(r, n, i)
           IN Agents(t) = Agents(r) \union {i} /\ Referenced(t) = Referenced(r) /\ UniqueNames(t)
<1> DEFINE t == AddProfile(r, n, i)
<1>1. Agents(t) = Agents(r) \union {i}
  BY DEF AddProfile, Agents
<1>2. /\ \A j \in Agents(r) : t.agents[j] = r.agents[j]
      /\ t.agents[i].name = n /\ t.agents[i].cfg = NoConfig
  BY DEF AddProfile, Agents
<1>3. Configured(t) = Configured(r)
  BY <1>1, <1>2 DEF Configured
<1>4. \A j \in Configured(r) : ConfigOrgs(t.agents[j].cfg) = ConfigOrgs(r.agents[j].cfg)
  BY <1>2 DEF Configured
<1>5. Referenced(t) = Referenced(r)
  BY <1>3, <1>4 DEF Referenced
<1>6. \A j \in Agents(r) : r.agents[j].name # n
  BY DEF Named
<1>7. UniqueNames(t)
  BY <1>1, <1>2, <1>6 DEF UniqueNames
<1>8. QED
  BY <1>1, <1>5, <1>7

\* A registry that keeps some of the agents as they are.
LEMMA FewerAgents ==
    ASSUME NEW r, UniqueNames(r), NEW t, Agents(t) \subseteq Agents(r),
           \A i \in Agents(t) : t.agents[i] = r.agents[i]
    PROVE  /\ Referenced(t) \subseteq Referenced(r) /\ UniqueNames(t)
           /\ \A i \in Agents(t) : r.agents[i].cfg # NoConfig =>
                  ConfigOrgs(r.agents[i].cfg) \subseteq Referenced(t)
<1>1. \A i \in Agents(t) : t.agents[i].cfg # NoConfig =>
          ConfigOrgs(t.agents[i].cfg) \subseteq Referenced(r)
  BY OwnConfig
<1>2. Referenced(t) \subseteq Referenced(r)
  BY <1>1, ReferencedWithin
<1>3. UniqueNames(t)
  BY DEF UniqueNames
<1>4. QED
  BY <1>2, <1>3, OwnConfig

\* Replacing one config.
LEMMA ConfigReplaced ==
    ASSUME NEW r, UniqueNames(r), NEW i \in Agents(r), NEW cfg \in Config
    PROVE  LET t == WithConfig(r, i, cfg)
           IN /\ Agents(t) = Agents(r) /\ UniqueNames(t)
              /\ Referenced(t) \subseteq Referenced(r) \union ConfigOrgs(cfg)
              /\ ConfigOrgs(cfg) \subseteq Referenced(t)
              /\ r.agents[i].cfg = NoConfig => Referenced(r) \subseteq Referenced(t)
              /\ r.agents[i].cfg # NoConfig =>
                     Referenced(r) \subseteq Referenced(t) \union ConfigOrgs(r.agents[i].cfg)
<1> DEFINE t == WithConfig(r, i, cfg)
<1>1. Agents(t) = Agents(r)
  BY DEF WithConfig, Agents
<1>2. /\ \A j \in Agents(r) \ {i} : t.agents[j] = r.agents[j]
      /\ t.agents[i].name = r.agents[i].name /\ t.agents[i].cfg = cfg
  BY DEF WithConfig, Agents
<1>3. UniqueNames(t)
  BY <1>1, <1>2 DEF UniqueNames
<1>4. cfg # NoConfig
  BY ConfigAssumption DEF NoConfig
<1>5. ConfigOrgs(cfg) \subseteq Referenced(t)
  BY <1>1, <1>2, <1>4, OwnConfig
<1>6. \A j \in Agents(t) : t.agents[j].cfg # NoConfig =>
          ConfigOrgs(t.agents[j].cfg) \subseteq Referenced(r) \union ConfigOrgs(cfg)
  BY <1>1, <1>2, OwnConfig
<1>7. Referenced(t) \subseteq Referenced(r) \union ConfigOrgs(cfg)
  BY <1>6, ReferencedWithin, Zenon
<1>8. \A j \in Agents(r) \ {i} : r.agents[j].cfg # NoConfig =>
          ConfigOrgs(r.agents[j].cfg) \subseteq Referenced(t)
  BY <1>1, <1>2, OwnConfig
<1>9. r.agents[i].cfg = NoConfig => Referenced(r) \subseteq Referenced(t)
  BY <1>8, ReferencedWithin
<1>10. r.agents[i].cfg # NoConfig =>
           Referenced(r) \subseteq Referenced(t) \union ConfigOrgs(r.agents[i].cfg)
  <2>1. \A j \in Agents(r) : r.agents[j].cfg # NoConfig =>
            ConfigOrgs(r.agents[j].cfg) \subseteq Referenced(t) \union ConfigOrgs(r.agents[i].cfg)
    BY <1>8
  <2>2. QED
    BY <2>1, ReferencedWithin, Zenon
<1>11. QED
  BY <1>1, <1>3, <1>5, <1>7, <1>9, <1>10

-----------------------------------------------------------------------------
(* The commands *)

LEMMA AtBody ==
    ASSUME IInv, pc = "body", Verified
    PROVE  /\ trust.kind = "Committed" /\ trust.alloc = {} /\ cmd \in CommandType
           /\ Backed(trust.reg) /\ UniqueNames(trust.reg) /\ Stored \subseteq Owners(trust.reg)
           /\ cmd.op = "connect" => cmd.arg \in Keys
<1>1. trust.kind = "Committed"
  BY DEF Verified
<1>2. Effective = trust.reg /\ Doomed = {} /\ trust.alloc = {}
  BY <1>1 DEF Effective, Doomed, IInv, Kinds
<1>3. QED
  BY <1>1, <1>2 DEF IInv, Secrets, CommandTypes

\* commit_profile_removal
LEMMA RemovalPlanned ==
    ASSUME IInv, pc = "body", Verified, NEW target, Taken(cmd.name),
           Agents(target) = Agents(trust.reg) \ Named(trust.reg, cmd.name),
           \A i \in Agents(target) : target.agents[i] = trust.reg.agents[i],
           CommitRemoval(target)
    PROVE  IInv'
<1> DEFINE reg == trust.reg
           i == CHOOSE j \in Named(reg, cmd.name) : TRUE
           cfg == reg.agents[i].cfg
           unused == (IF cfg = NoConfig THEN {} ELSE ConfigOrgs(cfg)) \ Referenced(target)
<1>1. /\ trust.kind = "Committed" /\ trust.alloc = {} /\ Backed(reg) /\ UniqueNames(reg)
  BY AtBody, Zenon
<1>2. i \in Named(reg, cmd.name)
  BY DEF Taken
<1>3. Named(reg, cmd.name) = {i}
  BY <1>1, <1>2, Zenon DEF Named, UniqueNames
<1>4. /\ Referenced(target) \subseteq Referenced(reg) /\ UniqueNames(target)
      /\ \A j \in Agents(target) : reg.agents[j].cfg # NoConfig =>
             ConfigOrgs(reg.agents[j].cfg) \subseteq Referenced(target)
  <2> HIDE DEF i
  <2>1. Agents(target) \subseteq Agents(reg)
    OBVIOUS
  <2>2. QED
    BY <1>1, <2>1, FewerAgents, Zenon
<1>5. Backed(target)
  BY <1>1, <1>4 DEF Backed
<1>6. Owners(reg) \subseteq Owners(target) \union ({i} \union unused)
  <2> HIDE DEF i
  <2>1. \A j \in Agents(reg) : reg.agents[j].cfg # NoConfig =>
            ConfigOrgs(reg.agents[j].cfg) \subseteq Referenced(target) \union unused
    BY <1>3, <1>4
  <2>2. Referenced(reg) \subseteq Referenced(target) \union unused
    BY <2>1, ReferencedWithin, Zenon
  <2>3. Agents(reg) \subseteq Agents(target) \union {i}
    BY <1>3
  <2>4. QED
    BY <2>2, <2>3 DEF Owners
<1>7. CASE Refuse
  BY <1>7, Ended DEF Refuse, Return, files
<1>8. CASE Prepare(target, NoWrites, {i}, {i} \union unused, FALSE)
  BY <1>1, <1>4, <1>5, <1>6, <1>8, Planned, Zenon
<1>9. QED
  BY <1>7, <1>8, Zenon DEF CommitRemoval

LEMMA OneTransitionStep ==
    ASSUME IInv, Rename \/ SetDefault \/ Delete \/ PurgeProfile \/ Purge
    PROVE  IInv'
<1> DEFINE reg == trust.reg
<1>1. pc = "body" /\ Verified
  BY Zenon DEF Rename, SetDefault, Delete, PurgeProfile, Purge, Running
<1>2. /\ trust.kind = "Committed" /\ trust.alloc = {} /\ Backed(reg) /\ UniqueNames(reg)
      /\ Stored \subseteq Owners(reg)
  BY <1>1, AtBody, Zenon
<1>3. CASE Refuse
  BY <1>3, Ended DEF Refuse, Return, files
<1>4. CASE Rename /\ ~Refuse
  <2> DEFINE t == RenameProfile(reg, cmd.name, cmd.arg)
  <2>1. Prepare(t, NoWrites, {}, {}, FALSE) /\ Named(reg, cmd.arg) = {}
    BY <1>4, Zenon DEF Rename, Taken
  <2>2. Agents(t) = Agents(reg) /\ Referenced(t) = Referenced(reg)
        /\ Owners(t) = Owners(reg) /\ UniqueNames(t)
    BY <1>2, <2>1, RenameKeeps, Zenon
  <2>3. Backed(t)
    BY <1>2, <2>2 DEF Backed
  <2> HIDE DEF t
  <2>4. QED
    BY <1>1, <1>2, <2>1, <2>2, <2>3, Planned, Zenon
<1>5. CASE SetDefault /\ ~Refuse
  <2> DEFINE t == WithDefault(reg, cmd.name)
  <2>1. Prepare(t, NoWrites, {}, {}, FALSE)
    BY <1>5, Zenon DEF SetDefault
  <2>2. t.agents = reg.agents
    BY DEF WithDefault
  <2>3. Agents(t) = Agents(reg) /\ UniqueNames(t)
    BY <1>2, <2>2 DEF Agents, UniqueNames
  <2>4. Referenced(t) = Referenced(reg) /\ Owners(t) = Owners(reg)
    BY <2>2, <2>3, SameConfigs
  <2>5. Backed(t)
    BY <1>2, <2>3, <2>4 DEF Backed
  <2> HIDE DEF t
  <2>6. QED
    BY <1>1, <1>2, <2>1, <2>3, <2>4, <2>5, Planned, Zenon
<1>6. CASE Delete /\ ~Refuse
  <2> DEFINE t == Without(reg, cmd.name)
  <2>1. Taken(cmd.name) /\ CommitRemoval(t)
    BY <1>6 DEF Delete
  <2>2. Agents(t) = Agents(reg) \ Named(reg, cmd.name)
        /\ \A i \in Agents(t) : t.agents[i] = reg.agents[i]
    BY DEF Without, Agents
  <2> HIDE DEF t
  <2>3. QED
    BY <1>1, <2>1, <2>2, RemovalPlanned
<1>7. CASE PurgeProfile /\ ~Refuse
  <2>1. Taken(cmd.name)
    BY <1>7 DEF PurgeProfile
  <2>2. PICK t \in Purged(reg, cmd.name) : CommitRemoval(t)
    BY <1>7 DEF PurgeProfile
  <2>3. t.agents = Without(reg, cmd.name).agents
    BY DEF Purged, WithDefault
  <2>4. Agents(t) = Agents(reg) \ Named(reg, cmd.name)
        /\ \A i \in Agents(t) : t.agents[i] = reg.agents[i]
    BY <2>3 DEF Without, Agents
  <2>5. QED
    BY <1>1, <2>1, <2>2, <2>4, RemovalPlanned
<1>8. CASE Purge /\ ~Refuse
  <2>1. Prepare(EmptyRegistry, NoWrites, Agents(reg), Owners(reg), TRUE)
    BY <1>8, Zenon DEF Purge
  <2>2. Backed(EmptyRegistry) /\ UniqueNames(EmptyRegistry)
    BY NoSecretsAtFirst DEF Backed
  <2>3. QED
    BY <1>1, <1>2, <2>1, <2>2, Planned, Zenon
<1>9. QED
  BY <1>3, <1>4, <1>5, <1>6, <1>7, <1>8

\* An allocation that is recorded before its slots are written.
LEMMA Allocated ==
    ASSUME IInv, pc = "body", Verified, NEW a \in Ids \union Orgs, a \notin Stored,
           a \notin Owners(trust.reg),
           trust' = Allocating(trust.gen, trust.reg, {a}), UNCHANGED <<slots, journal>>,
           pc' \in {"setX", "setOrg"}
    PROVE  SlotTypes' /\ Phases' /\ Kinds' /\ Plans' /\ Deleted' /\ Secrets'
<1>1. /\ trust.kind = "Committed" /\ trust.alloc = {} /\ Backed(trust.reg)
      /\ UniqueNames(trust.reg) /\ Stored \subseteq Owners(trust.reg)
  BY AtBody
<1>2. trust'.kind = "Allocating" /\ trust'.reg = trust.reg /\ trust'.alloc = {a}
  BY DEF Allocating, Trust
<1>3. SlotTypes'
  BY DEF IInv, SlotTypes, slots
<1>4. Phases' /\ Plans' /\ Deleted'
  BY <1>2 DEF Phases, Plans, Deleted
<1>5. Kinds'
  BY <1>2 DEF Kinds, TrustKinds
<1>6. Effective' = trust.reg /\ Doomed' = {} /\ Stored' = Stored
  BY <1>2 DEF Effective, Doomed, Stored, StoredOrgs, slots
<1>7. Backed(Effective)'
  BY <1>1, <1>6, Zenon DEF Backed, StoredOrgs, slots
<1>8. Secrets'
  BY <1>1, <1>6, <1>7 DEF Secrets
<1>9. QED
  BY <1>3, <1>4, <1>5, <1>8

LEMMA IdentityAllocated ==
    ASSUME IInv, pc = "body", Verified, ~Taken(cmd.name), AllocateIdentity
    PROVE  IInv'
<1>1. PICK i \in FreshIds :
          /\ trust' = Allocating(trust.gen, trust.reg, {i})
          /\ cmd' = [cmd EXCEPT !.id = i] /\ pc' = "setX" /\ UNCHANGED <<slots, journal>>
  BY DEF AllocateIdentity, Goto, files
<1>2. cmd \in CommandType /\ (cmd.op = "connect" => cmd.arg \in Keys) /\ Backed(trust.reg)
  BY AtBody
<1>3. i \in Ids /\ i \notin Stored /\ i \notin Owners(trust.reg)
  BY <1>2, ConstantsAssumption DEF FreshIds, Stored, StoredOrgs, Owners, Backed
<1>4. SlotTypes' /\ Phases' /\ Kinds' /\ Plans' /\ Deleted' /\ Secrets'
  BY <1>1, <1>3, Allocated
<1>5. cmd' \in CommandType /\ cmd'.id = i /\ cmd'.name = cmd.name /\ cmd'.op = cmd.op
      /\ cmd'.arg = cmd.arg
  BY <1>1, <1>2, <1>3 DEF CommandType
<1>6. CommandTypes'
  BY <1>1, <1>2, <1>5 DEF CommandTypes
<1>7. trust'.reg = trust.reg /\ trust'.alloc = {i}
  BY <1>1 DEF Allocating, Trust
<1>8. Allocations'
  BY <1>1, <1>3, <1>5, <1>7 DEF Allocations, Taken
<1>9. QED
  BY <1>4, <1>6, <1>8 DEF IInv

\* Storing a slot of a recorded allocation; the write may fail.
LEMMA SlotStored ==
    ASSUME IInv, trust.kind = "Allocating", UNCHANGED <<trust, files, cmd>>, SlotTypes',
           xKey \subseteq xKey', eKey \subseteq eKey', StoredOrgs \subseteq StoredOrgs',
           Stored' \subseteq Stored \union trust.alloc, pc # "idle",
           pc' \in {"unalloc", "setE", "initAuth", "register"}, Allocations'
    PROVE  IInv'
<1>1. CommandTypes' /\ Phases' /\ Kinds' /\ Plans' /\ Deleted'
  BY Zenon DEF IInv, CommandTypes, Phases, Kinds, Plans, Deleted, files
<1>2. Effective = trust.reg /\ Effective' = trust.reg /\ Doomed = {} /\ Doomed' = {}
  BY DEF Effective, Doomed
<1>3. Backed(Effective)'
  BY <1>2, Zenon DEF IInv, Secrets, Backed
<1>4. Secrets'
  BY <1>2, <1>3, Zenon DEF IInv, Secrets
<1>5. QED
  BY <1>1, <1>4 DEF IInv

LEMMA CreateStep ==
    ASSUME IInv, Create \/ SetX25519 \/ SetEd25519 \/ InitializeAuthorization \/ ConnectCreate
    PROVE  IInv'
<1>1. CASE Create
  <2>1. CASE Refuse
    BY <2>1, Ended DEF Refuse, Return, files
  <2>2. CASE ~Refuse
    BY <1>1, <2>2, IdentityAllocated DEF Create, Running
  <2>3. QED
    BY <2>1, <2>2
<1>2. CASE ConnectCreate
  BY <1>2, IdentityAllocated DEF ConnectCreate, Running
<1>3. CASE SetX25519
  <2>1. /\ pc = "setX" /\ trust.kind = "Allocating" /\ cmd.id \in Ids /\ trust.alloc = {cmd.id}
        /\ ~Taken(cmd.name)
        /\ UNCHANGED <<trust, files, cmd, eKey, orgKey>>
    BY <1>3, Zenon DEF SetX25519, Store, Rollback, Stay, IInv, Phases, Allocations
  <2>2. xKey' \in {xKey, xKey \union {cmd.id}} /\ pc' \in {"setE", "unalloc"}
        /\ (pc' = "setE" => cmd.id \in xKey')
    BY <1>3 DEF SetX25519, Store, Rollback, Goto
  <2>3. SlotTypes'
    BY <2>1, <2>2 DEF IInv, SlotTypes
  <2>4. Allocations'
    BY <2>1, <2>2 DEF Allocations, Taken
  <2>5. Stored' \subseteq Stored \union trust.alloc /\ StoredOrgs' = StoredOrgs
    BY <2>1, <2>2 DEF Stored, StoredOrgs
  <2>6. QED
    BY <2>1, <2>2, <2>3, <2>4, <2>5, SlotStored
<1>4. CASE SetEd25519
  <2>1. /\ pc = "setE" /\ trust.kind = "Allocating" /\ cmd.id \in Ids /\ trust.alloc = {cmd.id}
        /\ ~Taken(cmd.name) /\ cmd.id \in xKey
        /\ UNCHANGED <<trust, files, cmd, xKey, orgKey>>
    BY <1>4, Zenon DEF SetEd25519, Store, Rollback, Stay, IInv, Phases, Allocations
  <2>2. eKey' \in {eKey, eKey \union {cmd.id}} /\ pc' \in {"initAuth", "unalloc"}
        /\ (pc' = "initAuth" => cmd.id \in eKey')
    BY <1>4 DEF SetEd25519, Store, Rollback, Goto
  <2>3. SlotTypes'
    BY <2>1, <2>2 DEF IInv, SlotTypes
  <2>4. Allocations'
    BY <2>1, <2>2 DEF Allocations, Taken
  <2>5. Stored' \subseteq Stored \union trust.alloc /\ StoredOrgs' = StoredOrgs
    BY <2>1, <2>2 DEF Stored, StoredOrgs
  <2>6. QED
    BY <2>1, <2>2, <2>3, <2>4, <2>5, SlotStored
<1>5. CASE InitializeAuthorization
  <2> DEFINE t == AddProfile(trust.reg, cmd.name, cmd.id)
  <2>1. /\ pc = "initAuth" /\ trust.kind = "Allocating" /\ trust.alloc = {cmd.id}
        /\ ~Taken(cmd.name) /\ cmd.id \in xKey \intersect eKey
    BY <1>5, Zenon DEF InitializeAuthorization, IInv, Phases, Allocations
  <2>2. CASE Rollback /\ UNCHANGED <<trust, files, slots, env>>
    <3>1. pc' = "unalloc" /\ UNCHANGED <<trust, files, slots, cmd>>
      BY <2>2 DEF Rollback, Goto
    <3>2. Phases'
      BY <2>1, <3>1 DEF Phases
    <3>3. QED
      BY <2>1, <3>1, <3>2, Moved DEF Planning, Storing, Removing, files
  <2>3. CASE Prepare(t, NoWrites, {}, {}, FALSE)
    <3>1. Effective = trust.reg /\ cmd.id \notin Owners(trust.reg)
      BY <2>1, Zenon DEF Effective, IInv, Kinds
    <3>2. Backed(trust.reg) /\ UniqueNames(trust.reg) /\ cmd.id \notin Agents(trust.reg)
      BY <3>1 DEF IInv, Secrets, Owners
    <3>3. Agents(t) = Agents(trust.reg) \union {cmd.id} /\ Referenced(t) = Referenced(trust.reg)
          /\ UniqueNames(t)
      BY <2>1, <3>2, AddKeeps, Zenon DEF Taken
    <3> HIDE DEF t
    <3>4. Backed(t) /\ Owners(trust.reg) \union trust.alloc \subseteq Owners(t)
      BY <2>1, <3>2, <3>3, Zenon DEF Backed, Owners
    <3>5. QED
      BY <2>1, <2>3, <3>3, <3>4, Planned, Zenon
  <2>4. QED
    BY <1>5, <2>2, <2>3, Zenon DEF InitializeAuthorization
<1>6. QED
  BY <1>1, <1>2, <1>3, <1>4, <1>5

\* What a config of the registry refers to is stored.
LEMMA ConfigStored ==
    ASSUME NEW r, Backed(r), NEW i \in Agents(r), r.agents[i].cfg # NoConfig
    PROVE  /\ ConfigOrgs(r.agents[i].cfg) \subseteq StoredOrgs
           /\ r.agents[i].cfg.org \in Orgs /\ r.agents[i].cfg.retired \subseteq Orgs
<1>1. ConfigOrgs(r.agents[i].cfg) \subseteq StoredOrgs
  BY OwnConfig DEF Backed
<1>2. ConfigOrgs(r.agents[i].cfg) \subseteq Orgs
  BY <1>1 DEF StoredOrgs
<1>3. QED
  BY <1>1, <1>2, Zenon DEF ConfigOrgs

LEMMA CredentialStep ==
    ASSUME IInv, ConnectCredential
    PROVE  IInv'
<1>1. pc = "body" /\ Verified /\ cmd.op = "connect"
  BY Zenon DEF ConnectCredential, Running
<1>2. /\ trust.kind = "Committed" /\ trust.alloc = {} /\ cmd \in CommandType /\ cmd.arg \in Keys
      /\ Backed(trust.reg) /\ Effective = trust.reg
  BY <1>1, AtBody DEF Effective
<1>3. SlotTypes
  BY DEF IInv
<1>4. CASE Refuse
  BY <1>4, Ended DEF Refuse, Return, files
<1>5. CASE ~Refuse
  <2>1. PICK i \in Named(trust.reg, cmd.name) :
            \/ /\ \E o \in Reusable :
                     cmd' = [cmd EXCEPT !.id = i, !.org = o, !.created = FALSE]
               /\ Goto("register")
               /\ UNCHANGED <<mode, mem, last, trust, files, slots, env>>
            \/ /\ \E o \in FreshOrgs :
                     /\ trust' = Allocating(trust.gen, trust.reg, {o})
                     /\ cmd' = [cmd EXCEPT !.id = i, !.org = o, !.created = TRUE]
               /\ Goto("setOrg")
               /\ UNCHANGED <<mode, mem, last, files, slots, env>>
    BY <1>5, Zenon DEF ConnectCredential
  <2>2. i \in Agents(trust.reg) /\ i \in Ids
    BY <1>2, <1>3 DEF Named, Backed, SlotTypes
  <2>3. ASSUME NEW o \in Reusable, pc' = "register", UNCHANGED <<trust, files, slots>>,
               cmd' = [cmd EXCEPT !.id = i, !.org = o, !.created = FALSE]
        PROVE  IInv'
    <3>1. o \in StoredOrgs /\ o \in Orgs
      BY <1>2, <2>3 DEF Reusable, Backed, StoredOrgs
    <3>2. /\ cmd' \in CommandType /\ cmd'.id = i /\ cmd'.org = o /\ ~cmd'.created
          /\ cmd'.arg = cmd.arg
      BY <1>2, <2>2, <2>3, <3>1, Zenon DEF CommandType
    <3>3. SlotTypes' /\ Kinds' /\ Secrets'
      BY <2>3, Quiet DEF files
    <3>4. CommandTypes' /\ Phases' /\ Plans' /\ Deleted'
      BY <1>2, <2>3, <3>2 DEF CommandTypes, Phases, Plans, Deleted
    <3>5. Allocations'
      BY <1>2, <2>2, <2>3, <3>1, <3>2 DEF Allocations, StoredOrgs, slots
    <3>6. QED
      BY <3>3, <3>4, <3>5 DEF IInv
  <2>4. ASSUME NEW o \in FreshOrgs, pc' = "setOrg", UNCHANGED <<files, slots>>,
               trust' = Allocating(trust.gen, trust.reg, {o}),
               cmd' = [cmd EXCEPT !.id = i, !.org = o, !.created = TRUE]
        PROVE  IInv'
    <3>1. o \in Orgs /\ o \notin StoredOrgs
      BY DEF FreshOrgs, StoredOrgs
    <3>2. o \notin Stored /\ o \notin Owners(trust.reg)
      BY <1>2, <1>3, <3>1, ConstantsAssumption DEF Stored, Owners, Backed, SlotTypes
    <3>3. /\ cmd' \in CommandType /\ cmd'.id = i /\ cmd'.org = o /\ cmd'.arg = cmd.arg
      BY <1>2, <2>2, <2>4, <3>1, Zenon DEF CommandType
    <3>4. SlotTypes' /\ Phases' /\ Kinds' /\ Plans' /\ Deleted' /\ Secrets'
      BY <1>1, <2>4, <3>1, <3>2, Allocated DEF files
    <3>5. CommandTypes'
      BY <1>2, <3>3 DEF CommandTypes
    <3>6. trust'.reg = trust.reg /\ trust'.alloc = {o}
      BY <2>4 DEF Allocating, Trust
    <3>7. Allocations'
      BY <1>2, <2>2, <2>4, <3>1, <3>3, <3>6 DEF Allocations
    <3>8. QED
      BY <3>4, <3>5, <3>7 DEF IInv
  <2>5. QED
    BY <2>1, <2>3, <2>4, Zenon DEF Goto
<1>6. QED
  BY <1>4, <1>5

LEMMA RegisterStep ==
    ASSUME IInv, Register
    PROVE  IInv'
<1> DEFINE reg == trust.reg
           old == trust.reg.agents[cmd.id].cfg
           cfg == ConnectedConfig(old)
           t == WithConfig(reg, cmd.id, cfg)
<1>1. /\ pc = "register" /\ trust.kind \in {"Committed", "Allocating"} /\ cmd.id \in Agents(reg)
      /\ cmd.org \in StoredOrgs /\ cmd.org \in Orgs /\ trust.alloc \subseteq {cmd.org}
      /\ cmd.created => trust.kind = "Allocating"
  BY Zenon DEF Register, IInv, Phases, Allocations, StoredOrgs
<1>2. CASE Refuse
  BY <1>2, Ended DEF Refuse, Return, files
<1>3. CASE cmd.created /\ Rollback /\ UNCHANGED <<trust, files, slots, env>>
  <2>1. pc' = "unalloc" /\ UNCHANGED <<trust, files, slots, cmd>>
    BY <1>3 DEF Rollback, Goto
  <2>2. Phases'
    BY <1>1, <1>3, <2>1 DEF Phases
  <2>3. QED
    BY <1>1, <2>1, <2>2, Moved DEF Planning, Storing, Removing, files
<1>4. CASE Prepare(t, [i \in {cmd.id} |-> cfg], {}, {}, FALSE)
  <2>1. Backed(reg) /\ UniqueNames(reg)
    BY <1>1, Zenon DEF IInv, Secrets, Effective
  <2>2. /\ cfg \in Config /\ ConfigOrgs(cfg) \subseteq StoredOrgs /\ cmd.org \in ConfigOrgs(cfg)
        /\ old # NoConfig => ConfigOrgs(old) \subseteq ConfigOrgs(cfg)
    <3>1. CASE old = NoConfig
      <4>1. cfg = [org |-> cmd.org, retired |-> {}]
        BY <3>1 DEF ConnectedConfig
      <4> HIDE DEF cfg, old
      <4>2. cfg \in Config
        BY <1>1, <4>1 DEF Config
      <4>3. ConfigOrgs(cfg) = {cmd.org}
        BY <4>1 DEF ConfigOrgs
      <4>4. QED
        BY <1>1, <3>1, <4>2, <4>3
    <3>2. CASE old # NoConfig
      <4>1. ConfigOrgs(old) \subseteq StoredOrgs
        BY <1>1, <2>1, <3>2, ConfigStored, Zenon
      <4>2. cfg = [org |-> cmd.org, retired |-> ConfigOrgs(old) \ {cmd.org}]
        BY <3>2 DEF ConnectedConfig
      <4> HIDE DEF cfg, old
      <4>3. ConfigOrgs(cfg) = {cmd.org} \union ConfigOrgs(old)
        BY <4>2 DEF ConfigOrgs
      <4>4. cfg \in Config
        <5>1. ConfigOrgs(old) \ {cmd.org} \in SUBSET Orgs
          BY <4>1 DEF StoredOrgs
        <5>2. QED
          BY <1>1, <4>2, <5>1 DEF Config
      <4>5. QED
        BY <1>1, <4>1, <4>3, <4>4
    <3>3. QED
      BY <3>1, <3>2, Zenon
  <2>3. /\ Agents(t) = Agents(reg) /\ UniqueNames(t)
        /\ Referenced(t) \subseteq Referenced(reg) \union ConfigOrgs(cfg)
        /\ ConfigOrgs(cfg) \subseteq Referenced(t)
        /\ old = NoConfig => Referenced(reg) \subseteq Referenced(t)
        /\ old # NoConfig => Referenced(reg) \subseteq Referenced(t) \union ConfigOrgs(old)
    <3> HIDE DEF cfg
    <3>1. QED
      BY <1>1, <2>1, <2>2, ConfigReplaced, Zenon
  <2> HIDE DEF t, cfg, old
  <2>4. Backed(t) /\ Owners(reg) \union trust.alloc \subseteq Owners(t)
    BY <1>1, <2>1, <2>2, <2>3, Zenon DEF Backed, Owners
  <2>5. QED
    BY <1>1, <1>4, <2>3, <2>4, Planned, Zenon
<1>5. QED
  BY <1>2, <1>3, <1>4, Zenon DEF Register

LEMMA RetireStep ==
    ASSUME IInv, RetireCredentials
    PROVE  IInv'
<1> DEFINE reg == trust.reg
           old == trust.reg.agents[cmd.id].cfg
           cfg == [org |-> old.org, retired |-> {}]
           t == WithConfig(reg, cmd.id, cfg)
           dels == old.retired \ Referenced(t)
<1>1. pc = "body" /\ Verified
  BY Zenon DEF RetireCredentials, Running
<1>2. trust.kind = "Committed" /\ trust.alloc = {} /\ Backed(reg) /\ UniqueNames(reg)
  BY <1>1, AtBody, Zenon
<1>3. CASE Return("ok") /\ UNCHANGED <<trust, files, slots, env>>
  BY <1>3, Ended DEF Return, files
<1>4. CASE cmd.id \in Configured(reg) /\ Prepare(t, [i \in {cmd.id} |-> cfg], {}, dels, FALSE)
  <2>1. cmd.id \in Agents(reg) /\ old # NoConfig
    BY <1>4, Zenon DEF Configured
  <2>2. ConfigOrgs(old) \subseteq StoredOrgs /\ old.org \in Orgs
    BY <1>2, <2>1, ConfigStored, Zenon
  <2>3. cfg \in Config /\ ConfigOrgs(cfg) = {old.org} /\ ConfigOrgs(old) = {old.org} \union old.retired
    BY <2>2, Zenon DEF Config, ConfigOrgs
  <2>4. /\ Agents(t) = Agents(reg) /\ UniqueNames(t)
        /\ Referenced(t) \subseteq Referenced(reg) \union ConfigOrgs(cfg)
        /\ ConfigOrgs(cfg) \subseteq Referenced(t)
        /\ Referenced(reg) \subseteq Referenced(t) \union ConfigOrgs(old)
    <3> HIDE DEF cfg
    <3>1. QED
      BY <1>2, <2>1, <2>3, ConfigReplaced, Zenon
  <2> HIDE DEF t, cfg, old
  <2>5. Backed(t) /\ Owners(reg) \union trust.alloc \subseteq Owners(t) \union dels
    BY <1>2, <2>2, <2>3, <2>4, Zenon DEF Backed, Owners
  <2> HIDE DEF dels
  <2>6. QED
    BY <1>1, <1>2, <1>4, <2>4, <2>5, Planned, Zenon
<1>5. QED
  BY <1>3, <1>4, Zenon DEF RetireCredentials

LEMMA CompleteStep ==
    ASSUME IInv, Complete
    PROVE  IInv'
<1>1. pc = "committed" /\ trust.kind \in {"Committed", "Absent"} /\ UNCHANGED <<trust, files, slots>>
  BY DEF Complete, IInv, Phases
<1>2. CASE pc' = "idle"
  BY <1>1, <1>2, Ended DEF files
<1>3. CASE /\ pc' = "body"
           /\ cmd' = [cmd EXCEPT !.stage = NextStage, !.done = @ + 1,
                                 !.id = IF cmd.org = Absent THEN Absent ELSE @]
  <2>1. SlotTypes' /\ Kinds' /\ Secrets'
    BY <1>1, Quiet DEF files
  <2>2. Phases' /\ Plans' /\ Allocations' /\ Deleted'
    BY <1>1, <1>3 DEF Phases, Plans, Allocations, Deleted
  <2>3. cmd \in CommandType /\ (cmd.op = "connect" => cmd.arg \in Keys)
    BY <1>1 DEF IInv, CommandTypes
  <2>4. NextStage \in Stages
    BY DEF NextStage, Stages
  <2>5. cmd' \in CommandType /\ cmd'.op = cmd.op /\ cmd'.arg = cmd.arg
    <3> DEFINE s == NextStage
               i == IF cmd.org = Absent THEN Absent ELSE cmd.id
    <3>1. s \in Stages
      BY <2>4
    <3>4. i \in Ids \union {Absent}
      BY <2>3 DEF CommandType
    <3>5. cmd.done + 1 \in Nat
      BY <2>3 DEF CommandType
    <3>2. cmd' = [cmd EXCEPT !.stage = s, !.done = cmd.done + 1, !.id = i]
      BY <1>3, <2>3 DEF CommandType
    <3> HIDE DEF s, i
    <3>3. QED
      BY <2>3, <3>1, <3>2, <3>4, <3>5, Zenon DEF CommandType
  <2>6. QED
    BY <2>1, <2>2, <2>3, <2>5 DEF IInv, CommandTypes
<1>4. QED
  BY <1>2, <1>3 DEF Complete, Return, Goto

LEMMA ConnectStep ==
    ASSUME IInv, ConnectType \/ ConnectCredential \/ SetOrganizationKey
                     \/ Register \/ RetireCredentials
    PROVE  IInv'
<1>1. CASE ConnectType
  <2>1. /\ pc = "body" /\ Verified /\ Prepare(trust.reg, NoWrites, {}, {}, FALSE)
    BY <1>1, Zenon DEF ConnectType, Running
  <2>2. trust.kind = "Committed" /\ trust.alloc = {} /\ Backed(trust.reg) /\ UniqueNames(trust.reg)
    BY <2>1, AtBody
  <2>3. QED
    BY <2>1, <2>2, Planned, Zenon
<1>2. CASE SetOrganizationKey
  <2>1. /\ pc = "setOrg" /\ trust.kind = "Allocating" /\ trust.alloc = {cmd.org}
        /\ cmd.org \in Orgs /\ cmd.arg \in Keys /\ cmd.id \in Agents(trust.reg)
        /\ UNCHANGED <<trust, files, cmd, xKey, eKey>>
    BY <1>2, Zenon DEF SetOrganizationKey, Store, Rollback, Stay, IInv, Phases, Allocations
  <2>2. /\ orgKey' \in {orgKey, [orgKey EXCEPT ![cmd.org] = cmd.arg]}
        /\ pc' \in {"register", "unalloc"}
        /\ pc' = "register" => orgKey' = [orgKey EXCEPT ![cmd.org] = cmd.arg]
    BY <1>2 DEF SetOrganizationKey, Store, Rollback, Goto
  <2>3. SlotTypes /\ cmd.arg # Absent
    BY <2>1, ConstantsAssumption DEF IInv
  <2>4. SlotTypes'
    BY <2>1, <2>2, <2>3 DEF SlotTypes
  <2>5. /\ StoredOrgs \subseteq StoredOrgs' /\ StoredOrgs' \subseteq StoredOrgs \union {cmd.org}
        /\ pc' = "register" => cmd.org \in StoredOrgs'
    BY <2>1, <2>2, <2>3 DEF StoredOrgs, SlotTypes
  <2>6. Allocations'
    BY <2>1, <2>2, <2>5 DEF Allocations
  <2>7. Stored' \subseteq Stored \union trust.alloc
    BY <2>1, <2>5 DEF Stored
  <2>8. QED
    BY <2>1, <2>2, <2>4, <2>5, <2>6, <2>7, SlotStored
<1>3. QED
  BY <1>1, <1>2, CredentialStep, RegisterStep, RetireStep

LEMMA BodyStep ==
    ASSUME IInv, Bodies
    PROVE  IInv'
<1>1. CASE RefuseUnverified
  BY <1>1, Ended DEF RefuseUnverified, Refuse, Return, files
<1>2. CASE Recovered
  BY <1>2, Ended DEF Recovered, Return, files
<1>3. QED
  BY <1>1, <1>2, CompleteStep, OneTransitionStep, CreateStep, ConnectStep DEF Bodies

-----------------------------------------------------------------------------
(* Everything else. *)

LEMMA BeginStep ==
    ASSUME IInv, NEW c \in Commands, Begin(c)
    PROVE  IInv'
<1>1. pc = "idle" /\ pc' = "recover" /\ cmd' = c /\ UNCHANGED <<trust, files, slots>>
  BY DEF Begin, Goto
<1>2. c \in CommandType /\ (c.op = "connect" => c.arg \in Keys)
  <2>1. ASSUME NEW ops \in SUBSET Ops, NEW names \in SUBSET Names,
               NEW args \in SUBSET (Keys \union Names \union {Absent}),
               NEW typed \in SUBSET BOOLEAN, "connect" \in ops => args \subseteq Keys,
               c \in CommandSet(ops, names, args, typed)
        PROVE  c \in CommandType /\ (c.op = "connect" => c.arg \in Keys)
    <3>1. /\ c = [op |-> c.op, name |-> c.name, arg |-> c.arg, typed |-> c.typed,
                   stage |-> c.stage, id |-> c.id, org |-> c.org,
                   created |-> c.created, done |-> c.done]
          /\ c.op \in ops /\ c.name \in names /\ c.arg \in args /\ c.typed \in typed
          /\ c.stage = "resolve" /\ c.id = Absent /\ c.org = Absent
      BY <2>1 DEF CommandSet
    <3>2. c.created = FALSE /\ c.done = 0
      BY <2>1, Zenon DEF CommandSet
    <3>3. c.created \in BOOLEAN /\ c.typed \in BOOLEAN
      BY <2>1, <3>1, <3>2, Zenon
    <3>4. c.done \in Nat /\ c.stage \in Stages
      <4>1. 0 \in Nat /\ "resolve" \in Stages
        BY DEF Stages
      <4>2. QED
        BY <3>1, <3>2, <4>1, Zenon
    <3>5. QED
      BY <2>1, <3>1, <3>3, <3>4 DEF CommandType
  <2>2. /\ {"create", "setDefault", "delete", "purgeProfile"} \in SUBSET (Ops \ {"connect"})
        /\ {"rename"} \in SUBSET (Ops \ {"connect"})
        /\ {"purge", "recover"} \in SUBSET (Ops \ {"connect"})
        /\ {"connect"} \in SUBSET Ops /\ {DefaultName} \in SUBSET Names
    BY ConstantsAssumption DEF Ops
  <2>3. QED
    BY <2>1, <2>2, Zenon DEF Commands
<1>3. SlotTypes' /\ Kinds' /\ Secrets'
  BY <1>1, Quiet DEF files
<1>4. CommandTypes' /\ Phases' /\ Plans' /\ Allocations' /\ Deleted'
  BY <1>1, <1>2, Zenon DEF CommandTypes, Phases, Plans, Allocations, Deleted
<1>5. QED
  BY <1>3, <1>4 DEF IInv

\* A step that changes nothing the invariant looks at.
LEMMA Untouched ==
    ASSUME IInv, UNCHANGED <<trust, journal, slots, pc, cmd, mem>>
    PROVE  IInv'
<1>1. SlotTypes' /\ Kinds' /\ Secrets'
  BY Quiet
<1>2. CommandTypes' /\ Phases'
  BY DEF IInv, CommandTypes, Phases
<1>3. Plans'
  BY DEF IInv, Plans, Backed, StoredOrgs, slots
<1>4. Allocations'
  BY DEF IInv, Allocations, Taken, StoredOrgs, slots
<1>5. Deleted'
  BY DEF IInv, Deleted, SlotsGone, StoredOrgs, slots
<1>6. QED
  BY <1>1, <1>2, <1>3, <1>4, <1>5 DEF IInv

LEMMA StepKeepsIInv ==
    ASSUME IInv, [Next]_vars
    PROVE  IInv'
<1>1. CASE HolderStep
  BY <1>1, RecoverStep, ApplyStep, FinishPurgeStep, CommitStep, BodyStep DEF HolderStep
<1>2. CASE Crash
  BY <1>2, Ended DEF Crash, Return
<1>3. CASE ProvisionHost \/ HostSocket \/ UNCHANGED vars
  BY <1>3, Untouched DEF ProvisionHost, HostSocket, vars, files, local
<1>4. QED
  BY <1>1, <1>2, <1>3, BeginStep DEF Next

-----------------------------------------------------------------------------
(* The theorems. *)

\* The inductive invariant holds in every reachable state.
THEOREM Invariance == Spec => []IInv
  BY InitIInv, StepKeepsIInv, PTL DEF Spec

\* A durable transition marker is never without the journal it names.
THEOREM MarkerSafe == Spec => []MarkerHasJournal
<1>1. IInv => MarkerHasJournal
  BY DEF IInv, Kinds, MarkerHasJournal
<1>2. QED
  BY <1>1, Invariance, PTL

\* Whatever crashes, and wherever recovery is interrupted in its turn, the keys of every
\* profile that recovery would bring back are in the secure store.
THEOREM NoKeyLost == Spec => []SecretsComplete
<1>1. IInv => SecretsComplete
  BY DEF IInv, Secrets, Backed, SecretsComplete
<1>2. QED
  BY <1>1, Invariance, PTL

\* Nothing in the secure store is forgotten: a profile, a recorded allocation or a
\* journal that will delete it accounts for every key.
THEOREM NoKeyLeaked == Spec => []NoOrphanSecrets
<1>1. IInv => NoOrphanSecrets
  BY DEF IInv, Secrets, Stored, Doomed, NoOrphanSecrets
<1>2. QED
  BY <1>1, Invariance, PTL

\* create, rename and connect never give two profiles one name.
THEOREM NamesStayUnique == Spec => []UniqueNames(Effective)
<1>1. IInv => UniqueNames(Effective)
  BY DEF IInv, Secrets
<1>2. QED
  BY <1>1, Invariance, PTL
=============================================================================
