----------------------------- MODULE SecretSlots -----------------------------
(***************************************************************************)
(* The secret stores behind the SecretStore trait: the Linux broker's      *)
(* sealed files, the Windows broker's DPAPI files, the OS keyring, the     *)
(* development keychain helper and the hardened macOS keychain.  A call is *)
(* a sequence of steps; the process or the machine may stop between them,  *)
(* a step may fail, and the lease of an authorized read may end while the  *)
(* keychain waits for the user.                                            *)
(***************************************************************************)
EXTENDS Integers

CONSTANTS
    Backends,   \* subset of {"linux", "windows", "keyring", "helper", "mac"}
    SlotKeys,   \* [owner, slot] pairs
    Scope,      \* the approved operation: [identity: owner, organizations: set of owners]
    Secrets,    \* secret values
    MaxCalls,   \* bound on calls
    MaxFaults   \* bound on stops and misplaced files

VARIABLES
    backend,  \* the store in use
    entry,    \* per key: what a reader finds now
    durable,  \* per key: what it may find after a power loss
    call,     \* the call in progress
    lease,    \* the operation's lease: "active" or "ended"
    answer,   \* the last value read: for which key, what, how and under which lease
    allowed,  \* per key: the values the calls so far may have left
    calls, faults

vars == <<backend, entry, durable, call, lease, answer, allowed, calls, faults>>

NoKey == [owner |-> "none", slot |-> "none"]
Absent == [key |-> NoKey, value |-> "none"]
Sealed(k, v) == [key |-> k, value |-> v]
NoCall == [op |-> "none", key |-> NoKey, value |-> "none", at |-> "idle"]
NoAnswer == [key |-> NoKey, entry |-> Absent, authorized |-> FALSE, lease |-> "active"]

\* The slots read without an authorization on hardened macOS, and what an operation's scope allows.
direct_read_allowed(slot) == slot \in {"integrity", "policy", "host-key", "host-token"}
allows(scope, k) ==
    CASE k.slot \in {"x25519", "ed25519"} -> k.owner = scope.identity
      [] k.slot = "api-key" -> k.owner \in scope.organizations
      [] OTHER -> FALSE

Init ==
    /\ backend \in Backends
    /\ entry = [k \in SlotKeys |-> Absent] /\ durable = [k \in SlotKeys |-> {Absent}]
    /\ call = NoCall /\ lease = "active" /\ answer = NoAnswer
    /\ allowed = [k \in SlotKeys |-> {"none"}]
    /\ calls = 0 /\ faults = 0

Files == {"linux", "windows"}
Wants(op, at) == call.op = op /\ call.at = at /\ UNCHANGED <<backend, lease, calls, faults>>
GoTo(at) == call' = [call EXCEPT !.at = at]
Writes == UNCHANGED answer
\* Ok: the call's value and no other.  Windows does not flush a deletion, so a power loss may undo it.
Ok ==
    /\ call' = NoCall
    /\ allowed' = IF backend = "windows" /\ call.op = "delete" THEN allowed
                  ELSE [allowed EXCEPT ![call.key] = {call.value}]

Begin(op, k, v, at) ==
    /\ call = NoCall /\ calls < MaxCalls /\ calls' = calls + 1
    /\ call' = [op |-> op, key |-> k, value |-> v, at |-> at]
    /\ UNCHANGED <<backend, entry, durable, lease, answer, faults>>
Store(k, v) ==
    /\ Begin("set", k, v, IF backend \in Files THEN "temporary" ELSE "keychain")
    /\ allowed' = [allowed EXCEPT ![k] = @ \cup {v}]
Drop(k) ==
    /\ Begin("delete", k, "none", IF backend \in Files THEN "unlink" ELSE "keychain")
    /\ allowed' = [allowed EXCEPT ![k] = @ \cup {"none"}]

-----------------------------------------------------------------------------
(* set and delete. *)

\* atomic_replace: a temporary file is written and flushed, renamed over the entry, and on Linux the
\* directory is flushed; Windows renames with write-through.
WriteTemporary == Wants("set", "temporary") /\ GoTo("rename") /\ Writes /\ UNCHANGED <<entry, durable, allowed>>
Rename ==
    LET new == Sealed(call.key, call.value) IN
    /\ Wants("set", "rename") /\ Writes
    /\ entry' = [entry EXCEPT ![call.key] = new]
    /\ IF backend = "linux"
       THEN GoTo("sync") /\ durable' = [durable EXCEPT ![call.key] = @ \cup {new}] /\ UNCHANGED allowed
       ELSE durable' = [durable EXCEPT ![call.key] = {new}] /\ Ok
\* delete_path_and_sync; Windows removes the file and is done.
Unlink ==
    /\ Wants("delete", "unlink") /\ Writes
    /\ entry' = [entry EXCEPT ![call.key] = Absent]
    /\ durable' = [durable EXCEPT ![call.key] = @ \cup {Absent}]
    /\ IF backend = "linux" THEN GoTo("sync") /\ UNCHANGED allowed ELSE Ok
sync_directory ==
    /\ call.at = "sync" /\ UNCHANGED <<backend, lease, calls, faults, entry>> /\ Writes
    /\ durable' = [k \in SlotKeys |-> {entry[k]}] /\ Ok

\* The keyring, the keychain and the helper process act at once; the helper's answer may be lost after.
Keychain ==
    LET new == IF call.op = "set" THEN Sealed(call.key, call.value) ELSE Absent IN
    /\ call.op \in {"set", "delete"} /\ call.at = "keychain" /\ Writes
    /\ UNCHANGED <<backend, lease, calls, faults>>
    /\ entry' = [entry EXCEPT ![call.key] = new] /\ durable' = [durable EXCEPT ![call.key] = {new}]
    /\ \/ Ok
       \/ backend = "helper" /\ call' = NoCall /\ UNCHANGED allowed

\* A step fails: the temporary file is removed and the caller told; what was renamed stays.
Fails ==
    /\ call # NoCall /\ call' = NoCall
    /\ UNCHANGED <<backend, entry, durable, lease, answer, allowed, calls, faults>>

-----------------------------------------------------------------------------
(* get and get_authorized. *)

\* decode_context: a sealed file answers only for the owner and the slot it was written for.
decode_context(k) == IF backend = "linux" /\ entry[k] # Absent /\ entry[k].key # k THEN {} ELSE {entry[k]}

Get(k) ==
    /\ backend = "mac" => direct_read_allowed(k.slot)
    /\ call = NoCall /\ calls < MaxCalls /\ calls' = calls + 1
    /\ \E e \in decode_context(k) :
         answer' = [key |-> k, entry |-> e, authorized |-> FALSE, lease |-> lease]
    /\ UNCHANGED <<backend, entry, durable, call, lease, allowed, faults>>
\* ensure_read_allowed first: the lease, the binding and the scope.
GetAuthorized(k) ==
    /\ lease = "active" /\ allows(Scope, k)
    /\ Begin("read", k, "none", "read") /\ UNCHANGED allowed
\* The read itself; hardened macOS asks the user meanwhile and then checks lease and binding again.
Read ==
    /\ Wants("read", "read") /\ call' = NoCall /\ UNCHANGED <<entry, durable, allowed>>
    /\ backend = "mac" => lease = "active"
    /\ \E e \in decode_context(call.key) :
         answer' = [key |-> call.key, entry |-> e, authorized |-> TRUE, lease |-> lease]
\* A screen lock, a session change or the deadline (macos_lifecycle.rs revoke_all).
LeaseEnds ==
    /\ lease = "active" /\ lease' = "ended"
    /\ UNCHANGED <<backend, entry, durable, call, answer, allowed, calls, faults>>

-----------------------------------------------------------------------------

\* The machine loses power, or a backup puts one key's file under another's name.
PowerLoss ==
    /\ faults < MaxFaults /\ faults' = faults + 1 /\ call' = NoCall
    /\ entry' \in {e \in [SlotKeys -> UNION {durable[k] : k \in SlotKeys}] : \A k \in SlotKeys : e[k] \in durable[k]}
    /\ durable' = [k \in SlotKeys |-> {entry'[k]}]
    /\ UNCHANGED <<backend, lease, answer, allowed, calls>>
Misplace ==
    /\ backend = "linux" /\ call = NoCall /\ faults < MaxFaults /\ faults' = faults + 1
    /\ \E k, l \in SlotKeys : k # l /\ entry[k] # Absent /\ entry[k].key = k /\ entry' = [entry EXCEPT ![l] = entry[k]]
         /\ durable' = [durable EXCEPT ![l] = {entry[k]}]
    /\ UNCHANGED <<backend, call, lease, answer, allowed, calls>>

Next ==
    \/ \E k \in SlotKeys : (\E v \in Secrets : Store(k, v)) \/ Drop(k) \/ Get(k) \/ GetAuthorized(k)
    \/ WriteTemporary \/ Rename \/ Unlink \/ sync_directory \/ Keychain \/ Fails \/ Read
    \/ LeaseEnds \/ PowerLoss \/ Misplace
Spec == Init /\ [][Next]_vars

-----------------------------------------------------------------------------

TypeOK ==
    /\ backend \in Backends /\ lease \in {"active", "ended"} /\ calls \in 0..MaxCalls /\ faults \in 0..MaxFaults
    /\ \A k \in SlotKeys : entry[k] \in durable[k] /\ allowed[k] \subseteq Secrets \cup {"none"}


\* An authorized read hands out only what the approved operation covers, for the key that was asked; on
\* hardened macOS only while the lease still holds when the keychain has answered.
ReadIsCovered ==
    /\ answer.entry # Absent /\ backend # "windows" => answer.entry.key = answer.key
    /\ answer.authorized => allows(Scope, answer.key)
    /\ answer.authorized /\ backend = "mac" => answer.lease = "active"
=============================================================================
