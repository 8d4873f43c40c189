--------------------------- MODULE BrowserPairing ---------------------------
(***************************************************************************)
(* Pairing an agent in the browser (palladin-runtime, browser_pair): a     *)
(* profile and a signed record are made under the repository lock, the     *)
(* lock is let go while the user approves, and the result is committed     *)
(* under the lock again.  Meanwhile other processes pair, connect, rename  *)
(* or delete, any process may be killed, and the command may be repeated.  *)
(*                                                                         *)
(* Registry and configuration change atomically here: ProfileOperations    *)
(* shows that they do.  The service that keeps the pairings is external.   *)
(***************************************************************************)
EXTENDS Integers, FiniteSets

CONSTANTS
    Pairers,     \* processes that pair
    Names,       \* profile names
    Ids,         \* identities that can be generated
    Pids,        \* pairing ids that can be generated
    Absent,
    MaxCrashes   \* how often a process may be killed

ASSUME CrashAssumption == MaxCrashes \in Nat

VARIABLES
    registry,  \* name -> identity
    config,    \* identity -> what configured it
    record,    \* identity -> the pairing of its pending record
    used,      \* identities and pairings generated so far
    deleted,   \* identities a user deleted
    backend,   \* pairing -> what the service says
    owner,     \* pairing -> the identity it was made for
    lock,      \* who keeps the repository lock between two steps
    pc, mine, outcome,  \* of each pairer
    crashes

store == <<registry, config, record, used, deleted>>
service == <<backend, owner>>
pairer == <<pc, mine, outcome>>
vars == <<store, service, lock, pairer, crashes>>

NoConfig == "none"
Connected == "connected"

Registered(i) == \E n \in Names : registry[n] = i
Configured(i) == config[i] # NoConfig

Free == lock = Absent

Goto(p, l) == pc' = [pc EXCEPT ![p] = l]
Return(p, why) == Goto(p, "ended") /\ outcome' = [outcome EXCEPT ![p] = why]
Forget(i) == record' = [record EXCEPT ![i] = Absent]

-----------------------------------------------------------------------------
(* Preparation, under the lock. *)

\* The name is free: create the profile, and keep the lock.
Create(p, n) ==
    /\ pc[p] = "start" /\ Free
    /\ registry[n] = Absent
    /\ \E i \in Ids \ used :
           /\ registry' = [registry EXCEPT ![n] = i]
           /\ used' = used \union {i}
           /\ mine' = [mine EXCEPT ![p] = [id |-> i, pid |-> Absent]]
    /\ lock' = p
    /\ Goto(p, "record")
    /\ UNCHANGED <<config, record, deleted, service, outcome, crashes>>

\* The name is taken by a profile that is configured, or that has no record.
Resolve(p, n) ==
    /\ pc[p] = "start" /\ Free
    /\ registry[n] # Absent
    /\ LET i == registry[n]
       IN IF Configured(i) THEN Forget(i)
          ELSE record[i] = Absent /\ UNCHANGED record
    /\ Return(p, "exists")
    /\ UNCHANGED <<registry, config, used, deleted, service, lock, mine, crashes>>

\* The profile has a record: authorize, verify it and go on with its pairing.
Resume(p, n) ==
    /\ pc[p] = "start" /\ Free
    /\ registry[n] # Absent
    /\ LET i == registry[n]
       IN /\ ~Configured(i) /\ record[i] # Absent
          /\ mine' = [mine EXCEPT ![p] = [id |-> i, pid |-> record[i]]]
    /\ Goto(p, "resume")
    /\ UNCHANGED <<store, service, lock, outcome, crashes>>

\* The user does not authorize, or the record is for another host.
Refused(p) ==
    /\ pc[p] = "start" /\ Free
    /\ Return(p, "refused")
    /\ UNCHANGED <<store, service, lock, mine, crashes>>

\* Mutant: the record is written when the pairing has been started.
RecordLater(p) ==
    /\ pc[p] = "record"
    /\ \E pid \in Pids \ used :
           /\ used' = used \union {pid}
           /\ owner' = [owner EXCEPT ![pid] = mine[p].id]
           /\ backend' = [backend EXCEPT ![pid] = "pending"]
           /\ mine' = [mine EXCEPT ![p].pid = pid]
    /\ Goto(p, "poll")
    /\ lock' = Absent
    /\ UNCHANGED <<registry, config, record, deleted, outcome, crashes>>

\* Save the signed record for a new pairing; the lock is released.
Record(p) ==
    /\ pc[p] = "record"
    /\ \E pid \in Pids \ used :
           /\ used' = used \union {pid}
           /\ owner' = [owner EXCEPT ![pid] = mine[p].id]
           /\ record' = [record EXCEPT ![mine[p].id] = pid]
           /\ mine' = [mine EXCEPT ![p].pid = pid]
    /\ Goto(p, "begin")
    /\ lock' = Absent
    /\ UNCHANGED <<registry, config, deleted, backend, outcome, crashes>>

\* The profile goes, and its directory with the record in it.
Unregister(i) ==
    /\ registry' = [n \in Names |-> IF registry[n] = i THEN Absent ELSE registry[n]]
    /\ Forget(i)

\* Preparation fails after the profile was made: rollback_new_pairing_profile_locked.
RecordFails(p) ==
    /\ pc[p] = "record"
    /\ Unregister(mine[p].id)
    /\ Return(p, "refused")
    /\ lock' = Absent
    /\ UNCHANGED <<config, used, deleted, service, mine, crashes>>

-----------------------------------------------------------------------------
(* The approval, without the lock. *)

\* What a poll of the service leads to.
Decide(p, waiting) ==
    CASE backend[mine[p].pid] = "active" -> Goto(p, "commit")
      [] backend[mine[p].pid] \in {"rejected", "expired"} -> Goto(p, "terminal")
      [] OTHER -> Goto(p, waiting)

\* A resumed pairing is polled before it is started again; 404 starts it.
ResumePoll(p) ==
    /\ pc[p] = "resume"
    /\ Decide(p, "begin")
    /\ UNCHANGED <<store, service, lock, mine, outcome, crashes>>

\* start: the same pairing may be started again while it is undecided.
Start(p) ==
    /\ pc[p] = "begin"
    /\ backend[mine[p].pid] \in {"unknown", "pending"}
    /\ backend' = [backend EXCEPT ![mine[p].pid] = "pending"]
    /\ Goto(p, "poll")
    /\ UNCHANGED <<store, owner, lock, mine, outcome, crashes>>

\* The request arrives and its answer is lost, or it never arrives, or it comes late.
StartFails(p) ==
    /\ pc[p] = "begin"
    /\ \/ UNCHANGED backend
       \/ /\ backend[mine[p].pid] = "unknown"
          /\ backend' = [backend EXCEPT ![mine[p].pid] = "pending"]
    /\ Return(p, "error")
    /\ UNCHANGED <<store, owner, lock, mine, crashes>>

Poll(p) ==
    /\ pc[p] = "poll"
    /\ backend[mine[p].pid] # "pending"
    /\ Decide(p, "poll")
    /\ UNCHANGED <<store, service, lock, mine, outcome, crashes>>

\* The wait is cancelled, the lease ends, or the network fails.
Abandon(p) ==
    /\ pc[p] \in {"resume", "poll", "commit"}
    /\ Return(p, "error")
    /\ UNCHANGED <<store, service, lock, mine, crashes>>

-----------------------------------------------------------------------------
(* The end, under the lock. *)

\* Everything is looked at again; then the key is stored and the profile configured.
Commit(p) ==
    /\ pc[p] = "commit" /\ Free
    /\ LET i == mine[p].id
       IN  CASE ~Registered(i) -> Return(p, "notFound") /\ UNCHANGED <<config, record, lock>>
             [] Registered(i) /\ Configured(i) ->
                    Forget(i) /\ Return(p, "exists") /\ UNCHANGED <<config, lock>>
             [] Registered(i) /\ ~Configured(i) /\ record[i] # mine[p].pid ->
                    Return(p, "integrity") /\ UNCHANGED <<config, record, lock>>
             [] OTHER ->
                    /\ config' = [config EXCEPT ![i] = mine[p].pid]
                    /\ lock' = p
                    /\ Goto(p, "cleanup")
                    /\ UNCHANGED <<record, outcome>>
    /\ UNCHANGED <<registry, used, deleted, service, mine, crashes>>

Cleanup(p) ==
    /\ pc[p] = "cleanup"
    /\ Forget(mine[p].id)
    /\ Return(p, "paired")
    /\ lock' = Absent
    /\ UNCHANGED <<registry, config, used, deleted, service, mine, crashes>>

\* finish_terminal_browser_pairing: the profile made for the pairing goes with it,
\* unless somebody has configured it.
Terminal(p) ==
    /\ pc[p] = "terminal" /\ Free
    /\ LET i == mine[p].id
       IN  CASE record[i] = Absent -> Return(p, "terminal") /\ UNCHANGED <<registry, record>>
             [] record[i] \notin {Absent, mine[p].pid} ->
                    Return(p, "integrity") /\ UNCHANGED <<registry, record>>
             [] OTHER ->
                    /\ Return(p, "terminal")
                    /\ IF ~Registered(i) THEN Forget(i) /\ UNCHANGED registry
                       ELSE IF Configured(i) THEN UNCHANGED <<registry, record>>
                       ELSE Unregister(i)
    /\ UNCHANGED <<config, used, deleted, service, lock, mine, crashes>>

\* The command is repeated.
Again(p) ==
    /\ pc[p] = "ended"
    /\ Goto(p, "start")
    /\ mine' = [mine EXCEPT ![p] = [id |-> Absent, pid |-> Absent]]
    /\ outcome' = [outcome EXCEPT ![p] = "none"]
    /\ UNCHANGED <<store, service, lock, crashes>>

\* A process is killed; the lock goes with it.
Crash(p) ==
    /\ pc[p] \notin {"start", "ended"}
    /\ crashes < MaxCrashes
    /\ crashes' = crashes + 1
    /\ Return(p, "killed")
    /\ lock' = IF lock = p THEN Absent ELSE lock
    /\ UNCHANGED <<store, service, mine>>

-----------------------------------------------------------------------------
(* Other commands, and the service. *)

Connect(n) ==
    /\ Free
    /\ registry[n] # Absent
    /\ config' = [config EXCEPT ![registry[n]] = Connected]
    /\ UNCHANGED <<registry, record, used, deleted, service, lock, pairer, crashes>>

Rename(n, k) ==
    /\ Free
    /\ registry[n] # Absent /\ registry[k] = Absent
    /\ registry' = [registry EXCEPT ![n] = Absent, ![k] = registry[n]]
    /\ UNCHANGED <<config, record, used, deleted, service, lock, pairer, crashes>>

\* The directory goes with the profile, and the record with the directory.
Delete(n) ==
    /\ Free
    /\ registry[n] # Absent
    /\ Unregister(registry[n])
    /\ config' = [config EXCEPT ![registry[n]] = NoConfig]
    /\ deleted' = deleted \union {registry[n]}
    /\ UNCHANGED <<used, service, lock, pairer, crashes>>

Answer(pid) ==
    /\ backend[pid] = "pending"
    /\ \E s \in {"active", "rejected", "expired"} : backend' = [backend EXCEPT ![pid] = s]
    /\ UNCHANGED <<store, owner, lock, pairer, crashes>>

-----------------------------------------------------------------------------

Init ==
    /\ registry = [n \in Names |-> Absent]
    /\ config = [i \in Ids |-> NoConfig]
    /\ record = [i \in Ids |-> Absent]
    /\ used = {} /\ deleted = {}
    /\ backend = [pid \in Pids |-> "unknown"] /\ owner = [pid \in Pids |-> Absent]
    /\ lock = Absent
    /\ pc = [p \in Pairers |-> "start"]
    /\ mine = [p \in Pairers |-> [id |-> Absent, pid |-> Absent]]
    /\ outcome = [p \in Pairers |-> "none"]
    /\ crashes = 0

Locked(p) == Record(p) \/ RecordFails(p) \/ Cleanup(p)
Starting(p) == Start(p) \/ StartFails(p)
Waiting(p) == ResumePoll(p) \/ Poll(p)
Finish(p) == Commit(p) \/ Terminal(p)

PairerStep(p) ==
    \/ \E n \in Names : Create(p, n) \/ Resolve(p, n) \/ Resume(p, n)
    \/ Refused(p) \/ Locked(p) \/ Starting(p) \/ Waiting(p) \/ Abandon(p)
    \/ Finish(p) \/ Again(p) \/ Crash(p)

Next ==
    \/ \E p \in Pairers : PairerStep(p)
    \/ \E n \in Names : Connect(n) \/ Delete(n) \/ \E k \in Names : Rename(n, k)
    \/ \E pid \in Pids : Answer(pid)

\* The user repeats the command until it resumes; a process that holds the lock or has an
\* answer goes on, and one that waits is not always abandoned.
Fairness ==
    \A p \in Pairers :
        /\ WF_vars(Locked(p)) /\ WF_vars(Starting(p)) /\ WF_vars(Again(p))
        /\ SF_vars(\E n \in Names : Resume(p, n))
        /\ SF_vars(Waiting(p)) /\ SF_vars(Finish(p))

Spec == Init /\ [][Next]_vars /\ Fairness

-----------------------------------------------------------------------------
(* Properties. *)

Steps == {"start", "record", "resume", "begin", "poll", "commit", "cleanup", "terminal", "ended"}

TypeOK ==
    /\ registry \in [Names -> Ids \union {Absent}]
    /\ \A n, k \in Names : n # k => registry[n] = Absent \/ registry[n] # registry[k]
    /\ config \in [Ids -> Pids \union {NoConfig, Connected}]
    /\ record \in [Ids -> Pids \union {Absent}]
    /\ backend \in [Pids -> {"unknown", "pending", "active", "rejected", "expired"}]
    /\ pc \in [Pairers -> Steps]
    /\ \A p \in Pairers : pc[p] \in {"record", "cleanup"} => lock = p

\* "The signed, value-free recovery record is durable before the first network call": a
\* pairing the user may still approve, or has approved, can be resumed, unless its profile
\* was configured or deleted by the user.
Resumable ==
    \A pid \in Pids : backend[pid] \in {"pending", "active"} =>
        LET i == owner[pid]
        IN  (record[i] = pid /\ Registered(i)) \/ Configured(i) \/ i \in deleted

\* A pairing configures only the profile it was started for, and only when it was approved.
PairedWithOwn ==
    \A i \in Ids : config[i] \in Pids => owner[config[i]] = i /\ backend[config[i]] = "active"

\* "Revalidate all mutable local state after the unlocked approval wait": no step of a
\* pairing takes away or overwrites what is configured.
ConfiguredIsKept ==
    [][pc' = pc \/ \A i \in Ids : Configured(i) =>
                      config'[i] = config[i] /\ (Registered(i) => Registered(i)')]_vars

\* A rejected or expired pairing leaves no unconfigured profile behind.
NothingLeft ==
    \A p \in Pairers : outcome[p] = "terminal" =>
        Configured(mine[p].id) \/ ~Registered(mine[p].id)

\* Whatever other processes do meanwhile, it is never reported as an integrity violation,
\* and no record is left without its profile.
NoFalseAlarm ==
    /\ \A p \in Pairers : outcome[p] # "integrity"
    /\ \A i \in Ids : record[i] # Absent => Registered(i)

\* An approved pairing is completed by repeating the command, whatever was killed before.
Completes ==
    \A i \in Ids :
        (record[i] # Absent /\ backend[record[i]] = "active") ~> (record[i] = Absent \/ Configured(i))
=============================================================================
