--------------------------- MODULE LinuxAdmission ---------------------------
(***************************************************************************)
(* Who the Linux credential broker serves: the record of each Agent uid,   *)
(* the sessions that read it (peer.rs, bin/service.rs), the namespaces     *)
(* they work in, and the administrator's helper (manage-agent-uid.sh with  *)
(* purge.rs) that authorizes, revokes and purges while sessions run and    *)
(* that may die at any of its steps.                                       *)
(***************************************************************************)
EXTENDS Integers, FiniteSets

CONSTANTS
    Uids,           \* dedicated Agent accounts
    Slots,          \* connections the model follows
    MaxSessions,    \* MAX_CONCURRENT_SESSIONS
    MaxPerUid,      \* MAX_SESSIONS_PER_UID
    MaxPrincipals,  \* bound on authorizations
    MaxDeaths       \* bound on helpers killed and reboots

VARIABLES
    record,    \* /etc/palladin/agents.d/<uid>: status and principal
    member,    \* uids in the broker access group
    broker,    \* the service is running
    sessions,  \* per slot: where handle is, the uid and the principal it read
    names,     \* per principal: which of its four paths exist
    admin,     \* the helper: its next step, its uid
    issued,    \* principals generated so far
    deaths,
    told       \* principals whose revocation, and whose purge, the helper reported done

vars == <<record, member, broker, sessions, names, admin, issued, deaths, told>>

Principals == 1..MaxPrincipals
Paths == {"active", "detached", "cache", "lock"}
Free == [at |-> "free", uid |-> 0, principal |-> 0]
Resting == [at |-> "idle", uid |-> 0, action |-> "none"]
Served(u) == {s \in Slots : sessions[s].uid = u /\ sessions[s].at # "free"}
Open == {s \in Slots : sessions[s].at # "free"}

Init ==
    /\ record = [u \in Uids |-> [status |-> "none", principal |-> 0]]
    /\ member = {} /\ broker = TRUE
    /\ sessions = [s \in Slots |-> Free]
    /\ names = [p \in Principals |-> {}]
    /\ admin = Resting /\ issued = 0 /\ deaths = 0
    /\ told = [revoked |-> {}, purged |-> {}]

-----------------------------------------------------------------------------
(* Sessions. *)

SessionOnly == UNCHANGED <<record, member, broker, admin, issued, deaths, told>>
Becomes(s, at, u, p) == sessions' = [sessions EXCEPT ![s] = [at |-> at, uid |-> u, principal |-> p]]

\* The accept loop: one of the permits, or Busy.
Accept(s, u) ==
    /\ broker /\ sessions[s].at = "free" /\ Cardinality(Open) < MaxSessions
    /\ Becomes(s, "accepted", u, 0) /\ UNCHANGED names /\ SessionOnly

\* authenticate_peer reads the record once; then the uid's quota, or Busy.
Authenticate(s) ==
    LET u == sessions[s].uid
        held == {t \in Served(u) : sessions[t].at \in {"authenticated", "running"}} IN
    /\ sessions[s].at = "accepted" /\ UNCHANGED names /\ SessionOnly
    /\ IF record[u].status = "active" /\ Cardinality(held) < MaxPerUid
       THEN Becomes(s, "authenticated", u, record[u].principal) ELSE sessions' = [sessions EXCEPT ![s] = Free]

\* prepare_principal_profile_root and spawn_worker: the namespace is created where it is missing.
Prepare(s) ==
    LET p == sessions[s].principal IN
    /\ sessions[s].at = "authenticated" /\ SessionOnly
    /\ Becomes(s, "running", sessions[s].uid, p)
    /\ names' = [names EXCEPT ![p] = @ \cup {"active"}]
\* The worker keeps its policy cache and its lock beside the namespace.
Work(s) ==
    LET p == sessions[s].principal IN
    /\ sessions[s].at = "running" /\ UNCHANGED sessions /\ SessionOnly
    /\ names' = [names EXCEPT ![p] = @ \cup {"active", "cache", "lock"}]
\* A request refused or a worker that ended; both permits go with the handler.
Leave(s) ==
    /\ sessions[s].at \in {"authenticated", "running"}
    /\ sessions' = [sessions EXCEPT ![s] = Free] /\ UNCHANGED names /\ SessionOnly

-----------------------------------------------------------------------------
(* The helper; flock admits one at a time. *)

Step(at) == admin' = [admin EXCEPT !.at = at]
At(step) == admin.at = step /\ UNCHANGED <<issued, deaths>>
Returns == admin' = Resting
Halted == sessions' = [s \in Slots |-> Free]

\* A command is begun; the guards are the refusals that leave everything as it is.  An uid with a
\* session has a live process.
Begin(u, action) ==
    /\ admin = Resting
    /\ CASE action = "authorize" -> record[u].status # "active" /\ u \notin member /\ Served(u) = {} /\ issued < MaxPrincipals
         [] action = "revoke" -> record[u].status = "active"
         [] action = "purge" -> record[u].status # "none"
    /\ issued' = IF action = "authorize" THEN issued + 1 ELSE issued
    /\ admin' = [at |-> IF action = "authorize" THEN "join" ELSE "record", uid |-> u, action |-> action]
    /\ UNCHANGED <<record, member, broker, sessions, names, deaths, told>>

\* usermod; then the broker is restarted while the old record still refuses the uid.
Join == At("join") /\ member' = member \cup {admin.uid} /\ Step("restart")
        /\ UNCHANGED <<record, broker, sessions, names, told>>
\* restart_broker ends every session and every worker.
Restart ==
    /\ At("restart") /\ broker' = TRUE /\ Halted
    /\ Step(IF admin.action = "authorize" THEN "publish" ELSE "part")
    /\ UNCHANGED <<record, member, names, told>>
Publish ==
    /\ At("publish") /\ admin.uid \in member /\ Served(admin.uid) = {} /\ Returns
    /\ record' = [record EXCEPT ![admin.uid] = [status |-> "active", principal |-> issued]]
    /\ UNCHANGED <<member, broker, sessions, names, told>>
\* A check of authorize fails after usermod: cleanup_authorize.
RollBack ==
    /\ admin.at \in {"restart", "publish"} /\ admin.action = "authorize" /\ Returns
    /\ member' = member \ {admin.uid}
    /\ UNCHANGED <<record, broker, sessions, names, issued, deaths, told>>

\* Mutant: the sessions are ended before the record says revoked.
RecordLate ==
    /\ At("record") /\ Step(IF admin.action = "purge" THEN "stop" ELSE "part")
    /\ record' = [record EXCEPT ![admin.uid].status = "revoked"]
    /\ UNCHANGED <<member, broker, sessions, names, told>>
\* The record is replaced first, so whoever connects from here on is refused.
Record ==
    /\ At("record") /\ Step(IF admin.action = "purge" THEN "stop" ELSE "restart")
    /\ record' = [record EXCEPT ![admin.uid].status = "revoked"]
    /\ UNCHANGED <<member, broker, sessions, names, told>>
\* Mutant: the purge runs beside the broker.
StopNothing == At("stop") /\ Step("part") /\ UNCHANGED <<record, member, broker, sessions, names, told>>
Stop ==
    /\ At("stop") /\ broker' = FALSE /\ Halted /\ Step("part")
    /\ UNCHANGED <<record, member, names, told>>

\* remove_runtime_membership: revoke is then done, revoke-purge goes on to the state tree.
Part ==
    /\ At("part") /\ member' = member \ {admin.uid}
    /\ IF admin.action = "purge"
       THEN Step("detach") /\ UNCHANGED told
       ELSE Returns /\ told' = [told EXCEPT !.revoked = @ \cup {record[admin.uid].principal}]
    /\ UNCHANGED <<record, broker, sessions, names>>

Purged == record[admin.uid].principal
Remove(path, next) ==
    /\ names' = [names EXCEPT ![Purged] = @ \ {path}] /\ Step(next)
    /\ UNCHANGED <<record, member, broker, sessions, told>>
\* purge_principal_namespace: rename, remove, cache, lock.  Both names at once are refused.
Detach ==
    /\ At("detach") /\ ~({"active", "detached"} \subseteq names[Purged])
    /\ names' = [names EXCEPT ![Purged] =
                   IF "active" \in @ THEN (@ \ {"active"}) \cup {"detached"} ELSE @]
    /\ Step("delete") /\ UNCHANGED <<record, member, broker, sessions, told>>
Delete == At("delete") /\ Remove("detached", "cache")
DropCache == At("cache") /\ Remove("cache", "lock")
DropLock == At("lock") /\ Remove("lock", "start")
Start ==
    /\ At("start") /\ broker' = TRUE /\ Returns
    /\ told' = [revoked |-> told.revoked \cup {Purged}, purged |-> told.purged \cup {Purged}]
    /\ UNCHANGED <<record, member, sessions, names>>

\* A preflight, a removal or a sync fails: the helper's exit trap starts the broker again.
PurgeFails ==
    /\ admin.at \in {"detach", "delete", "cache", "lock"} /\ broker' = TRUE /\ Returns
    /\ UNCHANGED <<record, member, sessions, names, issued, deaths, told>>
\* The helper is killed and leaves everything as it is; or the machine restarts, and the broker with it.
Die ==
    /\ admin # Resting /\ deaths < MaxDeaths /\ deaths' = deaths + 1 /\ Returns
    /\ UNCHANGED <<record, member, broker, sessions, names, issued, told>>
Reboot ==
    /\ deaths < MaxDeaths /\ deaths' = deaths + 1 /\ Returns
    /\ broker' = TRUE /\ Halted
    /\ UNCHANGED <<record, member, names, issued, told>>

Next ==
    \/ \E s \in Slots : (\E u \in Uids : Accept(s, u)) \/ Authenticate(s) \/ Prepare(s) \/ Work(s) \/ Leave(s)
    \/ \E u \in Uids, action \in {"authorize", "revoke", "purge"} : Begin(u, action)
    \/ Join \/ Restart \/ Publish \/ RollBack \/ Record \/ Stop \/ Part
    \/ Detach \/ PurgeFails \/ Delete \/ DropCache \/ DropLock \/ Start
    \/ Die \/ Reboot
Spec == Init /\ [][Next]_vars

-----------------------------------------------------------------------------

TypeOK ==
    /\ \A u \in Uids : record[u].status \in {"none", "active", "revoked"} /\ record[u].principal \in 0..issued
    /\ member \subseteq Uids /\ broker \in BOOLEAN /\ names \in [Principals -> SUBSET Paths]
    /\ \A s \in Slots : sessions[s].at \in {"free", "accepted", "authenticated", "running"}

\* Once revoke or revoke-purge has returned, no session of that principal runs or will run, although
\* sessions read the record before they are served and never look at it again.
RevokedIsOver == \A s \in Slots : sessions[s].principal \notin told.revoked

\* A principal the helper reported purged leaves nothing behind and never comes back: no session that
\* was admitted before writes to its namespace after it, and a purge that died is completed by the next.
PurgedIsGone == \A p \in told.purged : names[p] = {}

\* A purge never finds both the namespace and its detached copy, so it is never refused: whatever died
\* between the rename and the removal, no session could create the namespace again.
PurgeIsNeverStuck == \A p \in Principals : ~({"active", "detached"} \subseteq names[p])
=============================================================================
