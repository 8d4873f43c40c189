----------------------------- MODULE BrowserHost ----------------------------
(***************************************************************************)
(* The authorization of the browser host (palladin-runtime, lib.rs): two   *)
(* slots of the secure store, the signing identity and the lifecycle token,*)
(* provisioned by `browser install` and removed by `browser uninstall` or a*)
(* purge, under the exclusive side of the repository's file lock.  Sessions*)
(* (native hosts and the commands that talk to them) take a snapshot when  *)
(* they start and revalidate its token under the shared side before every  *)
(* forward.                                                                *)
(*                                                                         *)
(* Slots are written one at a time; a command can fail or be killed        *)
(* between any two writes, which releases the lock.                        *)
(***************************************************************************)
EXTENDS Naturals

CONSTANTS
    Admins,     \* processes that install, uninstall or purge
    Sessions,   \* native hosts and inject commands
    MaxJobs     \* bound on the commands of the administrators

ASSUME JobsAssumption == MaxJobs \in Nat

VARIABLES
    identity,   \* BrowserHostEd25519SecretKeyV1, Missing or a generated key
    token,      \* BrowserHostLifecycleTokenV1, Missing or a generated token
    manifest,   \* the native messaging manifest is published
    fresh,      \* keys and tokens generated so far
    jobs,       \* commands started so far
    job,        \* what each administrator runs
    at,         \* and where it is in it
    session,    \* where each session is
    snapshot    \* the authorization it opened

slots == <<identity, token, manifest, fresh>>
admin == <<jobs, job, at>>
user == <<session, snapshot>>
vars == <<slots, admin, user>>

Missing == 0
Jobs == {"install", "uninstall", "purge"}
Critical == {"check", "setIdentity", "setToken", "addToken", "rollback", "publish",
             "dropToken", "dropKey", "unpublish"}

\* The two sides of the lock file.
Exclusive == {a \in Admins : at[a] \in Critical}
Shared == {s \in Sessions : session[s] \in {"locked", "forwarding"}}

-----------------------------------------------------------------------------
(* Administrators. *)

Goto(a, where) == at' = [at EXCEPT ![a] = where]
Return(a) == Goto(a, "idle")

Command(a) ==
    /\ at[a] = "idle"
    /\ jobs < MaxJobs
    /\ jobs' = jobs + 1
    /\ \E j \in Jobs : job' = [job EXCEPT ![a] = j]
    /\ Goto(a, "wait")
    /\ UNCHANGED <<slots, user>>

\* acquire_transaction_lock; a purge has removed the public data by then.
Acquire(a) ==
    /\ at[a] = "wait"
    /\ Exclusive = {} /\ Shared = {}
    /\ Goto(a, IF job[a] = "install" THEN "check" ELSE "dropToken")
    /\ UNCHANGED <<slots, jobs, job, user>>

\* What provisioning finds decides what it writes.
Check(a) ==
    /\ at[a] = "check"
    /\ \/ identity # Missing /\ token # Missing /\ Goto(a, "publish")
       \/ identity = Missing /\ token # Missing /\ Return(a)
       \/ identity # Missing /\ token = Missing /\ Goto(a, "addToken")
       \/ identity = Missing /\ token = Missing /\ Goto(a, "setIdentity")
    /\ UNCHANGED <<slots, jobs, job, user>>

SetIdentity(a) ==
    /\ at[a] = "setIdentity"
    /\ \/ /\ identity' = fresh + 1
          /\ fresh' = fresh + 1
          /\ Goto(a, "setToken")
       \/ /\ Return(a)
          /\ UNCHANGED <<identity, fresh>>
    /\ UNCHANGED <<token, manifest, jobs, job, user>>

\* A token that cannot be stored takes the identity generated with it along; an
\* identity that was there before stays.
SetToken(a) ==
    /\ at[a] \in {"setToken", "addToken"}
    /\ \/ /\ token' = fresh + 1
          /\ fresh' = fresh + 1
          /\ Goto(a, "publish")
       \/ /\ Goto(a, IF at[a] = "setToken" THEN "rollback" ELSE "idle")
          /\ UNCHANGED <<token, fresh>>
    /\ UNCHANGED <<identity, manifest, jobs, job, user>>

Rollback(a) ==
    /\ at[a] = "rollback"
    /\ identity' \in {Missing, identity}
    /\ Return(a)
    /\ UNCHANGED <<token, manifest, fresh, jobs, job, user>>

\* install_manifest renames a complete file into place, or fails.
Publish(a) ==
    /\ at[a] = "publish"
    /\ manifest' \in {TRUE, manifest}
    /\ Return(a)
    /\ UNCHANGED <<identity, token, fresh, jobs, job, user>>

\* Mutant: the key is deleted before the token.
DropTokenLast(a) ==
    /\ at[a] = "dropToken"
    /\ identity' = Missing
    /\ Goto(a, "dropKey")
    /\ UNCHANGED <<token, manifest, fresh, jobs, job, user>>

\* Sessions are revoked first, then their key is removed.
DropToken(a) ==
    /\ at[a] = "dropToken"
    /\ \/ token' = Missing /\ Goto(a, "dropKey")
       \/ UNCHANGED token /\ Return(a)
    /\ UNCHANGED <<identity, manifest, fresh, jobs, job, user>>

DropKey(a) ==
    /\ at[a] = "dropKey"
    /\ \/ /\ identity' = Missing
          /\ Goto(a, IF job[a] = "uninstall" THEN "unpublish" ELSE "idle")
       \/ UNCHANGED identity /\ Return(a)
    /\ UNCHANGED <<token, manifest, fresh, jobs, job, user>>

Unpublish(a) ==
    /\ at[a] = "unpublish"
    /\ manifest' \in {FALSE, manifest}
    /\ Return(a)
    /\ UNCHANGED <<identity, token, fresh, jobs, job, user>>

\* The process is killed: its lock goes, what it wrote stays.
Killed(a) ==
    /\ at[a] # "idle"
    /\ Return(a)
    /\ UNCHANGED <<slots, jobs, job, user>>

-----------------------------------------------------------------------------
(* Sessions. *)

Move(s, where) == session' = [session EXCEPT ![s] = where]

\* browser_host_authorization: one consistent snapshot under the shared lock.
Open(s) ==
    /\ session[s] = "off"
    /\ Exclusive = {}
    /\ identity # Missing /\ token # Missing
    /\ snapshot' = [snapshot EXCEPT ![s] = [identity |-> identity, token |-> token]]
    /\ Move(s, "ready")
    /\ UNCHANGED <<slots, admin>>

\* browser_host_lifecycle_guard_within: the wait is bounded, and a session that
\* does not get the lock in time ends.
Lock(s) ==
    /\ session[s] = "ready"
    /\ Move(s, IF Exclusive = {} THEN "locked" ELSE "off")
    /\ UNCHANGED <<slots, admin, snapshot>>

\* validate_browser_host_lifecycle_token
Validate(s) ==
    /\ session[s] = "locked"
    /\ Move(s, IF token = snapshot[s].token THEN "forwarding" ELSE "off")
    /\ UNCHANGED <<slots, admin, snapshot>>

\* The answer of the other side was passed on and the guard dropped.
Release(s) ==
    /\ session[s] = "forwarding"
    /\ Move(s, "ready")
    /\ UNCHANGED <<slots, admin, snapshot>>

Quit(s) ==
    /\ session[s] # "off"
    /\ Move(s, "off")
    /\ UNCHANGED <<slots, admin, snapshot>>

-----------------------------------------------------------------------------

NoSnapshot == [identity |-> Missing, token |-> Missing]

Init ==
    /\ identity = Missing /\ token = Missing /\ manifest = FALSE /\ fresh = 0
    /\ jobs = 0
    /\ job = [a \in Admins |-> "install"] /\ at = [a \in Admins |-> "idle"]
    /\ session = [s \in Sessions |-> "off"]
    /\ snapshot = [s \in Sessions |-> NoSnapshot]

AdminStep(a) ==
    \/ Command(a) \/ Acquire(a)
    \/ Check(a) \/ SetIdentity(a) \/ SetToken(a) \/ Rollback(a) \/ Publish(a)
    \/ DropToken(a) \/ DropKey(a) \/ Unpublish(a)
    \/ Killed(a)

SessionStep(s) ==
    \/ Open(s) \/ Lock(s) \/ Validate(s) \/ Release(s) \/ Quit(s)

Next ==
    \/ \E a \in Admins : AdminStep(a)
    \/ \E s \in Sessions : SessionStep(s)

Spec == Init /\ [][Next]_vars

-----------------------------------------------------------------------------
(* Properties. *)

TypeOK ==
    /\ identity \in Nat /\ token \in Nat /\ fresh \in Nat /\ manifest \in BOOLEAN
    /\ jobs \in 0 .. MaxJobs
    /\ job \in [Admins -> Jobs] /\ at \in [Admins -> {"idle", "wait"} \union Critical]
    /\ session \in [Sessions -> {"off", "ready", "locked", "forwarding"}]
    /\ snapshot \in [Sessions -> [identity : Nat, token : Nat]]
    /\ \A s \in Sessions : session[s] # "off" => snapshot[s].token # Missing

\* A session forwards only with the key and the token that are stored while it does,
\* however often they were removed and provisioned again since it started.
ForwardsAuthorized ==
    \A s \in Sessions :
        session[s] = "forwarding" => snapshot[s] = [identity |-> identity, token |-> token]

\* A token is never left without its key, so no command that is interrupted leaves an
\* installation that provisioning refuses (InvalidStoredSecret).
NoOrphanToken == token # Missing => identity # Missing

\* Before an uninstall reports success both slots are empty, and nothing is being
\* forwarded with what they held.
UninstallIsComplete ==
    \A a \in Admins :
        at[a] = "unpublish" => identity = Missing /\ token = Missing /\ Shared = {}

\* Provisioning completes an installation without a token; it never replaces a signing
\* identity that extensions may have pinned.
IdentityKept == [][identity # Missing => identity' \in {Missing, identity}]_vars
=============================================================================
