--------------------------- MODULE OperationLease ---------------------------
(***************************************************************************)
(* The commit/revoke protocol of one operation lease                       *)
(* (palladin-platform/src/secure_store.rs).                                *)
(*                                                                         *)
(* A lease is shared by the threads that commit under it and by the        *)
(* lifecycle observers that revoke it.  They meet on one atomic word,      *)
(* commitState, and on a cancellation token.  Every load and every         *)
(* compare-exchange is a step of its own, because the protocol is about    *)
(* what happens between them.  A committer follows                         *)
(* commit_transition_with_copies_inner: begin_commit, save the journal,    *)
(* seal, write the durable transition marker, drop the guard.  The journal *)
(* itself is the subject of IntegrityRoot.                                 *)
(***************************************************************************)
EXTENDS Integers

CONSTANTS
    Committers,   \* threads that run durable commits under the lease
    Revokers,     \* calls of revoke()
    MaxCommits    \* how many commits one committer starts

ASSUME MaxCommitsAssumption == MaxCommits \in Nat

VARIABLES
    commitState,  \* the AtomicU8 of the lease
    cancelled,    \* cancellation.is_cancelled()
    expired,      \* Instant::now() >= deadline
    cpc,          \* what each committer does next
    started,      \* commits each committer has started
    late,         \* committers whose current commit began after a revoke() had returned
    marker,       \* committers whose current commit wrote its transition marker
    rpc,          \* what each revoker does next
    seen          \* the word a revoker loaded

vars == <<commitState, cancelled, expired, cpc, started, late, marker, rpc, seen>>

States == {"ACTIVE", "PREPARING", "REVOKED", "REVOKE_PENDING", "SEALED"}

CommitterSteps == {"idle", "cas", "recheck", "save", "sealCheck", "sealCas",
                   "mark", "dropSealed", "drop", "dropPending"}

RevokerSteps == {"idle", "load", "cas", "cancel", "done"}

TypeOK ==
    /\ commitState \in States
    /\ cancelled \in BOOLEAN
    /\ expired \in BOOLEAN
    /\ cpc \in [Committers -> CommitterSteps]
    /\ started \in [Committers -> 0 .. MaxCommits]
    /\ late \subseteq Committers
    /\ marker \subseteq Committers
    /\ rpc \in [Revokers -> RevokerSteps]
    /\ seen \in [Revokers -> States]

\* OperationLease::bounded: a new lease is active, with its deadline ahead.
Init ==
    /\ commitState = "ACTIVE"
    /\ cancelled = FALSE
    /\ expired = FALSE
    /\ cpc = [c \in Committers |-> "idle"]
    /\ started = [c \in Committers |-> 0]
    /\ late = {}
    /\ marker = {}
    /\ rpc = [r \in Revokers |-> "idle"]
    /\ seen = [r \in Revokers |-> "ACTIVE"]

-----------------------------------------------------------------------------
(* The committer. *)

Goto(c, step) == cpc' = [cpc EXCEPT ![c] = step]

\* Mutant: ensure_active that only looks at the deadline.
EnsureActiveIgnoringToken == ~expired

\* ensure_active: not cancelled, and the deadline has not passed.
EnsureActive == ~cancelled /\ ~expired

RevokeReturned == \E r \in Revokers : rpc[r] = "done"

\* begin_commit, first check: a failure returns before the word is touched.
BeginCheck(c) ==
    /\ cpc[c] = "idle"
    /\ started[c] < MaxCommits
    /\ started' = [started EXCEPT ![c] = @ + 1]
    /\ Goto(c, IF EnsureActive THEN "cas" ELSE "idle")
    /\ late' = IF RevokeReturned THEN late \union {c} ELSE late \ {c}
    /\ marker' = marker \ {c}
    /\ UNCHANGED <<commitState, cancelled, expired, rpc, seen>>

\* begin_commit, compare_exchange(COMMIT_ACTIVE, COMMIT_PREPARING).
BeginCas(c) ==
    /\ cpc[c] = "cas"
    /\ IF commitState = "ACTIVE"
       THEN commitState' = "PREPARING" /\ Goto(c, "recheck")
       ELSE UNCHANGED commitState /\ Goto(c, "idle")
    /\ UNCHANGED <<cancelled, expired, started, late, marker, rpc, seen>>

\* begin_commit, second ensure_active: a failure drops the guard at once.
BeginRecheck(c) ==
    /\ cpc[c] = "recheck"
    /\ Goto(c, IF EnsureActive THEN "save" ELSE "drop")
    /\ UNCHANGED <<commitState, cancelled, expired, started, late, marker, rpc, seen>>

\* save_journal under the guard; an error returns early and drops it.
SaveJournal(c) ==
    /\ cpc[c] = "save"
    /\ \E step \in {"sealCheck", "drop"} : Goto(c, step)
    /\ UNCHANGED <<commitState, cancelled, expired, started, late, marker, rpc, seen>>

\* seal, the deadline and cancellation checks.
SealCheck(c) ==
    /\ cpc[c] = "sealCheck"
    /\ Goto(c, IF EnsureActive THEN "sealCas" ELSE "drop")
    /\ UNCHANGED <<commitState, cancelled, expired, started, late, marker, rpc, seen>>

\* seal, compare_exchange(COMMIT_PREPARING, COMMIT_SEALED).
SealCas(c) ==
    /\ cpc[c] = "sealCas"
    /\ IF commitState = "PREPARING"
       THEN commitState' = "SEALED" /\ Goto(c, "mark")
       ELSE UNCHANGED commitState /\ Goto(c, "drop")
    /\ UNCHANGED <<cancelled, expired, started, late, marker, rpc, seen>>

\* write_trust_state(transition); an error leaves the marker unwritten.
WriteMarker(c) ==
    /\ cpc[c] = "mark"
    /\ marker' \in {marker, marker \union {c}}
    /\ Goto(c, "dropSealed")
    /\ UNCHANGED <<commitState, cancelled, expired, started, late, rpc, seen>>

\* Drop of a sealed guard: compare_exchange(COMMIT_SEALED, COMMIT_ACTIVE).
DropSealed(c) ==
    /\ cpc[c] = "dropSealed"
    /\ commitState' = IF commitState = "SEALED" THEN "ACTIVE" ELSE commitState
    /\ Goto(c, "idle")
    /\ UNCHANGED <<cancelled, expired, started, late, marker, rpc, seen>>

\* Drop of an unsealed guard: compare_exchange(COMMIT_PREPARING, COMMIT_ACTIVE).
DropUnsealed(c) ==
    /\ cpc[c] = "drop"
    /\ IF commitState = "PREPARING"
       THEN commitState' = "ACTIVE" /\ Goto(c, "idle")
       ELSE UNCHANGED commitState /\ Goto(c, "dropPending")
    /\ UNCHANGED <<cancelled, expired, started, late, marker, rpc, seen>>

\* ... and, when that fails, compare_exchange(COMMIT_REVOKE_PENDING, COMMIT_REVOKED).
DropPending(c) ==
    /\ cpc[c] = "dropPending"
    /\ commitState' = IF commitState = "REVOKE_PENDING" THEN "REVOKED" ELSE commitState
    /\ Goto(c, "idle")
    /\ UNCHANGED <<cancelled, expired, started, late, marker, rpc, seen>>

Begin(c) == BeginCheck(c) \/ BeginCas(c) \/ BeginRecheck(c)

Finish(c) ==
    \/ SaveJournal(c)
    \/ SealCheck(c)
    \/ SealCas(c)
    \/ WriteMarker(c)
    \/ DropSealed(c)
    \/ DropUnsealed(c)
    \/ DropPending(c)

-----------------------------------------------------------------------------
(* The revoker: one call of OperationLeaseState::revoke. *)

Enter(r, step) == rpc' = [rpc EXCEPT ![r] = step]

\* A lifecycle notification, or OperationLease::cancel, calls revoke().
RevokeCall(r) ==
    /\ rpc[r] = "idle"
    /\ Enter(r, "load")
    /\ UNCHANGED <<commitState, cancelled, expired, cpc, started, late, marker, seen>>

\* Mutant: a word already revoked is retried instead of accepted.
RevokeLoadRetries(r) ==
    /\ rpc[r] = "load"
    /\ seen' = [seen EXCEPT ![r] = commitState]
    /\ Enter(r, CASE commitState \in {"ACTIVE", "PREPARING"} -> "cas"
                  [] commitState = "SEALED" -> "cancel"
                  [] OTHER -> "load")
    /\ UNCHANGED <<commitState, cancelled, expired, cpc, started, late, marker>>

\* commit_state.load(SeqCst), and the match on what it returned.
RevokeLoad(r) ==
    /\ rpc[r] = "load"
    /\ seen' = [seen EXCEPT ![r] = commitState]
    /\ Enter(r, IF commitState \in {"ACTIVE", "PREPARING"} THEN "cas" ELSE "cancel")
    /\ UNCHANGED <<commitState, cancelled, expired, cpc, started, late, marker>>

\* The compare_exchange of the two retrying arms; a failure loops.
RevokeCas(r) ==
    /\ rpc[r] = "cas"
    /\ IF commitState = seen[r]
       THEN /\ commitState' = IF seen[r] = "ACTIVE" THEN "REVOKED" ELSE "REVOKE_PENDING"
            /\ Enter(r, "cancel")
       ELSE UNCHANGED commitState /\ Enter(r, "load")
    /\ UNCHANGED <<cancelled, expired, cpc, started, late, marker, seen>>

\* cancellation.cancel(), and return.
RevokeCancel(r) ==
    /\ rpc[r] = "cancel"
    /\ cancelled' = TRUE
    /\ Enter(r, "done")
    /\ UNCHANGED <<commitState, expired, cpc, started, late, marker, seen>>

RevokeStep(r) == RevokeLoad(r) \/ RevokeCas(r) \/ RevokeCancel(r)

\* The deadline passes.
Expire ==
    /\ ~expired
    /\ expired' = TRUE
    /\ UNCHANGED <<commitState, cancelled, cpc, started, late, marker, rpc, seen>>

Next ==
    \/ \E c \in Committers : Begin(c) \/ Finish(c)
    \/ \E r \in Revokers : RevokeCall(r) \/ RevokeStep(r)
    \/ Expire

\* A thread that runs a commit or a revocation is scheduled until it returns;
\* nothing obliges anyone to start one.
Fairness ==
    /\ \A c \in Committers : WF_vars(BeginCas(c) \/ BeginRecheck(c) \/ Finish(c))
    /\ \A r \in Revokers : WF_vars(RevokeStep(r))

Spec == Init /\ [][Next]_vars /\ Fairness

-----------------------------------------------------------------------------
(* Properties. *)

HoldingSteps == CommitterSteps \ {"idle", "cas"}

Holds(c) == cpc[c] \in HoldingSteps

\* Two commits never hold the lease's guard together: begin_commit's
\* compare-exchange admits one, and no drop or revocation lets in a second
\* before the first is gone.
GuardExclusive == \A c, d \in Committers : Holds(c) /\ Holds(d) => c = d

\* The word is SEALED exactly while a guard is between its seal and its drop, so
\* the durable marker is written under a seal that nobody has taken away.
SealedIsHeld ==
    commitState = "SEALED" <=> \E c \in Committers : cpc[c] \in {"mark", "dropSealed"}

\* A commit that begins after some revoke() has returned never writes its marker.
LateNeverCommits == late \intersect marker = {}

ReachedByRevoke == commitState \in {"REVOKE_PENDING", "REVOKED"}

\* A revocation that reached the word is never lost: neither a seal nor a drop
\* brings a revoked lease back to life.
RevocationSticks ==
    [][ReachedByRevoke => ReachedByRevoke']_vars

\* A revocation parked behind a commit in preparation is completed by that
\* commit's drop.
PendingCompletes == commitState = "REVOKE_PENDING" ~> commitState = "REVOKED"

\* revoke() returns: its retry loop ends although every compare-exchange may
\* lose against a committer.
RevokeReturns == \A r \in Revokers : rpc[r] = "load" ~> rpc[r] = "done"

\* "Before the marker, revocation aborts with no committed deletion": once a
\* revoke() has returned with no commit sealed, none is sealed afterwards.
RevocationAborts ==
    [][RevokeReturned /\ commitState # "SEALED" => commitState' # "SEALED"]_vars
=============================================================================
