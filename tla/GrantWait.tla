------------------------------- MODULE GrantWait -------------------------------
(***************************************************************************)
(* Waiting for a person to approve a grant: deliver_credential and         *)
(* execute_atomic_script around await_grant_with_backoff.  The wait keeps  *)
(* two clocks: elapsed, the nominal schedule of heartbeats and polls that  *)
(* the loop advances itself, and the wall clock (now, from the start of    *)
(* the wait), which bounds it; a poll takes wall time that elapsed never   *)
(* sees.  Timers fire when they are due: scheduling delay of the process   *)
(* is not modelled.  The service and the person are the environment.       *)
(***************************************************************************)
EXTENDS Integers

CONSTANTS
    Flows,             \* the flows considered
    OneShot,           \* a delivery consumes the grant
    WaitOptions,       \* wait_ms asked for, in ticks
    PollOptions,       \* poll_ms asked for, in ticks
    MaxWait,           \* MAX_WAIT_MS
    DefaultPoll,       \* DEFAULT_POLL_MS
    MinPoll,           \* MIN_POLL_MS
    DefaultHeartbeat,  \* DEFAULT_HEARTBEAT_MS
    MinHeartbeat,      \* MIN_HEARTBEAT_MS
    DefaultPollTimeout \* DEFAULT_POLL_TIMEOUT_MS

VARIABLES
    grant,     \* the grant at the service
    approved,  \* wall time of its approval
    token,     \* the operation's cancellation token
    flow,      \* deliver_credential or execute_atomic_script
    policy,    \* what resolve_wait_policy makes of the options
    pc,        \* the call in progress, or the sleep between two
    call,      \* the API call in flight: sent, or served with an answer
    now,       \* wall clock since the wait began
    elapsed,   \* elapsed_ms
    wake,      \* wall time at which the sleep ends
    nextPoll,  \* next_poll_ms
    curPoll,   \* current_poll_ms
    nextBeat,  \* next_heartbeat_ms
    deadline,  \* poll_deadline
    lastBeat,  \* wall time of the last heartbeat
    lastPoll,  \* wall time at which the last poll began
    slow,      \* some poll took time or was given up
    lost,      \* a delivery was given up after it was sent
    result

service == <<grant, approved>>
schedule == <<elapsed, wake, nextPoll, curPoll, nextBeat>>
seen == <<lastBeat, lastPoll>>
setup == <<flow, policy>>
vars == <<service, token, setup, pc, call, now, schedule, deadline, seen, slow, lost, result>>

Statuses == {"pending", "active", "denied", "revoked", "expired", "consumed"}
Never == -1
NoCall == [state |-> "idle", answer |-> "none"]
Sent == [state |-> "sent", answer |-> "none"]
Calls == {"fetch", "request", "status", "deliver", "refetch"}
Polling == {"status", "deliver"}

Lower(a, b) == IF a < b THEN a ELSE b
Higher(a, b) == IF a > b THEN a ELSE b

\* The delay bounds of a wait.
ResolveWaitPolicy(wait, poll) ==
    LET pollMs == Higher(poll, MinPoll)
        beat == Higher(Lower(DefaultHeartbeat, pollMs), MinHeartbeat)
    IN [wait |-> wait, poll |-> pollMs, heartbeat |-> beat,
        timeout |-> Lower(DefaultPollTimeout, beat)]

MaxPoll == Higher(DefaultPoll, policy.poll)

Init ==
    /\ grant = "none" /\ approved = Never
    /\ token = FALSE
    /\ flow \in Flows
    /\ \E w \in WaitOptions, p \in PollOptions : policy = ResolveWaitPolicy(w, p)
    /\ pc = "fetch" /\ call = Sent
    /\ now = 0
    /\ elapsed = 0 /\ wake = 0 /\ nextPoll = 0 /\ curPoll = 0 /\ nextBeat = 0
    /\ deadline = 0 /\ lastBeat = 0 /\ lastPoll = 0
    /\ slow = FALSE /\ lost = FALSE
    /\ result = "none"

-----------------------------------------------------------------------------
(* The environment.                                                         *)

\* The person answers, or the grant ends.
Decide(s) ==
    /\ \/ grant = "pending" /\ s \in {"active", "denied", "expired"}
       \/ grant = "active" /\ s \in {"revoked", "expired"}
    /\ grant' = s
    /\ approved' = IF s = "active" THEN now ELSE approved
    /\ UNCHANGED <<token, setup, pc, call, now, schedule, deadline, seen, slow, lost, result>>

Cancel ==
    /\ ~token /\ pc # "done"
    /\ token' = TRUE
    /\ UNCHANGED <<service, setup, pc, call, now, schedule, deadline, seen, slow, lost, result>>

Consumed == IF grant = "active" /\ OneShot THEN "consumed" ELSE grant

\* What the service answers: the package or credential of an active grant,
\* the status of another, or a new request for approval.
Serve(a) ==
    /\ call.state = "sent"
    /\ call' = [state |-> "served", answer |-> a]
    /\ \/ /\ pc = "status" /\ a = grant
          /\ UNCHANGED grant
       \/ /\ pc \in {"fetch", "refetch", "deliver"}
          /\ IF grant = "active" THEN a = "granted" /\ grant' = Consumed
             ELSE IF flow = "script"
             THEN /\ a = IF grant \in {"none", "pending"} THEN "unavailable" ELSE grant
                  /\ UNCHANGED grant
             ELSE /\ a \in {"pending"} \cup ({grant} \ {"none"})
                  /\ grant' = IF grant = "none" THEN "pending" ELSE grant
       \/ /\ pc = "request"
          /\ grant' = IF grant = "none" THEN "pending" ELSE grant
          /\ a = grant'
    /\ UNCHANGED <<approved, token, setup, pc, now, schedule, deadline, seen, slow, lost, result>>

\* A call that is given up may still be served.
GiveUp ==
    /\ call' = NoCall
    /\ grant' \in IF pc \in {"fetch", "deliver", "refetch"} /\ call.state = "sent"
                  THEN {grant, Consumed} ELSE {grant}
    /\ lost' = (lost \/ pc \in {"fetch", "deliver", "refetch"})
    /\ UNCHANGED approved

-----------------------------------------------------------------------------
(* The code.                                                                *)

Return(r) ==
    /\ pc' = "done" /\ result' = r
    /\ call' = NoCall
    /\ UNCHANGED <<setup, now, schedule, deadline, seen, slow>>

Begin(c) == pc' = c /\ call' = Sent

\* The head of the loop with the schedule as it will be.
Loop(e, np, nb) ==
    /\ elapsed' = e /\ nextPoll' = np /\ nextBeat' = nb
    /\ IF e >= policy.wait
         THEN pc' = "done" /\ result' = "pending" /\ UNCHANGED wake
         ELSE /\ pc' = "sleep" /\ UNCHANGED result
              /\ wake' = now + Lower(Lower(np, nb), policy.wait) - e

\* await_grant_with_backoff from its first line.
StartWait ==
    /\ call' = NoCall
    /\ curPoll' = policy.poll
    /\ IF policy.wait = 0
         THEN pc' = "done" /\ result' = "pending" /\ UNCHANGED <<elapsed, wake, nextPoll, nextBeat>>
         ELSE Loop(0, policy.poll, policy.heartbeat)
    /\ UNCHANGED <<setup, now, deadline, seen, slow>>

Answered(c, a) == pc = c /\ call.state = "served" /\ call.answer = a /\ ~token

\* Answers that are not a grant and not a wait.
Final == Statuses \ {"pending", "active"}

\* The first call.  The wait policy is resolved once it is answered.
Fetched ==
    /\ \/ Answered("fetch", "granted") /\ Return("granted")
       \/ \E a \in Final : Answered("fetch", a) /\ Return(a)
       \/ /\ Answered("fetch", "pending")
          /\ IF policy.wait > MaxWait THEN Return("error") ELSE StartWait
       \/ /\ Answered("fetch", "unavailable")
          /\ Begin("request")
          /\ UNCHANGED <<setup, now, schedule, deadline, seen, slow, result>>
    /\ UNCHANGED <<service, token, lost>>

\* request_script_execution_access: an active grant ends the wait at once.
Requested ==
    /\ \/ \E a \in Final : Answered("request", a)
             /\ IF policy.wait > MaxWait THEN Return("error") ELSE Return(a)
       \/ /\ Answered("request", "pending")
          /\ IF policy.wait > MaxWait THEN Return("error") ELSE StartWait
       \/ /\ Answered("request", "active")
          /\ IF policy.wait > MaxWait THEN Return("error")
             ELSE Begin("refetch") /\ UNCHANGED <<setup, now, schedule, deadline, seen, slow, result>>
    /\ UNCHANGED <<service, token, lost>>

\* Mutant: a poll has its own time limit and not the wait's.
PollDeadlineOwn == now + policy.timeout

\* A poll ends with the wait, or its own timeout.
PollDeadline == Lower(policy.wait, now + policy.timeout)

\* The sleep is over: heartbeat and poll that are due, in this order.
Wake ==
    /\ pc = "sleep" /\ ~token
    /\ now = wake
    /\ LET e == Lower(Lower(nextPoll, nextBeat), policy.wait)
           nb == IF e >= nextBeat THEN nextBeat + policy.heartbeat ELSE nextBeat
       IN /\ lastBeat' = IF e >= nextBeat THEN now ELSE lastBeat
          /\ IF e >= nextPoll
               THEN /\ Begin("status")
                    /\ deadline' = PollDeadline
                    /\ lastPoll' = now
                    /\ elapsed' = e /\ nextBeat' = nb
                    /\ UNCHANGED <<wake, nextPoll, result>>
               ELSE /\ Loop(e, nextPoll, nb)
                    /\ UNCHANGED <<deadline, lastPoll, call>>
    /\ UNCHANGED <<service, token, setup, now, curPoll, slow, lost>>

\* The wall clock ends the wait first.
WallDeadline ==
    /\ pc = "sleep" /\ ~token
    /\ now = policy.wait /\ wake > now
    /\ Return("pending")
    /\ UNCHANGED <<service, token, lost>>

\* The interval doubles up to the default or, if larger, the one asked for.
Backoff == Lower(curPoll * 2, MaxPoll)

\* The schedule after a poll that did not end the wait.
PollAgain ==
    /\ call' = NoCall
    /\ curPoll' = Backoff
    /\ Loop(elapsed, nextPoll + Backoff, nextBeat)
    /\ UNCHANGED <<setup, now, deadline, lastPoll>>

\* One poll: the status, and the credential when it is active.
Polled ==
    /\ \/ /\ \E c \in Polling : Answered(c, "pending")
          /\ PollAgain /\ UNCHANGED <<slow, lastBeat>>
       \/ \E c \in Polling, a \in Final : Answered(c, a) /\ Return(a)
       \/ /\ Answered("status", "active")
          /\ Begin(IF flow = "script" THEN "refetch" ELSE "deliver")
          /\ UNCHANGED <<setup, now, schedule, deadline, seen, slow, result>>
       \/ Answered("deliver", "granted") /\ Return("granted")
    /\ UNCHANGED <<service, token, lost>>

\* A hung poll is dropped at its deadline; the caller is told it still waits.
PollTimeout ==
    /\ pc \in Polling /\ ~token
    /\ now = deadline
    /\ lastBeat' = now
    /\ slow' = TRUE
    /\ GiveUp
    /\ curPoll' = Backoff
    /\ Loop(elapsed, nextPoll + Backoff, nextBeat)
    /\ UNCHANGED <<token, setup, now, deadline, lastPoll>>

\* An API error of a call ends the operation.
CallFails ==
    /\ pc \in Calls /\ ~token
    /\ GiveUp
    /\ pc' = "done" /\ result' = "error"
    /\ UNCHANGED <<token, setup, now, schedule, deadline, seen, slow>>

\* The package of a script whose grant is active.
Refetched ==
    /\ \E a \in {"granted", "unavailable"} \cup Final : Answered("refetch", a) /\ Return(a)
    /\ UNCHANGED <<service, token, lost>>

\* Every await selects on the token.
Cancelled ==
    /\ token /\ pc # "done"
    /\ GiveUp
    /\ pc' = "done" /\ result' = "cancelled"
    /\ UNCHANGED <<token, setup, now, schedule, deadline, seen, slow>>

\* Time passes while no timer is due; the calls around the wait have none.
Tick ==
    /\ \/ pc = "sleep" /\ now < wake /\ now < policy.wait
       \/ pc \in Polling /\ now < deadline
    /\ ~token
    /\ now' = now + 1
    /\ slow' = (slow \/ pc \in Polling)
    /\ UNCHANGED <<service, token, setup, pc, call, schedule, deadline, seen, lost, result>>

-----------------------------------------------------------------------------
Code ==
    \/ Fetched \/ Requested \/ Wake \/ WallDeadline \/ Polled \/ PollTimeout
    \/ Refetched \/ Cancelled

Next ==
    \/ \E s \in Statuses : Decide(s)
    \/ \E a \in Statuses \cup {"granted", "unavailable"} : Serve(a)
    \/ Code \/ Cancel \/ CallFails \/ Tick
    \/ pc = "done" /\ UNCHANGED vars

Spec == Init /\ [][Next]_vars

\* Time passes and the code runs; a poll need never be answered, but the calls
\* outside the wait are (or fail, by the API client's own timeout).
FairSpec ==
    /\ Spec
    /\ WF_vars(Code) /\ WF_vars(Tick)
    /\ WF_vars(pc \in Calls \ Polling /\ CallFails)

-----------------------------------------------------------------------------
TypeOK ==
    /\ grant \in Statuses \cup {"none"} /\ approved \in Int
    /\ token \in BOOLEAN /\ slow \in BOOLEAN /\ lost \in BOOLEAN
    /\ pc \in Calls \cup {"sleep", "done"}
    /\ call.state \in {"idle", "sent", "served"}
    /\ pc \in Calls => call.state # "idle"
    /\ now \in Nat /\ elapsed \in Nat /\ wake \in Nat /\ nextPoll \in Nat
    /\ curPoll \in 0 .. MaxPoll
    /\ result \in Statuses \cup {"none", "granted", "unavailable", "error", "cancelled"}

(***************************************************************************)
(* The wait never outlives what was asked for, whatever the polls take,    *)
(* and gives up with "pending" only when that time has really passed.      *)
(***************************************************************************)
DeadlineHeld ==
    /\ now <= policy.wait
    /\ result = "pending" => now = policy.wait

(***************************************************************************)
(* A caller that waits hears from the wait within two heartbeat intervals, *)
(* also when a poll hangs or is slow.                                      *)
(***************************************************************************)
HeartbeatHeard ==
    pc \in Polling \cup {"sleep"} => now - lastBeat <= 2 * policy.heartbeat

(***************************************************************************)
(* The service is polled no faster than the policy says and, while the     *)
(* wait lasts, no slower than the largest backoff and one hung poll.       *)
(***************************************************************************)
PollPaced ==
    [][/\ (pc = "sleep" /\ pc' = "status") => now - lastPoll >= policy.poll
       /\ pc' = "sleep" => now' - lastPoll' <= MaxPoll + policy.timeout]_vars

(***************************************************************************)
(* With prompt answers, an approval that stands is missed only if it comes *)
(* within the last polling interval of the wait.                           *)
(***************************************************************************)
ApprovalNoticed ==
    (result = "pending" /\ ~slow /\ grant = "active") =>
        approved + curPoll >= policy.wait

(***************************************************************************)
(* A single-use grant that this wait asked for is reported as consumed     *)
(* only if a delivery of it was given up in flight: nothing else uses it.  *)
(***************************************************************************)
ConsumedExplained == result = "consumed" => lost

(***************************************************************************)
(* Every wait ends, even if the service never answers a poll again.        *)
(***************************************************************************)
WaitEnds == <>(pc = "done")
=============================================================================
