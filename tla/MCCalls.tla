------------------------------- MODULE MCCalls --------------------------------
(***************************************************************************)
(* The life of a call in one run: `scenario' picks the operation lease     *)
(* (OperationLease), the MCP server's bridge (McpServer), the wait for a   *)
(* grant (GrantWait) or a request to the service (ApiCalls), and the       *)
(* machine it picks runs alone.                                            *)
(***************************************************************************)
EXTENDS OperationLease, ApiTypes, Sequences, FiniteSets

CONSTANTS Assigned, MaxRequests, MaxCancels, MaxBatches, MaxTracked, MaxParallel, Flows, OneShot, WaitOptions,
          PollOptions, MaxWait, DefaultPoll, MinPoll, DefaultHeartbeat, MinHeartbeat, DefaultPollTimeout,
          Attempts, SmallLimit, LargeLimit, MaxChunks, None

ASSUME WaitAssumption ==
    /\ Flows \subseteq {"credential", "script"}
    /\ OneShot \in BOOLEAN
    /\ WaitOptions \subseteq Nat /\ PollOptions \subseteq Nat
    /\ 0 < MinHeartbeat /\ MinHeartbeat <= DefaultHeartbeat
    /\ 0 < MinPoll /\ MinPoll <= DefaultPoll
    /\ MinHeartbeat <= MinPoll
    /\ DefaultPollTimeout \in Nat \ {0}

VARIABLES
    scenario,
    request, cancels, bridge, input, to_server, to_client, handlers, stopped, serving, output, ended,
    grant, approved, token, flow, policy, pc, call, now, elapsed, wake, nextPoll, curPoll, nextBeat, deadline,
    lastBeat, lastPoll, slow, lost, outcome,
    sending, stage, attempt, nonce, accepted, applied, response, held, result

\* A call without a permit, one with, and one for another profile.
Calls == {[tool |-> "list_browser_sessions", profile |-> "own", valid |-> TRUE],
          [tool |-> "get_credential", profile |-> "own", valid |-> TRUE],
          [tool |-> "get_credential", profile |-> "other", valid |-> TRUE]}

M == INSTANCE McpServer WITH result <- ended
W == INSTANCE GrantWait WITH result <- outcome
A == INSTANCE ApiCalls WITH request <- sending, at <- stage, seen <- accepted

mcpVars == <<request, cancels, bridge, input, to_server, to_client, handlers, stopped, serving, output, ended>>
waitVars == <<grant, approved, token, flow, policy, pc, call, now, elapsed, wake, nextPoll, curPoll, nextBeat,
              deadline, lastBeat, lastPoll, slow, lost, outcome>>
apiVars == <<sending, stage, attempt, nonce, accepted, applied, response, held, result>>
all == <<scenario, vars, mcpVars, waitVars, apiVars>>

Unused == "unused"
NoMcp ==
    /\ request = Unused /\ cancels = Unused /\ bridge = Unused /\ input = Unused /\ to_server = Unused
    /\ to_client = Unused /\ handlers = Unused /\ stopped = Unused /\ serving = Unused /\ output = Unused
    /\ ended = Unused
NoWait ==
    /\ grant = Unused /\ approved = Unused /\ token = Unused /\ flow = Unused /\ policy = Unused /\ pc = Unused
    /\ call = Unused /\ now = Unused /\ elapsed = Unused /\ wake = Unused /\ nextPoll = Unused
    /\ curPoll = Unused /\ nextBeat = Unused /\ deadline = Unused /\ lastBeat = Unused /\ lastPoll = Unused
    /\ slow = Unused /\ lost = Unused /\ outcome = Unused
NoApi ==
    /\ sending = Unused /\ stage = Unused /\ attempt = Unused /\ nonce = Unused /\ accepted = Unused
    /\ applied = Unused /\ response = Unused /\ held = Unused /\ result = Unused

\* The machine of OperationLease rests in an initial state while another runs.
InitOne ==
    /\ Init
    /\ \/ scenario = "lease" /\ NoMcp /\ NoWait /\ NoApi
       \/ scenario = "mcp" /\ M!Init /\ NoWait /\ NoApi
       \/ scenario = "wait" /\ W!Init /\ NoMcp /\ NoApi
       \/ scenario = "api" /\ A!Init /\ NoMcp /\ NoWait

InLease == scenario = "lease" /\ UNCHANGED <<scenario, mcpVars, waitVars, apiVars>>
InMcp == scenario = "mcp" /\ UNCHANGED <<scenario, vars, waitVars, apiVars>>
InWait == scenario = "wait" /\ UNCHANGED <<scenario, vars, mcpVars, apiVars>>
InApi == scenario = "api" /\ UNCHANGED <<scenario, vars, mcpVars, waitVars>>

\* Machines that come to rest when their bounds are used up.
Rest == scenario \in {"lease"} /\ UNCHANGED all

NextOne ==
    \/ InLease /\ Next
    \/ InMcp /\ M!Next
    \/ InWait /\ W!Next
    \/ InApi /\ A!Next
    \/ Rest

\* What each machine assumes of its scheduling (Fairness of OperationLease and
\* McpServer, FairSpec of GrantWait, Spec of ApiCalls).
FairOne ==
    /\ \A c \in Committers : WF_all(InLease /\ (BeginCas(c) \/ BeginRecheck(c) \/ Finish(c)))
    /\ \A r \in Revokers : WF_all(InLease /\ RevokeStep(r))
    /\ WF_all(InMcp /\ (M!Invoke \/ M!Return)) /\ WF_all(InMcp /\ M!ServerReads) /\ WF_all(InMcp /\ M!OutputReads)
    /\ WF_all(InWait /\ W!Code) /\ WF_all(InWait /\ W!Tick)
    /\ WF_all(InWait /\ pc \in W!Calls \ W!Polling /\ W!CallFails)
    /\ WF_all(InApi /\ A!Step) /\ WF_all(InApi /\ A!Lose)

SpecOne == InitOne /\ [][NextOne]_all /\ FairOne

-----------------------------------------------------------------------------
\* No request is answered twice, the requests of a batch are answered
\* together, and a cancelled one is not answered (collect_batch_response,
\* consume_batch_cancellation).
RepliesAreOwn == scenario = "mcp" => M!RepliesAreOwn

\* No wait goes on past the time it was given, whatever the service does and
\* however long a poll hangs (wait_for_credential).
DeadlineHeld == scenario = "wait" => W!DeadlineHeld

\* A request that changes something reaches the service at most once, and a
\* repeated one is never taken for a replay (ApiClient::send, signed_send).
AppliedOnce == scenario = "api" => A!AppliedOnce

\* A value is reported only from the whole body of an answer to this call, and
\* a bounded body is never kept past its limit (read_bounded_response).
ValueIsWhole == scenario = "api" => A!ValueIsWhole

Settled ==
    CASE scenario = "lease" -> \A r \in Revokers : rpc[r] \in {"idle", "done"}
      [] scenario = "mcp" -> M!AllServed
      [] scenario = "wait" -> pc = "done"
      [] scenario = "api" -> stage = "done"

\* Whoever waits is answered: revoke() returns although every compare-exchange
\* may lose, each MCP request is served, the wait for a grant ends although
\* polls hang, and a request to the service ends although answers are lost.
AllReturn == []<>Settled

=============================================================================
