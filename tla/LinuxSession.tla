---------------------------- MODULE LinuxSession ----------------------------
(***************************************************************************)
(* One session of the Linux credential broker (palladin-linux-broker): the *)
(* client in front of the user (client.rs proxy), the broker's handler     *)
(* with its input task and its two output tasks (bin/service.rs handle,    *)
(* proxy_worker, copy_output), and the worker.                             *)
(*                                                                         *)
(* The output tasks share one budget and one writer; a task that is left   *)
(* behind when the handler returns goes on until its stream ends.  The     *)
(* clock only makes timeouts possible, so each of them is a choice.        *)
(***************************************************************************)
EXTENDS Integers, Sequences

CONSTANTS
    LinuxSessions,  \* [mode: "closed", "secret" or "stream", as prepare_input_mode finds; chunks: how
                    \* much a stream carries; binding: the worker's stderr may ask for a page;
                    \* lines: what the worker writes at most; stray: frames out of turn on the socket]
    OutputBudget,   \* MAX_SESSION_OUTPUT_BYTES, in lines
    SocketSize      \* frames the socket buffers towards the client

VARIABLES
    task,    \* the session: member of LinuxSessions
    up,      \* frames towards the broker
    down,    \* frames towards the client
    front,   \* the client: where it is, chunks sent, lines shown, stray frames left, result
    asked,   \* the client has read secret input
    host,    \* the handler
    feed,    \* the input task: where it is and the sequence it expects
    copier,  \* the output tasks of stdout and stderr
    total,   \* the shared output counter
    failed,  \* a failure waits in the channel of the output tasks
    proc     \* the worker: its state, what it wrote on each stream and how much in all

vars == <<task, up, down, front, asked, host, feed, copier, total, failed, proc>>

Streams == {"o", "e"}
Frame(kind, n) == [kind |-> kind, n |-> n]
Gone == front.at = "done"
\* The stream task drops its half of the socket with the last frame, so the broker then reads its end.
HalfClosed == task.mode = "stream" /\ front.sent > task.chunks
\* No output task holds the socket any more.
Quiescent == \A s \in Streams : copier[s].at \in {"none", "done", "failed"}

Init ==
    /\ task \in LinuxSessions
    /\ up = <<Frame("start", 0)>> /\ down = <<>>
    /\ front = [at |-> "start", sent |-> 0, shown |-> 0, stray |-> task.stray, result |-> "none"]
    /\ asked = FALSE
    /\ host = "start"
    /\ feed = [at |-> "idle", expected |-> 0, closed |-> FALSE]
    /\ copier = [s \in Streams |-> [at |-> "none", line |-> "none"]]
    /\ total = 0 /\ failed = FALSE
    /\ proc = [state |-> "none", o |-> <<>>, e |-> <<>>, wrote |-> 0]

-----------------------------------------------------------------------------
(* The client. *)

ClientOnly == UNCHANGED <<task, host, feed, copier, total, failed, proc>>
Finish(result) == front' = [front EXCEPT !.at = "done", !.result = result]
Taken == down # <<>> /\ down' = Tail(down)

\* Nothing secret is read before Accepted; then the input is closed, one chunk, or a stream.
ClientAccepted ==
    /\ front.at = "start" /\ Taken /\ ClientOnly
    /\ \/ /\ Head(down).kind = "accepted"
          /\ front' = [front EXCEPT !.at = "run"]
          /\ asked' = (task.mode # "closed")
          /\ up' = up \o (CASE task.mode = "closed" -> <<Frame("closed", 0)>>
                            [] task.mode = "secret" -> <<Frame("input", 0), Frame("closed", 1)>>
                            [] OTHER -> <<>>)
       \/ /\ Head(down).kind # "accepted" /\ Finish(Head(down).kind)
          /\ UNCHANGED <<asked, up>>

\* The stream task: chunks in order, then the close.
ClientStreams ==
    /\ front.at = "run" /\ task.mode = "stream" /\ front.sent <= task.chunks
    /\ up' = Append(up, Frame(IF front.sent < task.chunks THEN "input" ELSE "closed", front.sent))
    /\ front' = [front EXCEPT !.sent = @ + 1]
    /\ UNCHANGED <<down, asked>> /\ ClientOnly

ClientShows ==
    /\ front.at = "run" /\ Taken /\ ClientOnly /\ UNCHANGED <<up, asked>>
    /\ CASE Head(down).kind \in {"output", "open"} -> front' = [front EXCEPT !.shown = @ + 1]
         [] Head(down).kind \in {"exited", "rejected"} -> Finish(Head(down).kind)
         [] OTHER -> Finish("protocol")

\* The broker closed the socket, or the user ends the client.
ClientLosesBroker ==
    /\ ~Gone /\ down = <<>> /\ host = "over" /\ Quiescent
    /\ Finish("protocol") /\ UNCHANGED <<up, down, asked>> /\ ClientOnly
ClientKilled ==
    /\ front.at # "done" /\ Finish("killed") /\ UNCHANGED <<up, down, asked>> /\ ClientOnly
StrayFrame ==
    /\ front.stray > 0 /\ ~Gone /\ ~HalfClosed /\ UNCHANGED <<down, asked>> /\ ClientOnly
    /\ front' = [front EXCEPT !.stray = @ - 1]
    /\ \E kind \in {"input", "closed", "cancel", "start"}, n \in {feed.expected, feed.expected + 1} :
         up' = Append(up, Frame(kind, n))

-----------------------------------------------------------------------------
(* handle, up to the worker. *)

HostOnly == UNCHANGED <<task, front, asked, total, failed>>
\* Start is validated, the namespace prepared and the worker image verified before Accepted; a worker
\* whose Accepted cannot be written is killed when its handle is dropped.
HostStarts ==
    /\ host = "start" /\ HostOnly
    /\ \/ /\ up # <<>> /\ up' = Tail(up) /\ Head(up).kind = "start" /\ ~Gone
          /\ down' = Append(down, Frame("accepted", 0)) /\ host' = "proxy"
          /\ proc' = [proc EXCEPT !.state = "alive"] /\ feed' = [feed EXCEPT !.at = "read"]
          /\ copier' = [s \in Streams |-> [at |-> "read", line |-> "none"]]
       \/ /\ up' = IF up = <<>> THEN up ELSE Tail(up)
          /\ down' = IF Gone THEN down ELSE Append(down, Frame("rejected", 0))
          /\ host' = "over" /\ UNCHANGED <<proc, feed, copier>>

-----------------------------------------------------------------------------
(* The input task. *)

FeedOnly == UNCHANGED <<task, down, front, asked, host, copier, total, failed, proc>>
FeedStops(why) == feed' = [feed EXCEPT !.at = why]
\* The frames come in order and none after the close; a worker that is gone, or does not read for
\* thirty seconds, fails the write.
Feed ==
    /\ feed.at = "read" /\ FeedOnly
    /\ \/ up = <<>> /\ (Gone \/ HalfClosed) /\ FeedStops("failed") /\ UNCHANGED up
       \/ /\ up # <<>> /\ up' = Tail(up)
          /\ LET f == Head(up)
                 turn == ~feed.closed /\ f.n = feed.expected IN
             \/ f.kind = "input" /\ turn /\ proc.state = "alive" /\ feed' = [feed EXCEPT !.expected = @ + 1]
             \/ f.kind = "input" /\ turn /\ FeedStops("failed")
             \/ f.kind = "closed" /\ turn /\ feed' = [feed EXCEPT !.closed = TRUE]
             \/ ~(f.kind \in {"input", "closed"} /\ turn) /\ FeedStops("failed")

-----------------------------------------------------------------------------
(* copy_output and copy_broker_control_output. *)

CopierOnly == UNCHANGED <<task, up, front, asked, host, feed>>
CopierIs(s, at, line) == copier' = [copier EXCEPT ![s] = [at |-> at, line |-> line]]
\* The budget is charged before it is compared; a failure is put in the channel and ends the task.
CopierReads(s) ==
    /\ copier[s].at = "read" /\ CopierOnly /\ UNCHANGED down
    /\ \/ proc[s] = <<>> /\ proc.state = "dead" /\ CopierIs(s, "done", "none") /\ UNCHANGED <<total, failed, proc>>
       \/ /\ proc[s] # <<>>
          /\ proc' = [proc EXCEPT ![s] = Tail(@)] /\ total' = total + 1
          /\ IF total + 1 > OutputBudget \/ Head(proc[s]) = "bad"
             THEN CopierIs(s, "failed", "none") /\ failed' = TRUE
             ELSE CopierIs(s, "write", Head(proc[s])) /\ UNCHANGED failed
\* The writer's lock and the write have thirty seconds; a client that is gone or does not read fails them.
CopierWrites(s) ==
    /\ copier[s].at = "write" /\ CopierOnly /\ UNCHANGED <<total, proc>>
    /\ \/ /\ ~Gone /\ Len(down) < SocketSize
          /\ down' = Append(down, Frame(IF copier[s].line = "open" THEN "open" ELSE "output", 0))
          /\ CopierIs(s, "read", "none") /\ UNCHANGED failed
       \/ /\ Gone \/ Len(down) >= SocketSize
          /\ CopierIs(s, "failed", "none") /\ failed' = TRUE /\ UNCHANGED down

-----------------------------------------------------------------------------
(* proxy_worker's select and what follows it; the worker. *)

MainOnly == UNCHANGED <<task, up, front, asked, copier, total, failed>>
Kill == proc' = [proc EXCEPT !.state = "dead"]
\* Mutant: the exit is reported without waiting for the output tasks.
ExitsAtOnce ==
    /\ host = "proxy" /\ MainOnly
    /\ proc.state = "dead" /\ host' = "over" /\ feed' = [feed EXCEPT !.at = "done"]
    /\ down' = Append(down, Frame("exited", 0)) /\ UNCHANGED proc
\* The exit, the end of the input task or a failure of an output task, whichever is noticed first.
HostSelects ==
    /\ host = "proxy" /\ MainOnly /\ UNCHANGED down
    /\ \/ /\ proc.state = "dead" /\ host' = "outputs" /\ feed' = [feed EXCEPT !.at = "done"]
          /\ UNCHANGED proc
       \/ (feed.at = "failed" \/ failed) /\ Kill /\ host' = "over" /\ UNCHANGED feed
\* The operation's timeout, wherever proxy_worker is.
HostTimesOut ==
    /\ host \in {"proxy", "outputs"} /\ Kill /\ host' = "over" /\ UNCHANGED <<down, feed>> /\ MainOnly
\* Both output tasks ended well: Exited.  One failed, or thirty seconds passed: nothing is said.
HostEnds ==
    /\ host = "outputs" /\ host' = "over" /\ MainOnly /\ UNCHANGED <<feed, proc>>
    /\ \/ /\ \A s \in Streams : copier[s].at = "done"
          /\ down' = IF Gone THEN down ELSE Append(down, Frame("exited", 0))
       \/ (\E s \in Streams : copier[s].at # "done") /\ UNCHANGED down

WorkerOnly == UNCHANGED <<task, up, down, front, asked, host, feed, copier, total, failed>>
WorkerWrites ==
    /\ proc.state = "alive" /\ proc.wrote < task.lines /\ WorkerOnly
    /\ \/ proc' = [proc EXCEPT !.o = Append(@, "line"), !.wrote = @ + 1]
       \/ \E line \in {"line"} \cup (IF task.binding THEN {"open", "bad"} ELSE {}) :
            proc' = [proc EXCEPT !.e = Append(@, line), !.wrote = @ + 1]
WorkerExits == proc.state = "alive" /\ Kill /\ WorkerOnly

Over == Gone /\ host = "over" /\ Quiescent /\ feed.at # "read"
Stop == Over /\ UNCHANGED vars

Broker == HostStarts \/ HostSelects \/ HostEnds
Next ==
    \/ ClientAccepted \/ ClientStreams \/ ClientShows \/ ClientLosesBroker \/ ClientKilled \/ StrayFrame
    \/ Broker \/ HostTimesOut \/ Feed \/ WorkerWrites \/ WorkerExits \/ Stop
    \/ \E s \in Streams : CopierReads(s) \/ CopierWrites(s)
\* The broker's tasks run and its timeouts expire, whatever the client and the worker do.
Fairness ==
    /\ WF_vars(Broker) /\ WF_vars(HostTimesOut) /\ WF_vars(Feed)
    /\ \A s \in Streams : WF_vars(CopierReads(s) \/ CopierWrites(s))
Spec == Init /\ [][Next]_vars /\ Fairness

-----------------------------------------------------------------------------

\* Secret input is read only once the broker has verified the worker image and accepted the command.
SecretAfterAccepted == asked => host # "start" /\ proc.state # "none"

\* The client reports the worker's exit only after it has shown everything the worker wrote, although
\* two tasks write to the socket and neither waits for the other.
ExitedIsComplete == front.result = "exited" => front.shown = proc.wrote

\* The two output tasks together never show more than the budget, whichever of them charges it last.
BudgetIsShared == front.shown <= OutputBudget

\* However the session goes, the handler returns and its worker is gone; so are the output tasks.
SessionEnds ==
    <>(host = "over" /\ proc.state # "alive" /\ Quiescent)
=============================================================================
