------------------------------ MODULE Multiplex -----------------------------
(***************************************************************************)
(* The broker that lets many local clients share one extension connection  *)
(* (palladin-cli, native_browser/multiplex.rs): a bounded number of        *)
(* operations, a queue that every client writes to, and one pump that      *)
(* seals, writes and correlates.                                           *)
(*                                                                         *)
(* The clients and the pump are futures of one task, so a step here is what*)
(* one of them does between two awaits.  The extension is external: one    *)
(* that conforms answers requests in any order, acknowledges a close, and  *)
(* sends nothing for an operation after that.                              *)
(***************************************************************************)
EXTENDS Integers, Sequences, FiniteSets

CONSTANTS
    Ops,          \* the operations clients start, one random id each
    Capacities,   \* permits of the semaphore, 32 in the code
    MaxRequests,  \* requests per operation
    Conforming    \* the extensions considered: TRUE for one that keeps to its contract

VARIABLES
    client,     \* what the client of each operation does
    asked,      \* how many requests it has enqueued
    answer,     \* the reply in its oneshot channel: the request it answers
    guard,      \* clients that hold the shared lifecycle lock
    permits,    \* free permits
    queue,      \* the outbound channel
    pump,       \* what the pump is writing, or Select
    pending,    \* operations whose reply sender the pump keeps
    closing,    \* operations whose permit the pump keeps until the close is acknowledged
    sealed,     \* secure frames sealed so far
    open,       \* requests the extension works on
    dismissed,  \* operations the extension was told to close
    acked,      \* those it has acknowledged
    taken,      \* secure frames the extension has received
    inbox,      \* frames from the extension the pump has not taken
    eof,        \* the extension closed its end
    over,       \* why the connection ended, or "running"
    capacity,   \* permits of the semaphore
    conforming  \* the extension keeps to its contract

clients == <<client, asked, answer, guard>>
pumping == <<pump, pending, closing, sealed>>
extension == <<open, dismissed, acked, taken, inbox, eof>>
setting == <<capacity, conforming>>
vars == <<clients, permits, queue, pumping, extension, over, setting>>

\* Slots of the outbound channel, 64 in the code.
QueueSize == 2 * capacity

-----------------------------------------------------------------------------

Select == [kind |-> "select"]
Request(op, n) == [kind |-> "request", op |-> op, n |-> n]
Close(op) == [kind |-> "close", op |-> op]
Result(op, n) == [kind |-> "result", op |-> op, n |-> n]
Closed(op) == [kind |-> "closed", op |-> op]

NoAnswer == 0
Failed == -1

\* The first request prepares and carries no deadline; the ones that carry values do.
Authorized(m) == m.kind = "request" /\ m.n > 1

Waiting(op, n) == client[op] = "waiting" /\ asked[op] = n

\* run() returns: the host returns with it, and every client future is dropped.
Terminate(why) ==
    /\ over' = why
    /\ client' = [op \in Ops |-> "gone"]
    /\ answer' = [op \in Ops |-> NoAnswer]
    /\ guard' = {}
    /\ queue' = <<>>
    /\ pump' = Select
    /\ pending' = {} /\ closing' = {}
    /\ permits' = capacity
    /\ UNCHANGED <<asked, sealed, extension, setting>>

Running == over = "running"

-----------------------------------------------------------------------------
(* Clients. *)

\* BrowserConnection::operation
Operation(op) ==
    /\ Running
    /\ client[op] = "new"
    /\ IF permits > 0
       THEN /\ client' = [client EXCEPT ![op] = "idle"]
            /\ permits' = permits - 1
       ELSE /\ client' = [client EXCEPT ![op] = "gone"]
            /\ UNCHANGED permits
    /\ UNCHANGED <<asked, answer, guard, queue, pumping, extension, over, setting>>

\* OperationChannel::enqueue, under the lifecycle guard the client acquired for it.
\* A full queue is an error, and the client ends.
Enqueue(op) ==
    /\ Running
    /\ client[op] = "idle"
    /\ asked[op] < MaxRequests
    /\ Len(queue) < QueueSize
    /\ guard' = guard \union {op}
    /\ asked' = [asked EXCEPT ![op] = @ + 1]
    /\ queue' = Append(queue, Request(op, asked[op] + 1))
    /\ client' = [client EXCEPT ![op] = "waiting"]
    /\ UNCHANGED <<answer, permits, pumping, extension, over, setting>>

\* PendingResponse::receive returns a value; it is passed on and the guard dropped.
Receive(op) ==
    /\ Running
    /\ client[op] = "waiting"
    /\ answer[op] > 0
    /\ client' = [client EXCEPT ![op] = "idle"]
    /\ answer' = [answer EXCEPT ![op] = NoAnswer]
    /\ guard' = guard \ {op}
    /\ UNCHANGED <<asked, permits, queue, pumping, extension, over, setting>>

\* The client is done, was told of an error, gave up waiting or disconnected: its
\* future ends and Drop for OperationChannel runs.
Leave(op) ==
    /\ Running
    /\ client[op] \in {"idle", "waiting"}
    /\ IF Len(queue) < QueueSize
       THEN /\ client' = [client EXCEPT ![op] = "gone"]
            /\ answer' = [answer EXCEPT ![op] = NoAnswer]
            /\ guard' = guard \ {op}
            /\ queue' = Append(queue, Close(op))
            /\ UNCHANGED <<asked, permits, pumping, extension, over, setting>>
       ELSE Terminate("cleanup")

\* A lifecycle guard fails with Revoked: serve_native_host returns.
Revoked(op) ==
    /\ Running
    /\ client[op] = "idle"
    /\ Terminate("revoked")

-----------------------------------------------------------------------------
(* The pump. *)

AtSelect == Running /\ pump = Select

\* Mutant: the deadline is checked after the frame was sealed.
TakeRequestSealsFirst ==
    /\ AtSelect
    /\ queue # <<>>
    /\ LET m == Head(queue)
       IN /\ m.kind = "request"
          /\ Waiting(m.op, m.n)
          /\ sealed' = sealed + 1
          /\ \/ /\ pump' = m
                /\ pending' = pending \union {m.op}
                /\ UNCHANGED answer
             \/ /\ Authorized(m)
                /\ answer' = [answer EXCEPT ![m.op] = Failed]
                /\ UNCHANGED <<pump, pending>>
          /\ queue' = Tail(queue)
          /\ UNCHANGED <<client, asked, guard, permits, closing, extension, over, setting>>

\* Outbound::Request.  One whose client has gone is dropped, one whose deadline has
\* passed is refused before anything is sealed.
TakeRequest ==
    /\ AtSelect
    /\ queue # <<>>
    /\ LET m == Head(queue)
       IN /\ m.kind = "request"
          /\ \/ /\ ~Waiting(m.op, m.n)
                /\ queue' = Tail(queue)
                /\ UNCHANGED <<clients, permits, pumping, extension, over, setting>>
             \/ /\ Waiting(m.op, m.n)
                /\ m.op \in pending \union closing
                /\ Terminate("protocol")
             \/ /\ Waiting(m.op, m.n)
                /\ m.op \notin pending \union closing
                /\ queue' = Tail(queue)
                /\ \/ /\ Authorized(m)
                      /\ answer' = [answer EXCEPT ![m.op] = Failed]
                      /\ UNCHANGED pumping
                   \/ /\ sealed' = sealed + 1
                      /\ pump' = m
                      /\ pending' = pending \union {m.op}
                      /\ UNCHANGED <<answer, closing>>
                /\ UNCHANGED <<client, asked, guard, permits, extension, over, setting>>

\* Outbound::Close
TakeClose ==
    /\ AtSelect
    /\ queue # <<>>
    /\ LET m == Head(queue)
       IN /\ m.kind = "close"
          /\ IF m.op \in closing
             THEN Terminate("protocol")
             ELSE /\ closing' = closing \union {m.op}
                  /\ sealed' = sealed + 1
                  /\ pump' = m
                  /\ queue' = Tail(queue)
                  /\ UNCHANGED <<clients, permits, pending, extension, over, setting>>

\* The frame is on its way; the extension takes frames in order.
WriteDone ==
    /\ Running
    /\ pump # Select
    /\ taken' = taken + 1
    /\ IF pump.kind = "request"
       THEN open' = open \union {<<pump.op, pump.n>>} /\ UNCHANGED dismissed
       ELSE dismissed' = dismissed \union {pump.op} /\ UNCHANGED open
    /\ pump' = Select
    /\ UNCHANGED <<clients, permits, queue, pending, closing, sealed, acked, inbox, eof, over, setting>>

\* The write takes too long, its authorization ends first, or the pipe is broken.
WriteFails ==
    /\ Running
    /\ pump # Select
    /\ Terminate("write")

Drained == inbox' = Tail(inbox) /\ UNCHANGED <<open, dismissed, acked, taken, eof>>

\* Mutant: an answer that comes after its client has gone is an error.
TakeResultStrict ==
    /\ AtSelect
    /\ inbox # <<>>
    /\ LET m == Head(inbox)
       IN /\ m.kind = "result"
          /\ IF m.op \in pending /\ Waiting(m.op, m.n)
             THEN /\ pending' = pending \ {m.op}
                  /\ answer' = [answer EXCEPT ![m.op] = m.n]
                  /\ Drained
                  /\ UNCHANGED <<client, asked, guard, permits, queue, pump, closing, sealed, over, setting>>
             ELSE Terminate("protocol")

\* "operation.result": it must be pending; an answer nobody waits for is dropped.
TakeResult ==
    /\ AtSelect
    /\ inbox # <<>>
    /\ LET m == Head(inbox)
       IN /\ m.kind = "result"
          /\ IF m.op \in pending
             THEN /\ pending' = pending \ {m.op}
                  /\ answer' = IF client[m.op] = "waiting" THEN [answer EXCEPT ![m.op] = m.n]
                               ELSE answer
                  /\ Drained
                  /\ UNCHANGED <<client, asked, guard, permits, queue, pump, closing, sealed, over, setting>>
             ELSE Terminate("protocol")

\* "operation.closed": it must be closing; the permit comes back, and a cancelled
\* request that got no answer is forgotten.
TakeClosed ==
    /\ AtSelect
    /\ inbox # <<>>
    /\ LET m == Head(inbox)
       IN /\ m.kind = "closed"
          /\ IF m.op \in closing
             THEN /\ closing' = closing \ {m.op}
                  /\ permits' = permits + 1
                  /\ pending' = pending \ {m.op}
                  /\ Drained
                  /\ UNCHANGED <<clients, queue, pump, sealed, over, setting>>
             ELSE Terminate("protocol")

\* A close that is not acknowledged in time disposes of the connection.
CleanupDeadline ==
    /\ AtSelect
    /\ closing # {}
    /\ Terminate("deadline")

\* Everything that was read is handled before the end of input counts.
EndOfInput ==
    /\ AtSelect
    /\ eof /\ inbox = <<>>
    /\ Terminate("eof")

-----------------------------------------------------------------------------
(* The extension. *)

Answer ==
    /\ Running /\ ~eof
    /\ \E r \in open :
           /\ open' = open \ {r}
           /\ inbox' = Append(inbox, Result(r[1], r[2]))
    /\ UNCHANGED <<clients, permits, queue, pumping, dismissed, acked, taken, eof, over, setting>>

\* In-flight work ends first, with or without an answer.
Acknowledge ==
    /\ Running /\ ~eof
    /\ \E op \in dismissed \ acked :
           /\ acked' = acked \union {op}
           /\ open' = {r \in open : r[1] # op}
           /\ inbox' = Append(inbox, Closed(op))
    /\ UNCHANGED <<clients, permits, queue, pumping, dismissed, taken, eof, over, setting>>

\* An extension that does not conform sends what nobody asked for.
Stray ==
    /\ Running /\ ~eof
    /\ ~conforming
    /\ inbox = <<>>
    /\ \E op \in Ops, n \in 1 .. MaxRequests :
           \E m \in {Result(op, n), Closed(op)} : inbox' = Append(inbox, m)
    /\ UNCHANGED <<clients, permits, queue, pumping, open, dismissed, acked, taken, eof, over, setting>>

HangUp ==
    /\ Running /\ ~eof
    /\ eof' = TRUE
    /\ UNCHANGED <<clients, permits, queue, pumping, open, dismissed, acked, taken, inbox, over, setting>>

-----------------------------------------------------------------------------

Init ==
    /\ capacity \in Capacities /\ conforming \in Conforming
    /\ client = [op \in Ops |-> "new"]
    /\ asked = [op \in Ops |-> 0]
    /\ answer = [op \in Ops |-> NoAnswer]
    /\ guard = {}
    /\ permits = capacity
    /\ queue = <<>>
    /\ pump = Select /\ pending = {} /\ closing = {} /\ sealed = 0
    /\ open = {} /\ dismissed = {} /\ acked = {} /\ taken = 0 /\ inbox = <<>> /\ eof = FALSE
    /\ over = "running"

ClientStep(op) == Operation(op) \/ Enqueue(op) \/ Receive(op) \/ Leave(op) \/ Revoked(op)
PumpStep == TakeRequest \/ TakeClose \/ WriteDone \/ TakeResult \/ TakeClosed
Failure == WriteFails \/ CleanupDeadline \/ EndOfInput \/ HangUp

Next ==
    \/ \E op \in Ops : ClientStep(op)
    \/ PumpStep
    \/ Failure
    \/ Answer \/ Acknowledge \/ Stray

\* Every wait of a client has a time limit, and so has a write; the pump is always polled,
\* and so is the timer of an unacknowledged close.  Nothing is assumed of the extension.
Fairness ==
    /\ \A op \in Ops : WF_vars(Leave(op))
    /\ WF_vars(PumpStep \/ WriteFails)
    /\ WF_vars(CleanupDeadline)

Spec == Init /\ [][Next]_vars /\ Fairness

-----------------------------------------------------------------------------
(* Properties. *)

Live(op) == client[op] \in {"idle", "waiting"}

TypeOK ==
    /\ client \in [Ops -> {"new", "idle", "waiting", "gone"}]
    /\ asked \in [Ops -> 0 .. MaxRequests]
    /\ answer \in [Ops -> Failed .. MaxRequests]
    /\ guard \subseteq Ops /\ permits \in 0 .. capacity
    /\ pending \subseteq Ops /\ closing \subseteq Ops
    /\ open \subseteq Ops \X (1 .. MaxRequests) /\ acked \subseteq dismissed /\ dismissed \subseteq Ops
    /\ over \in {"running", "cleanup", "revoked", "protocol", "write", "deadline", "eof"}

\* "At most 32 client operations, each with one request and one cleanup": a client never
\* finds the queue full, neither for a request nor for its cleanup.
NeverFull == Running => \A op \in Ops : Live(op) => Len(queue) < QueueSize

\* A conforming extension never works for more operations than were admitted, those being
\* closed included.
Admitted ==
    (Running /\ conforming) => Cardinality({r[1] : r \in open} \union (dismissed \ acked)) <= capacity

\* A conforming extension is never taken for a broken one: no order of requests, answers,
\* closes and clients that give up makes the pump drop the connection of the others.
ConformingIsKept == conforming => over \notin {"protocol", "cleanup"}

\* Frames are sealed and taken one for one: a request that is discarded in the queue
\* leaves no gap in the sequence numbers the extension checks.
NoSequenceGap == Running => sealed = taken + (IF pump = Select THEN 0 ELSE 1)

\* With a conforming extension a reply reaches only the request it answers, never a later
\* one of the same client.
AnswersMatch ==
    \A op \in Ops : (conforming /\ answer[op] # NoAnswer) =>
        client[op] = "waiting" /\ answer[op] \in {asked[op], Failed}

\* After an operation's close nothing more of that operation is written.
CloseIsLast == [][\A r \in open' \ open : r[1] \notin dismissed]_vars

\* A client that was admitted is cleaned up after: the extension is told to close and
\* the permit comes back, or the connection ends.
LeaversAreClosed ==
    \A op \in Ops : (Live(op) /\ Running) ~> (~Running \/ op \in dismissed \ closing)

\* write_authorized_extension_frame: "The caller holds the shared lifecycle lock".
ForwardsUnderGuard == Authorized(pump) => pump.op \in guard
=============================================================================
