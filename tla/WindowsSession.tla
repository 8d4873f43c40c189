--------------------------- MODULE WindowsSession ---------------------------
(***************************************************************************)
(* One connection of the Windows credential broker (palladin-windows-      *)
(* broker): the companion that the user starts (companion.rs), the         *)
(* service's handler for the connection with its four tasks (bin/          *)
(* service.rs) and the worker process.  The tasks share a queue of frames  *)
(* for the pipe and a control channel of capacity one; a lock, a logout or *)
(* a power change revokes the session at any moment.                       *)
(*                                                                         *)
(* An MCP message is the sequence of the items of its JSON array: a secret *)
(* operation, "plain" for a method that needs no consent, "forbidden" for  *)
(* one that is refused, "badprofile" for a call whose profile name does    *)
(* not parse.  A consent is the record the operator's Windows Hello key    *)
(* signs.  The clock only makes timeouts possible, so each is a choice.    *)
(***************************************************************************)
EXTENDS Integers, Sequences, FiniteSets, SequencesExt

CONSTANTS
    Sessions,     \* [op: "mcp", "connect", "search" or "pair"; client: "conforming" for the companion,
                  \* "stray" when its pipe also carries other frames; script: the messages an MCP
                  \* host writes; lines: what the worker writes at most]
    MaxStray,     \* frames beyond the companion's own that such a pipe carries
    Budget,       \* bytes of output a one-shot worker may write, in lines
    QueueSize,    \* capacity of the output channel, 16 in the code
    PipeSize      \* frames the pipe buffers towards the companion

ASSUME SizesAssumption == {QueueSize, PipeSize} \subseteq Nat \ {0} /\ {MaxStray, Budget} \subseteq Nat
ASSUME SessionsAssumption ==
    \A s \in Sessions : s.client \in {"conforming", "stray"} /\ s.lines \in Nat

VARIABLES
    session,   \* member of Sessions
    current,   \* the lifecycle epochs are the ones captured at the connection
    c2s, s2c,  \* frames in the pipe
    comp,      \* the companion
    conn,      \* where handle_connection is
    guard,     \* challenges issued and not consumed
    input,     \* the task that reads the client's frames
    output,    \* the channel to the writer
    control,   \* the control channel, capacity one
    writer,    \* the task that writes frames
    readers,   \* the tasks that read the worker's stdout and stderr
    spent,     \* output counted against the budget
    worker,    \* the worker process
    done,      \* how run_worker decided the session ends
    hist       \* what happened, for the properties

pipes == <<c2s, s2c>>
tasks == <<input, output, control, writer, readers, spent, done>>
vars == <<session, current, pipes, comp, conn, guard, tasks, worker, hist>>

-----------------------------------------------------------------------------
(* Frames and consents. *)

Session == 0
op == session.op
Nil == "none"
F(kind, n, body) == [kind |-> kind, n |-> n, body |-> body]
Quiet == F(Nil, 0, Nil)
Rejected(id, code) == F("rejected", id, code)

Duplex == op = "mcp"
\* Browser pages are opened through the worker's stderr.
Binding == op \in {"pair", "mcp"}

\* The secret operations of a message by item, or why the message is refused.
Refusal(message) ==
    IF \E i \in DOMAIN message : message[i] = "forbidden" THEN "OperationForbidden" ELSE Nil
mcp_secret_operations(message) ==
    SetToSortSeq({i \in DOMAIN message : message[i] # "plain"}, <)

\* What the operator is asked to sign for one item of one message.
mcp_operation_hash(sequence, index, message) ==
    [sequence |-> sequence, index |-> index, message |-> message]
RunHash == [sequence |-> 0, index |-> 0, message |-> <<>>]

Challenge(id, hash) ==
    F("challenge", id, [op |-> IF hash.index = 0 THEN op ELSE hash.message[hash.index], hash |-> hash])
Consent(f) == [id |-> f.n, nonce |-> f.n, hash |-> f.body.hash, signed |-> TRUE]

\* ReplayGuard: the pending challenge is consumed before anything is compared.
Pending(nonce) == {c \in guard : c.nonce = nonce}
\* Mutant: any pending challenge that was signed will do, the operation at hand is not compared.
HashNotCompared(id, hash, consent, late) ==
    IF Pending(consent.nonce) = {} THEN "ReplayDetected" ELSE "ok"
verify_consent(id, hash, consent, late) ==
    CASE Pending(consent.nonce) = {} -> "ReplayDetected"
      [] late -> "ConsentExpired"
      [] \E c \in Pending(consent.nonce) : c.id # id \/ c.hash # consent.hash -> "ConsentInvalid"
      [] consent.hash # hash \/ ~consent.signed -> "ConsentInvalid"
      [] OTHER -> "ok"

\* The frame at the head of a pipe, if there is one.
First(pipe) == {pipe[i] : i \in {1} \cap DOMAIN pipe}

\* try_send on the control channel: an event is lost when one is waiting.
TrySend(event) == IF control = <<>> THEN <<event>> ELSE control

Init ==
    /\ session \in Sessions
    /\ current = TRUE
    /\ c2s = <<F("request", 0, Nil)>> /\ s2c = <<>>
    /\ comp = [pc |-> "challenge", accepted |-> FALSE, seq |-> 0, flight |-> FALSE,
               consents |-> <<>>, closed |-> FALSE, cancel |-> FALSE, out |-> 0, opens |-> 0,
               cseq |-> 0, latest |-> Session, result |-> Nil]
    /\ conn = "request"
    /\ guard = {}
    /\ input = [pc |-> "idle", expected |-> 0, consent |-> 0, message |-> <<>>, item |-> 1,
                nonce |-> 0, stdin |-> TRUE]
    /\ output = <<>> /\ control = <<>>
    /\ writer = [pc |-> "recv", frame |-> Quiet, seq |-> 0]
    /\ readers = [o |-> [pc |-> "read", item |-> Nil], e |-> [pc |-> "read", item |-> Nil]]
    /\ spent = 0
    /\ worker = [state |-> "none", o |-> <<>>, e |-> <<>>, wrote |-> 0]
    /\ done = [pc |-> "select", why |-> Nil]
    /\ hist = [signed |-> {}, delivered |-> <<>>, revoked |-> FALSE, pairing |-> FALSE, stray |-> 0]

-----------------------------------------------------------------------------
(* The companion. *)

Leave(result) == comp' = [comp EXCEPT !.pc = "done", !.result = result]
\* write_client_frame: a pipe the service has closed ends the companion.
Send(frames, next) ==
    IF conn = "over" THEN Leave("Transport") /\ UNCHANGED c2s
    ELSE comp' = next /\ c2s' = c2s \o frames
CompanionOnly == UNCHANGED <<session, current, conn, guard, tasks, worker>>

\* execute: the challenge for the command itself; the operator signs it in Windows Hello or not.
CompanionExecute ==
    /\ comp.pc = "challenge" /\ CompanionOnly
    /\ \E f \in First(s2c) :
         /\ s2c' = Tail(s2c) /\ f.kind = "challenge" /\ f.n = Session
         /\ \/ /\ Send(<<F("execute", 0, Consent(f))>>, [comp EXCEPT !.pc = "run"])
               /\ hist' = [hist EXCEPT !.signed = @ \cup {<<f.n, f.body.hash>>}]
            \/ Leave("HelloUnavailable") /\ UNCHANGED <<c2s, hist>>

CanSend == comp.pc = "run" /\ comp.accepted /\ ~comp.flight /\ ~comp.closed /\ ~comp.cancel

\* execute_duplex: one message at a time; begin_message classifies it as the service will.
CompanionMessage ==
    /\ Duplex /\ CanSend /\ comp.seq < Len(session.script)
    /\ LET m == session.script[comp.seq + 1] IN
         IF Refusal(m) # Nil
         THEN Leave("InvalidResponse") /\ UNCHANGED c2s
         ELSE Send(<<F("message", comp.seq, m)>>,
                   [comp EXCEPT !.flight = TRUE,
                      !.consents = [i \in DOMAIN mcp_secret_operations(m) |-> m[mcp_secret_operations(m)[i]]]])
    /\ CompanionOnly /\ UNCHANGED <<s2c, hist>>

CompanionCloses ==
    /\ Duplex /\ CanSend /\ comp.seq = Len(session.script)
    /\ Send(<<F("closed", comp.seq, Nil)>>, [comp EXCEPT !.closed = TRUE])
    /\ CompanionOnly /\ UNCHANGED <<s2c, hist>>

CompanionCancels ==
    /\ comp.pc = "run" /\ ~comp.cancel
    /\ Send(<<F("cancel", 0, Nil)>>, [comp EXCEPT !.cancel = TRUE])
    /\ CompanionOnly /\ UNCHANGED <<s2c, hist>>

\* The frames the companion takes as they are.
Harmless(f) == \/ f.kind = "output" /\ comp.accepted /\ f.n = comp.out
               \/ f.kind = "open" /\ comp.accepted
               \/ f.kind = "accepted" /\ ~comp.accepted
Acknowledged(f) == f.kind = "ack" /\ comp.flight /\ f.n = comp.seq /\ comp.consents = <<>>
\* The operations execute_duplex signs for.
Consentable == {"pair", "search", "get", "exec", "stale"}
Asked(f) == /\ f.kind = "challenge" /\ comp.accepted /\ comp.flight /\ f.body.op \in Consentable
            /\ comp.consents # <<>> /\ Head(comp.consents) = f.body.op
Refused(f) == f.kind = "rejected" /\ f.n \in {Session, comp.latest}
Ended(f) == f.kind = "exited" /\ comp.accepted
Expected(f) == \/ Harmless(f) \/ Refused(f) \/ Ended(f)
               \/ Duplex /\ (Acknowledged(f) \/ Asked(f))

\* An accepted connect reads the API key only now and sends it as one chunk.
CompanionTakes ==
    /\ comp.pc = "run" /\ CompanionOnly /\ UNCHANGED hist
    /\ \E f \in First(s2c) :
         /\ s2c' = Tail(s2c)
         /\ \/ /\ f.kind = "accepted" /\ Harmless(f) /\ op = "connect"
               /\ \/ Send(<<F("input", 0, Nil), F("closed", 1, Nil)>>, [comp EXCEPT !.accepted = TRUE])
                  \/ Leave("ApiKeyPrompt") /\ UNCHANGED c2s
            \/ /\ Harmless(f) /\ ~(f.kind = "accepted" /\ op = "connect")
               /\ comp' = [comp EXCEPT !.accepted = TRUE,
                           !.out = @ + (IF f.kind = "output" THEN 1 ELSE 0),
                           !.opens = @ + (IF f.kind = "open" THEN 1 ELSE 0)]
               /\ UNCHANGED c2s
            \/ /\ Duplex /\ Acknowledged(f)
               /\ comp' = [comp EXCEPT !.seq = @ + 1, !.flight = FALSE]
               /\ UNCHANGED c2s

\* verify_user_context and hello_sign for one operation of the message in flight.
CompanionConsents ==
    /\ comp.pc = "run" /\ Duplex /\ CompanionOnly
    /\ \E f \in First(s2c) :
         /\ s2c' = Tail(s2c) /\ Asked(f)
         /\ \/ /\ Send(<<F("authorize", comp.cseq, Consent(f))>>,
                       [comp EXCEPT !.consents = Tail(@), !.latest = f.n, !.cseq = @ + 1])
               /\ hist' = [hist EXCEPT !.signed = @ \cup {<<f.n, f.body.hash>>}]
            \/ Leave("HelloUnavailable") /\ UNCHANGED <<c2s, hist>>

CompanionEnds ==
    /\ comp.pc # "done" /\ CompanionOnly /\ UNCHANGED <<c2s, hist>>
    /\ \/ \E f \in First(s2c) :
            /\ s2c' = Tail(s2c)
            /\ \/ Ended(f) /\ Leave(f.body)
               \/ Refused(f) /\ Leave(f.body)
               \/ /\ ~Refused(f)
                  /\ IF comp.pc = "challenge" THEN f.kind # "challenge" ELSE ~Expected(f)
                  /\ Leave("InvalidResponse")
       \/ s2c = <<>> /\ conn = "over" /\ Leave("Transport") /\ UNCHANGED s2c

\* The frames another writer of the pipe could add: replayed or early consents, frames out of turn.
StrayFrames ==
    {F("message", n, m) : n \in {input.expected, input.expected + 1},
                          m \in {<<"get">>, <<"forbidden">>}}
    \cup {F("authorize", n, [id |-> k, nonce |-> k, hash |-> h, signed |-> <<k, h>> \in hist.signed]) :
            n \in {input.consent}, k \in 0 .. input.nonce,
            h \in {c[2] : c \in hist.signed} \cup {mcp_operation_hash(input.consent, 1, <<"get">>)}}
    \cup {F("closed", input.expected, Nil), F("cancel", 0, Nil), F("input", 0, Nil)}
StrayFrame ==
    /\ session.client = "stray" /\ hist.stray < MaxStray /\ conn # "over"
    /\ \E f \in StrayFrames : c2s' = Append(c2s, f)
    /\ hist' = [hist EXCEPT !.stray = @ + 1]
    /\ UNCHANGED <<session, current, s2c, comp, conn, guard, tasks, worker>>
-----------------------------------------------------------------------------
(* handle_connection up to the worker. *)

ConnOnly == UNCHANGED <<session, current, comp, input, output, control, writer, readers, spent>>
Close(code) == conn' = "over" /\ s2c' = Append(s2c, Rejected(Session, code))

\* RequestChallenge, validated and answered with a challenge.
ConnChallenges ==
    /\ conn = "request" /\ ConnOnly /\ UNCHANGED <<worker, done, hist>>
    /\ \/ /\ c2s # <<>> /\ c2s' = Tail(c2s)
          /\ IF Head(c2s).kind = "request"
             THEN /\ conn' = "execute"
                  /\ s2c' = Append(s2c, Challenge(Session, RunHash))
                  /\ guard' = {[id |-> Session, nonce |-> 0, hash |-> RunHash]}
             ELSE Close("InvalidRequest") /\ UNCHANGED guard
       \/ c2s = <<>> /\ Close("InvalidRequest") /\ UNCHANGED <<c2s, guard>>

\* Execute: consent, lifecycle, then Accepted.  A connect waits for its input.
ConnExecutes ==
    /\ conn = "execute" /\ ConnOnly /\ UNCHANGED <<worker, done, hist>>
    /\ \/ /\ c2s # <<>> /\ c2s' = Tail(c2s)
          /\ \E late \in BOOLEAN :
             LET f == Head(c2s)
                 verdict == verify_consent(Session, RunHash, f.body, late) IN
             IF f.kind # "execute" THEN Close("InvalidRequest") /\ UNCHANGED guard
             ELSE /\ guard' = guard \ Pending(f.body.nonce)
                  /\ \/ verdict # "ok" /\ Close(verdict)
                     \/ verdict = "ok" /\ ~current /\ Close("AuthenticationRequired")
                     \/ /\ verdict = "ok" /\ current
                        /\ s2c' = Append(s2c, F("accepted", 0, Nil))
                        /\ conn' = IF op = "connect" THEN "input" ELSE "spawn"
                       
       \/ c2s = <<>> /\ Close(IF comp.pc = "done" THEN "InvalidRequest" ELSE "ConsentExpired")
          /\ UNCHANGED <<c2s, guard>>

\* read_deferred_connect_input: exactly one chunk and the close, before the worker exists.
ConnInput ==
    /\ conn = "input" /\ ConnOnly /\ UNCHANGED <<guard, worker, done, hist>>
    /\ \/ ~current /\ Close("AuthenticationRequired") /\ UNCHANGED c2s
       \/ /\ current /\ Len(c2s) > 1
          /\ c2s' = SubSeq(c2s, 3, Len(c2s))
          /\ IF c2s[1].kind = "input" /\ c2s[2] = F("closed", 1, Nil)
             THEN conn' = "spawn" /\ UNCHANGED s2c
             ELSE Close("InvalidRequest")
       \/ current /\ Len(c2s) < 2 /\ Close("InvalidRequest") /\ UNCHANGED c2s

\* run_worker spawns the worker and the four tasks.
ConnSpawns ==
    /\ conn = "spawn" /\ conn' = "run"
    /\ worker' = [worker EXCEPT !.state = "alive"]
    /\ input' = [input EXCEPT !.pc = "read"]
    /\ UNCHANGED <<session, current, pipes, comp, guard, output, control, writer, readers, spent, done, hist>>

-----------------------------------------------------------------------------
(* read_client_input and authorize_mcp_message. *)

InputOnly == UNCHANGED <<session, current, s2c, comp, conn, writer, readers, spent, done>>
Room == Len(output) < QueueSize
Blocked == ~Room /\ writer.pc # "done"
\* A send that waits for room and is dropped when the writer is gone.
Push(frame) == output' = IF writer.pc = "done" THEN output ELSE Append(output, frame)
InputFails(event) == input' = [input EXCEPT !.pc = "done", !.message = <<>>, !.item = 1] /\ control' = TrySend(event)
InputRefuses(id, code) ==
    ~Blocked /\ Push(Rejected(id, code)) /\ InputFails("InvalidRequest")
Items == mcp_secret_operations(input.message)

InputReads ==
    /\ input.pc = "read" /\ InputOnly /\ UNCHANGED <<guard, worker, hist>>
    /\ \/ /\ c2s = <<>> /\ comp.pc = "done" /\ InputFails("Disconnected")
          /\ UNCHANGED <<c2s, output>>
       \/ /\ c2s # <<>> /\ c2s' = Tail(c2s)
          /\ LET f == Head(c2s)
                 turn == Duplex /\ f.n = input.expected /\ input.stdin IN
             \/ f.kind = "cancel" /\ InputFails("Cancelled") /\ UNCHANGED output
             \/ /\ f.kind = "message" /\ turn /\ Refusal(f.body) # Nil
                /\ output' = IF Room THEN Append(output, Rejected(Session, Refusal(f.body))) ELSE output
                /\ InputFails("InvalidRequest")
             \/ /\ f.kind = "message" /\ turn /\ Refusal(f.body) = Nil
                /\ IF \E i \in DOMAIN f.body : f.body[i] = "badprofile"
                   THEN InputFails("InvalidRequest")
                   ELSE /\ input' = [input EXCEPT !.pc = "gate", !.message = f.body, !.item = 1]
                        /\ UNCHANGED control
                /\ UNCHANGED output
             \/ /\ f.kind = "closed" /\ turn
                /\ input' = [input EXCEPT !.stdin = FALSE]
                /\ UNCHANGED <<output, control>>
             \/ /\ f.kind # "cancel" /\ ~(f.kind \in {"message", "closed"} /\ turn)
                /\ InputFails("InvalidRequest") /\ UNCHANGED output

\* One challenge per secret operation of the message.
GateChallenges ==
    /\ input.pc = "gate" /\ input.item <= Len(Items) /\ InputOnly
    /\ UNCHANGED <<c2s, worker, hist>>
    /\ LET hash == mcp_operation_hash(input.consent, Items[input.item], input.message)
           id == input.nonce + 1 IN
       \/ ~current /\ InputFails("SessionRevoked") /\ UNCHANGED <<guard, output>>
       \/ /\ current /\ writer.pc = "done" /\ InputFails("WorkerFailed") /\ UNCHANGED <<guard, output>>
       \/ /\ current /\ Room /\ writer.pc # "done"
          /\ guard' = guard \cup {[id |-> id, nonce |-> id, hash |-> hash]}
          /\ output' = Append(output, Challenge(id, hash))
          /\ input' = [input EXCEPT !.pc = "consent", !.nonce = id]
          /\ UNCHANGED control

\* The answer: only this challenge's consent, by this operation, and while the session stands.
GateVerifies ==
    /\ input.pc = "consent" /\ InputOnly /\ UNCHANGED <<worker, hist>>
    /\ LET id == input.nonce
           hash == mcp_operation_hash(input.consent, Items[input.item], input.message) IN
       \/ c2s = <<>> /\ InputRefuses(id, IF comp.pc = "done" THEN "InvalidRequest" ELSE "ConsentExpired")
          /\ UNCHANGED <<c2s, guard>>
       \/ /\ c2s # <<>> /\ c2s' = Tail(c2s)
          /\ \E late \in BOOLEAN :
             LET f == Head(c2s)
                 verdict == IF f.n # input.consent \/ f.body.id # id THEN "ConsentInvalid"
                            ELSE verify_consent(id, hash, f.body, late) IN
             \/ f.kind = "cancel" /\ InputFails("Cancelled") /\ UNCHANGED <<guard, output>>
             \/ f.kind \notin {"cancel", "authorize"} /\ InputRefuses(id, "InvalidRequest") /\ UNCHANGED guard
             \/ /\ f.kind = "authorize"
                /\ guard' = IF f.n # input.consent \/ f.body.id # id THEN guard
                            ELSE guard \ Pending(f.body.nonce)
                /\ \/ verdict # "ok" /\ InputRefuses(id, verdict)
                   \/ verdict = "ok" /\ ~current /\ InputFails("SessionRevoked") /\ UNCHANGED output
                   \/ /\ verdict = "ok" /\ current
                      /\ input' = [input EXCEPT !.pc = "gate", !.item = @ + 1, !.consent = @ + 1]
                      /\ UNCHANGED <<control, output>>

\* The message goes to the worker as one line; a revocation that is already known wins.
GateForwards ==
    /\ input.pc = "gate" /\ input.item > Len(Items) /\ InputOnly /\ UNCHANGED <<c2s, guard, output, worker>>
    /\ \/ ~current /\ InputFails("SessionRevoked") /\ UNCHANGED hist
       \/ /\ current /\ worker.state # "alive" /\ InputFails("WorkerFailed") /\ UNCHANGED hist
       \/ /\ current /\ worker.state = "alive"
          /\ hist' = [hist EXCEPT !.delivered =
                        Append(@, [message |-> input.message, from |-> input.consent - Len(Items)])]
          /\ input' = [input EXCEPT !.message = <<>>, !.item = 1,
                        !.pc = IF \E i \in DOMAIN input.message : input.message[i] = "pair"
                               THEN "admit" ELSE "ack"]
          /\ UNCHANGED control

\* A pairing waits for room in the control channel; then the message is acknowledged.
InputAdmits ==
    /\ input.pc = "admit" /\ control = <<>> /\ InputOnly
    /\ control' = <<"PairingAdmitted">>
    /\ input' = [input EXCEPT !.pc = "ack"]
    /\ hist' = [hist EXCEPT !.pairing = TRUE]
    /\ UNCHANGED <<c2s, guard, output, worker>>
InputAcknowledges ==
    /\ input.pc = "ack" /\ ~Blocked /\ InputOnly /\ UNCHANGED <<c2s, guard, worker, hist>>
    /\ Push(F("ack", input.expected, Nil))
    /\ IF writer.pc = "done" THEN InputFails("WriterFailed")
       ELSE input' = [input EXCEPT !.pc = "read", !.expected = @ + 1] /\ UNCHANGED control

-----------------------------------------------------------------------------
(* read_worker_output and write_worker_output. *)

ReaderOnly == UNCHANGED <<session, current, pipes, comp, conn, guard, input, writer, done>>
Reader(stream, pc, item) == readers' = [readers EXCEPT ![stream] = [pc |-> pc, item |-> item]]

\* A chunk of stdout, or a line of stderr that may ask for a browser page.
ReaderReads(stream) ==
    /\ conn = "run" /\ readers[stream].pc = "read" /\ ReaderOnly /\ UNCHANGED <<output, hist>>
    /\ \/ /\ worker[stream] = <<>> /\ worker.state = "dead"
          /\ Reader(stream, "done", Nil) /\ UNCHANGED <<control, spent, worker>>
       \/ /\ worker[stream] # <<>>
          /\ worker' = [worker EXCEPT ![stream] = Tail(@)]
          /\ spent' = IF Duplex THEN spent ELSE spent + 1
          /\ LET item == Head(worker[stream])
                 over == ~Duplex /\ spent + 1 > Budget IN
             IF over \/ item = "bad"
             THEN /\ Reader(stream, "done", Nil)
                  /\ control' = TrySend(IF over THEN "OutputLimit" ELSE "WorkerFailed")
             ELSE Reader(stream, "send", item) /\ UNCHANGED control
ReaderSends(stream) ==
    /\ conn = "run" /\ readers[stream].pc = "send" /\ ~Blocked /\ ReaderOnly
    /\ Push(F(IF readers[stream].item = "open" THEN "open" ELSE "output", 0, Nil))
    /\ Reader(stream, IF writer.pc = "done" THEN "done" ELSE "read", Nil)
    /\ UNCHANGED <<control, spent, worker, hist>>

WriterOnly == UNCHANGED <<session, current, c2s, comp, conn, guard, input, readers, spent, worker, done, hist>>
AuthenticationRequired == Rejected(Session, "AuthenticationRequired")

WriterStops == writer' = [writer EXCEPT !.pc = "done", !.frame = Quiet]

\* A frame is taken from the queue; a revoked session gets one last, fixed frame instead.
WriterTakes ==
    /\ conn = "run" /\ writer.pc = "recv" /\ output # <<>> /\ WriterOnly /\ UNCHANGED s2c
    /\ output' = Tail(output)
    /\ LET f == IF Head(output).kind = "output" THEN F("output", writer.seq, Nil) ELSE Head(output) IN
         IF current
         THEN /\ writer' = [pc |-> "write", frame |-> f,
                            seq |-> writer.seq + (IF f.kind = "output" THEN 1 ELSE 0)]
              /\ UNCHANGED control
         ELSE /\ writer' = [writer EXCEPT !.pc = "last", !.frame = AuthenticationRequired]
              /\ control' = TrySend("SessionRevoked")

\* The write: cut by a revocation, failed by a closed or a full pipe, or done.
WriterWrites ==
    /\ writer.pc \in {"write", "last"} /\ WriterOnly /\ UNCHANGED output
    /\ LET bound == writer.pc = "write" /\ writer.frame # AuthenticationRequired IN
       \/ bound /\ ~current /\ WriterStops /\ control' = TrySend("SessionRevoked") /\ UNCHANGED s2c
       \/ /\ ~bound \/ current
          /\ comp.pc = "done" \/ Len(s2c) >= PipeSize
          /\ WriterStops /\ control' = TrySend("WriterFailed") /\ UNCHANGED s2c
       \/ /\ ~bound \/ current
          /\ comp.pc # "done" /\ Len(s2c) < PipeSize
          /\ s2c' = Append(s2c, writer.frame)
          /\ writer' = [writer EXCEPT !.pc = IF writer.pc = "last" THEN "done" ELSE "recv", !.frame = Quiet]
          /\ UNCHANGED control
\* Every sender is gone.
WriterEnds ==
    /\ writer.pc = "recv" /\ output = <<>> /\ done.pc \in {"join", "over"}
    /\ WriterStops /\ WriterOnly /\ UNCHANGED <<s2c, output, control>>

-----------------------------------------------------------------------------
(* The worker, external: it writes, consumes its input and exits when it likes. *)

WorkerOnly == UNCHANGED <<session, current, pipes, comp, conn, guard, tasks, hist>>
WorkerWrites ==
    /\ worker.state = "alive" /\ worker.wrote < session.lines /\ WorkerOnly
    /\ \/ worker' = [worker EXCEPT !.o = Append(@, "line"), !.wrote = @ + 1]
       \/ \E line \in {"line"} \cup (IF Binding THEN {"open", "bad"} ELSE {}) :
            worker' = [worker EXCEPT !.e = Append(@, line), !.wrote = @ + 1]
WorkerExits ==
    /\ worker.state = "alive"
    /\ worker' = [worker EXCEPT !.state = "dead"] /\ WorkerOnly

-----------------------------------------------------------------------------
(* run_worker's select and what follows it. *)

MainOnly == UNCHANGED <<session, current, pipes, comp, guard, readers, spent>>
Break(event) == done' = [pc |-> "kill", why |-> IF current THEN event ELSE "SessionRevoked"]
Selecting == conn = "run" /\ done.pc = "select"

MainSelects ==
    /\ Selecting /\ MainOnly /\ UNCHANGED <<conn, input, output, writer, worker, hist>>
    /\ \/ worker.state = "dead" /\ Break("Exited") /\ UNCHANGED control
       \/ /\ control # <<>> /\ control' = Tail(control)
          /\ IF Head(control) = "PairingAdmitted" THEN UNCHANGED done ELSE Break(Head(control))
       \/ ~current /\ Break("SessionRevoked") /\ UNCHANGED control
MainTimesOut ==
    /\ Selecting /\ Break("TimedOut") /\ MainOnly
    /\ UNCHANGED <<conn, input, output, control, writer, worker, hist>>

\* Anything but an exit kills the worker; then the input task is aborted.
MainKills ==
    /\ done.pc = "kill" /\ MainOnly
    /\ worker' = [worker EXCEPT !.state = "dead"]
    /\ input' = [input EXCEPT !.pc = "done", !.message = <<>>, !.item = 1]
    /\ done' = [done EXCEPT !.pc = "drain"]
    /\ UNCHANGED <<conn, output, control, writer, hist>>

Terminal(why) ==
    CASE why = "Exited" -> F("exited", 0, "exited")
      [] why = "Cancelled" -> F("exited", 130, "cancelled")
      [] why = "InvalidRequest" -> Rejected(Session, "InvalidRequest")
      [] why = "TimedOut" -> Rejected(Session, "SessionExpired")
      [] why = "SessionRevoked" -> AuthenticationRequired
      [] OTHER -> Rejected(Session, "WorkerUnavailable")

\* Both outputs are complete: an event that arrived with the exit replaces it, and so does a revocation.
MainDrains ==
    /\ done.pc = "drain" /\ readers.o.pc = "done" /\ readers.e.pc = "done"
    /\ MainOnly /\ UNCHANGED <<input, worker, hist>>
    /\ LET pending == done.why = "Exited" /\ control # <<>>
           why == IF ~current THEN "SessionRevoked" ELSE IF pending THEN Head(control) ELSE done.why IN
       /\ control' = IF pending THEN Tail(control) ELSE control
       /\ CASE why = "PairingAdmitted" ->
                 done' = [pc |-> "panic", why |-> why] /\ conn' = "over" /\ WriterStops /\ output' = <<>>
            [] why \in {"Disconnected", "WriterFailed"} ->
                 done' = [pc |-> "over", why |-> why] /\ conn' = "over" /\ WriterStops /\ output' = <<>>
            [] OTHER -> done' = [pc |-> "send", why |-> why] /\ UNCHANGED <<conn, writer, output>>
MainSends ==
    /\ done.pc = "send" /\ ~Blocked /\ MainOnly /\ UNCHANGED <<control, input, writer, worker, hist>>
    /\ Push(Terminal(done.why))
    /\ IF writer.pc = "done" THEN done' = [done EXCEPT !.pc = "over"] /\ conn' = "over"
       ELSE done' = [done EXCEPT !.pc = "join"] /\ UNCHANGED conn
MainJoins ==
    /\ done.pc = "join" /\ writer.pc = "done" /\ MainOnly
    /\ done' = [done EXCEPT !.pc = "over"] /\ conn' = "over"
    /\ UNCHANGED <<control, input, output, writer, worker, hist>>

\* A lock, a logout, a suspend or a resume.
Revoke ==
    /\ current /\ conn # "over" /\ current' = FALSE
    /\ hist' = [hist EXCEPT !.revoked = comp.result = Nil /\ \A i \in DOMAIN s2c : s2c[i].kind # "exited"]
    /\ UNCHANGED <<session, pipes, comp, conn, guard, tasks, worker>>

Over == conn = "over" /\ comp.pc = "done" /\ UNCHANGED vars

Companion == CompanionExecute \/ CompanionMessage \/ CompanionCloses \/ CompanionTakes
             \/ CompanionConsents \/ CompanionEnds
Connection == ConnChallenges \/ ConnExecutes \/ ConnInput \/ ConnSpawns
Input == InputReads \/ GateChallenges \/ GateVerifies \/ GateForwards \/ InputAdmits \/ InputAcknowledges
Writer == WriterTakes \/ WriterWrites \/ WriterEnds
Main == MainSelects \/ MainKills \/ MainDrains \/ MainSends \/ MainJoins
Next ==
    \/ Companion \/ CompanionCancels \/ StrayFrame \/ Connection \/ Input \/ Writer \/ Main
    \/ \E stream \in {"o", "e"} : ReaderReads(stream) \/ ReaderSends(stream)
    \/ MainTimesOut \/ Revoke \/ WorkerWrites \/ WorkerExits \/ Over

\* The service's tasks run when they can and its timeouts expire; nothing is asked of the companion,
\* of the operator or of the worker.
Fairness ==
    /\ WF_vars(Connection) /\ WF_vars(Input) /\ WF_vars(Writer) /\ WF_vars(Main)
    /\ WF_vars(MainTimesOut)
    /\ \A stream \in {"o", "e"} : WF_vars(ReaderReads(stream) \/ ReaderSends(stream))
Spec == Init /\ [][Next]_vars /\ Fairness

-----------------------------------------------------------------------------
(* Properties. *)

TypeOK ==
    /\ Len(control) <= 1 /\ Len(output) <= QueueSize
    /\ conn \in {"request", "execute", "input", "spawn", "run", "over"}
    /\ done.pc \in {"select", "kill", "drain", "send", "join", "over", "panic"}

\* Every secret operation in a line the worker was given was signed by the operator for that very
\* line, item and position in the session, whatever else the pipe carried (authorize_mcp_message).
DeliveredWithConsent ==
    \A d \in Range(hist.delivered) :
      LET items == mcp_secret_operations(d.message) IN
      \A i \in DOMAIN items :
        \E c \in hist.signed : c[2] = mcp_operation_hash(d.from + i - 1, items[i], d.message)

\* A session revoked before its end was reported never ends as an exit of the worker or of a
\* cancellation (run_worker, write_worker_output).
RevokedIsShown == hist.revoked => comp.result \notin {"exited", "cancelled"}

\* The companion reports an exit only after it has relayed all the worker wrote, so that a worker
\* that overran its output or wrote a malformed control line is not reported as exited even when its
\* exit is noticed first (run_worker awaits both outputs and looks at the control channel again).
\* A pairing that was admitted is the exception: its event can take the place of the failure's.
ExitIsWhole == comp.result = "exited" /\ ~hist.pairing => comp.out + comp.opens = worker.wrote

\* A companion that keeps to the protocol is never told that it did not, and never finds the service
\* at fault, as long as its messages are ones it may send.
ConformingIsServed ==
    (session.client = "conforming" /\ \A m \in Range(session.script) : Range(m) \subseteq Consentable \cup {"plain"})
      => comp.result \notin {"InvalidResponse", "ReplayDetected", "ConsentInvalid", "OperationForbidden"}

\* Admission of a pairing is never taken for the end of the session.
AdmissionIsNotTerminal == done.pc # "panic"

\* Whatever the companion, the worker and the pipe do, the connection ends and no worker is left.
ConnectionEnds == <>(conn = "over" /\ worker.state # "alive")
=============================================================================
