------------------------------ MODULE ScriptExec ------------------------------
(***************************************************************************)
(* Running a program with credentials in its environment.  The mode is     *)
(* the code path of palladin-exec:                                         *)
(*   "command"   run_command: null stdin, output not captured;             *)
(*   "script"    run_script_captured in the runtime process: a private     *)
(*               script file, a parameter frame on stdin, stdout captured  *)
(*               up to a limit, stderr drained and dropped;                *)
(*   "hardened"  run_linux_request_captured: the same in an executor       *)
(*               service of another UID, one process per request, over a   *)
(*               socket; systemd kills what is left of the unit when the   *)
(*               executor exits.                                           *)
(* The program is the environment: its leader and the processes it forks   *)
(* read, write, close their input, fork and exit as they like; none leaves *)
(* the process group.  Pipes have a capacity; input and output are counted *)
(* in units.  A frame of the executor is read when it is sent.             *)
(***************************************************************************)
EXTENDS Integers

CONSTANTS
    Modes,        \* the code paths considered
    InputSize,    \* units of the parameter frame
    MaxOutput,    \* bound: units a program writes
    PipeCap,      \* capacity of a pipe
    MaxCapture,   \* MAX_CAPTURED_STDOUT_BYTES
    MaxKids       \* bound: processes forked into the group

VARIABLES
    mode,      \* the code path
    token,     \* the operation's cancellation token
    runner,    \* where the code that owns the child is
    leader,    \* the process spawned
    kids,      \* live processes it forked
    forked,    \* processes forked so far
    inLeft,    \* units of stdin not yet written
    inPipe,    \* units in the stdin pipe
    reading,   \* the program has not closed its stdin
    written,   \* units written to stdout by the program
    outPipe,   \* units in the stdout pipe
    captured,  \* units kept by the capturing reader
    tooLarge,  \* stdout_too_large
    copying,   \* the task that reads stdout is running
    copyingErr,\* the task that reads stderr is running
    file,      \* the private script file exists
    conn,      \* hardened: the socket between runtime and executor is open
    result     \* what the caller of run_* got

program == <<leader, kids, forked, reading>>
pipes == <<inLeft, inPipe, written, outPipe>>
kept == <<captured, tooLarge>>
tasks == <<copying, copyingErr>>
capture == <<kept, tasks>>
vars == <<mode, token, runner, program, pipes, capture, file, conn, result>>

Piped == mode # "command"
Alive == leader = "running" \/ kids > 0
Smaller(a, b) == IF a < b THEN a ELSE b

Init ==
    /\ mode \in Modes
    /\ token = FALSE
    /\ runner = "start"
    /\ leader = "none" /\ kids = 0 /\ forked = 0 /\ reading = TRUE
    /\ inLeft = InputSize /\ inPipe = 0 /\ written = 0 /\ outPipe = 0
    /\ captured = 0 /\ tooLarge = FALSE /\ copying = FALSE /\ copyingErr = FALSE
    /\ file = FALSE
    /\ conn = FALSE
    /\ result = "none"

\* The caller cancels, the lease ends or its time is up.
Cancel ==
    /\ ~token
    /\ token' = TRUE
    /\ UNCHANGED <<mode, runner, program, pipes, capture, file, conn, result>>

-----------------------------------------------------------------------------
(* The program.                                                             *)

ReadInput ==
    /\ leader = "running" /\ reading /\ inPipe > 0
    /\ inPipe' = inPipe - 1
    /\ UNCHANGED <<mode, token, runner, program, inLeft, written, outPipe, capture, file, conn, result>>

CloseInput ==
    /\ Piped /\ Alive /\ reading
    /\ reading' = FALSE
    /\ UNCHANGED <<mode, token, runner, leader, kids, forked, pipes, capture, file, conn, result>>

WriteOutput ==
    /\ copying /\ Alive
    /\ written < MaxOutput /\ outPipe < PipeCap
    /\ written' = written + 1 /\ outPipe' = outPipe + 1
    /\ UNCHANGED <<mode, token, runner, program, inLeft, inPipe, capture, file, conn, result>>

\* A write to stderr matters only to copy_output, whose frame cannot be sent
\* once the runtime is gone.
WriteError ==
    /\ mode = "hardened" /\ copyingErr /\ Alive /\ ~conn
    /\ copyingErr' = FALSE
    /\ UNCHANGED <<mode, token, runner, program, pipes, kept, copying, file, conn, result>>

Fork ==
    /\ leader = "running" /\ forked < MaxKids
    /\ kids' = kids + 1 /\ forked' = forked + 1
    /\ UNCHANGED <<mode, token, runner, leader, reading, pipes, capture, file, conn, result>>

KidExits ==
    /\ kids > 0
    /\ kids' = kids - 1
    /\ UNCHANGED <<mode, token, runner, leader, forked, reading, pipes, capture, file, conn, result>>

LeaderExits ==
    /\ leader = "running"
    /\ leader' = "exited"
    /\ UNCHANGED <<mode, token, runner, kids, forked, reading, pipes, capture, file, conn, result>>

-----------------------------------------------------------------------------
(* The code.                                                                *)

Killed == IF leader = "running" THEN "killed" ELSE leader

\* child.kill(): the whole group.
KillGroup ==
    /\ leader' = Killed /\ kids' = 0
    /\ UNCHANGED <<forked, reading>>

\* The child handle is dropped: kill_on_drop.
DropChild ==
    /\ leader' = Killed
    /\ UNCHANGED <<kids, forked, reading>>

\* The caller gets r unless a cancelled client already returned.
Answer(r) == result' = IF result = "none" THEN r ELSE result

\* The runner returns after its file is gone.  The executor process ends with
\* it, its socket closes and systemd ends what it left behind.
Return(r, EndChild) ==
    /\ runner' = "done" /\ file' = FALSE
    /\ Answer(r)
    /\ IF mode = "hardened"
         THEN conn' = FALSE /\ copying' = FALSE /\ copyingErr' = FALSE /\ KillGroup
         ELSE UNCHANGED <<conn, tasks>> /\ EndChild
    /\ UNCHANGED <<mode, token, pipes, kept>>

StartCancelled ==
    /\ runner = "start" /\ token
    /\ runner' = "done" /\ Answer("cancelled")
    /\ UNCHANGED <<mode, token, program, pipes, capture, file, conn>>

\* The request is handed to an executor, which does not see the token.
SendRequest ==
    /\ mode = "hardened" /\ runner = "start" /\ ~token
    /\ runner' = "sent" /\ conn' = TRUE
    /\ UNCHANGED <<mode, token, program, pipes, capture, file, result>>

ReadyToSpawn ==
    IF mode = "hardened" THEN runner = "sent" ELSE runner = "start" /\ ~token

\* The script file is written, the program spawned in a group of its own and
\* both readers started before anything is written to its stdin.
Spawn ==
    /\ ReadyToSpawn
    /\ leader' = "running"
    /\ runner' = IF Piped THEN "stdin" ELSE "wait"
    /\ file' = Piped /\ copying' = Piped /\ copyingErr' = Piped
    /\ UNCHANGED <<mode, token, kids, forked, reading, pipes, kept, conn, result>>

\* A program that is not found is an exit code of its own for run_command.
SpawnFails ==
    /\ ReadyToSpawn
    /\ \E r \in {"error"} \cup (IF Piped THEN {} ELSE {"notFound"}) :
          Return(r, UNCHANGED program)

\* write_all of the parameter frame, unit by unit.
WriteInput ==
    /\ runner = "stdin" /\ inLeft > 0
    /\ Alive /\ reading /\ inPipe < PipeCap
    /\ inLeft' = inLeft - 1 /\ inPipe' = inPipe + 1
    /\ UNCHANGED <<mode, token, runner, program, written, outPipe, capture, file, conn, result>>

\* No process holds the read end any more: the call fails.
InputBroken ==
    /\ runner = "stdin" /\ inLeft > 0
    /\ ~Alive \/ ~reading
    /\ Return("error", DropChild)

InputDone ==
    /\ runner = "stdin" /\ inLeft = 0
    /\ runner' = "wait"
    /\ UNCHANGED <<mode, token, program, pipes, capture, file, conn, result>>

\* Only the in-process runner selects on the token while it writes.
CancelInput ==
    /\ runner = "stdin" /\ token /\ mode = "script"
    /\ runner' = "done" /\ file' = FALSE
    /\ Answer("cancelled")
    /\ KillGroup
    /\ copying' = FALSE /\ copyingErr' = FALSE
    /\ UNCHANGED <<mode, token, pipes, kept, conn>>

\* What the buffer of capture_stream holds after a read of n units.
Keep(n) == Smaller(n, MaxCapture + 1 - captured)

\* Mutant: only output that is cut here counts as too large.
CaptureChunkCutOnly(n) ==
    /\ captured' = captured + Keep(n)
    /\ tooLarge' = (tooLarge \/ n > Keep(n))

\* One read of the stdout task: at most the limit and one more is kept.
CaptureChunk(n) ==
    /\ captured' = captured + Keep(n)
    /\ tooLarge' = (tooLarge \/ n > Keep(n) \/ captured + Keep(n) > MaxCapture)

\* Mutant: the output is read once the input is written.
ReadOutputAfterInput ==
    /\ copying /\ runner # "stdin"
    /\ \E n \in 1 .. outPipe :
         /\ outPipe' = outPipe - n
         /\ IF mode = "hardened" /\ ~conn
              THEN copying' = FALSE /\ UNCHANGED kept
              ELSE CaptureChunk(n) /\ UNCHANGED copying
    /\ UNCHANGED <<mode, token, runner, program, inLeft, inPipe, written, copyingErr, file, conn, result>>

\* capture_stream; hardened: copy_output, whose frame reaches the runtime
\* while the socket is open and otherwise ends the task.
ReadOutput ==
    /\ copying
    /\ \E n \in 1 .. outPipe :
         /\ outPipe' = outPipe - n
         /\ IF mode = "hardened" /\ ~conn
              THEN copying' = FALSE /\ UNCHANGED kept
              ELSE CaptureChunk(n) /\ UNCHANGED copying
    /\ UNCHANGED <<mode, token, runner, program, inLeft, inPipe, written, copyingErr, file, conn, result>>

\* wait_for_group, every 20 ms: cancellation first, then the leader.
WaitCancelled ==
    /\ runner = "wait" /\ token /\ mode # "hardened"
    /\ KillGroup
    /\ runner' = IF Piped THEN "cancelled" ELSE "done"
    /\ IF Piped THEN UNCHANGED result ELSE Answer("cancelled")
    /\ UNCHANGED <<mode, token, pipes, capture, file, conn>>

WaitExited ==
    /\ runner = "wait" /\ leader # "running"
    /\ token => mode = "hardened"
    /\ runner' = IF Piped THEN "drain" ELSE "done"
    /\ IF Piped THEN UNCHANGED result ELSE Answer("exit")
    /\ UNCHANGED <<mode, token, program, pipes, capture, file, conn>>

\* The executor notices that the runtime is gone.
WaitDisconnected ==
    /\ runner = "wait" /\ mode = "hardened" /\ ~conn
    /\ Return("error", KillGroup)

\* A reader ends when no process holds its pipe and it is empty.
ReadersDone ==
    /\ copying => outPipe = 0 /\ ~Alive
    /\ copyingErr => ~Alive

\* Both readers are joined, in this order, whatever the token says.
Drained ==
    /\ runner \in {"drain", "cancelled"}
    /\ ReadersDone
    /\ Return(IF runner = "cancelled" THEN "cancelled"
              ELSE IF copying /\ copyingErr THEN "exit" ELSE "error", DropChild)

\* Hardened: the runtime selects between frames and its token.
ClientCancelled ==
    /\ mode = "hardened" /\ token /\ conn /\ result = "none"
    /\ result' = "cancelled" /\ conn' = FALSE
    /\ UNCHANGED <<mode, token, runner, program, pipes, capture, file>>

-----------------------------------------------------------------------------
Runner ==
    \/ StartCancelled \/ SendRequest \/ Spawn \/ SpawnFails
    \/ WriteInput \/ InputBroken \/ InputDone \/ CancelInput
    \/ WaitCancelled \/ WaitExited \/ WaitDisconnected
    \/ Drained

Next ==
    \/ Cancel
    \/ ReadInput \/ CloseInput \/ WriteOutput \/ WriteError
    \/ Fork \/ KidExits \/ LeaderExits
    \/ Runner \/ ReadOutput \/ ClientCancelled

\* The async runtime polls the runner, the reader and the client.
Fairness == WF_vars(Runner) /\ WF_vars(ReadOutput) /\ WF_vars(ClientCancelled)

Spec == Init /\ [][Next]_vars /\ Fairness

\* A program that writes all its output, reads its input (perhaps only then)
\* and ends, as its children do; a write into a closed pipe ends it.
MayEnd ==
    \/ ~Piped
    \/ ~copying
    \/ written = MaxOutput /\ ((inLeft = 0 /\ inPipe = 0) \/ ~reading)

-----------------------------------------------------------------------------
TypeOK ==
    /\ token \in BOOLEAN /\ file \in BOOLEAN /\ conn \in BOOLEAN
    /\ tooLarge \in BOOLEAN /\ copying \in BOOLEAN /\ copyingErr \in BOOLEAN
    /\ reading \in BOOLEAN
    /\ runner \in {"start", "sent", "stdin", "wait", "drain", "cancelled", "done"}
    /\ leader \in {"none", "running", "exited", "killed"}
    /\ kids \in 0..MaxKids /\ forked \in 0..MaxKids
    /\ inLeft \in 0..InputSize /\ inPipe \in 0..PipeCap
    /\ written \in 0..MaxOutput /\ outPipe \in 0..PipeCap
    /\ captured \in 0..(MaxCapture + 1)
    /\ result \in {"none", "exit", "notFound", "cancelled", "error"}

(***************************************************************************)
(* A captured result is the program's whole output, or says that it is     *)
(* not: stdout_too_large is set exactly when more than the limit was       *)
(* written by any process of the group, however the reads cut it up.       *)
(***************************************************************************)
CaptureExact ==
    (Piped /\ result = "exit") =>
        /\ captured = Smaller(written, MaxCapture + 1)
        /\ tooLarge <=> written > MaxCapture

(***************************************************************************)
(* The private script file is gone when the code that wrote it is done, on *)
(* every completion, error and cancellation path.                          *)
(***************************************************************************)
ScriptRemoved == runner = "done" => ~file

(***************************************************************************)
(* The program spawned is never left running by the code that owns it, and *)
(* a caller is told of an exit only when the program ended by itself and   *)
(* nothing it started still holds the captured output.                     *)
(***************************************************************************)
LeaderReaped ==
    /\ runner = "done" => leader # "running"
    /\ result = "exit" => leader = "exited"
    /\ (result = "exit" /\ Piped) => ~Alive

(***************************************************************************)
(* Input and output larger than the pipes never block the runner and the   *)
(* program on each other: if the program ends when it can, the call does.  *)
(***************************************************************************)
Finishes == <>(runner = "done" /\ result # "none" /\ ~Alive)

(***************************************************************************)
(* Cancellation ends the program that was spawned in process, whatever it  *)
(* does, unless it has ended by itself.                                    *)
(***************************************************************************)
CancelEndsLeader == (token /\ mode # "hardened") ~> leader # "running"

(***************************************************************************)
(* "A POSIX process group or Windows Job Object owns the complete child    *)
(* process tree. Cancellation terminates the group."                       *)
(***************************************************************************)
CancelEndsGroup == token ~> ~Alive
=============================================================================
