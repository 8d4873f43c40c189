--------------------------- MODULE WindowsExecutor ---------------------------
(***************************************************************************)
(* A script or command on Windows: the runtime starts palladin-executor    *)
(* and sends it the request (palladin-exec run_windows_request_captured),  *)
(* the executor starts the program suspended in a fresh AppContainer, puts *)
(* it into a kill-on-close job, resumes it, feeds it the script over a     *)
(* pipe, forwards what it prints and returns its exit code                 *)
(* (palladin-windows-executor windows.rs).  The program may start a        *)
(* process of its own that keeps the inherited pipes.                      *)
(*                                                                         *)
(* Standard error is handled like standard output and is left out.  The    *)
(* executor itself runs in the runtime's process group, a job of Windows,  *)
(* so killing that group ends everything below it.                         *)
(***************************************************************************)
EXTENDS Naturals, Sequences, FiniteSets

CONSTANTS
    Requests,  \* [script, big, reads]: a script on standard input, larger than
               \* a pipe holds, and whether the program reads it
    MaxLines   \* lines the program and its descendant print

VARIABLES
    request,    \* what the runtime was asked to run
    runtime,    \* [at, exit]: the runtime's step, and what it returns
    cancelled,  \* the caller's cancellation token
    executor,   \* the executor's step, "exited" or "killed"
    status,     \* the executor's exit status
    container,  \* the AppContainer profile exists
    job,        \* "none", "open" or "closed"
    member,     \* the program belongs to the job
    program,    \* "none", "suspended", "running", "exited" or "killed"
    descendant, \* "none", "running" or "dead"
    script,     \* the input pipe: "none", "empty", "full", "read" or "broken"
    feeding,    \* the input thread: "none", "writing", "ok" or "failed"
    printed,    \* lines printed
    piped,      \* lines in the program's output pipe
    forwarding, \* the output thread: "none", "copying" or "ok"
    forwarded,  \* lines in the executor's standard output
    captured    \* lines the runtime has read

vars == <<request, runtime, cancelled, executor, status, container, job, member, program,
          descendant, script, feeding, printed, piped, forwarding, forwarded, captured>>

PipeRoom == 1
Failure == 125
NotFound == 127
Cancelled == 130
Unset == 1000

Init ==
    /\ request \in Requests
    /\ runtime = [at |-> "start", exit |-> Unset]
    /\ cancelled = FALSE
    /\ executor = "none" /\ status = Unset
    /\ container = FALSE /\ job = "none" /\ member = FALSE
    /\ program = "none" /\ descendant = "none"
    /\ script = "none" /\ feeding = "none"
    /\ printed = 0 /\ piped = 0 /\ forwarding = "none" /\ forwarded = 0 /\ captured = 0

Inside == <<container, job, member, program, descendant, script, feeding, printed, piped,
            forwarding>>

-----------------------------------------------------------------------------
(* The runtime *)

Cancel ==
    /\ ~cancelled /\ runtime.at # "done"
    /\ cancelled' = TRUE
    /\ UNCHANGED <<request, runtime, executor, status, forwarded, captured>>
    /\ UNCHANGED Inside

(* Killing the group ends the executor and all below it; nothing of the     *)
(* executor's own cleanup runs.                                             *)
KillGroup ==
    /\ executor' = "killed"
    /\ program' = IF program \in {"suspended", "running"} THEN "killed" ELSE program
    /\ descendant' = IF descendant = "running" THEN "dead" ELSE descendant
    /\ UNCHANGED <<container, job, member, script, feeding, printed, piped, forwarding>>

Start ==
    /\ runtime.at = "start"
    /\ IF cancelled THEN runtime' = [at |-> "done", exit |-> Cancelled] /\ UNCHANGED executor
       ELSE runtime' = [runtime EXCEPT !.at = "write"] /\ executor' = "read"
    /\ UNCHANGED <<request, cancelled, status, forwarded, captured>> /\ UNCHANGED Inside

(* The request is written and standard input closed, or the executor has    *)
(* gone, or the write is cancelled: select! takes whichever is ready.       *)
Write ==
    /\ runtime.at = "write"
    /\ \/ /\ executor = "read"
          /\ runtime' = [runtime EXCEPT !.at = "wait"]
          /\ executor' = "profile"
          /\ UNCHANGED Inside
       \/ /\ cancelled
          /\ runtime' = [at |-> "done", exit |-> Cancelled]
          /\ KillGroup
    /\ UNCHANGED <<request, cancelled, status, forwarded, captured>>

(* wait_for_group: the executor's status, or the cancellation. *)
Wait ==
    /\ runtime.at = "wait"
    /\ \/ /\ executor = "exited"
          /\ runtime' = [at |-> "collect", exit |-> status]
          /\ UNCHANGED <<executor, Inside>>
       \/ /\ cancelled
          /\ runtime' = [at |-> "collect", exit |-> Cancelled]
          /\ IF executor = "exited" THEN UNCHANGED <<executor, Inside>> ELSE KillGroup
    /\ UNCHANGED <<request, cancelled, status, forwarded, captured>>

(* capture_stream runs beside the wait and ends when the executor's output  *)
(* is closed.                                                               *)
Capture ==
    /\ runtime.at \in {"write", "wait", "collect"} /\ forwarded > 0
    /\ forwarded' = forwarded - 1 /\ captured' = captured + 1
    /\ UNCHANGED <<request, runtime, cancelled, executor, status>> /\ UNCHANGED Inside

Collected ==
    /\ runtime.at = "collect" /\ forwarded = 0 /\ executor \in {"exited", "killed"}
    /\ runtime' = [runtime EXCEPT !.at = "done"]
    /\ UNCHANGED <<request, cancelled, executor, status, forwarded, captured>>
    /\ UNCHANGED Inside

-----------------------------------------------------------------------------
(* The executor *)

Executor == UNCHANGED <<request, runtime, cancelled, captured>>

(* Leaving execute drops the job, whose members die, and then the profile.  *)
Exits(code) ==
    /\ executor' = "exited" /\ status' = code
    /\ container' = FALSE
    /\ job' = IF job = "open" THEN "closed" ELSE job
    /\ program' = IF member /\ program \in {"suspended", "running"} THEN "killed" ELSE program
    /\ descendant' = IF member /\ descendant = "running" THEN "dead" ELSE descendant
    /\ UNCHANGED <<member, script, feeding, printed, piped, forwarding, forwarded>>

(* AppContainerProfile::create; the script becomes a payload; the           *)
(* executable is resolved and pinned; the environment is built.             *)
Prepare ==
    /\ executor = "profile"
    /\ \/ \E code \in {Failure, NotFound} : Exits(code)
       \/ /\ executor' = "create" /\ container' = TRUE
          /\ UNCHANGED <<status, job, member, program, descendant, script, feeding, printed,
                         piped, forwarding, forwarded>>
    /\ Executor

(* Pipes, attributes and the job, then CreateProcessW with the thread       *)
(* suspended.                                                               *)
Create ==
    /\ executor = "create"
    /\ \/ Exits(Failure)
       \/ /\ executor' = "assign" /\ job' = "open" /\ program' = "suspended"
          /\ script' = IF request.script THEN "empty" ELSE "none"
          /\ UNCHANGED <<status, container, member, descendant, feeding, printed, piped,
                         forwarding, forwarded>>
    /\ Executor

(* Mutant: a failed assignment is ignored. *)
AssignOrNot ==
    /\ executor = "assign"
    /\ executor' = "resume" /\ member' \in BOOLEAN
    /\ UNCHANGED <<status, container, job, program, descendant, script, feeding, printed, piped,
                   forwarding, forwarded>>
    /\ Executor

(* A program that could not be put into the job is terminated by hand. *)
Assign ==
    /\ executor = "assign"
    /\ \/ /\ executor' = "exited" /\ status' = Failure
          /\ container' = FALSE /\ job' = "closed" /\ program' = "killed"
          /\ UNCHANGED <<member, descendant, script, feeding, printed, piped, forwarding,
                         forwarded>>
       \/ /\ executor' = "resume" /\ member' = TRUE
          /\ UNCHANGED <<status, container, job, program, descendant, script, feeding,
                         printed, piped, forwarding, forwarded>>
    /\ Executor

Resume ==
    /\ executor = "resume"
    /\ \/ /\ executor' = "exited" /\ status' = Failure
          /\ container' = FALSE /\ job' = "closed" /\ program' = "killed"
          /\ UNCHANGED <<feeding, forwarding>>
       \/ /\ executor' = "wait" /\ program' = "running"
          /\ feeding' = IF request.script THEN "writing" ELSE "none"
          /\ forwarding' = "copying"
          /\ UNCHANGED <<status, container, job>>
    /\ UNCHANGED <<member, descendant, script, printed, piped, forwarded>>
    /\ Executor

Alive == executor \notin {"none", "exited", "killed"}
Holders == program \in {"suspended", "running"} \/ descendant = "running"

(* The input thread.  A payload that fits the pipe is written at once; a    *)
(* larger one when the program reads, or never when its readers are gone.   *)
Feeds ==
    /\ Alive /\ feeding = "writing"
    /\ \/ /\ script = "empty" /\ Holders /\ ~request.big
          /\ script' = "full" /\ feeding' = "ok"
       \/ /\ script = "read"
          /\ feeding' = "ok" /\ UNCHANGED script
       \/ /\ script # "read" /\ ~Holders
          /\ script' = "broken" /\ feeding' = "failed"
    /\ UNCHANGED <<executor, status, container, job, member, program, descendant, printed,
                   piped, forwarding, forwarded>>
    /\ Executor

(* The output thread: io::copy to the end of the pipe. *)
Forwards ==
    /\ Alive /\ forwarding = "copying"
    /\ \/ /\ piped > 0 /\ forwarded < PipeRoom
          /\ piped' = piped - 1 /\ forwarded' = forwarded + 1
          /\ UNCHANGED forwarding
       \/ /\ piped = 0 /\ ~Holders
          /\ forwarding' = "ok" /\ UNCHANGED <<piped, forwarded>>
    /\ UNCHANGED <<executor, status, container, job, member, program, descendant, script,
                   feeding, printed>>
    /\ Executor

(* The program has ended: the job is closed, so that what it started ends   *)
(* too, and only then are the threads joined.                               *)
ProgramEnded ==
    /\ executor = "wait" /\ program = "exited"
    /\ executor' = "join" /\ job' = "closed"
    /\ descendant' = IF member /\ descendant = "running" THEN "dead" ELSE descendant
    /\ UNCHANGED <<status, container, member, program, script, feeding, printed, piped,
                   forwarding, forwarded>>
    /\ Executor

WaitFails ==
    /\ executor = "wait"
    /\ Exits(Failure)
    /\ Executor

Joined ==
    /\ executor = "join" /\ forwarding = "ok" /\ feeding # "writing"
    /\ Exits(IF feeding = "failed" THEN Failure ELSE 0)
    /\ Executor

-----------------------------------------------------------------------------
(* The program, external *)

Program == UNCHANGED <<request, runtime, cancelled, executor, status, container, job, member,
                       forwarding, forwarded, captured>>

Prints ==
    /\ program = "running" \/ descendant = "running"
    /\ printed < MaxLines /\ piped < PipeRoom
    /\ printed' = printed + 1 /\ piped' = piped + 1
    /\ UNCHANGED <<program, descendant, script, feeding>> /\ Program

ReadsScript ==
    /\ program = "running" /\ request.reads
    /\ script = "full" \/ (script = "empty" /\ feeding = "writing")
    /\ script' = "read"
    /\ UNCHANGED <<program, descendant, feeding, printed, piped>> /\ Program

Forks ==
    /\ program = "running" /\ descendant = "none"
    /\ descendant' = "running"
    /\ UNCHANGED <<program, script, feeding, printed, piped>> /\ Program

Ends ==
    /\ program = "running"
    /\ request.script /\ request.reads => script = "read"
    /\ program' = "exited"
    /\ UNCHANGED <<descendant, script, feeding, printed, piped>> /\ Program

Runs == Start \/ Write \/ Wait \/ Capture \/ Collected
Executes == Prepare \/ Create \/ Assign \/ Resume \/ ProgramEnded \/ Joined

Next ==
    \/ Runs \/ Cancel
    \/ Executes \/ Feeds \/ Forwards \/ WaitFails
    \/ Prints \/ ReadsScript \/ Forks \/ Ends

(* The runtime, the executor and its two threads are scheduled; the program *)
(* itself ends, its descendant need not.                                    *)
Spec ==
    /\ Init /\ [][Next]_vars
    /\ WF_vars(Runs) /\ WF_vars(Executes) /\ WF_vars(Feeds) /\ WF_vars(Forwards)
    /\ WF_vars(ReadsScript) /\ WF_vars(Ends)

-----------------------------------------------------------------------------
(* Properties *)

TypeOK ==
    /\ runtime.at \in {"start", "write", "wait", "collect", "done"}
    /\ program \in {"none", "suspended", "running", "exited", "killed"}
    /\ descendant \in {"none", "running", "dead"}
    /\ piped \in 0 .. PipeRoom /\ forwarded \in 0 .. PipeRoom /\ printed \in 0 .. MaxLines

(* When the runtime has its answer nothing that the request started is      *)
(* still running, whichever step failed or was cancelled; and the           *)
(* AppContainer is gone unless the executor was killed.                     *)
NothingOutlives ==
    runtime.at = "done" =>
        /\ program \notin {"suspended", "running"} /\ descendant # "running"
        /\ container => executor = "killed"

(* A program's exit code is reported only with everything it and what it    *)
(* started had printed, and after it took its whole script.                 *)
CodeComesWithOutput ==
    runtime.at = "done" /\ runtime.exit = 0 =>
        /\ captured = printed
        /\ program = "exited"
        /\ feeding \in {"none", "ok"}

(* The request ends, also when what the program started keeps the pipes. *)
RequestEnds == <>(runtime.at = "done")
=============================================================================
