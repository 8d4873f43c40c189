----------------------------- MODULE MCExecution ------------------------------
(***************************************************************************)
(* Commands and the programs they run, in one run: `scenario' picks a      *)
(* command from its gates to its message (Commands), the Linux and macOS   *)
(* runner (ScriptExec), the Windows executor (WindowsExecutor), a worker's *)
(* session with the Linux or the Windows broker (LinuxSession,             *)
(* WindowsSession) or the launches of the npm package from its cache on    *)
(* Windows (RuntimeCache), and the machine it picks runs alone.  What the  *)
(* Windows executor hands to a program is checked as operators.            *)
(***************************************************************************)
EXTENDS MCCommands, WindowsArguments

CONSTANTS Modes, InputSize, MaxOutput, PipeCap, MaxCapture, MaxKids, MaxLines, OutputBudget, SocketSize,
          MaxStray, QueueSize, PipeSize, Releases, Launchers, MaxUpdates, MaxKills

ASSUME ExecutionAssumption ==
    /\ Modes \subseteq {"command", "script", "hardened"}
    /\ \A n \in {InputSize, MaxOutput, MaxCapture, MaxKids} : n \in Nat
    /\ {PipeCap, SocketSize, QueueSize, PipeSize} \subseteq Nat \ {0} /\ {OutputBudget, MaxStray} \subseteq Nat
    /\ {MaxUpdates, MaxKills} \subseteq Nat

VARIABLES
    scenario,
    mode, token, runner, leader, kids, forked, inLeft, inPipe, reading, written, outPipe, captured, tooLarge,
    copying, copyingErr, file, conn, result,
    request, runtime, cancelled, executor, exit_status, container, container_job, member, program, descendant,
    script, feeding, printed, piped, forwarding, forwarded, collected,
    task, up, down, front, asked, host, feed, copier, total, failed, proc,
    session, current, c2s, s2c, comp, connection, guard, pipe_input, pipe_output, control, writer, readers,
    spent, worker, decided, hist,
    cli, package, updates, entry, leases, launcher, wrapper

\* A command; a script that fits the pipe, read or not; one that does not.
Requests == [script : {FALSE}, big : {FALSE}, reads : {FALSE}] \cup [script : {TRUE}, big : BOOLEAN, reads : BOOLEAN]

\* No input, a secret, and a stream whose worker may ask for a page; the last
\* two with a frame out of turn.
LinuxSessions ==
    {[mode |-> "closed", chunks |-> 0, binding |-> FALSE, lines |-> 2, stray |-> 0],
     [mode |-> "secret", chunks |-> 0, binding |-> FALSE, lines |-> 1, stray |-> 1],
     [mode |-> "stream", chunks |-> 1, binding |-> TRUE, lines |-> 1, stray |-> 1]}

\* An MCP host that pairs, a worker without a host on a pipe with other frames,
\* and a pairing.
Sessions ==
    {[op |-> "mcp", client |-> "conforming", script |-> << <<"pair">> >>, lines |-> 0],
     [op |-> "connect", client |-> "stray", script |-> <<>>, lines |-> 0],
     [op |-> "pair", client |-> "conforming", script |-> <<>>, lines |-> 1]}

\* The installed release; the other one comes with an update.
Installed == CHOOSE r \in Releases : TRUE

Characters == {"a", Space, Quote, Backslash}

\* A program reads from its command line exactly the arguments it was to get,
\* whatever quotes, spaces and backslashes they hold.
ASSUME QuotingRoundTrips ==
    /\ \A argument \in BoundedSeq(Characters, 4) :
           CommandLineToArgv(windows_command_line(<<argument>>)) = <<argument>>
    /\ \A first, second \in BoundedSeq(Characters, 2) :
           CommandLineToArgv(windows_command_line(<<first, second>>)) = <<first, second>>

\* A request whose names are accepted gives a block in which every variable
\* has one value: the secret its own, the machine's variables theirs.
ASSUME EnvironmentIsExact ==
    \A names \in BoundedSeq(Names, 3) :
        LET secrets == [i \in DOMAIN names |-> [name |-> names[i], value |-> i]]
            block   == build_environment(secrets)
        IN validate_windows_secret_environment_names(names) =>
               /\ Cardinality({x.name : x \in block}) = Cardinality(block)
               /\ \A i \in DOMAIN names : [name |-> Upper[names[i]], value |-> i] \in block

S == INSTANCE ScriptExec
W == INSTANCE WindowsExecutor WITH captured <- collected, job <- container_job, status <- exit_status
L == INSTANCE LinuxSession
P == INSTANCE WindowsSession WITH Budget <- OutputBudget, input <- pipe_input, output <- pipe_output, conn <- connection, done <- decided
N == INSTANCE RuntimeCache

unixVars == <<mode, token, runner, leader, kids, forked, inLeft, inPipe, reading, written, outPipe, captured,
              tooLarge, copying, copyingErr, file, conn, result>>
windowsVars == <<request, runtime, cancelled, executor, exit_status, container, container_job, member, program,
                 descendant, script, feeding, printed, piped, forwarding, forwarded, collected>>
socketVars == <<task, up, down, front, asked, host, feed, copier, total, failed, proc>>
pipeVars == <<session, current, c2s, s2c, comp, connection, guard, pipe_input, pipe_output, control, writer,
              readers, spent, worker, decided, hist>>
launchVars == <<cli, package, updates, entry, leases, launcher, wrapper>>
all == <<scenario, vars, unixVars, windowsVars, socketVars, pipeVars, launchVars>>

Unused == "unused"
NoUnix ==
    /\ mode = Unused /\ token = Unused /\ runner = Unused /\ leader = Unused /\ kids = Unused
    /\ forked = Unused /\ inLeft = Unused /\ inPipe = Unused /\ reading = Unused /\ written = Unused
    /\ outPipe = Unused /\ captured = Unused /\ tooLarge = Unused /\ copying = Unused /\ copyingErr = Unused
    /\ file = Unused /\ conn = Unused /\ result = Unused
NoWindows ==
    /\ request = Unused /\ runtime = Unused /\ cancelled = Unused /\ executor = Unused /\ exit_status = Unused
    /\ container = Unused /\ container_job = Unused /\ member = Unused /\ program = Unused
    /\ descendant = Unused /\ script = Unused /\ feeding = Unused /\ printed = Unused /\ piped = Unused
    /\ forwarding = Unused /\ forwarded = Unused /\ collected = Unused
NoSocket ==
    /\ task = Unused /\ up = Unused /\ down = Unused /\ front = Unused /\ asked = Unused /\ host = Unused
    /\ feed = Unused /\ copier = Unused /\ total = Unused /\ failed = Unused /\ proc = Unused
NoPipe ==
    /\ session = Unused /\ current = Unused /\ c2s = Unused /\ s2c = Unused /\ comp = Unused
    /\ connection = Unused /\ guard = Unused /\ pipe_input = Unused /\ pipe_output = Unused /\ control = Unused
    /\ writer = Unused /\ readers = Unused /\ spent = Unused /\ worker = Unused /\ decided = Unused
    /\ hist = Unused
NoLaunch ==
    /\ cli = Unused /\ package = Unused /\ updates = Unused /\ entry = Unused /\ leases = Unused
    /\ launcher = Unused /\ wrapper = Unused

\* The machine of Commands rests in an initial state while another runs.
InitOne ==
    /\ Init
    /\ \/ scenario = "command" /\ NoUnix /\ NoWindows /\ NoSocket /\ NoPipe /\ NoLaunch
       \/ scenario = "unix" /\ job = Job("cli", "status", NoArgs) /\ world = Usual /\ S!Init /\ NoWindows /\ NoSocket /\ NoPipe /\ NoLaunch
       \/ scenario = "windows" /\ job = Job("cli", "status", NoArgs) /\ world = Usual /\ W!Init /\ NoUnix /\ NoSocket /\ NoPipe /\ NoLaunch
       \/ scenario = "socket" /\ job = Job("cli", "status", NoArgs) /\ world = Usual /\ L!Init /\ NoUnix /\ NoWindows /\ NoPipe /\ NoLaunch
       \/ scenario = "pipe" /\ job = Job("cli", "status", NoArgs) /\ world = Usual /\ P!Init /\ NoUnix /\ NoWindows /\ NoSocket /\ NoLaunch
       \/ scenario = "launch" /\ job = Job("cli", "status", NoArgs) /\ world = Usual /\ N!Init /\ cli = Installed /\ NoUnix /\ NoWindows /\ NoSocket /\ NoPipe

InCommand == scenario = "command" /\ UNCHANGED <<scenario, unixVars, windowsVars, socketVars, pipeVars, launchVars>>
InUnix == scenario = "unix" /\ UNCHANGED <<scenario, vars, windowsVars, socketVars, pipeVars, launchVars>>
InWindows == scenario = "windows" /\ UNCHANGED <<scenario, vars, unixVars, socketVars, pipeVars, launchVars>>
InSocket == scenario = "socket" /\ UNCHANGED <<scenario, vars, unixVars, windowsVars, pipeVars, launchVars>>
InPipe == scenario = "pipe" /\ UNCHANGED <<scenario, vars, unixVars, windowsVars, socketVars, launchVars>>
InLaunch == scenario = "launch" /\ UNCHANGED <<scenario, vars, unixVars, windowsVars, socketVars, pipeVars>>

\* Machines that come to rest when their bounds are used up.
Rest == scenario \in {"unix", "windows", "launch"} /\ UNCHANGED all

NextOne ==
    \/ InCommand /\ Next
    \/ InUnix /\ S!Next
    \/ InWindows /\ W!Next
    \/ InSocket /\ L!Next
    \/ InPipe /\ P!Next
    \/ InLaunch /\ N!Next
    \/ Rest

\* The code is polled, the program ends when it can and its children end
\* (Fairness of ScriptExec, Spec of WindowsExecutor); the brokers' tasks
\* run and their timeouts expire (Fairness of LinuxSession and WindowsSession).
FairOne ==
    /\ WF_all(InUnix /\ S!Runner) /\ WF_all(InUnix /\ S!ReadOutput) /\ WF_all(InUnix /\ S!ClientCancelled)
    /\ WF_all(InUnix /\ written = MaxOutput /\ S!ReadInput) /\ WF_all(InUnix /\ S!WriteOutput)
    /\ WF_all(InUnix /\ S!KidExits) /\ WF_all(InUnix /\ S!MayEnd /\ S!LeaderExits)
    /\ WF_all(InWindows /\ W!Runs) /\ WF_all(InWindows /\ W!Executes) /\ WF_all(InWindows /\ W!Feeds)
    /\ WF_all(InWindows /\ W!Forwards) /\ WF_all(InWindows /\ W!ReadsScript) /\ WF_all(InWindows /\ W!Ends)
    /\ WF_all(InSocket /\ L!Broker) /\ WF_all(InSocket /\ L!HostTimesOut) /\ WF_all(InSocket /\ L!Feed)
    /\ \A s \in L!Streams : WF_all(InSocket /\ (L!CopierReads(s) \/ L!CopierWrites(s)))
    /\ WF_all(InPipe /\ P!Connection) /\ WF_all(InPipe /\ P!Input) /\ WF_all(InPipe /\ P!Writer)
    /\ WF_all(InPipe /\ P!Main) /\ WF_all(InPipe /\ P!MainTimesOut)
    /\ \A s \in {"o", "e"} : WF_all(InPipe /\ (P!ReaderReads(s) \/ P!ReaderSends(s)))

SpecOne == InitOne /\ [][NextOne]_all /\ FairOne

-----------------------------------------------------------------------------
\* What is kept of a program's output is exactly what it wrote, up to the
\* limit, and a longer output is reported as such (capture_stdout).
CaptureExact == scenario = "unix" => S!CaptureExact

\* Once the runtime has its answer nothing of the request runs any more, also
\* what the program has started (the job object of run_container).
NothingOutlives == scenario = "windows" => W!NothingOutlives

\* The client reports the worker's exit only after it has shown everything the
\* worker wrote, although two tasks write to the socket (proxy_worker).
ExitedIsComplete == scenario = "socket" => L!ExitedIsComplete

\* What runs from the launcher's cache is the release its launcher was built
\* with, and the entries hold nothing else, whatever npm, other launches and
\* kills do meanwhile (prepareWindowsRuntimeCache, installCacheEntry).
RunsTheRelease == scenario = "launch" => N!RunsTheRelease

\* Every run ends: input and output larger than the pipes never block the
\* runner and the program on each other, and a process that keeps the pipes
\* does not hold up the executor; a broker's handler returns and leaves no worker
\* behind, whatever its client and the worker do (proxy_worker, run_worker).
RunEnds ==
    <>CASE scenario \in {"command", "launch"} -> TRUE
        [] scenario = "unix" -> runner = "done" /\ result # "none" /\ ~S!Alive
        [] scenario = "windows" -> runtime.at = "done"
        [] scenario = "socket" -> host = "over" /\ proc.state # "alive" /\ L!Quiescent
        [] scenario = "pipe" -> connection = "over" /\ worker.state # "alive"

=============================================================================
