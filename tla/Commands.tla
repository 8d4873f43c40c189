------------------------------ MODULE Commands ------------------------------
(***************************************************************************)
(* One invocation of palladin (palladin-cli/src/main.rs), or one tool call *)
(* of `palladin mcp serve` (palladin-mcp/src/lib.rs): the gates it passes, *)
(* the identity it opens, what it authorizes and what it then does, and    *)
(* what it says at the end.  A command is the sequence of its steps; each  *)
(* kind of step is an action, and the lease of the session may end between *)
(* any two of them.  What a step does inside the runtime service is        *)
(* modelled in the modules of the services.                                *)
(***************************************************************************)
EXTENDS Naturals, Sequences, FiniteSets, TLC

CONSTANTS
    Starts,    \* what is invoked where: records of a job and a world
    None

VARIABLES
    job,       \* the command and its arguments, as typed or as in the tool call
    world,     \* the build, its environment and its terminal
    todo,      \* steps to come
    lease,     \* of the session: none, active or ended
    bound,     \* request_digest the session was authorized for
    used,      \* the operation performed with the session
    reply,     \* answer to the POST of a submission
    done,      \* effects so far
    answer     \* exit class and what the last message denies or asserts

vars == <<job, world, todo, lease, bound, used, reply, done, answer>>

Silent == [exit |-> "none", says |-> "none"]

-----------------------------------------------------------------------------
(* Operation descriptors (palladin-runtime/src/lib.rs).                      *)

optional(value) == IF value = None THEN <<"0">> ELSE <<"1", value>>
Count == <<"1", "2", "3">>
strings(values) == <<IF values = << >> THEN "0" ELSE Count[Len(values)]>> \o values
wait(w) == optional(w.wait_ms) \o optional(w.poll_ms) \o <<w.progress>>

\* protocol_name; an Inject of a submission is authorized as an Inject.
protocol_name(op) == IF op = "inject_submission" THEN "inject_credential" ELSE op

SubmissionDigest(r) ==
    (IF r.entry = None THEN <<"1", "new">> \o optional(r.vault)
                       ELSE <<"1", "update", "1", r.vault, "1", r.entry>>)
       \o optional(r.type) \o optional(r.label) \o optional(r.url) \o optional(r.username)
       \o <<"1", IF r.generated THEN "generate" ELSE "provided">>

\* OperationDescriptor::digest, before it is hashed: each field is length
\* prefixed, so the sequence of fields stands for the bytes.
digest(d) ==
    <<protocol_name(d.op)>> \o
      CASE d.op = "search_entries" -> <<d.surface, d.query>> \o optional(d.cursor) \o optional(d.page_size)
        [] d.op = "get_credential" ->
             <<d.surface, d.vault, d.entry>> \o optional(d.reason) \o wait(d.wait)
                \o optional(d.field) \o optional(d.field_id) \o <<d.output>>
        [] d.op = "inject_credential" ->
             <<d.surface, d.vault, d.entry>> \o optional(d.reason) \o wait(d.wait) \o <<d.provider, d.output>>
        [] d.op = "inject_submission" ->
             <<"submission", d.surface, d.submission, d.provider, d.output>>
        [] d.op = "exec_with_credential" ->
             <<d.surface, d.vault, d.entry>> \o optional(d.reason) \o wait(d.wait)
                \o strings(d.command) \o strings(d.env) \o <<d.parameters, d.output>>
        [] d.op = "report_credential_stale" -> <<d.surface, d.vault, d.entry, d.code>>
        [] d.op = "submit_entry" -> <<d.surface>> \o d.request
        [] d.op = "submission_status" -> <<d.surface>> \o optional(d.submission)
        [] d.op = "trust_approvers" -> <<d.fingerprint>>
        [] d.op = "pair_vaults" -> <<d.activation>>

trim(text) == IF text = " x" THEN "x" ELSE text

\* wait_options of the MCP tools: without a wait, no wait.
wait_options(w) == [w EXCEPT !.wait_ms = IF @ = None THEN "0" ELSE @]

Output(j) ==
    CASE j.command = "get" -> IF j.surface = "cli" THEN "stdout" ELSE "response"
      [] j.command = "exec" -> IF j.surface = "cli" THEN "child" ELSE "withheld"
      [] OTHER -> "provider"

Provider(j) == IF j.args.provider = None THEN "extension" ELSE j.args.provider

\* The descriptor each command opens its session with.
Authorized(j) ==
    LET a == j.args
        mcp == j.surface = "mcp"
        text(t) == IF mcp THEN trim(t) ELSE t
        waits == IF mcp THEN wait_options(a.wait) ELSE a.wait
    IN CASE a.op = "search_entries" ->
              [op |-> a.op, surface |-> j.surface, query |-> trim(a.query), cursor |-> a.cursor, page_size |-> a.page_size]
         [] a.op = "get_credential" ->
              [op |-> a.op, surface |-> j.surface, vault |-> text(a.vault), entry |-> text(a.entry), reason |-> a.reason,
               wait |-> waits, field |-> a.field, field_id |-> a.field_id, output |-> Output(j)]
         [] a.op = "exec_with_credential" ->
              [op |-> a.op, surface |-> j.surface, vault |-> text(a.vault), entry |-> text(a.entry), reason |-> a.reason,
               wait |-> waits, command |-> IF a.command = None THEN << >> ELSE a.command,
               env |-> IF mcp THEN << >> ELSE a.env, parameters |-> a.parameters, output |-> Output(j)]
         [] a.op = "inject_credential" ->
              [op |-> a.op, surface |-> j.surface, vault |-> text(a.vault), entry |-> text(a.entry), reason |-> a.reason,
               wait |-> waits, provider |-> Provider(j), output |-> Output(j)]
         [] a.op = "inject_submission" ->
              [op |-> a.op, surface |-> j.surface, submission |-> a.submission, provider |-> Provider(j), output |-> Output(j)]
         [] a.op = "report_credential_stale" ->
              [op |-> a.op, surface |-> j.surface, vault |-> trim(a.vault), entry |-> trim(a.entry),
               code |-> IF a.code = None THEN "manual" ELSE a.code]
         [] a.op = "submit_entry" ->
              [op |-> a.op, surface |-> j.surface,
               request |-> IF a.plan = None THEN SubmissionDigest(a.request)
                             ELSE SubmissionDigest([a.request EXCEPT !.generated = FALSE])
                                    \o <<a.plan, IF a.description = None THEN "" ELSE a.description>>]
         [] a.op = "submission_status" -> [op |-> a.op, surface |-> j.surface, submission |-> a.submission]
         [] a.op = "trust_approvers" -> [op |-> a.op, fingerprint |-> a.fingerprint]
         [] a.op = "pair_vaults" -> [op |-> a.op, activation |-> a.activation]

\* What the session is asked to do, and where its result goes: the arguments
\* of search_entries, deliver_for_get and the field selected afterwards, of
\* execute_with_credential, deliver_for_inject and so on.
Performed(j) ==
    LET a == j.args
        mcp == j.surface = "mcp"
        text(t) == IF mcp THEN trim(t) ELSE t
        delivery == [vault |-> text(a.vault), entry |-> text(a.entry), reason |-> a.reason,
                     wait |-> IF mcp THEN wait_options(a.wait) ELSE a.wait]
    IN CASE a.op = "search_entries" ->
              [op |-> a.op, surface |-> j.surface, query |-> trim(a.query), cursor |-> a.cursor, page_size |-> a.page_size]
         [] a.op = "get_credential" ->
              [op |-> a.op, surface |-> j.surface, field |-> a.field, field_id |-> a.field_id, output |-> Output(j)] @@ delivery
         [] a.op = "exec_with_credential" ->
              [op |-> a.op, surface |-> j.surface, command |-> IF a.command = None THEN << >> ELSE a.command,
               env |-> IF mcp THEN << >> ELSE a.env, parameters |-> a.parameters, output |-> Output(j)] @@ delivery
         [] a.op = "inject_credential" ->
              [op |-> a.op, surface |-> j.surface, provider |-> Provider(j), output |-> Output(j)] @@ delivery
         [] OTHER -> Authorized(j)

-----------------------------------------------------------------------------
(* The signed version policy (palladin-runtime/src/version_policy.rs).      *)

\* validate_payload: the artifacts are in strictly ascending order of name
\* and version.
validate_payload(artifacts) ==
    /\ artifacts # << >>
    /\ \A i \in 1 .. Len(artifacts) - 1 : artifacts[i].identity < artifacts[i + 1].identity

\* verify_policy: well formed, in its canonical form, and signed.
verify_policy(manifest) == manifest.form = "signed" /\ validate_payload(manifest.artifacts)

\* The one artifact of this package and version.
artifact(manifest, identity) == {a \in {manifest.artifacts[i] : i \in DOMAIN manifest.artifacts} : a.identity = identity}

verify_candidate(manifest, w) ==
    /\ verify_policy(manifest)
    /\ Cardinality(artifact(manifest, w.identity)) = 1
    /\ \A a \in artifact(manifest, w.identity) : a.source = w.source /\ a.worker = w.worker

\* enforce_system_version_policy: the dispatcher's manifest before the
\* embedded one; a malformed one of either is an error.
enforce_system_version_policy(w) ==
    /\ w.forwarded.form # "malformed" /\ w.embedded.form # "malformed"
    /\ LET manifest == IF w.forwarded.form # "absent" THEN w.forwarded ELSE w.embedded
       IN IF manifest.form = "absent" THEN w.system = "macos" ELSE verify_candidate(manifest, w)

-----------------------------------------------------------------------------
(* The gates of main.                                                       *)

ContainsKey(argument) == argument.raw
Valid(argument) == argument.kind \in {"descriptor", "descriptor_key"}

\* arguments_contain_api_key: a valid setup descriptor is judged by the name
\* it encodes, everything else by its bytes.
arguments_contain_api_key(argv) ==
    LET Scan[i \in 1 .. Len(argv) + 2] ==
          IF i > Len(argv) THEN FALSE
          ELSE IF argv[i].kind = "flag" /\ i < Len(argv) /\ Valid(argv[i + 1])
                 THEN argv[i + 1].kind = "descriptor_key" \/ Scan[i + 2]
          ELSE IF argv[i].kind = "flag" /\ i < Len(argv) /\ ContainsKey(argv[i + 1]) THEN TRUE
          ELSE IF argv[i].joined THEN (IF Valid(argv[i]) THEN argv[i].kind = "descriptor_key" ELSE ContainsKey(argv[i])) \/ Scan[i + 1]
          ELSE ContainsKey(argv[i]) \/ Scan[i + 1]
    IN Scan[1]

\* deprecated_connect_id_usage: --id after connect, which follows only other
\* uses of --id.
deprecated_connect_id_usage(argv) ==
    LET IsId(i) == argv[i].kind \in {"id", "id_joined"}
        Connect[i \in 1 .. Len(argv) + 2] ==
          IF i > Len(argv) THEN FALSE
          ELSE IF argv[i].kind = "id" THEN Connect[i + 2]
          ELSE IF argv[i].kind = "id_joined" THEN Connect[i + 1]
          ELSE argv[i].kind = "connect" /\ \E k \in i + 1 .. Len(argv) : IsId(k)
    IN Connect[1]

Diagnostics == {"doctor", "verify_release_policy", "legacy_status"}
environment_requirement(command) == IF command \in Diagnostics THEN "diagnostic_only" ELSE "clean"

requires_version_policy(command) == command \notin Diagnostics

refuse_non_interactive_prompt(j, w) ==
    j.command \in {"submit_new", "submit_update"} /\ j.prompt /\ ~w.terminal

browser_command_unsupported_on_platform(command, w) ==
    w.system # "macos" /\ command \in {"browser_install", "browser_status", "browser_sessions"}

Hardened(w) == w.hardened = "yes" /\ w.system # "macos"
runtime_secret_store(w) == w.system # "linux" \/ Hardened(w) \/ w.development
ensure_workload_purge_allowed(w) == ~(w.system = "linux" /\ Hardened(w))
mcp_profile_authority(j, w) == j.profile = (w.system = "linux" /\ Hardened(w))

version_policy(command, w) ==
    requires_version_policy(command) =>
       IF w.configured THEN enforce_system_version_policy(w) ELSE w.debug

\* main, up to the dispatch.
Gates == <<"root", "api_key", "connect_id", "printable", "prompt", "platform", "boundary", "environment">>
Opening == <<"store", "policy">>

\* The guards a command tests before a step has an effect, in its own words.
Passes(step) ==
    CASE step = "root" -> world.system = "macos" \/ world.hardened # "invalid"
      [] step = "api_key" -> ~arguments_contain_api_key(world.argv)
      [] step = "connect_id" -> ~deprecated_connect_id_usage(world.argv)
      [] step = "printable" -> world.printable
      [] step = "prompt" -> ~refuse_non_interactive_prompt(job, world)
      [] step = "platform" -> ~browser_command_unsupported_on_platform(job.command, world)
      [] step = "boundary" -> ~job.deprecated
      [] step = "environment" -> environment_requirement(job.command) = "diagnostic_only" \/ world.clean
      [] step = "store" -> runtime_secret_store(world)
      [] step = "policy" -> version_policy(job.command, world)
      [] step = "parent" -> world.parent
      [] step = "safe" -> world.clean
      [] step = "confirmed" -> job.confirm
      [] step = "arguments" -> job.valid
      [] step = "redirected" -> job.stdin => ~world.terminal
      [] step = "workload" -> ensure_workload_purge_allowed(world)
      [] step = "convenience" -> ~Hardened(world)
      [] step = "development" -> world.debug
      [] step = "legacy_clear" -> Hardened(world) \/ world.legacy = "clear"
      [] step = "authority" -> mcp_profile_authority(job, world)
      [] step = "macos" -> world.system = "macos"
      [] step = "unix" -> world.system # "windows"
      [] step = "script" ->
            LET command == job.args.command \notin {None, << >>}
            IN IF command THEN job.args.parameters = "none" ELSE job.args.env = << >>

GateSteps == {"root", "api_key", "connect_id", "printable", "prompt", "platform", "boundary", "environment",
              "store", "policy", "parent", "safe", "confirmed", "arguments", "redirected", "workload",
              "convenience", "development", "legacy_clear", "authority", "macos", "unix", "script"}

-----------------------------------------------------------------------------
(* What the runtime service does for a session.                            *)

search_entries == <<"begin", "ask", "authorized">>
deliver_for_get == <<"begin", "ask", "authorized">>
deliver_for_inject == <<"begin", "ask", "authorized">>
execute_with_credential == <<"begin", "inspect", "script", "ask", "authorized", "prepare", "run", "authorized">>
report_credential_stale == <<"begin", "report", "authorized">>
session_submit_entry == <<"begin", "ask", "authorized", "build", "authorized", "post", "posted">>
submit_captured_entry == <<"begin", "ask", "authorized", "build", "authorized", "post", "posted">>
inject_extension == <<"identity", "open">> \o deliver_for_inject \o <<"target", "send">>

-----------------------------------------------------------------------------
(* The commands, and the tools of the MCP server.                           *)

init == <<"arguments", "registry">> \o (IF world.initialized THEN <<"identity">> ELSE <<"change">>) \o <<"print">>
doctor == <<"inspect", "safe", "print">>
connect == <<"redirected", "input", "arguments", "identity", "request", "change", "print">>
pair_agent == <<"arguments", "identity", "request", "change", "print">>
status == <<"identity", "request", "change", "print">>
pair == <<"open", "begin", "ask", "change", "print">>
disconnect == <<"confirmed", "workload", "identity", "change", "print">>
purge == <<"confirmed", "workload", "legacy_clear", "identity", "change", "print">>
search == <<"arguments", "open">> \o search_entries \o <<"write">>
get == <<"arguments", "open">> \o deliver_for_get \o <<"select", "write">>
exec == <<"redirected", "arguments", "open">> \o execute_with_credential \o <<"print">>
inject == <<"arguments", "macos">> \o inject_extension \o <<"print">>
report_stale == <<"open">> \o report_credential_stale \o <<"print">>
submit_entry == <<"arguments", "input", "open">> \o session_submit_entry
submit_browser_capture == <<"unix", "arguments", "open", "identity", "target", "capture">> \o submit_captured_entry
submission_status == <<"open", "begin", "ask", "authorized", "print">>
trust_approvers == <<"confirmed", "open", "begin", "ask", "authorized", "change", "print">>
agents_list == <<"registry", "print">>
agents_change == <<"registry", "change", "print">>
agents_delete == <<"registry", "identity", "change", "print">>
security_upgrade == <<"registry", "identity", "change", "print">>
legacy_status == <<"convenience", "inspect", "print">>
legacy_change == <<"convenience", "development", "confirmed", "change", "print">>
browser_sessions == <<"identity", "inspect", "print">>
browser_install == <<"change", "print">>
browser_status == <<"inspect", "identity", "print">>
browser_uninstall == <<"confirmed", "change", "print">>
mcp == <<"authority", "arguments", "serve">>
list_browser_sessions_tool == <<"arguments", "identity", "inspect", "print">>
pair_agent_tool == <<"arguments", "identity", "request", "change", "print">>
search_tool == <<"arguments", "open">> \o search_entries \o <<"print">>
get_tool == <<"arguments", "open">> \o deliver_for_get \o <<"select", "print">>
exec_tool == <<"arguments", "open">> \o execute_with_credential \o <<"print">>
inject_tool == <<"arguments", "macos">> \o inject_extension \o <<"print">>
report_stale_tool == <<"arguments", "open">> \o report_credential_stale \o <<"print">>
chrome_native_host_main == <<"parent", "store", "policy", "identity", "serve">>

Body(command) ==
    CASE command = "init" -> init
      [] command = "doctor" -> doctor
      [] command = "connect" -> connect
      [] command = "pair_agent" -> pair_agent
      [] command = "status" -> status
      [] command = "pair" -> pair
      [] command = "disconnect" -> disconnect
      [] command = "purge" -> purge
      [] command = "search" -> search
      [] command = "get" -> get
      [] command = "exec" -> exec
      [] command = "inject" -> inject
      [] command = "report_stale" -> report_stale
      [] command \in {"submit_new", "submit_update"} ->
            IF job.args.plan # None THEN submit_browser_capture ELSE submit_entry
      [] command = "submission_status" -> submission_status
      [] command = "trust_approvers" -> trust_approvers
      [] command = "agents_list" -> agents_list
      [] command \in {"agents_create", "agents_set_default", "agents_rename"} -> agents_change
      [] command = "agents_delete" -> agents_delete
      [] command = "security_upgrade" -> security_upgrade
      [] command = "legacy_status" -> legacy_status
      [] command \in {"legacy_cutover", "legacy_cleanup"} -> legacy_change
      [] command = "browser_sessions" -> browser_sessions
      [] command = "browser_install" -> browser_install
      [] command = "browser_status" -> browser_status
      [] command = "browser_uninstall" -> browser_uninstall
      [] command = "mcp" -> mcp

Tool(command) ==
    CASE command = "browser_sessions" -> list_browser_sessions_tool
      [] command = "pair_agent" -> pair_agent_tool
      [] command = "search" -> search_tool
      [] command = "get" -> get_tool
      [] command = "exec" -> exec_tool
      [] command = "inject" -> inject_tool
      [] command = "report_stale" -> report_stale_tool

\* main; a tool call runs in a process that passed the gates of `mcp serve`.
Program ==
    CASE job.surface = "chrome" -> chrome_native_host_main
      [] job.surface = "mcp" -> Gates \o Opening \o <<"authority">> \o Tool(job.command)
      [] job.command = "verify_release_policy" -> Gates \o <<"verify", "print">>
      [] OTHER -> Gates \o Opening \o Body(job.command)

Init ==
    /\ \E start \in Starts : job = start.job /\ world = start.world
    /\ todo = Program
    /\ lease = "none"
    /\ bound = None /\ used = None
    /\ reply = "none"
    /\ done = {}
    /\ answer = Silent

-----------------------------------------------------------------------------
(* What a message denies.                                                   *)

Submitting == job.command \in {"submit_new", "submit_update"}

\* Mutant: an ended lease is reported like an unusable package.
exec_failure_expired(why) ==
    IF why \in {"parameters", "stale", "package", "interpreter", "expired"} THEN "nothing executed" ELSE "none"

exec_failure(why) ==
    IF why \in {"parameters", "stale", "package", "interpreter"} THEN "nothing executed" ELSE "none"

inject_failure(why) == IF why \in {"busy", "timeout"} THEN "not sent" ELSE "none"

\* The message of an error; submit appends its own words to every error of
\* the session's operation.
Says(step, why) ==
    CASE step = "boundary" -> "not opened"
      [] job.command = "trust_approvers" /\ (step = "confirmed" \/ why = "not pending") -> "nothing changed"
      [] Submitting /\ step \in {"prompt", "input", "begin", "ask", "authorized", "build", "capture", "posted"} -> "not saved"
      [] Submitting /\ step = "arguments" /\ job.args.plan = None -> "not saved"
      [] job.command = "exec" /\ job.surface = "mcp" -> exec_failure(why)
      [] job.command = "inject" /\ (job.surface = "mcp" \/ why = "timeout") -> inject_failure(why)
      [] OTHER -> "none"

-----------------------------------------------------------------------------
(* The steps.                                                               *)

At(step) == todo # << >> /\ Head(todo) = step
Advance == todo' = Tail(todo) /\ UNCHANGED answer
Exit(exit, says) == todo' = << >> /\ answer' = [exit |-> exit, says |-> says]
Fail(step, why) == Exit("failure", Says(step, why))

\* print_unsafe_environment and its like: exit code 78.
GateExit(step) == IF step \in {"boundary", "environment", "parent", "safe"} THEN "unsafe" ELSE "failure"

Gate(step) ==
    /\ At(step)
    /\ IF Passes(step) THEN Advance ELSE Exit(GateExit(step), Says(step, "parameters"))
    /\ UNCHANGED <<job, world, lease, bound, used, reply, done>>

Effect ==
    [registry |-> {"state"}, identity |-> {"identity"}, request |-> {"asked"}, change |-> {"changed"},
     capture |-> {"captured"}, inspect |-> {}, input |-> {}, select |-> {}, build |-> {}, verify |-> {},
     target |-> {}, prepare |-> {}]

\* Why such a step fails, where the message depends on it.
Reasons(step) ==
    CASE step = "prepare" -> {"parameters", "package", "interpreter", "error"}
      [] step = "target" -> {"busy", "timeout", "error"}
      [] OTHER -> {"error"}

\* A call that succeeds, or fails and may have had its effect.
Call(step) ==
    /\ At(step)
    /\ \/ Advance /\ done' = done \cup Effect[step]
       \/ /\ \E why \in Reasons(step) : Fail(step, why)
          /\ done' \in {done, done \cup Effect[step]}
    /\ UNCHANGED <<job, world, lease, bound, used, reply>>

\* open_session: the identity is opened for exactly this descriptor.
Open ==
    /\ At("open")
    /\ \/ /\ Advance
          /\ lease' = "active"
          /\ bound' = digest(Authorized(job))
          /\ done' = done \cup {"identity"}
       \/ Fail("open", "error") /\ UNCHANGED <<lease, bound, done>>
    /\ UNCHANGED <<job, world, used, reply>>

\* begin_operation.
Begin ==
    /\ At("begin")
    /\ IF lease = "active" THEN Advance /\ used' = Performed(job)
                           ELSE Fail("begin", "expired") /\ UNCHANGED used
    /\ UNCHANGED <<job, world, lease, bound, reply, done>>

\* A request of the session: answered, refused, failed, or given up because
\* the lease ended.
Ask ==
    /\ At("ask")
    /\ done' = done \cup {"asked"}
    /\ \/ lease = "active" /\ Advance
       \/ job.command \in {"get", "exec", "inject"} /\ Exit("access", "none")
       \/ job.command = "exec" /\ \E why \in {"stale", "package"} : Fail("ask", why)
       \/ job.command = "trust_approvers" /\ Fail("ask", "not pending")
       \/ Fail("ask", "error")
       \/ lease = "ended" /\ Fail("ask", "expired")
    /\ UNCHANGED <<job, world, lease, bound, used, reply>>

\* ensure_authorized.
Authorize ==
    /\ At("authorized")
    /\ IF lease = "active" THEN Advance ELSE Fail("authorized", "expired")
    /\ UNCHANGED <<job, world, lease, bound, used, reply, done>>

\* run_command and run_script_captured.
Run ==
    /\ At("run")
    /\ \/ Advance /\ done' = done \cup {"executed"}
       \/ Fail("run", "interpreter") /\ UNCHANGED done
       \/ Fail("run", "error") /\ done' \in {done, done \cup {"executed"}}
    /\ UNCHANGED <<job, world, lease, bound, used, reply>>

\* The forwarding of a credential to the browser, and the report of a stale
\* one: either may have arrived when its answer is lost.
Deliver(step, effect) ==
    /\ At(step)
    /\ \/ Advance /\ done' = done \cup {effect}
       \/ Fail(step, IF lease = "ended" THEN "expired" ELSE "error") /\ done' \in {done, done \cup {effect}}
    /\ UNCHANGED <<job, world, lease, bound, used, reply>>

\* create_submission: stored or rejected, and the answer may be lost.
Post ==
    /\ At("post")
    /\ \/ reply' \in {"accepted", "lost"} /\ done' = done \cup {"saved"}
       \/ reply' \in {"rejected", "rotated", "lost"} /\ UNCHANGED done
    /\ Advance
    /\ UNCHANGED <<job, world, lease, bound, used>>

\* submit_entry and submit_captured_entry after the POST, with reconcile: a
\* rotated key is fetched and the submission built again, once.
Posted ==
    /\ At("posted")
    /\ IF lease = "active" /\ reply = "rotated" /\ "rotated" \notin done
         THEN /\ todo' = <<"ask", "build", "authorized", "post", "posted">>
              /\ done' = done \cup {"rotated"}
              /\ UNCHANGED answer
         ELSE /\ UNCHANGED done
              /\ \/ lease = "ended" /\ Fail("posted", "expired")
                 \/ lease = "active" /\ reply = "accepted" /\ Exit("ok", "saved")
                 \/ lease = "active" /\ reply \in {"rejected", "rotated"} /\ Exit("failure", "not saved")
                 \/ lease = "active" /\ reply = "lost" /\ "saved" \in done /\ Exit("ok", "saved")
                 \/ lease = "active" /\ reply = "lost" /\ Exit("failure", "unconfirmed")
    /\ UNCHANGED <<job, world, lease, bound, used, reply>>

\* emit_output, pretty_result and write_secret_json.
Emit ==
    /\ \/ At("print") /\ Exit(IF job.command = "exec" THEN "child" ELSE "ok", "none")
       \/ At("write") /\ (Exit("ok", "none") \/ Fail("write", "error"))
    /\ UNCHANGED <<job, world, lease, bound, used, reply, done>>

\* serve_stdio and serve_native_host, until they end.
Serve ==
    /\ At("serve")
    /\ done' = done \cup {"served"}
    /\ Exit("ok", "none") \/ Fail("serve", "error")
    /\ UNCHANGED <<job, world, lease, bound, used, reply>>

\* The lease of the operation expires or is revoked.
LeaseEnds ==
    /\ lease = "active" /\ todo # << >>
    /\ lease' = "ended"
    /\ UNCHANGED <<job, world, todo, bound, used, reply, done, answer>>

Ended == todo = << >> /\ UNCHANGED vars

Next ==
    \/ \E step \in GateSteps : Gate(step)
    \/ \E step \in DOMAIN Effect : Call(step)
    \/ Open \/ Begin \/ Ask \/ Authorize \/ Run
    \/ Deliver("send", "sent") \/ Deliver("report", "reported")
    \/ Post \/ Posted \/ Emit \/ Serve \/ LeaseEnds \/ Ended

Spec == Init /\ [][Next]_vars

-----------------------------------------------------------------------------
(* Properties.                                                              *)

TypeOK ==
    /\ lease \in {"none", "active", "ended"}
    /\ reply \in {"none", "accepted", "rejected", "rotated", "lost"}
    /\ done \subseteq {"state", "identity", "asked", "changed", "captured", "executed", "sent", "reported", "rotated", "saved", "served"}
    /\ answer.exit \in {"none", "ok", "failure", "unsafe", "access", "child"}

\* An argument carries an API key: in the name a setup descriptor encodes, or
\* in its bytes when it is no setup descriptor.
CarriesKey(argv, i) ==
    IF Valid(argv[i]) /\ (argv[i].joined \/ (i > 1 /\ argv[i - 1].kind = "flag"))
      THEN argv[i].kind = "descriptor_key"
      ELSE ContainsKey(argv[i])

\* A signed manifest names this very image, or macOS vouches for it.
TrustedImage(w) ==
    \/ \E m \in {w.forwarded, w.embedded} :
          /\ m.form = "signed"
          /\ \E i \in DOMAIN m.artifacts :
                m.artifacts[i] = [identity |-> w.identity, source |-> w.source, worker |-> w.worker]
    \/ w.system = "macos" /\ w.forwarded.form = "absent" /\ w.embedded.form = "absent"

\* No command and no tool opens an identity, sends a request, changes state
\* or starts a program before every gate has passed: a clean environment, no
\* API key in the arguments, and in a release build an image that a signed
\* version policy names (main, requires_version_policy).  The Chrome host is
\* started by Chrome instead of a clean environment.  An exit with code 78
\* comes before any effect.
GatesComeFirst ==
    /\ done \ {"state"} # {} =>
         /\ IF job.surface = "chrome" THEN world.parent
              ELSE world.clean /\ \A i \in DOMAIN world.argv : ~CarriesKey(world.argv, i)
         /\ IF world.configured THEN TrustedImage(world) ELSE world.debug
    /\ answer.exit = "unsafe" => done = {}

\* What a session does is what it was authorized for: the digest the
\* authorization binds is the digest of the arguments then used
\* (open_session, OperationDescriptor::digest).
BoundToWhatIsDone == used # None => bound = digest(used)

\* Two operations of a set have different digests, across both surfaces.
DigestsDiffer(descriptors) == Cardinality({digest(d) : d \in descriptors}) = Cardinality(descriptors)

Denied == [says \in {"nothing executed", "not sent", "nothing changed", "not opened"} |->
              CASE says = "nothing executed" -> "executed"
                [] says = "not sent" -> "sent"
                [] says = "nothing changed" -> "changed"
                [] says = "not opened" -> "identity"]

\* What an error message denies has not happened, wherever the lease ended
\* and whatever answer was lost: "Nothing was executed", "no credential was
\* sent", "nothing was changed", "no profile was opened" (exec_failure,
\* inject_failure, trust_approvers, main).
ClaimsHold == answer.says \in DOMAIN Denied => Denied[answer.says] \notin done

\* A submission reported as not saved, without an id to look for, is not
\* saved: "the submission was not saved" (main.rs, submit_entry).
NotSavedIsTrue == answer.says = "not saved" => "saved" \notin done

=============================================================================
