----------------------------- MODULE MCCommands -----------------------------
(***************************************************************************)
(* Invocations for TLC: every command in every kind of environment, and    *)
(* every operation of a session with many arguments in one environment.    *)
(***************************************************************************)
EXTENDS Commands

Signed(artifacts) == [form |-> "signed", artifacts |-> artifacts]
Absent == [form |-> "absent", artifacts |-> << >>]
Image(n, worker) == [identity |-> n, source |-> "s", worker |-> worker]
Manifests ==
    {Absent, [form |-> "malformed", artifacts |-> << >>], [form |-> "unsigned", artifacts |-> <<Image(2, "w")>>],
     Signed(<<Image(1, "w"), Image(2, "w")>>), Signed(<<Image(2, "v")>>), Signed(<<Image(1, "w")>>),
     Signed(<<Image(2, "v"), Image(2, "w")>>)}

Argument(kind, raw, joined) == [kind |-> kind, raw |-> raw, joined |-> joined]
Flag == Argument("flag", FALSE, FALSE)
Plain == Argument("plain", FALSE, FALSE)
Key == Argument("plain", TRUE, FALSE)
Arguments ==
    {<< >>, <<Plain, Key>>, <<Flag, Key>>, <<Flag>>, <<Argument("plain", TRUE, TRUE)>>}
      \cup {<<Flag, Argument(k, r, FALSE), last>> : k \in {"descriptor", "descriptor_key"}, r \in BOOLEAN, last \in {Plain, Key}}
      \cup {<<Argument(k, r, TRUE)>> : k \in {"descriptor", "descriptor_key"}, r \in BOOLEAN}
      \cup {<<Argument("descriptor", TRUE, FALSE), Flag>>}
      \cup {<<Argument("id", FALSE, FALSE), Plain, Argument("connect", FALSE, FALSE), id>> :
              id \in {Plain, Argument("id", FALSE, FALSE), Argument("id_joined", FALSE, FALSE)}}

Usual ==
    [system |-> "macos", hardened |-> "no", debug |-> FALSE, development |-> FALSE, configured |-> TRUE, clean |-> TRUE,
     printable |-> TRUE, terminal |-> FALSE, parent |-> TRUE, legacy |-> "clear", initialized |-> TRUE, argv |-> << >>,
     forwarded |-> Signed(<<Image(1, "w"), Image(2, "w")>>), embedded |-> Absent,
     identity |-> 2, source |-> "s", worker |-> "w"]

\* One or two things are not as usual.
Worlds ==
    {[Usual EXCEPT !.system = s, !.hardened = h, !.development = d] :
        s \in {"macos", "linux", "windows"}, h \in {"no", "yes", "invalid"}, d \in BOOLEAN}
      \cup {[Usual EXCEPT !.configured = FALSE, !.debug = d, !.clean = c] : d \in BOOLEAN, c \in BOOLEAN}
      \cup {[Usual EXCEPT !.debug = TRUE, !.clean = c, !.terminal = t, !.legacy = l, !.initialized = i] :
              c \in BOOLEAN, t \in BOOLEAN, l \in {"clear", "detected"}, i \in BOOLEAN}
      \cup {[Usual EXCEPT !.parent = FALSE], [Usual EXCEPT !.printable = FALSE]}
      \cup {[Usual EXCEPT !.argv = a] : a \in Arguments}
      \cup {[Usual EXCEPT !.system = s, !.development = TRUE, !.debug = (s = "linux"), !.forwarded = f, !.embedded = e] :
              s \in {"macos", "linux"}, f \in Manifests, e \in {Absent, Signed(<<Image(2, "w")>>), Signed(<<Image(2, "v")>>)}}

NoArgs == [op |-> "none"]
Waits(ms) == [wait_ms |-> ms, poll_ms |-> None, progress |-> "0"]
Search(q, c, p) == [op |-> "search_entries", query |-> q, cursor |-> c, page_size |-> p]
Get(v, e, r, w, f, i) ==
    [op |-> "get_credential", vault |-> v, entry |-> e, reason |-> r, wait |-> w, field |-> f, field_id |-> i]
Exec(e, c, m, p) ==
    [op |-> "exec_with_credential", vault |-> "x", entry |-> e, reason |-> None, wait |-> Waits("1"),
     command |-> c, env |-> m, parameters |-> p]
Inject(v, e, r, p) ==
    [op |-> "inject_credential", vault |-> v, entry |-> e, reason |-> r, wait |-> Waits(None), provider |-> p]
InjectSubmission(s, p) == [op |-> "inject_submission", submission |-> s, provider |-> p]
Report(v, e, c) == [op |-> "report_credential_stale", vault |-> v, entry |-> e, code |-> c]
Submit(v, e, l, u, g, plan, d) ==
    [op |-> "submit_entry", plan |-> plan, description |-> d,
     request |-> [vault |-> v, entry |-> e, type |-> "key", label |-> l, url |-> u, username |-> None, generated |-> g]]

Job(surface, command, args) ==
    [surface |-> surface, command |-> command, args |-> args, confirm |-> TRUE, valid |-> TRUE, stdin |-> FALSE,
     prompt |-> FALSE, deprecated |-> FALSE, profile |-> FALSE]

Plainly == {"init", "doctor", "verify_release_policy", "connect", "pair_agent", "status", "disconnect", "purge",
            "agents_list", "agents_create", "agents_delete", "security_upgrade", "legacy_status", "legacy_cutover",
            "legacy_cleanup", "browser_sessions", "browser_install", "browser_status", "browser_uninstall", "mcp"}

SessionJobs ==
    {Job("cli", "pair", [op |-> "pair_vaults", activation |-> "x"]),
     Job("cli", "search", Search("x", None, None)), Job("mcp", "search", Search(" x", None, None)),
     Job("cli", "get", Get("x", "x", None, Waits(None), None, None)),
     Job("mcp", "get", Get("x", "x", None, Waits(None), None, None)),
     Job("cli", "exec", Exec("x", <<"x">>, << >>, "none")), Job("mcp", "exec", Exec("x", None, << >>, "p")),
     Job("cli", "inject", Inject("x", "x", None, None)), Job("mcp", "inject", Inject("x", "x", None, None)),
     Job("cli", "report_stale", Report("x", "x", None)), Job("mcp", "report_stale", Report("x", "x", None)),
     Job("cli", "submit_new", Submit(None, None, "x", None, TRUE, None, None)),
     Job("cli", "submit_update", Submit("x", "x", None, None, FALSE, "x", "x")),
     Job("cli", "submission_status", [op |-> "submission_status", submission |-> None]),
     Job("cli", "trust_approvers", [op |-> "trust_approvers", fingerprint |-> "x"]),
     Job("mcp", "pair_agent", NoArgs), Job("mcp", "browser_sessions", NoArgs), Job("chrome", "chrome", NoArgs)}

Jobs ==
    LET base == SessionJobs \cup {Job("cli", c, NoArgs) : c \in Plainly}
    IN base \cup {[j EXCEPT !.confirm = FALSE] : j \in base} \cup {[j EXCEPT !.valid = FALSE] : j \in base}
         \cup {[j EXCEPT !.stdin = TRUE, !.prompt = TRUE] : j \in base} \cup {[j EXCEPT !.profile = TRUE] : j \in base}
         \cup {[j EXCEPT !.deprecated = TRUE] : j \in {k \in base : k.command = "inject"}}

Optional == {None, "0", "x"}
ManyArguments ==
    {Job(s, "search", Search(q, c, p)) : s \in {"cli", "mcp"}, q \in {"x", " x"}, c \in Optional, p \in {None, "0", "1"}}
      \cup {Job(s, "get", Get("x", e, r, Waits(w), f, i)) :
              s \in {"cli", "mcp"}, e \in {"x", " x"}, r \in Optional, w \in {None, "0"}, f \in Optional, i \in Optional}
      \cup {Job(s, "exec", Exec(e, c, m, p)) :
              s \in {"cli", "mcp"}, e \in {"x", "y"}, c \in {<< >>, <<"x">>, <<"1", "x">>}, m \in {<< >>, <<"x">>}, p \in {"none", "p"}}
      \cup {Job(s, "inject", Inject(v, e, r, p)) :
              s \in {"cli", "mcp"}, v \in {"submission", "x"}, e \in {"cli", "x"}, r \in {None, "x"}, p \in {None, "extension"}}
      \cup {Job("cli", "inject", InjectSubmission(i, None)) : i \in {"x", "y"}}
      \cup {Job(s, "report_stale", Report(v, e, c)) : s \in {"cli", "mcp"}, v \in {"x", " x"}, e \in {"x", "y"}, c \in {None, "auth_failed"}}
      \cup {Job("cli", "submit_new", Submit(v, None, l, u, g, None, None)) : v \in Optional, l \in Optional, u \in Optional, g \in BOOLEAN}
      \cup {Job("cli", "submit_update", Submit(v, e, l, None, FALSE, p, d)) :
              v \in {"x", "y"}, e \in {"x", "y"}, l \in Optional, p \in {"x", "y"}, d \in {None, "x"}}
      \cup {Job("cli", "submission_status", [op |-> "submission_status", submission |-> i]) : i \in Optional}

\* The digest tells every two operations of either surface apart.
ASSUME DigestIsExact == DigestsDiffer({Performed(j) : j \in ManyArguments \cup {k \in SessionJobs : k.args.op # "none"}})

StartsMC ==
    {[job |-> j, world |-> w] : j \in Jobs, w \in {Usual}}
      \cup {[job |-> j, world |-> w] : j \in SessionJobs \cup {Job("cli", c, NoArgs) : c \in Plainly}, w \in Worlds}
      \cup {[job |-> j, world |-> [Usual EXCEPT !.system = "linux", !.hardened = "yes", !.terminal = t]] :
              j \in Jobs, t \in BOOLEAN}
      \cup {[job |-> j, world |-> Usual] : j \in ManyArguments}

=============================================================================
