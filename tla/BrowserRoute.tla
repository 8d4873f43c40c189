---------------------------- MODULE BrowserRoute ----------------------------
(***************************************************************************)
(* How a local client finds the browser it is to talk to (palladin-inject  *)
(* transport.rs): the sockets under the profile root, one per native host, *)
(* the discovery report, and connect_prepared, which connects, probes      *)
(* every browser for the exact tab when no session was named, prepares the *)
(* page, and starts over within 45 seconds when a connection is lost.      *)
(*                                                                         *)
(* Meanwhile browsers start, stop, crash (leaving their socket), and move  *)
(* their tabs.  Time is a number of delays the budget still allows.        *)
(***************************************************************************)
EXTENDS Naturals, FiniteSets

CONSTANTS
    Paths,      \* session sockets b-<id>.sock
    Legacy,     \* the socket of a host that predates sessions
    Calls,      \* "discover", "exact", "session" (of Named), "any"
    Named,      \* the path a call names
    Budget,     \* delays that fit in the reconnect deadline
    MaxChanges  \* changes among the browsers

VARIABLES
    socket,   \* per path: "absent", "safe" or "unsafe" (owner, mode or type)
    browser,  \* per path: "down", or what its extension says of the target tab
    changes,  \* changes so far
    call,     \* the caller's request
    at,       \* its step
    todo,     \* paths still to connect to
    open,     \* paths connected to in this attempt
    told,     \* what each connected browser answered in this attempt
    chosen,   \* the path the kept connection leads to
    left,     \* delays left before the deadline
    report,   \* the discovery report
    result    \* what the call returned

vars == <<socket, browser, changes, call, at, todo, open, told, chosen, left, report, result>>

All == Paths \cup {Legacy}
Nowhere == "nowhere"
Tabs == {"match", "no_match", "unavailable"}
NoReport == [sessions |-> {}, unavailable |-> 0, legacy |-> FALSE]

Init ==
    /\ socket \in [All -> {"absent", "safe", "unsafe"}]
    /\ browser = [p \in All |-> "down"]
    /\ changes = 0
    /\ call \in Calls
    /\ at = "attempt"
    /\ todo = {} /\ open = {}
    /\ told = [p \in All |-> "unasked"]
    /\ chosen = Nowhere
    /\ left = Budget
    /\ report = NoReport
    /\ result = "none"

-----------------------------------------------------------------------------
(* The browsers *)

Client == <<call, at, todo, open, told, chosen, left, report, result>>

Changes ==
    /\ changes < MaxChanges
    /\ changes' = changes + 1
    /\ UNCHANGED Client

BrowserStarts(p) ==
    /\ browser[p] = "down" /\ socket[p] # "unsafe"
    /\ socket' = [socket EXCEPT ![p] = "safe"]
    /\ \E tab \in Tabs : browser' = [browser EXCEPT ![p] = tab]
    /\ Changes

(* The guard of the listener removes the socket; a crash leaves it. *)
BrowserStops(p, crash) ==
    /\ browser[p] # "down"
    /\ browser' = [browser EXCEPT ![p] = "down"]
    /\ socket' = IF crash THEN socket ELSE [socket EXCEPT ![p] = "absent"]
    /\ Changes

TabMoves(p) ==
    /\ browser[p] # "down"
    /\ \E tab \in Tabs \ {browser[p]} : browser' = [browser EXCEPT ![p] = tab]
    /\ UNCHANGED socket /\ Changes

-----------------------------------------------------------------------------
(* Routes *)

browser_socket_paths == {p \in All : socket[p] # "absent"}

Browsers == UNCHANGED <<socket, browser, changes>>

Returns(what) ==
    /\ at' = "done" /\ result' = what
    /\ UNCHANGED <<call, todo, open, told, chosen, left, report>>

(* Unavailable and a closed stream are the only errors an attempt is        *)
(* repeated for.                                                            *)
Lost ==
    /\ at' = "delay"
    /\ todo' = {} /\ open' = {} /\ chosen' = Nowhere
    /\ told' = [p \in All |-> "unasked"]
    /\ UNCHANGED <<call, left, report, result>>

GoOn(step) == at' = step /\ UNCHANGED <<call, left, report, result>>

(* browser_connections lists the sockets; select_browser_socket keeps the   *)
(* named one.                                                               *)
Attempt ==
    /\ at = "attempt" /\ call # "discover"
    /\ LET paths == IF call = "session" THEN browser_socket_paths \cap {Named}
                                        ELSE browser_socket_paths
       IN IF call = "session" /\ paths = {} THEN Lost
          ELSE todo' = paths /\ GoOn("connect") /\ UNCHANGED <<open, told, chosen>>
    /\ Browsers

(* The paths are tried in order.  One that is gone fails the type check     *)
(* before connect, and one nobody listens on is passed over.                *)
Connect(p) ==
    /\ at = "connect" /\ p \in todo
    /\ CASE socket[p] = "unsafe" -> Returns("unsafe")
         [] socket[p] = "absent" -> Lost
         [] OTHER -> /\ todo' = todo \ {p}
                     /\ open' = IF browser[p] = "down" THEN open ELSE open \cup {p}
                     /\ GoOn("connect") /\ UNCHANGED <<told, chosen>>
    /\ Browsers

(* connect_browser_socket wants exactly one; connect_exact_target asks all. *)
Connected ==
    /\ at = "connect" /\ todo = {}
    /\ CASE open = {} -> Lost
         [] call = "exact" -> GoOn("probe") /\ UNCHANGED <<todo, open, told, chosen>>
         [] call # "exact" /\ Cardinality(open) = 1 ->
                /\ chosen' \in open
                /\ GoOn("prepare") /\ UNCHANGED <<todo, open, told>>
         [] OTHER -> Returns("ambiguous")
    /\ Browsers

(* Mutant: the first browser that answers "match" is taken. *)
ProbeFirst(p) ==
    /\ at = "probe" /\ told[p] = "unasked" /\ p \in open
    /\ CASE browser[p] = "down" -> Lost
         [] browser[p] = "unavailable" -> Returns("resolution_unavailable")
         [] OTHER -> /\ told' = [told EXCEPT ![p] = browser[p]]
                     /\ chosen' = IF browser[p] = "match" THEN p ELSE chosen
                     /\ GoOn(IF browser[p] = "match" THEN "reconnect" ELSE "probe")
                     /\ UNCHANGED <<todo, open>>
    /\ Browsers

(* Up to eight probes run at once; their answers come in any order. *)
Probe(p) ==
    /\ at = "probe" /\ told[p] = "unasked" /\ p \in open
    /\ CASE browser[p] = "down" -> Lost
         [] browser[p] = "unavailable" -> Returns("resolution_unavailable")
         [] browser[p] = "match" /\ chosen # Nowhere -> Returns("ambiguous")
         [] OTHER -> /\ told' = [told EXCEPT ![p] = browser[p]]
                     /\ chosen' = IF browser[p] = "match" THEN p ELSE chosen
                     /\ GoOn("probe") /\ UNCHANGED <<todo, open>>
    /\ Browsers

Probed ==
    /\ at = "probe" /\ \A p \in open : told[p] # "unasked"
    /\ IF chosen = Nowhere THEN Returns("target_not_found")
       ELSE GoOn("reconnect") /\ UNCHANGED <<todo, open, told, chosen>>
    /\ Browsers

(* A second connection to the browser that matched. *)
Reconnect ==
    /\ at = "reconnect"
    /\ CASE socket[chosen] = "unsafe" -> Returns("unsafe")
         [] socket[chosen] = "absent" \/ browser[chosen] = "down" -> Lost
         [] OTHER -> GoOn("prepare") /\ UNCHANGED <<todo, open, told, chosen>>
    /\ Browsers

(* authenticate and prepare: the extension looks at its tabs again. *)
Prepare ==
    /\ at = "prepare"
    /\ IF browser[chosen] = "down" THEN Lost
       ELSE Returns(IF browser[chosen] = "match" \/ call = "any" THEN "ready" ELSE "refused")
    /\ Browsers

(* An exchange that hangs lasts until the deadline. *)
Deadline ==
    /\ at \in {"connect", "probe", "reconnect", "prepare"}
    /\ Returns("reconnect_timeout")
    /\ Browsers

(* A handshake, signature or answer that does not verify ends the call. *)
Invalid ==
    /\ at \in {"probe", "reconnect", "prepare"} \/ (at = "query" /\ todo # {})
    /\ Returns("invalid")
    /\ Browsers

Delay ==
    /\ at = "delay"
    /\ IF left = 0 THEN Returns("reconnect_timeout")
       ELSE /\ at' = "attempt" /\ left' = left - 1
            /\ UNCHANGED <<call, todo, open, told, chosen, report, result>>
    /\ Browsers

-----------------------------------------------------------------------------
(* Discovery *)

(* discover_browser_sessions checks every entry before it asks any. *)
Discover ==
    /\ at = "attempt" /\ call = "discover"
    /\ IF \E p \in browser_socket_paths : socket[p] = "unsafe" THEN Returns("unsafe")
       ELSE /\ todo' = browser_socket_paths \ {Legacy}
            /\ report' = [report EXCEPT !.legacy = Legacy \in browser_socket_paths]
            /\ at' = "query"
            /\ open' = todo'
            /\ UNCHANGED <<call, told, chosen, left, result>>
    /\ Browsers

(* One status query, or its ten seconds run out. *)
Query(p) ==
    /\ at = "query" /\ p \in todo
    /\ todo' = todo \ {p}
    /\ \/ report' = [report EXCEPT !.unavailable = @ + 1]
       \/ browser[p] # "down" /\ report' = [report EXCEPT !.sessions = @ \cup {p}]
    /\ UNCHANGED <<call, at, open, told, chosen, left, result>>
    /\ Browsers

Queried ==
    /\ at = "query" /\ todo = {}
    /\ Returns("report")
    /\ Browsers

Step ==
    \/ Attempt \/ Connected \/ Probed \/ Reconnect \/ Prepare \/ Deadline \/ Invalid \/ Delay
    \/ Discover \/ Queried
    \/ \E p \in All : Connect(p) \/ Probe(p) \/ Query(p)

Next ==
    \/ Step
    \/ \E p \in All :
          \/ BrowserStarts(p) \/ TabMoves(p)
          \/ \E crash \in BOOLEAN : BrowserStops(p, crash)

(* The runtime polls the call; its timers fire. *)
Spec == Init /\ [][Next]_vars /\ WF_vars(Step)

-----------------------------------------------------------------------------
(* Properties *)

TypeOK ==
    /\ at \in {"attempt", "connect", "probe", "reconnect", "prepare", "delay", "query", "done"}
    /\ left \in 0 .. Budget
    /\ todo \subseteq All /\ open \subseteq All /\ chosen \in All \cup {Nowhere}

(* A call that names no session is prepared in a browser only when no other *)
(* could have been meant: either it was the only one that listened, or      *)
(* every other that listened has said the tab is not its own.               *)
NeverGuesses ==
    result \in {"ready", "refused"} /\ call # "session" =>
        \A p \in open \ {chosen} : told[p] = "no_match"

(* A discovery report accounts for every session socket it found, as a      *)
(* session that answered or as one that did not.                            *)
ReportIsComplete ==
    result = "report" => Cardinality(report.sessions) + report.unavailable = Cardinality(open)

(* Every call returns, however often the browsers come and go. *)
CallReturns == <>(at = "done")
=============================================================================
