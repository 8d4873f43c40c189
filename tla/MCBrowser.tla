------------------------------ MODULE MCBrowser -------------------------------
(***************************************************************************)
(* The browser side in one run: `scenario' picks the administration of the *)
(* native host (BrowserHost), one connection of the pump (Multiplex), the  *)
(* secure transport (SecureTransport), the choice of a browser             *)
(* (BrowserRoute), or the cache of form maps (FormMaps), and the machine   *)
(* it picks runs alone.                                                    *)
(***************************************************************************)
EXTENDS BrowserHost, Sequences, FiniteSets

CONSTANTS Ops, Capacities, MaxRequests, Conforming, Kinds, Connections, MaxSequence, MaxFrames, Paths, Legacy,
          Calls, Named, Budget, MaxChanges, Procs, Keys, Sizes, MaxUsage, MaxCalls, NoMap

ASSUME MultiplexAssumption ==
    /\ Capacities \subseteq Nat \ {0} /\ MaxRequests \in Nat
    /\ Conforming \subseteq BOOLEAN /\ IsFiniteSet(Ops)

VARIABLES
    scenario,
    client, asked, answer, guard, permits, queue, pump, pending, closing, sealed, open, dismissed, acked, taken,
    inbox, eof, over, capacity, conforming,
    kind, known, pinned, near, far, carrier, sent, read,
    socket, browser, changes, call, step, todo, listening, told, chosen, left, report, result,
    entries, size, catalog, lookup, spent, refused, dropped

\* Two connections to one host identity, or a second host whose identity is
\* that of a removed installation.
Pairings ==
    {[client |-> [c \in Connections |-> "installed"],
      host |-> [h \in Connections |-> IF h = 1 THEN "installed" ELSE second]] : second \in {"installed", "former"}}

\* Versions and fingerprints of a form map; the second version was published twice.
Revisions == {<<1, "f">>, <<2, "f">>, <<2, "g">>}

M == INSTANCE Multiplex
T == INSTANCE SecureTransport WITH identity <- known, client <- near, host <- far
R == INSTANCE BrowserRoute WITH at <- step, open <- listening
F == INSTANCE FormMaps WITH call <- lookup

multiplexVars == <<client, asked, answer, guard, permits, queue, pump, pending, closing, sealed, open,
                   dismissed, acked, taken, inbox, eof, over, capacity, conforming>>
transportVars == <<kind, known, pinned, near, far, carrier, sent, read>>
routeVars == <<socket, browser, changes, call, step, todo, listening, told, chosen, left, report, result>>
mapsVars == <<entries, size, catalog, lookup, spent, refused, dropped>>
all == <<scenario, vars, multiplexVars, transportVars, routeVars, mapsVars>>

Unused == "unused"
NoMultiplex ==
    /\ client = Unused /\ asked = Unused /\ answer = Unused /\ guard = Unused /\ permits = Unused
    /\ queue = Unused /\ pump = Unused /\ pending = Unused /\ closing = Unused /\ sealed = Unused
    /\ open = Unused /\ dismissed = Unused /\ acked = Unused /\ taken = Unused /\ inbox = Unused
    /\ eof = Unused /\ over = Unused /\ capacity = Unused /\ conforming = Unused
NoTransport ==
    /\ kind = Unused /\ known = Unused /\ pinned = Unused /\ near = Unused /\ far = Unused /\ carrier = Unused
    /\ sent = Unused /\ read = Unused
NoRoute ==
    /\ socket = Unused /\ browser = Unused /\ changes = Unused /\ call = Unused /\ step = Unused
    /\ todo = Unused /\ listening = Unused /\ told = Unused /\ chosen = Unused /\ left = Unused
    /\ report = Unused /\ result = Unused
NoMaps ==
    /\ entries = Unused /\ size = Unused /\ catalog = Unused /\ lookup = Unused /\ spent = Unused
    /\ refused = Unused /\ dropped = Unused

\* The machine of BrowserHost rests in an initial state while another runs.
InitOne ==
    /\ Init
    /\ \/ scenario = "host" /\ NoMultiplex /\ NoTransport /\ NoRoute /\ NoMaps
       \/ scenario = "multiplex" /\ M!Init /\ NoTransport /\ NoRoute /\ NoMaps
       \/ scenario = "transport" /\ T!Init /\ NoMultiplex /\ NoRoute /\ NoMaps
       \/ scenario = "route" /\ R!Init /\ NoMultiplex /\ NoTransport /\ NoMaps
       \/ scenario = "maps" /\ F!Init /\ NoMultiplex /\ NoTransport /\ NoRoute

InHost == scenario = "host" /\ UNCHANGED <<scenario, multiplexVars, transportVars, routeVars, mapsVars>>
InMultiplex == scenario = "multiplex" /\ UNCHANGED <<scenario, vars, transportVars, routeVars, mapsVars>>
InTransport == scenario = "transport" /\ UNCHANGED <<scenario, vars, multiplexVars, routeVars, mapsVars>>
InRoute == scenario = "route" /\ UNCHANGED <<scenario, vars, multiplexVars, transportVars, mapsVars>>
InMaps == scenario = "maps" /\ UNCHANGED <<scenario, vars, multiplexVars, transportVars, routeVars>>

NextOne ==
    \/ InHost /\ Next
    \/ InMultiplex /\ M!Next
    \/ InTransport /\ T!Next
    \/ InRoute /\ R!Next
    \/ InMaps /\ F!Next

SpecOne == InitOne /\ [][NextOne]_all

-----------------------------------------------------------------------------
\* Nothing the clients of a conforming extension do, in whatever order, makes
\* the pump drop the connection they share (run_multiplexed_connection).
ConformingIsKept == scenario = "multiplex" => M!ConformingIsKept

\* A frame discarded in the queue leaves no gap in the sealed sequence the
\* extension checks (seal, write_frame).
NoSequenceGap == scenario = "multiplex" => M!NoSequenceGap

\* What an end has opened is the beginning of what the other end of the same
\* session has sealed: nothing repeated, reordered, reflected or meant for
\* another connection is read (SecureSession::open).
ReadsWhatWasSent == scenario = "transport" => T!ReadsWhatWasSent

\* A call that names no session goes to a browser only when every other one
\* that listens has said that the tab is not its own (connect_for_surface).
NeverGuesses == scenario = "route" => R!NeverGuesses

\* A revision of a form map that an injection has rejected is not given to an
\* injection again, however late the answers that carry it arrive and whoever
\* stores them (FormMapCache, resolve_form_discovery_map).
RejectedStaysAway == [][scenario = "maps" => F!KeepsAway]_all

=============================================================================
