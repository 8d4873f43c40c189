------------------------------ MODULE MCBrokers -------------------------------
(***************************************************************************)
(* The brokers that hold the credentials, in one run: `scenario' picks a   *)
(* session of the Windows service (WindowsSession), its admission of       *)
(* connections (WindowsAdmission), the Linux broker's admission against    *)
(* the administrator's commands (LinuxAdmission) or the platform's secret  *)
(* store (SecretSlots), and the machine it picks runs alone.               *)
(***************************************************************************)
EXTENDS MCWindowsSession

CONSTANTS Conns, Users, HelloKeys, MaxActive, MaxPerUser, MaxAttempts, Window, MaxClock, MaxCrashes, Uids,
          Slots, MaxSessions, MaxPerUid, MaxPrincipals, MaxDeaths, Backends, Secrets, MaxCalls, MaxFaults

VARIABLES
    scenario,
    conns, limiter, free, pin, clock, crashes,
    record, member, broker, sessions, names, admin, issued, deaths, told,
    backend, entry, durable, call, lease, answer, allowed, calls, faults

\* A slot of the approved identity, of an organization of the operation and of another.
Keys == {[owner |-> "id", slot |-> "x25519"], [owner |-> "org", slot |-> "api-key"],
         [owner |-> "other", slot |-> "api-key"]}
Approved == [identity |-> "id", organizations |-> {"org"}]

W == INSTANCE WindowsAdmission
L == INSTANCE LinuxAdmission
K == INSTANCE SecretSlots WITH SlotKeys <- Keys, Scope <- Approved

windowsVars == <<conns, limiter, free, pin, clock, crashes>>
linuxVars == <<record, member, broker, sessions, names, admin, issued, deaths, told>>
slotsVars == <<backend, entry, durable, call, lease, answer, allowed, calls, faults>>
all == <<scenario, vars, windowsVars, linuxVars, slotsVars>>

Unused == "unused"
NoWindows ==
    /\ conns = Unused /\ limiter = Unused /\ free = Unused /\ pin = Unused /\ clock = Unused
    /\ crashes = Unused
NoLinux ==
    /\ record = Unused /\ member = Unused /\ broker = Unused /\ sessions = Unused /\ names = Unused
    /\ admin = Unused /\ issued = Unused /\ deaths = Unused /\ told = Unused
NoSlots ==
    /\ backend = Unused /\ entry = Unused /\ durable = Unused /\ call = Unused /\ lease = Unused
    /\ answer = Unused /\ allowed = Unused /\ calls = Unused /\ faults = Unused

\* The machine of WindowsSession rests in an initial state while another runs.
InitOne ==
    /\ Init
    /\ \/ scenario = "session" /\ NoWindows /\ NoLinux /\ NoSlots
       \/ scenario = "windows" /\ session.op = "connect" /\ W!Init /\ NoLinux /\ NoSlots
       \/ scenario = "linux" /\ session.op = "connect" /\ L!Init /\ NoWindows /\ NoSlots
       \/ scenario = "slots" /\ session.op = "connect" /\ K!Init /\ NoWindows /\ NoLinux

InSession == scenario = "session" /\ UNCHANGED <<scenario, windowsVars, linuxVars, slotsVars>>
InWindows == scenario = "windows" /\ UNCHANGED <<scenario, vars, linuxVars, slotsVars>>
InLinux == scenario = "linux" /\ UNCHANGED <<scenario, vars, windowsVars, slotsVars>>
InSlots == scenario = "slots" /\ UNCHANGED <<scenario, vars, windowsVars, linuxVars>>

\* Machines that come to rest when their bounds are used up.
Rest == scenario \in {"windows", "slots"} /\ UNCHANGED all

NextOne ==
    \/ InSession /\ Next
    \/ InWindows /\ W!Next
    \/ InLinux /\ L!Next
    \/ InSlots /\ K!Next
    \/ Rest

SpecOne == InitOne /\ [][NextOne]_all

-----------------------------------------------------------------------------
\* However many connections of a user race to be the first, those that get past
\* the pin presented the key that is on disk (verify_existing_pin, pin_key_once).
AcceptedIsPinned == scenario = "windows" => W!AcceptedIsPinned

\* Every permit is given back exactly once, so no user is shut out by
\* connections that are gone and none exceeds its share (UserSessionLimiter).
PermitsCounted == scenario = "windows" => W!PermitsCounted

\* Once revoke or revoke-purge has returned, no session of that principal runs
\* or will run (manage-agent-uid.sh against authenticate_peer).
RevokedIsOver == scenario = "linux" => L!RevokedIsOver

\* A principal the helper reported purged leaves nothing behind and never comes
\* back (purge_principal_namespace against prepare_principal_profile_root).
PurgedIsGone == scenario = "linux" => L!PurgedIsGone


\* An authorized read hands out only what the approved operation covers, for
\* the key that was asked (get_authorized).
ReadIsCovered == scenario = "slots" => K!ReadIsCovered

=============================================================================
