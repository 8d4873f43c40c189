-------------------------- MODULE WindowsAdmission --------------------------
(***************************************************************************)
(* How the Windows service admits connections (palladin-windows-broker,    *)
(* bin/service.rs run_service and handle_connection, lib.rs                *)
(* UserSessionLimiter): per-user and global limits, and the Windows Hello  *)
(* key that the first accepted connection of a user pins on disk.          *)
(*                                                                         *)
(* The accept loop admits one connection at a time; the connections run    *)
(* concurrently.  A crash loses everything but the pin files.              *)
(***************************************************************************)
EXTENDS Integers, FiniteSets

CONSTANTS
    Conns,       \* pipe instances
    Users,       \* caller SIDs
    HelloKeys,   \* public keys that callers present
    MaxActive,   \* MAX_ACTIVE_CONNECTIONS
    MaxPerUser,  \* MAX_ACTIVE_CONNECTIONS_PER_USER
    MaxAttempts, \* MAX_CONNECTIONS_PER_USER_WINDOW
    Window,      \* USER_RATE_WINDOW, in ticks
    MaxClock,    \* ticks of a behaviour
    MaxCrashes   \* crashes of a behaviour

VARIABLES
    conns,    \* each pipe instance: its stage, its user and the key presented
    limiter,  \* UserSessionLimiter.states: a record for the users it remembers
    free,     \* permits of the connection semaphore
    pin,      \* the pin file of each user: NoFile, Empty or a key
    clock,
    crashes

vars == <<conns, limiter, free, pin, clock, crashes>>

NoFile == "no file"
Empty == "empty"
Unknown == [active |-> -1, attempts |-> 0, started |-> 0]
Idle == [at |-> "idle", user |-> NoFile, key |-> NoFile, new |-> FALSE]

Live == {c \in Conns : conns[c].at # "idle"}

Init ==
    /\ conns = [c \in Conns |-> Idle]
    /\ limiter = [u \in Users |-> Unknown]
    /\ free = MaxActive
    /\ pin = [u \in Users |-> NoFile]
    /\ clock = 0 /\ crashes = 0

Tick ==
    /\ clock < MaxClock /\ clock' = clock + 1
    /\ UNCHANGED <<conns, limiter, free, pin, crashes>>

-----------------------------------------------------------------------------
(* The limiter. *)

\* Records of users without a connection are forgotten after two windows.
Retained ==
    [u \in Users |-> IF limiter[u].active > 0 \/ clock - limiter[u].started < 2 * Window
                     THEN limiter[u] ELSE Unknown]

\* The user's record as try_acquire finds it: fresh, with a new window, or as it was.
Record(u) ==
    LET state == Retained[u] IN
    CASE state = Unknown -> [active |-> 0, attempts |-> 0, started |-> clock]
      [] state # Unknown /\ clock - state.started >= Window -> [state EXCEPT !.attempts = 0, !.started = clock]
      [] OTHER -> state
MayEnter(u) == Record(u).active < MaxPerUser /\ Record(u).attempts < MaxAttempts

\* A permit dropped: the user's record, if there still is one, counts one connection less.
Dropped(states, u) ==
    IF states[u] = Unknown THEN states
    ELSE [states EXCEPT ![u].active = IF @ > 0 THEN @ - 1 ELSE 0]

-----------------------------------------------------------------------------
(* run_service's accept loop and handle_connection. *)

\* A caller whose user has reached a limit: only the record is kept up to date.
Refuse(u) ==
    /\ ~MayEnter(u)
    /\ limiter' = [Retained EXCEPT ![u] = Record(u)]
    /\ limiter' # limiter
    /\ UNCHANGED <<conns, free, pin, clock, crashes>>

\* The user's permit first; without one of the semaphore it is dropped again, the attempt counted.
\* The loop waits on one pipe instance at a time; which of the idle ones it is makes no difference.
Accept(u, k) ==
    /\ Conns # Live /\ MayEnter(u)
    /\ LET c == CHOOSE idle \in Conns : idle \notin Live
           entered == [Retained EXCEPT ![u] = [Record(u) EXCEPT !.active = @ + 1, !.attempts = @ + 1]] IN
         IF free = 0
         THEN limiter' = Dropped(entered, u) /\ UNCHANGED <<conns, free>>
         ELSE /\ limiter' = entered /\ free' = free - 1
              /\ conns' = [conns EXCEPT ![c] = [at |-> "request", user |-> u, key |-> k, new |-> FALSE]]
    /\ UNCHANGED <<pin, clock, crashes>>

Release(c) ==
    /\ conns' = [conns EXCEPT ![c] = Idle]
    /\ limiter' = Dropped(limiter, conns[c].user)
    /\ free' = free + 1

\* verify_existing_pin: the user's own key, another one, or none yet.
Verify(c) ==
    /\ conns[c].at = "request" /\ UNCHANGED <<pin, clock, crashes>>
    /\ IF pin[conns[c].user] \in {NoFile, conns[c].key}
       THEN /\ conns' = [conns EXCEPT ![c].at = "challenged", ![c].new = pin[conns[c].user] = NoFile]
            /\ UNCHANGED <<limiter, free>>
       ELSE Release(c)

\* The challenge was signed with the key presented.
Signed(c) ==
    /\ conns[c].at = "challenged"
    /\ conns' = [conns EXCEPT ![c].at = IF conns[c].new THEN "pinning" ELSE "accepted"]
    /\ UNCHANGED <<limiter, free, pin, clock, crashes>>

\* Mutant: losing the race to create the pin file counts as having pinned.
PinRegardless(c) ==
    /\ conns[c].at = "pinning" /\ UNCHANGED <<clock, crashes, limiter, free>>
    /\ IF pin[conns[c].user] = NoFile
       THEN /\ pin' = [pin EXCEPT ![conns[c].user] = Empty]
            /\ conns' = [conns EXCEPT ![c].at = "writing"]
       ELSE conns' = [conns EXCEPT ![c].at = "accepted"] /\ UNCHANGED pin
\* pin_key_once: created exclusively, or the file that is there must hold the same key.
PinKeyOnce(c) ==
    /\ conns[c].at = "pinning" /\ UNCHANGED <<clock, crashes>>
    /\ LET file == pin[conns[c].user] IN
       \/ /\ file = NoFile
          /\ pin' = [pin EXCEPT ![conns[c].user] = Empty]
          /\ conns' = [conns EXCEPT ![c].at = "writing"]
          /\ UNCHANGED <<limiter, free>>
       \/ /\ file = conns[c].key
          /\ conns' = [conns EXCEPT ![c].at = "accepted"]
          /\ UNCHANGED <<limiter, free, pin>>
       \/ file \notin {NoFile, conns[c].key} /\ Release(c) /\ UNCHANGED pin
PinWritten(c) ==
    /\ conns[c].at = "writing"
    /\ pin' = [pin EXCEPT ![conns[c].user] = conns[c].key]
    /\ conns' = [conns EXCEPT ![c].at = "accepted"]
    /\ UNCHANGED <<limiter, free, clock, crashes>>

\* The connection ends: a rejection, a timeout, the end of the session, a panic.
End(c) == c \in Live /\ conns[c].at # "writing" /\ Release(c) /\ UNCHANGED <<pin, clock, crashes>>

\* The service dies and starts again.
Crash ==
    /\ crashes < MaxCrashes /\ crashes' = crashes + 1
    /\ conns' = [c \in Conns |-> Idle] /\ limiter' = [u \in Users |-> Unknown] /\ free' = MaxActive
    /\ UNCHANGED <<pin, clock>>

Next ==
    \/ Tick \/ Crash
    \/ \E u \in Users : Refuse(u) \/ \E k \in HelloKeys : Accept(u, k)
    \/ \E c \in Conns : Verify(c) \/ Signed(c) \/ PinKeyOnce(c) \/ PinWritten(c) \/ End(c)
Spec == Init /\ [][Next]_vars

-----------------------------------------------------------------------------

TypeOK ==
    /\ free \in 0 .. MaxActive
    /\ pin \in [Users -> HelloKeys \cup {NoFile, Empty}]
    /\ \A c \in Live : conns[c].user \in Users /\ conns[c].key \in HelloKeys

\* Every permit is given back exactly once: the semaphore and each user's record count the live
\* connections, so no user is shut out by connections that are gone and none exceeds its share
\* (UserSessionLimiter.try_acquire, UserSessionPermit::drop).
PermitsCounted ==
    /\ free + Cardinality(Live) = MaxActive
    /\ \A u \in Users :
         LET own == Cardinality({c \in Live : conns[c].user = u}) IN
         /\ own <= MaxPerUser
         /\ own = IF limiter[u] = Unknown THEN 0 ELSE limiter[u].active

\* However many connections of a user race to be the first, those that get past the pin presented
\* the key that is on disk (verify_existing_pin, pin_key_once).
AcceptedIsPinned == \A c \in Live : conns[c].at = "accepted" => pin[conns[c].user] = conns[c].key

\* A pin file without a key is being written, or a crash interrupted its writer.
EmptyPinExplained ==
    \A u \in Users : pin[u] = Empty => crashes > 0 \/ \E c \in Live : conns[c].user = u /\ conns[c].at = "writing"
=============================================================================
