----------------------------- MODULE ProfileStore ----------------------------
(***************************************************************************)
(* What the profile commands of palladin-runtime promise their caller: a   *)
(* map from names to identities that every command changes atomically, at  *)
(* most once per stage, and not at all when it never got that far.  There  *)
(* are no journals, files or crashes here.  ProfileOperations implements   *)
(* it.                                                                     *)
(***************************************************************************)
EXTENDS Integers

CONSTANTS Names, DefaultName, Ids, Orgs, Absent, MaxGeneration

VARIABLES
    profiles,   \* name -> identity, for the names in use
    default,    \* the default profile's name
    connected,  \* identity -> the organization credential it uses
    version,    \* how often the store changed since it was set up
    running,    \* the command being served, or Absent
    effects,    \* how many changes it made
    reply       \* how the last command ended

storeVars == <<profiles, default, connected, version, running, effects, reply>>

Used(p) == {p[n] : n \in DOMAIN p}

Drop(f, S) == [x \in DOMAIN f \ S |-> f[x]]

Extend(f, x, y) == [z \in DOMAIN f \union {x} |-> IF z = x THEN y ELSE f[z]]

StoreInit ==
    /\ profiles = [n \in {} |-> Absent]
    /\ default = DefaultName
    /\ connected = [i \in {} |-> Absent]
    /\ version = 0
    /\ running = Absent
    /\ effects = 0
    /\ reply = "ok"

-----------------------------------------------------------------------------
(* The changes a command may make. *)

\* A new name gets an identity nobody has; the first profile is the default.
Add(n) ==
    /\ n \notin DOMAIN profiles
    /\ \E i \in Ids \ Used(profiles) : profiles' = Extend(profiles, n, i)
    /\ default' = IF DOMAIN profiles = {} THEN n ELSE default
    /\ UNCHANGED connected

Rename(n, m) ==
    /\ n \in DOMAIN profiles /\ m \notin DOMAIN profiles
    /\ profiles' = Extend(Drop(profiles, {n}), m, profiles[n])
    /\ default' = IF default = n THEN m ELSE default
    /\ UNCHANGED connected

SetDefault(n) ==
    /\ n \in DOMAIN profiles
    /\ default' = n
    /\ UNCHANGED <<profiles, connected>>

\* The profile goes with its identity; another default is chosen if it was the default.
Remove(n) ==
    /\ n \in DOMAIN profiles
    /\ profiles' = Drop(profiles, {n})
    /\ connected' = Drop(connected, {profiles[n]})
    /\ \/ default # n /\ UNCHANGED default
       \/ /\ default = n
          /\ \/ default' \in DOMAIN profiles \ {n}
             \/ DOMAIN profiles = {n} /\ default' = DefaultName

RemoveAll ==
    /\ profiles' = [n \in {} |-> Absent]
    /\ default' = DefaultName
    /\ connected' = [i \in {} |-> Absent]

Connect(n) ==
    /\ n \in DOMAIN profiles
    /\ \E o \in Orgs : connected' = Extend(connected, profiles[n], o)
    /\ UNCHANGED <<profiles, default>>

\* A change of what the map does not show: an agent's type, retired credentials.
Touch(n) ==
    /\ n \in DOMAIN profiles
    /\ UNCHANGED <<profiles, default, connected>>

Change ==
    \/ running.op = "create" /\ effects = 0 /\ Add(running.name)
    \/ running.op = "rename" /\ effects = 0 /\ Rename(running.name, running.arg)
    \/ running.op = "setDefault" /\ effects = 0 /\ SetDefault(running.name)
    \/ running.op = "delete" /\ effects = 0 /\ running.name # default /\ Remove(running.name)
    \/ running.op = "purgeProfile" /\ effects = 0 /\ Remove(running.name)
    \/ running.op = "purge" /\ effects = 0 /\ RemoveAll
    \/ running.op = "connect" /\ effects = 0 /\ Add(running.name)
    \/ running.op = "connect" /\ Connect(running.name)
    \/ running.op = "connect" /\ Touch(running.name)

-----------------------------------------------------------------------------

BeginCommand ==
    /\ running = Absent
    /\ running' # Absent
    /\ effects' = 0
    /\ UNCHANGED <<profiles, default, connected, version, reply>>

\* One change is one generation.
TakeEffect ==
    /\ running # Absent
    /\ effects < 4
    /\ Change
    /\ version < MaxGeneration
    /\ version' = version + 1
    /\ effects' = effects + 1
    /\ UNCHANGED <<running, reply>>

\* Success is only reported for a command that made its change.
EndCommand ==
    /\ running # Absent
    /\ reply' \in {"ok", "purged"} => effects > 0 \/ running.op = "recover"
    /\ running' = Absent
    /\ effects' = 0
    /\ UNCHANGED <<profiles, default, connected, version>>

\* A purged store starts over.
Reset ==
    /\ DOMAIN profiles = {}
    /\ version' = 0
    /\ UNCHANGED <<profiles, default, connected, running, effects, reply>>

StoreNext == BeginCommand \/ TakeEffect \/ EndCommand \/ Reset

\* The promise: every change is one atomic change a running command asked for.
StoreSpec == StoreInit /\ [][StoreNext]_storeVars
=============================================================================
