-------------------------- MODULE BrowserHostProofs -------------------------
(***************************************************************************)
(* Proofs about BrowserHost for any number of administrators and sessions. *)
(* The inductive invariant adds to the properties what each point of a     *)
(* command knows of the slots, that the two sides of the lock exclude each *)
(* other, and that a token determines the key it was issued with.          *)
(***************************************************************************)
EXTENDS BrowserHost, TLAPS

\* Administrators exclude each other and the sessions.
LockOK ==
    /\ \A a, b \in Admins : at[a] \in Critical /\ at[b] \in Critical => a = b
    /\ \A a \in Admins, s \in Sessions :
           at[a] \in Critical => session[s] \notin {"locked", "forwarding"}

\* What a command has found out or done by the time it is somewhere.
SlotsOK ==
    /\ NoOrphanToken
    /\ \A a \in Admins :
           /\ at[a] = "setIdentity" => identity = Missing /\ token = Missing
           /\ at[a] \in {"setToken", "addToken"} => identity # Missing /\ token = Missing
           /\ at[a] \in {"rollback", "dropKey"} => token = Missing
           /\ at[a] = "unpublish" => identity = Missing /\ token = Missing

\* Tokens are fresh, and a session that holds the stored token holds the stored key.
SnapshotsOK ==
    /\ token <= fresh
    /\ \A s \in Sessions :
           /\ snapshot[s].token <= fresh
           /\ snapshot[s].token # Missing /\ snapshot[s].token = token
                  => snapshot[s].identity = identity
           /\ session[s] = "forwarding" => snapshot[s].token = token

Inv == TypeOK /\ LockOK /\ SlotsOK /\ SnapshotsOK

USE JobsAssumption

\* The initial state satisfies the invariant.
LEMMA InitInv == ASSUME Init PROVE Inv
<1>1. manifest \in BOOLEAN
  BY DEF Init
<1>2. TypeOK
  BY <1>1 DEF Init, TypeOK, Missing, Jobs, NoSnapshot
<1>3. LockOK /\ SlotsOK
  BY DEF Init, LockOK, SlotsOK, NoOrphanToken, Missing, Critical
<1>4. SnapshotsOK
  BY DEF Init, SnapshotsOK, Missing, NoSnapshot
<1>5. QED
  BY <1>2, <1>3, <1>4 DEF Inv

\* A step of an administrator preserves it: inside the critical section no session is
\* locked and no other administrator is at a point that knows anything of the slots.
LEMMA AdminInv == ASSUME Inv, NEW a \in Admins, AdminStep(a) PROVE Inv'
<1> USE DEF Inv, TypeOK, LockOK, SlotsOK, SnapshotsOK, NoOrphanToken, Missing, Jobs,
            Critical, Goto, Return, slots, user
<1>1. CASE Command(a)
  BY <1>1 DEF Command
<1>2. CASE Acquire(a)
  BY <1>2 DEF Acquire, Exclusive, Shared
<1>3. CASE Check(a)
  BY <1>3 DEF Check
<1>4. CASE SetIdentity(a)
  BY <1>4 DEF SetIdentity
<1>5. CASE SetToken(a)
  BY <1>5 DEF SetToken
<1>6. CASE Rollback(a)
  BY <1>6 DEF Rollback
<1>7. CASE Publish(a)
  <2>1. manifest' \in BOOLEAN
    BY <1>7 DEF Publish
  <2>2. QED
    BY <1>7, <2>1 DEF Publish
<1>8. CASE DropToken(a)
  BY <1>8 DEF DropToken
<1>9. CASE DropKey(a)
  BY <1>9 DEF DropKey
<1>10. CASE Unpublish(a)
  <2>1. manifest' \in BOOLEAN
    BY <1>10 DEF Unpublish
  <2>2. QED
    BY <1>10, <2>1 DEF Unpublish
<1>11. CASE Killed(a)
  BY <1>11 DEF Killed
<1>12. QED
  BY <1>1, <1>2, <1>3, <1>4, <1>5, <1>6, <1>7, <1>8, <1>9, <1>10, <1>11 DEF AdminStep

\* A step of a session preserves it: it takes the lock, or a snapshot, only while no
\* administrator is in the critical section.
LEMMA SessionInv == ASSUME Inv, NEW s \in Sessions, SessionStep(s) PROVE Inv'
<1> USE DEF Inv, TypeOK, LockOK, SlotsOK, SnapshotsOK, NoOrphanToken, Missing, Jobs,
            Critical, Move, slots, admin
<1>1. CASE Open(s)
  BY <1>1 DEF Open, Exclusive
<1>2. CASE Lock(s)
  BY <1>2 DEF Lock, Exclusive
<1>3. CASE Validate(s)
  BY <1>3 DEF Validate
<1>4. CASE Release(s)
  BY <1>4 DEF Release
<1>5. CASE Quit(s)
  BY <1>5 DEF Quit
<1>6. QED
  BY <1>1, <1>2, <1>3, <1>4, <1>5 DEF SessionStep

\* The invariant holds in every reachable state.
THEOREM Invariance == Spec => []Inv
<1>1. Inv /\ UNCHANGED vars => Inv'
  BY DEF Inv, TypeOK, LockOK, SlotsOK, SnapshotsOK, NoOrphanToken, vars, slots, admin, user
<1>2. Inv /\ [Next]_vars => Inv'
  BY <1>1, AdminInv, SessionInv DEF Next
<1>3. QED
  BY InitInv, <1>2, PTL DEF Spec

\* validate_browser_host_lifecycle_token under the shared lock: a session forwards only
\* with the stored key and token.
THEOREM Authorized == Spec => []ForwardsAuthorized
<1>1. Inv => ForwardsAuthorized
  BY DEF Inv, TypeOK, SnapshotsOK, ForwardsAuthorized, Missing
<1>2. QED
  BY Invariance, <1>1, PTL

\* The order of the slot writes: provisioning never finds a token without its key.
THEOREM TokenHasKey == Spec => []NoOrphanToken
<1>1. Inv => NoOrphanToken
  BY DEF Inv, SlotsOK
<1>2. QED
  BY Invariance, <1>1, PTL

\* revoke_browser_host_authorization under the exclusive lock is complete.
THEOREM UninstallComplete == Spec => []UninstallIsComplete
<1>1. Inv => UninstallIsComplete
  BY DEF Inv, LockOK, SlotsOK, UninstallIsComplete, Shared, Critical
<1>2. QED
  BY Invariance, <1>1, PTL

\* provision_browser_host_authorization never replaces a key.
THEOREM KeyKept == Spec => IdentityKept
<1>1. Inv /\ [Next]_vars => [identity # Missing => identity' \in {Missing, identity}]_vars
  <2> SUFFICES ASSUME Inv, Next, identity # Missing PROVE identity' \in {Missing, identity}
    BY DEF vars, slots
  <2>1. ASSUME NEW a \in Admins, AdminStep(a) PROVE identity' \in {Missing, identity}
    BY <2>1 DEF Inv, SlotsOK, AdminStep, Command, Acquire, Check, SetIdentity, SetToken, Rollback,
                Publish, DropToken, DropKey, Unpublish, Killed, slots
  <2>2. ASSUME NEW s \in Sessions, SessionStep(s) PROVE identity' \in {Missing, identity}
    BY <2>2 DEF SessionStep, Open, Lock, Validate, Release, Quit, slots
  <2>3. QED
    BY <2>1, <2>2 DEF Next
<1>2. QED
  BY Invariance, <1>1, PTL DEF Spec, IdentityKept
=============================================================================
