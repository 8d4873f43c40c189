------------------------ MODULE OperationLeaseProofs ------------------------
(***************************************************************************)
(* Safety of the lease protocol for any number of committers, revokers and *)
(* commits.  The inductive invariant ties the atomic word to what the      *)
(* holder of the guard is doing: that tie is what each compare-exchange    *)
(* relies on and what no single property states.                           *)
(***************************************************************************)
EXTENDS OperationLease, TLAPS

\* What the word may be while a committer holds the guard, by its step.
WordMatchesHolder ==
    \A c \in Committers :
        /\ cpc[c] \in {"recheck", "save", "sealCheck", "sealCas", "drop"}
              => commitState \in {"PREPARING", "REVOKE_PENDING"}
        /\ cpc[c] \in {"mark", "dropSealed"} => commitState = "SEALED"
        /\ cpc[c] = "dropPending" => commitState = "REVOKE_PENDING"

SealHasHolder ==
    commitState = "SEALED" => \E c \in Committers : cpc[c] \in {"mark", "dropSealed"}

ReturnedMeansCancelled == \A r \in Revokers : rpc[r] = "done" => cancelled

CasIntends == \A r \in Revokers : rpc[r] = "cas" => seen[r] \in {"ACTIVE", "PREPARING"}

LateIsIdle == \A c \in late : cpc[c] = "idle" /\ c \notin marker

IInv ==
    /\ TypeOK
    /\ GuardExclusive
    /\ WordMatchesHolder
    /\ SealHasHolder
    /\ ReturnedMeansCancelled
    /\ CasIntends
    /\ LateIsIdle

LEMMA InitIInv == Init => IInv
<1> SUFFICES ASSUME Init PROVE IInv
  OBVIOUS
<1>1. TypeOK
  <2>1. started \in [Committers -> 0 .. MaxCommits]
    BY MaxCommitsAssumption DEF Init
  <2> QED BY <2>1, Zenon DEF Init, TypeOK, States, CommitterSteps, RevokerSteps
<1>2. GuardExclusive /\ WordMatchesHolder /\ SealHasHolder
  BY DEF Init, GuardExclusive, Holds, HoldingSteps, WordMatchesHolder, SealHasHolder
<1>3. ReturnedMeansCancelled /\ CasIntends /\ LateIsIdle
  BY DEF Init, ReturnedMeansCancelled, CasIntends, LateIsIdle
<1> QED BY <1>1, <1>2, <1>3 DEF IInv

LEMMA BeginPreserves ==
  ASSUME IInv, NEW c \in Committers, Begin(c)
  PROVE  IInv'
<1> USE MaxCommitsAssumption
    DEF IInv, TypeOK, States, CommitterSteps, RevokerSteps, GuardExclusive, Holds,
        HoldingSteps, WordMatchesHolder, SealHasHolder, ReturnedMeansCancelled,
        CasIntends, LateIsIdle, Goto, EnsureActive, RevokeReturned
<1>1. CASE BeginCheck(c)
  BY <1>1 DEF BeginCheck
<1>2. CASE BeginCas(c)
  BY <1>2 DEF BeginCas
<1>3. CASE BeginRecheck(c)
  BY <1>3 DEF BeginRecheck
<1> QED BY <1>1, <1>2, <1>3 DEF Begin

LEMMA FinishPreserves ==
  ASSUME IInv, NEW c \in Committers, Finish(c)
  PROVE  IInv'
<1> USE DEF IInv, TypeOK, States, CommitterSteps, RevokerSteps, GuardExclusive, Holds,
        HoldingSteps, WordMatchesHolder, SealHasHolder, ReturnedMeansCancelled,
        CasIntends, LateIsIdle, Goto, EnsureActive
<1>1. CASE SaveJournal(c)
  BY <1>1 DEF SaveJournal
<1>2. CASE SealCheck(c)
  BY <1>2 DEF SealCheck
<1>3. CASE SealCas(c)
  BY <1>3 DEF SealCas
<1>4. CASE WriteMarker(c)
  BY <1>4 DEF WriteMarker
<1>5. CASE DropSealed(c)
  BY <1>5 DEF DropSealed
<1>6. CASE DropUnsealed(c)
  BY <1>6 DEF DropUnsealed
<1>7. CASE DropPending(c)
  BY <1>7 DEF DropPending
<1> QED BY <1>1, <1>2, <1>3, <1>4, <1>5, <1>6, <1>7 DEF Finish

LEMMA RevokePreserves ==
  ASSUME IInv, NEW r \in Revokers, RevokeCall(r) \/ RevokeStep(r)
  PROVE  IInv'
<1> USE DEF IInv, TypeOK, States, CommitterSteps, RevokerSteps, GuardExclusive, Holds,
        HoldingSteps, WordMatchesHolder, SealHasHolder, ReturnedMeansCancelled,
        CasIntends, LateIsIdle, Enter
<1>1. CASE RevokeCall(r)
  BY <1>1 DEF RevokeCall
<1>2. CASE RevokeLoad(r)
  BY <1>2 DEF RevokeLoad
<1>3. CASE RevokeCas(r)
  BY <1>3 DEF RevokeCas
<1>4. CASE RevokeCancel(r)
  BY <1>4 DEF RevokeCancel
<1> QED BY <1>1, <1>2, <1>3, <1>4 DEF RevokeStep

LEMMA NextPreserves == IInv /\ [Next]_vars => IInv'
<1> SUFFICES ASSUME IInv, [Next]_vars PROVE IInv'
  OBVIOUS
<1>1. CASE Expire
  BY <1>1 DEF Expire, IInv, TypeOK, GuardExclusive, Holds, WordMatchesHolder, SealHasHolder,
              ReturnedMeansCancelled, CasIntends, LateIsIdle
<1>2. CASE UNCHANGED vars
  BY <1>2 DEF vars, IInv, TypeOK, GuardExclusive, Holds, WordMatchesHolder, SealHasHolder,
              ReturnedMeansCancelled, CasIntends, LateIsIdle
<1> QED BY <1>1, <1>2, BeginPreserves, FinishPreserves, RevokePreserves DEF Next

\* The inductive invariant holds of every behaviour of the lease.
THEOREM Invariance == Spec => []IInv
  BY InitIInv, NextPreserves, PTL DEF Spec

\* Every variable of the lease keeps its type.
THEOREM TypeCorrect == Spec => []TypeOK
<1>1. IInv => TypeOK
  BY DEF IInv
<1> QED BY <1>1, Invariance, PTL

\* begin_commit admits one guard at a time, for any number of committing
\* threads and any timing of drops and revocations.
THEOREM Exclusive == Spec => []GuardExclusive
<1>1. IInv => GuardExclusive
  BY DEF IInv
<1> QED BY <1>1, Invariance, PTL

\* The word reads SEALED exactly while a guard is between its seal and its drop.
THEOREM SealedHeld == Spec => []SealedIsHeld
<1>1. IInv => SealedIsHeld
  BY DEF IInv, SealedIsHeld, WordMatchesHolder, SealHasHolder
<1> QED BY <1>1, Invariance, PTL

\* No commit begun after a revoke() returned writes its transition marker.
THEOREM LateNeverCommitsHolds == Spec => []LateNeverCommits
<1>1. IInv => LateNeverCommits
  BY DEF IInv, LateNeverCommits, LateIsIdle
<1> QED BY <1>1, Invariance, PTL

\* A revocation that reached the word is never lost.
THEOREM Sticks == Spec => RevocationSticks
<1>1. IInv /\ [Next]_vars => [ReachedByRevoke => ReachedByRevoke']_vars
  <2> SUFFICES ASSUME IInv, Next, ReachedByRevoke PROVE ReachedByRevoke'
    BY DEF ReachedByRevoke, vars
  <2> USE DEF IInv, WordMatchesHolder, CasIntends, ReachedByRevoke, Goto, Enter
  <2>1. ASSUME NEW c \in Committers, Begin(c) PROVE ReachedByRevoke'
    BY <2>1 DEF Begin, BeginCheck, BeginCas, BeginRecheck
  <2>2. ASSUME NEW c \in Committers, Finish(c) PROVE ReachedByRevoke'
    BY <2>2 DEF Finish, SaveJournal, SealCheck, SealCas, WriteMarker, DropSealed,
                DropUnsealed, DropPending
  <2>3. ASSUME NEW r \in Revokers, RevokeCall(r) \/ RevokeStep(r) PROVE ReachedByRevoke'
    BY <2>3 DEF RevokeCall, RevokeStep, RevokeLoad, RevokeCas, RevokeCancel
  <2>4. CASE Expire
    BY <2>4 DEF Expire
  <2> QED BY <2>1, <2>2, <2>3, <2>4 DEF Next
<1> QED BY <1>1, Invariance, PTL DEF Spec, RevocationSticks
=============================================================================
