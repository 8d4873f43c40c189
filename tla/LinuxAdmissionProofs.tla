------------------------- MODULE LinuxAdmissionProofs -------------------------
(***************************************************************************)
(* Proofs about LinuxAdmission for any number of Agent accounts,           *)
(* connections, authorizations and deaths of the helper.                   *)
(*                                                                         *)
(* A session keeps the principal it has read and never looks at the record *)
(* again.  The argument is about principals that are over: their record    *)
(* says revoked and no session holds them.  Such a principal stays over,   *)
(* because a session takes its principal from an active record and an      *)
(* authorization issues a new one; and the helper has made the principal   *)
(* over by the time it leaves the group, that is before it touches a name  *)
(* or reports anything.                                                    *)
(***************************************************************************)
EXTENDS LinuxAdmission, TLAPS

Statuses == {"none", "active", "revoked"}
Serving == {"authenticated", "running"}
AdminSteps == {"idle", "join", "restart", "publish", "record", "stop", "part", "detach", "delete", "cache",
               "lock", "start"}
Purging == {"detach", "delete", "cache", "lock", "start"}

Types ==
    /\ record \in [Uids -> [status : Statuses, principal : 0..MaxPrincipals]]
    /\ sessions \in [Slots -> [at : {"free", "accepted"} \cup Serving, uid : Uids \cup {0},
                               principal : 0..MaxPrincipals]]
    /\ names \in [Principals -> SUBSET Paths]
    /\ admin \in [at : AdminSteps, uid : Uids \cup {0}, action : {"none", "authorize", "revoke", "purge"}]
    /\ issued \in 0..MaxPrincipals
    /\ told \in [revoked : SUBSET Principals, purged : SUBSET Principals]

\* A session that is served holds the principal of its account's record.
SessionsOK ==
    \A s \in Slots :
        /\ sessions[s].at \notin Serving => sessions[s].principal = 0
        /\ sessions[s].at # "free" => sessions[s].uid \in Uids
        /\ sessions[s].at \in Serving =>
               /\ record[sessions[s].uid].status # "none"
               /\ sessions[s].principal = record[sessions[s].uid].principal

\* A principal is issued once, to one account.
RecordsOK ==
    /\ \A u \in Uids : record[u].principal <= issued /\ (record[u].status # "none" => record[u].principal # 0)
    /\ \A u, v \in Uids : record[u].principal = record[v].principal /\ record[u].principal # 0 => u = v
    /\ admin.action = "authorize" => issued # 0 /\ \A u \in Uids : record[u].principal # issued

\* Principals that are revoked, that nobody holds and that nobody gets.
Over ==
    {p \in Principals :
        /\ p <= issued /\ (admin.action = "authorize" => p # issued)
        /\ \A u \in Uids : record[u].principal = p => record[u].status = "revoked"
        /\ \A s \in Slots : sessions[s].principal # p}

\* What each step of the helper knows.
AdminOK ==
    /\ admin.at = "idle" => admin.action = "none"
    /\ admin.at # "idle" => admin.uid \in Uids
    /\ admin.at \in {"join", "publish"} => admin.action = "authorize"
    /\ admin.at = "record" => admin.action \in {"revoke", "purge"} /\ record[admin.uid].status # "none"
    /\ admin.at = "restart" => admin.action \in {"authorize", "revoke"}
    /\ admin.at \in Purging \cup {"stop"} => admin.action = "purge"
    /\ admin.at = "part" => admin.action \in {"revoke", "purge"}
    /\ admin.at \in {"stop", "restart"} /\ admin.action # "authorize" => record[admin.uid].status = "revoked"
    /\ admin.at \in Purging \cup {"part"} => Purged \in Over
    /\ admin.at = "delete" => "active" \notin names[Purged]
    /\ admin.at = "cache" => names[Purged] \subseteq {"cache", "lock"}
    /\ admin.at = "lock" => names[Purged] \subseteq {"lock"}
    /\ admin.at = "start" => names[Purged] = {}

\* What was reported is over, and so is a principal whose namespace was detached.
NamesOK ==
    /\ told.revoked \subseteq Over
    /\ \A p \in told.purged : p \in told.revoked /\ names[p] = {}
    /\ \A p \in Principals : "detached" \in names[p] => "active" \notin names[p] /\ p \in Over

Inv == Types /\ SessionsOK /\ RecordsOK /\ AdminOK /\ NamesOK

\* The initial state satisfies the invariant.
LEMMA InitInv == ASSUME MaxPrincipals \in Nat, Init PROVE Inv
<1> USE DEF Init, Free, Resting, Principals, Serving
<1>1. Types
  BY DEF Types, Statuses, AdminSteps, Paths
<1>2. SessionsOK /\ RecordsOK
  BY DEF SessionsOK, RecordsOK
<1>3. AdminOK /\ NamesOK
  BY DEF AdminOK, NamesOK, Purging
<1>4. QED
  BY <1>1, <1>2, <1>3 DEF Inv

\* A step of a session preserves it: it takes its principal from an active record, and
\* writes to the namespace of a principal it holds, which is therefore not over.
LEMMA SessionInv == ASSUME MaxPrincipals \in Nat, Inv, NEW s \in Slots,
                           \/ \E u \in Uids : Accept(s, u)
                           \/ Authenticate(s) \/ Prepare(s) \/ Work(s) \/ Leave(s)
                    PROVE  Inv'
<1> USE DEF Inv, SessionOnly, Serving
<1>1. CASE \E u \in Uids : Accept(s, u)
  <2>1. Types'
    BY <1>1 DEF Accept, Becomes, Types
  <2>2. SessionsOK' /\ RecordsOK'
    BY <1>1 DEF Accept, Becomes, Types, SessionsOK, RecordsOK
  <2>3. Over \subseteq Over'
    BY <1>1 DEF Accept, Becomes, Types, Over, Principals
  <2>4. AdminOK' /\ NamesOK'
    BY <1>1, <2>3 DEF Accept, AdminOK, NamesOK, Purged
  <2>5. QED
    BY <2>1, <2>2, <2>4
<1>2. CASE Authenticate(s)
  <2>1. Types'
    BY <1>2 DEF Authenticate, Becomes, Types, Free, SessionsOK
  <2>2. SessionsOK' /\ RecordsOK'
    <3>1. RecordsOK'
      BY <1>2 DEF Authenticate, RecordsOK
    <3>2. SessionsOK'
      BY <1>2 DEF Authenticate, Becomes, Types, SessionsOK, Free
    <3>3. QED
      BY <3>1, <3>2
  <2>3. Over \subseteq Over'
    <3>1. SUFFICES ASSUME NEW p \in Over PROVE \A t \in Slots : sessions'[t].principal # p
      BY <1>2 DEF Authenticate, Over
    <3>2. p # 0 /\ \A u \in Uids : record[u].principal = p => record[u].status = "revoked"
      BY DEF Over, Principals
    <3>3. \A t \in Slots : sessions[t].principal # p
      BY DEF Over
    <3>4. sessions[s].uid \in Uids
      BY <1>2 DEF Authenticate, SessionsOK
    <3>5. QED
      BY <1>2, <3>2, <3>3, <3>4 DEF Authenticate, Becomes, Types, Free
  <2>4. AdminOK' /\ NamesOK'
    BY <1>2, <2>3 DEF Authenticate, AdminOK, NamesOK, Purged
  <2>5. QED
    BY <2>1, <2>2, <2>4
<1>3. CASE Prepare(s)
  <2> DEFINE p == sessions[s].principal
  <2>1. p \in Principals /\ p \notin Over
    <3>1. sessions[s].uid \in Uids /\ p = record[sessions[s].uid].principal /\ p # 0
      BY <1>3 DEF Prepare, SessionsOK, RecordsOK
    <3>2. QED
      BY <3>1 DEF Types, Over, Principals
  <2>2. Types'
    BY <1>3, <2>1 DEF Prepare, Becomes, Types, Paths
  <2>3. SessionsOK' /\ RecordsOK'
    BY <1>3 DEF Prepare, Becomes, Types, SessionsOK, RecordsOK
  <2>4. Over \subseteq Over'
    BY <1>3 DEF Prepare, Becomes, Types, Over, Principals
  <2>5. \A q \in Over : names'[q] = names[q]
    BY <1>3, <2>1 DEF Prepare, Types
  <2>6. \A q \in Principals : "detached" \in names'[q] => "detached" \in names[q]
    BY <1>3, <2>1 DEF Prepare, Types
  <2>7. AdminOK' /\ NamesOK'
    BY <1>3, <2>4, <2>5, <2>6 DEF Prepare, AdminOK, NamesOK, Purged, Purging
  <2>8. QED
    BY <2>2, <2>3, <2>7
<1>4. CASE Work(s)
  <2> DEFINE p == sessions[s].principal
  <2>1. p \in Principals /\ p \notin Over
    <3>1. sessions[s].uid \in Uids /\ p = record[sessions[s].uid].principal /\ p # 0
      BY <1>4 DEF Work, SessionsOK, RecordsOK
    <3>2. QED
      BY <3>1 DEF Types, Over, Principals
  <2>2. Types'
    BY <1>4, <2>1 DEF Work, Types, Paths
  <2>3. SessionsOK' /\ RecordsOK'
    BY <1>4 DEF Work, Types, SessionsOK, RecordsOK
  <2>4. Over \subseteq Over'
    BY <1>4 DEF Work, Types, Over, Principals
  <2>5. \A q \in Over : names'[q] = names[q]
    BY <1>4, <2>1 DEF Work, Types
  <2>6. \A q \in Principals : "detached" \in names'[q] => "detached" \in names[q]
    BY <1>4, <2>1 DEF Work, Types
  <2>7. AdminOK' /\ NamesOK'
    BY <1>4, <2>4, <2>5, <2>6 DEF Work, AdminOK, NamesOK, Purged, Purging
  <2>8. QED
    BY <2>2, <2>3, <2>7
<1>5. CASE Leave(s)
  <2>1. Types'
    BY <1>5 DEF Leave, Types, Free
  <2>2. SessionsOK' /\ RecordsOK'
    BY <1>5 DEF Leave, Types, SessionsOK, RecordsOK, Free
  <2>3. Over \subseteq Over'
    BY <1>5 DEF Leave, Types, Over, Principals, Free
  <2>4. AdminOK' /\ NamesOK'
    BY <1>5, <2>3 DEF Leave, AdminOK, NamesOK, Purged
  <2>5. QED
    BY <2>1, <2>2, <2>4
<1>6. QED
  BY <1>1, <1>2, <1>3, <1>4, <1>5

\* The steps of authorize: the principal it publishes is new, and no session of the account
\* is left that could have read another.
LEMMA AuthorizeInv == ASSUME MaxPrincipals \in Nat, Inv,
                             Join \/ Restart \/ Publish \/ RollBack
                      PROVE  Inv'
<1> USE DEF Inv, At, Step, Returns, Resting, Serving
<1>1. CASE Join
  <2>1. Types'
    BY <1>1 DEF Join, Types, AdminSteps
  <2>2. SessionsOK' /\ RecordsOK'
    BY <1>1 DEF Join, Types, SessionsOK, RecordsOK
  <2>3. Over \subseteq Over'
    BY <1>1 DEF Join, Types, Over
  <2>4. AdminOK' /\ NamesOK'
    BY <1>1, <2>3 DEF Join, Types, AdminOK, NamesOK, Purged, Purging
  <2>5. QED
    BY <2>1, <2>2, <2>4
<1>2. CASE Restart
  <2>1. Types'
    BY <1>2 DEF Restart, Halted, Free, Types, AdminSteps
  <2>2. SessionsOK' /\ RecordsOK'
    BY <1>2 DEF Restart, Halted, Free, Types, SessionsOK, RecordsOK
  <2>3. Over \subseteq Over'
    BY <1>2 DEF Restart, Halted, Free, Types, Over, Principals
  <2>4. admin.action # "authorize" => Purged' \in Over'
    <3>1. SUFFICES ASSUME admin.action # "authorize" PROVE Purged' \in Over'
      OBVIOUS
    <3>2. admin.uid \in Uids /\ record[admin.uid].status = "revoked" /\ admin'.uid = admin.uid
      BY <1>2, <3>1 DEF Restart, AdminOK, Types
    <3>3. Purged' = record[admin.uid].principal /\ Purged' \in Principals /\ Purged' <= issued
      BY <1>2, <3>2 DEF Restart, Purged, Types, RecordsOK, Principals
    <3>4. \A u \in Uids : record[u].principal = Purged' => record[u].status = "revoked"
      BY <3>2, <3>3 DEF RecordsOK, Principals
    <3>5. QED
      BY <1>2, <3>1, <3>3, <3>4 DEF Restart, Halted, Free, Over, Principals, Types
  <2>5. AdminOK' /\ NamesOK'
    BY <1>2, <2>3, <2>4 DEF Restart, Types, AdminOK, NamesOK, Purging
  <2>6. QED
    BY <2>1, <2>2, <2>5
<1>3. CASE Publish
  <2> DEFINE u == admin.uid
  <2>1. u \in Uids /\ issued \in Principals /\ admin.action = "authorize"
    BY <1>3 DEF Publish, AdminOK, RecordsOK, Types, Principals
  <2>2. Types'
    BY <1>3, <2>1 DEF Publish, Types, Statuses, AdminSteps, Principals
  <2>3. \A v \in Uids : record'[v] = IF v = u THEN [status |-> "active", principal |-> issued] ELSE record[v]
    BY <1>3, <2>1 DEF Publish, Types
  <2>4. SessionsOK'
    BY <1>3, <2>1, <2>3 DEF Publish, Served, SessionsOK, Types
  <2>5. RecordsOK'
    BY <1>3, <2>1, <2>3 DEF Publish, RecordsOK, Types, Principals
  <2>6. Over \subseteq Over'
    BY <1>3, <2>1, <2>3 DEF Publish, Over
  <2>7. AdminOK' /\ NamesOK'
    BY <1>3, <2>6 DEF Publish, AdminOK, NamesOK, Purging
  <2>8. QED
    BY <2>2, <2>4, <2>5, <2>7
<1>4. CASE RollBack
  <2>1. Types'
    BY <1>4 DEF RollBack, Types, AdminSteps
  <2>2. SessionsOK' /\ RecordsOK'
    BY <1>4 DEF RollBack, SessionsOK, RecordsOK
  <2>3. Over \subseteq Over'
    BY <1>4 DEF RollBack, Over
  <2>4. AdminOK' /\ NamesOK'
    BY <1>4, <2>3 DEF RollBack, AdminOK, NamesOK, Purging
  <2>5. QED
    BY <2>1, <2>2, <2>4
<1>5. QED
  BY <1>1, <1>2, <1>3, <1>4

\* A command begins: authorize issues a principal that no record, no session and no report
\* knows.
LEMMA BeginInv == ASSUME MaxPrincipals \in Nat, Inv, NEW u \in Uids,
                         NEW action \in {"authorize", "revoke", "purge"}, Begin(u, action)
                  PROVE  Inv'
<1> USE DEF Inv, Resting, Serving
<1>1. Types'
  <2>1. issued' \in 0..MaxPrincipals
    <3>1. (action = "authorize" => issued < MaxPrincipals) /\ issued' = IF action = "authorize" THEN issued + 1 ELSE issued
      BY DEF Begin
    <3>2. issued \in 0..MaxPrincipals
      BY DEF Types
    <3>3. QED
      BY <3>1, <3>2
  <2>2. admin' \in [at : AdminSteps, uid : Uids \cup {0}, action : {"none", "authorize", "revoke", "purge"}]
    BY DEF Begin, AdminSteps
  <2>3. QED
    BY <2>1, <2>2 DEF Begin, Types
<1>2. SessionsOK'
  BY DEF Begin, SessionsOK
<1>3. RecordsOK'
  BY DEF Begin, RecordsOK, Types
<1>4. Over \subseteq Over'
  BY DEF Begin, Over, Principals, Types
<1>5. AdminOK' /\ NamesOK'
  BY <1>4 DEF Begin, AdminOK, NamesOK, Purging
<1>6. QED
  BY <1>1, <1>2, <1>3, <1>5

\* The record, the sessions and the group: by the time the account leaves the group its
\* principal is over.
LEMMA RevokeInv == ASSUME MaxPrincipals \in Nat, Inv, Record \/ Stop \/ Part PROVE Inv'
<1> USE DEF Inv, At, Step, Returns, Resting, Serving
<1>1. CASE Record
  <2> DEFINE u == admin.uid
  <2>1. u \in Uids
    BY <1>1 DEF Record, AdminOK
  <2>2. \A v \in Uids : /\ record'[v].principal = record[v].principal
                        /\ record'[v].status = IF v = u THEN "revoked" ELSE record[v].status
    BY <1>1, <2>1 DEF Record, Types
  <2>3. Types'
    BY <1>1, <2>1 DEF Record, Types, Statuses, AdminSteps
  <2>4. SessionsOK' /\ RecordsOK'
    BY <1>1, <2>1, <2>2 DEF Record, Types, SessionsOK, RecordsOK, AdminOK
  <2>5. Over \subseteq Over'
    BY <1>1, <2>2 DEF Record, Types, Over
  <2>6. AdminOK' /\ NamesOK'
    BY <1>1, <2>1, <2>2, <2>5 DEF Record, Types, AdminOK, NamesOK, Purging
  <2>7. QED
    BY <2>3, <2>4, <2>6
<1>2. CASE Stop
  <2>1. Types'
    BY <1>2 DEF Stop, Halted, Free, Types, AdminSteps
  <2>2. SessionsOK' /\ RecordsOK'
    BY <1>2 DEF Stop, Halted, Free, Types, SessionsOK, RecordsOK
  <2>3. Over \subseteq Over'
    BY <1>2 DEF Stop, Halted, Free, Types, Over, Principals
  <2>4. Purged' \in Over'
    <3>1. admin.uid \in Uids /\ record[admin.uid].status = "revoked" /\ admin'.uid = admin.uid
          /\ admin.action = "purge"
      BY <1>2 DEF Stop, AdminOK, Types
    <3>2. Purged' = record[admin.uid].principal /\ Purged' \in Principals /\ Purged' <= issued
      BY <1>2, <3>1 DEF Stop, Purged, Types, RecordsOK, Principals
    <3>3. \A u \in Uids : record[u].principal = Purged' => record[u].status = "revoked"
      BY <3>1, <3>2 DEF RecordsOK, Principals
    <3>4. QED
      BY <1>2, <3>1, <3>2, <3>3 DEF Stop, Halted, Free, Over, Principals, Types
  <2>5. AdminOK' /\ NamesOK'
    BY <1>2, <2>3, <2>4 DEF Stop, Types, AdminOK, NamesOK, Purging
  <2>6. QED
    BY <2>1, <2>2, <2>5
<1>3. CASE Part
  <2>1. Purged \in Over /\ Purged \in Principals /\ admin.uid \in Uids
    BY <1>3 DEF Part, AdminOK, Over
  <2>2. Types'
    BY <1>3, <2>1 DEF Part, Purged, Types, AdminSteps
  <2>3. SessionsOK' /\ RecordsOK'
    BY <1>3 DEF Part, Types, SessionsOK, RecordsOK
  <2>4. Over \subseteq Over'
    BY <1>3 DEF Part, Types, Over
  <2>5. told'.revoked \subseteq Over' /\ told'.purged = told.purged /\ told.revoked \subseteq told'.revoked
    BY <1>3, <2>1, <2>4 DEF Part, Purged, Types, NamesOK
  <2>6. NamesOK'
    BY <1>3, <2>4, <2>5 DEF Part, NamesOK
  <2>7. AdminOK'
    BY <1>3, <2>1, <2>4 DEF Part, Types, AdminOK, Purged, Purging
  <2>8. QED
    BY <2>2, <2>3, <2>6, <2>7
<1>4. QED
  BY <1>1, <1>2, <1>3

\* The purge of the four paths of a principal that is over: nobody writes to them meanwhile.
LEMMA PurgeInv == ASSUME MaxPrincipals \in Nat, Inv, Detach \/ Delete \/ DropCache \/ DropLock \/ Start
                  PROVE  Inv'
<1> USE DEF Inv, At, Step, Returns, Resting, Serving
<1>1. Purged \in Over /\ Purged \in Principals /\ admin.uid \in Uids /\ admin.action = "purge"
  BY DEF Detach, Delete, DropCache, DropLock, Start, AdminOK, Over, Purging
<1>2. ASSUME Detach \/ Delete \/ DropCache \/ DropLock
      PROVE  /\ UNCHANGED <<record, sessions, issued, told>>
             /\ Purged' = Purged /\ admin'.uid = admin.uid /\ admin'.action = "purge"
             /\ SessionsOK' /\ RecordsOK' /\ Over \subseteq Over'
  <2>1. /\ UNCHANGED <<record, sessions, issued, told>>
        /\ admin'.uid = admin.uid /\ admin'.action = admin.action
    BY <1>2 DEF Detach, Delete, DropCache, DropLock, Remove, Types
  <2>2. QED
    BY <1>1, <2>1 DEF Purged, SessionsOK, RecordsOK, Over
<1>3. CASE Detach
  <2>1. \A p \in Principals : names'[p] = IF p = Purged /\ "active" \in names[p]
                                          THEN (names[p] \ {"active"}) \cup {"detached"} ELSE names[p]
    BY <1>1, <1>3 DEF Detach, Types
  <2>2. Types'
    BY <1>1, <1>3 DEF Detach, Types, AdminSteps, Paths
  <2>3. AdminOK'
    BY <1>1, <1>2, <1>3, <2>1 DEF Detach, AdminOK, Types, Purging
  <2>4. NamesOK'
    BY <1>1, <1>2, <1>3, <2>1 DEF Detach, NamesOK, Types
  <2>5. QED
    BY <1>2, <1>3, <2>2, <2>3, <2>4
<1>4. CASE Delete \/ DropCache \/ DropLock
  <2>1. \A p \in Principals : names'[p] \subseteq names[p]
    BY <1>1, <1>4 DEF Delete, DropCache, DropLock, Remove, Types
  <2>2. Types'
    BY <1>1, <1>4 DEF Delete, DropCache, DropLock, Remove, Types, AdminSteps
  <2>3. NamesOK'
    BY <1>2, <1>4, <2>1 DEF NamesOK, Types
  <2>4. names[Purged] \subseteq Paths
    BY <1>1 DEF Types
  <2>5. /\ admin'.at = "cache" => names'[Purged] \subseteq {"cache", "lock"}
        /\ admin'.at = "lock" => names'[Purged] \subseteq {"lock"}
        /\ admin'.at = "start" => names'[Purged] = {}
        /\ admin'.at \in {"cache", "lock", "start"}
    BY <1>1, <1>4, <2>4 DEF Delete, DropCache, DropLock, Remove, Types, AdminOK, Paths
  <2>6. AdminOK'
    BY <1>1, <1>2, <1>4, <2>5 DEF AdminOK, Purging
  <2>7. QED
    BY <1>2, <1>4, <2>2, <2>3, <2>6
<1>5. CASE Start
  <2>1. Types'
    BY <1>1, <1>5 DEF Start, Types, AdminSteps
  <2>2. SessionsOK' /\ RecordsOK'
    BY <1>5 DEF Start, SessionsOK, RecordsOK
  <2>3. Over \subseteq Over'
    BY <1>5 DEF Start, Over
  <2>4. AdminOK'
    BY <1>5 DEF Start, AdminOK, Purging
  <2>5. NamesOK'
    BY <1>1, <1>5, <2>3 DEF Start, NamesOK, AdminOK
  <2>6. QED
    BY <2>1, <2>2, <2>4, <2>5
<1>6. QED
  BY <1>3, <1>4, <1>5

\* Whatever ends the helper, or the machine, leaves a principal that is over as it is.
LEMMA FailureInv == ASSUME MaxPrincipals \in Nat, Inv, PurgeFails \/ Die \/ Reboot PROVE Inv'
<1> USE DEF Inv, Returns, Resting, Serving
<1>1. CASE PurgeFails
  <2>1. Types'
    BY <1>1 DEF PurgeFails, Types, AdminSteps
  <2>2. SessionsOK' /\ RecordsOK'
    BY <1>1 DEF PurgeFails, Types, SessionsOK, RecordsOK
  <2>3. Over \subseteq Over'
    BY <1>1 DEF PurgeFails, Types, Over, Principals
  <2>4. AdminOK' /\ NamesOK'
    BY <1>1, <2>3 DEF PurgeFails, Types, AdminOK, NamesOK, Purging
  <2>5. QED
    BY <2>1, <2>2, <2>4
<1>2. CASE Die
  <2>1. Types'
    BY <1>2 DEF Die, Types, AdminSteps
  <2>2. SessionsOK' /\ RecordsOK'
    BY <1>2 DEF Die, Types, SessionsOK, RecordsOK
  <2>3. Over \subseteq Over'
    BY <1>2 DEF Die, Types, Over, Principals
  <2>4. AdminOK' /\ NamesOK'
    BY <1>2, <2>3 DEF Die, Types, AdminOK, NamesOK, Purging
  <2>5. QED
    BY <2>1, <2>2, <2>4
<1>3. CASE Reboot
  <2>1. Types'
    BY <1>3 DEF Reboot, Types, AdminSteps, Halted, Free
  <2>2. SessionsOK' /\ RecordsOK'
    BY <1>3 DEF Reboot, Types, SessionsOK, RecordsOK, Halted, Free
  <2>3. Over \subseteq Over'
    BY <1>3 DEF Reboot, Types, Over, Principals, Halted, Free
  <2>4. AdminOK' /\ NamesOK'
    BY <1>3, <2>3 DEF Reboot, Types, AdminOK, NamesOK, Purging
  <2>5. QED
    BY <2>1, <2>2, <2>4
<1>4. QED
  BY <1>1, <1>2, <1>3

\* The invariant holds in every reachable state.
THEOREM AdmissionInvariant == ASSUME MaxPrincipals \in Nat PROVE Spec => []Inv
<1>1. Init => Inv
  BY InitInv
<1>2. Inv /\ [Next]_vars => Inv'
  <2>1. ASSUME Inv, Next PROVE Inv'
    BY <2>1, SessionInv, AuthorizeInv, BeginInv, RevokeInv, PurgeInv, FailureInv DEF Next
  <2>2. ASSUME Inv, UNCHANGED vars PROVE Inv'
    BY <2>2 DEF vars, Inv, Types, SessionsOK, RecordsOK, Over, AdminOK, NamesOK, Purged
  <2>3. QED
    BY <2>1, <2>2
<1>3. QED
  BY <1>1, <1>2, PTL DEF Spec

\* Once revoke or revoke-purge has reported an account's principal as revoked, no session
\* holds it and none ever will (authenticate_peer, the helper's revoke), however many
\* sessions were admitted before and wherever a helper was killed.
THEOREM RevokedStaysOver == ASSUME MaxPrincipals \in Nat PROVE Spec => []RevokedIsOver
<1>1. Inv => RevokedIsOver
  BY DEF Inv, NamesOK, Over, RevokedIsOver
<1>2. QED
  BY <1>1, AdmissionInvariant, PTL

\* A principal that was reported purged has no name left and gets none again
\* (purge_principal_namespace).
THEOREM PurgedStaysGone == ASSUME MaxPrincipals \in Nat PROVE Spec => []PurgedIsGone
<1>1. Inv => PurgedIsGone
  BY DEF Inv, NamesOK, PurgedIsGone
<1>2. QED
  BY <1>1, AdmissionInvariant, PTL

\* No purge meets a namespace beside its detached copy, which it would refuse.
THEOREM PurgeNeverStuck == ASSUME MaxPrincipals \in Nat PROVE Spec => []PurgeIsNeverStuck
<1>1. Inv => PurgeIsNeverStuck
  BY DEF Inv, NamesOK, PurgeIsNeverStuck
<1>2. QED
  BY <1>1, AdmissionInvariant, PTL

=============================================================================
