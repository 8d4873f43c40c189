------------------------------ MODULE Submissions ------------------------------
(***************************************************************************)
(* Agent Entry Submissions (palladin-runtime/src/submission.rs): sessions  *)
(* of several processes submit an Entry, re-wrap pending submissions for a *)
(* rotated approver key, inject their own submission, or re-trust a        *)
(* re-created approver key, against one signed profile and one service.    *)
(* Each API call is a step of its own; a POST or PUT travels on the wire   *)
(* and may be served after the caller has given up.  The organization, the *)
(* service and the operator are the environment; the service is honest and *)
(* applies the contract's acceptance rules.  A key is named by the         *)
(* revision of the manifest that introduced it, a submission by the        *)
(* session that made it.                                                   *)
(***************************************************************************)
EXTENDS ApproverChain, FiniteSets

CONSTANTS
    Sessions,
    Ops,        \* what sessions do: submit, status, inject, trust
    Old,        \* a submission saved before the sessions start
    MaxChanges  \* bound: manifests published and changes of access meanwhile

ASSUME SubmissionsAssumption ==
    /\ Ops \subseteq {"submit", "status", "inject", "trust"}
    /\ Old \notin Sessions
    /\ MaxChanges \in Nat

Ids == Sessions \cup {Old}

VARIABLES
    published,  \* the organization's manifests, ascending
    epoch,      \* the Agent's access epoch at the service
    store,      \* submissions at the service
    wire,       \* POSTs and PUTs in flight
    pinned,     \* approver_trust_anchor of the signed profile
    vouched,    \* keys taken on first use or confirmed by the operator
    pc, op,     \* of each session: where it is, what it does
    pin,        \* current_approver_anchor: pinned here, or at its opening
    reply,      \* the manifests response it holds
    approver,   \* TrustedApprover
    todo,       \* status: submissions to re-wrap, with the version listed
    answer,     \* the service's answer to its POST or PUT
    rotated,    \* submit: the one retry is spent
    since,      \* epoch when the session was opened
    result,
    injected    \* inject: the epoch of the submission delivered

serviceVars == <<published, epoch, store>>
profileVars == <<pinned, vouched>>
sessionVars == <<pc, op, pin, reply, approver, todo, answer, rotated, since, result, injected>>
vars == <<serviceVars, wire, profileVars, sessionVars>>

Last(seq) == seq[Len(seq)]
MayChange == Len(published) + epoch - 2 < MaxChanges
CurrentVersion == Last(published).ver
NoReply == [ms |-> << >>, epoch |-> 0]
NoApprover == [pin |-> None, epoch |-> 0]

FirstManifest == [rev |-> 1, ver |-> 1, key |-> 1, cont |-> None]

\* build_agent_submission.
SubmissionFor(id, p, e) ==
    [id |-> id, payload |-> id, rev |-> 1, ver |-> p.ver, key |-> p.key, epoch |-> e, state |-> "pending"]

\* A fresh profile, or one whose Agent has a pending submission.
Init ==
    /\ published = <<FirstManifest>>
    /\ epoch = 1
    /\ wire = {}
    /\ \/ store = [id \in Ids |-> None] /\ pinned = None /\ vouched = {}
       \/ /\ store = [id \in Ids |-> IF id = Old THEN SubmissionFor(Old, PinOf(FirstManifest), 1) ELSE None]
          /\ pinned = PinOf(FirstManifest) /\ vouched = {1}
    /\ pc = [s \in Sessions |-> "idle"]
    /\ op = [s \in Sessions |-> "none"]
    /\ pin = [s \in Sessions |-> None]
    /\ reply = [s \in Sessions |-> NoReply]
    /\ approver = [s \in Sessions |-> NoApprover]
    /\ todo = [s \in Sessions |-> {}]
    /\ answer = [s \in Sessions |-> "none"]
    /\ rotated = [s \in Sessions |-> FALSE]
    /\ since = [s \in Sessions |-> 0]
    /\ result = [s \in Sessions |-> "none"]
    /\ injected = [s \in Sessions |-> 0]

-----------------------------------------------------------------------------
(* The organization and the service.                                        *)

\* A manifest is issued anew, the key is rotated, or re-created.
Publish(kind) ==
    LET m == Last(published)
        n == Len(published) + 1
    IN /\ MayChange
       /\ published' = Append(published,
            CASE kind = "reissue" -> [m EXCEPT !.rev = n, !.cont = None]
              [] kind = "rotate" -> [rev |-> n, ver |-> m.ver + 1, key |-> n, cont |-> m.key]
              [] kind = "rebootstrap" -> [rev |-> n, ver |-> m.ver + 1, key |-> n, cont |-> None])
       /\ UNCHANGED <<epoch, store, wire, profileVars, sessionVars>>

ChangeAccess ==
    /\ MayChange
    /\ epoch' = epoch + 1
    /\ UNCHANGED <<published, store, wire, profileVars, sessionVars>>

Decide(id) ==
    /\ store[id] # None /\ store[id].state = "pending"
    /\ store' = [store EXCEPT ![id].state = "decided"]
    /\ UNCHANGED <<published, epoch, wire, profileVars, sessionVars>>

Reply(m, a) ==
    answer' = [answer EXCEPT ![m.from] = IF pc[m.from] = m.kind THEN a ELSE @]

\* create_submission at the service, which may refuse it for its own reasons.
ServePost(m) ==
    /\ m \in wire /\ m.kind = "posted"
    /\ wire' = wire \ {m}
    /\ \/ Reply(m, "rejected") /\ UNCHANGED store
       \/ m.sub.ver # CurrentVersion /\ Reply(m, "key-rotated") /\ UNCHANGED store
       \/ /\ store[m.sub.id] = None /\ m.sub.epoch = epoch /\ m.sub.ver = CurrentVersion
          /\ store' = [store EXCEPT ![m.sub.id] = m.sub] /\ Reply(m, "accepted")
    /\ UNCHANGED <<published, epoch, profileVars, pc, op, pin, reply, approver, todo, rotated, since, result, injected>>

\* verify_rewrap, "shared by the backend and approver clients".
VerifyRewrap(stored, candidate, current) ==
    /\ candidate.rev = stored.rev + 1
    /\ candidate.ver = current /\ candidate.ver > stored.ver
    /\ candidate.payload = stored.payload /\ candidate.id = stored.id

\* rewrap_submission at the service.
ServePut(m) ==
    /\ m \in wire /\ m.kind = "put"
    /\ wire' = wire \ {m}
    /\ LET stored == store[m.sub.id]
           ok == stored.state = "pending" /\ VerifyRewrap(stored, m.sub, CurrentVersion)
       IN /\ store' = IF ok THEN [store EXCEPT ![m.sub.id] = m.sub] ELSE store
          /\ Reply(m, IF ok THEN "accepted" ELSE "rejected")
    /\ UNCHANGED <<published, epoch, profileVars, pc, op, pin, reply, approver, todo, rotated, since, result, injected>>

-----------------------------------------------------------------------------
(* The sessions.                                                            *)

Goto(s, where) == pc' = [pc EXCEPT ![s] = where]
Finish(s, r) == Goto(s, "done") /\ result' = [result EXCEPT ![s] = r]

\* A session reads the profile when it is opened.
Open(s, o) ==
    /\ pc[s] = "idle"
    /\ op' = [op EXCEPT ![s] = o]
    /\ pin' = [pin EXCEPT ![s] = pinned]
    /\ since' = [since EXCEPT ![s] = epoch]
    /\ IF o = "trust" /\ pinned = None
         THEN Finish(s, "not-pending")
         ELSE Goto(s, IF o = "status" THEN "list" ELSE "manifests") /\ UNCHANGED result
    /\ UNCHANGED <<serviceVars, wire, profileVars, reply, approver, todo, answer, rotated, injected>>

\* submission_status: the pending submissions behind the current key.
List(s) ==
    /\ pc[s] = "list"
    /\ LET behind == {[id |-> id, current |-> CurrentVersion] :
                        id \in {i \in Ids : /\ store[i] # None
                                            /\ store[i].state = "pending"
                                            /\ CurrentVersion > store[i].ver}}
       IN /\ todo' = [todo EXCEPT ![s] = behind]
          /\ IF behind = {} THEN Finish(s, "listed") ELSE Goto(s, "manifests") /\ UNCHANGED result
    /\ UNCHANGED <<serviceVars, wire, profileVars, op, pin, reply, approver, answer, rotated, since, injected>>

\* list_approver_manifests after the revision it has pinned; without a pin
\* the service chooses where its history starts.
FetchManifests(s) ==
    /\ pc[s] = "manifests"
    /\ \E from \in IF pin[s] = None THEN 1 .. Len(published) + 1 ELSE {pin[s].rev + 1} :
          reply' = [reply EXCEPT ![s] =
                       [ms |-> SubSeq(published, from, Len(published)), epoch |-> epoch]]
    /\ Goto(s, "pin")
    /\ UNCHANGED <<serviceVars, wire, profileVars, op, pin, approver, todo, answer, rotated, since, result, injected>>

ManifestsFail(s) ==
    /\ pc[s] = "manifests"
    /\ Finish(s, "refused")
    /\ UNCHANGED <<serviceVars, wire, profileVars, op, pin, reply, approver, todo, answer, rotated, since, injected>>

\* Mutant: the pin of the profile is not compared with the session's.
PersistUnchecked(s, next) ==
    /\ pinned' = next
    /\ pin' = [pin EXCEPT ![s] = next]

\* persist_approver_anchor under the transaction lock: nothing to do, or the
\* profile still has what this session verified against.
Persist(s, next) ==
    /\ pinned \in {next, pin[s]}
    /\ pinned' = next
    /\ pin' = [pin EXCEPT ![s] = next]

\* What follows trusted_approver in each operation.
AfterTrust(s, next) ==
    /\ approver' = [approver EXCEPT ![s] = [pin |-> next, epoch |-> reply[s].epoch]]
    /\ IF op[s] = "submit" /\ rotated[s] /\ next.ver <= approver[s].pin.ver
         THEN Finish(s, "refused")
         ELSE /\ Goto(s, CASE op[s] = "submit" -> IF rotated[s] THEN "post" ELSE "target" [] op[s] = "status" -> "rewrap" [] op[s] = "inject" -> "get")
              /\ UNCHANGED result

\* trusted_approver once the manifests are there.
TrustedApprover(s) ==
    /\ pc[s] = "pin" /\ op[s] # "trust"
    /\ LET v == VerifyChain(reply[s].ms, pin[s])
       IN \/ /\ v.why # "ok" \/ v.pin = None
             /\ Finish(s, "refused")
             /\ UNCHANGED <<profileVars, pin, approver>>
          \/ /\ v.why = "ok" /\ v.pin # None /\ v.pin = pin[s]
             /\ AfterTrust(s, v.pin)
             /\ UNCHANGED <<profileVars, pin>>
          \/ /\ v.why = "ok" /\ v.pin # None /\ v.pin # pin[s]
             /\ Persist(s, v.pin)
             /\ vouched' = IF pinned = None THEN vouched \cup {reply[s].ms[1].key} ELSE vouched
             /\ AfterTrust(s, v.pin)
          \/ /\ v.why = "ok" /\ v.pin # pin[s] /\ pinned \notin {v.pin, pin[s]}
             /\ Finish(s, "error")
             /\ UNCHANGED <<profileVars, pin, approver>>
    /\ UNCHANGED <<serviceVars, wire, op, reply, todo, answer, rotated, since, injected>>

\* trust_approvers with the key the operator confirmed.
TrustApprovers(s, key) ==
    /\ pc[s] = "pin" /\ op[s] = "trust"
    /\ LET v == Reintroduce(reply[s].ms, pin[s], key)
       IN \/ /\ v.why = "ok"
             /\ Persist(s, v.pin)
             /\ vouched' = vouched \cup {key}
             /\ Finish(s, "trusted")
          \/ /\ v.why # "ok"
             /\ Finish(s, "not-pending")
             /\ UNCHANGED <<profileVars, pin>>
          \/ /\ v.why = "ok" /\ pinned \notin {v.pin, pin[s]}
             /\ Finish(s, "error")
             /\ UNCHANGED <<profileVars, pin>>
    /\ UNCHANGED <<serviceVars, wire, op, reply, approver, todo, answer, rotated, since, injected>>

\* update_target, the password and the checks of the content: nothing sent.
Target(s) ==
    /\ pc[s] = "target"
    /\ \/ Goto(s, "post") /\ UNCHANGED result
       \/ Finish(s, "refused")
    /\ UNCHANGED <<serviceVars, wire, profileVars, op, pin, reply, approver, todo, answer, rotated, since, injected>>

Send(s, sub, kind) ==
    /\ wire' = wire \cup {[from |-> s, kind |-> kind, sub |-> sub]}
    /\ answer' = [answer EXCEPT ![s] = "none"]
    /\ Goto(s, kind)

\* build and the POST, with the same id on the retry.
Post(s) ==
    /\ pc[s] = "post"
    /\ Send(s, SubmissionFor(s, approver[s].pin, approver[s].epoch), "posted")
    /\ UNCHANGED <<serviceVars, profileVars, op, pin, reply, approver, todo, rotated, since, result, injected>>

Posted(s) ==
    /\ pc[s] = "posted"
    /\ \/ answer[s] = "accepted" /\ Finish(s, "saved") /\ UNCHANGED rotated
       \/ /\ answer[s] = "key-rotated" /\ ~rotated[s]
          /\ rotated' = [rotated EXCEPT ![s] = TRUE]
          /\ Goto(s, "manifests") /\ UNCHANGED result
       \/ /\ answer[s] = "rejected" \/ (answer[s] = "key-rotated" /\ rotated[s])
          /\ Finish(s, "refused") /\ UNCHANGED rotated
    /\ UNCHANGED <<serviceVars, wire, profileVars, op, pin, reply, approver, todo, answer, since, injected>>

\* Mutant: a lost answer is reported as a refusal.
PostLostRefused(s) ==
    /\ pc[s] = "posted"
    /\ Finish(s, "refused")
    /\ UNCHANGED <<serviceVars, wire, profileVars, op, pin, reply, approver, todo, answer, rotated, since, injected>>

\* No usable answer: the POST may or may not have been or yet be served.
PostLost(s) ==
    /\ pc[s] = "posted"
    /\ Goto(s, "reconcile")
    /\ UNCHANGED <<serviceVars, wire, profileVars, op, pin, reply, approver, todo, answer, rotated, since, result, injected>>

\* reconcile: the id is looked for; the caller gets it either way.
Reconcile(s) ==
    /\ pc[s] = "reconcile"
    /\ \/ store[s] # None /\ Finish(s, "saved")
       \/ Finish(s, "unconfirmed")
    /\ UNCHANGED <<serviceVars, wire, profileVars, op, pin, reply, approver, todo, answer, rotated, since, injected>>

\* The stored submission with its key wrapped anew.
Rewrapped(stored, p) ==
    [stored EXCEPT !.rev = @ + 1, !.ver = p.ver, !.key = p.key]

MayRewrap(s, item) ==
    LET stored == store[item.id] IN
    /\ item.current = approver[s].pin.ver
    /\ stored.state = "pending"
    /\ approver[s].pin.ver > stored.ver
    /\ stored.epoch = approver[s].epoch

\* rewrap of one listed submission: its source is read and the PUT sent, or
\* it is reported as failed.
Rewrap(s, item) ==
    /\ pc[s] = "rewrap" /\ item \in todo[s]
    /\ todo' = [todo EXCEPT ![s] = @ \ {item}]
    /\ IF MayRewrap(s, item)
         THEN Send(s, Rewrapped(store[item.id], approver[s].pin), "put")
         ELSE UNCHANGED <<wire, answer, pc>>
    /\ UNCHANGED <<serviceVars, profileVars, op, pin, reply, approver, rotated, since, result, injected>>

\* The PUT is answered, or its answer is lost; the next submission follows.
PutEnds(s) ==
    /\ pc[s] = "put"
    /\ Goto(s, "rewrap")
    /\ UNCHANGED <<serviceVars, wire, profileVars, op, pin, reply, approver, todo, answer, rotated, since, result, injected>>

StatusDone(s) ==
    /\ pc[s] = "rewrap" /\ todo[s] = {}
    /\ Finish(s, "listed")
    /\ UNCHANGED <<serviceVars, wire, profileVars, op, pin, reply, approver, todo, answer, rotated, since, injected>>

\* Mutant: the epoch of the submission is not compared.
UsableAnyEpoch(s, id) == store[id] # None /\ store[id].state = "pending"

\* deliver_submission_for_inject: pending at the service, made under the
\* access epoch that was read in this operation.
Usable(s, id) ==
    /\ store[id] # None /\ store[id].state = "pending"
    /\ store[id].epoch = approver[s].epoch

GetForInject(s, id) ==
    /\ pc[s] = "get"
    /\ IF Usable(s, id)
         THEN Finish(s, "injected") /\ injected' = [injected EXCEPT ![s] = store[id].epoch]
         ELSE Finish(s, "refused") /\ UNCHANGED injected
    /\ UNCHANGED <<serviceVars, wire, profileVars, op, pin, reply, approver, todo, answer, rotated, since>>

\* The lease ends at an authorization check, or the process does.
Abandon(s) ==
    /\ pc[s] \notin {"idle", "done"}
    /\ Finish(s, "aborted")
    /\ UNCHANGED <<serviceVars, wire, profileVars, op, pin, reply, approver, todo, answer, rotated, since, injected>>

-----------------------------------------------------------------------------
Next ==
    \/ \E kind \in {"reissue", "rotate", "rebootstrap"} : Publish(kind)
    \/ ChangeAccess
    \/ \E id \in Ids : Decide(id)
    \/ \E m \in wire : ServePost(m) \/ ServePut(m)
    \/ \E s \in Sessions :
         \/ \E o \in Ops : Open(s, o)
         \/ List(s) \/ FetchManifests(s) \/ ManifestsFail(s) \/ TrustedApprover(s)
         \/ \E i \in 1 .. Len(published) : TrustApprovers(s, published[i].key)
         \/ Target(s) \/ Post(s) \/ Posted(s) \/ PostLost(s) \/ Reconcile(s)
         \/ (\E item \in todo[s] : Rewrap(s, item)) \/ PutEnds(s) \/ StatusDone(s)
         \/ \E id \in Ids : GetForInject(s, id)
         \/ Abandon(s)

Spec == Init /\ [][Next]_vars

-----------------------------------------------------------------------------
Revs == 1 .. MaxChanges + 1
Pins == [rev : Revs, ver : Revs, key : Revs]

TypeOK ==
    /\ epoch \in Revs
    /\ pinned \in Pins \cup {None}
    /\ vouched \subseteq Revs
    /\ \A s \in Sessions :
         /\ pin[s] \in Pins \cup {None}
         /\ pc[s] \in {"post", "rewrap", "get"} => approver[s].pin \in Pins
         /\ approver[s].epoch \in Revs \cup {0}
    /\ \A id \in Ids : store[id] # None => store[id].id = id /\ store[id].rev \in Revs

\* The keys that may be trusted: vouched for, or rotated to from one that is.
TrustedKeys ==
    LET trusted[k \in 1 .. Len(published)] ==
          \/ k \in vouched
          \/ published[k].cont # None /\ trusted[published[k].cont]
    IN {k \in 1 .. Len(published) : trusted[k]}

(***************************************************************************)
(* A secret leaves the Agent only wrapped for a key that was taken on      *)
(* first use, confirmed by the operator, or reached from such a key by     *)
(* rotations with continuity; never for a re-created key.                  *)
(***************************************************************************)
OnlyTrustedKeys ==
    /\ \A m \in wire : m.sub.key \in TrustedKeys
    /\ \A id \in Ids : store[id] # None => store[id].key \in TrustedKeys
    /\ pinned # None => pinned.key \in TrustedKeys

(***************************************************************************)
(* The pin in the signed profile only ever moves to a later manifest,      *)
(* whatever sessions of other processes verified meanwhile.                *)
(***************************************************************************)
PinAdvances ==
    [][pinned' = pinned \/ pinned = None \/ pinned'.rev > pinned.rev]_vars

(***************************************************************************)
(* What the caller of a submission is told is what the service holds: a    *)
(* saved submission is there, and one refused without an id is not there,  *)
(* and will not be when a delayed request arrives.                         *)
(***************************************************************************)
ToldTheTruth ==
    \A s \in Sessions :
        op[s] = "submit" =>
            /\ result[s] = "saved" => store[s] # None
            /\ result[s] = "refused" => store[s] = None /\ \A m \in wire : m.sub.id # s

(***************************************************************************)
(* "A POST is sent once": another POST of the same id leaves only after    *)
(* the one before it was refused, with nothing saved and nothing in flight.*)
(***************************************************************************)
SentOnce ==
    [][\A m \in wire' \ wire :
         m.kind = "posted" => store[m.sub.id] = None /\ \A n \in wire : n.sub.id # m.sub.id]_vars

(***************************************************************************)
(* A saved submission changes only by a decision, or by exactly the next   *)
(* revision with the same payload and epoch for a later key, also when two *)
(* status commands re-wrap it at once.                                     *)
(***************************************************************************)
RewrapExact ==
    [][\A id \in Ids : (store[id] # None /\ store'[id] # store[id]) =>
          \/ store'[id] = [store[id] EXCEPT !.state = "decided"]
          \/ /\ store'[id].rev = store[id].rev + 1
             /\ store'[id].ver > store[id].ver
             /\ store'[id].payload = store[id].payload /\ store'[id].epoch = store[id].epoch]_vars

(***************************************************************************)
(* A submission is injected only under an access epoch that was current    *)
(* during the operation: none made before an earlier change of access.     *)
(***************************************************************************)
InjectFresh ==
    \A s \in Sessions : injected[s] # 0 => injected[s] >= since[s]

(***************************************************************************)
(* The submission id is "Present whenever an ID was chosen, including an   *)
(* unconfirmed attempt the operator can check."  The results that carry it *)
(* are saved and unconfirmed; an id that a POST carried was chosen.         *)
(***************************************************************************)
IdReported ==
    \A s \in Sessions : (op[s] = "submit" /\ answer[s] # "none") => result[s] # "refused"
=============================================================================
