----------------------------- MODULE InjectFlow -----------------------------
(***************************************************************************)
(* One injection: the command that owns the credential (palladin-inject),  *)
(* the native host that relays it (palladin-cli, native_browser), and the  *)
(* extension with its page, which are external.  A live flow fills a form, *)
(* learns of the next one and goes on; a deferred form is filled first and *)
(* clicked only after a second authorization.  A flow with a stored map    *)
(* fills one form.                                                         *)
(*                                                                         *)
(* Both ends keep a LiveLoginFlow.  Requests and replies alternate on each *)
(* channel, so a channel is one slot; a command that gives up leaves what  *)
(* it has sent in the slot.                                                *)
(***************************************************************************)
EXTENDS Integers, Sequences, FiniteSets

CONSTANTS
    MaxTime,      \* where the clock stops
    OpTimeout,    \* OPERATION_TIMEOUT
    FlowTimeout,  \* LIVE_FLOW_TIMEOUT
    Conforming    \* the extensions considered: TRUE for one that reports what it does

ASSUME TimeAssumption == MaxTime \in Nat /\ OpTimeout \in Nat /\ FlowTimeout \in Nat
ASSUME ConformingAssumption == Conforming \subseteq BOOLEAN

VARIABLES
    clock,
    live,        \* the flow discovers its forms
    conforming,  \* the extension reports what it does
    grantEnds,   \* the end of the operation lease and of the grant
    cancelled,   \* the cancellation token
    revoked,     \* the host authorization was removed
    guards,      \* who holds the shared lifecycle lock
    caller,      \* what the command does
    result,      \* how it ended
    cflow,       \* its LiveLoginFlow
    confirmed,   \* forms it was told were submitted
    deadline,    \* the end of its live flow
    until,       \* when it stops waiting for a reply
    host,        \* what the host does
    hflow,       \* its LiveLoginFlow
    chain,       \* chain_not_after
    relayed,     \* the request it has relayed
    waits,       \* when it stops waiting
    up, down,    \* command to host and back
    req, rep,    \* host to extension and back
    given,       \* the forms whose values were relayed
    commits,     \* the transactions whose submit was relayed
    filled,      \* the transaction whose fill waits for its submit in the page
    clicks       \* the transactions the page submitted

setting == <<live, conforming, grantEnds>>
command == <<caller, result, cflow, confirmed, deadline, until>>
relay == <<host, hflow, chain, relayed, waits>>
page == <<given, commits, filled, clicks>>
vars == <<clock, setting, cancelled, revoked, guards, command, relay, up, down, req, rep, page>>

-----------------------------------------------------------------------------
(* Forms and LiveLoginFlow. *)

Fields == {"username", "password", "totp"}

\* validate_live_form: what a discovered form may ask for, at once or deferred.
LiveForms ==
    [fields : {{"username"}, {"password"}, {"username", "password"}}, deferred : BOOLEAN]
        \union {[fields |-> {"totp"}, deferred |-> FALSE]}

\* A stored map or a fallback definition.
MapForms == {[fields |-> {"username", "password"}, deferred |-> FALSE]}

\* is_deferred
IsDeferred(form) == form.deferred

MaxLiveSteps == 8

NewFlow(form) == [form |-> form, submitted |-> {}, steps |-> 0]

\* repeats_submitted_stage
Repeats(flow, form) ==
    LET newPassword == "password" \in form.fields \ flow.submitted
    IN  \E f \in form.fields : f \in flow.submitted /\ ~(f = "username" /\ newPassword)

\* submitted
MaySubmit(flow) == flow.steps < MaxLiveSteps /\ ~Repeats(flow, flow.form)
Submitted(flow) ==
    [flow EXCEPT !.submitted = @ \union flow.form.fields, !.steps = @ + 1]

\* A continuation: another form, at the origin of the first or elsewhere, or none.
NoForm == [ready |-> FALSE]
Continuations == {NoForm} \union [ready : {TRUE}, form : LiveForms, home : BOOLEAN]

\* Mutant: a form that asks for what was submitted is taken.
MayAdvanceAgain(flow, next) == next.home /\ flow.steps < MaxLiveSteps

\* advance, for a Ready continuation
MayAdvance(flow, next) ==
    /\ flow.steps < MaxLiveSteps
    /\ next.home
    /\ ~Repeats(flow, next.form)

Advance(flow, next) == IF next.ready THEN [flow EXCEPT !.form = next.form] ELSE flow

\* What both ends do with "injected": submitted() and advance() succeed.
Accepts(flow, next) ==
    MaySubmit(flow) /\ (next.ready => MayAdvance(Submitted(flow), next))

-----------------------------------------------------------------------------
(* Messages. *)

None == [kind |-> "none"]
Inject(tx, form, notAfter) == [kind |-> "inject", tx |-> tx, form |-> form, notAfter |-> notAfter]
Submit(tx, notAfter) == [kind |-> "submit", tx |-> tx, notAfter |-> notAfter]
CancelSubmit(tx) == [kind |-> "cancel", tx |-> tx]
Reply(outcome, next) == [kind |-> "reply", outcome |-> outcome, next |-> next]

Least(a, b) == IF a <= b THEN a ELSE b

Outcomes == {"injected", "submit-ready", "rejected"}

\* validate_inject_result: only "injected" comes with a continuation.
ValidResult(m) == m.outcome # "injected" => ~m.next.ready

-----------------------------------------------------------------------------
(* The command. *)

End(why) ==
    /\ caller' = "ended"
    /\ result' = why
    /\ guards' = guards \ {"caller"}
    /\ UNCHANGED <<cflow, confirmed, deadline, until>>

\* browser_inject_forward_guard_until succeeds: lease, grant, live deadline, lifecycle.
Authorized == ~revoked /\ clock < grantEnds /\ (live => clock < deadline)

NotAfter == IF live THEN Least(grantEnds, deadline) ELSE grantEnds

\* The transaction of the current round; the code draws a random one.
Tx == confirmed + 1

\* connect_prepared and what follows up to the loop: nothing that carries a value is
\* sent, so an attempt that fails is tried again or ends the command.
Prepare ==
    /\ caller = "prepare"
    /\ \/ /\ ~revoked
          /\ \E form \in IF live THEN LiveForms ELSE MapForms :
                 /\ cflow' = NewFlow(form) /\ hflow' = NewFlow(form)
          /\ caller' = "compose"
          /\ deadline' = clock + FlowTimeout
          /\ host' = "await" /\ waits' = MaxTime
          /\ UNCHANGED <<result, confirmed, until, guards, chain, relayed>>
       \/ End("failed") /\ UNCHANGED relay
    /\ UNCHANGED <<clock, setting, cancelled, revoked, up, down, req, rep, page>>

\* Send a request under a fresh guard and wait for its reply.
Send(m, pc) ==
    /\ up' = m
    /\ caller' = pc
    /\ guards' = guards \union {"caller"}
    /\ until' = Least(clock + OpTimeout, NotAfter)
    /\ UNCHANGED <<result, cflow, confirmed, deadline>>

\* The head of the loop in inject_extension, up to send_inject.  The discovery of the
\* user name may fail, which is a refusal too.
Compose ==
    /\ caller = "compose"
    /\ \/ cancelled /\ End("cancelled") /\ UNCHANGED up
       \/ ~cancelled /\ End("refused") /\ UNCHANGED up
       \/ ~cancelled /\ Authorized /\ Send(Inject(Tx, cflow.form, NotAfter), "sent")
    /\ UNCHANGED <<clock, setting, cancelled, revoked, relay, down, req, rep, page>>

\* "injected" was accepted: submitted(), advance(), and the next round or the end.
Confirm(next) ==
    IF ~live
    THEN /\ confirmed' = confirmed + 1
         /\ caller' = "ended" /\ result' = "done"
         /\ UNCHANGED cflow
    ELSE IF ~Accepts(cflow, next)
    THEN caller' = "ended" /\ result' = "invalid" /\ UNCHANGED <<cflow, confirmed>>
    ELSE /\ confirmed' = confirmed + 1
         /\ cflow' = Advance(Submitted(cflow), next)
         /\ IF next.ready THEN caller' = "compose" /\ UNCHANGED result
            ELSE caller' = "ended" /\ result' = "done"

\* send_inject returns.
Receive ==
    /\ caller = "sent"
    /\ down # None
    /\ down' = None
    /\ guards' = guards \ {"caller"}
    /\ CASE down.outcome = "submit-ready" /\ IsDeferred(cflow.form) ->
              caller' = "ready" /\ UNCHANGED <<result, cflow, confirmed>>
         [] down.outcome = "injected" /\ ~IsDeferred(cflow.form) -> Confirm(down.next)
         [] down.outcome = "rejected" ->
              caller' = "ended" /\ result' = "rejected" /\ UNCHANGED <<cflow, confirmed>>
         [] OTHER -> caller' = "ended" /\ result' = "invalid" /\ UNCHANGED <<cflow, confirmed>>
    /\ UNCHANGED <<clock, setting, cancelled, revoked, deadline, until, relay, up, req, rep, page>>

\* authorize_commit; what is refused is cancelled in the page.
Authorize ==
    /\ caller = "ready"
    /\ \/ cancelled /\ up' = CancelSubmit(Tx) /\ End("cancelled")
       \/ ~Authorized /\ up' = CancelSubmit(Tx) /\ End("refused")
       \/ ~cancelled /\ Authorized /\ Send(Submit(Tx, NotAfter), "committing")
    /\ UNCHANGED <<clock, setting, cancelled, revoked, relay, down, req, rep, page>>

\* send_inject returns for the submit.
ReceiveCommit ==
    /\ caller = "committing"
    /\ down # None
    /\ down' = None
    /\ guards' = guards \ {"caller"}
    /\ CASE down.outcome = "injected" -> Confirm(down.next)
         [] down.outcome = "rejected" ->
              caller' = "ended" /\ result' = "rejected" /\ UNCHANGED <<cflow, confirmed>>
         [] OTHER -> caller' = "ended" /\ result' = "invalid" /\ UNCHANGED <<cflow, confirmed>>
    /\ UNCHANGED <<clock, setting, cancelled, revoked, deadline, until, relay, up, req, rep, page>>


\* send_inject fails: no reply in time, or the host closed the connection.
GiveUp ==
    /\ caller \in {"sent", "committing"}
    /\ down = None
    /\ clock >= until \/ host = "ended"
    /\ End("uncertain")
    /\ UNCHANGED <<clock, setting, cancelled, revoked, relay, up, down, req, rep, page>>

\* The process is killed.
Die ==
    /\ caller # "ended"
    /\ End("killed")
    /\ UNCHANGED <<clock, setting, cancelled, revoked, relay, up, down, req, rep, page>>

-----------------------------------------------------------------------------
(* The host. *)

\* serve_inject_flow_with returns; the guard goes and the connection closes.
EndHost ==
    /\ host' = "ended"
    /\ guards' = guards \ {"host"}
    /\ UNCHANGED <<hflow, chain, relayed, waits>>

\* Mutant: the authorization is not checked again when the request is relayed.
HostTakeUnchecked ==
    /\ host = "await"
    /\ up.kind = "inject"
    /\ up' = None
    /\ host' = "relay"
    /\ guards' = guards \union {"host"}
    /\ relayed' = up
    /\ waits' = clock + OpTimeout
    /\ req' = relayed'
    /\ given' = Append(given, up.form)
    /\ UNCHANGED <<clock, setting, cancelled, revoked, command, hflow, chain, down, rep, commits,
                   filled, clicks>>

\* An inject.forward: validated, bounded by the chain, guarded, checked again, relayed.
HostTake ==
    /\ host = "await"
    /\ up.kind = "inject"
    /\ up' = None
    /\ LET ends == IF ~live THEN MaxTime
                   ELSE IF hflow.steps = 0 THEN Least(up.notAfter, clock + FlowTimeout) ELSE chain
           notAfter == Least(up.notAfter, ends)
       IN  IF /\ ~revoked
              /\ clock < notAfter
              /\ live => up.form = hflow.form
           THEN /\ host' = "relay"
                /\ guards' = guards \union {"host"}
                /\ chain' = ends
                /\ relayed' = Inject(up.tx, up.form, notAfter)
                /\ waits' = Least(clock + OpTimeout, notAfter)
                /\ req' = relayed'
                /\ given' = Append(given, up.form)
                /\ UNCHANGED hflow
           ELSE EndHost /\ UNCHANGED <<req, given>>
    /\ UNCHANGED <<clock, setting, cancelled, revoked, command, down, rep, commits, filled, clicks>>

\* A reply is passed on; after "injected" the host's own flow moves as the command's does.
PassOn(m) ==
    LET more == m.outcome = "injected" /\ live /\ m.next.ready
    IN  IF /\ m.outcome = "injected"
           /\ IF live THEN ~Accepts(hflow, m.next) ELSE m.next.ready
        THEN EndHost /\ UNCHANGED down
        ELSE /\ down' = m
             /\ host' = IF more THEN "await" ELSE "ended"
             /\ guards' = guards \ {"host"}
             /\ hflow' = IF m.outcome = "injected" /\ live
                         THEN Advance(Submitted(hflow), m.next) ELSE hflow
             /\ waits' = relayed.notAfter
             /\ UNCHANGED <<chain, relayed>>

\* The reply to an inject.  "A deferred fill cannot bypass its explicit commit phase."
HostReply ==
    /\ host = "relay"
    /\ rep # None
    /\ rep' = None
    /\ IF ~ValidResult(rep) THEN EndHost /\ UNCHANGED down
       ELSE IF rep.outcome = "submit-ready"
       THEN IF IsDeferred(relayed.form)
            THEN /\ down' = rep /\ host' = "pending" /\ guards' = guards \ {"host"}
                 /\ waits' = Least(clock + OpTimeout, relayed.notAfter)
                 /\ UNCHANGED <<hflow, chain, relayed>>
            ELSE EndHost /\ UNCHANGED down
       ELSE IF rep.outcome = "injected" /\ IsDeferred(relayed.form)
            THEN EndHost /\ UNCHANGED down
            ELSE PassOn(rep)
    /\ UNCHANGED <<clock, setting, cancelled, revoked, command, up, req, page>>

\* deferred::finish_with: exactly one command decides the pending fill.
HostPending ==
    /\ host = "pending"
    /\ up.kind \in {"submit", "cancel"}
    /\ up' = None
    /\ IF up.kind = "cancel"
       THEN EndHost /\ req' = up /\ UNCHANGED commits
       ELSE LET notAfter == Least(up.notAfter, relayed.notAfter)
            IN  IF up.tx = relayed.tx /\ clock < notAfter /\ ~revoked
                THEN /\ host' = "commit"
                     /\ guards' = guards \union {"host"}
                     /\ relayed' = [relayed EXCEPT !.notAfter = notAfter]
                     /\ waits' = Least(clock + OpTimeout, notAfter)
                     /\ req' = Submit(up.tx, notAfter)
                     /\ commits' = Append(commits, up.tx)
                     /\ UNCHANGED <<hflow, chain>>
                ELSE EndHost /\ UNCHANGED <<req, commits>>
    /\ UNCHANGED <<clock, setting, cancelled, revoked, command, down, rep, given, filled, clicks>>

\* The reply to a submit.
HostCommitReply ==
    /\ host = "commit"
    /\ rep # None
    /\ rep' = None
    /\ IF rep.outcome = "submit-ready" \/ ~ValidResult(rep) THEN EndHost /\ UNCHANGED down
       ELSE PassOn(rep)
    /\ UNCHANGED <<clock, setting, cancelled, revoked, command, up, req, page>>

\* A wait of the host ends: the command has gone, or the time is over.
HostGiveUp ==
    /\ \/ host \in {"await", "pending"} /\ up = None
       \/ host \in {"relay", "commit"}
    /\ caller = "ended" \/ clock >= waits
    /\ EndHost
    /\ UNCHANGED <<clock, setting, cancelled, revoked, command, up, down, req, rep, page>>

-----------------------------------------------------------------------------
(* The extension and its page. *)

\* Fill a form: an ordinary one is submitted at once, a deferred one is left pending.
Fill ==
    /\ req.kind = "inject"
    /\ rep = None
    /\ req' = None
    /\ \/ rep' = Reply("rejected", NoForm) /\ UNCHANGED <<filled, clicks>>
       \/ /\ req.form.deferred
          /\ filled' = req.tx
          /\ rep' = Reply("submit-ready", NoForm)
          /\ UNCHANGED clicks
       \/ /\ ~req.form.deferred
          /\ clicks' = Append(clicks, req.tx)
          /\ \E next \in IF live THEN Continuations ELSE {NoForm} :
                 rep' = Reply("injected", next)
          /\ UNCHANGED filled
    /\ UNCHANGED <<clock, setting, cancelled, revoked, guards, command, relay, up, down, given, commits>>

\* Submit a pending form, before it expires.
Click ==
    /\ req.kind = "submit"
    /\ rep = None
    /\ req' = None
    /\ \/ rep' = Reply("rejected", NoForm) /\ UNCHANGED clicks
       \/ /\ filled = req.tx
          /\ clock < req.notAfter
          /\ clicks' = Append(clicks, req.tx)
          /\ \E next \in Continuations : rep' = Reply("injected", next)
    /\ filled' = 0
    /\ UNCHANGED <<clock, setting, cancelled, revoked, guards, command, relay, up, down, given, commits>>

Discard ==
    /\ req.kind = "cancel"
    /\ req' = None
    /\ filled' = 0
    /\ UNCHANGED <<clock, setting, cancelled, revoked, guards, command, relay, up, down, rep, given,
                   commits, clicks>>

\* An extension that does not conform answers anything and does nothing.
Stray ==
    /\ ~conforming
    /\ req # None /\ rep = None
    /\ req' = None
    /\ \E o \in Outcomes, next \in Continuations : rep' = Reply(o, next)
    /\ UNCHANGED <<clock, setting, cancelled, revoked, guards, command, relay, up, down, page>>

-----------------------------------------------------------------------------
(* The surroundings. *)

Tick ==
    /\ clock < MaxTime
    /\ clock' = clock + 1
    /\ UNCHANGED <<setting, cancelled, revoked, guards, command, relay, up, down, req, rep, page>>

Cancel ==
    /\ ~cancelled /\ caller # "ended"
    /\ cancelled' = TRUE
    /\ UNCHANGED <<clock, setting, revoked, guards, command, relay, up, down, req, rep, page>>

\* The host authorization is removed, under the exclusive lock.
Revoke ==
    /\ ~revoked /\ guards = {} /\ caller # "ended"
    /\ revoked' = TRUE
    /\ UNCHANGED <<clock, setting, cancelled, guards, command, relay, up, down, req, rep, page>>

-----------------------------------------------------------------------------

Init ==
    /\ clock = 0
    /\ live \in BOOLEAN
    /\ conforming \in Conforming
    /\ grantEnds \in {MaxTime - 1, MaxTime}
    /\ cancelled = FALSE /\ revoked = FALSE /\ guards = {}
    /\ caller = "prepare" /\ result = "none" /\ cflow = NewFlow(NoForm)
    /\ confirmed = 0 /\ deadline = 0 /\ until = 0
    /\ host = "idle" /\ hflow = NewFlow(NoForm) /\ chain = 0 /\ relayed = None /\ waits = 0
    /\ up = None /\ down = None /\ req = None /\ rep = None
    /\ given = <<>> /\ commits = <<>> /\ filled = 0 /\ clicks = <<>>

CallerStep == Prepare \/ Compose \/ Receive \/ Authorize \/ ReceiveCommit \/ GiveUp
HostStep == HostTake \/ HostReply \/ HostPending \/ HostCommitReply \/ HostGiveUp
ExtensionStep == Fill \/ Click \/ Discard \/ Stray

Next == CallerStep \/ Die \/ HostStep \/ ExtensionStep \/ Tick \/ Cancel \/ Revoke

\* Time passes, and the command and the host are scheduled; nothing is assumed of the
\* extension or of the user.
Spec == Init /\ [][Next]_vars /\ WF_vars(Tick) /\ WF_vars(CallerStep) /\ WF_vars(HostStep)

-----------------------------------------------------------------------------
(* Properties. *)

Results == {"none", "failed", "cancelled", "refused", "rejected", "invalid", "uncertain", "done",
            "killed"}

TypeOK ==
    /\ clock \in 0 .. MaxTime
    /\ live \in BOOLEAN /\ cancelled \in BOOLEAN /\ revoked \in BOOLEAN
    /\ guards \subseteq {"caller", "host"}
    /\ caller \in {"prepare", "compose", "sent", "ready", "committing", "ended"}
    /\ result \in Results /\ (result = "none") = (caller # "ended")
    /\ host \in {"idle", "await", "relay", "pending", "commit", "ended"}
    /\ up.kind \in {"none", "inject", "submit", "cancel"}
    /\ {down.kind, rep.kind} \subseteq {"none", "reply"}
    /\ filled \in 0 .. MaxLiveSteps

\* repeats_submitted_stage: "prevent fresh selector handles from replaying an already
\* submitted stage".  No value is given to the page twice, whatever forms the page shows,
\* except a user name that a first password form asks for again.
NoFieldTwice ==
    \A i, j \in 1 .. Len(given) : i < j =>
        LET again == given[i].fields \intersect given[j].fields
        IN  /\ again \subseteq {"username"}
            /\ again # {} =>
                  /\ "password" \in given[j].fields
                  /\ \A k \in 1 .. j - 1 : "password" \notin given[k].fields

\* MAX_LIVE_STEPS is never what ends a flow: there are at most three forms to submit.
ThreeForms == cflow.steps <= 3 /\ hflow.steps <= 3

\* Every value and every click is relayed within the lease, the grant, the live deadline
\* and the host authorization, however long it waited on the way.
RelayedInTime ==
    [][(given' # given \/ commits' # commits) =>
          ~revoked /\ clock < grantEnds /\ (live => clock < deadline)]_vars

\* A fill is committed once, in its order, and only a deferred one.
CommittedOnce ==
    /\ \A i, j \in 1 .. Len(commits) : i < j => commits[i] < commits[j]
    /\ \A i \in 1 .. Len(commits) : commits[i] <= Len(given) /\ given[commits[i]].deferred

\* The report is true: when the command says how it ended, the page has submitted what
\* was confirmed and, unless the command says that it does not know, nothing else will be.
Definite == {"cancelled", "refused", "rejected", "done", "failed"}

\* A deferred form is reported as submitted only after its commit was relayed.
CommitNotBypassed ==
    \A i \in 1 .. confirmed : given[i].deferred => \E j \in 1 .. Len(commits) : commits[j] = i

\* Between two rounds the command and the host expect the same form.
FlowsAgree == (caller = "compose" /\ host = "await") => cflow = hflow

\* The command and the host end, with or without the extension.
Terminates == <>(caller = "ended" /\ host \in {"idle", "ended"})
=============================================================================
