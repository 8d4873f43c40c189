----------------------------- MODULE DiscoverySync -----------------------------
(***************************************************************************)
(* The local discovery index of the Agent runtime and the signed anchors   *)
(* it is committed with.  A runtime process (an MCP server, or one CLI     *)
(* invocation) holds one in-memory LocalDiscoveryIndex behind a mutex.  A  *)
(* tool call opens a session, which keeps a SNAPSHOT of the profile's      *)
(* configuration for its whole life; search (and the username lookup of    *)
(* inject) then loads the committed cache, lists the vault manifests,      *)
(* clones the index, applies snapshot and delta pages to the clone,        *)
(* commits anchors and cache in one compare-and-swap against the snapshot, *)
(* and only then swaps the clone in.  Get and inject commit the anchors    *)
(* alone before they open a credential.                                    *)
(*                                                                         *)
(* One vault per profile.  A vault is a log of changes; the revision of an *)
(* entry's head is the position of the change that produced it.  The       *)
(* manifest revision and the VDK version are one number, `man'.  The       *)
(* commit itself is one step: the journal that makes it so is modelled in  *)
(* ProfileOperations.                                                      *)
(***************************************************************************)
EXTENDS Integers, Sequences, FiniteSets

CONSTANTS
    Procs,        \* runtime processes of one OS user
    Profiles,     \* profile identities (with their registered Agent)
    Entries,      \* entries of a vault
    Calls,        \* tool calls; each runs once
    Kinds,        \* what calls do: subset of {"search", "get", "inject"}
    MaxChanges,   \* bound: changes at the service, of all vaults together
    MaxAttempts,  \* MAX_SYNC_STATE_CHANGED_ATTEMPTS (3 in the code)
    Lagging,      \* the service may answer from an older state of the vault
    None          \* no process, profile or identity

ASSUME DiscoveryAssumption ==
    /\ Kinds \subseteq {"search", "get", "inject"}
    /\ MaxChanges \in Nat /\ MaxAttempts \in Nat \ {0}
    /\ Lagging \in BOOLEAN
    /\ None \notin Procs \union Profiles

VARIABLES
    log,      \* service: per profile, the changes of its vault
    man,      \* service: per profile, the current manifest revision
    access,   \* service: per profile, the vault is in the Agent's manifest list
    changes,  \* service: how often any vault was changed
    durable,  \* per profile, the committed configuration: anchor, cache generation and content
    live,     \* per process, the in-memory index
    call      \* per call, its session and progress

service == <<log, man, access, changes>>
vars == <<log, man, access, changes, durable, live, call>>

-----------------------------------------------------------------------------
(* LocalDiscoveryIndex.  ent[e] is the revision of the searchable entry, 0  *)
(* for none; chk[e] and liv[e] are its revision checkpoint (0 for none);    *)
(* vdk = 0: vault unknown; applied = -1: no delta cursor.                   *)

Index ==
    [owner : Profiles \union {None}, ent : [Entries -> 0..MaxChanges],
     chk : [Entries -> 0..MaxChanges], liv : [Entries -> BOOLEAN],
     vdk : 0..MaxChanges + 1, applied : -1..MaxChanges]

Scoped(f) ==
    [owner |-> f, ent |-> [e \in Entries |-> 0], chk |-> [e \in Entries |-> 0],
     liv |-> [e \in Entries |-> FALSE], vdk |-> 0, applied |-> -1]

Empty == Scoped(None)

ScopeToIdentity(x, f) == IF x.owner = f THEN x ELSE Scoped(f)

\* A vault under another VDK version starts again, its checkpoints included.
PrepareVault(x, v) == IF x.vdk = v THEN x ELSE [Scoped(x.owner) EXCEPT !.vdk = v]

RequireResnapshot(x) == [x EXCEPT !.applied = -1]

\* Called with the vaults of the manifest list: here the one vault, or none.
RetainVaults(x, listed) == IF listed THEN x ELSE Scoped(x.owner)

ClearLiveHeadsAndCursors(x) ==
    [x EXCEPT !.ent = [e \in Entries |-> 0], !.applied = -1]

\* upsert_snapshot accepts every head: none is older than its checkpoint,
\* and a checkpoint without a head is not revived at its own revision.
SnapshotAccepted(x, heads) ==
    \A e \in Entries : heads[e] # 0 =>
        \/ heads[e] > x.chk[e]
        \/ heads[e] = x.chk[e] /\ x.liv[e]

ReplaceVault(x, heads) ==
    [x EXCEPT
       !.ent = heads,
       !.chk = [e \in Entries |-> IF heads[e] # 0 THEN heads[e] ELSE x.chk[e]],
       !.liv = [e \in Entries |-> heads[e] # 0],
       !.applied = -1]

\* The items of one delta page: for an entry changed by it, the revision of
\* its head, or 0 for a tombstone.
DeltaAccepted(x, items) ==
    \A e \in DOMAIN items : items[e] # 0 => items[e] > x.chk[e]

ApplyDelta(x, items) ==
    LET up(e) == e \in DOMAIN items
        head(e) == up(e) /\ items[e] # 0
    IN  [x EXCEPT
           !.ent = [e \in Entries |-> IF up(e) THEN items[e] ELSE x.ent[e]],
           !.chk = [e \in Entries |-> IF head(e) THEN items[e] ELSE x.chk[e]],
           !.liv = [e \in Entries |-> IF up(e) THEN head(e) ELSE x.liv[e]]]

\* What decode_durable_cache requires of a committed cache.
Consistent(x) ==
    \A e \in Entries :
        /\ x.liv[e] <=> x.ent[e] # 0
        /\ x.ent[e] # 0 => x.ent[e] = x.chk[e]
        /\ x.chk[e] # 0 => x.vdk # 0

-----------------------------------------------------------------------------
(* The service, modelled from what the client asks of it.                   *)

Changes(l, e, from, to) == {i \in from + 1 .. to : l[i].entry = e}

Last(s) == CHOOSE i \in s : \A j \in s : j <= i

HeadRevision(l, e, from, to) ==
    LET i == Last(Changes(l, e, from, to)) IN IF l[i].alive THEN i ELSE 0

\* The heads of a vault after its first n changes.
StateAt(l, n) ==
    [e \in Entries |->
        IF Changes(l, e, 0, n) = {} THEN 0 ELSE HeadRevision(l, e, 0, n)]

DeltaItems(l, from, to) ==
    [e \in {x \in Entries : Changes(l, x, from, to) # {}} |->
        HeadRevision(l, e, from, to)]

\* The states of the vault a response may be computed from.
Seen(f) == IF Lagging THEN 0 .. Len(log[f]) ELSE {Len(log[f])}

Manifests(f) == IF Lagging THEN 1 .. man[f] ELSE {man[f]}

\* A page opens under the VDK of the listed manifest.
Decrypts(c) == Lagging \/ call[c].man = man[call[c].prof]

-----------------------------------------------------------------------------
(* Sessions.                                                                *)

NoCall ==
    [pc |-> "idle", kind |-> "search", proc |-> None, prof |-> None,
     gen |-> 0, anchor |-> 0, man |-> 0, listed |-> FALSE, work |-> Empty,
     heads |-> [e \in Entries |-> 0], todo |-> {}, base |-> -1, upper |-> -1,
     tries |-> 0, reset |-> FALSE, opened |-> FALSE, start |-> 0,
     res |-> "none", seen |-> Empty]

Active(c) == call[c].pc \notin {"idle", "done"}

\* Mutant: calls of one server run together.
PermitIgnored(p) == TRUE

\* MCP: one secret operation at a time per server process.
PermitFree(p) == \A c \in Calls : ~(Active(c) /\ call[c].proc = p)

\* The guard of the index mutex is held from the clone to the swap.
LockFree(p) ==
    \A c \in Calls : call[c].proc = p => call[c].pc \notin {"snap", "delta", "persist"}

\* What a finished call leaves behind: its outcome, and the answer of a search.
Finished(r, res, seen) ==
    LET ended == [NoCall EXCEPT !.pc = "done", !.opened = r.opened, !.res = res]
    IN  IF r.kind = "search" /\ res = "ok"
          THEN [ended EXCEPT !.prof = r.prof, !.start = r.start, !.listed = r.listed,
                             !.seen = seen]
          ELSE [ended EXCEPT !.kind = r.kind]

\* A sync attempt is over: the guard is released, the working clone dropped.
Released(r) ==
    [r EXCEPT !.work = Empty, !.heads = NoCall.heads, !.todo = {}, !.base = -1,
              !.upper = -1, !.reset = FALSE]

\* The sync failed for good: clear_live_heads_and_cursors comes next.
Failed(r, res) == [Released(r) EXCEPT !.pc = "clear", !.res = res]

-----------------------------------------------------------------------------
Init ==
    /\ log = [f \in Profiles |-> <<>>]
    /\ man = [f \in Profiles |-> 1]
    /\ access = [f \in Profiles |-> TRUE]
    /\ changes = 0
    /\ durable = [f \in Profiles |-> [gen |-> 0, anchor |-> 0, idx |-> Scoped(f)]]
    /\ live = [p \in Procs |-> Empty]
    /\ call = [c \in Calls |-> NoCall]

Changed == changes < MaxChanges /\ changes' = changes + 1

\* A member changes an entry, rotates the vault's key, or changes access.
Change(f, e, alive) ==
    /\ Changed
    /\ alive \/ StateAt(log[f], Len(log[f]))[e] # 0
    /\ log' = [log EXCEPT ![f] = Append(@, [entry |-> e, alive |-> alive])]
    /\ UNCHANGED <<man, access, durable, live, call>>

Rotate(f) ==
    /\ Changed
    /\ man' = [man EXCEPT ![f] = @ + 1]
    /\ UNCHANGED <<log, access, durable, live, call>>

SetAccess(f) ==
    /\ Changed
    /\ access' = [access EXCEPT ![f] = ~@]
    /\ UNCHANGED <<log, man, durable, live, call>>

\* open_session: the configuration is copied into the session.
OpenSession(c, p, f, k) ==
    /\ call[c].pc = "idle"
    /\ PermitFree(p)
    /\ call' = [call EXCEPT ![c] =
          [NoCall EXCEPT !.pc = IF k = "search" THEN "load" ELSE "deliver",
                         !.kind = k, !.proc = p, !.prof = f,
                         !.gen = durable[f].gen, !.anchor = durable[f].anchor,
                         !.start = IF k = "search" THEN Len(log[f]) ELSE 0]]
    /\ UNCHANGED <<service, durable, live>>

\* list_vault_manifests and prepare_manifest_batch: a revision below the
\* session's anchor is refused; without the vault there is nothing to verify.
Prepared(r, m, listed) == listed => m >= r.anchor

\* credential_options / deliver_credential: the batch that precedes a get or
\* an inject.
DeliverManifests(c) ==
    /\ call[c].pc = "deliver"
    /\ \E m \in Manifests(call[c].prof) :
         call' = [call EXCEPT ![c] =
            IF access[@.prof] /\ Prepared(@, m, TRUE)
              THEN [@ EXCEPT !.pc = "anchors", !.man = m, !.listed = TRUE]
              ELSE Finished(@, "untrusted", Empty)]
    /\ UNCHANGED <<service, durable, live>>

\* The grant is given and the credential opened.  Get is over; inject goes on
\* to look up the username in Discovery.
Opened(r) ==
    IF r.kind = "get" THEN Finished([r EXCEPT !.opened = TRUE], "ok", Empty)
    ELSE [r EXCEPT !.pc = "load", !.opened = TRUE, !.man = 0, !.listed = FALSE]

\* Without a reason to encrypt, a vault pinned in the session's snapshot needs
\* no manifest.
DeliverPinned(c) ==
    /\ call[c].pc = "deliver"
    /\ call[c].anchor # 0
    /\ call' = [call EXCEPT ![c] = Opened(@)]
    /\ UNCHANGED <<service, durable, live>>

\* persist_manifest_batch.
PersistManifestBatch(c) ==
    LET r == call[c]
        d == durable[r.prof]
        next == r.man
    IN  /\ r.pc = "anchors"
        /\ \/ /\ d.anchor = next
              /\ UNCHANGED durable
           \/ /\ d.anchor # next /\ d.anchor = r.anchor
              /\ durable' = [durable EXCEPT ![r.prof].anchor = next]
           \/ /\ d.anchor # next /\ d.anchor # r.anchor
              /\ UNCHANGED durable
        /\ call' = [call EXCEPT ![c] =
              IF d.anchor \notin {next, r.anchor} THEN Finished(r, "untrusted", Empty)
              ELSE Opened(r)]
        /\ UNCHANGED <<service, live>>

-----------------------------------------------------------------------------
(* sync_local_discovery.                                                    *)

\* ensure_discovery_cache_loaded: an index already scoped to the identity is
\* kept; otherwise the cache file is read, and its digest must be the one of
\* the session's snapshot.
EnsureCacheLoaded(c) ==
    LET r == call[c]
        d == durable[r.prof]
    IN  /\ r.pc = "load"
        /\ LockFree(r.proc)
        /\ \/ /\ live[r.proc].owner = r.prof
              /\ call' = [call EXCEPT ![c].pc = "list"]
              /\ UNCHANGED live
           \/ /\ live[r.proc].owner # r.prof
              /\ r.gen = 0 \/ d.gen = r.gen
              /\ live' = [live EXCEPT ![r.proc] = IF r.gen = 0 THEN Scoped(r.prof) ELSE d.idx]
              /\ call' = [call EXCEPT ![c].pc = "list"]
           \/ /\ live[r.proc].owner # r.prof
              /\ r.gen # 0 /\ d.gen # r.gen
              /\ call' = [call EXCEPT ![c] = Failed(r, "integrity")]
              /\ UNCHANGED live
        /\ UNCHANGED <<service, durable>>

ListManifests(c) ==
    LET r == call[c] IN
    /\ r.pc = "list"
    /\ \E m \in Manifests(r.prof), listed \in {access[r.prof]} :
         call' = [call EXCEPT ![c] =
            IF Prepared(r, m, listed)
              THEN [r EXCEPT !.pc = "sync", !.man = IF listed THEN m ELSE 0, !.listed = listed]
              ELSE Failed(r, "untrusted")]
    /\ UNCHANGED <<service, durable, live>>

\* Lock, scope, clone; then prepare_vault chooses between delta and snapshot.
BeginSync(c) ==
    LET r == call[c]
        scoped == ScopeToIdentity(live[r.proc], r.prof)
        work == PrepareVault(scoped, r.man)
    IN  /\ r.pc = "sync"
        /\ LockFree(r.proc)
        /\ live' = [live EXCEPT ![r.proc] = scoped]
        /\ call' = [call EXCEPT ![c] =
              IF ~r.listed
                THEN [r EXCEPT !.pc = "persist", !.work = RetainVaults(scoped, FALSE)]
                ELSE [r EXCEPT !.pc = IF work.applied = -1 THEN "snap" ELSE "delta",
                               !.work = work, !.todo = IF work.applied = -1 THEN Entries ELSE {}]]
        /\ UNCHANGED <<service, durable>>

\* Mutant: pages of different bases make one snapshot.
AnyBase(r, b) == TRUE

\* Every page of a snapshot names the same base sequence.
SameBase(r, b) == r.base \in {-1, b}

\* One page of the snapshot: the heads of some of the entries not yet seen.
\* The last page, which may be empty, replaces the vault and starts the delta
\* at the base.
SnapshotPage(c) ==
    LET r == call[c] IN
    /\ r.pc = "snap"
    /\ Decrypts(c)
    /\ \E b \in Seen(r.prof), page \in SUBSET r.todo, last \in BOOLEAN :
         LET heads == [e \in Entries |-> IF e \in page THEN StateAt(log[r.prof], b)[e]
                                                       ELSE r.heads[e]]
             more == [r EXCEPT !.heads = heads, !.todo = @ \ page, !.base = b]
         IN  /\ IF last THEN page = r.todo ELSE page # {}
             /\ call' = [call EXCEPT ![c] =
                   IF ~SameBase(r, b) THEN Failed(r, "payload")
                   ELSE IF ~last THEN more
                   ELSE IF ~SnapshotAccepted(r.work, heads) THEN Failed(r, "payload")
                   ELSE [more EXCEPT !.pc = "delta", !.heads = NoCall.heads,
                                     !.work = [ReplaceVault(r.work, heads) EXCEPT !.applied = b]]]
    /\ UNCHANGED <<service, durable, live>>

\* One page of the delta.  The upper bound is constant, the cursor never goes
\* back and never passes the bound, and the last page reaches it.  The
\* cursor of the work in progress is work.applied; mark_applied keeps it.
PageInOrder(r, upper, through) ==
    /\ r.upper \in {-1, upper}
    /\ r.work.applied <= through
    /\ through <= upper

DeltaComplete(upper, through) == through = upper

DeltaPage(c) ==
    LET r == call[c] IN
    /\ r.pc = "delta"
    /\ Decrypts(c)
    /\ \E upper \in Seen(r.prof), through \in 0 .. Len(log[r.prof]), last \in BOOLEAN :
         LET items == DeltaItems(log[r.prof], r.work.applied, through)
             work == [ApplyDelta(r.work, items) EXCEPT !.applied = through]
         IN  /\ through <= upper
             /\ last \/ through > r.work.applied
             /\ call' = [call EXCEPT ![c] =
                   IF ~PageInOrder(r, upper, through) \/ ~DeltaAccepted(r.work, items)
                     THEN Failed(r, "payload")
                   ELSE IF ~last THEN [r EXCEPT !.work = work, !.upper = upper]
                   ELSE IF ~DeltaComplete(upper, through) THEN Failed(r, "payload")
                   ELSE [r EXCEPT !.pc = "persist", !.work = RetainVaults(work, TRUE),
                                  !.base = -1, !.upper = -1, !.todo = {}]]
    /\ UNCHANGED <<service, durable, live>>

\* A 409 reset-required: the vault is synchronized once more, by snapshot.
ResetRequired(c) ==
    /\ call[c].pc \in {"snap", "delta"}
    /\ call' = [call EXCEPT ![c] =
          IF @.reset THEN Failed(@, "error")
          ELSE [@ EXCEPT !.pc = "snap", !.reset = TRUE, !.work = RequireResnapshot(@),
                         !.heads = NoCall.heads, !.todo = Entries, !.base = -1, !.upper = -1]]
    /\ UNCHANGED <<service, durable, live>>

\* A 409 sync-state-changed: the attempt is discarded and repeated from a
\* fresh manifest list, at most MaxAttempts times in all.
SyncStateChanged(c) ==
    /\ call[c].pc \in {"list", "snap", "delta"}
    /\ call' = [call EXCEPT ![c] =
          IF @.tries + 1 < MaxAttempts
            THEN [Released(@) EXCEPT !.pc = "load", !.tries = @ + 1, !.man = 0, !.listed = FALSE]
            ELSE Failed(@, "error")]
    /\ UNCHANGED <<service, durable, live>>

\* Any other failed request, or a page over the index limits.
RequestFails(c) ==
    /\ call[c].pc \in {"deliver", "list", "snap", "delta"}
    /\ call' = [call EXCEPT ![c] =
          IF @.pc = "deliver" THEN Finished(@, "error", Empty) ELSE Failed(@, "error")]
    /\ UNCHANGED <<service, durable, live>>

\* persist_discovery_batch compares anchors and cache with the snapshot.
SnapshotCurrent(r, d) == d.anchor = r.anchor /\ d.gen = r.gen

\* publish_discovery_attempt: the lease is checked, the batch committed, the
\* lease checked again, and the clone swapped in.
PersistDiscoveryBatch(c, activeBefore, activeAfter) ==
    LET r == call[c]
        d == durable[r.prof]
        next == [gen |-> r.gen + 1, idx |-> r.work,
                 anchor |-> IF r.listed THEN r.man ELSE r.anchor]
        commits == activeBefore /\ SnapshotCurrent(r, d)
    IN  /\ r.pc = "persist"
        /\ durable' = IF commits THEN [durable EXCEPT ![r.prof] = next] ELSE durable
        /\ live' = IF commits /\ activeAfter THEN [live EXCEPT ![r.proc] = r.work] ELSE live
        /\ call' = [call EXCEPT ![c] =
              IF commits /\ activeAfter THEN [Released(r) EXCEPT !.pc = "read"]
              ELSE IF activeBefore /\ ~commits THEN Failed(r, "integrity")
              ELSE Failed(r, "expired")]
        /\ UNCHANGED service

\* The error path of sync_local_discovery.
ClearLiveHeads(c) ==
    LET r == call[c] IN
    /\ r.pc = "clear"
    /\ LockFree(r.proc)
    /\ live' = [live EXCEPT ![r.proc] = ClearLiveHeadsAndCursors(@)]
    /\ call' = [call EXCEPT ![c] = Finished(r, r.res, Empty)]
    /\ UNCHANGED <<service, durable>>

\* search, or field_at_revision for inject: the index is locked again and
\* whatever it holds answers the call.
ReadIndex(c) ==
    LET r == call[c] IN
    /\ r.pc = "read"
    /\ LockFree(r.proc)
    /\ call' = [call EXCEPT ![c] = Finished(r, "ok", live[r.proc])]
    /\ UNCHANGED <<service, durable, live>>

-----------------------------------------------------------------------------
\* The caller cancels, the lease ends, or the grant is refused: the future is
\* dropped where it waits and changes nothing more.
Drop(c) ==
    /\ Active(c)
    /\ call' = [call EXCEPT ![c] = Finished(@, "dropped", Empty)]
    /\ UNCHANGED <<service, durable, live>>

\* The process ends; its index goes with it.
Crash(p) ==
    /\ live[p] # Empty
    /\ live' = [live EXCEPT ![p] = Empty]
    /\ call' = [c \in Calls |->
          IF Active(c) /\ call[c].proc = p THEN Finished(call[c], "dropped", Empty)
          ELSE call[c]]
    /\ UNCHANGED <<service, durable>>

Step(c) ==
    \/ DeliverManifests(c) \/ DeliverPinned(c) \/ PersistManifestBatch(c)
    \/ EnsureCacheLoaded(c) \/ ListManifests(c) \/ BeginSync(c)
    \/ SnapshotPage(c) \/ DeltaPage(c)
    \/ ResetRequired(c) \/ SyncStateChanged(c) \/ RequestFails(c)
    \/ \E before, after \in BOOLEAN : PersistDiscoveryBatch(c, before, after)
    \/ ClearLiveHeads(c) \/ ReadIndex(c)

Next ==
    \/ \E f \in Profiles :
         \/ \E e \in Entries, alive \in BOOLEAN : Change(f, e, alive)
         \/ Rotate(f)
         \/ SetAccess(f)
    \/ \E c \in Calls :
         \/ \E p \in Procs, f \in Profiles, k \in Kinds : OpenSession(c, p, f, k)
         \/ Step(c)
         \/ Drop(c)
    \/ \E p \in Procs : Crash(p)

Spec == Init /\ [][Next]_vars

\* A started call runs: the async runtime polls it, and every request to the
\* service is bounded by the HTTP client's timeout, so it is answered or fails.
FairSpec == Spec /\ \A c \in Calls : WF_vars(Step(c))

-----------------------------------------------------------------------------
TypeOK ==
    /\ log \in [Profiles -> UNION {[1..n -> [entry : Entries, alive : BOOLEAN]] : n \in 0..MaxChanges}]
    /\ man \in [Profiles -> 1..MaxChanges + 1]
    /\ access \in [Profiles -> BOOLEAN]
    /\ changes \in 0..MaxChanges
    /\ durable \in [Profiles -> [gen : Nat, anchor : 0..MaxChanges + 1, idx : Index]]
    /\ live \in [Procs -> Index]
    /\ \A c \in Calls : call[c].work \in Index /\ call[c].seen \in Index

(***************************************************************************)
(* A committed cache can always be read back: checkpoints and entries      *)
(* agree the way decode_durable_cache demands, although a failed sync      *)
(* leaves the in-memory index with live checkpoints and no entries, and    *)
(* that index is the next clone.                                           *)
(***************************************************************************)
Decodable == \A f \in Profiles : Consistent(durable[f].idx)

(***************************************************************************)
(* Whatever pages the service cuts a snapshot and its deltas into, with    *)
(* the vault changing between any two requests, an index with a cursor     *)
(* holds exactly the heads of the vault at that cursor: nothing missed,    *)
(* nothing deleted kept.  Both in memory and in the committed cache.       *)
(***************************************************************************)
ExactAtCursor ==
    \A x \in {live[p] : p \in Procs} \union {durable[f].idx : f \in Profiles} :
        x.applied # -1 =>
            /\ x.owner # None
            /\ x.ent = StateAt(log[x.owner], x.applied)

(***************************************************************************)
(* A search that succeeds answers from its own profile's index and shows   *)
(* every change made before it began, unless the vault has left the        *)
(* Agent's manifest list, and then it shows nothing.  The index is shared  *)
(* by all profiles of the process and re-locked after the sync: it is the  *)
(* single permit of the MCP server that keeps the two together.            *)
(***************************************************************************)
AnswersFresh ==
    \A c \in Calls :
        (call[c].pc = "done" /\ call[c].res = "ok" /\ call[c].kind = "search") =>
            LET r == call[c] IN
            /\ r.seen.owner = r.prof
            /\ r.listed => /\ r.seen.applied >= r.start
                           /\ r.seen.ent = StateAt(log[r.prof], r.seen.applied)
            /\ ~r.listed => \A e \in Entries : r.seen.ent[e] = 0

(***************************************************************************)
(* The runtime "publishes a cloned index only after every Vault and the    *)
(* signed checkpoint commit succeed": the in-memory index gains entries    *)
(* or a cursor only by becoming the committed cache of its profile.        *)
(***************************************************************************)
PublishedIsCommitted ==
    [][\A p \in Procs :
          live'[p] # live[p] =>
             \/ live'[p].owner # None /\ live'[p] = durable'[live'[p].owner].idx
             \/ live'[p].applied = -1 /\ \A e \in Entries : live'[p].ent[e] = 0]_vars

(***************************************************************************)
(* A service that answers from an older state never takes an entry back:   *)
(* while the identity, the VDK and the vault's listing stay, a published   *)
(* checkpoint only grows, and an entry that was removed reappears only at  *)
(* a later revision.                                                       *)
(***************************************************************************)
NoReplay ==
    [][\A p \in Procs :
          (live'[p].owner = live[p].owner /\ live'[p].vdk = live[p].vdk) =>
             \A e \in Entries :
                /\ live'[p].chk[e] >= live[p].chk[e]
                /\ (live'[p].liv[e] /\ ~live[p].liv[e]) => live'[p].chk[e] > live[p].chk[e]]_vars

(***************************************************************************)
(* Committed manifest anchors "advance monotonically" whatever the service *)
(* lists and whichever process commits: sessions with older snapshots      *)
(* lose the compare-and-swap.                                              *)
(***************************************************************************)
AnchorsAdvance ==
    [][\A f \in Profiles : durable'[f].anchor >= durable[f].anchor]_vars

(***************************************************************************)
(* Every call that opened a session ends, so that the server's only permit *)
(* is given back: resets and changed-state answers are retried a bounded   *)
(* number of times, and no one waits for the index forever.                *)
(***************************************************************************)
CallsEnd == \A c \in Calls : Active(c) ~> call[c].pc = "done"

(***************************************************************************)
(* The text of RuntimeError::IntegrityViolation: "public Agent metadata    *)
(* failed integrity verification; no credential was opened".               *)
(***************************************************************************)
NoCredentialOpened ==
    \A c \in Calls : call[c].res = "integrity" => ~call[c].opened

(***************************************************************************)
(* "inject and exec do not synchronize Discovery": an inject never leaves  *)
(* the profile with another discovery cache.                               *)
(***************************************************************************)
InjectDoesNotSync ==
    [][\A c \in Calls, b, a \in BOOLEAN :
          (call[c].kind = "inject" /\ PersistDiscoveryBatch(c, b, a)) =>
             \A f \in Profiles : durable'[f].gen = durable[f].gen]_vars
=============================================================================
