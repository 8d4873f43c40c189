------------------------------ MODULE FormMaps ------------------------------
(***************************************************************************)
(* The form-discovery-map cache (palladin-runtime/src/form_map_cache.rs)   *)
(* and the injections that resolve maps through it.  Several processes     *)
(* share one file.  Each get, put or invalidation is one transaction under *)
(* the cross-process lock, but a resolution is several of them with a      *)
(* request to the service in between, so answers arrive late.  Entries are *)
(* a sequence: LRU eviction and the renumbering of the usage counter sort  *)
(* it, and `get' keeps an index across that.                               *)
(***************************************************************************)
EXTENDS Integers, Sequences, FiniteSets, SequencesExt

CONSTANTS Procs,       \* processes that inject
          Keys,        \* (API origin, domain, provider)
          Revisions,   \* bound: pairs of version and fingerprint the service publishes
          Sizes,       \* values maxEntries takes
          MaxUsage,    \* the largest usage number, u64::MAX in the code
          MaxCalls,    \* bound: resolutions and transactions that touch the cache
          NoMap

VARIABLES entries,    \* form-map-cache.json, <<>> when absent
          size,       \* runtime-config.json maxEntries
          catalog,    \* what the service answers for a key
          call,       \* what each process is doing
          spent,      \* transactions so far
          refused,    \* history: revisions an injection has rejected
          dropped     \* history: keys an eviction has dropped

vars == <<entries, size, catalog, call, spent, refused, dropped>>

Maps == {[key |-> k, version |-> r[1], print |-> r[2]] : k \in Keys, r \in Revisions}

Idle == [at |-> "idle", key |-> CHOOSE k \in Keys : TRUE, rejected |-> NoMap, map |-> NoMap]

(***************************************************************************)
(* The operations on the entries.                                          *)
(***************************************************************************)
KeysOf(es) == {es[i].key : i \in DOMAIN es}

IndexOf(es, k) == CHOOSE i \in DOMAIN es : es[i].key = k

Sorted(es) == SortSeq(es, LAMBDA a, b : a.last_used < b.last_used)

evict(es) ==
    IF Len(es) <= size THEN es ELSE SubSeq(Sorted(es), Len(es) - size + 1, Len(es))

next_usage(es) ==
    LET used == {0} \cup {es[i].last_used : i \in DOMAIN es}
        top  == CHOOSE n \in used : \A m \in used : m <= n
    IN IF top = MaxUsage THEN 1 ELSE top + 1

\* The entries after take_usage: renumbered when the counter cannot go on.
Renumbered(es, usage) ==
    IF usage < MaxUsage THEN es
    ELSE [i \in DOMAIN es |-> [Sorted(es)[i] EXCEPT !.last_used = i]]

load == evict(entries)

Touched(es, i, usage) == [es EXCEPT ![i].last_used = usage]

\* get: the position is looked up before take_usage and used after it.
get(k) ==
    LET es    == load
        usage == next_usage(entries)
        i     == IndexOf(es, k)
        now   == Touched(Renumbered(es, usage), i, usage)
    IN IF k \notin KeysOf(es) THEN [file |-> entries, map |-> NoMap]
       ELSE [file |-> now, map |-> IF now[i].rejected THEN NoMap ELSE now[i].map]

SameRevision(a, b) == a.version = b.version /\ a.print = b.print

PutClashes(m) ==
    LET es == load
        i  == IndexOf(es, m.key)
    IN m.key \in KeysOf(es) /\ es[i].map.version = m.version /\ es[i].map.print # m.print

\* Mutant: a tombstone does not withstand the revision it is about.
put_revives(m) ==
    LET usage == next_usage(entries)
        es    == Renumbered(load, usage)
        i     == IndexOf(es, m.key)
        fresh == [key |-> m.key, map |-> m, rejected |-> FALSE, last_used |-> usage]
    IN IF m.key \notin KeysOf(es) THEN [file |-> evict(Append(es, fresh)), map |-> m]
       ELSE IF es[i].map.version > m.version
            THEN [file |-> evict(Touched(es, i, usage)),
                  map |-> IF es[i].rejected THEN NoMap ELSE es[i].map]
            ELSE [file |-> evict([es EXCEPT ![i] = fresh]), map |-> m]

put(m) ==
    LET usage == next_usage(entries)
        es    == Renumbered(load, usage)
        i     == IndexOf(es, m.key)
        fresh == [key |-> m.key, map |-> m, rejected |-> FALSE, last_used |-> usage]
    IN IF m.key \notin KeysOf(es) THEN [file |-> evict(Append(es, fresh)), map |-> m]
       ELSE IF es[i].rejected /\ SameRevision(es[i].map, m)
            THEN [file |-> evict(Touched(es, i, usage)), map |-> NoMap]
            ELSE IF es[i].map.version > m.version
            THEN [file |-> evict(Touched(es, i, usage)),
                  map |-> IF es[i].rejected THEN NoMap ELSE es[i].map]
            ELSE [file |-> evict([es EXCEPT ![i] = fresh]), map |-> m]

invalidate_matching(k, m) ==
    LET usage == next_usage(entries)
        es    == Renumbered(load, usage)
        i     == IndexOf(es, k)
        stone == [key |-> k, map |-> m, rejected |-> TRUE, last_used |-> usage]
    IN IF k \notin KeysOf(es) THEN evict(Append(es, stone))
       ELSE IF SameRevision(es[i].map, m) THEN [es EXCEPT ![i] = [stone EXCEPT !.map = es[i].map]]
       ELSE es

-----------------------------------------------------------------------------
(***************************************************************************)
(* The processes.                                                          *)
(***************************************************************************)
Init ==
    /\ entries = <<>>
    /\ size \in Sizes
    /\ catalog \in [Keys -> {NoMap} \cup {m \in Maps : m.version = 1}]
    /\ \A k \in Keys : catalog[k] # NoMap => catalog[k].key = k
    /\ call = [p \in Procs |-> Idle]
    /\ spent = 0
    /\ refused = {}
    /\ dropped = {}

\* A transaction: the file is replaced by a rename, or it fails before that and
\* stays; the call goes on, or ends with the error or with the lease revoked.
Transact(p, file, next) ==
    /\ spent < MaxCalls
    /\ spent' = spent + 1
    /\ \/ entries' = file /\ call' \in {[call EXCEPT ![p] = next], [call EXCEPT ![p] = Idle]}
       \/ entries' = entries /\ call' = [call EXCEPT ![p] = Idle]
    /\ dropped' = dropped \cup (KeysOf(entries) \ KeysOf(load)) \cup (KeysOf(entries) \ KeysOf(entries'))
    /\ UNCHANGED <<size, catalog>>

\* An injection asks for the map of its login form.
Resolve(p, k) ==
    LET got == get(k) IN
    /\ call[p].at = "idle"
    /\ Transact(p, got.file,
          [Idle EXCEPT !.key = k, !.map = got.map,
                       !.at = IF got.map = NoMap THEN "asking" ELSE "using"])
    /\ UNCHANGED refused

\* The provider answers "stale-form-map": the revision is rejected first, and a
\* replacement asked for.
Reject(p) ==
    /\ call[p].at = "using"
    /\ Transact(p, invalidate_matching(call[p].key, call[p].map),
          [call[p] EXCEPT !.at = "asking", !.rejected = call[p].map, !.map = NoMap])
    /\ refused' = IF call'[p].at = "asking" THEN refused \cup {call[p].map} ELSE refused

\* The form that was used without a map goes to the service as a candidate;
\* whether that works does not matter to the injection.
Record(p) ==
    /\ call[p].at = "without"
    /\ call' = [call EXCEPT ![p] = Idle]
    /\ UNCHANGED <<entries, size, catalog, spent, refused, dropped>>

\* The injection succeeds, or ends otherwise.
Finish(p) ==
    /\ call[p].at = "using"
    /\ call' = [call EXCEPT ![p] = Idle]
    /\ UNCHANGED <<entries, size, catalog, spent, refused, dropped>>

\* The service answers; what it says is used only later.
Answer(p) ==
    /\ call[p].at = "asking"
    /\ call' = [call EXCEPT ![p].at = "answered", ![p].map = catalog[call[p].key]]
    /\ UNCHANGED <<entries, size, catalog, spent, refused, dropped>>

\* The request fails, or the lease is revoked before the answer is used.
Fails(p) ==
    /\ call[p].at \in {"asking", "answered"}
    /\ call' = [call EXCEPT ![p] = Idle]
    /\ UNCHANGED <<entries, size, catalog, spent, refused, dropped>>

Ended(p, map) ==
    IF call[p].rejected # NoMap THEN Idle
    ELSE [call[p] EXCEPT !.at = IF map = NoMap THEN "without" ELSE "using", !.map = map]

\* The answer has no map.
StoreNothing(p) ==
    /\ call[p].at = "answered" /\ call[p].map = NoMap
    /\ call' = [call EXCEPT ![p] = Ended(p, NoMap)]
    /\ UNCHANGED <<entries, size, catalog, spent, refused, dropped>>

\* The answer is the very revision that was rejected.
RejectAgain(p) ==
    /\ call[p].at = "answered" /\ call[p].map # NoMap /\ call[p].rejected # NoMap
    /\ SameRevision(call[p].map, call[p].rejected)
    /\ Transact(p, invalidate_matching(call[p].key, call[p].rejected), Idle)
    /\ UNCHANGED refused

Store(p) ==
    LET m == call[p].map IN
    /\ call[p].at = "answered" /\ m # NoMap
    /\ call[p].rejected # NoMap => ~SameRevision(m, call[p].rejected)
    /\ IF PutClashes(m) THEN Transact(p, entries, Idle)
       ELSE Transact(p, put(m).file, Ended(p, put(m).map))
    /\ UNCHANGED refused

\* The service publishes a map, or withdraws the one it had.
Publish(k) ==
    /\ \E m \in Maps :
          /\ m.key = k
          /\ catalog[k] # NoMap => m.version >= catalog[k].version
          /\ m # catalog[k]
          /\ catalog' = [catalog EXCEPT ![k] = m]
    /\ UNCHANGED <<entries, size, call, spent, refused, dropped>>

\* The owner edits runtime-config.json.
Configure ==
    /\ size' \in Sizes \ {size}
    /\ UNCHANGED <<entries, catalog, call, spent, refused, dropped>>

Next ==
    \/ \E p \in Procs : \/ \E k \in Keys : Resolve(p, k)
                        \/ Reject(p) \/ Record(p) \/ Finish(p) \/ Answer(p) \/ Fails(p)
                        \/ StoreNothing(p) \/ RejectAgain(p) \/ Store(p)
    \/ \E k \in Keys : Publish(k)
    \/ Configure

Spec == Init /\ [][Next]_vars

-----------------------------------------------------------------------------
TypeOK ==
    /\ entries \in Seq([key : Keys, map : Maps, rejected : BOOLEAN, last_used : 1..MaxUsage])
    /\ Cardinality(KeysOf(entries)) = Len(entries)
    /\ catalog \in [Keys -> Maps \cup {NoMap}]
    /\ \A p \in Procs : call[p].at \in {"idle", "asking", "answered", "using", "without"}

KeepsAway ==
    \A p \in Procs :
        (call'[p].at = "using" /\ call[p].at # "using" /\ call[p].key \notin dropped') => call'[p].map \notin refused

(***************************************************************************)
(* A revision that an injection has rejected is not given to any injection *)
(* again, however late the answers that carry it arrive and whoever stores *)
(* them, unless the cache was too small to keep the key's entry.  This is  *)
(* what the tombstone and the second invalidation in                       *)
(* resolve_form_discovery_map are for.                                     *)
(***************************************************************************)
RejectedStaysAway == [][KeepsAway]_vars

(***************************************************************************)
(* While the key's entry is kept, the revision it holds never goes back:   *)
(* a delayed answer does not replace a higher version that another process *)
(* has stored meanwhile (put).                                             *)
(***************************************************************************)
NeverOlder ==
    [][\A k \in KeysOf(load) \cap KeysOf(entries') :
          entries'[IndexOf(entries', k)].map.version >= entries[IndexOf(entries, k)].map.version]_vars

(***************************************************************************)
(* An injection uses a map of the key it asked for.  This fails where the  *)
(* usage counter ends: `get' renumbers and sorts the entries between       *)
(* finding the position and using it.                                      *)
(***************************************************************************)
MapIsForKey == \A p \in Procs : call[p].at = "using" => call[p].map.key = call[p].key
=============================================================================
