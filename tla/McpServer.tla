---- MODULE McpServer ----
(* The MCP server on standard input and output (palladin-mcp, lib.rs): a bridge
   in front of the protocol library splits JSON-RPC batches into requests with
   ids of its own, keeps a cancellation token for each, and puts the responses
   together again; behind it calls run under two semaphores.

   One step of the input bridge is one line: prepare_incoming_message holds the
   state's lock throughout.  The protocol library (rmcp) is external: it runs
   one task per request and drops the response of a request it saw cancelled.
   Request r is the r-th the client sends, and its id; internal ids count the
   requests of batches only, so the two numberings differ. *)
EXTENDS Naturals, Sequences, FiniteSets, Functions, TLC

CONSTANTS Calls,         \* [tool, profile, valid]: what the client may call
          Assigned,      \* the profile the broker authenticated, or "any"
          MaxRequests, MaxCancels,
          MaxBatches,    \* MAX_PENDING_BATCHES
          MaxTracked,    \* MAX_PENDING_BATCH_REQUESTS
          MaxParallel    \* MAX_PARALLEL_REQUESTS

VARIABLES request,       \* what the client sent: [batch, muted, told, said]
          cancels,       \* cancellations sent
          bridge,        \* ProtocolBridgeState
          input,         \* the input bridge: "open", "eof" or "bad"
          to_server, to_client,
          handlers,      \* calls: [id, call, at, token]
          stopped,       \* requests whose cancellation the library saw
          serving,       \* the library's loop
          output,        \* the output bridge: "open", "done" or "failed"
          result         \* of serve_io

client == <<request, cancels>>
server == <<handlers, stopped, serving>>
vars == <<request, cancels, bridge, input, to_server, to_client, handlers, stopped, serving,
          output, result>>

Ext(r) == [own |-> FALSE, n |-> r]
Inner(n) == [own |-> TRUE, n |-> n]

SecretTools == {"pair_agent", "search_entries", "get_credential", "exec_with_credential",
                "inject_credential", "report_credential_stale"}

Init ==
  /\ request = <<>> /\ cancels = 0
  /\ bridge = [version |-> "none", next_batch |-> 1, next_id |-> 1, tracked |-> <<>>,
               external |-> <<>>, tokens |-> {}, pending |-> <<>>]
  /\ input = "open" /\ to_server = <<>> /\ to_client = <<>>
  /\ handlers = {} /\ stopped = {} /\ serving = TRUE
  /\ output = "open" /\ result = "none"

----
(* Input bridge. *)

\* An error of the bridge ends it, and with it the connection.
Breaks == /\ input' = "bad"
          /\ UNCHANGED <<client, bridge, to_server, to_client, server, output, result>>

Initialize ==
  /\ input = "open"
  /\ \E version \in {"2025-03-26", "other"} :
       IF bridge.version = "none"
       THEN /\ bridge' = [bridge EXCEPT !.version = version]
            /\ UNCHANGED <<client, input, to_server, to_client, server, output, result>>
       ELSE Breaks

\* The token of a tracked request: whoever holds it sees it cancelled.
consume_batch_cancellation(b, r) ==
  IF r \in DOMAIN b.external
  THEN [b EXCEPT !.tracked[b.external[r]].cancelled = TRUE]
  ELSE b

Muted(b, r) == r \in DOMAIN b.external

\* A request, or the cancellation of one, on a line of its own.
Single ==
  /\ input = "open" /\ bridge.version # "none" /\ Len(request) < MaxRequests
  /\ \E c \in Calls :
       /\ request' = Append(request, [batch |-> 0, muted |-> FALSE, told |-> 0, said |-> "none"])
       /\ to_server' = Append(to_server, [kind |-> "call", id |-> Ext(Len(request) + 1), call |-> c])
  /\ UNCHANGED <<cancels, bridge, input, to_client, server, output, result>>

Cancel ==
  /\ input = "open" /\ cancels < MaxCancels
  /\ cancels' = cancels + 1
  /\ \E r \in DOMAIN request :
       /\ bridge' = consume_batch_cancellation(bridge, r)
       /\ request' = [request EXCEPT ![r].muted = @ \/ Muted(bridge, r)]
       /\ to_server' = IF Muted(bridge, r) THEN to_server
                       ELSE Append(to_server, [kind |-> "cancel", id |-> Ext(r)])
  /\ UNCHANGED <<input, to_client, server, output, result>>

\* The requests of a batch get internal ids, tokens and one pending record.
Track(b, calls) ==
  LET first == Len(request)
      ids == [i \in DOMAIN calls |-> Inner(b.next_id + i - 1)]
      fresh == {ids[i] : i \in DOMAIN calls}
      index(id) == id.n - b.next_id + 1
  IN [b EXCEPT
        !.next_batch = @ + 1, !.next_id = @ + Len(calls),
        !.tokens = @ \cup fresh,
        !.external = @ @@ [r \in {first + i : i \in DOMAIN calls} |-> ids[r - first]],
        !.tracked = @ @@ [id \in fresh |-> [batch |-> b.next_batch, external |-> first + index(id),
                                            cancelled |-> FALSE]],
        !.pending = @ @@ (b.next_batch :> [remaining |-> Len(calls), responses |-> <<>>])]

\* A batch of requests, possibly with the cancellation of an earlier request or
\* of one of its own.
Batch ==
  /\ input = "open"
  /\ \E calls \in UNION {[1..k -> Calls] : k \in 0..2} :
     \E r \in {0} \cup 1..(Len(request) + Len(calls)) :
       /\ Len(request) + Len(calls) <= MaxRequests
       /\ calls = <<>> => r # 0
       /\ r # 0 => cancels < MaxCancels
       /\ IF \/ bridge.version # "2025-03-26"
             \/ Cardinality(DOMAIN bridge.pending) >= MaxBatches
             \/ Cardinality(DOMAIN bridge.tracked) + Len(calls) > MaxTracked
          THEN Breaks
          ELSE LET b == IF calls = <<>> THEN bridge ELSE Track(bridge, calls)
                   sent == request \o [i \in DOMAIN calls |->
                             [batch |-> bridge.next_batch, muted |-> FALSE,
                              told |-> 0, said |-> "none"]]
                   messages == [i \in DOMAIN calls |->
                             [kind |-> "call", id |-> Inner(bridge.next_id + i - 1), call |-> calls[i]]]
               IN /\ bridge' = IF r = 0 THEN b ELSE consume_batch_cancellation(b, r)
                  /\ request' = IF r = 0 THEN sent
                                ELSE [sent EXCEPT ![r].muted = @ \/ Muted(b, r)]
                  /\ cancels' = IF r = 0 THEN cancels ELSE cancels + 1
                  /\ to_server' = to_server \o messages
                       \o (IF r = 0 \/ Muted(b, r) THEN <<>>
                           ELSE <<[kind |-> "cancel", id |-> Ext(r)]>>)
                  /\ UNCHANGED <<input, to_client, server, output, result>>

\* An invalid item, a reserved id, a line too long, a NUL byte.
Malformed == input = "open" /\ Breaks

EndOfInput ==
  /\ input = "open" /\ input' = "eof"
  /\ UNCHANGED <<client, bridge, to_server, to_client, server, output, result>>

----
(* The library and the calls. *)

Respond(h, outcome) ==
  IF h.id \in stopped THEN UNCHANGED to_client
  ELSE to_client' = Append(to_client, [id |-> h.id, outcome |-> outcome])

Holders == {h \in handlers : h.at = "run"}

\* invoke: every refusal is an answer; a call that runs holds its permits until
\* its task returns.  Opening the session may fail at once.
Invoke ==
  \E h \in handlers :
    LET token == IF h.id \in bridge.tokens THEN "batch" ELSE "own"
        refused == \/ Cardinality(Holders) >= MaxParallel
                   \/ Assigned # "any" /\ h.call.profile # Assigned
                   \/ ~h.call.valid
                   \/ /\ h.call.tool \in SecretTools
                      /\ \E o \in Holders : o.call.tool \in SecretTools
    IN /\ h.at = "new"
       /\ \/ /\ refused \/ h.call.tool \in SecretTools
             /\ handlers' = handlers \ {h}
             /\ Respond(h, "refused")
          \/ /\ ~refused
             /\ handlers' = (handlers \ {h}) \cup {[h EXCEPT !.at = "run", !.token = token]}
             /\ UNCHANGED to_client
       /\ UNCHANGED <<client, bridge, input, to_server, stopped, serving, output, result>>

Cancelled(h) == IF h.token = "batch" THEN bridge.tracked[h.id].cancelled ELSE h.id \in stopped

\* A call returns its result or, once it was cancelled, that it was; the listing
\* of browsers looks at the token first.
Return ==
  \E h \in Holders, outcome \in {"result", "cancelled"} :
    /\ outcome = "cancelled" => Cancelled(h)
    /\ h.call.tool = "list_browser_sessions" /\ Cancelled(h) => outcome = "cancelled"
    /\ handlers' = handlers \ {h}
    /\ Respond(h, outcome)
    /\ UNCHANGED <<client, bridge, input, to_server, stopped, serving, output, result>>

ServerReads ==
  /\ serving /\ to_server # <<>>
  /\ LET m == Head(to_server)
     IN IF m.kind = "call"
        THEN /\ handlers' = handlers \cup {[id |-> m.id, call |-> m.call, at |-> "new", token |-> "none"]}
             /\ UNCHANGED stopped
        ELSE /\ stopped' = stopped \cup ({m.id} \cap {h.id : h \in handlers})
             /\ UNCHANGED handlers
  /\ to_server' = Tail(to_server)
  /\ UNCHANGED <<client, bridge, input, to_client, serving, output, result>>

\* The end of its input ends the library's loop; running calls are dropped.
ServerEnds ==
  /\ serving /\ input # "open" /\ to_server = <<>>
  /\ serving' = FALSE /\ handlers' = {}
  /\ UNCHANGED <<client, bridge, input, to_server, to_client, stopped, output, result>>

----
(* Output bridge. *)

\* The client reads a line: one answer or the answers of a batch.
Tell(line) ==
  [r \in DOMAIN request |->
     [request[r] EXCEPT !.told = @ + Cardinality({i \in DOMAIN line : line[i].n = r}),
                        !.said = IF \E i \in DOMAIN line : line[i].n = r
                                 THEN line[CHOOSE i \in DOMAIN line : line[i].n = r].outcome
                                 ELSE @]]

Remove(f, x) == Restrict(f, DOMAIN f \ {x})

complete_batch_item(b, batch, responses) ==
  LET p == b.pending[batch]
      all == p.responses \o responses
  IN IF p.remaining > 1
     THEN [state |-> [b EXCEPT !.pending[batch] = [remaining |-> p.remaining - 1, responses |-> all]],
           line |-> <<>>]
     ELSE [state |-> [b EXCEPT !.pending = Remove(@, batch)], line |-> all]

\* Mutant: the answer keeps the id the bridge gave the request.
collect_unrenamed(b, m) ==
  LET t == b.tracked[m.id]
  IN complete_batch_item([b EXCEPT !.tracked = Remove(@, m.id), !.tokens = @ \ {m.id},
                                   !.external = Remove(@, t.external)],
                         t.batch, IF t.cancelled THEN <<>>
                                  ELSE <<[n |-> m.id.n, outcome |-> m.outcome]>>)

collect_batch_response(b, m) ==
  LET t == b.tracked[m.id]
  IN complete_batch_item([b EXCEPT !.tracked = Remove(@, m.id), !.tokens = @ \ {m.id},
                                   !.external = Remove(@, t.external)],
                         t.batch, IF t.cancelled THEN <<>>
                                  ELSE <<[n |-> t.external, outcome |-> m.outcome]>>)

OutputReads ==
  /\ output = "open" /\ to_client # <<>>
  /\ LET m == Head(to_client)
     IN IF m.id \in DOMAIN bridge.tracked
        THEN LET c == collect_batch_response(bridge, m)
             IN bridge' = c.state /\ request' = Tell(c.line)
        ELSE bridge' = bridge /\ request' = Tell(<<[n |-> m.id.n, outcome |-> m.outcome]>>)
  /\ to_client' = Tail(to_client)
  /\ UNCHANGED <<cancels, input, to_server, server, output, result>>

\* The client closed its end.
OutputFails ==
  /\ output = "open" /\ to_client # <<>> /\ output' = "failed"
  /\ UNCHANGED <<client, bridge, input, to_server, to_client, server, result>>

OutputEnds ==
  /\ output = "open" /\ to_client = <<>> /\ ~serving /\ output' = "done"
  /\ UNCHANGED <<client, bridge, input, to_server, to_client, server, result>>

\* finish_bridge for the input, then for the output, which gets one second.
serve_io ==
  /\ ~serving /\ result = "none"
  /\ result' = IF input = "eof" /\ output = "done" THEN "ok" ELSE "transport"
  /\ UNCHANGED <<client, bridge, input, to_server, to_client, server, output>>

Done == result # "none" /\ output # "open" /\ UNCHANGED vars

Next ==
  \/ Initialize \/ Single \/ Cancel \/ Batch \/ Malformed \/ EndOfInput
  \/ Invoke \/ Return \/ ServerReads \/ ServerEnds
  \/ OutputReads \/ OutputFails \/ OutputEnds \/ serve_io \/ Done

Fairness == WF_vars(Invoke \/ Return) /\ WF_vars(ServerReads) /\ WF_vars(OutputReads)

Spec == Init /\ [][Next]_vars /\ Fairness

----
TypeOK ==
  /\ input \in {"open", "eof", "bad"} /\ output \in {"open", "done", "failed"}
  /\ result \in {"none", "ok", "transport"} /\ serving \in BOOLEAN
  /\ \A r \in DOMAIN request : request[r].told \in Nat /\ request[r].muted \in BOOLEAN
  /\ \A h \in handlers : h.at \in {"new", "run"} /\ h.call \in Calls
  /\ bridge.tokens = DOMAIN bridge.tracked

\* No request is answered twice; the requests of a batch are answered together,
\* all but the cancelled ones; a request whose cancellation the bridge took is
\* never answered, its call sees the cancellation, and no answer that reaches
\* the client is that the call was cancelled (collect_batch_response,
\* consume_batch_cancellation and the token lookup of invoke).
RepliesAreOwn ==
  /\ \A r \in DOMAIN request :
       /\ request[r].told <= 1 /\ request[r].said # "cancelled"
       /\ request[r].muted => request[r].told = 0
       /\ request[r].told = 1 /\ request[r].batch # 0 =>
            \A q \in DOMAIN request :
              request[q].batch = request[r].batch => request[q].told = 1 \/ request[q].muted
  /\ \A h \in Holders : h.id.own => h.token = "batch"

\* The bridge keeps nothing of a request once it is through: when no call runs
\* and no message is under way, all of its maps are empty, so that the limits
\* on pending batches and requests are never used up by finished ones.
NothingKept ==
  (serving /\ output = "open" /\ to_server = <<>> /\ to_client = <<>> /\ handlers = {}) =>
    /\ bridge.tracked = <<>> /\ bridge.external = <<>>
    /\ bridge.tokens = {} /\ bridge.pending = <<>>

AllServed ==
  \A r \in DOMAIN request :
    request[r].told = 1 \/ request[r].muted \/ Ext(r) \in stopped \/ input # "open" \/ output # "open"

\* Every request is answered, unless it was cancelled or the connection ends.
Served == []<>AllServed
====
