------------------------------ MODULE ApiCalls ------------------------------
(***************************************************************************)
(* The client of the Palladin API (palladin-api/src/client.rs and          *)
(* types.rs): one call from its first attempt to its result.  A request    *)
(* may be lost on the way, its answer may be lost, a gateway may answer    *)
(* for the service before or after the service has acted, and a body comes *)
(* in pieces and may break off.  Only a GET is tried again.                *)
(***************************************************************************)
EXTENDS Naturals, Sequences, FiniteSets

CONSTANTS
    Attempts,     \* tries of a GET, 3 in the code
    SmallLimit,   \* bytes of the smaller answers, in units of a chunk
    LargeLimit,   \* bytes of a script package
    MaxChunks,    \* bound: chunks the service sends
    None

VARIABLES
    request,      \* the call: endpoint, and whether a reason was given
    at,           \* ready, sent, answered, reading, pausing or done
    attempt,      \* attempts made so far
    nonce,        \* of the attempt under way
    seen,         \* nonces the service has accepted
    applied,      \* times the service has acted on the call
    response,     \* status, headers, body and its chunks to come
    held,         \* chunks of the body read so far
    result

vars == <<request, at, attempt, nonce, seen, applied, response, held, result>>

-----------------------------------------------------------------------------
(* The endpoints: method, what bounds the body, and how it is read.          *)

Endpoint(method, limit, decoder) == [method |-> method, limit |-> limit, decoder |-> decoder]

start == Endpoint("POST", SmallLimit, "value")
poll == Endpoint("GET", SmallLimit, "value")
register_agent == Endpoint("GET", None, "registration")
list_vault_manifests == Endpoint("GET", SmallLimit, "manifests")
get_agent_discovery_snapshot == Endpoint("POST", SmallLimit, "discovery")
get_agent_discovery_delta == Endpoint("POST", SmallLimit, "discovery")
create_pairing_activation == Endpoint("POST", SmallLimit, "value")
get_pairing_status == Endpoint("GET", SmallLimit, "value")
get_form_discovery_map == Endpoint("GET", SmallLimit, "form_map")
submit_form_discovery_map_candidate == Endpoint("POST", SmallLimit, "value")
get_credential == Endpoint("POST", None, "credential")
get_script_execution_package == Endpoint("POST", LargeLimit, "package")
request_script_execution_access == Endpoint("POST", SmallLimit, "access")
get_grant_status == Endpoint("GET", SmallLimit, "value")
report_credential_stale == Endpoint("POST", 0, "status")
list_approver_manifests == Endpoint("GET", SmallLimit, "submission")
create_submission == Endpoint("POST", SmallLimit, "submission")
rewrap_submission == Endpoint("PUT", SmallLimit, "submission")
get_submission_target == Endpoint("GET", SmallLimit, "submission")
list_submissions == Endpoint("GET", SmallLimit, "submission")
get_submission_rewrap_source == Endpoint("GET", SmallLimit, "submission")
get_submission == Endpoint("GET", SmallLimit, "submission")

Endpoints ==
    {start, poll, register_agent, list_vault_manifests, get_agent_discovery_snapshot, get_agent_discovery_delta,
     create_pairing_activation, get_pairing_status, get_form_discovery_map, submit_form_discovery_map_candidate,
     get_credential, get_script_execution_package, request_script_execution_access, get_grant_status,
     report_credential_stale, list_approver_manifests, create_submission, rewrap_submission, get_submission_target,
     list_submissions, get_submission_rewrap_source, get_submission}

-----------------------------------------------------------------------------
(* Answers, and what each decoder makes of them.                            *)

Success(status) == status \in {200, 202}
Statuses == {200, 202, 400, 401, 403, 404, 409, 413, 500, 502}
Gateway(status) == status = 502        \* 502, 503 and 504

\* Bodies the decoders tell apart; "other" is anything else.
Bodies(decoder) ==
    {"value", "other"} \cup
      CASE decoder = "registration" -> {"active", "pending", "deactivated"}
        [] decoder = "manifests" -> {"too many"}
        [] decoder = "discovery" -> {"sync-state-changed", "reset", "no reset", "invalid-cursor", "size-limit-exceeded"}
        [] decoder = "package" -> {"method-not-allowed", "expired", "stale-discovery", "invalid-package", "overlapping-grants"}
        [] decoder = "submission" -> {"code"}
        [] OTHER -> {}

\* Whether the headers a decoder looks at are there.
Headers(decoder) == IF decoder \in {"registration", "discovery"} THEN BOOLEAN ELSE {TRUE}

Http(status) == <<"http", status>>
Value(body) == IF body = "value" THEN <<"value">> ELSE <<"invalid">>

decode_bounded_success(status, body) == IF Success(status) THEN Value(body) ELSE Http(status)

decode_registration(status, headers, body) ==
    CASE status = 401 -> IF headers THEN <<"pending">> ELSE <<"invalid key">>
      [] ~Success(status) /\ status # 401 -> <<"unreachable">>
      [] Success(status) -> IF body \in {"active", "pending", "deactivated"} THEN <<body>> ELSE <<"invalid">>

decode_vault_manifests(status, body) ==
    IF Success(status) /\ body = "too many" THEN <<"too large">> ELSE decode_bounded_success(status, body)

decode_discovery_sync(status, headers, body) ==
    CASE ~headers -> <<"invalid">>
      [] headers /\ Success(status) -> Value(body)
      [] headers /\ status = 409 ->
            CASE body = "sync-state-changed" -> <<"changed">>
              [] body = "reset" -> <<"reset">>
              [] OTHER -> <<"invalid">>
      [] headers /\ status = 400 -> IF body = "invalid-cursor" THEN <<"invalid cursor">> ELSE <<"invalid">>
      [] headers /\ status = 413 -> IF body = "size-limit-exceeded" THEN <<"too large">> ELSE <<"invalid">>
      [] headers /\ ~Success(status) /\ status \notin {400, 409, 413} -> Http(status)

decode_credential(reason, status, body) ==
    CASE status \in {200, 202, 403} -> Value(body)       \* and 429
      [] status = 400 /\ ~reason -> <<"reason required">>
      [] OTHER -> Http(status)

decode_package(status, body) ==
    CASE Success(status) -> Value(body)
      [] status = 403 -> IF body \in {"method-not-allowed", "expired"} THEN <<body>> ELSE <<"invalid">>
      [] status = 409 ->
            CASE body = "stale-discovery" -> <<"stale">>
              [] body \in {"invalid-package", "overlapping-grants"} -> <<"invalid package">>
              [] OTHER -> <<"invalid">>
      [] ~Success(status) /\ status \notin {403, 409} -> Http(status)

decode_submission(status, body) ==
    IF status \in 400 .. 499 \ {401} /\ body = "code" THEN <<"rejected">> ELSE decode_bounded_success(status, body)

decode(endpoint, reason, r) ==
    CASE endpoint.decoder = "registration" -> decode_registration(r.status, r.headers, r.body)
      [] endpoint.decoder = "manifests" -> decode_vault_manifests(r.status, r.body)
      [] endpoint.decoder = "discovery" -> decode_discovery_sync(r.status, r.headers, r.body)
      [] endpoint.decoder = "credential" -> decode_credential(reason, r.status, r.body)
      [] endpoint.decoder = "package" -> decode_package(r.status, r.body)
      [] endpoint.decoder = "submission" -> decode_submission(r.status, r.body)
      [] endpoint.decoder = "status" -> IF Success(r.status) THEN <<"value">> ELSE Http(r.status)
      [] endpoint.decoder \in {"value", "access", "form_map"} -> decode_bounded_success(r.status, r.body)

\* What is decided by the status and the headers, before the body is read.
Early(endpoint, reason, r) ==
    CASE endpoint.decoder = "form_map" -> IF r.status = 404 THEN <<"value">> ELSE None
      [] endpoint.decoder = "access" -> IF r.status = 400 /\ ~reason THEN <<"reason required">> ELSE None
      [] endpoint.decoder = "discovery" -> IF ~r.headers THEN <<"invalid">> ELSE None
      [] endpoint.decoder = "credential" ->
            IF r.status \in {200, 202, 403} THEN None ELSE decode_credential(reason, r.status, r.body)
      [] endpoint.decoder = "registration" ->
            IF Success(r.status) THEN None ELSE decode_registration(r.status, r.headers, r.body)
      [] endpoint.decoder = "status" -> decode(endpoint, reason, r)
      [] OTHER -> None


-----------------------------------------------------------------------------
(* A call.                                                                  *)

\* Mutant: every idempotent method is tried again.
attempts_idempotent(method) == IF method = "POST" THEN 1 ELSE Attempts

attempts(method) == IF method = "GET" THEN Attempts ELSE 1

\* generate_nonce_base64 and sign_request; the n-th nonce is a fresh one.  The
\* calls of an agent that is not registered yet carry no signature; they are
\* followed as if they did.
sign_request(n) == n

Init ==
    /\ \E endpoint \in Endpoints, reason \in BOOLEAN : request = [endpoint |-> endpoint, reason |-> reason]
    /\ at = "ready" /\ attempt = 0 /\ nonce = None
    /\ seen = {} /\ applied = 0
    /\ response = None /\ held = 0 /\ result = None

More == attempt < attempts(request.endpoint.method)
Done(r) == at' = "done" /\ result' = r

\* send and signed_send: one turn of the loop.
Send ==
    /\ at = "ready"
    /\ at' = "sent" /\ attempt' = attempt + 1
    /\ nonce' = sign_request(attempt + 1)
    /\ UNCHANGED <<request, seen, applied, response, held, result>>

\* The service acts on a request it has not seen, and answers; external.
Answered(status, body, headers, declared, chunks) ==
    [status |-> status, body |-> body, headers |-> headers, declared |-> declared, chunks |-> chunks]

Handle ==
    /\ at = "sent"
    /\ IF nonce \in seen
         THEN /\ response' = Answered(401, "other", FALSE, TRUE, 1)
              /\ UNCHANGED <<seen, applied>>
         ELSE /\ \E status \in Statuses, body \in Bodies(request.endpoint.decoder), headers \in Headers(request.endpoint.decoder),
                    declared \in BOOLEAN, chunks \in 1 .. MaxChunks :
                    response' = Answered(status, body, headers, declared, chunks)
              /\ seen' = seen \cup {nonce}
              /\ applied' = applied + 1
    /\ at' = "answered"
    /\ UNCHANGED <<request, attempt, nonce, held, result>>

\* A gateway answers in place of the service, whether it acted or not.
Intercept ==
    /\ at \in {"sent", "answered"}
    /\ response' = Answered(502, "other", FALSE, TRUE, 1)
    /\ response # response'
    /\ at' = "answered"
    /\ UNCHANGED <<request, attempt, nonce, seen, applied, held, result>>

\* The connection breaks or the time is up before the answer has arrived.
Lose ==
    /\ at \in {"sent", "answered"}
    /\ response' = None
    /\ IF More THEN at' = "pausing" /\ UNCHANGED result
               ELSE Done(IF request.endpoint.decoder = "registration" THEN <<"unreachable">> ELSE <<"transport">>)
    /\ UNCHANGED <<request, attempt, nonce, seen, applied, held>>

Receive ==
    /\ at = "answered"
    /\ IF Gateway(response.status) /\ More
         THEN at' = "pausing" /\ response' = None /\ UNCHANGED result
         ELSE /\ UNCHANGED response
              /\ LET early == Early(request.endpoint, request.reason, response)
                 IN IF early # None THEN Done(early) ELSE at' = "reading" /\ UNCHANGED result
    /\ UNCHANGED <<request, attempt, nonce, seen, applied, held>>

\* The pause before the next attempt.
Pause ==
    /\ at = "pausing" /\ at' = "ready"
    /\ UNCHANGED <<request, attempt, nonce, seen, applied, response, held, result>>

\* read_bounded_response_with_limit: a declared length is tested first, and
\* every chunk before it is kept.
exceeds(size, r, limit) == limit # None /\ (size > limit \/ (r.declared /\ r.chunks > limit))

Read ==
    /\ at = "reading"
    /\ IF exceeds(held + 1, response, request.endpoint.limit)
         THEN Done(<<"too large">>) /\ UNCHANGED held
         ELSE /\ held' = held + 1
              /\ IF held' = response.chunks THEN Done(decode(request.endpoint, request.reason, response))
                                            ELSE UNCHANGED <<at, result>>
    /\ UNCHANGED <<request, attempt, nonce, seen, applied, response>>

\* The body breaks off: an answer that has begun is not asked for again.
Break ==
    /\ at = "reading"
    /\ Done(IF request.endpoint.limit = None THEN <<"invalid">> ELSE <<"transport">>)
    /\ UNCHANGED <<request, attempt, nonce, seen, applied, response, held>>

\* The caller drops the call: cancelled, or its lease has ended.
Drop ==
    /\ at # "done"
    /\ Done(<<"dropped">>)
    /\ UNCHANGED <<request, attempt, nonce, seen, applied, response, held>>

Returned == at = "done" /\ UNCHANGED vars

Step == Send \/ Receive \/ Pause \/ Read
Next == Step \/ Handle \/ Intercept \/ Lose \/ Break \/ Drop \/ Returned

\* The client goes on by itself, and its timeout bounds the wait for others.
Spec == Init /\ [][Next]_vars /\ WF_vars(Step) /\ WF_vars(Lose)

-----------------------------------------------------------------------------
TypeOK ==
    /\ request.endpoint \in Endpoints
    /\ at \in {"ready", "sent", "answered", "reading", "pausing", "done"}
    /\ attempt \in 0 .. Attempts /\ held \in 0 .. MaxChunks
    /\ seen \subseteq 1 .. Attempts

\* Whatever is lost or answered by a gateway, a request that changes
\* something reaches the service once, and a repeated one is never refused as
\* a replay: each attempt carries a nonce of its own (send, signed_send).
AppliedOnce ==
    /\ applied > 1 => request.endpoint.method = "GET"
    /\ at = "sent" => nonce \notin seen

\* A value is reported only from the whole body of an answer of the service
\* to this call, and no more of a bounded body is kept than its limit
\* (read_bounded_response_with_limit, decode_bounded_success).
ValueIsWhole ==
    /\ (result = <<"value">> /\ response # None /\ Early(request.endpoint, request.reason, response) = None) =>
          applied > 0 /\ held = response.chunks
    /\ request.endpoint.limit # None => held <= request.endpoint.limit

\* Every call returns (the timeouts of the HTTP client and the bounded number
\* of attempts).
CallEnds == <>(at = "done")

=============================================================================
