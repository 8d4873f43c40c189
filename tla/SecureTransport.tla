--------------------------- MODULE SecureTransport ---------------------------
(***************************************************************************)
(* The two encrypted channels of the browser bridge: native host and       *)
(* browser extension (secure_transport.rs), and native host and local      *)
(* client (local_transport.rs).  A handshake signs a transcript of both    *)
(* sides' fresh values, the keys of the two directions are cut from        *)
(* material derived from it, and every frame carries the sender's counter. *)
(*                                                                         *)
(* Cryptography is symbolic: a nonce with its ephemeral key is the number  *)
(* of the connection that drew it, a signature names its key and what it   *)
(* covers, a ciphertext names the key, the nonce and the associated data   *)
(* it was made with and opens only under the same three.  The carrier      *)
(* keeps every message and may hand any of them to any end, so messages    *)
(* are lost, repeated, reordered, reflected and delivered to the wrong     *)
(* connection.  Base64, JSON and length limits are left out.               *)
(***************************************************************************)
EXTENDS Naturals, Sequences, FiniteSets, SequencesExt

CONSTANTS
    Kinds,        \* the channels: "extension" and "local"
    Connections,  \* numbers of client ends, and of host ends
    MaxSequence,  \* the largest value of a u64 counter
    Pairings,     \* the identities of the ends: [client |-> ..., host |-> ...]
    MaxFrames     \* messages sent over all connections, handshakes included

VARIABLES
    kind,     \* the channel, chosen once
    identity, \* the identity each host end signs with
    pinned,   \* the identity each client end expects (local: its own)
    client,   \* the client ends
    host,     \* the host ends
    carrier,  \* every message sent
    sent,     \* per end, what its caller has passed to seal and got a frame for
    read      \* per end, what open has returned to its caller

vars == <<kind, identity, pinned, client, host, carrier, sent, read>>

Roles == {"client", "host"}
Ends == Roles \X Connections

NoSession == [id |-> <<>>]
End == [at |-> "idle", session |-> NoSession]

-----------------------------------------------------------------------------
(* Transcript, derivation, frames *)

session_transcript(c, h, key) == <<"session", c, h, key>>

client_open_transcript(c, key) == <<"open", c, key>>

Sign(key, transcript) == [by |-> key, over |-> transcript]

verify(key, transcript, signature) == signature = Sign(key, transcript)

session_id(transcript, signature) == <<transcript, signature>>

(* The shared secret of two ephemeral keys, salted with the transcript. *)
derive_material(c, h, transcript) == <<c, h, transcript>>

(* The host sends with the first key and nonce base of the material and     *)
(* receives with the second; the client the other way round.                *)
from_material(id, material, role) ==
    LET mine   == IF role = "host" THEN <<"first", "host-to-peer">>
                                   ELSE <<"second", "peer-to-host">>
        theirs == IF role = "host" THEN <<"second", "peer-to-host">>
                                   ELSE <<"first", "host-to-peer">>
    IN [id |-> id, send |-> <<material, mine[1]>>, receive |-> <<material, theirs[1]>>,
        out |-> mine[2], in |-> theirs[2], send_sequence |-> 0, receive_sequence |-> 0]

frame_nonce(base, sequence) == <<base, sequence>>

frame_aad(id, direction, sequence) == <<id, direction, sequence>>

Frame(s, sequence, body) ==
    [type |-> "secure", id |-> s.id, sequence |-> sequence,
     key |-> s.send, nonce |-> frame_nonce(s.send, sequence),
     aad |-> frame_aad(s.id, s.out, sequence), body |-> body]

(* A frame open accepts: its cleartext fields, then the authentication. *)
Authentic(s, f) ==
    /\ f.id = s.id
    /\ f.sequence = s.receive_sequence
    /\ f.key = s.receive
    /\ f.nonce = frame_nonce(s.receive, s.receive_sequence)
    /\ f.aad = frame_aad(s.id, s.in, s.receive_sequence)

-----------------------------------------------------------------------------
(* The carrier *)

Init ==
    /\ kind \in Kinds
    /\ \E p \in Pairings : pinned = p.client /\ identity = p.host
    /\ client = [c \in Connections |-> End]
    /\ host = [h \in Connections |-> End]
    /\ carrier = {}
    /\ sent = [e \in Ends |-> <<>>]
    /\ read = [e \in Ends |-> <<>>]

EndOf(role, i) == IF role = "client" THEN client[i] ELSE host[i]

Becomes(role, i, e) ==
    IF role = "client" THEN client' = [client EXCEPT ![i] = e] /\ UNCHANGED host
                       ELSE host' = [host EXCEPT ![i] = e] /\ UNCHANGED client

Closed(e) == [e EXCEPT !.at = "closed"]

Chosen == UNCHANGED <<kind, identity, pinned>>

-----------------------------------------------------------------------------
(* Handshake *)

(* LocalClientHandshake::start signs its opening with the shared identity;  *)
(* the extension sends its nonce and ephemeral key unsigned.                *)
start(c) ==
    /\ client[c].at = "idle"
    /\ client' = [client EXCEPT ![c].at = "opening"]
    /\ carrier' = carrier \cup
           {[type |-> "session.open", nonce |-> c,
             signature |-> Sign(pinned[c], client_open_transcript(c, pinned[c]))]}
    /\ UNCHANGED <<host, sent, read>> /\ Chosen

Opened(h, open) ==
    \/ kind = "extension"
    \/ verify(identity[h], client_open_transcript(open.nonce, identity[h]), open.signature)

accept(h, open) ==
    LET transcript == session_transcript(open.nonce, h, identity[h])
        signature  == Sign(identity[h], transcript)
        id         == session_id(transcript, signature)
        material   == derive_material(open.nonce, h, transcript)
    IN
    /\ host[h].at = "idle"
    /\ open.type = "session.open"
    /\ IF Opened(h, open)
       THEN /\ host' = [host EXCEPT ![h] =
                   [at |-> "open", session |-> from_material(id, material, "host")]]
            /\ carrier' = carrier \cup
                   {[type |-> "session.ready", nonce |-> open.nonce, host |-> h,
                     key |-> identity[h], signature |-> signature, id |-> id]}
       ELSE host' = [host EXCEPT ![h] = Closed(@)] /\ UNCHANGED carrier
    /\ UNCHANGED <<client, sent, read>> /\ Chosen

(* verify_host_ready, and the checks of LocalClientHandshake::finish. *)
verify_host_ready(c, ready) ==
    LET transcript == session_transcript(c, ready.host, pinned[c]) IN
    /\ ready.nonce = c
    /\ kind = "extension" => ready.key = pinned[c]
    /\ verify(pinned[c], transcript, ready.signature)
    /\ ready.id = session_id(transcript, ready.signature)

finish(c, ready) ==
    /\ client[c].at = "opening"
    /\ ready.type = "session.ready"
    /\ client' = [client EXCEPT ![c] =
           IF verify_host_ready(c, ready)
           THEN [at |-> "open", session |->
                    from_material(ready.id,
                        derive_material(c, ready.host, ready.signature.over), "client")]
           ELSE Closed(@)]
    /\ UNCHANGED <<host, carrier, sent, read>> /\ Chosen

-----------------------------------------------------------------------------
(* Frames *)

(* The counter is advanced after the encryption: at the last value seal     *)
(* fails, no frame leaves, and the caller drops the session.                *)
seal(role, i) ==
    LET e    == EndOf(role, i)
        s    == e.session
        body == Len(sent[<<role, i>>]) + 1
    IN
    /\ e.at = "open"
    /\ Cardinality(carrier) < MaxFrames
    /\ IF s.send_sequence = MaxSequence
       THEN /\ Becomes(role, i, Closed(e))
            /\ UNCHANGED <<carrier, sent>>
       ELSE /\ carrier' = carrier \cup {Frame(s, s.send_sequence, body)}
            /\ sent' = [sent EXCEPT ![<<role, i>>] = Append(@, body)]
            /\ Becomes(role, i, [e EXCEPT !.session.send_sequence = @ + 1])
    /\ UNCHANGED read /\ Chosen

(* Mutant: any counter the frame names is accepted. *)
OpensAnySequence(role, i, f, parses) ==
    LET e == EndOf(role, i)
        s == [e.session EXCEPT !.receive_sequence = f.sequence]
    IN
    /\ e.at = "open"
    /\ f.type = "secure"
    /\ IF Authentic(s, f) /\ parses
       THEN /\ read' = [read EXCEPT ![<<role, i>>] = Append(@, f.body)]
            /\ Becomes(role, i, [e EXCEPT !.session.receive_sequence = @ + 1])
       ELSE Becomes(role, i, Closed(e)) /\ UNCHANGED read
    /\ Len(read[<<role, i>>]) < MaxFrames
    /\ UNCHANGED <<carrier, sent>> /\ Chosen

(* A refused frame, or a payload the caller cannot parse, leaves the        *)
(* counter where it is; every caller then drops the session.                *)
open(role, i, f, parses) ==
    LET e == EndOf(role, i) IN
    /\ e.at = "open"
    /\ f.type = "secure"
    /\ IF Authentic(e.session, f) /\ parses /\ e.session.receive_sequence < MaxSequence
       THEN /\ read' = [read EXCEPT ![<<role, i>>] = Append(@, f.body)]
            /\ Becomes(role, i, [e EXCEPT !.session.receive_sequence = @ + 1])
       ELSE Becomes(role, i, Closed(e)) /\ UNCHANGED read
    /\ UNCHANGED <<carrier, sent>> /\ Chosen

Next ==
    \E i \in Connections :
        \/ start(i)
        \/ \E m \in carrier : accept(i, m) \/ finish(i, m)
        \/ \E role \in Roles :
              \/ seal(role, i)
              \/ \E m \in carrier, parses \in BOOLEAN : open(role, i, m, parses)

Spec == Init /\ [][Next]_vars

-----------------------------------------------------------------------------
(* Properties *)

TypeOK ==
    /\ kind \in Kinds
    /\ [client |-> pinned, host |-> identity] \in Pairings
    /\ \A e \in Ends : EndOf(e[1], e[2]).at \in {"idle", "opening", "open", "closed"}

Live(e) == EndOf(e[1], e[2]).session # NoSession

(* What an end's open has returned is, in order and without a gap, the      *)
(* beginning of what the one other end of the same session has sealed: no   *)
(* repeated, reordered, reflected or misdelivered frame is ever read.       *)
ReadsWhatWasSent ==
    \A e \in Ends : read[e] # <<>> =>
        \E p \in Ends :
            /\ p[1] # e[1] /\ Live(p)
            /\ EndOf(p[1], p[2]).session.id = EndOf(e[1], e[2]).session.id
            /\ IsPrefix(read[e], sent[p])

(* A client end holds a session only with a host end that signs with the    *)
(* identity it expects, and the two ends then hold each other's keys.       *)
SessionIsShared ==
    \A c \in Connections : client[c].session # NoSession =>
        \E h \in Connections :
            LET s == client[c].session  t == host[h].session IN
            /\ identity[h] = pinned[c]
            /\ t # NoSession /\ t.id = s.id
            /\ t.send = s.receive /\ t.receive = s.send

(* No two different frames leave under one key and nonce, also when the     *)
(* counter runs out.                                                        *)
NonceOnce ==
    \A f, g \in {m \in carrier : m.type = "secure"} :
        f.key = g.key /\ f.nonce = g.nonce => f = g
=============================================================================
