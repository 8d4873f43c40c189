---- MODULE Envelopes ----
(* How an agent opens what the service hands it: a granular credential, a
   credential under a full grant, a script under a full grant and a script
   package (palladin-crypto suite.rs, envelope.rs and script_execution.rs; the
   callers in palladin-runtime lib.rs).

   Cryptography is symbolic: a box or a payload is a record that opens only
   under the key and the context it was made with.  Members (external) edit
   entries, renew keys and approve grants, and everything they ever sealed
   stays in `made`.  The service (external) may answer with any of it: an old
   object, or the descriptor of one with the ciphertext of another.  The
   question is what the checks of the agent then still guarantee. *)
EXTENDS FieldPolicy

CONSTANTS
  Script,        \* the entry that is a script
  Login,         \* the entry it references
  Versions,      \* entry -> the member secrets it may hold, the first one first
  Terms,         \* the [methods, policy] a grant may be approved with
  MaxChanges     \* bound on what the members change

Items == {Script, Login}
Agent == "agent"

VARIABLES
  world,   \* the members' side now
  made,    \* every object that was ever sealed
  anchor,  \* the access epoch the agent trusts (vault_trust_anchors)
  call,    \* the agent's request
  given    \* what the last request handed over

vars == <<world, made, anchor, call, given>>

----
(* suite.rs *)

EntryScope == {"vault", "entry"}
EntryAgentScope == {"vault", "entry", "grant", "agent"}

\* Per wrapper purpose: scope, whether a member key generation and a parent
\* descriptor belong to it.
WrapperShape ==
  [agentVaultKey      |-> [scope |-> {"vault", "grant", "agent"}, gen |-> FALSE, parent |-> FALSE],
   grantDek           |-> [scope |-> EntryAgentScope, gen |-> TRUE, parent |-> TRUE],
   scriptExecutionDek |-> [scope |-> EntryAgentScope, gen |-> FALSE, parent |-> TRUE]]

NoParent == <<>>

validate_wrapper_context(c) ==
  LET shape == WrapperShape[c.purpose]
  IN /\ DOMAIN c.scope = shape.scope
     /\ (c.gen > 0) = shape.gen /\ (c.parent # NoParent) = shape.parent
     /\ c.rev > 0 /\ c.key_version > 0

wrap(key, recipient, c) == [to |-> recipient, key |-> key, context |-> c]

\* The box opens for its recipient, and only under the context it names.
unwrap(box, recipient, c) ==
  box.to = recipient /\ c.recipient = recipient /\ validate_wrapper_context(c) /\ box.context = c

DescriptorShape ==
  [memberSecret |-> EntryScope, entryDekByVaultKey |-> EntryScope, grantPayload |-> EntryAgentScope]

validate_descriptor(d) ==
  /\ DOMAIN d.scope = DescriptorShape[d.purpose]
  /\ d.rev > 0 /\ d.key_version > 0

\* Everything a descriptor says is authenticated ...
canonical_aad(d) == <<"PLDNV2AD", d>>
\* ... but the key depends on neither its revision nor its binding.
encode_kdf_context(d) ==
  [purpose |-> d.purpose, scope |-> d.scope, key_version |-> d.key_version, gen |-> d.gen]
derive_key(root, d) == <<root, encode_kdf_context(d)>>

seal(key, plain, aad) == [key |-> key, plain |-> plain, aad |-> aad]

\* Mutant: the descriptor of an envelope is not authenticated.
OpensWithoutContext(key, payload, aad) == payload.key = key

open(key, payload, aad) == payload.key = key /\ payload.aad = aad

compute_field_set_commitment(ids) == <<"PLDNV2FS", ids>>

----
(* The objects, as the members make them. *)

VaultKey(v) == <<"vault key", v>>
EntryKey(e, k) == <<"entry key", e, k>>
FullGrant == "full grant"
EntryGrant == "entry grant"
ScriptGrant == "script grant"

VaultKeyContext(epoch, v) ==
  [purpose |-> "agentVaultKey", scope |-> [vault |-> "vault", grant |-> FullGrant, agent |-> Agent],
   rev |-> epoch, key_version |-> v, gen |-> 0, recipient |-> Agent, parent |-> NoParent]

VaultKeyWrapper(epoch, v) ==
  [kind |-> "vault key", context |-> VaultKeyContext(epoch, v),
   box |-> wrap(VaultKey(v), Agent, VaultKeyContext(epoch, v))]

ScopeOf(e) == [vault |-> "vault", entry |-> e]

EntryKeyEnvelope(e, k, v) ==
  LET d == [purpose |-> "entryDekByVaultKey", scope |-> ScopeOf(e), rev |-> k, key_version |-> k,
            gen |-> k, binding |-> v]
  IN [kind |-> "entry key", descriptor |-> d,
      payload |-> seal(derive_key(VaultKey(v), d), EntryKey(e, k), canonical_aad(d))]

MemberSecretEnvelope(e, k, r, s) ==
  LET d == [purpose |-> "memberSecret", scope |-> ScopeOf(e), rev |-> r, key_version |-> k,
            gen |-> k, binding |-> 1]
  IN [kind |-> "member secret", descriptor |-> d,
      payload |-> seal(derive_key(EntryKey(e, k), d), [rev |-> r, secret |-> s], canonical_aad(d))]

MobileName == [f \in {"credential.username", "credential.password", "credential.url"} |->
                 CASE f = "credential.username" -> "username" [] f = "credential.password" -> "password"
                   [] OTHER -> "url"]

\* The member's client projects the policy of that revision into the payload;
\* a mobile client knows three fields, under names of its own.
GrantEnvelope(e, k, r, s, terms, mobile) ==
  LET granted == ProjectedFields(IF s.form = "v1" THEN s ELSE canonical_member_secret_projection(s))
      fields == IF mobile THEN {[x EXCEPT !.id = MobileName[x.id]] :
                                  x \in {y \in granted : y.id \in DOMAIN MobileName}}
                ELSE granted
      ids == {x.id : x \in fields}
      d == [purpose |-> "grantPayload",
            scope |-> [vault |-> "vault", entry |-> e, grant |-> EntryGrant, agent |-> Agent],
            rev |-> r, key_version |-> k, gen |-> k,
            binding |-> [entry_revision |-> r, methods |-> terms.methods, policy |-> terms.policy,
                         commitment |-> compute_field_set_commitment(ids)]]
      dek == <<"grant key", e, r, mobile>>
      c == [purpose |-> "grantDek", scope |-> d.scope, rev |-> r, key_version |-> k, gen |-> k,
            recipient |-> Agent, parent |-> canonical_aad(d)]
  IN [kind |-> "grant", descriptor |-> d, field_ids |-> ids, context |-> c,
      box |-> wrap(dek, Agent, c),
      payload |-> seal(derive_key(dek, d),
                       [rev |-> r, secret |-> s, body |-> [mobile |-> mobile, type |-> s.type,
                                                        fields |-> fields]],
                       canonical_aad(d))]

\* The script with the referenced fields of the entries as they are then.
ScriptPackage(w) ==
  LET s == w.entry[Script]
      manifest == [epoch |-> w.epoch, script_revision |-> s.rev,
                   references |-> {[env |-> r.env, entry |-> r.entry, field |-> r.field,
                                    rev |-> w.entry[r.entry].rev] : r \in s.secret.refs}]
      body(e) == LET all == ProjectedFields(w.entry[e].secret)
                 IN [mobile |-> FALSE, type |-> w.entry[e].secret.type,
                     fields |-> {x \in all : \E r \in manifest.references :
                                               r.entry = e /\ r.field = x.id}]
      scopes == {[entry |-> Script, rev |-> s.rev, is_script |-> TRUE]}
                  \cup {[entry |-> r.entry, rev |-> r.rev, is_script |-> FALSE] :
                          r \in manifest.references}
      transport == [grant |-> ScriptGrant, agent |-> Agent, epoch |-> w.epoch, script |-> Script,
                    script_revision |-> s.rev, package_revision |-> w.changes + 1,
                    digest |-> <<"digest", manifest>>, scopes |-> scopes]
      c == [purpose |-> "scriptExecutionDek",
            scope |-> [vault |-> "vault", entry |-> Script, grant |-> ScriptGrant, agent |-> Agent],
            rev |-> transport.package_revision, key_version |-> 1, gen |-> 0, recipient |-> Agent,
            parent |-> <<"transport", transport>>]
      dek == <<"package key", transport>>
      ciphertext == [package_revision |-> transport.package_revision, box |-> wrap(dek, Agent, c),
                     payload |-> seal(dek, [rev |-> s.rev, secret |-> s.secret,
                                            manifest |-> manifest,
                                            entries |-> {[entry |-> r.entry, rev |-> r.rev,
                                                          body |-> body(r.entry)] :
                                                           r \in manifest.references}],
                                      <<"transport", transport>>)]
  IN [kind |-> "package", transport |-> transport, ciphertext |-> ciphertext,
      signature |-> <<"signed", transport, ciphertext>>]

----
(* The members. *)

Current(w) ==
  {VaultKeyWrapper(w.epoch, w.vault_key)}
    \cup {EntryKeyEnvelope(e, w.entry[e].key, w.vault_key) : e \in Items}
    \cup {MemberSecretEnvelope(e, w.entry[e].key, w.entry[e].rev, w.entry[e].secret) : e \in Items}

NoCall == [at |-> "idle", path |-> "none", method |-> 0, early |-> FALSE, trusted |-> 0, floor |-> 0]
Nothing == [path |-> "none", rev |-> 0, true_rev |-> 0, epoch |-> 0, method |-> 0,
            terms |-> [methods |-> {}, policy |-> 0],
            secret |-> <<>>, fields |-> {}, env |-> {}]

Init ==
  /\ \E terms \in Terms :
       world = [epoch |-> 1, vault_key |-> 1, terms |-> terms, expired |-> FALSE, changes |-> 0,
                entry |-> [e \in Items |-> [rev |-> 1, key |-> 1, secret |-> Versions[e][1]]]]
  /\ made = Current(world)
  /\ anchor = 1
  /\ call = NoCall /\ given = Nothing

\* A member changes something; what is sealed anew joins what there is.
Change(w, objects) ==
  /\ world.changes < MaxChanges
  /\ world' = [w EXCEPT !.changes = world.changes + 1]
  /\ made' = made \cup objects
  /\ UNCHANGED <<anchor, call, given>>

Edit(e) ==
  \E i \in DOMAIN Versions[e] :
    LET w == [world EXCEPT !.entry[e].rev = @ + 1, !.entry[e].secret = Versions[e][i]]
    IN Change(w, Current(w))

Rekey(e) == LET w == [world EXCEPT !.entry[e].key = @ + 1] IN Change(w, Current(w))

RotateVault == LET w == [world EXCEPT !.vault_key = @ + 1] IN Change(w, Current(w))

\* The access of the agent is withdrawn and given again: a new epoch.
Reauthorize == LET w == [world EXCEPT !.epoch = @ + 1] IN Change(w, Current(w))

ApproveEntry ==
  LET l == world.entry[Login]
  IN \E mobile \in BOOLEAN :
       Change(world, {GrantEnvelope(Login, l.key, l.rev, l.secret, world.terms, mobile)})

ApproveScript == world.entry[Login].secret.form = "v1" /\ Change(world, {ScriptPackage(world)})

Expire == ~world.expired /\ Change([world EXCEPT !.expired = TRUE], {})

Members ==
  \/ \E e \in Items : Edit(e) \/ Rekey(e)
  \/ RotateVault \/ Reauthorize \/ ApproveEntry \/ ApproveScript \/ Expire

Of(kind) == {x \in made : x.kind = kind}

----
(* The agent. *)

\* With a reason to seal, the anchor is read before the wait for the approval.
Ask ==
  /\ call.at = "idle"
  /\ \E path \in {"entry", "full", "full script", "package"}, early \in BOOLEAN :
     \E method \in (IF path \in {"entry", "full"} THEN {Get, Exec, Inject} ELSE {Exec}) :
       /\ early => path \in {"entry", "full"}
       /\ call' = [at |-> "wait", path |-> path, method |-> method, early |-> early,
                   trusted |-> anchor, floor |-> anchor]
  /\ given' = Nothing
  /\ UNCHANGED <<world, made, anchor>>

\* A vault manifest of that epoch is verified against the anchor, and kept.
Trusts(epoch) == epoch \in anchor..world.epoch /\ anchor' = epoch

\* Another command of the agent refreshes the anchors.
Refresh == anchor < world.epoch /\ Trusts(world.epoch) /\ UNCHANGED <<world, made, call, given>>

Hand(result) == given' = result /\ call' = NoCall /\ UNCHANGED <<world, made>>

Refuse == call.at = "wait" /\ call' = NoCall /\ given' = Nothing /\ UNCHANGED <<world, made, anchor>>

validate_full_delivery_policy(terms, method) ==
  /\ method \in terms.methods
  /\ terms.policy = 1 => method = Exec
  /\ terms.policy = 2 => method = Inject

\* The epoch of the answer against the one trusted before or after the wait.
TrustedEpoch(claim) ==
  IF call.early THEN claim = call.trusted /\ UNCHANGED anchor ELSE Trusts(claim)

\* The wrapper of the answer, for this grant, this agent and this epoch.
OpenVaultKey(claim, context, box) ==
  /\ context.purpose = "agentVaultKey" /\ context.scope.grant = FullGrant
  /\ context.scope.agent = Agent /\ context.rev = claim
  /\ unwrap(box, Agent, context)

\* Descriptor d and payload p of the answer, under the vault key in the box.
OpenEntryKey(e, d, p, context, box) ==
  /\ d.scope = ScopeOf(e) /\ validate_descriptor(d)
  /\ d.binding = context.key_version
  /\ open(derive_key(box.key, d), p, canonical_aad(d))

OpenSecret(e, d, p, ed, dek) ==
  /\ d.scope = ScopeOf(e) /\ validate_descriptor(d)
  /\ d.key_version = ed.key_version /\ d.gen = ed.gen
  /\ open(derive_key(dek, d), p, canonical_aad(d))

\* What the entry key and the member secret of an answer may open to: every way
\* to put descriptors and ciphertexts together that the checks let pass.
Openings(e, context, box) ==
  UNION {{[rev |-> s[1].descriptor.rev, plain |-> s[2].payload.plain] :
            s \in {t \in Of("member secret") \X Of("member secret") :
                     OpenSecret(e, t[1].descriptor, t[2].payload, k[1].descriptor,
                                k[2].payload.plain)}} :
         k \in {t \in Of("entry key") \X Of("entry key") :
                  OpenEntryKey(e, t[1].descriptor, t[2].payload, context, box)}}

\* decrypt_full_credential.
DeliverFull ==
  /\ call.at = "wait" /\ call.path = "full"
  /\ validate_full_delivery_policy(world.terms, call.method) /\ ~world.expired
  /\ \E w, b \in Of("vault key") :
       LET claim == w.context.rev
       IN /\ TrustedEpoch(claim)
          /\ OpenVaultKey(claim, w.context, b.box)
          /\ \E o \in Openings(Login, w.context, b.box) :
               LET normalized == normalize_full_member_secret(o.plain.secret, call.method)
               IN /\ normalized.ok
                  /\ Hand([Nothing EXCEPT !.path = "full", !.rev = o.rev, !.true_rev = o.plain.rev,
                             !.epoch = claim, !.method = call.method, !.terms = world.terms,
                             !.secret = o.plain.secret, !.fields = normalized.fields])

\* The descriptor of a granular envelope against the request.
to_descriptor(d, ids) ==
  /\ d.binding.methods = world.terms.methods
  /\ validate_full_delivery_policy([methods |-> d.binding.methods, policy |-> d.binding.policy],
                                   call.method)
  /\ d.scope = [vault |-> "vault", entry |-> Login, grant |-> EntryGrant, agent |-> Agent]
  /\ ids # {} /\ d.binding.commitment = compute_field_set_commitment(ids)
  /\ ~world.expired

WrapperMatches(c, d) ==
  /\ c.purpose = "grantDek" /\ c.scope = d.scope /\ c.rev = d.rev
  /\ c.key_version = d.key_version /\ c.gen = d.gen /\ c.parent = canonical_aad(d)

\* decrypt_credential.
DeliverEntry ==
  /\ call.at = "wait" /\ call.path = "entry"
  /\ IF call.early THEN UNCHANGED anchor ELSE \E epoch \in anchor..world.epoch : Trusts(epoch)
  /\ \E x, w, p \in Of("grant") :
       LET d == x.descriptor
           plain == p.payload.plain
           normalized == normalize_grant_payload(plain.body, x.field_ids, call.method)
       IN /\ to_descriptor(d, x.field_ids)
          /\ WrapperMatches(w.context, d) /\ unwrap(w.box, Agent, w.context)
          /\ open(derive_key(w.box.key, d), p.payload, canonical_aad(d))
          /\ normalized.ok
          /\ Hand([Nothing EXCEPT !.path = "entry", !.rev = d.binding.entry_revision,
                     !.true_rev = plain.rev, !.epoch = anchor, !.method = call.method,
                     !.terms = [methods |-> d.binding.methods, policy |-> d.binding.policy],
                     !.secret = plain.secret, !.fields = normalized.fields])

\* decrypt_full_script_member_secret, at the revision the answer gives.
FullScriptSecrets(e, rev, context, box) ==
  {o \in Openings(e, context, box) :
     ~world.expired /\ o.rev = rev /\ validate_full_script_member_secret(o.plain.secret)}

\* A script under a full grant: the script first, then the entry it names.  The
\* producer signed the wrapper as a whole.  The delivery policies compared here
\* are the answer's own word: an answer with other ones is a Refuse.
RunFull ==
  /\ call.at = "wait" /\ call.path = "full script"
  /\ \E w \in Of("vault key"), rev \in 1..world.entry[Script].rev,
        login_rev \in 1..world.entry[Login].rev :
       LET claim == w.context.rev
       IN /\ Trusts(claim)
          /\ OpenVaultKey(claim, w.context, w.box)
          /\ \E s \in FullScriptSecrets(Script, rev, w.context, w.box),
                l \in FullScriptSecrets(Login, login_rev, w.context, w.box) :
               LET refs == s.plain.secret.refs
               IN /\ parse_member_script(s.plain.secret)
                  /\ \A r \in refs : /\ r.entry = Login
                                     /\ resolve_script_reference_member_field(l.plain.secret, r.field)
                  /\ Hand([Nothing EXCEPT !.path = "full script", !.rev = rev,
                             !.true_rev = s.plain.rev, !.epoch = claim, !.method = Exec,
                             !.secret = s.plain.secret,
                             !.env = {[env |-> r.env, entry |-> r.entry, field |-> r.field,
                                       rev |-> login_rev, true_rev |-> l.plain.rev,
                                       mode |-> l.plain.secret.access[r.field]] : r \in refs}])

validate_transport(t, claim) ==
  /\ t.grant = ScriptGrant /\ t.agent = Agent /\ t.script = Script /\ t.epoch = claim
  /\ \A x, y \in t.scopes : x.entry = y.entry => x = y
  /\ {x \in t.scopes : x.is_script}
       = {[entry |-> Script, rev |-> t.script_revision, is_script |-> TRUE]}

validate_manifest(m) ==
  /\ \A r \in m.references : r.entry # Script
  /\ \A r, q \in m.references : r.env = q.env => r = q

structural_scopes(m) ==
  {[entry |-> Script, rev |-> m.script_revision, is_script |-> TRUE]}
    \cup {[entry |-> r.entry, rev |-> r.rev, is_script |-> FALSE] : r \in m.references}

validate_opened(t, p) ==
  LET m == p.manifest
  IN /\ validate_manifest(m)
     /\ t.epoch = m.epoch /\ t.script_revision = m.script_revision
     /\ t.digest = <<"digest", m>>
     /\ \A r, q \in m.references : r.entry = q.entry => r.rev = q.rev
     /\ {[entry |-> r.entry, rev |-> r.rev] : r \in m.references}
          = {[entry |-> x.entry, rev |-> x.rev] : x \in p.entries}
     /\ Cardinality(p.entries) = Cardinality({x.entry : x \in p.entries})
     /\ \A x \in p.entries :
          /\ x.body.fields # {}
          /\ {y.id : y \in x.body.fields}
               = {r.field : r \in {q \in m.references : q.entry = x.entry}}
     /\ structural_scopes(m) = t.scopes

\* open_script_execution_package, then the environment from its manifest.
RunPackage ==
  /\ call.at = "wait" /\ call.path = "package"
  /\ \E x, c, g \in Of("package") :
       LET t == x.transport
           ciphertext == c.ciphertext
           plain == ciphertext.payload.plain
           context == [purpose |-> "scriptExecutionDek",
                       scope |-> [vault |-> "vault", entry |-> t.script, grant |-> t.grant,
                                  agent |-> t.agent],
                       rev |-> t.package_revision, key_version |-> 1, gen |-> 0,
                       recipient |-> Agent, parent |-> <<"transport", t>>]
       IN /\ validate_transport(t, t.epoch)
          /\ g.signature = <<"signed", t, ciphertext>>
          /\ ciphertext.package_revision = t.package_revision
          /\ unwrap(ciphertext.box, Agent, context)
          /\ open(ciphertext.box.key, ciphertext.payload, <<"transport", t>>)
          /\ validate_opened(t, plain)
          /\ \A r \in plain.manifest.references : \E y \in plain.entries :
               y.entry = r.entry /\ y.rev = r.rev /\ resolve_grant_payload_field(y.body, r.field)
          /\ Trusts(t.epoch)
          /\ Hand([Nothing EXCEPT !.path = "package", !.rev = t.script_revision,
                     !.true_rev = plain.rev, !.epoch = t.epoch, !.method = Exec,
                     !.secret = plain.secret,
                     !.env = {[env |-> r.env, entry |-> r.entry, field |-> r.field, rev |-> r.rev,
                               true_rev |-> r.rev, mode |-> "onGrantValue"] :
                                r \in plain.manifest.references}])

Next == Members \/ Ask \/ Refresh \/ Refuse \/ DeliverFull \/ DeliverEntry \/ RunFull \/ RunPackage

Spec == Init /\ [][Next]_vars

----
(* Properties. *)

TypeOK ==
  /\ world.changes \in 0..MaxChanges /\ anchor \in 1..world.epoch
  /\ call.at \in {"idle", "wait"} /\ call.floor <= anchor
  /\ given.path \in {"none", "entry", "full", "full script", "package"}

\* The revision reported with a secret is the revision of the plaintext that was
\* opened, and so is that of every referenced value of a script, although keys
\* do not depend on revisions and the service may answer with old descriptors
\* and ciphertexts in any combination (deliver_credential takes the revision
\* from the descriptor, execute_atomic_script from the answer).
RevisionIsTrue ==
  given.rev = given.true_rev /\ \A v \in given.env : v.rev = v.true_rev

\* What is opened was sealed under the access epoch the agent trusts, never under
\* one older than the anchor it held when it asked: an answer from before the
\* access was withdrawn and given again opens nothing (decrypt_full_credential's
\* trusted_agent_access_epoch, the anchor lookup of execute_atomic_script).
EpochIsTrusted ==
  [][given' # Nothing /\ given' # given =>
       given'.epoch >= call.floor /\ given'.epoch <= anchor']_vars

\* A delivered field is one that the policy of the very revision opened grants
\* for this method: never a field that is only discoverable or hidden, a runtime
\* field only to a script, an inject only together with a login address; and a
\* value in a script's environment is what the opened script references.
PolicyHonoured ==
  LET s == given.secret
      v1 == IF s.form = "v1" THEN s ELSE canonical_member_secret_projection(s)
      granted == UNION {public_grant_field_id(v1.type, f) :
                          f \in {g \in DOMAIN v1.access : v1.access[g] \in OnGrant}}
      names == granted \cup {MobileName[f] : f \in granted \cap DOMAIN MobileName}
  IN given # Nothing =>
       IF given.path \in {"entry", "full"}
       THEN /\ given.fields \subseteq names
            /\ given.method \in given.terms.methods
            /\ given.method = Inject => given.fields \cap {"key.url", "credential.url", "url"} # {}
       ELSE /\ {[env |-> v.env, entry |-> v.entry, field |-> v.field] : v \in given.env} = s.refs
            /\ \A v \in given.env : v.mode # "never"
====
