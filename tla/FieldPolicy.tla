---- MODULE FieldPolicy ----
(* What the owner of an entry lets an agent have of it: from the decrypted
   member secret, with its visibility policy, to the grant payload that is
   handed over (palladin-crypto, envelope.rs), and from there to the fields a
   script may reference (palladin-credential, secret.rs).  Pure operators.

   A member secret is abstracted to
     [form    |-> "v1" (labels) or "canonical" (codes, other field names),
      type    |-> one of EntryTypes,
      disc    |-> discovery is enabled,     label |-> it has an agent label,
      access  |-> field id -> mode,         refs  |-> a script's references,
      customs |-> sequence of [id, kind],
      odd     |-> payload id -> "null", "empty" or "bad" where the value is not
                  an ordinary one].
   Strings, their encoding and their canonical order are left out: a set of
   fields stands for the strictly sorted list the code insists on. *)
EXTENDS Naturals, Sequences, FiniteSets

EntryTypes == {"key", "credential", "script", "creditCard"}
Modes == {"never", "discovery", "onGrantValue", "onGrantDerived", "onGrantRuntime"}
OnGrant == {"onGrantValue", "onGrantDerived", "onGrantRuntime"}

\* The three delivery methods: get, exec and inject.
Get == 1
Exec == 2
Inject == 4

CustomIds(s) == {s.customs[i].id : i \in DOMAIN s.customs}
\* The first custom field with this id, the one `find` returns.
Custom(s, f) == s.customs[CHOOSE i \in DOMAIN s.customs :
                   s.customs[i].id = f /\ \A j \in 1..(i - 1) : s.customs[j].id # f]
ValueOf(s, f) == IF f \in DOMAIN s.odd THEN s.odd[f] ELSE "value"

Common == {"memberLabel", "agentLabel", "description", "icon", "color", "entryType"}

Own(t) ==
  CASE t = "key"        -> {"key.value", "key.url"}
    [] t = "credential" -> {"credential.username", "credential.password", "credential.url",
                            "credential.urlDomain", "credential.totp"}
    [] t = "script"     -> {"script.source", "script.interpreter", "script.refs"}
    [] t = "creditCard" -> {"creditCard.cardholderName", "creditCard.cardNumber",
                            "creditCard.expiryMonth", "creditCard.expiryYear",
                            "creditCard.billingAddress"}

\* What a policy may say of a field.
allowed_access_modes(s, f) ==
  CASE f \in {"memberLabel", "icon", "color"} -> {"never"}
    [] f \in {"agentLabel", "entryType", "description"} -> {"never", "discovery"}
    [] f \in {"key.value", "key.url", "credential.password", "credential.url"} ->
         {"never", "onGrantValue"}
    [] f \in {"credential.username", "credential.urlDomain"} ->
         {"never", "discovery", "onGrantValue"}
    [] f = "credential.totp" -> {"never", "onGrantDerived"}
    [] f \in {"script.source", "script.refs"} \cup Own("creditCard") ->
         {"never", "onGrantRuntime"}
    [] f = "script.interpreter" -> {"never", "discovery", "onGrantRuntime"}
    [] f = "notes" -> IF s.type \in {"script", "creditCard"} THEN {"never", "onGrantRuntime"}
                      ELSE {"never", "onGrantValue", "onGrantRuntime"}
    [] OTHER ->
         LET kind == Custom(s, f).kind
         IN CASE kind = "signin" /\ s.type = "credential" /\ ValueOf(s, f) # "bad" ->
                   {"never", "discovery"}
              [] kind = "totp" -> {"never", "onGrantDerived"}
              [] kind \in {"text", "multiline", "concealed"} ->
                   IF s.type \in {"script", "creditCard"} THEN {"never", "onGrantRuntime"}
                   ELSE {"never", "discovery", "onGrantValue"}
              [] OTHER -> {"never"}

validate_custom_fields(s) == Len(s.customs) = Cardinality(CustomIds(s))

validate_agent_field_access(s) ==
  LET builtins == Common \cup Own(s.type) \cup {"notes"}
      seen == IF s.disc THEN "discovery" ELSE "never"
  IN /\ DOMAIN s.access = builtins \cup CustomIds(s)
     /\ s.disc = s.label
     /\ s.access["agentLabel"] = seen /\ s.access["entryType"] = seen
     /\ \A f \in DOMAIN s.access : s.access[f] \in allowed_access_modes(s, f)

\* The form with codes names the common fields otherwise and always lists them.
CanonicalCommon == {"common.member-label", "common.agent-label", "common.entry-type",
                    "common.capabilities", "common.icon-reference", "common.search-fields",
                    "common.description"}

CanonicalNotes(t) == CASE t = "key" -> "key.notes" [] t = "credential" -> "credential.notes"
                       [] t = "script" -> "script.notes"

CanonicalBuiltins(t) ==
  CanonicalCommon \cup {CanonicalNotes(t)}
    \cup (IF t = "credential" THEN (Own(t) \ {"credential.urlDomain"}) \cup {"credential.url-domain"}
          ELSE Own(t))

\* The fields whose access the canonical form does not leave open.
CanonicalFixed ==
  [f \in CanonicalCommon \ {"common.description"} |->
     IF f \in {"common.agent-label", "common.entry-type", "common.capabilities"}
     THEN "discovery" ELSE "never"]

LegacyName ==
  [f \in {"common.member-label", "common.agent-label", "common.description",
          "common.entry-type", "common.icon-reference", "credential.url-domain",
          "key.notes", "credential.notes", "script.notes"} |->
     CASE f = "common.member-label" -> "memberLabel"
       [] f = "common.agent-label" -> "agentLabel"
       [] f = "common.description" -> "description"
       [] f = "common.entry-type" -> "entryType"
       [] f = "common.icon-reference" -> "icon"
       [] f = "credential.url-domain" -> "credential.urlDomain"
       [] OTHER -> "notes"]

CanonicalContent(s) ==
  /\ s.type \in {"key", "credential", "script"}
  /\ \A i \in DOMAIN s.customs :
       s.customs[i].kind \in {"text", "multiline", "concealed", "totp", "unknown"}
  /\ s.disc => s.label

CanonicalPolicy(s) ==
  /\ CanonicalBuiltins(s.type) \subseteq DOMAIN s.access
  /\ DOMAIN s.access \subseteq CanonicalBuiltins(s.type) \cup CustomIds(s)
  /\ \A f \in DOMAIN CanonicalFixed : s.access[f] = CanonicalFixed[f]
  /\ s.access["common.description"] \in {"never", "discovery"}

\* The same secret in the "v1" form; a custom field the policy omits is "never".
canonical_member_secret_projection(s) ==
  LET kept == {f \in DOMAIN s.access : f \notin {"common.capabilities", "common.search-fields"}}
      name(f) == IF f \in DOMAIN LegacyName THEN LegacyName[f] ELSE f
      mode(n) == LET f == CHOOSE f \in kept : name(f) = n
                 IN IF ~s.disc /\ n \in {"agentLabel", "entryType"} THEN "never" ELSE s.access[f]
      named == {name(f) : f \in kept}
  IN [s EXCEPT !.form = "v1", !.label = s.disc,
        !.access = [n \in named \cup CustomIds(s) \cup {"color"} |->
                      IF n \in named THEN mode(n) ELSE "never"]]

\* The id under which a policy field travels in a grant payload, or none.
public_grant_field_id(t, f) ==
  CASE f \in {"key.value", "key.url", "credential.username", "credential.password",
              "credential.url", "credential.totp", "script.source", "script.refs"} -> {f}
    [] f = "notes" /\ t # "creditCard" -> {CanonicalNotes(t)}
    [] f \in Common \cup Own(t) \cup {"notes"} -> {}
    [] OTHER -> IF t = "creditCard" THEN {} ELSE {f}

\* The kind of a field's value.
member_secret_field(s, f) ==
  CASE f \in CustomIds(s) -> Custom(s, f).kind
    [] f \in {"key.value", "credential.password"} -> "concealed"
    [] f \in {"key.url", "credential.url"} -> "url"
    [] f = "credential.totp" -> "totp"
    [] f \in {"key.notes", "credential.notes", "script.notes"} -> "multiline"
    [] f = "script.source" -> "script"
    [] f = "script.refs" -> "refs"
    [] OTHER -> "text"

\* The mode a field of this type and kind has to travel with.
expected_field(t, f, kind) ==
  CASE f \in {"script.source", "script.refs", "script.notes"} -> "onGrantRuntime"
    [] f = "credential.totp" -> "onGrantDerived"
    [] f \in {"key.value", "key.url", "key.notes", "credential.username",
              "credential.password", "credential.url", "credential.notes"} -> "onGrantValue"
    [] kind = "totp" -> "onGrantDerived"
    [] kind \in {"text", "multiline", "concealed"} ->
         IF t = "script" THEN "onGrantRuntime" ELSE "onGrantValue"
    [] OTHER -> "none"

Optional == {"key.url", "key.notes", "credential.url", "credential.notes", "script.notes",
             "credential.totp"}

Refused == [ok |-> FALSE, fields |-> {}]

\* The payload of the mobile clients: plain login fields, for an inject only.
normalize_legacy_mobile_grant_payload(p, ids, method) ==
  IF /\ p.type = "credential" /\ method = Inject
     /\ ids = {x.id : x \in p.fields}
     /\ \A x \in p.fields : /\ x.id \in {"password", "url", "username"}
                            /\ x.mode = "onGrantValue" /\ x.value \in {"value", "empty"}
     /\ \E x \in p.fields : x.id = "url"
  THEN [ok |-> TRUE, fields |-> ids]
  ELSE Refused

\* A payload is [mobile, type, fields]; a field is [id, kind, mode, value].  An inject
\* needs a login address, a field that is null is left out.
normalize_grant_payload(p, ids, method) ==
  LET legal(x) ==
        /\ x.mode = expected_field(p.type, x.id, x.kind)
        /\ x.mode = "onGrantRuntime" => p.type = "script" /\ method = Exec
        /\ x.value # "bad"
        /\ x.value = "null" => x.id \in Optional
      origin == \E x \in p.fields : x.id \in {"key.url", "credential.url"} /\ x.value = "value"
  IN IF p.mobile THEN normalize_legacy_mobile_grant_payload(p, ids, method)
     ELSE IF /\ p.type \in {"key", "credential", "script"}
             /\ p.fields # {} /\ ids = {x.id : x \in p.fields}
             /\ method \in {Get, Exec, Inject}
             /\ p.type = "script" => method = Exec
             /\ \A x \in p.fields : legal(x)
             /\ method = Inject => origin
     THEN [ok |-> TRUE, fields |-> {x.id : x \in {y \in p.fields : y.value # "null"}}]
     ELSE Refused

\* The fields a full grant hands over: those the policy opens on a grant.
ProjectedFields(s) ==
  UNION {{[id |-> id, kind |-> member_secret_field(s, id), mode |-> s.access[f],
           value |-> ValueOf(s, id)] : id \in public_grant_field_id(s.type, f)} :
         f \in {g \in DOMAIN s.access : s.access[g] \in OnGrant}}

normalize_projected_member_secret(s, method) ==
  LET fields == ProjectedFields(s)
  IN IF /\ s.type \in EntryTypes /\ validate_custom_fields(s)
        /\ validate_agent_field_access(s) /\ fields # {}
     THEN normalize_grant_payload([mobile |-> FALSE, type |-> s.type, fields |-> fields],
                                  {x.id : x \in fields}, method)
     ELSE Refused

normalize_full_member_secret(s, method) ==
  IF s.form = "v1" THEN normalize_projected_member_secret(s, method)
  ELSE IF CanonicalContent(s) /\ CanonicalPolicy(s)
       THEN normalize_projected_member_secret(canonical_member_secret_projection(s), method)
       ELSE Refused

validate_raw_member_secret(s) == validate_custom_fields(s) /\ validate_agent_field_access(s)

\* What the full path of a script accepts as a member secret.
validate_full_script_member_secret(s) ==
  IF s.form = "v1" THEN validate_raw_member_secret(s)
  ELSE CanonicalContent(s) /\ CanonicalPolicy(s)

\* Only the "v1" form is parsed as a script; it needs its execution metadata.
parse_member_script(s) == s.form = "v1" /\ s.type = "script"

\* A field a script references by name: anything the policy does not forbid.
resolve_script_reference_member_field(s, f) ==
  /\ s.form = "v1" /\ f \in DOMAIN s.access /\ s.access[f] \in Modes \ {"never"}
  /\ f \in {"key.value", "credential.username", "credential.password", "credential.url",
            "credential.totp", "script.source", "script.interpreter", "notes"}
             \cup Own("creditCard") \cup CustomIds(s)
  /\ ValueOf(s, f) \notin {"null", "bad"}

\* A field of the payload a script package carries for one entry.
resolve_grant_payload_field(p, f) ==
  /\ p.type \in {"key", "credential", "script"} /\ p.fields # {}
  /\ \A x \in p.fields : x.mode = expected_field(p.type, x.id, x.kind)
  /\ \E x \in p.fields : x.id = f /\ x.value \notin {"null", "bad"}
====
