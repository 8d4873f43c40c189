----------------------------- MODULE MCDiscovery ------------------------------
(***************************************************************************)
(* What the agent learns and opens of the vaults, in one run: `scenario'   *)
(* picks the discovery index (DiscoverySync) or the opening of sealed      *)
(* credentials and scripts (Envelopes), and the machine it picks runs      *)
(* alone.                                                                  *)
(***************************************************************************)
EXTENDS DiscoverySync, FieldPolicy, TLC

CONSTANTS Script, Login

VARIABLES
    scenario,
    world, made, anchor, request, given

\* Processes, calls, profiles and entries are interchangeable.
Symmetry == Permutations(Procs) \union Permutations(Calls) \union Permutations(Entries)
            \union Permutations(Profiles)

\* A login whose fields have the given modes; the rest of its policy is fixed.
LoginV1(user, pass, url, totp, notes, customs, custom, odd) ==
  [form |-> "v1", type |-> "credential", disc |-> TRUE, label |-> TRUE, refs |-> {}, odd |-> odd,
   customs |-> customs,
   access |-> [f \in Common \cup Own("credential") \cup {"notes"}
                     \cup {customs[i].id : i \in DOMAIN customs} |->
     CASE f \in {"agentLabel", "entryType"} -> "discovery"
       [] f = "credential.username" -> user
       [] f = "credential.password" -> pass
       [] f = "credential.url" -> url
       [] f = "credential.totp" -> totp
       [] f = "notes" -> notes
       [] f = "custom:1" -> custom
       [] OTHER -> "never"]]

\* The same in the form with codes, discovery off.
LoginCanonical(user, pass, url) ==
  [form |-> "canonical", type |-> "credential", disc |-> FALSE, label |-> FALSE, refs |-> {},
   odd |-> <<>>, customs |-> <<[id |-> "custom:1", kind |-> "concealed"]>>,
   access |-> [f \in CanonicalBuiltins("credential") |->
     CASE f \in DOMAIN CanonicalFixed -> CanonicalFixed[f]
       [] f = "credential.username" -> user
       [] f = "credential.password" -> pass
       [] f = "credential.url" -> url
       [] OTHER -> "never"]]

ScriptOf(refs) ==
  [form |-> "v1", type |-> "script", disc |-> FALSE, label |-> FALSE, refs |-> refs, odd |-> <<>>,
   customs |-> <<>>,
   access |-> [f \in Common \cup Own("script") \cup {"notes"} |->
     IF f \in {"script.source", "script.refs"} THEN "onGrantRuntime" ELSE "never"]]

Ref(env, field) == [env |-> env, entry |-> Login, field |-> field]

VersionsMC ==
  (Login :> <<LoginV1("onGrantValue", "onGrantValue", "onGrantValue", "never", "never", <<>>, "never", <<>>),
              LoginV1("discovery", "onGrantValue", "never", "onGrantDerived", "never",
                      <<[id |-> "custom:1", kind |-> "text"]>>, "discovery",
                      "credential.totp" :> "null"),
              LoginCanonical("onGrantValue", "onGrantValue", "never")>>)
    @@ (Script :> <<ScriptOf({Ref("A", "credential.password")}),
                    ScriptOf({Ref("A", "credential.username"), Ref("B", "credential.password")})>>)

TermsMC == {[methods |-> {Get, Exec, Inject}, policy |-> 0], [methods |-> {Exec}, policy |-> 1],
            [methods |-> {Get, Inject}, policy |-> 2]}

\* Every policy one can write for a key with one custom field, legal or not.
KeySecrets ==
  {[form |-> "v1", type |-> "key", disc |-> FALSE, label |-> FALSE, refs |-> {},
    customs |-> <<[id |-> "custom:1", kind |-> kind]>>,
    odd |-> IF url = "value" THEN <<>> ELSE "key.url" :> url,
    access |-> [f \in Common \cup Own("key") \cup {"notes", "custom:1"} |->
      CASE f = "key.value" -> m[1] [] f = "key.url" -> m[2] [] f = "notes" -> m[3]
        [] f = "custom:1" -> m[4] [] OTHER -> "never"]] :
   kind \in {"text", "totp", "signin", "unknown"}, url \in {"value", "null", "empty"},
   m \in Modes \X Modes \X Modes \X Modes}

\* A full grant of a key hands over exactly the fields its policy opens on a
\* grant and that have a value, or nothing at all; a custom field only in the
\* mode that belongs to its kind (normalize_projected_member_secret against the
\* policy read directly).
ASSUME KeyPolicyExact ==
  \A s \in KeySecrets, method \in {Get, Exec, Inject} :
    LET r == normalize_full_member_secret(s, method)
        opened == {f \in {"key.value", "key.url", "notes", "custom:1"} : s.access[f] \in OnGrant}
        name(f) == IF f = "notes" THEN "key.notes" ELSE f
    IN r.ok => /\ r.fields = {name(f) : f \in opened} \ {f \in DOMAIN s.odd : s.odd[f] = "null"}
               /\ s.access["custom:1"] = "onGrantDerived" <=>
                    ("custom:1" \in r.fields /\ s.customs[1].kind = "totp")

E == INSTANCE Envelopes WITH Versions <- VersionsMC, Terms <- TermsMC, call <- request

sealedVars == <<world, made, anchor, request, given>>
all == <<scenario, vars, sealedVars>>

Unused == "unused"
NoSealed ==
    /\ world = Unused /\ made = Unused /\ anchor = Unused /\ request = Unused /\ given = Unused

\* The machine of DiscoverySync rests in an initial state while another runs.
InitOne ==
    /\ Init
    /\ \/ scenario = "index" /\ NoSealed
       \/ scenario = "sealed" /\ E!Init

InIndex == scenario = "index" /\ UNCHANGED <<scenario, sealedVars>>
InSealed == scenario = "sealed" /\ UNCHANGED <<scenario, vars>>

NextOne ==
    \/ InIndex /\ Next
    \/ InSealed /\ E!Next

SpecOne == InitOne /\ [][NextOne]_all

-----------------------------------------------------------------------------
\* The revision reported with a secret is the revision of the plaintext that
\* was opened, and so is that of every referenced value of a script, whatever
\* old descriptors and ciphertexts the service combines
\* (deliver_credential, execute_atomic_script).
RevisionIsTrue == scenario = "sealed" => E!RevisionIsTrue

\* A delivered field is one that the policy of the very revision opened grants
\* for this method (normalize_full_member_secret, normalize_grant_payload).
PolicyHonoured == scenario = "sealed" => E!PolicyHonoured

=============================================================================
