------------------------------ MODULE ApiTypes ------------------------------
(***************************************************************************)
(* How the answer to a request for a credential, and a script package, are *)
(* decoded (palladin-api/src/types.rs), over the fields that are present.  *)
(***************************************************************************)
Material == [granular |-> {"grant_envelope"}, full |-> {"agent_wrapped_vault_key", "entry_key", "member_secret"}]
Scope == {"ids", "approved_methods", "delivery_policy", "expires_at"}
Hints == {"created", "poll_interval_ms", "max_wait_ms"}
Refusals == {"denied", "revoked", "expired", "consumed", "method-not-allowed", "script-exec-only", "unavailable", "blocked"}

\* CredentialAccess::deserialize over the fields that are present; an
\* expiry that is null is present in a grant and absent elsewhere.
deserialize(access, present, grant_type, null_expiry) ==
    LET granted == present \cap (Scope \cup Material.granular \cup Material.full \cup {"grant_type"})
        fields_absent == granted \ (IF null_expiry THEN {"expires_at"} ELSE {}) = {}
    IN CASE access = "granted" ->
              IF /\ present \cap Hints = {}
                 /\ "grant_type" \in present
                 /\ present \cap (Material.granular \cup Material.full) =
                      IF grant_type = "granular" THEN Material.granular ELSE Material.full
                 /\ Scope \cup {"grant_id"} \subseteq present
                THEN grant_type ELSE "invalid"
         [] access = "pending" -> IF fields_absent /\ "grant_id" \in present THEN "pending" ELSE "invalid"
         [] access \in Refusals -> IF fields_absent /\ present \cap (Hints \cup {"grant_id"}) = {} THEN access ELSE "invalid"
         [] OTHER -> "invalid"

\* ScriptExecutionPackageResponse::validate.
validate(status, epoch, count, source, present) ==
    /\ status = "granted" /\ epoch # 0 /\ count # 0
    /\ \/ source = "scriptExecution" /\ present = {"script_package"}
       \/ source = "full" /\ present = {"agent_wrapped_vault_key", "vault_entries"}

-----------------------------------------------------------------------------
Fields == Scope \cup Hints \cup Material.granular \cup Material.full \cup {"grant_type", "grant_id"}

\* An answer is a grant exactly when it has every field of its kind and no
\* field of the other kind or of a pending one, and a refusal exactly when
\* nothing is granted with it.
ASSUME AccessIsExact ==
    \A present \in SUBSET Fields, grant_type \in {"granular", "full"} :
       /\ deserialize("granted", present, grant_type, FALSE) = grant_type <=>
             present = Scope \cup {"grant_type", "grant_id"} \cup Material[grant_type]
       /\ deserialize("denied", present, grant_type, FALSE) = "denied" <=> present = {}
       /\ deserialize("denied", present, grant_type, TRUE) = "denied" <=> present \subseteq {"expires_at"}
       /\ deserialize("pending", present, grant_type, FALSE) = "pending" <=>
             "grant_id" \in present /\ present \subseteq Hints \cup {"grant_id"}

\* A script package is of one kind.
ASSUME PackageIsExact ==
    \A source \in {"scriptExecution", "full", "other"},
       present \in SUBSET {"script_package", "agent_wrapped_vault_key", "vault_entries"} :
       validate("granted", 1, 1, source, present) => ("script_package" \in present) = (source = "scriptExecution")

=============================================================================
