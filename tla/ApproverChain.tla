----------------------------- MODULE ApproverChain -----------------------------
(***************************************************************************)
(* The verification of an organization's approver manifests               *)
(* (palladin-crypto/src/submission.rs).  A manifest names a key version    *)
(* and a signing key; it is signed by that key, and a manifest that        *)
(* introduces the next version by rotation carries a continuity signature  *)
(* of the previous key (cont).  Signatures and fingerprints of other keys  *)
(* cannot be produced, so a key is its name; the message key belongs to    *)
(* the signing key.  A pin is what the signed profile remembers.           *)
(***************************************************************************)
EXTENDS Integers, Sequences

CONSTANTS None   \* no pin, no continuity signature

LOCAL INSTANCE SequencesExt

ManifestsOf(Revs, Vers, Keys) ==
    [rev : Revs, ver : Vers, key : Keys, cont : Keys \cup {None}]

PinOf(m) == [rev |-> m.rev, ver |-> m.ver, key |-> m.key]

Verified(pin) == [why |-> "ok", pin |-> pin]
Refused(why) == [why |-> why, pin |-> None]

\* One manifest of a batch against the pin so far.
VerifyNext(pin, m) ==
    IF m.cont # None /\ m.ver = 1 THEN Refused("continuity")
    ELSE IF pin = None THEN Verified(PinOf(m))
    ELSE IF m.rev <= pin.rev THEN Refused("rollback")
    ELSE IF m.ver = pin.ver
      THEN IF m.key # pin.key \/ m.cont # None THEN Refused("signature") ELSE Verified(PinOf(m))
    ELSE IF m.ver = pin.ver + 1
      THEN IF m.cont = None THEN Refused("reintroduction")
           ELSE IF m.cont # pin.key THEN Refused("continuity") ELSE Verified(PinOf(m))
    ELSE Refused("skip")

\* verify_approver_manifest_chain: the next pin, or why there is none.
VerifyChain(ms, pin) ==
    FoldLeft(LAMBDA acc, m : IF acc.why = "ok" THEN VerifyNext(acc.pin, m) ELSE acc,
             Verified(pin), ms)

\* approver_reintroduction_candidate: the key an operator is shown.
Candidates(ms, pin) ==
    {i \in 1 .. Len(ms) : /\ pin # None
                          /\ ms[i].cont = None
                          /\ ms[i].ver > pin.ver /\ ms[i].rev > pin.rev}

Candidate(ms, pin) ==
    LET is == Candidates(ms, pin)
    IN IF is = {} THEN None ELSE ms[CHOOSE i \in is : \A j \in is : i <= j].key

\* reintroduce_approver_manifest: the operator confirmed the signing key.
Reintroduce(ms, pin, key) ==
    LET at == {i \in 1 .. Len(ms) : ms[i].key = key /\ ms[i].cont = None}
        i == CHOOSE j \in at : \A k \in at : j <= k
        before == VerifyChain(SubSeq(ms, 1, i - 1), pin)
    IN IF at = {} THEN Refused("reintroduction")
       ELSE IF before.why # "ok" THEN before
       ELSE IF ms[i].rev <= before.pin.rev \/ ms[i].ver # before.pin.ver + 1
         THEN Refused("reintroduction")
       ELSE VerifyChain(SubSeq(ms, i, Len(ms)), None)
=============================================================================
