----------------------------- MODULE MCSubmissions ----------------------------
(***************************************************************************)
(* Submissions for TLC.  Sessions differ in nothing but their names.  The  *)
(* verifier of approver manifests is compared with a reference over every  *)
(* batch of up to three manifests and every pin.                           *)
(***************************************************************************)
EXTENDS Submissions, TLC

Symmetry == Permutations(Sessions)

Few == ManifestsOf(1 .. 3, 1 .. 2, {1, 2})
Batches == {<< >>} \cup UNION {[1 .. n -> ManifestsOf(1 .. 3, 1 .. 3, {1, 2})] : n \in {1, 2}} \cup [1 .. 3 -> Few]
SomePins == [rev : 1 .. 3, ver : 1 .. 2, key : {1, 2}]

\* m may follow p: what the documentation accepts automatically.
Follows(m, p) ==
    /\ m.rev > p.rev
    /\ \/ m.ver = p.ver /\ m.key = p.key /\ m.cont = None
       \/ m.ver = p.ver + 1 /\ m.cont = p.key

\* A batch in which each manifest follows the one before it.
Linked(ms) == \A i \in 2 .. Len(ms) : Follows(ms[i], ms[i - 1])

FirstUse(m) == m.ver = 1 => m.cont = None
Accepted(ms, p) == VerifyChain(ms, p).why = "ok"

\* A batch is accepted exactly when each of its manifests is signed by the key
\* before it, or is the next version with that key's continuity signature, at
\* an ever higher revision; with no pin the first manifest is taken on first
\* use.  The pin is then the last manifest.
ASSUME ChainExact ==
    \A batch \in Batches, p \in SomePins \cup {None} :
        /\ Accepted(batch, p) <=>
             /\ Linked(batch)
             /\ batch # << >> => IF p = None THEN FirstUse(batch[1]) ELSE Follows(batch[1], p)
        /\ Accepted(batch, p) =>
             VerifyChain(batch, p).pin = IF batch = << >> THEN p ELSE PinOf(batch[Len(batch)])

\* An operator's confirmation of a key pins a batch only at that key: what is
\* before it follows from the pin, it is the next version without continuity,
\* refused without the confirmation, and what is after follows from it.
ASSUME ReintroductionExact ==
    \A batch \in Batches, p \in SomePins, key \in {1, 2} :
        Reintroduce(batch, p, key).why = "ok" =>
            \E i \in 1 .. Len(batch) :
                /\ batch[i].key = key /\ batch[i].cont = None
                /\ Accepted(SubSeq(batch, 1, i - 1), p)
                /\ VerifyChain(SubSeq(batch, 1, i), p).why = "reintroduction"
                /\ Linked(SubSeq(batch, i, Len(batch)))
                /\ Reintroduce(batch, p, key).pin = PinOf(batch[Len(batch)])
=============================================================================
