------------------------------ MODULE MCMaker ------------------------------
(* Small instances of Maker for TLC: two messages, which may be about the   *)
(* same issue or about none, and /retry commands for their tasks.           *)
EXTENDS Maker, TLC

CONSTANTS t1, t2, k1, i1

MCTriggers == {t1, t2}
OneRetry == {k1}
MCItems == {i1}

OneRetrySymmetry == Permutations(MCTriggers)

(* Of two initial states that differ only in which message is which, one   *)
(* is enough: t2 is about an item, or gated, only if t1 is.                *)
MCInit ==
    /\ Init
    /\ itemOf[t2] = i1 => itemOf[t1] = i1
    /\ itemOf[t1] = itemOf[t2] /\ t2 \in gated => t1 \in gated

MCSpec == MCInit /\ [][Next]_vars /\ Fairness
=============================================================================
