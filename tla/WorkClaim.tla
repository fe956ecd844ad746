----------------------------- MODULE WorkClaim -----------------------------
(***************************************************************************)
(* What the claims on Forgejo items promise: a worker comes to an item     *)
(* only when nobody works on it, so an item never has two workers.  How    *)
(* the Maker keeps the promise, with the set `active_work`, is in module   *)
(* Maker, which implements this one.                                       *)
(***************************************************************************)
CONSTANTS Workers, Items

VARIABLE workers    (* who works on each item *)

Init == workers = [i \in Items |-> {}]

Begin(w, i) ==
    /\ workers[i] = {}
    /\ workers' = [workers EXCEPT ![i] = {w}]

(* The work on an item ends: done, given up, rejected or cut off. *)
End(i) ==
    /\ workers[i] # {}
    /\ workers' = [workers EXCEPT ![i] = {}]

(* The process dies with everything it was doing. *)
Stop == workers' = [i \in Items |-> {}]

Next ==
    \/ \E i \in Items : (\E w \in Workers : Begin(w, i)) \/ End(i)
    \/ Stop

Spec == Init /\ [][Next]_workers
=============================================================================
