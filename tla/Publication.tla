---------------------------- MODULE Publication ----------------------------
(***************************************************************************)
(* What delivering promises about a branch: what an execution of a task    *)
(* approved, and did not lose again before, comes to the branch all at     *)
(* once or not at all, perhaps with what its failed phases left behind;    *)
(* nothing leaves the branch; and a pull request is only opened over a     *)
(* branch that has something in it.                                        *)
(* How agents keep the promise with clones, commits and pushes is in       *)
(* module Delivery, which implements this one.                             *)
(***************************************************************************)
CONSTANTS Tasks,
          WorkOf    (* the work each task may do: a function on Tasks       *)

VARIABLES branch,   (* the work on the branch                               *)
          made,     (* what the latest execution of each task approved, and *)
                    (* still has                                            *)
          opened    (* a pull request was opened                            *)

vars == <<branch, made, opened>>

Init ==
    /\ branch \subseteq UNION {WorkOf[t] : t \in Tasks}
    /\ opened \in BOOLEAN /\ (opened => branch # {})
    /\ made = [t \in Tasks |-> {}]

(* An execution begins, with nothing done yet. *)
Begin(t) ==
    /\ made' = [made EXCEPT ![t] = {}]
    /\ UNCHANGED <<branch, opened>>

Make(t, w) ==
    /\ made' = [made EXCEPT ![t] = @ \cup {w}]
    /\ UNCHANGED <<branch, opened>>

(* What is lost was never published. *)
Lose(t, gone) ==
    /\ gone \subseteq made[t] \ branch
    /\ made' = [made EXCEPT ![t] = @ \ gone]
    /\ UNCHANGED <<branch, opened>>

Publish(t) ==
    /\ branch \cup made[t] \subseteq branch'
    /\ branch' \subseteq branch \cup made[t] \cup WorkOf[t]
    /\ UNCHANGED <<made, opened>>

Open ==
    /\ branch # {}
    /\ opened' = TRUE
    /\ UNCHANGED <<branch, made>>

Next ==
    \/ \E t \in Tasks :
          \/ Begin(t)
          \/ \E w \in WorkOf[t] : Make(t, w)
          \/ \E gone \in SUBSET made[t] : Lose(t, gone)
          \/ Publish(t)
    \/ Open

Spec == Init /\ [][Next]_vars
=============================================================================
