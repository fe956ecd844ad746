----------------------------- MODULE MCDelivery -----------------------------
(* Small instances of Delivery for TLC: tasks of one issue and the review   *)
(* of its pull request.                                                     *)
EXTENDS Delivery

CONSTANTS c1, c2, r1

OneCoder == {c1}
TwoCoders == {c1, c2}
OneReviewer == {r1}
NoReviewer == {}

CoderSymmetry == Permutations(TwoCoders)

(* States that differ only in what no step and no property looks at again   *)
(* are one.  That is the clone of a task that is not under way, which is    *)
(* wiped first; whether others overtook it; what it did in an execution     *)
(* that was cut off and whose pull request is not the one in its file; and, *)
(* when the bound leaves no further execution, all that only one would use. *)
InUse(of) == [t \in {u \in Tasks : stage[u] \in Cloned} |-> of[t]]

Ended == {t \in Tasks : stage[t] \in Cloned \cup {"over"}}

MayResume == \E t \in Tasks : MoreRuns(t)

Resumed == [t \in {u \in Tasks : MayResume \/ stage[u] \in Active} |-> phases[t]]

Read(t) == {read \in loaded[t] : MayResume}

Remembered(t) ==
    {recorded[t]} \cup {read.recorded : read \in Read(t)} \cup {n \in {runs[t]} : t \in Ended}

Relevant(work) == {w \in work : w[3] \in Remembered(w[1])}

MCView ==
    <<stage, runs, recorded, Resumed, [t \in Ended |-> status[t]],
      [t \in Tasks |-> Read(t)],
      InUse(head), InUse(start), InUse(open), InUse(exposed),
      forge, Relevant(approved), Relevant(lost), overtaken \cap Ended, faults>>
=============================================================================
