----------------------------- MODULE MCSessions -----------------------------
(* A small instance of Sessions for TLC: three jobs on one session or two,  *)
(* with a budget that a history of one exchange already exceeds.            *)
EXTENDS Sessions, TLC

CONSTANTS j1, j2, j3, k1, k2

MCJobs == {j1, j2, j3}
MCKeys == {k1, k2}

(* States that differ only in what no step and no property looks at again   *)
(* are one.  Of a job that is its kind and session once its last flush is   *)
(* begun, where it goes after a flush it is not in, and what it read when   *)
(* it is not summarizing; of the disk, inodes that nothing refers to; of    *)
(* the history variables, all versions once two flushes have overlapped,    *)
(* which of the jobs was told of the latest state, and messages that may be *)
(* forgotten.                                                               *)
InFlush == {j \in Jobs : at[j] \in {"flush"} \cup Flushing}

Busy == {j \in Jobs : at[j] \notin {"new", "ended"} /\ (j \in InFlush => after[j] = "asking")}

Linked == ({tmp, file} \cup {handle[j] : j \in Jobs}) \ {NoInode}

NoVersion(snap) == IF snap = NoSnapshot THEN snap ELSE [data |-> snap.data]

MCView ==
    <<up, crashes, mem, recorded \ overlapped, at, handle, tmp, file, raced,
      [j \in Busy |-> <<kind[j], key[j]>>],
      [j \in InFlush |-> after[j]],
      [j \in {i \in Jobs : at[i] = "summing"} |-> transcript[j]],
      IF raced
      THEN <<[j \in Jobs |-> NoVersion(snapshot[j])],
             [i \in Linked |-> <<content[i].len, NoVersion(content[i].snap)>>]>>
      ELSE <<snapshot, [i \in Linked |-> content[i]],
             memVer, clock, Max({saved[j] : j \in Jobs}), unread>> >>

SessionSymmetry == Permutations(MCJobs) \cup Permutations(MCKeys)
=============================================================================
