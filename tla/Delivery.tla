------------------------------ MODULE Delivery ------------------------------
(***************************************************************************)
(* How the work of agents gets from their clones to the branch of a        *)
(* Forgejo issue and into a pull request: execute_inner around its phases, *)
(* prepare, squash_since and commit_and_push of gitops.rs, publish and     *)
(* publish_review of forge.rs, and /retry.                                 *)
(*                                                                         *)
(* All tasks here are about one branch.  Coders are the tasks of its issue *)
(* (the issue itself, mentions, /changes) and share a claim; reviewers are *)
(* the tasks of its pull request, claimed under another number, so one of  *)
(* each may be under way together.  A history is a sequence of commits     *)
(* after the base, a commit the set of works in it, and <<t, p, n>> what   *)
(* phase p of task t wrote in the n-th execution; n = 0 stands for a task  *)
(* delivered earlier.  How a phase comes to pass is module Escalation's,   *)
(* with what processes left behind write when their attempt is over.       *)
(***************************************************************************)
EXTENDS Integers, Sequences, FiniteSets, SequencesExt

CONSTANTS Coders, Reviewers,
          PhaseCount,
          MaxRuns,      (* bound: executions, of all tasks together         *)
          MaxFaults,    (* bound: how many things fail                      *)
          Faults        (* what may fail: "clone", "ls-remote", "add" (a     *)
                        (* checkpoint's), "squash", "commit", "push",        *)
                        (* "pull", "comment"                                 *)

ASSUME DeliveryAssumption ==
    /\ Coders \cap Reviewers = {}
    /\ PhaseCount \in Nat /\ MaxRuns \in Nat /\ MaxFaults \in Nat
    /\ Faults \subseteq {"clone", "ls-remote", "add", "squash", "commit", "push", "pull",
                         "comment"}

VARIABLES
    stage,      (* how far the execution of each task is                     *)
    runs,       (* executions of each task so far                            *)
    status,     (* status in the task's file                                 *)
    phases,     (* status of its phases in the file                          *)
    recorded,   (* the execution whose pull request the file names; 0: none  *)
    loaded,     (* the file as a /retry has read it, if one is under way     *)
    head,       (* history of the clone                                      *)
    start,      (* start_sha, as a length of that history                    *)
    open,       (* what is not committed in the clone                        *)
    exposed,    (* approved, but not in the index: git add failed            *)
    remote,     (* history of the branch on the forge; empty: no branch      *)
    pull,       (* a pull request was opened                                 *)
    commented,  (* reviews that reached the pull request                     *)
    \* history
    approved,   (* works of phases that passed                               *)
    lost,       (* the approved works that a discard removed                 *)
    overtaken,  (* tasks whose branch moved since they were cloned           *)
    faults      (* what failed                                               *)

file == <<status, phases, recorded>>       \* what a save writes
clone == <<head, start, open, exposed>>
forge == <<remote, pull, commented>>
history == <<approved, lost, overtaken>>
vars == <<stage, runs, file, loaded, clone, forge, history, faults>>

Tasks == Coders \cup Reviewers
Phases == 1..PhaseCount
Works == Tasks \X Phases \X (0..MaxRuns)
Histories == Seq(SUBSET Works)

(* Stages of an execution that has a clone, in their order. *)
Cloned == {"working", "committing", "pushing", "opening", "commenting", "saving", "recording"}
Active == {"preparing"} \cup Cloned

Init ==
    /\ stage = [t \in Tasks |-> "idle"]
    /\ runs = [t \in Tasks |-> 0]
    /\ status = [t \in Tasks |-> "Planned"]
    /\ phases = [t \in Tasks |-> [p \in Phases |-> "Pending"]]
    /\ recorded = [t \in Tasks |-> 0]
    /\ loaded = [t \in Tasks |-> {}]
    /\ head = [t \in Tasks |-> <<>>]
    /\ start = [t \in Tasks |-> 0]
    /\ open = [t \in Tasks |-> {}] /\ exposed = [t \in Tasks |-> {}]
    /\ \/ remote = <<>> /\ pull = FALSE
       \/ /\ \E t \in Coders : PhaseCount > 0 /\ remote = << {<<t, 1, 0>>} >>
          /\ pull = TRUE
    /\ commented = {}
    /\ approved = {} /\ lost = {} /\ overtaken = {} /\ faults = {}

Move(t, from, to) == stage[t] = from /\ stage' = [stage EXCEPT ![t] = to]

Contents(commits) == UNION ToSet(commits)

Warn(fault) ==
    /\ fault \in Faults
    /\ Cardinality(faults \cup {fault}) <= MaxFaults
    /\ faults' = faults \cup {fault}

(* Bound: on all runs together, and so on each task's, of which the proofs *)
(* speak.                                                                  *)
MoreRuns(t) == runs[t] < MaxRuns /\ FoldFunction(LAMBDA n, sum : n + sum, 0, runs) < MaxRuns

(* The claim is on the issue for coders, on the pull request for reviewers. *)
Claimed(t) ==
    \E u \in Tasks : stage[u] \in Active /\ (u \in Coders <=> t \in Coders)

Delivered(t) == stage[t] = "over" /\ status[t] \in {"Done", "DoneWithErrors"}
-----------------------------------------------------------------------------
(* Slips: a definition as a plausible mistake would leave it.               *)
CloneKeepingSha(t) ==
    /\ Move(t, "preparing", "working")
    /\ \/ head' = [head EXCEPT ![t] = remote] /\ UNCHANGED faults
       \/ head' = [head EXCEPT ![t] = <<>>] /\ Warn("ls-remote")
    /\ start' = [start EXCEPT ![t] = Len(remote)]
    /\ open' = [open EXCEPT ![t] = {}] /\ exposed' = [exposed EXCEPT ![t] = {}]
    /\ status' = [status EXCEPT ![t] = "Running"]
    /\ overtaken' = overtaken \ {t}
    /\ UNCHANGED <<runs, phases, recorded, loaded, forge, approved, lost>>

SquashedHard(t) == [head |-> SubSeq(head[t], 1, start[t]), open |-> open[t]]

SquashedToBase(t) == [head |-> <<>>, open |-> open[t] \cup Contents(head[t])]

AlwaysAccepted(t) == TRUE

PushRejectedIgnored(t) ==
    /\ ~IsPrefix(remote, head[t])
    /\ Move(t, "pushing", IF t \in Coders THEN "opening" ELSE "commenting")
    /\ UNCHANGED <<runs, file, loaded, clone, forge, history, faults>>
-----------------------------------------------------------------------------
(* The first execution.  A review is set off by the pull request, once.     *)
Begin(t) ==
    /\ runs[t] = 0 /\ MoreRuns(t)
    /\ ~Claimed(t)
    /\ t \in Reviewers => pull /\ \A u \in Reviewers : ~Delivered(u)
    /\ Move(t, "idle", "preparing")
    /\ runs' = [runs EXCEPT ![t] = 1]
    /\ UNCHANGED <<file, loaded, clone, forge, history, faults>>

(* /retry reads the file... *)
Load(t) ==
    /\ runs[t] > 0 /\ loaded[t] = {}
    /\ MoreRuns(t)
    /\ loaded' = [loaded EXCEPT ![t] = {[phases |-> phases[t], recorded |-> recorded[t]]}]
    /\ UNCHANGED <<stage, runs, file, clone, forge, history, faults>>

(* ...claims the item, and saves what it read, with another status. *)
Retry(t) ==
    /\ ~Claimed(t)
    /\ MoreRuns(t)
    /\ stage' = [stage EXCEPT ![t] = "preparing"]
    /\ runs' = [runs EXCEPT ![t] = @ + 1]
    /\ status' = [status EXCEPT ![t] = "Running"]
    /\ \E read \in loaded[t] :
          /\ phases' = [phases EXCEPT ![t] =
                           [p \in Phases |-> IF read.phases[p] = "Failed" THEN "Pending"
                                                                         ELSE read.phases[p]]]
          /\ recorded' = [recorded EXCEPT ![t] = read.recorded]
    /\ loaded' = [loaded EXCEPT ![t] = {}]
    /\ UNCHANGED <<clone, forge, history, faults>>

RetryRefused(t) ==
    /\ Claimed(t) /\ loaded[t] # {}
    /\ loaded' = [loaded EXCEPT ![t] = {}]
    /\ UNCHANGED <<stage, runs, file, clone, forge, history, faults>>

(* The directory is wiped and cloned again.  A failing ls-remote counts as  *)
(* a branch that is not there.                                              *)
Clone(t) ==
    /\ Move(t, "preparing", "working")
    /\ \/ head' = [head EXCEPT ![t] = remote] /\ UNCHANGED faults
       \/ head' = [head EXCEPT ![t] = <<>>] /\ Warn("ls-remote")
    /\ start' = [start EXCEPT ![t] = Len(head'[t])]
    /\ open' = [open EXCEPT ![t] = {}] /\ exposed' = [exposed EXCEPT ![t] = {}]
    /\ status' = [status EXCEPT ![t] = "Running"]
    /\ overtaken' = overtaken \ {t}
    /\ UNCHANGED <<runs, phases, recorded, loaded, forge, approved, lost>>

CloneFails(t) ==
    /\ Warn("clone")
    /\ Move(t, "preparing", "over")
    /\ status' = [status EXCEPT ![t] = "Failed"]
    /\ head' = [head EXCEPT ![t] = <<>>]
    /\ start' = [start EXCEPT ![t] = 0]
    /\ open' = [open EXCEPT ![t] = {}] /\ exposed' = [exposed EXCEPT ![t] = {}]
    /\ UNCHANGED <<runs, phases, recorded, loaded, forge, history>>
-----------------------------------------------------------------------------
(* The phases. *)

IsNext(t, p) ==
    /\ phases[t][p] = "Pending"
    /\ \A q \in 1..(p - 1) : phases[t][q] # "Pending"

(* A phase passes.  On a ladder its changes are put in the index and        *)
(* committed, if git can; a failure is only warned about.                   *)
PassPhase(t, p) ==
    /\ Move(t, "working", "working")
    /\ IsNext(t, p)
    /\ phases' = [phases EXCEPT ![t][p] = "Done"]
    /\ \E own \in SUBSET {<<t, p, runs[t]>>} :
          /\ approved' = approved \cup own
          /\ \/ /\ open' = [open EXCEPT ![t] = @ \cup own]
                /\ exposed' = [exposed EXCEPT ![t] = {}]
                /\ UNCHANGED <<head, faults>>
             \/ /\ Warn("add")
                /\ open' = [open EXCEPT ![t] = @ \cup own]
                /\ exposed' = [exposed EXCEPT ![t] = @ \cup own]
                /\ UNCHANGED head
             \/ /\ open[t] \cup own # {}
                /\ head' = [head EXCEPT ![t] = Append(@, open[t] \cup own)]
                /\ open' = [open EXCEPT ![t] = {}]
                /\ exposed' = [exposed EXCEPT ![t] = {}]
                /\ UNCHANGED faults
    /\ UNCHANGED <<runs, status, recorded, loaded, start, forge, lost, overtaken>>

FailPhase(t, p) ==
    /\ Move(t, "working", "working")
    /\ IsNext(t, p)
    /\ phases' = [phases EXCEPT ![t][p] = "Failed"]
    /\ \E own \in SUBSET {<<t, p, runs[t]>>} : open' = [open EXCEPT ![t] = @ \cup own]
    /\ UNCHANGED <<runs, status, recorded, loaded, head, start, exposed, forge, history, faults>>

(* The ladder of the next phase discards before its second step: what is    *)
(* not in the index goes, or a part of it.                                  *)
Discard(t) ==
    /\ Move(t, "working", "working")
    /\ \E p \in Phases : IsNext(t, p)
    /\ \E gone \in SUBSET (open[t] \ (approved \ exposed[t])) :
          /\ gone # {}
          /\ open' = [open EXCEPT ![t] = @ \ gone]
          /\ exposed' = [exposed EXCEPT ![t] = @ \ gone]
          /\ lost' = lost \cup (gone \cap approved)
    /\ UNCHANGED <<runs, file, loaded, head, start, forge, approved, overtaken, faults>>
-----------------------------------------------------------------------------
(* Publishing. *)

(* git reset --soft: what was committed since start_sha is staged again. *)
Squashed(t) ==
    [head |-> SubSeq(head[t], 1, start[t]),
     open |-> open[t] \cup Contents(SubSeq(head[t], start[t] + 1, Len(head[t])))]

Squash(t) ==
    /\ \A p \in Phases : phases[t][p] # "Pending"
    /\ Move(t, "working", "committing")
    /\ \/ /\ head' = [head EXCEPT ![t] = Squashed(t).head]
          /\ open' = [open EXCEPT ![t] = Squashed(t).open]
          /\ UNCHANGED faults
       \/ Warn("squash") /\ UNCHANGED <<head, open>>
    /\ exposed' = [exposed EXCEPT ![t] = {}]     \* nothing is discarded any more
    /\ UNCHANGED <<runs, file, loaded, start, forge, history>>

(* An error of publish ends up in the final message only. *)
PublishFails(t, from, fault) ==
    /\ Warn(fault)
    /\ Move(t, from, "saving")
    /\ UNCHANGED <<runs, file, loaded, clone, forge, history>>

(* git add -A, git commit. *)
Commit(t) ==
    /\ open[t] # {}
    /\ Move(t, "committing", "pushing")
    /\ head' = [head EXCEPT ![t] = Append(@, open[t])]
    /\ open' = [open EXCEPT ![t] = {}]
    /\ UNCHANGED <<runs, file, loaded, start, exposed, forge, history, faults>>

(* Nothing staged: no push and no pull request, but a review still reports. *)
NothingToCommit(t) ==
    /\ open[t] = {}
    /\ Move(t, "committing", IF t \in Coders THEN "saving" ELSE "commenting")
    /\ UNCHANGED <<runs, file, loaded, clone, forge, history, faults>>

(* The forge takes a push only if it adds to the branch. *)
Accepted(t) == IsPrefix(remote, head[t])

Push(t, to) ==
    /\ Accepted(t)
    /\ Move(t, "pushing", to)
    /\ remote' = head[t]
    /\ overtaken' = overtaken \cup {u \in Tasks \ {t} : stage[u] \in Cloned}
    /\ UNCHANGED <<runs, file, loaded, clone, pull, commented, approved, lost>>

PushSucceeds(t) ==
    /\ Push(t, IF t \in Coders THEN "opening" ELSE "commenting")
    /\ UNCHANGED faults

(* The answer may be lost after the branch has moved. *)
PushUnanswered(t) == Warn("push") /\ Push(t, "saving")

PushRejected(t) ==
    /\ ~Accepted(t)
    /\ Move(t, "pushing", "saving")
    /\ UNCHANGED <<runs, file, loaded, clone, forge, history, faults>>

(* A new pull request, or the one there is for the branch. *)
OpenPull(t) ==
    /\ Move(t, "opening", "recording")
    /\ pull' = TRUE
    /\ UNCHANGED <<runs, file, loaded, clone, remote, commented, history, faults>>

PullUnanswered(t) ==
    /\ Warn("pull")
    /\ Move(t, "opening", "saving")
    /\ pull' = TRUE
    /\ UNCHANGED <<runs, file, loaded, clone, remote, commented, history>>

Comment(t) ==
    /\ Move(t, "commenting", "saving")
    /\ commented' = commented \cup {t}
    /\ UNCHANGED <<runs, file, loaded, clone, remote, pull, history, faults>>

(* Done whatever became of publishing. *)
Save(t) ==
    /\ \/ Move(t, "saving", "over") /\ UNCHANGED recorded
       \/ Move(t, "recording", "over") /\ recorded' = [recorded EXCEPT ![t] = runs[t]]
    /\ status' = [status EXCEPT ![t] =
                     IF \E p \in Phases : phases[t][p] = "Failed" THEN "DoneWithErrors" ELSE "Done"]
    /\ UNCHANGED <<runs, phases, loaded, clone, forge, history, faults>>

(* A crash, the queue's timeout or a failing save. *)
Interrupt(t) ==
    /\ stage[t] \in Active
    /\ stage' = [stage EXCEPT ![t] = "cut"]
    /\ UNCHANGED <<runs, file, loaded, clone, forge, history, faults>>

Step(t) ==
    \/ Begin(t) \/ Load(t) \/ Retry(t) \/ RetryRefused(t) \/ Clone(t) \/ CloneFails(t)
    \/ \E p \in Phases : PassPhase(t, p) \/ FailPhase(t, p)
    \/ Discard(t)
    \/ Squash(t) \/ Commit(t) \/ NothingToCommit(t)
    \/ PushSucceeds(t) \/ PushUnanswered(t) \/ PushRejected(t)
    \/ OpenPull(t) \/ PullUnanswered(t) \/ Comment(t)
    \/ PublishFails(t, "committing", "commit") \/ PublishFails(t, "pushing", "push")
    \/ PublishFails(t, "opening", "pull") \/ PublishFails(t, "commenting", "comment")
    \/ Save(t) \/ Interrupt(t)

Next == \E t \in Tasks : Step(t)

Spec == Init /\ [][Next]_vars
-----------------------------------------------------------------------------
TypeOK ==
    /\ stage \in [Tasks -> {"idle", "over", "cut"} \cup Active]
    /\ runs \in [Tasks -> 0..MaxRuns]
    /\ status \in [Tasks -> {"Planned", "Running", "Failed", "Done", "DoneWithErrors"}]
    /\ phases \in [Tasks -> [Phases -> {"Pending", "Done", "Failed"}]]
    /\ recorded \in [Tasks -> 0..MaxRuns]
    /\ loaded \in [Tasks -> SUBSET [phases : [Phases -> {"Pending", "Done", "Failed"}],
                                   recorded : 0..MaxRuns]]
    /\ head \in [Tasks -> Histories] /\ start \in [Tasks -> Nat]
    /\ \A t \in Tasks : start[t] \in 0..Len(head[t])
    /\ open \in [Tasks -> SUBSET Works] /\ exposed \in [Tasks -> SUBSET Works]
    /\ remote \in Histories /\ pull \in BOOLEAN /\ commented \subseteq Reviewers
    /\ approved \subseteq Works /\ lost \subseteq Works /\ overtaken \subseteq Tasks /\ faults \subseteq Faults

(* What the n-th execution of a task approved, what was not lost of it, and *)
(* what the branch holds.                                                   *)
Approved(t, n) == {w \in approved : w[1] = t /\ w[3] = n}

Made(t, n) == Approved(t, n) \ lost

Published == Contents(remote)

(* Unless something failed or somebody else pushed meanwhile, an execution  *)
(* that comes to its end has put everything its phases approved on the      *)
(* branch, a coder has recorded the pull request for it, and a review has   *)
(* been commented (exec.rs:120-154).                                        *)
CompleteRun ==
    \A t \in Tasks \ overtaken :
        Delivered(t) /\ faults = {} =>
            /\ Approved(t, runs[t]) \subseteq Published
            /\ t \in Coders /\ Approved(t, runs[t]) # {} => recorded[t] = runs[t]
            /\ t \in Reviewers => t \in commented

(* A task that names a pull request has on its branch all that was approved *)
(* in the execution that recorded it, whatever else failed (forge.rs:       *)
(* 123-193) - but for what a later phase discarded because the git add of a *)
(* checkpoint had failed, which is only warned about (exec.rs:378-381).     *)
RecordedIsPublished ==
    \A t \in Tasks :
        recorded[t] > 0 =>
            /\ pull /\ Made(t, recorded[t]) \subseteq Published
            /\ "add" \notin faults => Approved(t, recorded[t]) \subseteq Published

(* A push is only ever rejected because somebody else pushed, or because    *)
(* the branch could not be looked up (gitops.rs:65, 129).                   *)
FastForward ==
    \A t \in Tasks \ overtaken :
        stage[t] = "pushing" /\ "ls-remote" \notin faults => IsPrefix(remote, head[t])

Branch == INSTANCE Publication
    WITH Tasks <- Tasks,
         WorkOf <- [t \in Tasks |-> {t} \X Phases \X (0..MaxRuns)],
         branch <- Published,
         made <- [t \in Tasks |-> Made(t, runs[t])],
         opened <- pull

(* Deliveries are all or nothing, of what was approved and not lost before; *)
(* nothing leaves the branch; and a pull request is only opened over a      *)
(* branch with something in it, whatever fails or is cut off.               *)
ImplementsPublication == Branch!Spec

(* README.md:75: /retry resumes an interrupted task.  Once it is done, what *)
(* its phases did is delivered.                                             *)
RetryKeepsDone ==
    \A t \in Tasks : Delivered(t) => \A n \in 1..runs[t] : Approved(t, n) \subseteq Published
=============================================================================
