--------------------------- MODULE DeliveryProofs ---------------------------
(***************************************************************************)
(* Theorems about delivery, module Delivery, for any tasks, any number of  *)
(* phases and executions and whatever fails.  The invariant of a task      *)
(* follows what its execution approved: first it is in the clone, open or  *)
(* in a commit since start_sha, and nowhere else, unless it was lost; once *)
(* the push was accepted it is on the branch, and stays there.             *)
(***************************************************************************)
EXTENDS Delivery, TLAPS

(* What the execution under way may have written. *)
Current(t) == {t} \X Phases \X {runs[t]}

AtWork == {"working", "committing", "pushing"}

(* Each role has its own way of reporting. *)
RoleInv(t) ==
    /\ stage[t] \in {"opening", "recording"} => t \in Coders
    /\ stage[t] = "commenting" => t \in Reviewers

(* Works and records are of executions that have begun.  While one is      *)
(* under way the record, in the file or as read for a /retry, is older;    *)
(* nothing of it is approved before it has a clone, nor published before   *)
(* its push.                                                               *)
RunInv(t) ==
    /\ \A w \in approved \cup Published : w[1] = t => w[3] <= runs[t]
    /\ recorded[t] <= runs[t] /\ \A read \in loaded[t] : read.recorded <= runs[t]
    /\ stage[t] \in Active =>
          recorded[t] < runs[t] /\ \A read \in loaded[t] : read.recorded < runs[t]
    /\ stage[t] = "preparing" => Made(t, runs[t]) = {}
    /\ stage[t] \in {"preparing"} \cup AtWork =>
          \A w \in Published : w[1] = t => w[3] < runs[t]

(* The clone: what was on the branch, then the execution's own work, and   *)
(* all that it approved.                                                   *)
CloneInv(t) ==
    stage[t] \in AtWork =>
        /\ open[t] \subseteq Current(t)
        /\ \A i \in 1..start[t] : head[t][i] \subseteq Published
        /\ \A i \in (start[t] + 1)..Len(head[t]) : head[t][i] \subseteq Current(t)
        /\ \A w \in Made(t, runs[t]) :
              w \in open[t] \/ \E i \in (start[t] + 1)..Len(head[t]) : w \in head[t][i]

(* It starts where the branch is, unless that moved or was not found. *)
StartInv(t) ==
    stage[t] \in AtWork /\ t \notin overtaken /\ "ls-remote" \notin faults =>
        Len(remote) = start[t] /\ \A i \in 1..start[t] : head[t][i] = remote[i]

(* What is committed is not empty, and is all there is. *)
CommitInv(t) ==
    /\ stage[t] = "committing" /\ "squash" \notin faults => Len(head[t]) = start[t]
    /\ stage[t] = "pushing" =>
          open[t] = {} /\ Len(head[t]) > start[t] /\ head[t][Len(head[t])] # {}

(* What is reported is on the branch. *)
ReportInv(t) ==
    /\ stage[t] \in {"opening", "recording"} =>
          Made(t, runs[t]) \subseteq Published /\ Published # {}
    /\ stage[t] = "recording" => pull
    /\ t \notin overtaken /\ faults = {} =>
          /\ stage[t] \in {"commenting", "saving"} => Made(t, runs[t]) \subseteq Published
          /\ stage[t] = "saving" =>
                (t \in Coders => Made(t, runs[t]) = {}) /\ (t \in Reviewers => t \in commented)
          /\ Delivered(t) =>
                /\ Made(t, runs[t]) \subseteq Published
                /\ t \in Coders /\ Made(t, runs[t]) # {} => recorded[t] = runs[t]
                /\ t \in Reviewers => t \in commented

(* So is what was recorded, and what a /retry read as recorded. *)
RecordInv(t) ==
    \A n \in {recorded[t]} \cup {read.recorded : read \in loaded[t]} :
        n > 0 => pull /\ Made(t, n) \subseteq Published

TaskInv(t) ==
    RoleInv(t) /\ RunInv(t) /\ CloneInv(t) /\ StartInv(t) /\ CommitInv(t) /\ ReportInv(t) /\ RecordInv(t)

(* Approved work is only within reach of a discard, and lost, after a git  *)
(* add has failed.                                                         *)
AddInv == lost # {} \/ (\E t \in Tasks : exposed[t] # {}) => "add" \in faults

IInv == TypeOK /\ AddInv /\ \A t \in Tasks : TaskInv(t)
-----------------------------------------------------------------------------
(* Histories. *)

LEMMA ContentsOf ==
    ASSUME NEW s \in Histories, NEW w
    PROVE  w \in Contents(s) <=> \E i \in 1..Len(s) : w \in s[i]
<1>1. DOMAIN s = 1..Len(s)
  BY DEF Histories
<1>. QED  BY <1>1, Zenon DEF Contents, ToSet

LEMMA PrefixOf ==
    ASSUME NEW s \in Histories, NEW u \in Histories
    PROVE  IsPrefix(s, u) <=> Len(s) <= Len(u) /\ \A i \in 1..Len(s) : s[i] = u[i]
<1>1. Len(s) \in Nat /\ Len(u) \in Nat
  BY DEF Histories
<1>2. ASSUME Len(s) <= Len(u)
      PROVE  /\ SubSeq(s, 1, Len(s)) \in Histories /\ SubSeq(u, 1, Len(s)) \in Histories
             /\ Len(SubSeq(s, 1, Len(s))) = Len(s) /\ Len(SubSeq(u, 1, Len(s))) = Len(s)
             /\ \A i \in 1..Len(s) : SubSeq(s, 1, Len(s))[i] = s[i] /\ SubSeq(u, 1, Len(s))[i] = u[i]
  BY <1>1, <1>2 DEF Histories
<1>3. ASSUME Len(s) <= Len(u), \A i \in 1..Len(s) : s[i] = u[i]
      PROVE  SubSeq(s, 1, Len(s)) = SubSeq(u, 1, Len(s))
  BY <1>1, <1>2, <1>3 DEF Histories
<1>. QED  BY <1>1, <1>2, <1>3 DEF IsPrefix

LEMMA AppendTo ==
    ASSUME NEW s \in Histories, NEW c \in SUBSET Works
    PROVE  /\ Append(s, c) \in Histories /\ Len(Append(s, c)) = Len(s) + 1
           /\ \A i \in 1..Len(s) : Append(s, c)[i] = s[i]
           /\ Append(s, c)[Len(s) + 1] = c
BY DEF Histories

LEMMA PartOf ==
    ASSUME NEW s \in Histories, NEW m \in 1..(Len(s) + 1), NEW n \in 0..Len(s), m <= n + 1
    PROVE  /\ SubSeq(s, m, n) \in Histories /\ Len(SubSeq(s, m, n)) = n - m + 1
           /\ \A i \in 1..(n - m + 1) : SubSeq(s, m, n)[i] = s[m + i - 1]
BY DEF Histories

LEMMA ContentsType == \A s \in Histories : Contents(s) \subseteq Works
<1>. SUFFICES ASSUME NEW s \in Histories, NEW w \in Contents(s) PROVE w \in Works
  OBVIOUS
<1>1. PICK i \in 1..Len(s) : w \in s[i]
  BY ContentsOf
<1>. QED  BY <1>1 DEF Histories
-----------------------------------------------------------------------------
(* Types. *)

Stages == {"idle", "over", "cut"} \cup Active

(* What a step does to the variables of another task, and to the stage of  *)
(* its own.                                                                *)
LEMMA MoveType ==
    ASSUME TypeOK, NEW t \in Tasks, NEW from, NEW to \in Stages, Move(t, from, to)
    PROVE  /\ stage[t] = from /\ stage'[t] = to
           /\ stage' \in [Tasks -> Stages]
           /\ \A u \in Tasks : u # t => stage'[u] = stage[u]
BY DEF Move, TypeOK, Stages

LEMMA WarnType ==
    ASSUME TypeOK, NEW fault, Warn(fault)
    PROVE  faults' \subseteq Faults /\ faults \subseteq faults' /\ fault \in faults'
BY DEF Warn, TypeOK

LEMMA SquashedType ==
    ASSUME TypeOK, NEW t \in Tasks
    PROVE  /\ Squashed(t).head \in Histories /\ Len(Squashed(t).head) = start[t]
           /\ \A i \in 1..start[t] : Squashed(t).head[i] = head[t][i]
           /\ Squashed(t).open \subseteq Works
           /\ \A w : w \in Squashed(t).open <=>
                  w \in open[t] \/ \E i \in (start[t] + 1)..Len(head[t]) : w \in head[t][i]
<1>1. head[t] \in Histories /\ start[t] \in 0..Len(head[t]) /\ Len(head[t]) \in Nat
      /\ open[t] \subseteq Works
  BY DEF TypeOK, Histories
<1>. DEFINE since == SubSeq(head[t], start[t] + 1, Len(head[t]))
<1>2. /\ Squashed(t).head = SubSeq(head[t], 1, start[t])
      /\ Squashed(t).open = open[t] \cup Contents(since)
  BY DEF Squashed
<1>3. /\ SubSeq(head[t], 1, start[t]) \in Histories
      /\ Len(SubSeq(head[t], 1, start[t])) = start[t]
      /\ \A i \in 1..start[t] : SubSeq(head[t], 1, start[t])[i] = head[t][i]
  BY <1>1, PartOf
<1>4. /\ since \in Histories /\ Len(since) = Len(head[t]) - start[t]
      /\ \A i \in 1..Len(since) : since[i] = head[t][start[t] + i]
  <2>1. start[t] + 1 \in 1..(Len(head[t]) + 1) /\ Len(head[t]) \in 0..Len(head[t])
        /\ start[t] + 1 <= Len(head[t]) + 1
    BY <1>1
  <2>2. /\ since \in Histories /\ Len(since) = Len(head[t]) - (start[t] + 1) + 1
        /\ \A i \in 1..(Len(head[t]) - (start[t] + 1) + 1) : since[i] = head[t][start[t] + 1 + i - 1]
    BY <1>1, <2>1, PartOf
  <2>. HIDE DEF since
  <2>3. Len(since) = Len(head[t]) - start[t]
    BY <1>1, <2>2
  <2>4. ASSUME NEW i \in 1..Len(since) PROVE since[i] = head[t][start[t] + i]
    <3>1. start[t] + 1 + i - 1 = start[t] + i /\ i \in 1..(Len(head[t]) - (start[t] + 1) + 1)
      BY <1>1, <2>3
    <3>. QED  BY <2>2, <3>1
  <2>. QED  BY <2>2, <2>3, <2>4
<1>5. \A w : w \in Contents(since) <=> \E i \in 1..Len(since) : w \in since[i]
  BY <1>4, ContentsOf
<1>. HIDE DEF since
<1>6. \A w : w \in Contents(since) <=> \E i \in (start[t] + 1)..Len(head[t]) : w \in head[t][i]
  <2>1. \A i \in (start[t] + 1)..Len(head[t]) : i - start[t] \in 1..Len(since) /\ since[i - start[t]] = head[t][i]
    <3>. SUFFICES ASSUME NEW i \in (start[t] + 1)..Len(head[t])
                  PROVE  i - start[t] \in 1..Len(since) /\ since[i - start[t]] = head[t][i]
      OBVIOUS
    <3>1. i - start[t] \in 1..Len(since) /\ start[t] + (i - start[t]) = i
      BY <1>1, <1>4
    <3>. QED  BY <1>4, <3>1
  <2>2. \A i \in 1..Len(since) : start[t] + i \in (start[t] + 1)..Len(head[t])
    BY <1>1, <1>4
  <2>. QED  BY <1>4, <1>5, <2>1, <2>2
<1>7. Contents(since) \subseteq Works
  BY <1>4, ContentsType
<1>. QED  BY <1>1, <1>2, <1>3, <1>6, <1>7

LEMMA RunsLeft ==
    ASSUME NEW t \in Tasks, TypeOK, MoreRuns(t)
    PROVE  runs[t] + 1 \in 0..MaxRuns
<1>1. runs[t] < MaxRuns
  BY Zenon DEF MoreRuns
<1>. QED  BY <1>1, DeliveryAssumption DEF TypeOK

(* What a phase writes is of the execution under way. *)
LEMMA OwnWork ==
    ASSUME TypeOK, NEW t \in Tasks, NEW p \in Phases
    PROVE  <<t, p, runs[t]>> \in Works /\ <<t, p, runs[t]>> \in Current(t)
BY DEF Works, TypeOK, Current

LEMMA TypeStep == TypeOK /\ (\A t \in Tasks : RoleInv(t)) /\ [Next]_vars => TypeOK'
<1>. SUFFICES ASSUME TypeOK, \A t \in Tasks : RoleInv(t), [Next]_vars PROVE TypeOK'
  OBVIOUS
<1>. USE DeliveryAssumption
<1>1. ASSUME NEW t \in Tasks, Begin(t) PROVE TypeOK'
  <2>1. runs' \in [Tasks -> 0..MaxRuns]
    <3>1. runs[t] = 0 /\ 1 \in 0..MaxRuns
      BY <1>1, RunsLeft DEF Begin
    <3>. QED  BY <1>1, <3>1 DEF Begin, TypeOK
  <2>. QED  BY <1>1, <2>1, MoveType
          DEF Begin, TypeOK, Stages, Active, file, clone, forge, history
<1>2. ASSUME NEW t \in Tasks, Load(t) PROVE TypeOK'
  <2>1. [phases |-> phases[t], recorded |-> recorded[t]]
            \in [phases : [Phases -> {"Pending", "Done", "Failed"}], recorded : 0..MaxRuns]
    BY DEF TypeOK
  <2>. QED  BY <1>2, <2>1 DEF Load, TypeOK, file, clone, forge, history
<1>3. ASSUME NEW t \in Tasks, Retry(t) PROVE TypeOK'
  <2>1. PICK read \in loaded[t] :
          /\ phases' = [phases EXCEPT ![t] =
                           [p \in Phases |-> IF read.phases[p] = "Failed" THEN "Pending"
                                                                         ELSE read.phases[p]]]
          /\ recorded' = [recorded EXCEPT ![t] = read.recorded]
    BY <1>3 DEF Retry
  <2>2. read.phases \in [Phases -> {"Pending", "Done", "Failed"}] /\ read.recorded \in 0..MaxRuns
    BY DEF TypeOK
  <2>3. phases' \in [Tasks -> [Phases -> {"Pending", "Done", "Failed"}]]
    BY <2>1, <2>2 DEF TypeOK
  <2>4. recorded' \in [Tasks -> 0..MaxRuns]
    BY <2>1, <2>2 DEF TypeOK
  <2>5. runs' \in [Tasks -> 0..MaxRuns]
    BY <1>3, RunsLeft DEF Retry, TypeOK
  <2>. QED  BY <1>3, <2>3, <2>4, <2>5 DEF Retry, TypeOK, Active, clone, forge, history
<1>4. ASSUME NEW t \in Tasks, RetryRefused(t) PROVE TypeOK'
  BY <1>4 DEF RetryRefused, TypeOK, file, clone, forge, history
<1>5. ASSUME NEW t \in Tasks, Clone(t) PROVE TypeOK'
  <2>1. /\ remote \in Histories /\ Len(remote) \in Nat
        /\ <<>> \in Histories /\ Len(<<>>) = 0
    BY DEF TypeOK, Histories
  <2>2. /\ head' \in [Tasks -> Histories] /\ start' \in [Tasks -> Nat]
        /\ \A u \in Tasks : start'[u] \in 0..Len(head'[u])
        /\ faults' \subseteq Faults
    <3>1. PICK h \in {remote, <<>>} : head' = [head EXCEPT ![t] = h]
      BY <1>5 DEF Clone
    <3>2. h \in Histories /\ Len(h) \in Nat
      BY <2>1
    <3>3. head' \in [Tasks -> Histories] /\ head'[t] = h /\ \A u \in Tasks : u # t => head'[u] = head[u]
      BY <3>1, <3>2 DEF TypeOK
    <3>4. start' = [start EXCEPT ![t] = Len(h)]
      BY <1>5, <3>3 DEF Clone
    <3>5. faults' \subseteq Faults
      BY <1>5, WarnType DEF Clone, TypeOK
    <3>. QED  BY <3>2, <3>3, <3>4, <3>5 DEF TypeOK
  <2>. QED  BY <1>5, <2>2, MoveType DEF Clone, TypeOK, Stages, Active, Cloned, forge
<1>6. ASSUME NEW t \in Tasks, CloneFails(t) PROVE TypeOK'
  <2>1. <<>> \in Histories /\ Len(<<>>) = 0
    BY DEF Histories
  <2>2. head' \in [Tasks -> Histories] /\ start' \in [Tasks -> Nat]
    BY <1>6, <2>1 DEF CloneFails, TypeOK
  <2>3. \A u \in Tasks : start'[u] \in 0..Len(head'[u])
    BY <1>6, <2>1 DEF CloneFails, TypeOK
  <2>4. faults' \subseteq Faults
    BY <1>6, WarnType DEF CloneFails
  <2>5. stage' \in [Tasks -> Stages]
    BY <1>6, MoveType DEF CloneFails, Stages
  <2>. QED  BY <1>6, <2>2, <2>3, <2>4, <2>5 DEF CloneFails, TypeOK, Stages, forge, history
<1>7. ASSUME NEW t \in Tasks, NEW p \in Phases, PassPhase(t, p) \/ FailPhase(t, p)
        PROVE TypeOK'
  <2>1. ASSUME NEW own \in SUBSET {<<t, p, runs[t]>>}
        PROVE  own \subseteq Works /\ open[t] \cup own \in SUBSET Works
    BY <2>1, OwnWork DEF TypeOK
  <2>2. phases[t] \in [Phases -> {"Pending", "Done", "Failed"}]
    BY DEF TypeOK
  <2>3. phases' \in [Tasks -> [Phases -> {"Pending", "Done", "Failed"}]]
    <3>1. PICK s \in {"Done", "Failed"} : phases' = [phases EXCEPT ![t][p] = s]
      BY <1>7 DEF PassPhase, FailPhase
    <3>2. [phases[t] EXCEPT ![p] = s] \in [Phases -> {"Pending", "Done", "Failed"}]
      BY <2>2
    <3>. QED  BY <3>1, <3>2 DEF TypeOK
  <2>4. CASE FailPhase(t, p)
    <3>1. open' \in [Tasks -> SUBSET Works]
      BY <2>1, <2>4 DEF FailPhase, TypeOK
    <3>. QED  BY <2>3, <2>4, <3>1, MoveType
            DEF FailPhase, TypeOK, Stages, Active, Cloned, forge, history
  <2>5. CASE PassPhase(t, p)
    <3>1. PICK own \in SUBSET {<<t, p, runs[t]>>} :
            /\ approved' = approved \cup own
            /\ \/ /\ open' = [open EXCEPT ![t] = @ \cup own]
                  /\ exposed' = [exposed EXCEPT ![t] = {}]
                  /\ UNCHANGED <<head, faults>>
               \/ /\ Warn("add")
                  /\ open' = [open EXCEPT ![t] = @ \cup own]
                  /\ exposed' = [exposed EXCEPT ![t] = @ \cup own]
                  /\ UNCHANGED head
               \/ /\ open[t] \cup own # {}
                  /\ head' = [head EXCEPT ![t] = Append(@, open[t] \cup own)]
                  /\ open' = [open EXCEPT ![t] = {}]
                  /\ exposed' = [exposed EXCEPT ![t] = {}]
                  /\ UNCHANGED faults
      BY <2>5 DEF PassPhase
    <3>2. approved' \subseteq Works
      BY <2>1, <3>1 DEF TypeOK
    <3>5. /\ own \subseteq Works /\ open[t] \cup own \in SUBSET Works
          /\ exposed[t] \cup own \in SUBSET Works /\ {} \in SUBSET Works
      BY <2>1 DEF TypeOK
    <3>6. PICK o, e \in SUBSET Works :
            open' = [open EXCEPT ![t] = o] /\ exposed' = [exposed EXCEPT ![t] = e]
      BY <3>1, <3>5
    <3>7. open' \in [Tasks -> SUBSET Works] /\ exposed' \in [Tasks -> SUBSET Works]
      BY <3>6 DEF TypeOK
    <3>4. faults' \subseteq Faults
      BY <3>1, WarnType DEF TypeOK
    <3>3. /\ head' \in [Tasks -> Histories]
          /\ \A u \in Tasks : start[u] \in 0..Len(head'[u])
      <4>1. open[t] \cup own \in SUBSET Works /\ head[t] \in Histories /\ Len(head[t]) \in Nat
        BY <2>1 DEF TypeOK, Histories
      <4>2. /\ Append(head[t], open[t] \cup own) \in Histories
            /\ Len(Append(head[t], open[t] \cup own)) = Len(head[t]) + 1
        BY <4>1, AppendTo
      <4>3. CASE UNCHANGED head
        BY <4>3 DEF TypeOK
      <4>4. CASE head' = [head EXCEPT ![t] = Append(@, open[t] \cup own)]
        <5>1. /\ head'[t] = Append(head[t], open[t] \cup own)
              /\ \A u \in Tasks : u # t => head'[u] = head[u]
          BY <4>4 DEF TypeOK
        <5>2. ASSUME NEW u \in Tasks PROVE start[u] \in 0..Len(head'[u])
          <6>1. start[u] \in 0..Len(head[u])
            BY DEF TypeOK
          <6>2. CASE u = t
            BY <4>1, <4>2, <5>1, <6>1, <6>2
          <6>. QED  BY <5>1, <6>1, <6>2
        <5>. QED  BY <4>2, <4>4, <5>2 DEF TypeOK
      <4>. QED  BY <3>1, <4>3, <4>4
    <3>. QED  BY <2>3, <2>5, <3>2, <3>3, <3>4, <3>7, MoveType
            DEF PassPhase, TypeOK, Stages, Active, Cloned, forge
  <2>. QED  BY <1>7, <2>4, <2>5
<1>15. ASSUME NEW t \in Tasks, Discard(t) PROVE TypeOK'
  <2>1. PICK gone \in SUBSET (open[t] \ (approved \ exposed[t])) :
          /\ open' = [open EXCEPT ![t] = @ \ gone]
          /\ exposed' = [exposed EXCEPT ![t] = @ \ gone]
          /\ lost' = lost \cup (gone \cap approved)
    BY <1>15 DEF Discard
  <2>2. /\ open' \in [Tasks -> SUBSET Works] /\ exposed' \in [Tasks -> SUBSET Works]
        /\ lost' \subseteq Works
    BY <2>1 DEF TypeOK
  <2>. QED  BY <1>15, <2>2, MoveType
          DEF Discard, TypeOK, Stages, Active, Cloned, file, forge
<1>8. ASSUME NEW t \in Tasks, Squash(t) PROVE TypeOK'
  <2>1. /\ head' \in [Tasks -> Histories] /\ open' \in [Tasks -> SUBSET Works]
        /\ \A u \in Tasks : start[u] \in 0..Len(head'[u])
        /\ faults' \subseteq Faults
    <3>1. CASE UNCHANGED <<head, open>> /\ Warn("squash")
      BY <3>1, WarnType DEF TypeOK
    <3>2. CASE /\ head' = [head EXCEPT ![t] = Squashed(t).head]
               /\ open' = [open EXCEPT ![t] = Squashed(t).open]
               /\ UNCHANGED faults
      BY <3>2, SquashedType DEF TypeOK
    <3>. QED  BY <1>8, <3>1, <3>2 DEF Squash
  <2>. QED  BY <1>8, <2>1, MoveType
          DEF Squash, TypeOK, Stages, Active, Cloned, file, forge, history
<1>9. ASSUME NEW t \in Tasks, Commit(t) PROVE TypeOK'
  <2>1. open[t] \in SUBSET Works /\ head[t] \in Histories /\ Len(head[t]) \in Nat
    BY DEF TypeOK, Histories
  <2>2. Append(head[t], open[t]) \in Histories /\ Len(Append(head[t], open[t])) = Len(head[t]) + 1
    BY <2>1, AppendTo
  <2>. QED  BY <1>9, <2>1, <2>2, MoveType
          DEF Commit, TypeOK, Stages, Active, Cloned, file, forge, history
<1>10. ASSUME NEW t \in Tasks,
              \/ NothingToCommit(t) \/ PushRejected(t) \/ Interrupt(t)
              \/ OpenPull(t) \/ PullUnanswered(t) \/ Comment(t)
              \/ \E from \in {"committing", "pushing", "opening", "commenting"}, fault \in Faults :
                    PublishFails(t, from, fault)
       PROVE  TypeOK'
  <2>1. stage' \in [Tasks -> Stages]
    BY <1>10, MoveType
       DEF NothingToCommit, PushRejected, Interrupt, OpenPull, PullUnanswered, Comment,
                           PublishFails, Stages, Active, Cloned, TypeOK
  <2>2. faults' \subseteq Faults
    BY <1>10, WarnType
       DEF NothingToCommit, PushRejected, Interrupt, OpenPull, PullUnanswered, Comment,
                           PublishFails, TypeOK
  <2>3. pull' \in BOOLEAN /\ commented' \subseteq Reviewers /\ remote' = remote
    <3>1. pull \in BOOLEAN /\ commented \subseteq Reviewers
      BY DEF TypeOK
    <3>2. CASE Comment(t)
      <4>1. stage[t] = "commenting"
        BY <3>2 DEF Comment, Move
      <4>2. t \in Reviewers
        BY <4>1 DEF RoleInv
      <4>. QED  BY <3>1, <3>2, <4>2 DEF Comment
    <3>3. CASE OpenPull(t) \/ PullUnanswered(t)
      BY <3>1, <3>3 DEF OpenPull, PullUnanswered
    <3>4. CASE NothingToCommit(t) \/ PushRejected(t) \/ Interrupt(t)
      BY <3>1, <3>4 DEF NothingToCommit, PushRejected, Interrupt, forge
    <3>5. CASE \E from \in {"committing", "pushing", "opening", "commenting"}, fault \in Faults :
                  PublishFails(t, from, fault)
      BY <3>1, <3>5 DEF PublishFails, forge
    <3>. QED  BY <1>10, <3>2, <3>3, <3>4, <3>5
  <2>4. UNCHANGED <<runs, file, loaded, clone, history>>
    BY <1>10
       DEF NothingToCommit, PushRejected, Interrupt, OpenPull, PullUnanswered, Comment,
           PublishFails
  <2>. QED  BY <2>1, <2>2, <2>3, <2>4 DEF TypeOK, Stages, file, clone, history
<1>11. ASSUME NEW t \in Tasks, PushSucceeds(t) \/ PushUnanswered(t) PROVE TypeOK'
  <2>1. PICK to \in {"opening", "commenting", "saving"} : Push(t, to)
    BY <1>11 DEF PushSucceeds, PushUnanswered
  <2>2. faults' \subseteq Faults
    BY <1>11, WarnType DEF PushSucceeds, PushUnanswered, TypeOK
  <2>3. stage' \in [Tasks -> Stages]
    BY <2>1, MoveType DEF Push, Stages, Active, Cloned
  <2>4. remote' \in Histories /\ overtaken' \subseteq Tasks
    BY <2>1 DEF Push, TypeOK
  <2>. QED  BY <2>1, <2>2, <2>3, <2>4 DEF Push, TypeOK, Stages, file, clone
<1>12. ASSUME NEW t \in Tasks, Save(t) PROVE TypeOK'
  BY <1>12, MoveType DEF Save, TypeOK, Stages, clone, forge, history
<1>13. CASE UNCHANGED vars
  BY <1>13 DEF vars, file, clone, forge, history, TypeOK
<1>14. ASSUME NEW t \in Tasks, Step(t) PROVE TypeOK'
  <2>1. ASSUME NEW from \in {"committing", "pushing", "opening", "commenting"}, NEW fault,
               PublishFails(t, from, fault)
        PROVE  TypeOK'
    <3>1. fault \in Faults
      BY <2>1 DEF PublishFails, Warn
    <3>. QED  BY <1>10, <2>1, <3>1
  <2>. QED
    BY <1>1, <1>2, <1>3, <1>4, <1>5, <1>6, <1>7, <1>8, <1>9, <1>10, <1>11, <1>12, <1>14,
       <1>15, <2>1
       DEF Step
<1>. QED  BY <1>13, <1>14 DEF Next
-----------------------------------------------------------------------------
(* What the step of one task means to the others: the branch and the       *)
(* faults only grow, and what is new is the task's own.                    *)

Untouched(u) ==
    /\ stage'[u] = stage[u] /\ runs'[u] = runs[u] /\ status'[u] = status[u]
    /\ recorded'[u] = recorded[u] /\ loaded'[u] = loaded[u]
    /\ head'[u] = head[u] /\ start'[u] = start[u] /\ open'[u] = open[u]

Grows(t) ==
    /\ Published \subseteq Published' /\ Published' \subseteq Published \cup Current(t)
    /\ approved \subseteq approved' /\ approved' \subseteq approved \cup Current(t)
    /\ lost \subseteq lost' /\ lost' \subseteq lost \cup Current(t)
    /\ faults \subseteq faults' /\ (pull => pull') /\ commented \subseteq commented'

Spares(u) ==
    /\ Untouched(u)
    /\ u \notin overtaken' => u \notin overtaken /\ (stage[u] \in Cloned => remote' = remote)

LEMMA PublishedType ==
    ASSUME TypeOK
    PROVE  /\ \A w : w \in Published <=> \E i \in 1..Len(remote) : w \in remote[i]
           /\ Published \subseteq Works
BY ContentsOf, ContentsType DEF Published, TypeOK

(* A push carries all that was approved, and something of its own. *)
LEMMA PushCarries ==
    ASSUME TypeOK, TypeOK', NEW t \in Tasks, CloneInv(t), CommitInv(t),
        NEW to, Push(t, to)
    PROVE  /\ Published \subseteq Published' /\ Published' \subseteq Published \cup Current(t)
           /\ Made(t, runs[t]) \subseteq Published'
           /\ Published' \cap Current(t) # {}
<1>1. /\ stage[t] = "pushing" /\ remote' = head[t] /\ IsPrefix(remote, head[t])
      /\ remote \in Histories /\ head[t] \in Histories
      /\ start[t] \in 0..Len(head[t]) /\ Len(head[t]) \in Nat /\ Len(remote) \in Nat
  BY DEF Push, Move, Accepted, TypeOK, Histories
<1>2. /\ \A w : w \in Published <=> \E i \in 1..Len(remote) : w \in remote[i]
      /\ \A w : w \in Published' <=> \E i \in 1..Len(head[t]) : w \in head[t][i]
  BY <1>1, ContentsOf DEF Published
<1>3. Len(remote) <= Len(head[t]) /\ \A i \in 1..Len(remote) : remote[i] = head[t][i]
  BY <1>1, PrefixOf
<1>4. Published \subseteq Published'
  BY <1>1, <1>2, <1>3
<1>5. /\ \A i \in 1..start[t] : head[t][i] \subseteq Published
      /\ \A i \in (start[t] + 1)..Len(head[t]) : head[t][i] \subseteq Current(t)
      /\ \A w \in Made(t, runs[t]) : \E i \in (start[t] + 1)..Len(head[t]) : w \in head[t][i]
      /\ Len(head[t]) > start[t] /\ head[t][Len(head[t])] # {}
  BY <1>1 DEF CloneInv, CommitInv, AtWork
<1>6. Published' \subseteq Published \cup Current(t)
  BY <1>1, <1>2, <1>5
<1>7. Made(t, runs[t]) \subseteq Published'
  BY <1>1, <1>2, <1>5
<1>8. Published' \cap Current(t) # {}
  <2>1. Len(head[t]) \in 1..Len(head[t]) /\ Len(head[t]) \in (start[t] + 1)..Len(head[t])
    BY <1>1, <1>5
  <2>2. PICK w : w \in head[t][Len(head[t])]
    BY <1>5
  <2>. QED  BY <1>2, <1>5, <2>1, <2>2
<1>. QED  BY <1>4, <1>6, <1>7, <1>8

LEMMA StepGrows ==
    ASSUME TypeOK, TypeOK', NEW t \in Tasks, TaskInv(t), Step(t)
    PROVE  Grows(t)
<1>1. ASSUME UNCHANGED <<remote, pull, commented, approved, lost, faults>> PROVE Grows(t)
  BY <1>1 DEF Grows, Published
<1>2. CASE Begin(t) \/ Load(t) \/ Retry(t) \/ RetryRefused(t) \/ Commit(t) \/ NothingToCommit(t)
           \/ PushRejected(t) \/ Save(t) \/ Interrupt(t)
  BY <1>1, <1>2
     DEF Begin, Load, Retry, RetryRefused, Commit, NothingToCommit, PushRejected, Save,
                    Interrupt, forge, history
<1>3. ASSUME UNCHANGED <<remote, commented, approved, lost>>, faults \subseteq faults', pull => pull'
      PROVE  Grows(t)
  BY <1>3 DEF Grows, Published
<1>4. CASE Clone(t) \/ CloneFails(t) \/ Squash(t) \/ OpenPull(t) \/ PullUnanswered(t)
           \/ PublishFails(t, "committing", "commit") \/ PublishFails(t, "pushing", "push")
           \/ PublishFails(t, "opening", "pull") \/ PublishFails(t, "commenting", "comment")
  BY <1>3, <1>4
     DEF Clone, CloneFails, Squash, OpenPull, PullUnanswered, PublishFails, Warn, forge,
         history
<1>5. CASE Comment(t)
  BY <1>5 DEF Comment, Grows, Published, history
<1>6. ASSUME NEW p \in Phases, PassPhase(t, p) \/ FailPhase(t, p) PROVE Grows(t)
  <2>1. <<t, p, runs[t]>> \in Current(t)
    BY DEF Current
  <2>2. approved \subseteq approved' /\ approved' \subseteq approved \cup Current(t)
    BY <1>6, <2>1 DEF PassPhase, FailPhase, history
  <2>3. faults \subseteq faults'
    BY <1>6 DEF PassPhase, FailPhase, Warn
  <2>. QED  BY <1>6, <2>2, <2>3 DEF PassPhase, FailPhase, Grows, Published, forge, history
<1>8. CASE Discard(t)
  <2>1. open[t] \subseteq Current(t)
    BY <1>8 DEF Discard, Move, TaskInv, CloneInv, AtWork
  <2>. QED  BY <1>8, <2>1 DEF Discard, Grows, Published, forge
<1>7. CASE PushSucceeds(t) \/ PushUnanswered(t)
  <2>1. PICK to : Push(t, to)
    BY <1>7 DEF PushSucceeds, PushUnanswered
  <2>2. Published \subseteq Published' /\ Published' \subseteq Published \cup Current(t)
    BY <2>1, PushCarries DEF TaskInv
  <2>3. faults \subseteq faults'
    BY <1>7 DEF PushSucceeds, PushUnanswered, Warn
  <2>. QED  BY <2>1, <2>2, <2>3 DEF Push, Grows
<1>. QED  BY <1>2, <1>4, <1>5, <1>6, <1>7, <1>8 DEF Step

LEMMA StepSpares ==
    ASSUME TypeOK, NEW t \in Tasks, Step(t), NEW u \in Tasks, u # t
    PROVE  Spares(u)
<1>1. Untouched(u)
  BY Zenon DEF Step, Untouched, TypeOK, Move, file, clone,
     Begin, Load, Retry, RetryRefused, Clone, CloneFails, PassPhase, FailPhase, Discard, Squash, PublishFails,
     Commit, NothingToCommit, Push, PushSucceeds, PushUnanswered, PushRejected, OpenPull,
     PullUnanswered, Comment, Save, Interrupt
<1>2. ASSUME UNCHANGED <<remote, overtaken>> PROVE Spares(u)
  BY <1>1, <1>2 DEF Spares
<1>3. CASE Clone(t)
  BY <1>1, <1>3 DEF Clone, forge, Spares
<1>4. ASSUME NEW to, Push(t, to) PROVE Spares(u)
  BY <1>1, <1>4 DEF Push, Spares
<1>5. ASSUME ~Clone(t), \A to : ~Push(t, to) PROVE UNCHANGED <<remote, overtaken>>
  BY <1>5
     DEF Step, forge, history, Begin, Load, Retry, RetryRefused, CloneFails, PassPhase,
         FailPhase,
     Discard, Squash, PublishFails, Commit, NothingToCommit, PushSucceeds, PushUnanswered, PushRejected,
     OpenPull, PullUnanswered, Comment, Save, Interrupt
<1>. QED  BY <1>2, <1>3, <1>4, <1>5
-----------------------------------------------------------------------------
(* The invariant of the tasks that stand by. *)

LEMMA OthersKeep ==
    ASSUME TypeOK, NEW t \in Tasks, Grows(t),
        NEW u \in Tasks, u # t, Spares(u), TaskInv(u)
    PROVE  TaskInv(u)'
<1>. USE DEF Untouched
<1>1. Untouched(u)
  BY DEF Spares
<1>2. \A n : Made(u, n)' = Made(u, n)
  BY DEF Made, Approved, Grows, Current
<1>3. /\ \A w \in (approved \cup Published)' : w[1] = u => w \in approved \cup Published
      /\ \A w \in Published' : w[1] = u => w \in Published
  BY DEF Grows, Current
<1>4. RoleInv(u)'
  BY <1>1 DEF TaskInv, RoleInv
<1>5. RunInv(u)'
  BY <1>1, <1>2, <1>3 DEF TaskInv, RunInv
<1>6. CloneInv(u)'
  BY <1>1, <1>2 DEF TaskInv, CloneInv, Grows, Current
<1>7. StartInv(u)'
  BY <1>1 DEF TaskInv, StartInv, Grows, Spares, AtWork, Cloned
<1>8. CommitInv(u)'
  BY <1>1 DEF TaskInv, CommitInv, Grows
<1>9. ReportInv(u)'
  BY <1>1, <1>2 DEF TaskInv, ReportInv, Grows, Spares, Delivered
<1>10. RecordInv(u)'
  BY <1>1, <1>2 DEF TaskInv, RecordInv, Grows
<1>. QED  BY <1>4, <1>5, <1>6, <1>7, <1>8, <1>9, <1>10 DEF TaskInv
-----------------------------------------------------------------------------
(* The invariant of the task that moves. *)

(* While an execution goes on, what is recorded is of an earlier one. *)
LEMMA RunGoesOn ==
    ASSUME TypeOK, NEW t \in Tasks, Grows(t), TaskInv(t), stage[t] \in Active,
           runs'[t] = runs[t], loaded'[t] = loaded[t], recorded'[t] = recorded[t],
           stage'[t] # "preparing",
           stage'[t] \in AtWork => stage[t] \in {"preparing"} \cup AtWork /\ remote' = remote
    PROVE  RunInv(t)' /\ RecordInv(t)'
<1>1. /\ \A w \in approved \cup Published : w[1] = t => w[3] <= runs[t]
      /\ recorded[t] < runs[t] /\ \A read \in loaded[t] : read.recorded < runs[t]
      /\ runs[t] \in Nat /\ recorded[t] \in Nat /\ \A read \in loaded[t] : read.recorded \in Nat
  BY DeliveryAssumption DEF TaskInv, RunInv, TypeOK
<1>2. \A w \in approved' \cup Published' : w[1] = t => w[3] <= runs[t]
  BY <1>1 DEF Grows, Current
<1>3. stage'[t] \in AtWork => \A w \in Published' : w[1] = t => w[3] < runs[t]
  BY DEF TaskInv, RunInv, Published
<1>4. RunInv(t)'
  BY <1>1, <1>2, <1>3 DEF RunInv
<1>5. \A n \in {recorded[t]} \cup {read.recorded : read \in loaded[t]} : n # runs[t]
  BY <1>1
<1>6. \A n : n # runs[t] => Made(t, n)' = Made(t, n)
  BY DEF Made, Approved, Grows, Current
<1>7. RecordInv(t)'
  BY <1>5, <1>6 DEF TaskInv, RecordInv, Grows
<1>. QED  BY <1>4, <1>7

(* Without a clone, only what is reported is left to look at. *)
LEMMA NotAtWork ==
    ASSUME NEW t \in Tasks, stage'[t] \notin AtWork
    PROVE  CloneInv(t)' /\ StartInv(t)' /\ CommitInv(t)'
BY DEF CloneInv, StartInv, CommitInv, AtWork

LEMMA StartKeeps ==
    ASSUME TypeOK, TypeOK', NEW t \in Tasks, Grows(t), TaskInv(t),
           Begin(t) \/ Load(t) \/ Retry(t) \/ RetryRefused(t)
    PROVE  TaskInv(t)'
<1>. USE DeliveryAssumption
<1>1. /\ runs[t] \in Nat /\ recorded[t] \in Nat /\ \A read \in loaded[t] : read.recorded \in Nat
      /\ \A w \in approved \cup Published : w[3] \in Nat
  <2>1. runs[t] \in Nat /\ recorded[t] \in Nat /\ \A read \in loaded[t] : read.recorded \in Nat
    BY DEF TypeOK
  <2>2. approved \subseteq Works /\ Published \subseteq Works
    BY PublishedType DEF TypeOK
  <2>3. \A w \in Works : w[3] \in Nat
    BY DEF Works
  <2>. QED  BY <2>1, <2>2, <2>3
<1>2. Published' = Published /\ \A n : Made(t, n)' = Made(t, n)
  BY DEF Begin, Load, Retry, RetryRefused, forge, history, Published, Made, Approved
<1>3. CASE Begin(t) \/ Retry(t)
  <2>1. stage'[t] = "preparing" /\ runs'[t] = runs[t] + 1 /\ pull' = pull
    BY <1>3 DEF Begin, Retry, Move, forge, TypeOK
  <2>2. /\ recorded'[t] \in {recorded[t]} \cup {read.recorded : read \in loaded[t]}
        /\ loaded'[t] \subseteq loaded[t]
    BY <1>3 DEF Begin, Retry, file, TypeOK
  <2>3. \A w \in approved \cup Published : w[1] = t => w[3] < runs'[t]
    BY <1>1, <2>1 DEF TaskInv, RunInv
  <2>4. /\ recorded'[t] < runs'[t]
        /\ \A read \in loaded'[t] : read.recorded < runs'[t]
    BY <1>1, <2>1, <2>2 DEF TaskInv, RunInv
  <2>5. Made(t, runs[t])' = {}
    BY <1>1, <1>2, <2>1, <2>3 DEF Made, Approved
  <2>6. approved' = approved
    BY <1>3 DEF Begin, Retry, history
  <2>7. RunInv(t)'
    BY <1>1, <1>2, <2>1, <2>2, <2>3, <2>4, <2>5, <2>6 DEF RunInv
  <2>8. RecordInv(t)'
    BY <1>2, <2>1, <2>2 DEF TaskInv, RecordInv
  <2>9. RoleInv(t)' /\ ReportInv(t)'
    BY <2>1 DEF RoleInv, ReportInv, Delivered
  <2>. QED  BY <2>1, <2>7, <2>8, <2>9, NotAtWork DEF TaskInv, AtWork
<1>4. CASE Load(t) \/ RetryRefused(t)
  <2>1. UNCHANGED <<stage, runs, file, clone, forge, history, faults>>
    BY <1>4 DEF Load, RetryRefused
  <2>2. {read.recorded : read \in loaded'[t]} \subseteq {recorded[t]}
    BY <1>4 DEF Load, RetryRefused, TypeOK
  <2>3. \A read \in loaded'[t] : read.recorded = recorded[t]
    BY <2>2
  <2>4. RunInv(t)'
    BY <1>1, <1>2, <2>1, <2>3 DEF TaskInv, RunInv, file, history
  <2>5. RecordInv(t)'
    BY <1>2, <2>1, <2>2 DEF TaskInv, RecordInv, file, forge
  <2>6. RoleInv(t)' /\ CloneInv(t)' /\ StartInv(t)' /\ CommitInv(t)'
    BY <1>2, <2>1
       DEF TaskInv, RoleInv, CloneInv, StartInv, CommitInv, clone, forge, history, Current
  <2>7. ReportInv(t)'
    BY <1>2, <2>1 DEF TaskInv, ReportInv, Delivered, file, forge, history
  <2>. QED  BY <2>4, <2>5, <2>6, <2>7 DEF TaskInv
<1>. QED  BY <1>3, <1>4

LEMMA CloneKeeps ==
    ASSUME TypeOK, TypeOK',
        NEW t \in Tasks, Grows(t), TaskInv(t), Clone(t) \/ CloneFails(t)
    PROVE  TaskInv(t)'
<1>1. stage[t] = "preparing" /\ UNCHANGED <<runs, recorded, loaded, remote, approved, lost>>
      /\ stage'[t] \in {"working", "over"}
  BY MoveType DEF Clone, CloneFails, forge, history, Stages, Active, Cloned
<1>2. Made(t, runs[t])' = {} /\ Published' = Published
  BY <1>1 DEF TaskInv, RunInv, Made, Approved, Published
<1>3. RunInv(t)' /\ RecordInv(t)'
  BY <1>1, RunGoesOn DEF Active, AtWork
<1>4. CASE CloneFails(t)
  <2>1. stage'[t] = "over" /\ status'[t] = "Failed"
    BY <1>4, MoveType DEF CloneFails, Stages, TypeOK
  <2>2. RoleInv(t)' /\ ReportInv(t)'
    BY <2>1 DEF RoleInv, ReportInv, Delivered
  <2>. QED  BY <1>3, <2>1, <2>2, NotAtWork DEF TaskInv, AtWork
<1>5. CASE Clone(t)
  <2>1. stage'[t] = "working"
    BY <1>5, MoveType DEF Clone, Stages, Active, Cloned
  <2>2. PICK h \in Histories :
          /\ head'[t] = h /\ start'[t] = Len(h) /\ open'[t] = {}
          /\ h = remote \/ (h = <<>> /\ "ls-remote" \in faults')
    <3>1. remote \in Histories /\ <<>> \in Histories
      BY DEF TypeOK, Histories
    <3>2. PICK h \in Histories : head' = [head EXCEPT ![t] = h] /\ (h = remote \/ (h = <<>> /\ "ls-remote" \in faults'))
      BY <1>5, <3>1, WarnType DEF Clone
    <3>3. head'[t] = h
      BY <3>2 DEF TypeOK
    <3>. QED  BY <1>5, <3>2, <3>3 DEF Clone, TypeOK
  <2>3. Len(h) \in Nat
    BY DEF Histories
  <2>4. \A i \in 1..Len(h) : h[i] \subseteq Published
    BY <2>2, PublishedType
  <2>5. CloneInv(t)'
    BY <1>2, <2>2, <2>3, <2>4 DEF CloneInv
  <2>6. StartInv(t)'
    BY <1>1, <2>2 DEF StartInv
  <2>7. RoleInv(t)' /\ CommitInv(t)' /\ ReportInv(t)'
    BY <2>1 DEF RoleInv, CommitInv, ReportInv, Delivered
  <2>. QED  BY <1>3, <2>5, <2>6, <2>7 DEF TaskInv
<1>. QED  BY <1>4, <1>5

LEMMA PhaseKeeps ==
    ASSUME TypeOK, TypeOK', NEW t \in Tasks, Grows(t), TaskInv(t),
           NEW p \in Phases, PassPhase(t, p) \/ FailPhase(t, p)
    PROVE  TaskInv(t)'
<1>1. stage[t] = "working" /\ stage'[t] = "working"
      /\ UNCHANGED <<runs, recorded, loaded, start, remote, lost, overtaken>>
      /\ faults \subseteq faults'
  BY MoveType DEF PassPhase, FailPhase, Warn, forge, history, Stages, Active, Cloned
<1>2. RunInv(t)' /\ RecordInv(t)'
  BY <1>1, RunGoesOn DEF Active, AtWork, Cloned
<1>3. RoleInv(t)' /\ CommitInv(t)' /\ ReportInv(t)'
  BY <1>1 DEF RoleInv, CommitInv, ReportInv, Delivered
<1>4. PICK left \in SUBSET Works :
        /\ left \subseteq open[t] \cup {<<t, p, runs[t]>>} /\ open[t] \subseteq left
        /\ \A w \in Made(t, runs[t])' : w \in Made(t, runs[t]) \/ w \in left
        /\ \/ open'[t] = left /\ head'[t] = head[t]
           \/ open'[t] = {} /\ head'[t] = Append(head[t], left)
  <2>1. PICK own \in SUBSET {<<t, p, runs[t]>>} :
          /\ approved' = approved \cup own \/ approved' = approved
          /\ \/ open'[t] = open[t] \cup own /\ head'[t] = head[t]
             \/ open'[t] = {} /\ head'[t] = Append(head[t], open[t] \cup own)
    <3>1. CASE PassPhase(t, p)
      BY <3>1 DEF PassPhase, TypeOK
    <3>2. CASE FailPhase(t, p)
      BY <3>2 DEF FailPhase, TypeOK, history
    <3>. QED  BY <3>1, <3>2
  <2>2. open[t] \cup own \in SUBSET Works
    BY OwnWork DEF TypeOK
  <2>3. \A w \in Made(t, runs[t])' : w \in Made(t, runs[t]) \/ w \in open[t] \cup own
    BY <1>1, <2>1 DEF Made, Approved
  <2>. QED  BY <2>1, <2>2, <2>3
<1>6. /\ open[t] \subseteq Current(t)
      /\ \A i \in 1..start[t] : head[t][i] \subseteq Published
      /\ \A i \in (start[t] + 1)..Len(head[t]) : head[t][i] \subseteq Current(t)
      /\ \A w \in Made(t, runs[t]) :
            w \in open[t] \/ \E i \in (start[t] + 1)..Len(head[t]) : w \in head[t][i]
  BY <1>1 DEF TaskInv, CloneInv, AtWork
<1>7. left \subseteq Current(t)
  BY <1>4, <1>6, OwnWork
<1>8. \A w \in Made(t, runs[t])' :
         w \in left \/ \E i \in (start[t] + 1)..Len(head[t]) : w \in head[t][i]
  BY <1>4, <1>6
<1>9. Published' = Published /\ Current(t)' = Current(t)
  BY <1>1 DEF Published, Current
<1>10. head[t] \in Histories /\ start[t] \in 0..Len(head[t]) /\ Len(head[t]) \in Nat
  BY DEF TypeOK, Histories
<1>11. CASE open'[t] = left /\ head'[t] = head[t]
  <2>1. CloneInv(t)'
    BY <1>1, <1>6, <1>7, <1>8, <1>9, <1>11 DEF CloneInv
  <2>2. StartInv(t)'
    BY <1>1, <1>11 DEF TaskInv, StartInv
  <2>. QED  BY <1>2, <1>3, <2>1, <2>2 DEF TaskInv
<1>12. CASE open'[t] = {} /\ head'[t] = Append(head[t], left)
  <2>1. /\ Len(head'[t]) = Len(head[t]) + 1
        /\ \A i \in 1..Len(head[t]) : head'[t][i] = head[t][i]
        /\ head'[t][Len(head[t]) + 1] = left
    BY <1>4, <1>10, <1>12, AppendTo
  <2>2. /\ \A i \in 1..start[t] : i \in 1..Len(head[t])
        /\ \A i \in (start[t] + 1)..Len(head'[t]) :
              i = Len(head[t]) + 1 \/ (i \in 1..Len(head[t]) /\ i \in (start[t] + 1)..Len(head[t]))
        /\ \A i \in (start[t] + 1)..Len(head[t]) : i \in 1..Len(head[t]) /\ i \in (start[t] + 1)..Len(head'[t])
        /\ Len(head[t]) + 1 \in (start[t] + 1)..Len(head'[t])
    BY <1>10, <2>1
  <2>3. /\ \A i \in 1..start[t] : head'[t][i] \subseteq Published
        /\ \A i \in (start[t] + 1)..Len(head'[t]) : head'[t][i] \subseteq Current(t)
        /\ \A w \in Made(t, runs[t])' : \E i \in (start[t] + 1)..Len(head'[t]) : w \in head'[t][i]
    BY <1>6, <1>7, <1>8, <2>1, <2>2
  <2>4. CloneInv(t)'
    BY <1>1, <1>9, <1>12, <2>3 DEF CloneInv
  <2>5. StartInv(t)'
    BY <1>1, <2>1, <2>2 DEF TaskInv, StartInv
  <2>. QED  BY <1>2, <1>3, <2>4, <2>5 DEF TaskInv
<1>. QED  BY <1>4, <1>11, <1>12

LEMMA DiscardKeeps ==
    ASSUME TypeOK, TypeOK', NEW t \in Tasks, Grows(t), TaskInv(t), Discard(t)
    PROVE  TaskInv(t)'
<1>1. PICK gone \in SUBSET open[t] :
        open'[t] = open[t] \ gone /\ lost' = lost \cup (gone \cap approved)
  BY DEF Discard, TypeOK
<1>2. /\ stage[t] = "working" /\ stage'[t] = "working"
      /\ UNCHANGED <<runs, recorded, loaded, head, start, remote, approved, overtaken, faults>>
  BY MoveType DEF Discard, file, forge, Stages, Active, Cloned
<1>3. RunInv(t)' /\ RecordInv(t)'
  BY <1>2, RunGoesOn DEF Active, AtWork, Cloned
<1>4. RoleInv(t)' /\ CommitInv(t)' /\ ReportInv(t)'
  BY <1>2 DEF RoleInv, CommitInv, ReportInv, Delivered
<1>5. Published' = Published /\ Current(t)' = Current(t)
  BY <1>2 DEF Published, Current
<1>6. \A w \in Made(t, runs[t])' : w \in Made(t, runs[t]) /\ w \notin gone
  BY <1>1, <1>2 DEF Made, Approved
<1>7. CloneInv(t)'
  BY <1>1, <1>2, <1>5, <1>6 DEF TaskInv, CloneInv, AtWork
<1>8. StartInv(t)'
  BY <1>2 DEF TaskInv, StartInv
<1>. QED  BY <1>3, <1>4, <1>7, <1>8 DEF TaskInv

LEMMA SquashKeeps ==
    ASSUME TypeOK, TypeOK', NEW t \in Tasks, Grows(t), TaskInv(t), Squash(t)
    PROVE  TaskInv(t)'
<1>1. stage[t] = "working" /\ stage'[t] = "committing"
      /\ UNCHANGED <<runs, recorded, loaded, start, remote, approved, lost, overtaken>> /\ faults \subseteq faults'
  BY MoveType DEF Squash, Warn, file, forge, history, Stages, Active, Cloned
<1>2. RunInv(t)' /\ RecordInv(t)'
  BY <1>1, RunGoesOn DEF Active, AtWork, Cloned
<1>3. RoleInv(t)' /\ ReportInv(t)'
  BY <1>1 DEF RoleInv, ReportInv, Delivered
<1>4. /\ Published' = Published /\ Current(t)' = Current(t)
      /\ Made(t, runs[t])' = Made(t, runs[t])
  BY <1>1 DEF Published, Current, Made, Approved
<1>5. /\ open[t] \subseteq Current(t)
      /\ \A i \in 1..start[t] : head[t][i] \subseteq Published
      /\ \A i \in (start[t] + 1)..Len(head[t]) : head[t][i] \subseteq Current(t)
      /\ \A w \in Made(t, runs[t]) :
            w \in open[t] \/ \E i \in (start[t] + 1)..Len(head[t]) : w \in head[t][i]
  BY <1>1 DEF TaskInv, CloneInv, AtWork
<1>6. CASE UNCHANGED <<head, open>> /\ Warn("squash")
  <2>1. CloneInv(t)' /\ StartInv(t)'
    BY <1>1, <1>4, <1>5, <1>6 DEF TaskInv, CloneInv, StartInv, AtWork
  <2>2. CommitInv(t)'
    BY <1>1, <1>6, WarnType DEF CommitInv
  <2>. QED  BY <1>2, <1>3, <2>1, <2>2 DEF TaskInv
<1>7. CASE head'[t] = Squashed(t).head /\ open'[t] = Squashed(t).open
  <2>1. /\ Len(head'[t]) = start[t] /\ \A i \in 1..start[t] : head'[t][i] = head[t][i]
        /\ \A w : w \in open'[t] <=>
              w \in open[t] \/ \E i \in (start[t] + 1)..Len(head[t]) : w \in head[t][i]
    BY <1>7, SquashedType
  <2>2. start[t] \in Nat /\ \A i \in (start[t] + 1)..start[t] : FALSE
    BY DEF TypeOK
  <2>3. open'[t] \subseteq Current(t) /\ Made(t, runs[t]) \subseteq open'[t]
    BY <1>5, <2>1
  <2>4. CloneInv(t)'
    BY <1>1, <1>4, <1>5, <2>1, <2>2, <2>3 DEF CloneInv
  <2>5. StartInv(t)' /\ CommitInv(t)'
    BY <1>1, <2>1 DEF TaskInv, StartInv, CommitInv, AtWork
  <2>. QED  BY <1>2, <1>3, <2>4, <2>5 DEF TaskInv
<1>8. head' = [head EXCEPT ![t] = Squashed(t).head] /\ open' = [open EXCEPT ![t] = Squashed(t).open]
        => head'[t] = Squashed(t).head /\ open'[t] = Squashed(t).open
  BY DEF TypeOK
<1>. QED  BY <1>6, <1>7, <1>8 DEF Squash

LEMMA CommitKeeps ==
    ASSUME TypeOK, TypeOK',
        NEW t \in Tasks, Grows(t), TaskInv(t), Commit(t) \/ NothingToCommit(t)
    PROVE  TaskInv(t)'
<1>1. stage[t] = "committing"
      /\ UNCHANGED <<runs, recorded, loaded, start, remote, approved, lost, overtaken, commented, faults>>
  BY DEF Move, Commit, NothingToCommit, file, clone, forge, history
<1>2. /\ Published' = Published /\ Current(t)' = Current(t)
      /\ Made(t, runs[t])' = Made(t, runs[t])
  BY <1>1 DEF Published, Current, Made, Approved
<1>3. /\ open[t] \subseteq Current(t)
      /\ \A i \in 1..start[t] : head[t][i] \subseteq Published
      /\ \A i \in (start[t] + 1)..Len(head[t]) : head[t][i] \subseteq Current(t)
      /\ \A w \in Made(t, runs[t]) :
            w \in open[t] \/ \E i \in (start[t] + 1)..Len(head[t]) : w \in head[t][i]
  BY <1>1 DEF TaskInv, CloneInv, AtWork
<1>4. head[t] \in Histories /\ start[t] \in 0..Len(head[t]) /\ Len(head[t]) \in Nat /\ open[t] \in SUBSET Works
  BY DEF TypeOK, Histories
<1>5. CASE NothingToCommit(t)
  <2>1. /\ stage'[t] = IF t \in Coders THEN "saving" ELSE "commenting"
        /\ open[t] = {}
    BY <1>5 DEF NothingToCommit, Move, TypeOK
  <2>2. RunInv(t)' /\ RecordInv(t)'
    BY <1>1, <2>1, RunGoesOn DEF Active, AtWork, Cloned
  <2>3. RoleInv(t)'
    BY <2>1 DEF RoleInv, Tasks
  <2>4. faults = {} => Made(t, runs[t]) = {}
    BY <1>1, <1>3, <1>4, <2>1 DEF TaskInv, CommitInv
  <2>5. ReportInv(t)'
    BY <1>1, <1>2, <2>1, <2>4, DeliveryAssumption DEF ReportInv, Delivered
  <2>. QED  BY <2>1, <2>2, <2>3, <2>5, NotAtWork DEF TaskInv, AtWork
<1>6. CASE Commit(t)
  <2>1. stage'[t] = "pushing" /\ head'[t] = Append(head[t], open[t]) /\ open'[t] = {} /\ open[t] # {}
    BY <1>6 DEF Commit, Move, TypeOK
  <2>2. RunInv(t)' /\ RecordInv(t)'
    BY <1>1, <2>1, RunGoesOn DEF Active, AtWork, Cloned
  <2>3. RoleInv(t)' /\ ReportInv(t)'
    BY <2>1 DEF RoleInv, ReportInv, Delivered
  <2>4. /\ Len(head'[t]) = Len(head[t]) + 1
        /\ \A i \in 1..Len(head[t]) : head'[t][i] = head[t][i]
        /\ head'[t][Len(head[t]) + 1] = open[t]
    BY <1>4, <2>1, AppendTo
  <2>5. /\ \A i \in 1..start[t] : i \in 1..Len(head[t])
        /\ \A i \in (start[t] + 1)..Len(head'[t]) :
              i = Len(head[t]) + 1 \/ (i \in 1..Len(head[t]) /\ i \in (start[t] + 1)..Len(head[t]))
        /\ \A i \in (start[t] + 1)..Len(head[t]) : i \in 1..Len(head[t]) /\ i \in (start[t] + 1)..Len(head'[t])
        /\ Len(head[t]) + 1 \in (start[t] + 1)..Len(head'[t])
    BY <1>4, <2>4
  <2>6. /\ \A i \in 1..start[t] : head'[t][i] \subseteq Published
        /\ \A i \in (start[t] + 1)..Len(head'[t]) : head'[t][i] \subseteq Current(t)
        /\ \A w \in Made(t, runs[t])' : \E i \in (start[t] + 1)..Len(head'[t]) : w \in head'[t][i]
    BY <1>2, <1>3, <2>4, <2>5
  <2>7. CloneInv(t)'
    BY <1>1, <1>2, <2>1, <2>6 DEF CloneInv
  <2>8. StartInv(t)'
    BY <1>1, <2>1, <2>4, <2>5 DEF TaskInv, StartInv, AtWork
  <2>9. CommitInv(t)'
    BY <1>1, <1>4, <2>1, <2>4 DEF CommitInv
  <2>. QED  BY <2>2, <2>3, <2>7, <2>8, <2>9 DEF TaskInv
<1>. QED  BY <1>5, <1>6

LEMMA PushKeeps ==
    ASSUME TypeOK, TypeOK', NEW t \in Tasks, Grows(t), TaskInv(t),
           PushSucceeds(t) \/ PushUnanswered(t) \/ PushRejected(t)
    PROVE  TaskInv(t)'
<1>1. /\ stage[t] = "pushing" /\ stage'[t] \in {"opening", "commenting", "saving"}
      /\ UNCHANGED <<runs, recorded, loaded, approved, lost, commented>>
      /\ Made(t, runs[t])' = Made(t, runs[t])
  BY
     DEF PushSucceeds, PushUnanswered, PushRejected, Push, Move, TypeOK, file, forge,
         history, Made, Approved
<1>2. RunInv(t)' /\ RecordInv(t)'
  BY <1>1, RunGoesOn DEF Active, AtWork, Cloned
<1>3. CloneInv(t)' /\ StartInv(t)' /\ CommitInv(t)'
  BY <1>1, NotAtWork DEF AtWork
<1>4. CASE PushRejected(t)
  <2>1. stage'[t] = "saving" /\ UNCHANGED <<remote, overtaken, faults>>
    BY <1>4 DEF PushRejected, Move, TypeOK, forge, history
  <2>2. t \in overtaken \/ faults # {}
    <3>1. SUFFICES ASSUME t \notin overtaken, faults = {} PROVE IsPrefix(remote, head[t])
      BY <1>4 DEF PushRejected, Accepted
    <3>2. Len(remote) = start[t] /\ \A i \in 1..start[t] : head[t][i] = remote[i]
      BY <1>1, <3>1 DEF TaskInv, StartInv, AtWork
    <3>3. remote \in Histories /\ head[t] \in Histories /\ start[t] \in 0..Len(head[t]) /\ Len(head[t]) \in Nat
      BY DEF TypeOK, Histories
    <3>. QED  BY <3>2, <3>3, PrefixOf
  <2>3. RoleInv(t)' /\ ReportInv(t)'
    BY <2>1, <2>2 DEF RoleInv, ReportInv, Delivered
  <2>. QED  BY <1>2, <1>3, <2>3 DEF TaskInv
<1>5. CASE PushUnanswered(t)
  <2>1. stage'[t] = "saving" /\ faults' # {}
    BY <1>5, WarnType DEF PushUnanswered, Push, Move, TypeOK
  <2>2. RoleInv(t)' /\ ReportInv(t)'
    BY <2>1 DEF RoleInv, ReportInv, Delivered
  <2>. QED  BY <1>2, <1>3, <2>2 DEF TaskInv
<1>6. CASE PushSucceeds(t)
  <2>1. stage'[t] = IF t \in Coders THEN "opening" ELSE "commenting"
    BY <1>6 DEF PushSucceeds, Push, Move, TypeOK
  <2>2. Made(t, runs[t]) \subseteq Published' /\ Published' # {}
    BY <1>6, PushCarries DEF PushSucceeds, TaskInv
  <2>3. RoleInv(t)'
    BY <2>1 DEF RoleInv, Tasks
  <2>4. ReportInv(t)'
    BY <1>1, <2>1, <2>2 DEF ReportInv, Delivered
  <2>. QED  BY <1>2, <1>3, <2>3, <2>4 DEF TaskInv
<1>. QED  BY <1>4, <1>5, <1>6

LEMMA ReportKeeps ==
    ASSUME TypeOK, TypeOK', NEW t \in Tasks, Grows(t), TaskInv(t),
           \/ OpenPull(t) \/ PullUnanswered(t) \/ Comment(t) \/ Interrupt(t)
           \/ \E from \in {"committing", "pushing", "opening", "commenting"} : \E fault :
                 PublishFails(t, from, fault)
    PROVE  TaskInv(t)'
<1>1. /\ stage[t] \in Active /\ stage'[t] \in {"recording", "saving", "cut"}
      /\ UNCHANGED <<runs, recorded, loaded, approved, lost, remote, overtaken>>
      /\ Published' = Published /\ Made(t, runs[t])' = Made(t, runs[t])
  <2>1. CASE \E from \in {"committing", "pushing", "opening", "commenting"} : \E fault :
                PublishFails(t, from, fault)
    <3>1. PICK from \in {"committing", "pushing", "opening", "commenting"} : \E fault :
            PublishFails(t, from, fault)
      BY <2>1
    <3>. QED  BY <3>1
            DEF PublishFails, Move, TypeOK, file, forge, history, Active, Cloned,
                Published, Made, Approved
  <2>2. CASE Interrupt(t)
    BY <2>2 DEF Interrupt, TypeOK, file, forge, history, Published, Made, Approved
  <2>3. CASE OpenPull(t) \/ PullUnanswered(t) \/ Comment(t)
    BY <2>3
       DEF OpenPull, PullUnanswered, Comment, Move, TypeOK, file, history, Active, Cloned,
           Published, Made, Approved
  <2>. QED  BY <2>1, <2>2, <2>3
<1>2. RunInv(t)' /\ RecordInv(t)'
  BY <1>1, RunGoesOn DEF AtWork
<1>3. CloneInv(t)' /\ StartInv(t)' /\ CommitInv(t)'
  BY <1>1, NotAtWork DEF AtWork
<1>4. RoleInv(t)' /\ ReportInv(t)'
  <2>1. CASE OpenPull(t)
    <3>1. stage[t] = "opening" /\ stage'[t] = "recording" /\ pull'
      BY <2>1 DEF OpenPull, Move, TypeOK
    <3>. QED  BY <1>1, <3>1 DEF TaskInv, RoleInv, ReportInv, Delivered
  <2>2. CASE Comment(t)
    <3>1. stage[t] = "commenting" /\ stage'[t] = "saving" /\ t \in commented' /\ UNCHANGED faults
      BY <2>2 DEF Comment, Move, TypeOK
    <3>. QED  BY <1>1, <3>1, DeliveryAssumption DEF TaskInv, RoleInv, ReportInv, Delivered
  <2>3. CASE Interrupt(t)
    <3>1. stage'[t] = "cut"
      BY <2>3 DEF Interrupt, TypeOK
    <3>. QED  BY <1>1, <3>1 DEF RoleInv, ReportInv, Delivered
  <2>4. ASSUME NEW from, NEW fault, Move(t, from, "saving"), Warn(fault)
        PROVE  RoleInv(t)' /\ ReportInv(t)'
    <3>1. stage'[t] = "saving" /\ faults' # {}
      BY <2>4, WarnType DEF Move, TypeOK
    <3>. QED  BY <3>1 DEF RoleInv, ReportInv, Delivered
  <2>. QED  BY <2>1, <2>2, <2>3, <2>4 DEF PullUnanswered, PublishFails
<1>. QED  BY <1>2, <1>3, <1>4 DEF TaskInv

LEMMA SaveKeeps ==
    ASSUME TypeOK, TypeOK', NEW t \in Tasks, Grows(t), TaskInv(t), Save(t)
    PROVE  TaskInv(t)'
<1>. USE DeliveryAssumption
<1>1. /\ stage[t] \in {"saving", "recording"} /\ stage'[t] = "over"
      /\ recorded'[t] = IF stage[t] = "saving" THEN recorded[t] ELSE runs[t]
      /\ UNCHANGED <<runs, loaded, approved, lost, remote, pull, overtaken, commented, faults>>
      /\ Published' = Published /\ \A n : Made(t, n)' = Made(t, n)
  BY DEF Save, Move, TypeOK, forge, history, Published, Made, Approved
<1>2. /\ runs[t] \in Nat /\ recorded[t] < runs[t]
      /\ \A read \in loaded[t] : read.recorded < runs[t]
  BY <1>1 DEF TaskInv, RunInv, Active, Cloned, TypeOK
<1>3. RunInv(t)'
  BY <1>1, <1>2 DEF TaskInv, RunInv, Active, Cloned, AtWork
<1>4. stage[t] = "recording" => t \in Coders /\ pull /\ Made(t, runs[t]) \subseteq Published
  BY DEF TaskInv, RoleInv, ReportInv
<1>5. RecordInv(t)'
  BY <1>1, <1>4 DEF TaskInv, RecordInv
<1>6. RoleInv(t)' /\ ReportInv(t)'
  BY <1>1, <1>4 DEF TaskInv, RoleInv, ReportInv, Delivered
<1>. QED  BY <1>1, <1>3, <1>5, <1>6, NotAtWork DEF TaskInv, AtWork

LEMMA OwnStepKeeps ==
    ASSUME TypeOK, TypeOK', NEW t \in Tasks, Grows(t), TaskInv(t), Step(t)
    PROVE  TaskInv(t)'
BY StartKeeps, CloneKeeps, PhaseKeeps, DiscardKeeps, SquashKeeps, CommitKeeps, PushKeeps,
   ReportKeeps, SaveKeeps DEF Step
-----------------------------------------------------------------------------
(* The invariant. *)

LEMMA AddKeeps ==
    ASSUME TypeOK, NEW t \in Tasks, AddInv, Step(t)
    PROVE  AddInv'
<1>1. ASSUME UNCHANGED <<lost, exposed>>, faults \subseteq faults' PROVE AddInv'
  BY <1>1 DEF AddInv
<1>2. ASSUME UNCHANGED lost, exposed' = [exposed EXCEPT ![t] = {}], faults \subseteq faults'
      PROVE  AddInv'
  BY <1>2 DEF AddInv, TypeOK
<1>3. CASE \/ Begin(t) \/ Load(t) \/ Retry(t) \/ RetryRefused(t) \/ Commit(t) \/ NothingToCommit(t)
           \/ PushRejected(t) \/ OpenPull(t) \/ PullUnanswered(t) \/ Comment(t) \/ Save(t)
           \/ Interrupt(t) \/ \E from, fault : PublishFails(t, from, fault)
  BY <1>1, <1>3
     DEF Begin, Load, Retry, RetryRefused, Commit, NothingToCommit, PushRejected,
         OpenPull,
                    PullUnanswered, Comment, Save, Interrupt, PublishFails, Warn, clone, history
<1>4. CASE PushSucceeds(t) \/ PushUnanswered(t)
  BY <1>1, <1>4 DEF PushSucceeds, PushUnanswered, Push, Warn, clone
<1>5. CASE Clone(t) \/ CloneFails(t) \/ Squash(t)
  BY <1>2, <1>5 DEF Clone, CloneFails, Squash, Warn, history
<1>6. ASSUME NEW p \in Phases, PassPhase(t, p) \/ FailPhase(t, p) PROVE AddInv'
  <2>1. \/ UNCHANGED <<lost, exposed>> /\ faults \subseteq faults'
        \/ UNCHANGED lost /\ exposed' = [exposed EXCEPT ![t] = {}] /\ faults \subseteq faults'
        \/ "add" \in faults'
    BY <1>6, WarnType DEF PassPhase, FailPhase, history
  <2>2. CASE "add" \in faults'
    BY <2>2 DEF AddInv
  <2>. QED  BY <1>1, <1>2, <2>1, <2>2
<1>7. CASE Discard(t)
  <2>1. PICK gone \in SUBSET (open[t] \ (approved \ exposed[t])) :
          exposed' = [exposed EXCEPT ![t] = @ \ gone] /\ lost' = lost \cup (gone \cap approved)
    BY <1>7 DEF Discard
  <2>2. lost' # {} => lost # {} \/ exposed[t] # {}
    BY <2>1
  <2>3. \A u \in Tasks : exposed'[u] # {} => exposed[u] # {}
    BY <2>1 DEF TypeOK
  <2>4. faults' = faults
    BY <1>7 DEF Discard
  <2>. QED  BY <2>2, <2>3, <2>4 DEF AddInv
<1>. QED  BY <1>3, <1>4, <1>5, <1>6, <1>7 DEF Step

LEMMA InitIInv == Init => IInv
<1>. SUFFICES ASSUME Init PROVE IInv
  OBVIOUS
<1>. USE DeliveryAssumption
<1>1. remote \in Histories /\ pull \in BOOLEAN /\ \A w \in Published : w[3] = 0
  <2>1. CASE remote = <<>> /\ pull = FALSE
    <3>1. <<>> \in Histories /\ Len(<<>>) = 0 /\ 1..0 = {}
      BY DEF Histories
    <3>2. \A w \in Published : \E i \in 1..Len(remote) : w \in remote[i]
      BY <2>1, <3>1, ContentsOf DEF Published
    <3>. QED  BY <2>1, <3>1, <3>2
  <2>2. CASE /\ \E t \in Coders : PhaseCount > 0 /\ remote = << {<<t, 1, 0>>} >>
             /\ pull = TRUE
    <3>1. PICK t \in Coders : PhaseCount > 0 /\ remote = << {<<t, 1, 0>>} >>
      BY <2>2
    <3>2. {<<t, 1, 0>>} \in SUBSET Works
      BY <3>1 DEF Works, Tasks, Phases
    <3>3. remote \in Histories /\ Len(remote) = 1 /\ remote[1] = {<<t, 1, 0>>}
      BY <3>1, <3>2 DEF Histories
    <3>4. \A w \in Published : \E i \in 1..1 : w \in remote[i]
      BY <3>3, ContentsOf DEF Published
    <3>. QED  BY <2>2, <3>3, <3>4
  <2>. QED  BY <2>1, <2>2 DEF Init
<1>2. <<>> \in Histories /\ Len(<<>>) = 0
  BY DEF Histories
<1>3. TypeOK
  BY <1>1, <1>2 DEF Init, TypeOK
<1>4. ASSUME NEW t \in Tasks PROVE TaskInv(t)
  <2>1. /\ stage[t] = "idle" /\ runs[t] = 0 /\ recorded[t] = 0 /\ loaded[t] = {} /\ approved = {}
    BY DEF Init
  <2>2. RunInv(t)
    BY <1>1, <2>1 DEF RunInv, Active, Cloned, AtWork
  <2>3. RecordInv(t)
    BY <2>1 DEF RecordInv
  <2>. QED  BY <2>1, <2>2, <2>3
          DEF TaskInv, RoleInv, CloneInv, StartInv, CommitInv, ReportInv, Delivered,
              AtWork
<1>5. AddInv
  BY DEF Init, AddInv
<1>. QED  BY <1>3, <1>4, <1>5 DEF IInv

LEMMA StepIInv == IInv /\ [Next]_vars => IInv'
<1>. SUFFICES ASSUME IInv, [Next]_vars PROVE IInv'
  OBVIOUS
<1>1. TypeOK /\ TypeOK'
  BY TypeStep DEF IInv, TaskInv
<1>2. CASE UNCHANGED vars
  <2>1. ASSUME NEW t \in Tasks PROVE TaskInv(t)'
    <3>1. UNCHANGED <<stage, runs, status, recorded, loaded, head, start, open, remote, pull,
                      commented, approved, lost, overtaken, faults>>
      BY <1>2 DEF vars, file, clone, forge, history
    <3>2. Published' = Published /\ Current(t)' = Current(t) /\ \A n : Made(t, n)' = Made(t, n)
      BY <3>1 DEF Published, Current, Made, Approved
    <3>3. RoleInv(t)' /\ RunInv(t)' /\ RecordInv(t)'
      BY <3>1, <3>2 DEF IInv, TaskInv, RoleInv, RunInv, RecordInv
    <3>4. CloneInv(t)' /\ StartInv(t)' /\ CommitInv(t)'
      BY <3>1, <3>2 DEF IInv, TaskInv, CloneInv, StartInv, CommitInv
    <3>5. ReportInv(t)'
      BY <3>1, <3>2 DEF IInv, TaskInv, ReportInv, Delivered
    <3>. QED  BY <3>3, <3>4, <3>5 DEF TaskInv
  <2>2. AddInv'
    BY <1>2 DEF vars, clone, history, IInv, AddInv
  <2>. QED  BY <1>1, <2>1, <2>2 DEF IInv
<1>3. ASSUME NEW t \in Tasks, Step(t) PROVE IInv'
  <2>1. TaskInv(t) /\ Grows(t)
    BY <1>1, <1>3, StepGrows DEF IInv
  <2>2. TaskInv(t)'
    BY <1>1, <1>3, <2>1, OwnStepKeeps
  <2>3. ASSUME NEW u \in Tasks, u # t PROVE TaskInv(u)'
    BY <1>1, <1>3, <2>1, <2>3, StepSpares, OthersKeep DEF IInv
  <2>4. \A u \in Tasks : TaskInv(u)'
    BY <2>2, <2>3
  <2>5. AddInv'
    BY <1>1, <1>3, AddKeeps DEF IInv
  <2>. QED  BY <1>1, <2>4, <2>5 DEF IInv
<1>. QED  BY <1>2, <1>3 DEF Next

LEMMA Invariance == Spec => []IInv
BY InitIInv, StepIInv, PTL DEF Spec

(* Files, clones, the forge and what a /retry has read always hold values  *)
(* of their types; in particular start_sha is in the history of its clone  *)
(* (gitops.rs:45-60).                                                      *)
THEOREM TypeCorrect == Spec => []TypeOK
<1>1. IInv => TypeOK
  BY DEF IInv
<1>. QED  BY <1>1, Invariance, PTL

(* Unless something failed or somebody else pushed meanwhile, an execution *)
(* that comes to its end has put all its phases approved on the branch,    *)
(* recorded the pull request or commented its review (exec.rs:120-154).    *)
THEOREM RunsAreComplete == Spec => []CompleteRun
<1>1. ASSUME IInv PROVE CompleteRun
  <2>1. faults = {} => \A t \in Tasks : Made(t, runs[t]) = Approved(t, runs[t])
    BY <1>1 DEF IInv, AddInv, Made
  <2>. QED  BY <1>1, <2>1 DEF IInv, TaskInv, ReportInv, CompleteRun
<1>. QED  BY <1>1, Invariance, PTL

(* A task that names a pull request has all that the execution which       *)
(* recorded it approved on its branch, whoever else pushes and however     *)
(* often it is retried - but for what a later phase discarded, once the    *)
(* git add of a checkpoint has failed; no other failure takes anything     *)
(* (forge.rs:123-193, commands.rs:180-216, exec.rs:378-381).               *)
THEOREM RecordsArePublished == Spec => []RecordedIsPublished
<1>1. ASSUME IInv PROVE RecordedIsPublished
  <2>1. "add" \notin faults => \A t \in Tasks : \A n : Made(t, n) = Approved(t, n)
    BY <1>1 DEF IInv, AddInv, Made
  <2>. QED  BY <1>1, <2>1 DEF IInv, TaskInv, RecordInv, RecordedIsPublished
<1>. QED  BY <1>1, Invariance, PTL

(* A push is only rejected because somebody else pushed, or because the    *)
(* branch could not be looked up: what a task commits is always put behind *)
(* what it was cloned from (gitops.rs:65, 129).                            *)
THEOREM PushesAreFastForward == Spec => []FastForward
<1>1. ASSUME IInv,
          NEW t \in Tasks \ overtaken, stage[t] = "pushing", "ls-remote" \notin faults
      PROVE  IsPrefix(remote, head[t])
  <2>1. Len(remote) = start[t] /\ \A i \in 1..start[t] : head[t][i] = remote[i]
    BY <1>1 DEF IInv, TaskInv, StartInv, AtWork
  <2>2. remote \in Histories /\ head[t] \in Histories /\ start[t] \in 0..Len(head[t]) /\ Len(head[t]) \in Nat
    BY <1>1 DEF IInv, TypeOK, Histories
  <2>. QED  BY <2>1, <2>2, PrefixOf
<1>2. IInv => FastForward
  BY <1>1 DEF FastForward
<1>. QED  BY <1>2, Invariance, PTL

-----------------------------------------------------------------------------
(* Refinement: a step of a task maps to a step of the publication, or to   *)
(* none.                                                                   *)

made == [t \in Tasks |-> Made(t, runs[t])]

LEMMA Stutters ==
    ASSUME UNCHANGED <<remote, pull, approved, lost, runs>>
    PROVE  UNCHANGED Branch!vars
BY DEF Branch!vars, Published, Made, Approved

LEMMA InitMaps == Init => Branch!Init
<1>. SUFFICES ASSUME Init PROVE Branch!Init
  OBVIOUS
<1>1. TypeOK
  BY InitIInv DEF IInv
<1>2. Published \subseteq UNION {{t} \X Phases \X (0..MaxRuns) : t \in Tasks}
  BY <1>1, PublishedType DEF Works
<1>3. pull => Published # {}
  <2>1. SUFFICES ASSUME pull PROVE Published # {}
    OBVIOUS
  <2>2. PICK t \in Coders : remote = << {<<t, 1, 0>>} >>
    BY <2>1 DEF Init
  <2>3. Len(remote) = 1 /\ <<t, 1, 0>> \in remote[1]
    BY <2>2
  <2>. QED  BY <1>1, <2>3, PublishedType
<1>4. made = [t \in Tasks |-> {}]
  BY DEF Init, made, Made, Approved
<1>5. pull \in BOOLEAN
  BY <1>1 DEF TypeOK
<1>. QED  BY <1>2, <1>3, <1>4, <1>5 DEF Branch!Init, made

LEMMA RunMaps ==
    ASSUME TypeOK, NEW t \in Tasks, TaskInv(t), Begin(t) \/ Retry(t)
    PROVE  Branch!Begin(t)
<1>1. UNCHANGED <<remote, pull, approved, lost>> /\ runs' = [runs EXCEPT ![t] = runs[t] + 1]
  BY DEF Begin, Retry, forge, history
<1>2. \A w \in approved : w[1] = t => w[3] <= runs[t]
  BY DEF TaskInv, RunInv
<1>3. runs[t] \in Nat /\ \A w \in approved : w[3] \in Nat
  BY DeliveryAssumption DEF TypeOK, Works
<1>4. Made(t, runs[t])' = {}
  BY <1>1, <1>2, <1>3 DEF Made, Approved, TypeOK
<1>5. \A u \in Tasks : u # t => Made(u, runs[u])' = Made(u, runs[u])
  BY <1>1 DEF Made, Approved, TypeOK
<1>6. made' = [made EXCEPT ![t] = {}]
  BY <1>4, <1>5 DEF made
<1>. QED  BY <1>1, <1>6 DEF Branch!Begin, made, Published

LEMMA PhaseMaps ==
    ASSUME TypeOK, NEW t \in Tasks, NEW p \in Phases, PassPhase(t, p) \/ FailPhase(t, p)
    PROVE  [Branch!Next]_(Branch!vars)
<1>. DEFINE w == <<t, p, runs[t]>>
<1>1. UNCHANGED <<remote, pull, lost, runs>> /\ (approved' = approved \/ approved' = approved \cup {w})
  <2>1. ASSUME NEW own \in SUBSET {w}
          PROVE approved \cup own \in {approved, approved \cup {w}}
    OBVIOUS
  <2>2. UNCHANGED <<remote, pull, lost, runs>>
    BY DEF PassPhase, FailPhase, forge, history
  <2>3. CASE PassPhase(t, p)
    BY <2>1, <2>2, <2>3 DEF PassPhase
  <2>4. CASE FailPhase(t, p)
    BY <2>2, <2>4 DEF FailPhase, history
  <2>. QED  BY <2>3, <2>4
<1>2. CASE approved' = approved
  BY <1>1, <1>2, Stutters
<1>3. CASE approved' = approved \cup {w} /\ w \in lost
  BY <1>1, <1>3 DEF Branch!vars, Published, Made, Approved
<1>4. CASE approved' = approved \cup {w} /\ w \notin lost
  <2>1. w \in {t} \X Phases \X (0..MaxRuns) /\ w[1] = t /\ w[3] = runs[t]
    BY DEF TypeOK
  <2>. HIDE DEF w
  <2>2. made' = [made EXCEPT ![t] = @ \cup {w}]
    <3>1. \A u \in Tasks : u # t => Made(u, runs[u])' = Made(u, runs[u])
      BY <1>1, <1>4, <2>1 DEF Made, Approved
    <3>2. Made(t, runs[t])' = Made(t, runs[t]) \cup {w}
      BY <1>1, <1>4, <2>1 DEF Made, Approved
    <3>. HIDE DEF Made
    <3>. QED  BY <3>1, <3>2 DEF made
  <2>3. [u \in Tasks |-> {u} \X Phases \X (0..MaxRuns)][t] = {t} \X Phases \X (0..MaxRuns)
    OBVIOUS
  <2>4. Branch!Make(t, w)
    BY <1>1, <2>2 DEF Branch!Make, made, Published
  <2>. QED  BY <2>1, <2>3, <2>4 DEF Branch!Next
<1>. QED  BY <1>1, <1>2, <1>3, <1>4

LEMMA DiscardMaps ==
    ASSUME TypeOK, NEW t \in Tasks, TaskInv(t), Discard(t)
    PROVE  Branch!Next
<1>1. PICK gone \in SUBSET open[t] : lost' = lost \cup (gone \cap approved)
  BY DEF Discard
<1>2. UNCHANGED <<remote, pull, approved, runs>> /\ stage[t] = "working"
  BY DEF Discard, forge, Move
<1>. DEFINE away == gone \cap Made(t, runs[t])
<1>3. open[t] \subseteq Current(t) /\ \A w \in Published : w[1] = t => w[3] < runs[t]
  BY <1>2 DEF TaskInv, CloneInv, RunInv, AtWork
<1>4. \A w \in Current(t) : w[1] = t /\ w[3] = runs[t]
  BY DEF Current
<1>5. runs[t] \in Nat
  BY DeliveryAssumption DEF TypeOK
<1>6. away \subseteq made[t] \ Published
  BY <1>3, <1>4, <1>5 DEF made
<1>7. made' = [made EXCEPT ![t] = @ \ away]
  <2>1. \A u \in Tasks : u # t => Made(u, runs[u])' = Made(u, runs[u])
    BY <1>1, <1>2, <1>3, <1>4 DEF Made, Approved
  <2>2. Made(t, runs[t])' = Made(t, runs[t]) \ away
    BY <1>1, <1>2 DEF Made, Approved
  <2>. QED  BY <2>1, <2>2 DEF made
<1>8. away \in SUBSET made[t]
  BY <1>6
<1>. HIDE DEF away
<1>9. Branch!Lose(t, away)
  BY <1>2, <1>6, <1>7 DEF Branch!Lose, made, Published
<1>. QED  BY <1>8, <1>9 DEF Branch!Next, made

LEMMA PushMaps ==
    ASSUME TypeOK, TypeOK', NEW t \in Tasks, TaskInv(t), NEW to, Push(t, to)
    PROVE  Branch!Next
<1>1. /\ Published \subseteq Published' /\ Published' \subseteq Published \cup Current(t)
      /\ Made(t, runs[t]) \subseteq Published'
  BY PushCarries DEF TaskInv
<1>2. UNCHANGED <<pull, approved, lost, runs>>
  BY DEF Push
<1>3. made' = made /\ made[t] = Made(t, runs[t])
  BY <1>2 DEF made, Made, Approved
<1>4. Current(t) \subseteq {t} \X Phases \X (0..MaxRuns)
  BY DEF Current, TypeOK
<1>5. [u \in Tasks |-> {u} \X Phases \X (0..MaxRuns)][t] = {t} \X Phases \X (0..MaxRuns)
  OBVIOUS
<1>6. Branch!Publish(t)
  BY <1>1, <1>2, <1>3, <1>4, <1>5 DEF Branch!Publish, made
<1>. QED  BY <1>6 DEF Branch!Next

LEMMA OpenMaps ==
    ASSUME TypeOK, NEW t \in Tasks, TaskInv(t), OpenPull(t) \/ PullUnanswered(t)
    PROVE  Branch!Next
<1>1. Published # {}
  BY DEF OpenPull, PullUnanswered, Move, TaskInv, ReportInv
<1>2. pull' = TRUE /\ UNCHANGED <<remote, approved, lost, runs>>
  BY DEF OpenPull, PullUnanswered, history
<1>3. Published' = Published /\ made' = made
  BY <1>2 DEF Published, made, Made, Approved
<1>. QED  BY <1>1, <1>2, <1>3 DEF Branch!Next, Branch!Open, made

LEMMA StepMaps == IInv /\ IInv' /\ [Next]_vars => [Branch!Next]_(Branch!vars)
<1>. SUFFICES ASSUME IInv, IInv', [Next]_vars PROVE [Branch!Next]_(Branch!vars)
  OBVIOUS
<1>1. TypeOK /\ TypeOK' /\ \A t \in Tasks : TaskInv(t)
  BY DEF IInv
<1>2. CASE UNCHANGED vars
  BY <1>2, Stutters DEF vars, forge, history
<1>3. ASSUME NEW t \in Tasks, Begin(t) \/ Retry(t) PROVE Branch!Next
  BY <1>1, <1>3, RunMaps DEF Branch!Next
<1>4. ASSUME NEW t \in Tasks,
             \/ Load(t) \/ RetryRefused(t) \/ Clone(t) \/ CloneFails(t) \/ Squash(t) \/ Commit(t)
             \/ NothingToCommit(t) \/ PushRejected(t) \/ Comment(t) \/ Save(t) \/ Interrupt(t)
      PROVE  UNCHANGED Branch!vars
  <2>1. UNCHANGED <<remote, pull, approved, lost, runs>>
    BY <1>4
       DEF Load, RetryRefused, Clone, CloneFails, Squash, Commit, NothingToCommit,
           PushRejected,
                Comment, Save, Interrupt, forge, history
  <2>. QED  BY <2>1, Stutters
<1>5. ASSUME NEW t \in Tasks, NEW from, NEW fault, PublishFails(t, from, fault)
      PROVE  UNCHANGED Branch!vars
  <2>1. UNCHANGED <<remote, pull, approved, lost, runs>>
    BY <1>5 DEF PublishFails, forge, history
  <2>. QED  BY <2>1, Stutters
<1>6. ASSUME NEW t \in Tasks, PushSucceeds(t) \/ PushUnanswered(t) PROVE Branch!Next
  BY <1>1, <1>6, PushMaps DEF PushSucceeds, PushUnanswered
<1>7. ASSUME NEW t \in Tasks, Step(t) PROVE [Branch!Next]_(Branch!vars)
  BY <1>1, <1>3, <1>4, <1>5, <1>6, <1>7, PhaseMaps, DiscardMaps, OpenMaps DEF Step
<1>. QED  BY <1>2, <1>7 DEF Next

(* Clones, commits and pushes implement the publication: what an execution *)
(* approved, and has not lost since to a discard, comes to the branch all  *)
(* at once or not at all, nothing leaves the branch, and a pull request is *)
(* only opened over a branch with something in it, whatever fails or is    *)
(* cut off (gitops.rs, forge.rs).                                          *)
THEOREM DeliveryPublishes == Spec => ImplementsPublication
<1>1. IInv /\ IInv' /\ [Next]_vars => [Branch!Next]_(Branch!vars)
  BY StepMaps
<1>. QED  BY <1>1, InitMaps, Invariance, PTL DEF Spec, ImplementsPublication, Branch!Spec

=============================================================================
