-------------------------- MODULE EscalationProofs --------------------------
(***************************************************************************)
(* Theorems about the phases of an execution, module Escalation, for any   *)
(* number of phases, steps and retries, any cap and any faults.            *)
(***************************************************************************)
EXTENDS Escalation, TLAPS

UnderWay == {"climbing"} \cup Working

(* Where the execution stands. *)
ControlInv ==
    /\ pc \in UnderWay => idx \in Phases /\ phases[idx] = "Pending" /\ resolved[idx] = 0
    /\ pc \in UnderWay \ {"running"} => hasLadder
    /\ pc \in Working /\ hasLadder => step \in Steps
    /\ pc = "climbing" => step \in 1..(StepCount + 1)
    /\ ~hasLadder => step = 0
    /\ \A p \in Phases : p > idx => resolved[p] = 0

(* What was tried and written belongs to phases reached and steps climbed. *)
HistoryInv ==
    /\ \A w \in tried \cup wrote \cup leaky : w[1] <= idx /\ (hasLadder => w[2] >= 1)
    /\ pc \in UnderWay => \A w \in tried : w[1] = idx =>
                              w[2] < step \/ (pc \in {"passed", "recording"} /\ w[2] = step)
    /\ pc \in UnderWay => \A w \in wrote \cup leaky : w[1] = idx =>
                              w[2] < step \/ (pc \in Working \ {"asking"} /\ w[2] = step)
    /\ Content \subseteq tried \cup wrote \cup leaky
    /\ pc = "running" /\ Current \in Content => Current \in wrote

LEMMA InitControl == Init => TypeOK /\ ControlInv /\ HistoryInv
<1>. SUFFICES ASSUME Init PROVE TypeOK /\ ControlInv /\ HistoryInv
  OBVIOUS
<1>1. repo \in Repos /\ Content = {}
  BY DEF Init, Repos, Content
<1>2. TypeOK
  <2>1. phases \in [Phases -> {"Pending", "Done", "Failed"}] /\ resolved \in [Phases -> 0..StepCount]
    BY EscalationAssumption DEF Init
  <2>2. idx \in 0..PhaseCount /\ step \in 0..(StepCount + 1) /\ tries \in 0..Retries /\ failure \in 0..StepCount
    BY EscalationAssumption DEF Init
  <2>. QED  BY <1>1, <2>1, <2>2 DEF Init, TypeOK
<1>3. ControlInv /\ HistoryInv
  BY <1>1, EscalationAssumption DEF Init, ControlInv, HistoryInv, UnderWay, Working
<1>. QED  BY <1>2, <1>3

LEMMA CurrentType == TypeOK /\ ControlInv /\ pc \in Working => Current \in Works
<1>. SUFFICES ASSUME TypeOK, ControlInv, pc \in Working
       PROVE idx \in Phases /\ step \in 0..StepCount
  BY DEF Current, Works
<1>. QED  BY EscalationAssumption DEF TypeOK, ControlInv, UnderWay, Steps

LEMMA LogType ==
    ASSUME TypeOK, LogEscalation
    PROVE  log' \subseteq Entries /\ faults' \subseteq Faults
BY DEF LogEscalation, Warn, TypeOK

LEMMA SettleType ==
    ASSUME TypeOK, NEW status \in {"Pending", "Done", "Failed"}, Settle(status)
    PROVE  phases' \in [Phases -> {"Pending", "Done", "Failed"}]
BY DEF Settle, TypeOK

LEMMA ReturnType ==
    ASSUME Return
    PROVE  /\ step' \in 0..(StepCount + 1) /\ tries' \in 0..Retries
           /\ ok' \in BOOLEAN /\ changed' \in BOOLEAN /\ failure' \in 0..StepCount
           /\ cost' \in Nat /\ entries' \subseteq Entries
<1>1. step' \in 0..(StepCount + 1) /\ tries' \in 0..Retries /\ failure' \in 0..StepCount /\ cost' \in Nat
  BY EscalationAssumption DEF Return
<1>2. ok' \in BOOLEAN /\ changed' \in BOOLEAN /\ entries' \subseteq Entries
  BY DEF Return
<1>. QED  BY <1>1, <1>2

LEMMA TouchType ==
    ASSUME TypeOK, NEW done \in SUBSET Works, Touch(done)
    PROVE  repo' \in Repos /\ staged' \subseteq Works
BY DEF Touch, TypeOK, Repos

LEMMA ShellType ==
    ASSUME TypeOK, ControlInv, pc \in {"running", "judging"}, Edit \/ Test
    PROVE  /\ repo' \in Repos /\ staged' \subseteq Works /\ leaky' \subseteq Works
           /\ Edit => wrote' \subseteq Works
<1>1. Current \in Works
  BY CurrentType DEF Working
<1>2. ASSUME Leak PROVE leaky' \subseteq Works
  BY <1>1, <1>2 DEF Leak, TypeOK
<1>3. CASE UNCHANGED <<repo, staged, leaky>> /\ ~Edit
  BY <1>3 DEF TypeOK
<1>4. ASSUME NEW done \in SUBSET {Current}, Touch(done)
      PROVE  repo' \in Repos /\ staged' \subseteq Works
  BY <1>1, <1>4, TouchType
<1>5. CASE Edit
  <2>1. wrote' \subseteq Works
    BY <1>1, <1>5 DEF Edit, TypeOK
  <2>. QED  BY <1>2, <1>4, <1>5, <2>1 DEF Edit
<1>6. CASE Test /\ ~Edit
  BY <1>2, <1>3, <1>4, <1>6 DEF Test
<1>. QED  BY <1>5, <1>6

LEMMA TypeStep ==
    ASSUME TypeOK, ControlInv, [Next]_vars
    PROVE  TypeOK'
<1>. USE EscalationAssumption
<1>2. ASSUME NEW from \in {"climbing", "asking"}, GiveUp(from) PROVE TypeOK'
  <2>. log' \subseteq Entries /\ faults' \subseteq Faults /\ phases' \in [Phases -> {"Pending", "Done", "Failed"}]
    BY <1>2, LogType, SettleType DEF GiveUp
  <2>. QED  BY <1>2, ReturnType DEF GiveUp, Move, task, history, shells, TypeOK, Working
<1>3. ASSUME NEW p \in Phases, StartPhase(p) PROVE TypeOK'
  BY <1>3 DEF StartPhase, Move, task, attempt, history, shells, TypeOK, Working, Phases
<1>4. CASE Finish
  BY <1>4 DEF Finish, Move, task, locals, attempt, history, shells, TypeOK, Working
<1>5. CASE Climb
  <2>. repo' \in Repos /\ faults' \subseteq Faults
    BY <1>5 DEF Climb, Discard, Warn, TypeOK, Repos
  <2>1. pc' \in {"asking", "running"} /\ tries' \in 0..Retries
    BY <1>5 DEF Climb, Move
  <2>2. ok' \in BOOLEAN /\ changed' \in BOOLEAN
    BY <1>5 DEF Climb
  <2>. QED  BY <1>5, <2>1, <2>2 DEF Climb, task, history, shells, TypeOK, Working
<1>6. CASE Grant
  <2>. Current \in Works
    BY <1>6, CurrentType DEF Grant, Move, Working
  <2>. QED  BY <1>6 DEF Grant, Move, task, locals, attempt, shells, TypeOK, Working
<1>7. CASE RunFails
  BY <1>7, ShellType DEF RunFails, Move, task, TypeOK, Working
<1>8. CASE RunReturns
  BY <1>8, ShellType DEF RunReturns, ChangedFiles, Move, task, TypeOK, Working
<1>9. CASE RunUnverified
  <2>. phases' \in [Phases -> {"Pending", "Done", "Failed"}]
    BY <1>9, SettleType DEF RunUnverified
  <2>. QED  BY <1>9, ShellType, ReturnType DEF RunUnverified, Move, task, TypeOK, Working
<1>10. ASSUME NEW b \in BOOLEAN, pc = "judging", Judge(b)
       PROVE  /\ cost' \in Nat /\ spent' \in Nat /\ entries' \subseteq Entries /\ tried' \subseteq Works
              /\ repo' \in Repos /\ staged' \subseteq Works /\ leaky' \subseteq Works
              /\ idx \in Phases /\ step \in Steps
  <2>1. idx \in Phases /\ step \in Steps /\ Current \in Works
    BY <1>10, CurrentType DEF ControlInv, UnderWay, Working
  <2>2. \A c \in Costs : c \in Nat
    BY DEF Costs
  <2>3. repo' \in Repos /\ staged' \subseteq Works /\ leaky' \subseteq Works
    BY <1>10, ShellType DEF Judge
  <2>. QED  BY <1>10, <2>1, <2>2, <2>3 DEF Judge, TypeOK, Entries
<1>11. CASE Pass
  BY <1>10, <1>11 DEF Pass, Judge, Move, task, attempt, TypeOK, Working
<1>12. CASE Fail
  <2>1. pc = "judging" /\ Judge(FALSE)
    BY <1>12 DEF Fail, Move
  <2>2. step \in 1..StepCount /\ step' = step + 1 /\ failure' = step
    BY <1>10, <1>12, <2>1 DEF Fail, Steps
  <2>3. step' \in 0..(StepCount + 1) /\ failure' \in 0..StepCount
    BY <2>2
  <2>. QED  BY <1>10, <1>12, <2>1, <2>3
          DEF Fail, Judge, Move, task, attempt, TypeOK, Working
<1>13. CASE Checkpoint
  <2>1. Staged \in Repos
    BY DEF Staged, TypeOK, Repos
  <2>2. [head |-> repo.head \cup Staged.index, index |-> {}, tree |-> {}] \in Repos
    BY <2>1 DEF TypeOK, Repos
  <2>. repo' \in Repos /\ faults' \subseteq Faults
    BY <1>13, <2>1, <2>2 DEF Checkpoint, Warn, TypeOK
  <2>. QED  BY <1>13
          DEF Checkpoint, Move, task, locals, attempt, history, shells, TypeOK, Working
<1>14. CASE Record
  <2>1. log' \subseteq Entries /\ faults' \subseteq Faults /\ phases' \in [Phases -> {"Pending", "Done", "Failed"}]
    BY <1>14, LogType, SettleType DEF Record
  <2>2. step \in 0..StepCount /\ resolved' \in [Phases -> 0..StepCount]
    BY <1>14 DEF Record, Move, TypeOK, ControlInv, UnderWay, Working, Steps
  <2>. QED  BY <1>14, <2>1, <2>2, ReturnType
          DEF Record, Move, task, history, shells, TypeOK, Working
<1>15. CASE Drop
  BY <1>15 DEF Drop, task, locals, attempt, history, shells, TypeOK
<1>17. CASE LateWrite
  <2>1. PICK w \in leaky : Touch({w}) /\ wrote' = wrote \cup {v \in {w} : pc = "running" /\ v = Current}
    BY <1>17 DEF LateWrite
  <2>2. {w} \in SUBSET Works /\ wrote' \subseteq Works
    BY <2>1 DEF TypeOK
  <2>3. repo' \in Repos /\ staged' \subseteq Works
    BY <2>1, <2>2, TouchType
  <2>. QED  BY <1>17, <2>2, <2>3 DEF LateWrite, task, locals, attempt, TypeOK
<1>16. CASE UNCHANGED vars
  BY <1>16 DEF vars, task, locals, attempt, history, shells, TypeOK
<1>. QED
  BY <1>2, <1>3, <1>4, <1>5, <1>6, <1>7, <1>8, <1>9, <1>11, <1>12, <1>13, <1>14, <1>15,
     <1>16, <1>17
     DEF Next, Progress, Stop, Refuse
-----------------------------------------------------------------------------
(* The control state.  What a step does to it is the same for all that      *)
(* stay within a phase, and for all that end one.                           *)

LEMMA Within ==
    ASSUME ControlInv, pc \in UnderWay, pc' \in UnderWay,
           UNCHANGED <<phases, resolved, idx, hasLadder>>,
           pc' # "running" => hasLadder,
           pc' \in Working /\ hasLadder => step' \in Steps,
           pc' = "climbing" => step' \in 1..(StepCount + 1),
           ~hasLadder => step' = 0
    PROVE  ControlInv'
BY DEF ControlInv

LEMMA Ends ==
    ASSUME TypeOK, ControlInv, pc \in UnderWay, pc' = "loop", step' = 0,
           NEW status, Settle(status), UNCHANGED <<idx, hasLadder>>,
           \A p \in Phases : p # idx => resolved'[p] = resolved[p]
    PROVE  ControlInv'
BY DEF ControlInv, UnderWay, Working, TypeOK, Phases

LEMMA ControlStep ==
    ASSUME TypeOK, ControlInv, [Next]_vars
    PROVE  ControlInv'
<1>. USE EscalationAssumption
<1>2. ASSUME NEW from \in {"climbing", "asking"}, GiveUp(from) PROVE ControlInv'
  BY <1>2, Ends DEF GiveUp, Move, Return, task, UnderWay, Working
<1>3. ASSUME NEW p \in Phases, StartPhase(p) PROVE ControlInv'
  BY <1>3
     DEF StartPhase, Upcoming, Move, task, TypeOK, ControlInv, UnderWay, Working, Phases,
         Steps
<1>4. CASE Finish
  BY <1>4 DEF Finish, Move, task, locals, ControlInv, UnderWay, Working
<1>5. CASE Climb
  <2>. step \in Steps /\ hasLadder
    BY <1>5 DEF Climb, Exhausted, Move, ControlInv, UnderWay, Working, Steps
  <2>. QED  BY <1>5, Within DEF Climb, Move, task, UnderWay, Working
<1>6. CASE Grant
  <2>. hasLadder /\ step \in Steps
    BY <1>6 DEF Grant, Move, ControlInv, UnderWay, Working
  <2>. QED  BY <1>6, Within DEF Grant, Move, task, locals, UnderWay, Working
<1>7. CASE RunFails
  BY <1>7, Within DEF RunFails, Move, task, ControlInv, UnderWay, Working
<1>8. CASE RunReturns
  BY <1>8, Within DEF RunReturns, Move, task, ControlInv, UnderWay, Working
<1>9. CASE RunUnverified
  BY <1>9, Ends DEF RunUnverified, Return, Move, task, UnderWay, Working
<1>11. CASE Pass
  <2>. hasLadder /\ step \in Steps
    BY <1>11 DEF Pass, Move, ControlInv, UnderWay, Working
  <2>. QED  BY <1>11, Within DEF Pass, Judge, Move, task, UnderWay, Working
<1>12. CASE Fail
  <2>1. hasLadder /\ step \in Steps /\ step' = step + 1
    BY <1>12 DEF Fail, Move, ControlInv, UnderWay, Working
  <2>2. step' \in 1..(StepCount + 1)
    BY <2>1 DEF Steps
  <2>. QED  BY <1>12, <2>1, <2>2, Within DEF Fail, Judge, Move, task, UnderWay, Working
<1>13. CASE Checkpoint
  <2>. hasLadder /\ step \in Steps
    BY <1>13 DEF Checkpoint, Move, ControlInv, UnderWay, Working
  <2>. QED  BY <1>13, Within DEF Checkpoint, Move, task, locals, UnderWay, Working
<1>14. CASE Record
  <2>. \A p \in Phases : p # idx => resolved'[p] = resolved[p]
    BY <1>14 DEF Record, TypeOK
  <2>. QED  BY <1>14, Ends DEF Record, Return, Move, task, UnderWay, Working
<1>15. CASE Drop
  BY <1>15 DEF Drop, task, locals, ControlInv, UnderWay, Working
<1>17. CASE LateWrite
  BY <1>17 DEF LateWrite, task, locals, ControlInv, UnderWay, Working
<1>16. CASE UNCHANGED vars
  BY <1>16 DEF vars, task, locals, ControlInv
<1>. QED
  BY <1>2, <1>3, <1>4, <1>5, <1>6, <1>7, <1>8, <1>9, <1>11, <1>12, <1>13, <1>14, <1>15,
     <1>16, <1>17
     DEF Next, Progress, Stop, Refuse
-----------------------------------------------------------------------------
(* The working copy and the history. *)

LEMMA WorkParts ==
    /\ \A w \in Works : w[1] \in Phases /\ w[2] \in 0..StepCount /\ w = <<w[1], w[2]>>
    /\ Current[1] = idx /\ Current[2] = step
BY DEF Works, Current

(* A discard only takes away, and leaves the index alone. *)
LEMMA DiscardTakes ==
    ASSUME TypeOK, Discard
    PROVE  /\ repo'.head = repo.head /\ repo'.index = repo.index
           /\ repo'.tree \subseteq repo.tree
           /\ isGit /\ step > 1 /\ "discard" \notin faults' => repo'.tree = {}
           /\ faults \subseteq faults'
           /\ (isGit /\ step > 1) \/ repo' = repo
BY DEF Discard, Warn, TypeOK, Repos

(* What a shell does to the working copy: nothing leaves it, and what comes *)
(* to the index is known to be staged.                                      *)
Written(done) ==
    /\ repo'.head = repo.head
    /\ repo.index \subseteq repo'.index /\ repo'.index \subseteq repo.index \cup staged'
    /\ repo'.tree \subseteq repo.tree \cup done
    /\ repo'.index \cup repo'.tree = repo.index \cup repo.tree \cup done
    /\ staged \subseteq staged'

LEMMA TouchWrites == ASSUME TypeOK, NEW done, Touch(done) PROVE Written(done)
BY DEF Touch, Written, TypeOK, Repos

LEMMA LeakAdds ==
    ASSUME Leak
    PROVE  leaky \subseteq leaky' /\ leaky' \subseteq leaky \cup {Current}
BY DEF Leak

LEMMA EditAdds ==
    ASSUME TypeOK, Edit
    PROVE  /\ leaky \subseteq leaky' /\ leaky' \subseteq leaky \cup {Current}
           /\ \E done \in SUBSET {Current} : Written(done) /\ wrote' = wrote \cup done
BY TouchWrites, LeakAdds DEF Edit

LEMMA TestAdds ==
    ASSUME TypeOK, Test
    PROVE  /\ leaky \subseteq leaky' /\ leaky' \subseteq leaky \cup {Current}
           /\ \E done \in SUBSET {Current} : Written(done)
<1>1. CASE UNCHANGED <<repo, staged, leaky>>
  <2>1. Written({})
    BY <1>1 DEF Written
  <2>. QED  BY <1>1, <2>1
<1>. QED  BY <1>1, TouchWrites, LeakAdds DEF Test

LEMMA LateAdds ==
    ASSUME TypeOK, LateWrite
    PROVE  \E w \in leaky :
              Written({w}) /\ wrote' = wrote \cup {v \in {w} : pc = "running" /\ v = Current}
BY TouchWrites DEF LateWrite

LEMMA CheckpointMoves ==
    ASSUME TypeOK, Checkpoint
    PROVE  /\ Content' = Content
           /\ faults \subseteq faults'
           /\ repo.head \cup repo.index \subseteq repo'.head \cup repo'.index
           /\ isGit /\ "add" \notin faults' => repo'.tree = {}
<1>1. Staged.head = repo.head /\ Staged.index = repo.index \cup repo.tree /\ Staged.tree = {}
  BY DEF Staged, TypeOK, Repos
<1>2. CASE repo' = repo /\ ~isGit /\ faults' = faults
  BY <1>2 DEF Content
<1>3. CASE repo' = repo /\ faults' = faults \cup {"add"}
  BY <1>3 DEF Content
<1>4. CASE repo' = Staged /\ faults' = faults \cup {"commit"}
  BY <1>1, <1>4 DEF Content
<1>5. CASE /\ repo' = [head |-> repo.head \cup Staged.index, index |-> {}, tree |-> {}]
           /\ faults' = faults
  BY <1>1, <1>5 DEF Content
<1>. QED  BY <1>2, <1>3, <1>4, <1>5 DEF Checkpoint, Warn

LEMMA HistoryStep ==
    ASSUME TypeOK, ControlInv, HistoryInv, [Next]_vars
    PROVE  HistoryInv'
<1>. USE EscalationAssumption
<1>1. idx \in 0..PhaseCount /\ step \in 0..(StepCount + 1)
  BY DEF TypeOK
<1>2. \A w \in tried \cup wrote \cup leaky : w \in Works /\ w[1] \in Phases /\ w[2] \in 0..StepCount
  BY WorkParts DEF TypeOK
<1>3. ASSUME NEW from \in {"climbing", "asking"}, GiveUp(from) PROVE HistoryInv'
  BY <1>3 DEF GiveUp, Move, task, history, shells, HistoryInv, UnderWay, Working, Content
<1>4. ASSUME NEW p \in Phases, StartPhase(p) PROVE HistoryInv'
  <2>1. idx' \in Phases /\ idx < idx' /\ UNCHANGED <<tried, wrote, leaky, repo, hasLadder>>
    BY <1>1, <1>4 DEF StartPhase, Upcoming, task, history, shells, Phases
  <2>2. \A w \in tried \cup wrote \cup leaky : w[1] < idx'
    BY <1>1, <1>2, <2>1 DEF HistoryInv, Phases
  <2>3. Current' \notin Content'
    BY <2>1, <2>2 DEF HistoryInv, Content, Current, Phases
  <2>. QED  BY <1>2, <2>1, <2>2, <2>3 DEF HistoryInv, Content, Phases
<1>5. CASE Finish
  BY <1>5
     DEF Finish, Move, task, locals, history, shells, HistoryInv, UnderWay, Working,
         Content
<1>20. ASSUME pc \in {"climbing", "asking"}, UNCHANGED <<idx, step>>
       PROVE  Current' \notin Content
  BY <1>1, <1>20, WorkParts DEF HistoryInv, UnderWay, Working, Current
<1>6. CASE Climb
  <2>1. Content' \subseteq Content
    BY <1>6, DiscardTakes DEF Climb, Content
  <2>2. Current' \notin Content
    BY <1>6, <1>20 DEF Climb, Move
  <2>. QED  BY <1>6, <2>1, <2>2
          DEF Climb, Move, task, history, shells, HistoryInv, UnderWay, Working
<1>7. CASE Grant
  <2>1. Current' \notin Content
    BY <1>7, <1>20 DEF Grant, Move, locals
  <2>. QED  BY <1>7, <2>1
          DEF Grant, Move, task, locals, shells, HistoryInv, UnderWay, Working, Content
<1>8. ASSUME Edit, pc = "running", pc' \in {"running", "judging", "loop"},
             UNCHANGED <<hasLadder, idx, tried>>, pc' = "loop" \/ step' = step
      PROVE  HistoryInv'
  <2>1. PICK done \in SUBSET {Current} : Written(done) /\ wrote' = wrote \cup done
    BY <1>8, EditAdds
  <2>2. /\ \A w \in wrote' \cup leaky' : w \in wrote \cup leaky \/ w = Current
        /\ Content' = Content \cup done /\ leaky \subseteq leaky'
    BY <1>8, <2>1, EditAdds DEF Written, Content
  <2>3. idx \in Phases /\ (hasLadder => step >= 1)
    BY <1>8 DEF ControlInv, UnderWay, Working, Steps
  <2>4. Content' \subseteq tried' \cup wrote' \cup leaky'
    BY <1>8, <2>1, <2>2 DEF HistoryInv
  <2>5. pc' = "running" /\ Current' \in Content' => Current' \in wrote'
    BY <1>8, <2>1, <2>2 DEF HistoryInv, Current
  <2>6. \A w \in tried' \cup wrote' \cup leaky' : w[1] <= idx' /\ (hasLadder' => w[2] >= 1)
    BY <1>8, <2>2, <2>3, WorkParts DEF HistoryInv, Phases
  <2>7. ASSUME pc' \in UnderWay
        PROVE  /\ \A w \in tried' : w[1] = idx' => w[2] < step'
               /\ \A w \in wrote' \cup leaky' : w[1] = idx' => w[2] < step' \/ w[2] = step'
    BY <1>8, <2>2, <2>7, WorkParts DEF HistoryInv, UnderWay, Working
  <2>. QED  BY <1>8, <2>4, <2>5, <2>6, <2>7 DEF HistoryInv, UnderWay, Working
<1>9. CASE RunFails
  BY <1>8, <1>9 DEF RunFails, Move, task
<1>10. CASE RunReturns
  BY <1>8, <1>10 DEF RunReturns, Move, task
<1>11. CASE RunUnverified
  BY <1>8, <1>11 DEF RunUnverified, Move, task
<1>12. ASSUME pc = "judging", tried' = tried \cup {Current}, UNCHANGED <<wrote, idx, hasLadder>>, Test,
              \/ pc' = "passed" /\ step' = step
              \/ pc' = "climbing" /\ step' = step + 1
       PROVE  HistoryInv'
  <2>1. idx \in Phases /\ step \in Steps /\ hasLadder
    BY <1>12 DEF ControlInv, UnderWay, Working
  <2>2. PICK done \in SUBSET {Current} : Written(done)
    BY <1>12, TestAdds
  <2>3. /\ Content' = Content \cup done /\ leaky \subseteq leaky'
        /\ \A w \in leaky' : w \in leaky \/ w = Current
    BY <1>12, <2>2, TestAdds DEF Written, Content
  <2>4. Content' \subseteq tried' \cup wrote' \cup leaky'
    BY <1>12, <2>3 DEF HistoryInv
  <2>5. /\ \A w \in tried' \cup wrote' \cup leaky' :
              w[1] \in Phases /\ w[2] \in 0..StepCount /\ w[1] <= idx /\ w[2] >= 1
        /\ \A w \in tried' \cup wrote' \cup leaky' : w[1] = idx => w[2] <= step
    <3>1. ASSUME NEW w \in tried \cup wrote \cup leaky
          PROVE  /\ w[1] \in Phases /\ w[2] \in 0..StepCount /\ w[1] <= idx /\ w[2] >= 1
                 /\ w[1] = idx => w[2] <= step
      <4>1. w[1] \in Phases /\ w[2] \in 0..StepCount /\ w[1] <= idx /\ w[2] >= 1
        BY <1>2, <2>1 DEF HistoryInv
      <4>2. w[1] = idx => w[2] < step \/ w[2] = step
        BY <1>12 DEF HistoryInv, UnderWay, Working
      <4>. QED  BY <1>1, <4>1, <4>2
    <3>2. /\ Current[1] \in Phases /\ Current[2] \in 0..StepCount /\ Current[1] <= idx
          /\ Current[2] >= 1 /\ Current[2] <= step
      BY <1>1, <2>1, WorkParts DEF Steps, Phases
    <3>. QED  BY <1>12, <2>3, <3>1, <3>2
  <2>6. CASE pc' = "passed" /\ step' = step
    <3>1. \A w \in tried' \cup wrote' \cup leaky' : w[1] = idx' => w[2] < step' \/ w[2] = step'
      BY <1>1, <1>12, <2>5, <2>6
    <3>. QED  BY <1>12, <2>4, <2>5, <2>6, <3>1 DEF HistoryInv, UnderWay, Working
  <2>7. CASE pc' = "climbing" /\ step' = step + 1
    <3>1. \A w \in tried' \cup wrote' \cup leaky' : w[1] = idx' => w[2] < step'
      BY <1>1, <1>12, <2>5, <2>7
    <3>. QED  BY <1>12, <2>4, <2>5, <2>7, <3>1 DEF HistoryInv
  <2>. QED  BY <1>12, <2>6, <2>7
<1>13. CASE Pass
  BY <1>12, <1>13 DEF Pass, Judge, Move, task
<1>14. CASE Fail
  BY <1>12, <1>14 DEF Fail, Judge, Move, task
<1>15. CASE Checkpoint
  BY <1>15, CheckpointMoves
     DEF Current, Checkpoint, Move, task, locals, history, shells, HistoryInv, UnderWay,
         Working
<1>16. CASE Record
  BY <1>16 DEF Record, Move, task, history, shells, HistoryInv, UnderWay, Working, Content
<1>17. CASE Drop
  BY <1>17 DEF Drop, task, locals, history, shells, HistoryInv, UnderWay, Working, Content
<1>18. CASE UNCHANGED vars
  BY <1>18 DEF vars, task, locals, history, shells, HistoryInv, Content, Current
<1>21. CASE LateWrite
  <2>1. PICK w \in leaky :
          Written({w}) /\ wrote' = wrote \cup {v \in {w} : pc = "running" /\ v = Current}
    BY <1>21, LateAdds
  <2>2. UNCHANGED <<pc, idx, step, hasLadder, tried, leaky, Current>>
    BY <1>21 DEF LateWrite, task, locals, Current
  <2>3. /\ Content' = Content \cup {w} /\ wrote \subseteq wrote' /\ wrote' \subseteq wrote \cup leaky
        /\ pc = "running" /\ w = Current => Current \in wrote'
    BY <2>1 DEF Written, Content
  <2>. QED  BY <2>2, <2>3 DEF HistoryInv
<1>. QED
  BY <1>3, <1>4, <1>5, <1>6, <1>7, <1>9, <1>10, <1>11, <1>13, <1>14, <1>15, <1>16, <1>17,
     <1>18, <1>21
     DEF Next, Progress, Stop, Refuse
-----------------------------------------------------------------------------
(* Asking. *)

AskInv ==
    /\ AskedFirst
    /\ pc \in Working \ {"asking"} /\ step >= AskBefore => Current \in granted

LEMMA AskStep ==
    ASSUME TypeOK, ControlInv, AskInv, [Next]_vars
    PROVE  AskInv'
<1>. USE EscalationAssumption
<1>1. Current[2] = step
  BY WorkParts
<1>2. ASSUME NEW from \in {"climbing", "asking"}, GiveUp(from) PROVE AskInv'
  BY <1>2 DEF GiveUp, Move, history, shells, AskInv, AskedFirst, Working
<1>3. ASSUME NEW p \in Phases, StartPhase(p) PROVE AskInv'
  <2>. step' < AskBefore \/ pc' = "climbing"
    BY <1>3 DEF StartPhase, Move
  <2>. QED  BY <1>3 DEF StartPhase, history, shells, AskInv, AskedFirst, Working
<1>4. CASE Finish
  BY <1>4 DEF Finish, Move, history, shells, AskInv, AskedFirst, Working
<1>5. CASE Climb
  BY <1>5 DEF Climb, Asks, Move, history, shells, AskInv, AskedFirst, Working
<1>6. CASE Grant
  BY <1>6 DEF Grant, Move, locals, shells, AskInv, AskedFirst, Current
<1>7. ASSUME Edit, pc = "running", UNCHANGED <<idx, tried, granted>>, pc' = "loop" \/ step' = step
      PROVE  AskInv'
  <2>1. \A w \in wrote' : w \in wrote \/ w = Current
    BY <1>7, EditAdds
  <2>2. AskedFirst'
    BY <1>1, <1>7, <2>1 DEF AskInv, AskedFirst, Working
  <2>. QED  BY <1>7, <2>2 DEF AskInv, Current, Working
<1>8. CASE RunFails \/ RunReturns \/ RunUnverified
  BY <1>7, <1>8 DEF RunFails, RunReturns, RunUnverified, Move
<1>9. ASSUME pc = "judging", tried' = tried \cup {Current}, UNCHANGED <<wrote, granted, idx>>,
             pc' = "climbing" \/ step' = step
      PROVE  AskInv'
  BY <1>1, <1>9 DEF AskInv, AskedFirst, Current, Working
<1>10. CASE Pass \/ Fail
  BY <1>9, <1>10 DEF Pass, Fail, Judge, Move
<1>11. CASE Checkpoint
  BY <1>11
     DEF Checkpoint, Move, locals, history, shells, AskInv, AskedFirst, Current, Working
<1>12. CASE Record
  BY <1>12 DEF Record, Move, history, shells, AskInv, AskedFirst, Working
<1>13. CASE Drop
  BY <1>13 DEF Drop, history, shells, AskInv, AskedFirst, Working
<1>15. CASE LateWrite
  <2>1. /\ \A w \in wrote' : w \in wrote \/ (w = Current /\ pc = "running")
        /\ UNCHANGED <<pc, idx, step, tried, granted>>
    BY <1>15, LateAdds DEF LateWrite, locals
  <2>. QED  BY <1>1, <2>1 DEF AskInv, AskedFirst, Working, Current
<1>14. CASE UNCHANGED vars
  BY <1>14 DEF vars, locals, history, shells, AskInv, AskedFirst, Current
<1>. QED
  BY <1>2, <1>3, <1>4, <1>5, <1>6, <1>8, <1>10, <1>11, <1>12, <1>13, <1>14, <1>15
     DEF Next, Progress, Stop, Refuse
-----------------------------------------------------------------------------
(* Climbing. *)

LadderInv ==
    /\ pc = "loop" => failure = 0
    /\ pc \in UnderWay /\ hasLadder =>
        /\ failure = step - 1
        /\ \A s \in 1..(step - 1) : [phase |-> idx, step |-> s, passed |-> FALSE] \in entries

LEMMA LadderStep ==
    ASSUME TypeOK, ControlInv, LadderInv, [Next]_vars
    PROVE  LadderInv'
<1>. USE EscalationAssumption
<1>1. ASSUME pc \in UnderWay, pc' # "loop", UNCHANGED <<hasLadder, idx, step, failure>>,
             entries \subseteq entries'
      PROVE  LadderInv'
  BY <1>1 DEF LadderInv
<1>2. ASSUME NEW from \in {"climbing", "asking"}, GiveUp(from) PROVE LadderInv'
  BY <1>2 DEF GiveUp, Return, Move, LadderInv, UnderWay, Working
<1>3. ASSUME NEW p \in Phases, StartPhase(p) PROVE LadderInv'
  <2>1. CASE hasLadder
    BY <1>3, <2>1 DEF StartPhase, Move, LadderInv
  <2>2. CASE ~hasLadder
    BY <1>3, <2>2 DEF StartPhase, Move, task, LadderInv
  <2>. QED  BY <2>1, <2>2
<1>4. CASE Finish \/ Record \/ RunUnverified \/ Drop
  BY <1>4
     DEF Finish, Record, RunUnverified, Drop, Return, Move, LadderInv, UnderWay, Working
<1>5. CASE Climb \/ Grant \/ RunFails \/ RunReturns \/ Checkpoint
  BY <1>1, <1>5
     DEF Climb, Grant, RunFails, RunReturns, Checkpoint, Move, task, locals, UnderWay,
         Working
<1>6. CASE Pass
  BY <1>1, <1>6 DEF Pass, Judge, Move, task, UnderWay, Working
<1>7. CASE Fail
  <2>1. /\ step \in Steps /\ hasLadder /\ UNCHANGED <<hasLadder, idx>>
        /\ pc \in UnderWay /\ failure' = step /\ step' = step + 1
        /\ entries' = entries \cup {[phase |-> idx, step |-> step, passed |-> FALSE]}
    BY <1>7 DEF Fail, Judge, Move, task, ControlInv, UnderWay, Working
  <2>2. failure' = step' - 1 /\ \A s \in 1..(step' - 1) : s \in 1..(step - 1) \/ s = step
    BY <2>1 DEF Steps
  <2>. QED  BY <2>1, <2>2, <1>7 DEF LadderInv, Fail, Move
<1>8. CASE LateWrite \/ UNCHANGED vars
  BY <1>8 DEF LateWrite, vars, task, locals, LadderInv
<1>. QED
  BY <1>2, <1>3, <1>4, <1>5, <1>6, <1>7, <1>8 DEF Next, Progress, Stop, Refuse
-----------------------------------------------------------------------------
(* What passed stays. *)

Committed == repo.head \cup repo.index

(* The work of a resolved phase is out of the reach of a discard; the work  *)
(* of the attempt under way is on its way there.                            *)
KeptInv ==
    /\ ~(isGit /\ hasLadder) => wrote \subseteq Content
    /\ isGit /\ hasLadder /\ "add" \notin faults =>
        /\ \A w \in wrote : resolved[w[1]] = w[2] => w \in Committed
        /\ pc \in {"running", "judging", "passed"} /\ Current \in wrote => Current \in repo.index \cup repo.tree
        /\ pc = "recording" /\ Current \in wrote => Current \in Committed

LEMMA KeptImplies == KeptInv => ApprovedWorkKept
BY DEF KeptInv, ApprovedWorkKept, Content, Committed

LEMMA KeptStep ==
    ASSUME TypeOK, ControlInv, HistoryInv, KeptInv, [Next]_vars
    PROVE  KeptInv'
<1>. USE EscalationAssumption
<1>1. \A w \in wrote : w \in Works /\ w = <<w[1], w[2]>> /\ w[1] \in Phases
  BY WorkParts DEF TypeOK
<1>2. ASSUME UNCHANGED <<isGit, hasLadder, wrote, resolved>>, faults \subseteq faults',
             pc' \notin {"running", "judging", "passed", "recording"},
             repo' = repo \/ \E done : Written(done)
      PROVE  KeptInv'
  <2>. Content \subseteq Content' /\ Committed \subseteq Committed'
    BY <1>2 DEF Written, Content, Committed
  <2>. QED  BY <1>2 DEF KeptInv
<1>3. ASSUME NEW from \in {"climbing", "asking"}, GiveUp(from) PROVE KeptInv'
  BY <1>2, <1>3 DEF GiveUp, LogEscalation, Warn, Move, task, history, shells
<1>4. ASSUME NEW p \in Phases, StartPhase(p) PROVE KeptInv'
  BY <1>4 DEF StartPhase, Move, task, history, shells, KeptInv, Content, Committed
<1>5. CASE Finish \/ Drop
  BY <1>2, <1>5 DEF Finish, Drop, Move, task, history, shells
<1>6. ASSUME pc \in {"climbing", "asking"}, UNCHANGED <<idx, step>>
        PROVE Current' \notin wrote
  BY <1>6, WorkParts DEF HistoryInv, UnderWay, Working, Current, TypeOK
<1>7. CASE Climb
  <2>1. /\ Committed' = Committed /\ UNCHANGED <<isGit, hasLadder, wrote, resolved>>
        /\ faults \subseteq faults' /\ pc' \in {"asking", "running"} /\ Current' \notin wrote'
        /\ (isGit /\ hasLadder) \/ repo' = repo
    BY <1>6, <1>7, DiscardTakes
       DEF Climb, Move, task, history, shells, Committed, ControlInv, UnderWay, Working
  <2>. QED  BY <2>1 DEF KeptInv, Content
<1>8. CASE Grant
  <2>1. Current' \notin wrote'
    BY <1>6, <1>8 DEF Grant, Move, locals, shells
  <2>. QED  BY <1>8, <2>1 DEF Grant, Move, task, shells, KeptInv, Content, Committed
<1>9. ASSUME Edit, pc = "running", UNCHANGED <<idx, isGit, hasLadder, resolved, faults>>,
             \/ pc' \in {"running", "judging"} /\ step' = step
             \/ pc' = "loop" /\ ~hasLadder
      PROVE  KeptInv'
  <2>1. PICK done \in SUBSET {Current} : Written(done) /\ wrote' = wrote \cup done
    BY <1>9, EditAdds
  <2>2. /\ Committed \subseteq Committed' /\ Content' = Content \cup done
        /\ repo'.index \cup repo'.tree = repo.index \cup repo.tree \cup done
    BY <2>1 DEF Written, Committed, Content
  <2>3. CASE ~(isGit /\ hasLadder)
    BY <1>9, <2>1, <2>2, <2>3 DEF KeptInv
  <2>4. CASE isGit /\ hasLadder
    <3>1. Current[1] = idx /\ Current[2] = step /\ resolved[idx] = 0 /\ step \in Steps
      BY <1>9, <2>4, WorkParts DEF ControlInv, UnderWay, Working
    <3>2. \A w \in wrote' : resolved[w[1]] = w[2] => w \in wrote
      BY <2>1, <3>1 DEF Steps
    <3>3. Current' = Current
      BY <1>9, <2>4 DEF Current
    <3>4. "add" \notin faults /\ Current \in wrote' => Current \in repo'.index \cup repo'.tree
      BY <1>9, <2>1, <2>2, <2>4 DEF KeptInv
    <3>. QED  BY <1>9, <2>1, <2>2, <2>4, <3>2, <3>3, <3>4 DEF KeptInv
  <2>. QED  BY <2>3, <2>4
<1>10. CASE RunFails \/ RunReturns \/ RunUnverified
  BY <1>9, <1>10 DEF RunFails, RunReturns, RunUnverified, Move, task
<1>11. CASE Pass
  <2>1. PICK done \in SUBSET {Current} : Written(done)
    BY <1>11, TestAdds DEF Pass, Judge
  <2>2. /\ Committed \subseteq Committed' /\ Content \subseteq Content'
        /\ repo.index \cup repo.tree \subseteq repo'.index \cup repo'.tree
    BY <2>1 DEF Written, Committed, Content
  <2>3. /\ UNCHANGED <<isGit, hasLadder, wrote, resolved, faults, Current>>
        /\ pc = "judging" /\ pc' = "passed"
    BY <1>11 DEF Pass, Judge, Move, task, Current
  <2>. QED  BY <2>2, <2>3 DEF KeptInv
<1>12. CASE Fail
  <2>1. \E done : Written(done)
    BY <1>12, TestAdds DEF Fail, Judge
  <2>. QED  BY <1>2, <1>12, <2>1 DEF Fail, Judge, Move, task
<1>13. CASE Checkpoint
  <2>1. /\ Content' = Content /\ Committed \subseteq Committed' /\ faults \subseteq faults'
        /\ (isGit /\ "add" \notin faults' => repo'.tree = {}) /\ Current' = Current
        /\ pc = "passed" /\ pc' = "recording" /\ UNCHANGED <<isGit, hasLadder, wrote, resolved>>
    BY <1>13, CheckpointMoves
       DEF Checkpoint, Move, task, locals, history, shells, Committed, Current
  <2>2. isGit /\ "add" \notin faults' /\ Current \in repo.index \cup repo.tree => Current \in Committed'
    BY <2>1 DEF Content, Committed
  <2>. QED  BY <2>1, <2>2 DEF KeptInv
<1>14. CASE Record
  <2>1. /\ UNCHANGED <<isGit, hasLadder, wrote, repo>> /\ faults \subseteq faults'
        /\ pc = "recording" /\ pc' = "loop"
        /\ resolved' = [resolved EXCEPT ![idx] = step]
    BY <1>14 DEF Record, LogEscalation, Warn, Move, task, history, shells
  <2>2. \A w \in wrote : resolved'[w[1]] = w[2] => resolved[w[1]] = w[2] \/ w = Current
    BY <1>1, <2>1 DEF Current, TypeOK
  <2>. QED  BY <2>1, <2>2 DEF KeptInv, Content, Committed
<1>15. CASE UNCHANGED vars
  BY <1>15 DEF vars, task, locals, history, shells, KeptInv, Content, Committed, Current
<1>16. CASE LateWrite
  <2>1. PICK w \in leaky :
          Written({w}) /\ wrote' = wrote \cup {v \in {w} : pc = "running" /\ v = Current}
    BY <1>16, LateAdds
  <2>2. UNCHANGED <<pc, isGit, hasLadder, resolved, faults, Current, idx, step>>
    BY <1>16 DEF LateWrite, task, locals, Current
  <2>3. /\ Committed \subseteq Committed' /\ Content' = Content \cup {w}
        /\ repo'.index \cup repo'.tree = repo.index \cup repo.tree \cup {w}
    BY <2>1 DEF Written, Committed, Content
  <2>4. CASE ~(isGit /\ hasLadder)
    BY <2>1, <2>2, <2>3, <2>4 DEF KeptInv
  <2>5. CASE isGit /\ hasLadder
    <3>1. ASSUME NEW v \in wrote', resolved[v[1]] = v[2] PROVE v \in wrote
      <4>1. CASE v = Current /\ pc = "running"
        <5>1. resolved[idx] = 0 /\ step \in Steps
          BY <2>5, <4>1 DEF ControlInv, UnderWay, Working
        <5>. QED  BY <3>1, <4>1, <5>1, WorkParts DEF Steps
      <4>. QED  BY <2>1, <4>1
    <3>2. Current \in wrote' /\ pc # "running" => Current \in wrote
      BY <2>1
    <3>3. Current \in wrote' => Current \in wrote \/ Current = w
      BY <2>1
    <3>. QED  BY <2>1, <2>2, <2>3, <2>5, <3>1, <3>2, <3>3 DEF KeptInv
  <2>. QED  BY <2>4, <2>5
<1>. QED
  BY <1>3, <1>4, <1>5, <1>7, <1>8, <1>10, <1>11, <1>12, <1>13, <1>14, <1>15, <1>16
     DEF Next, Progress, Stop, Refuse
-----------------------------------------------------------------------------
(* What failed goes. *)

(* Work that may stay: of a resolved phase, or the last of a failed one. *)
Stays(w) ==
    \/ resolved[w[1]] = w[2]
    \/ phases[w[1]] = "Failed" /\ <<w[1], w[2] + 1>> \notin tried

(* What a discard does not reach. *)
Loose == staged \cup leaky

(* Besides that the clone holds the work of one attempt, committed only     *)
(* once it has passed.                                                      *)
IsolationInv ==
    isGit /\ hasLadder /\ pc # "dropped" /\ "discard" \notin faults =>
        /\ \A w \in Content \ Loose :
              \/ Stays(w)
              \/ pc \in Working /\ w = Current
              \/ pc = "climbing" /\ w = <<idx, step - 1>>
        /\ pc \in UnderWay \ {"recording"} => \A w \in Committed \ Loose : Stays(w)

LEMMA IsolationImplies == IsolationInv => AttemptIsolation
BY DEF IsolationInv, AttemptIsolation, Stays, Loose

(* Nothing changes for works of other phases than the one under way. *)
LEMMA StaysAway ==
    ASSUME TypeOK, NEW w \in Works, Stays(w),
           \A p \in Phases : p # idx => resolved'[p] = resolved[p] /\ phases'[p] = phases[p],
           tried' \subseteq tried \cup {Current}, w[1] # idx
    PROVE  Stays(w)'
BY WorkParts DEF Stays, Current

(* A phase under way has no work that may stay. *)
LEMMA NoneStays ==
    ASSUME TypeOK, ControlInv, HistoryInv, hasLadder, pc \in UnderWay,
           NEW w \in Content, Stays(w)
    PROVE  w \in Works /\ w[1] # idx
<1>1. w \in tried \cup wrote \cup leaky /\ w \in Works /\ w[2] \in 1..StepCount
  BY WorkParts, EscalationAssumption DEF HistoryInv, TypeOK
<1>. QED  BY <1>1 DEF Stays, ControlInv

LEMMA IsolationStep ==
    ASSUME TypeOK, ControlInv, HistoryInv, IsolationInv, [Next]_vars,
           isGit, hasLadder, pc # "dropped", "discard" \notin faults,
           pc' # "dropped", "discard" \notin faults'
    PROVE  IsolationInv'
<1>. USE EscalationAssumption
<1>1. \A w \in Content : w \in Works /\ w = <<w[1], w[2]>> /\ w[1] \in Phases /\ w[2] \in 1..StepCount
  BY WorkParts DEF HistoryInv, TypeOK
<1>2. ASSUME NEW from \in {"climbing", "asking"}, GiveUp(from) PROVE IsolationInv'
  <2>1. /\ pc = from /\ pc' = "loop" /\ UNCHANGED <<resolved, repo, tried, idx, Loose>>
        /\ phases' = [phases EXCEPT ![idx] = "Failed"] /\ idx \in Phases /\ pc \in UnderWay
    BY <1>2
       DEF GiveUp, Settle, Move, history, shells, Loose, ControlInv, UnderWay, Working
  <2>2. ASSUME NEW w \in Content, Stays(w) PROVE Stays(w)'
    BY <2>1, <2>2, NoneStays, StaysAway DEF TypeOK
  <2>3. ASSUME NEW w \in Content, w[1] = idx, w[2] \in {step - 1, step}, w[2] = step => from = "asking"
        PROVE  Stays(w)'
    <3>1. phases'[w[1]] = "Failed"
      BY <2>1, <2>3 DEF TypeOK
    <3>2. <<idx, w[2] + 1>> \notin tried
      BY <1>1, <2>1, <2>3 DEF HistoryInv, Working, TypeOK
    <3>. QED  BY <2>1, <2>3, <3>1, <3>2 DEF Stays
  <2>4. \A w \in Content \ Loose : Stays(w)'
    BY <2>1, <2>2, <2>3, WorkParts DEF IsolationInv, Working, TypeOK
  <2>. QED  BY <2>1, <2>4 DEF IsolationInv, Content, Committed
<1>3. ASSUME NEW p \in Phases, StartPhase(p) PROVE IsolationInv'
  <2>1. pc = "loop" /\ UNCHANGED <<resolved, phases, repo, tried, Loose>>
    BY <1>3 DEF StartPhase, Move, history, shells, Loose
  <2>2. \A w \in Content \ Loose : Stays(w)
    BY <2>1 DEF IsolationInv, Working
  <2>3. \A w \in Content' \ Loose' : Stays(w)'
    BY <2>1, <2>2 DEF Content, Stays
  <2>. QED  BY <2>3 DEF IsolationInv, Content, Committed
<1>4. CASE Finish
  <2>1. \A w \in Content' \ Loose' : Stays(w)'
    BY <1>4
       DEF Finish, Move, history, shells, Loose, IsolationInv, Content, Stays, Working
  <2>. QED  BY <2>1 DEF IsolationInv, Content, Committed
<1>5. CASE Climb
  <2>1. /\ pc = "climbing" /\ pc' \in {"asking", "running"} /\ Committed' = Committed
        /\ UNCHANGED <<resolved, phases, tried, idx, step, Loose>> /\ step \in Steps
    BY <1>5, DiscardTakes
       DEF Climb, Exhausted, Move, history, shells, Loose, Committed, ControlInv,
           UnderWay, Working, Steps
  <2>2. ASSUME step = 1 PROVE repo' = repo /\ \A w \in Content \ Loose : Stays(w)
    BY <1>1, <1>5, <2>1, <2>2, DiscardTakes, WorkParts DEF Climb, IsolationInv, Working
  <2>3. ASSUME step # 1 PROVE Content' = Committed
    BY <1>5, <2>1, <2>3, DiscardTakes DEF Climb, Content, Committed, Steps
  <2>4. \A w \in Content' \ Loose : Stays(w)
    BY <2>1, <2>2, <2>3 DEF IsolationInv, Content, UnderWay
  <2>. QED  BY <2>1, <2>4 DEF IsolationInv, Stays, Content, Committed
<1>6. CASE Grant
  BY <1>6
     DEF Grant, Move, task, locals, shells, Loose, IsolationInv, Content, Committed,
         Stays, UnderWay, Working, Current
<1>7. CASE RunFails \/ RunReturns
  <2>1. /\ pc = "running" /\ pc' \in {"running", "judging"} /\ Edit
        /\ UNCHANGED <<resolved, phases, tried, idx, step>>
    BY <1>7 DEF RunFails, RunReturns, Move
  <2>2. PICK done \in SUBSET {Current} : Written(done)
    BY <2>1, EditAdds
  <2>3. /\ \A w \in Content' : w \in Content \/ w = Current
        /\ \A w \in Committed' : w \in Committed \/ w \in Loose'
        /\ Loose \subseteq Loose'
    BY <2>1, <2>2, EditAdds DEF Written, Content, Committed, Loose
  <2>. QED  BY <2>1, <2>3 DEF IsolationInv, Stays, UnderWay, Working, Current
<1>8. CASE RunUnverified
  BY <1>8 DEF RunUnverified
<1>9. ASSUME pc = "judging", tried' = tried \cup {Current}, UNCHANGED <<resolved, phases, idx>>, Test,
             \/ pc' = "passed" /\ step' = step
             \/ pc' = "climbing" /\ step' = step + 1
      PROVE  IsolationInv'
  <2>1. ASSUME NEW w \in Content, Stays(w) PROVE Stays(w)'
    BY <1>9, <2>1, NoneStays, StaysAway DEF UnderWay, Working
  <2>7. PICK done \in SUBSET {Current} : Written(done)
    BY <1>9, TestAdds
  <2>2. /\ \A w \in Content' : w \in Content \/ w = Current
        /\ \A w \in Committed' : w \in Committed \/ w \in Loose'
        /\ Loose \subseteq Loose' /\ Committed \subseteq Content
    BY <1>9, <2>7, TestAdds DEF Written, Content, Committed, Loose
  <2>3. \A w \in Content' \ Loose' : Stays(w)' \/ w = Current
    BY <1>9, <2>1, <2>2 DEF IsolationInv, Working
  <2>4. \A w \in Committed' \ Loose' : Stays(w)'
    BY <1>9, <2>1, <2>2 DEF IsolationInv, UnderWay, Working
  <2>5. Current = <<idx', IF pc' = "climbing" THEN step' - 1 ELSE step'>>
    BY <1>9 DEF Current, TypeOK
  <2>6. pc' = "climbing" \/ Current' = Current
    BY <1>9 DEF Current
  <2>. QED  BY <1>9, <2>2, <2>3, <2>4, <2>5, <2>6 DEF IsolationInv, Working
<1>10. CASE Pass \/ Fail
  BY <1>9, <1>10 DEF Pass, Fail, Judge, Move
<1>11. CASE Checkpoint
  <2>1. /\ Content' = Content /\ Current' = Current /\ UNCHANGED <<resolved, phases, tried, Loose>>
        /\ pc = "passed" /\ pc' = "recording"
    BY <1>11, CheckpointMoves
       DEF Checkpoint, Move, locals, history, shells, Loose, Current
  <2>. QED  BY <2>1 DEF IsolationInv, Stays, UnderWay, Working
<1>12. CASE Record
  <2>1. /\ pc = "recording" /\ pc' = "loop" /\ UNCHANGED <<tried, repo, idx, Loose>>
        /\ resolved' = [resolved EXCEPT ![idx] = step]
        /\ phases' = [phases EXCEPT ![idx] = "Done"]
    BY <1>12 DEF Record, Settle, Move, history, shells, Loose
  <2>2. ASSUME NEW w \in Content, Stays(w) PROVE Stays(w)'
    BY <2>1, <2>2, NoneStays, StaysAway DEF TypeOK, UnderWay, Working
  <2>3. ASSUME NEW w \in Content, w = Current PROVE Stays(w)'
    <3>1. idx \in Phases
      BY <2>1 DEF ControlInv, UnderWay, Working
    <3>2. resolved'[idx] = step
      BY <2>1, <3>1 DEF TypeOK
    <3>. QED  BY <2>3, <3>2, WorkParts DEF Stays
  <2>4. \A w \in Content \ Loose : Stays(w) \/ w = Current
    BY <2>1 DEF IsolationInv
  <2>5. \A w \in Content \ Loose : Stays(w)'
    BY <2>2, <2>3, <2>4
  <2>. QED  BY <2>1, <2>5 DEF IsolationInv, Content, UnderWay, Working
<1>13. CASE Drop
  BY <1>13 DEF Drop
<1>15. CASE LateWrite
  <2>1. PICK w \in leaky : Written({w})
    BY <1>15, LateAdds
  <2>2. UNCHANGED <<pc, idx, step, resolved, phases, tried, leaky, Current>>
    BY <1>15 DEF LateWrite, locals, Current
  <2>3. /\ \A v \in Content' : v \in Content \/ v \in Loose'
        /\ \A v \in Committed' : v \in Committed \/ v \in Loose'
        /\ Loose \subseteq Loose'
    BY <2>1, <2>2 DEF Written, Content, Committed, Loose
  <2>. QED  BY <2>2, <2>3 DEF IsolationInv, Stays
<1>14. CASE UNCHANGED vars
  BY <1>14
     DEF vars, task, locals, history, shells, Loose, IsolationInv, Stays, Content,
         Committed, Current
<1>. QED
  BY <1>2, <1>3, <1>4, <1>5, <1>6, <1>7, <1>8, <1>10, <1>11, <1>12, <1>13, <1>14, <1>15
     DEF Next, Progress, Stop, Refuse
-----------------------------------------------------------------------------
(* The task does not change, warnings stay, and nothing follows a drop. *)
LEMMA Rigid ==
    ASSUME [Next]_vars
    PROVE  /\ isGit' = isGit /\ hasLadder' = hasLadder /\ faults \subseteq faults'
           /\ pc' # "dropped" => pc # "dropped"
<1>1. ASSUME NEW from \in {"climbing", "asking"}, GiveUp(from)
      PROVE  UNCHANGED task /\ faults \subseteq faults' /\ pc # "dropped"
  BY <1>1 DEF GiveUp, LogEscalation, Warn, Move
<1>2. ASSUME NEW p \in Phases, StartPhase(p)
      PROVE  UNCHANGED task /\ faults \subseteq faults' /\ pc # "dropped"
  BY <1>2 DEF StartPhase, Move
<1>3. CASE Finish \/ Drop \/ Grant \/ RunFails \/ RunReturns \/ RunUnverified \/ LateWrite
              \/ UNCHANGED vars
  BY <1>3
     DEF LateWrite, Finish, Drop, Grant, RunFails, RunReturns, RunUnverified, vars, task,
         Move
<1>4. CASE Climb
  BY <1>4 DEF Climb, Discard, Warn, task, Move
<1>5. CASE Pass \/ Fail
  BY <1>5 DEF Pass, Fail, Judge, task, Move
<1>6. CASE Checkpoint \/ Record
  BY <1>6 DEF Checkpoint, Record, LogEscalation, Warn, task, Move
<1>. QED  BY <1>1, <1>2, <1>3, <1>4, <1>5, <1>6 DEF Next, Progress, Stop, Refuse, task

(* The history only grows. *)
LEMMA Grows ==
    ASSUME TypeOK, [Next]_vars
    PROVE  wrote \subseteq wrote' /\ staged \subseteq staged' /\ leaky \subseteq leaky'
<1>1. ASSUME NEW from \in {"climbing", "asking"}, GiveUp(from) PROVE UNCHANGED shells
  BY <1>1 DEF GiveUp, history
<1>2. ASSUME NEW p \in Phases, StartPhase(p) PROVE UNCHANGED shells
  BY <1>2 DEF StartPhase, history
<1>3. CASE Finish \/ Drop \/ Grant \/ Climb \/ Checkpoint \/ Record \/ UNCHANGED vars
  BY <1>3 DEF Finish, Drop, Grant, Climb, Checkpoint, Record, vars, history, shells
<1>4. CASE RunFails \/ RunReturns \/ RunUnverified
  BY <1>4, EditAdds DEF RunFails, RunReturns, RunUnverified, Written
<1>5. CASE Pass \/ Fail
  BY <1>5, TestAdds DEF Pass, Fail, Judge, Written
<1>6. CASE LateWrite
  <2>1. leaky' = leaky
    BY <1>6 DEF LateWrite
  <2>. QED  BY <1>6, <2>1, LateAdds DEF Written
<1>. QED  BY <1>1, <1>2, <1>3, <1>4, <1>5, <1>6 DEF Next, Progress, Stop, Refuse, shells

(* A phase is settled once, and only Record resolves it. *)
LEMMA Settled ==
    ASSUME TypeOK, ControlInv, [Next]_vars
    PROVE  /\ expects' = expects
           /\ \A q \in Phases : phases[q] = "Failed" => phases'[q] = "Failed"
           /\ Record \/ resolved' = resolved
<1>1. ASSUME pc \in UnderWay, NEW status, Settle(status)
      PROVE  \A q \in Phases : phases[q] = "Failed" => phases'[q] = "Failed"
  BY <1>1 DEF Settle, ControlInv, TypeOK
<1>2. ASSUME NEW from \in {"climbing", "asking"}, GiveUp(from)
      PROVE  /\ UNCHANGED <<expects, resolved>>
             /\ \A q \in Phases : phases[q] = "Failed" => phases'[q] = "Failed"
  BY <1>1, <1>2 DEF GiveUp, Move, task, UnderWay, Working
<1>3. ASSUME NEW p \in Phases, StartPhase(p) PROVE UNCHANGED <<expects, resolved, phases>>
  BY <1>3 DEF StartPhase, task
<1>4. CASE \/ Finish \/ Drop \/ Climb \/ Grant \/ RunFails \/ RunReturns
           \/ Checkpoint \/ LateWrite \/ UNCHANGED vars
  BY <1>4
     DEF Finish, Drop, Climb, Grant, RunFails, RunReturns, Checkpoint, LateWrite, vars,
         task
<1>5. CASE Pass \/ Fail
  BY <1>5 DEF Pass, Fail, Judge, task
<1>6. CASE RunUnverified \/ Record
  BY <1>1, <1>6 DEF RunUnverified, Record, Move, task, UnderWay, Working
<1>. QED  BY <1>2, <1>3, <1>4, <1>5, <1>6 DEF Next, Progress, Stop, Refuse

-----------------------------------------------------------------------------
(* What it costs. *)

Budget(n) == n * (CostCap + MaxCost)

LEMMA BudgetGrows ==
    /\ Budget(0) = 0
    /\ \A n \in Nat : Budget(n) \in Nat /\ Budget(n + 1) = Budget(n) + CostCap + MaxCost
    /\ \A m, n \in Nat : m <= n => Budget(m) <= Budget(n)
<1>1. \A k, m, n \in Nat : m <= n => m * k <= n * k
  <2>. SUFFICES ASSUME NEW k \in Nat, NEW m \in Nat, NEW n \in Nat, m <= n
         PROVE m * k <= n * k
    OBVIOUS
  <2>1. n * k = m * k + (n - m) * k
    OBVIOUS
  <2>2. n - m \in Nat
    OBVIOUS
  <2>3. (n - m) * k \in Nat
    BY <2>2
  <2>4. m * k \in Nat
    OBVIOUS
  <2>. QED  BY <2>1, <2>3, <2>4
<1>2. \A n, k \in Nat : n * k \in Nat /\ (n + 1) * k = n * k + k
  OBVIOUS
<1>. QED  BY <1>1, <1>2, EscalationAssumption DEF Budget

CostInv ==
    /\ spent <= Budget(idx)
    /\ pc \in UnderWay => spent <= Budget(idx - 1) + cost
    /\ pc \in {"asking", "running", "judging"} => cost <= CostCap
    /\ pc = "loop" \/ ~hasLadder => cost = 0

LEMMA CostStep ==
    ASSUME TypeOK, ControlInv, CostInv, [Next]_vars
    PROVE  CostInv'
<1>. USE EscalationAssumption
<1>1. ASSUME UNCHANGED <<idx, spent, hasLadder>>, pc' \in {"loop", "over", "dropped"}, pc' = "loop" => cost' = 0,
             ~hasLadder => cost' = 0
      PROVE  CostInv'
  BY <1>1 DEF CostInv, UnderWay, Working, Budget
<1>2. ASSUME UNCHANGED <<idx, spent, cost, hasLadder>>, pc \in UnderWay, pc' \in UnderWay,
             pc' \in {"asking", "running", "judging"} => cost <= CostCap
      PROVE  CostInv'
  BY <1>2 DEF CostInv, UnderWay, Working, Budget
<1>3. ASSUME NEW from \in {"climbing", "asking"}, GiveUp(from) PROVE CostInv'
  BY <1>1, <1>3 DEF GiveUp, Return, Move, task, history, shells
<1>4. ASSUME NEW p \in Phases, StartPhase(p) PROVE CostInv'
  <2>1. /\ idx' \in Nat /\ idx' - 1 \in Nat /\ idx \in Nat /\ idx <= idx' - 1 /\ idx <= idx'
        /\ UNCHANGED <<spent, cost, hasLadder>> /\ pc = "loop"
    BY <1>4 DEF StartPhase, Upcoming, Move, task, history, shells, TypeOK, Phases
  <2>2. spent <= Budget(idx) /\ cost = 0 /\ spent \in Nat
    BY <2>1 DEF CostInv, TypeOK
  <2>3. SUFFICES ASSUME NEW n \in Nat, n = idx', NEW k \in Nat, k = idx' - 1
                 PROVE  CostInv'
    BY <2>1
  <2>4. Budget(idx) <= Budget(n) /\ Budget(idx) <= Budget(k)
    BY <2>1, <2>3, BudgetGrows
  <2>5. Budget(idx) \in Nat /\ Budget(n) \in Nat /\ Budget(k) \in Nat
    BY <2>1, BudgetGrows
  <2>6. spent' <= Budget(n) /\ spent' <= Budget(k) + cost' /\ cost' = 0 /\ cost' <= CostCap
    BY <2>1, <2>2, <2>4, <2>5
  <2>7. Budget(idx)' = Budget(n) /\ Budget(idx - 1)' = Budget(k)
    BY <2>3 DEF Budget
  <2>. QED  BY <2>6, <2>7 DEF CostInv
<1>5. CASE Finish \/ Drop
  BY <1>1, <1>5 DEF Finish, Drop, Move, task, locals, history, shells, CostInv
<1>6. CASE Climb
  BY <1>2, <1>6 DEF Climb, Capped, Move, task, history, shells, UnderWay, Working, TypeOK
<1>7. CASE Grant
  BY <1>2, <1>7 DEF Grant, Move, task, locals, CostInv, UnderWay, Working
<1>8. CASE RunFails \/ RunReturns
  BY <1>2, <1>8 DEF RunFails, RunReturns, Move, task, CostInv, UnderWay, Working
<1>9. CASE RunUnverified
  BY <1>1, <1>9 DEF RunUnverified, Return, Move, task
<1>10. ASSUME pc = "judging", pc' \in {"passed", "climbing"}, NEW b \in BOOLEAN, Judge(b)
         PROVE CostInv'
  <2>1. PICK c \in Costs : cost' = cost + c /\ spent' = spent + c
    BY <1>10 DEF Judge
  <2>2. c \in 0..MaxCost
    BY DEF Costs
  <2>3. /\ idx \in Nat /\ idx - 1 \in Nat /\ idx' = idx /\ hasLadder /\ hasLadder' = hasLadder
        /\ cost <= CostCap /\ spent <= Budget(idx - 1) + cost /\ spent \in Nat /\ cost \in Nat
    BY <1>10 DEF Judge, task, CostInv, ControlInv, UnderWay, Working, TypeOK, Phases
  <2>4. Budget(idx) = Budget(idx - 1) + CostCap + MaxCost /\ Budget(idx - 1) \in Nat
    BY <2>3, BudgetGrows
  <2>5. spent' <= Budget(idx) /\ spent' <= Budget(idx - 1) + cost'
    BY <2>1, <2>2, <2>3, <2>4
  <2>6. Budget(idx)' = Budget(idx) /\ Budget(idx - 1)' = Budget(idx - 1)
    BY <2>3 DEF Budget
  <2>. QED  BY <1>10, <2>3, <2>5, <2>6 DEF CostInv
<1>11. CASE Pass \/ Fail
  BY <1>10, <1>11 DEF Pass, Fail, Move
<1>12. CASE Checkpoint
  BY <1>2, <1>12 DEF Checkpoint, Move, task, locals, history, shells, UnderWay, Working
<1>13. CASE Record
  BY <1>1, <1>13 DEF Record, Return, Move, task, history, shells
<1>14. CASE LateWrite \/ UNCHANGED vars
  BY <1>14 DEF LateWrite, vars, task, locals, history, CostInv, Budget
<1>. QED
  BY <1>3, <1>4, <1>5, <1>6, <1>7, <1>8, <1>9, <1>11, <1>12, <1>13, <1>14
     DEF Next, Progress, Stop, Refuse
-----------------------------------------------------------------------------
(* What is logged. *)

(* The attempts judged so far are in the log or still to be written there, *)
(* and the one that passes is marked as the phase is resolved by it.       *)
LogInv ==
    /\ pc \in {"loop", "over"} \/ ~hasLadder => entries = {}
    /\ \A e \in log \cup entries : <<e.phase, e.step>> \in tried
    /\ "log" \notin faults => \A w \in tried : \E e \in log \cup entries : w = <<e.phase, e.step>>
    /\ \A e \in log : e.passed <=> resolved[e.phase] = e.step
    /\ pc \in UnderWay =>
          /\ \A e \in log : e.phase # idx
          /\ \A e \in entries :
                e.phase = idx /\ (e.passed <=> pc \in {"passed", "recording"} /\ e.step = step)
    /\ pc \in {"passed", "recording"} => Current \in tried
    /\ \A p \in Phases : resolved[p] > 0 => <<p, resolved[p]>> \in tried

LEMMA LogImplies == LogInv => EveryAttemptLogged
BY DEF LogInv, EveryAttemptLogged

LEMMA LogAdds ==
    ASSUME LogEscalation
    PROVE  /\ faults \subseteq faults'
           /\ \E some \in SUBSET entries :
                 log' = log \cup some /\ ("log" \notin faults' => some = entries)
BY DEF LogEscalation, Warn

LEMMA LogStep ==
    ASSUME TypeOK, ControlInv, HistoryInv, LogInv, [Next]_vars
    PROVE  LogInv'
<1>. USE EscalationAssumption
<1>1. \A e \in log \cup entries : e.phase \in Phases /\ e.step \in Steps /\ e.passed \in BOOLEAN
  BY DEF TypeOK, Entries
<1>2. ASSUME UNCHANGED <<hasLadder, idx, step, resolved, entries, log, tried>>, faults \subseteq faults',
             pc \in UnderWay, pc' \in UnderWay,
             pc \in {"passed", "recording"} <=> pc' \in {"passed", "recording"}
      PROVE  LogInv'
  BY <1>2 DEF LogInv, UnderWay, Working, Current
<1>3. ASSUME NEW from \in {"climbing", "asking"}, GiveUp(from) PROVE LogInv'
  <2>1. /\ pc = from /\ pc' = "loop" /\ entries' = {} /\ LogEscalation
        /\ UNCHANGED <<resolved, idx, tried>> /\ pc \in UnderWay
    BY <1>3 DEF GiveUp, Return, Move, history, shells, UnderWay, Working
  <2>2. PICK some \in SUBSET entries :
          log' = log \cup some /\ ("log" \notin faults' => some = entries) /\ faults \subseteq faults'
    BY <2>1, LogAdds
  <2>3. resolved[idx] = 0 /\ \A e \in entries : e.phase = idx /\ ~e.passed
    BY <2>1 DEF ControlInv, LogInv
  <2>4. \A e \in some : e.passed <=> resolved[e.phase] = e.step
    BY <1>1, <2>3 DEF Steps
  <2>. QED  BY <2>1, <2>2, <2>4 DEF LogInv, UnderWay, Working
<1>4. ASSUME NEW p \in Phases, StartPhase(p) PROVE LogInv'
  <2>1. /\ pc = "loop" /\ pc' \in {"climbing", "running"} /\ idx' > idx /\ idx' \in Phases
        /\ UNCHANGED <<resolved, entries, log, tried, faults, hasLadder>>
    BY <1>4 DEF StartPhase, Upcoming, Move, task, history, shells
  <2>2. entries = {}
    BY <2>1 DEF LogInv
  <2>3. ASSUME NEW e \in log PROVE e.phase # idx'
    <3>1. <<e.phase, e.step>> \in tried
      BY DEF LogInv
    <3>2. e.phase <= idx
      BY <3>1 DEF HistoryInv
    <3>. QED  BY <1>1, <2>1, <3>2 DEF TypeOK, Phases
  <2>. QED  BY <2>1, <2>2, <2>3 DEF LogInv
<1>5. CASE Finish \/ Drop
  BY <1>5 DEF Finish, Drop, Move, task, locals, history, shells, LogInv, UnderWay, Working
<1>6. CASE Climb
  BY <1>2, <1>6, DiscardTakes DEF Climb, Move, task, history, shells, UnderWay, Working
<1>7. CASE Grant \/ RunFails \/ RunReturns
  BY <1>2, <1>7 DEF Grant, RunFails, RunReturns, Move, task, locals, UnderWay, Working
<1>8. CASE RunUnverified
  BY <1>8 DEF RunUnverified, Return, Move, task, LogInv, UnderWay, Working
<1>9. ASSUME NEW b \in BOOLEAN, pc = "judging", Judge(b),
             IF b THEN pc' = "passed" /\ step' = step ELSE pc' = "climbing"
      PROVE  LogInv'
  <2>. DEFINE new == [phase |-> idx, step |-> step, passed |-> b]
  <2>1. /\ entries' = entries \cup {new} /\ tried' = tried \cup {Current}
        /\ UNCHANGED <<resolved, log, faults, idx, hasLadder>> /\ hasLadder
    BY <1>9 DEF Judge, task, ControlInv, UnderWay, Working
  <2>2. /\ <<new.phase, new.step>> = Current /\ new.phase = idx /\ new.step = step /\ new.passed = b
    BY DEF Current
  <2>. HIDE DEF new
  <2>3. ASSUME NEW e \in entries PROVE e.phase = idx /\ ~e.passed /\ e.step # step
    <3>1. e.phase = idx /\ ~e.passed /\ <<e.phase, e.step>> \in tried
      BY <1>9 DEF LogInv, UnderWay, Working
    <3>2. e.step < step
      BY <1>9, <3>1 DEF HistoryInv, UnderWay, Working
    <3>. QED  BY <3>1, <3>2, <1>1 DEF TypeOK, Steps
  <2>4. /\ \A e \in log \cup entries' : <<e.phase, e.step>> \in tried'
        /\ "log" \notin faults => \A w \in tried' : \E e \in log \cup entries' : w = <<e.phase, e.step>>
    BY <2>1, <2>2 DEF LogInv
  <2>5. \A e \in entries' :
           e.phase = idx /\ (e.passed <=> pc' \in {"passed", "recording"} /\ e.step = step')
    BY <1>9, <2>1, <2>2, <2>3
  <2>6. \A e \in log : (e.passed <=> resolved[e.phase] = e.step) /\ e.phase # idx
    BY <1>9 DEF LogInv, UnderWay, Working
  <2>7. pc' = "passed" => Current' \in tried'
    BY <1>9, <2>1 DEF Current
  <2>8. pc' \in {"passed", "climbing"} /\ \A p \in Phases : resolved[p] > 0 => <<p, resolved[p]>> \in tried'
    BY <1>9, <2>1 DEF LogInv
  <2>. QED  BY <2>1, <2>4, <2>5, <2>6, <2>7, <2>8 DEF LogInv
<1>10. CASE Pass \/ Fail
  BY <1>9, <1>10 DEF Pass, Fail, Move
<1>11. CASE Checkpoint
  BY <1>2, <1>11, CheckpointMoves
     DEF Checkpoint, Move, task, locals, history, shells, UnderWay, Working
<1>12. CASE Record
  <2>1. /\ pc = "recording" /\ pc' = "loop" /\ entries' = {} /\ LogEscalation
        /\ resolved' = [resolved EXCEPT ![idx] = step]
        /\ UNCHANGED <<idx, tried>> /\ pc \in UnderWay
    BY <1>12 DEF Record, Return, Move, history, shells, UnderWay, Working
  <2>2. PICK some \in SUBSET entries :
          log' = log \cup some /\ ("log" \notin faults' => some = entries) /\ faults \subseteq faults'
    BY <2>1, LogAdds
  <2>3. /\ idx \in Phases /\ resolved'[idx] = step
        /\ \A p \in Phases : p # idx => resolved'[p] = resolved[p]
    BY <2>1 DEF ControlInv, TypeOK
  <2>4. \A e \in some : e.passed <=> resolved'[e.phase] = e.step
    BY <2>1, <2>3 DEF LogInv
  <2>5. \A e \in log : e.passed <=> resolved'[e.phase] = e.step
    BY <1>1, <2>1, <2>3 DEF LogInv
  <2>6. \A p \in Phases : resolved'[p] > 0 => <<p, resolved'[p]>> \in tried
    BY <2>1, <2>3 DEF LogInv, Current
  <2>. QED  BY <2>1, <2>2, <2>4, <2>5, <2>6 DEF LogInv, UnderWay, Working
<1>13. CASE LateWrite \/ UNCHANGED vars
  BY <1>13 DEF LateWrite, vars, task, locals, history, LogInv, Current
<1>. QED
  BY <1>3, <1>4, <1>5, <1>6, <1>7, <1>8, <1>10, <1>11, <1>12, <1>13
     DEF Next, Progress, Stop, Refuse
-----------------------------------------------------------------------------
(* What counts as a change. *)

GitWorks == faults \cap {"discard", "add", "commit"} = {}

LeftOver(w) == phases[w[1]] = "Failed"

(* No phase was resolved since this work's own was begun. *)
Open(w) == \A q \in w[1]..idx : resolved[q] = 0

(* While git works, what is not committed is the attempt's own or, at the   *)
(* first step, what a failed phase left.  What a shell put in the index is  *)
(* there until a phase is resolved, and what a process left behind writes   *)
(* comes at any time.                                                       *)
TreeInv ==
    GitWorks /\ isGit /\ hasLadder =>
        /\ repo.index \subseteq staged
        /\ \A w \in (repo.index \cup repo.tree) \ leaky : Open(w)
        /\ pc \in {"loop", "over"} => \A w \in repo.tree \ leaky : LeftOver(w)
        /\ pc = "climbing" => \A w \in repo.tree \ leaky : LeftOver(w) \/ w[1] = idx
        /\ pc \in Working => \A w \in repo.tree \ leaky : w = Current \/ (step = 1 /\ LeftOver(w))
        /\ pc = "recording" => repo.index \cup repo.tree \subseteq leaky

(* A listing of changed files is of such works; what passes has its change  *)
(* from there.                                                              *)
Accounted(p, s) ==
    /\ isGit
    /\ \/ <<p, s>> \in wrote
       \/ s = 1 /\ \E q \in 1..(p - 1) : phases[q] = "Failed"
       \/ \E w \in staged \ {<<p, s>>} : w[1] <= p /\ \A q \in w[1]..(p - 1) : resolved[q] = 0
       \/ \E w \in leaky \ {<<p, s>>} : w[1] <= p

ChangeInv ==
    GitWorks =>
        /\ \A p \in expects : resolved[p] > 0 => Accounted(p, resolved[p])
        /\ pc = "judging" /\ changed => Accounted(idx, step)
        /\ pc \in {"passed", "recording"} /\ idx \in expects => Accounted(idx, step)

LEMMA ChangeImplies == ChangeInv => ChangeAccounted
BY DEF ChangeInv, ChangeAccounted, Accounted, GitWorks

LEMMA TreeStep ==
    ASSUME TypeOK, ControlInv, HistoryInv, TreeInv, [Next]_vars,
           GitWorks, GitWorks', isGit, hasLadder
    PROVE  TreeInv'
<1>. USE EscalationAssumption
<1>1. /\ repo.index \cup repo.tree \subseteq tried \cup wrote \cup leaky
      /\ \A w \in tried \cup wrote \cup leaky :
            w = <<w[1], w[2]>> /\ w[1] \in Phases /\ w[2] \in Nat /\ w[2] >= 1 /\ w[1] <= idx
  BY WorkParts DEF HistoryInv, Content, TypeOK
<1>2. ASSUME NEW from \in {"climbing", "asking"}, GiveUp(from) PROVE TreeInv'
  <2>1. /\ pc = from /\ pc' = "loop" /\ phases' = [phases EXCEPT ![idx] = "Failed"]
        /\ idx \in Phases /\ UNCHANGED <<repo, resolved, idx, staged, leaky>>
    BY <1>2 DEF GiveUp, Settle, Move, history, shells, ControlInv, UnderWay, Working
  <2>2. \A w \in repo.tree \ leaky : LeftOver(w) \/ w[1] = idx
    BY <2>1, WorkParts DEF TreeInv, Working
  <2>3. \A w \in repo.tree \ leaky : phases'[w[1]] = "Failed"
    BY <1>1, <2>1, <2>2 DEF LeftOver, TypeOK
  <2>. QED  BY <2>1, <2>3 DEF TreeInv, Open, LeftOver, Working
<1>3. ASSUME NEW p \in Phases, StartPhase(p) PROVE TreeInv'
  <2>1. /\ pc = "loop" /\ idx' = p /\ p > idx /\ UNCHANGED <<repo, resolved, phases, staged, leaky>>
        /\ pc' \in {"climbing", "running"} /\ (pc' = "climbing" \/ ~hasLadder)
    BY <1>3 DEF StartPhase, Upcoming, Move, history, shells
  <2>2. ASSUME NEW w \in (repo.index \cup repo.tree) \ leaky, NEW q \in w[1]..p
          PROVE resolved[q] = 0
    <3>1. w[1] \in Phases /\ q \in Phases /\ w[1] <= q
      BY <1>1, <2>2 DEF Phases
    <3>2. CASE q <= idx
      BY <2>2, <3>1, <3>2 DEF TreeInv, Open, TypeOK
    <3>3. CASE q > idx
      BY <3>1, <3>3 DEF ControlInv
    <3>. QED  BY <3>1, <3>2, <3>3 DEF TypeOK, Phases
  <2>3. \A w \in (repo'.index \cup repo'.tree) \ leaky' : Open(w)'
    BY <2>1, <2>2 DEF Open
  <2>. QED  BY <2>1, <2>3 DEF TreeInv, LeftOver, Working
<1>4. CASE Finish \/ Drop
  BY <1>4 DEF Finish, Drop, Move, history, shells, TreeInv, Open, LeftOver, Working
<1>5. CASE Climb
  <2>1. /\ pc = "climbing" /\ pc' \in {"asking", "running"}
        /\ UNCHANGED <<idx, step, phases, resolved, staged, leaky>>
        /\ repo'.index = repo.index /\ repo'.tree \subseteq repo.tree /\ step \in Steps
        /\ step > 1 => repo'.tree = {}
    BY <1>5, DiscardTakes
       DEF Climb, Exhausted, Move, history, shells, GitWorks, ControlInv, Steps
  <2>2. ASSUME step = 1, NEW w \in repo.tree \ leaky PROVE LeftOver(w)
    <3>1. w[1] # idx
      <4>1. w \in tried \cup wrote /\ w[2] \in Nat /\ w[2] >= 1
        BY <1>1, <2>2
      <4>2. w[1] = idx => w[2] < step
        BY <2>1, <4>1 DEF HistoryInv, UnderWay, Working
      <4>. QED  BY <2>2, <4>1, <4>2
    <3>. QED  BY <2>1, <3>1 DEF TreeInv
  <2>3. step = 1 \/ repo'.tree = {}
    BY <2>1 DEF Steps
  <2>4. \A w \in repo'.tree \ leaky' : step' = 1 /\ LeftOver(w)'
    BY <2>1, <2>2, <2>3 DEF LeftOver
  <2>. QED  BY <2>1, <2>4 DEF TreeInv, Open, Working
<1>6. CASE Grant
  BY <1>6 DEF Grant, Move, locals, shells, TreeInv, Open, LeftOver, Working, Current
<1>7. ASSUME NEW done, Written(done), UNCHANGED <<idx, phases, resolved>>,
             leaky \subseteq leaky', done \subseteq leaky'
      PROVE  /\ repo'.index \subseteq staged'
             /\ repo'.tree \ leaky' \subseteq repo.tree \ leaky
             /\ \A w \in (repo'.index \cup repo'.tree) \ leaky' : Open(w)'
  BY <1>7 DEF Written, TreeInv, Open
<1>14. ASSUME NEW done \in SUBSET {Current}, Written(done), UNCHANGED <<idx, phases, resolved>>,
              leaky \subseteq leaky', pc \in {"running", "judging"}
       PROVE  /\ repo'.index \subseteq staged'
              /\ \A w \in repo'.tree \ leaky' : w = Current \/ w \in repo.tree \ leaky
              /\ \A w \in (repo'.index \cup repo'.tree) \ leaky' : Open(w)'
  <2>1. Open(Current)
    BY <1>14, WorkParts DEF Open, ControlInv, UnderWay, Working, Phases
  <2>2. \A w \in (repo'.index \cup repo'.tree) \ leaky' : Open(w)
    BY <1>14, <2>1 DEF Written, TreeInv
  <2>. QED  BY <1>14, <2>2 DEF Written, TreeInv, Open
<1>8. CASE RunFails \/ RunReturns
  <2>1. /\ pc = "running" /\ pc' \in {"running", "judging"} /\ Edit
        /\ UNCHANGED <<idx, step, phases, resolved>>
    BY <1>8 DEF RunFails, RunReturns, Move
  <2>2. PICK done \in SUBSET {Current} : Written(done) /\ leaky \subseteq leaky'
    BY <2>1, EditAdds
  <2>3. /\ repo'.index \subseteq staged'
        /\ \A w \in repo'.tree \ leaky' : w = Current \/ w \in repo.tree \ leaky
        /\ \A w \in (repo'.index \cup repo'.tree) \ leaky' : Open(w)'
    BY <1>14, <2>1, <2>2
  <2>. QED  BY <2>1, <2>3 DEF TreeInv, LeftOver, Working, Current
<1>9. CASE RunUnverified
  BY <1>9 DEF RunUnverified
<1>10. CASE Pass \/ Fail
  <2>1. /\ pc = "judging" /\ Test /\ UNCHANGED <<idx, phases, resolved>>
        /\ (pc' = "passed" /\ step' = step) \/ pc' = "climbing"
    BY <1>10 DEF Pass, Fail, Judge, Move
  <2>2. PICK done \in SUBSET {Current} : Written(done) /\ leaky \subseteq leaky'
    BY <2>1, TestAdds
  <2>3. /\ repo'.index \subseteq staged'
        /\ \A w \in repo'.tree \ leaky' : w = Current \/ w \in repo.tree \ leaky
        /\ \A w \in (repo'.index \cup repo'.tree) \ leaky' : Open(w)'
    BY <1>14, <2>1, <2>2
  <2>4. \A w \in repo'.tree \ leaky' : w = Current \/ (step = 1 /\ LeftOver(w))
    BY <2>1, <2>3 DEF TreeInv, Working
  <2>5. CASE pc' = "passed" /\ step' = step
    BY <2>1, <2>3, <2>4, <2>5 DEF TreeInv, LeftOver, Working, Current
  <2>6. CASE pc' = "climbing"
    BY <2>1, <2>3, <2>4, <2>6, WorkParts DEF TreeInv, LeftOver, Working
  <2>. QED  BY <2>1, <2>5, <2>6
<1>11. CASE Checkpoint
  <2>1. pc' = "recording" /\ repo'.index = {} /\ repo'.tree = {}
    BY <1>11 DEF Checkpoint, Warn, Move, GitWorks
  <2>. QED  BY <2>1 DEF TreeInv
<1>12. CASE Record
  <2>1. pc = "recording" /\ pc' = "loop" /\ UNCHANGED <<repo, staged, leaky>>
    BY <1>12 DEF Record, Move, history, shells
  <2>2. repo.index \cup repo.tree \subseteq leaky /\ repo.index \subseteq staged
    BY <2>1 DEF TreeInv
  <2>. QED  BY <2>1, <2>2 DEF TreeInv, Working
<1>15. CASE LateWrite
  <2>1. PICK w \in leaky : Written({w})
    BY <1>15, LateAdds
  <2>2. UNCHANGED <<pc, idx, step, phases, resolved, leaky, Current>>
    BY <1>15 DEF LateWrite, locals, Current
  <2>3. /\ repo'.index \subseteq staged'
        /\ repo'.tree \ leaky' \subseteq repo.tree \ leaky
        /\ \A v \in (repo'.index \cup repo'.tree) \ leaky' : Open(v)'
    BY <1>7, <2>1, <2>2
  <2>4. pc = "recording" => repo'.index \cup repo'.tree \subseteq leaky
    BY <2>1 DEF Written, TreeInv
  <2>. QED  BY <2>2, <2>3, <2>4 DEF TreeInv, LeftOver
<1>13. CASE UNCHANGED vars
  BY <1>13 DEF vars, locals, history, shells, TreeInv, Open, LeftOver, Current
<1>. QED
  BY <1>2, <1>3, <1>4, <1>5, <1>6, <1>8, <1>9, <1>10, <1>11, <1>12, <1>13, <1>15
     DEF Next, Progress, Stop, Refuse

(* What is accounted for stays so. *)
LEMMA AccountedStays ==
    ASSUME TypeOK, ControlInv, [Next]_vars
    PROVE  \A p \in Phases, s \in 0..StepCount : p <= idx /\ Accounted(p, s) => Accounted(p, s)'
<1>. SUFFICES ASSUME NEW p \in Phases, NEW s \in 0..StepCount, p <= idx, Accounted(p, s)
              PROVE  Accounted(p, s)'
  OBVIOUS
<1>. USE EscalationAssumption
<1>1. /\ isGit' = isGit /\ wrote \subseteq wrote' /\ staged \subseteq staged' /\ leaky \subseteq leaky'
      /\ \A q \in Phases : phases[q] = "Failed" => phases'[q] = "Failed"
  BY Rigid, Grows, Settled
<1>2. \A q \in Phases : q < p => resolved'[q] = resolved[q]
  <2>1. CASE Record
    BY <2>1 DEF Record, TypeOK, Phases
  <2>. QED  BY <2>1, Settled
<1>3. CASE <<p, s>> \in wrote
  BY <1>1, <1>3 DEF Accounted
<1>4. CASE s = 1 /\ \E q \in 1..(p - 1) : phases[q] = "Failed"
  BY <1>1, <1>4 DEF Accounted, Phases
<1>5. ASSUME NEW w \in staged \ {<<p, s>>}, w[1] <= p, \A q \in w[1]..(p - 1) : resolved[q] = 0
      PROVE  Accounted(p, s)'
  <2>1. w[1] \in Phases
    BY WorkParts DEF TypeOK
  <2>2. \A q \in w[1]..(p - 1) : resolved'[q] = 0
    BY <1>2, <1>5, <2>1 DEF Phases
  <2>. QED  BY <1>1, <1>5, <2>2 DEF Accounted
<1>6. ASSUME NEW w \in leaky \ {<<p, s>>}, w[1] <= p PROVE Accounted(p, s)'
  BY <1>1, <1>6 DEF Accounted
<1>. QED  BY <1>3, <1>4, <1>5, <1>6 DEF Accounted

LEMMA ChangeStep ==
    ASSUME TypeOK, ControlInv, HistoryInv, TreeInv, ChangeInv, [Next]_vars, GitWorks, GitWorks',
           TypeOK', HistoryInv'
    PROVE  ChangeInv'
<1>. USE EscalationAssumption
<1>1. ASSUME pc \in Working, UNCHANGED <<idx, step>>, Accounted(idx, step)
        PROVE Accounted(idx, step)'
  <2>1. idx \in Phases /\ step \in 0..StepCount
    BY <1>1, CurrentType, WorkParts DEF Works, Current
  <2>2. PICK p \in Phases, s \in 0..StepCount : p = idx /\ s = step
    BY <2>1
  <2>3. p <= idx /\ Accounted(p, s)
    BY <1>1, <2>2 DEF Accounted, Phases
  <2>4. Accounted(p, s)'
    BY <2>3, AccountedStays
  <2>. QED  BY <1>1, <2>2, <2>4 DEF Accounted
<1>2. ASSUME NEW p \in expects, resolved'[p] > 0 PROVE Accounted(p, resolved[p])'
  <2>1. p \in Phases /\ resolved'[p] \in 0..StepCount
    BY <1>2, Settled DEF TypeOK
  <2>2. PICK s \in 0..StepCount : s = resolved'[p]
    BY <2>1
  <2>3. p <= idx /\ Accounted(p, s)
    <3>1. CASE resolved'[p] = resolved[p]
      BY <1>2, <2>1, <2>2, <3>1 DEF ChangeInv, ControlInv, TypeOK, Phases
    <3>2. CASE Record /\ resolved'[p] # resolved[p]
      <4>1. p = idx /\ resolved'[p] = step /\ pc = "recording"
        BY <2>1, <3>2 DEF Record, Move, TypeOK
      <4>. QED  BY <2>1, <2>2, <4>1 DEF ChangeInv, Phases
    <3>. QED  BY <3>1, <3>2, Settled
  <2>4. Accounted(p, s)'
    BY <2>1, <2>3, AccountedStays
  <2>. QED  BY <2>2, <2>4 DEF Accounted
<1>3. ASSUME RunReturns, changed' PROVE Accounted(idx, step)'
  <2>1. /\ UNCHANGED <<resolved, phases, idx, step, isGit, hasLadder, Current>> /\ Edit
        /\ hasLadder /\ pc = "running" /\ pc' = "judging"
        /\ isGit /\ repo'.index \cup repo'.tree # {}
    BY <1>3 DEF RunReturns, ChangedFiles, Move, task, Current
  <2>2. TreeInv'
    BY <2>1, TreeStep
  <2>3. /\ repo'.index \subseteq staged'
        /\ \A w \in (repo'.index \cup repo'.tree) \ leaky' : Open(w)'
        /\ \A w \in repo'.tree \ leaky' : w = Current \/ (step = 1 /\ phases[w[1]] = "Failed")
    BY <2>1, <2>2 DEF TreeInv, LeftOver, Working
  <2>4. PICK w \in repo'.index \cup repo'.tree : TRUE
    BY <2>1
  <2>5. w \in tried' \cup wrote' \cup leaky' /\ w[1] <= idx /\ w[1] \in Phases /\ idx \in Phases
    BY <2>1, <2>4, WorkParts
       DEF HistoryInv, Content, TypeOK, ControlInv, UnderWay, Working
  <2>6. CASE w = Current
    <3>1. PICK done \in SUBSET {Current} : Written(done) /\ wrote' = wrote \cup done
      BY <2>1, EditAdds
    <3>2. Current \in wrote'
      BY <2>1, <2>4, <2>6, <3>1 DEF Written, HistoryInv, Content
    <3>. QED  BY <2>1, <3>2 DEF Accounted, Current
  <2>7. CASE w # Current /\ w \in leaky'
    BY <2>1, <2>5, <2>7 DEF Accounted, Current
  <2>8. CASE w # Current /\ w \notin leaky' /\ w \in repo'.index
    <3>1. \A q \in w[1]..(idx - 1) : resolved'[q] = 0
      BY <2>1, <2>3, <2>5, <2>8 DEF Open, Phases
    <3>. QED  BY <2>1, <2>3, <2>5, <2>8, <3>1 DEF Accounted, Current
  <2>9. CASE w # Current /\ w \notin leaky' /\ w \in repo'.tree
    <3>1. phases[idx] = "Pending"
      BY <2>1 DEF ControlInv, UnderWay, Working
    <3>2. w[1] \in 1..(idx - 1) /\ step = 1 /\ phases[w[1]] = "Failed"
      BY <2>3, <2>5, <2>9, <3>1 DEF Phases
    <3>. QED  BY <2>1, <3>2 DEF Accounted
  <2>. QED  BY <2>4, <2>6, <2>7, <2>8, <2>9
<1>4. ASSUME pc' = "judging", changed' PROVE Accounted(idx, step)'
  <2>1. RunReturns \/ (pc = "judging" /\ changed /\ UNCHANGED <<idx, step>>)
    BY <1>4
       DEF Next, Progress, StartPhase, Finish, Stop, Refuse, GiveUp, Climb, Grant,
           RunFails,
                RunUnverified, Pass, Fail, Checkpoint, Record, Drop, LateWrite, Move, vars, locals, attempt
  <2>. QED  BY <1>1, <1>3, <1>4, <2>1 DEF ChangeInv, Working
<1>5. ASSUME pc' \in {"passed", "recording"}, idx' \in expects'
        PROVE Accounted(idx, step)'
  <2>1. /\ pc \in {"judging", "passed", "recording"} /\ UNCHANGED <<idx, step>>
        /\ pc = "judging" /\ idx \in expects => changed
    BY <1>5
       DEF Next, Progress, StartPhase, Finish, Stop, Refuse, GiveUp, Climb, Grant,
           RunFails,
                RunReturns, RunUnverified, Pass, Fail, Unchanged, Judge, Checkpoint, Record, Drop,
                LateWrite, Move, vars, locals, attempt
  <2>. QED  BY <1>1, <1>5, <2>1, Settled DEF ChangeInv, Working
<1>. QED  BY <1>2, <1>4, <1>5, Settled DEF ChangeInv
-----------------------------------------------------------------------------
(* The inductive invariant. *)

EscalationInv ==
    /\ TypeOK /\ ControlInv /\ HistoryInv
    /\ AskInv /\ LadderInv /\ KeptInv /\ IsolationInv /\ CostInv
    /\ LogInv /\ TreeInv /\ ChangeInv

LEMMA InitInv == Init => EscalationInv
<1>. SUFFICES ASSUME Init PROVE EscalationInv
  OBVIOUS
<1>1. TypeOK /\ ControlInv /\ HistoryInv
  BY InitControl
<1>2. wrote = {} /\ tried = {} /\ pc = "loop" /\ Content = {} /\ Committed = {}
  BY DEF Init, Content, Committed
<1>3. AskInv /\ KeptInv /\ IsolationInv
  BY <1>2 DEF AskInv, AskedFirst, KeptInv, IsolationInv, UnderWay, Working
<1>4. LadderInv /\ CostInv
  BY BudgetGrows DEF Init, LadderInv, CostInv, UnderWay, Working
<1>5. LogInv /\ TreeInv /\ ChangeInv
  BY DEF Init, LogInv, TreeInv, ChangeInv, UnderWay, Working
<1>. QED  BY <1>1, <1>3, <1>4, <1>5 DEF EscalationInv

LEMMA NextInv == EscalationInv /\ [Next]_vars => EscalationInv'
<1>. SUFFICES ASSUME EscalationInv, [Next]_vars PROVE EscalationInv'
  OBVIOUS
<1>1. TypeOK /\ ControlInv /\ HistoryInv
  BY DEF EscalationInv
<1>2. TypeOK' /\ ControlInv' /\ HistoryInv'
  BY <1>1, TypeStep, ControlStep, HistoryStep
<1>3. AskInv' /\ LadderInv' /\ KeptInv' /\ CostInv'
  BY <1>1, AskStep, LadderStep, KeptStep, CostStep DEF EscalationInv
<1>4. IsolationInv'
  <2>1. CASE isGit' /\ hasLadder' /\ pc' # "dropped" /\ "discard" \notin faults'
    BY <1>1, <2>1, Rigid, IsolationStep DEF EscalationInv
  <2>2. CASE ~(isGit' /\ hasLadder' /\ pc' # "dropped" /\ "discard" \notin faults')
    BY <2>2 DEF IsolationInv
  <2>. QED  BY <2>1, <2>2
<1>5. LogInv'
  BY <1>1, LogStep DEF EscalationInv
<1>6. TreeInv'
  <2>1. CASE GitWorks' /\ isGit' /\ hasLadder'
    <3>1. GitWorks /\ isGit /\ hasLadder
      BY <2>1, Rigid DEF GitWorks
    <3>. QED  BY <1>1, <2>1, <3>1, TreeStep DEF EscalationInv
  <2>. QED  BY <2>1 DEF TreeInv
<1>7. ChangeInv'
  <2>1. CASE GitWorks'
    <3>1. GitWorks
      BY <2>1, Rigid DEF GitWorks
    <3>. QED  BY <1>1, <1>2, <2>1, <3>1, ChangeStep DEF EscalationInv
  <2>. QED  BY <2>1 DEF ChangeInv
<1>. QED  BY <1>2, <1>3, <1>4, <1>5, <1>6, <1>7 DEF EscalationInv

LEMMA Inductive == Spec => []EscalationInv
BY InitInv, NextInv, PTL DEF Spec

(* Every variable keeps its type, however long the ladder and the plan. *)
THEOREM TypeCorrect == Spec => []TypeOK
<1>1. EscalationInv => TypeOK
  BY DEF EscalationInv
<1>. QED  BY <1>1, Inductive, PTL

(* No attempt at ask_before_step or above is judged or has written          *)
(* anything without the answer of a human to that step of that phase.       *)
THEOREM Asked == Spec => []AskedFirst
<1>1. EscalationInv => AskedFirst
  BY DEF EscalationInv, AskInv
<1>. QED  BY <1>1, Inductive, PTL

(* A step is only climbed to over the failures of all the steps below it.   *)
THEOREM Climbs == Spec => []LadderOrder
<1>1. EscalationInv => LadderOrder
  BY DEF EscalationInv, LadderInv, LadderOrder, UnderWay
<1>. QED  BY <1>1, Inductive, PTL

(* What a rejected attempt wrote is gone when a later one is made, unless   *)
(* discarding failed, a shell put it in the index, or a process that        *)
(* outlived its command wrote it afterwards.                                *)
THEOREM Isolated == Spec => []AttemptIsolation
<1>1. EscalationInv => AttemptIsolation
  BY IsolationImplies DEF EscalationInv
<1>. QED  BY <1>1, Inductive, PTL

(* What a resolved phase wrote survives the discards of the phases after    *)
(* it, even if its own commit failed.                                       *)
THEOREM Kept == Spec => []ApprovedWorkKept
<1>1. EscalationInv => ApprovedWorkKept
  BY KeptImplies DEF EscalationInv
<1>. QED  BY <1>1, Inductive, PTL

(* An execution costs at most the cap and one attempt more for every phase  *)
(* it reached: the cap holds for a phase, not for the task.                 *)
THEOREM CostBounded == Spec => []CostBound
<1>1. EscalationInv => CostBound
  BY DEF EscalationInv, CostInv, CostBound, Budget
<1>. QED  BY <1>1, Inductive, PTL

(* As long as git works, a phase that asks for a change and is resolved     *)
(* changed something itself, or found at its first step what a failed phase *)
(* had left, or found what an earlier attempt had put in the index since a  *)
(* phase was last resolved, or what a process left behind had written.      *)
THEOREM Accountable == Spec => []ChangeAccounted
<1>1. EscalationInv => ChangeAccounted
  BY ChangeImplies DEF EscalationInv
<1>. QED  BY <1>1, Inductive, PTL

(* Between phases escalation.jsonl holds every attempt judged so far and    *)
(* shows as passed exactly those that resolved a phase, unless writing it   *)
(* failed.                                                                  *)
THEOREM Logged == Spec => []EveryAttemptLogged
<1>1. EscalationInv => EveryAttemptLogged
  BY LogImplies DEF EscalationInv
<1>. QED  BY <1>1, Inductive, PTL
=============================================================================
