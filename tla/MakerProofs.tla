---------------------------- MODULE MakerProofs ----------------------------
(***************************************************************************)
(* Theorems about the orchestrator, module Maker.                          *)
(*                                                                         *)
(* ExclusiveWork is not inductive by itself: nothing in it says that a     *)
(* claim refused to a second actor is refused because of the first.  The   *)
(* inductive invariant adds that whoever is at work on an item has it in   *)
(* active_work; a key in active_work without anybody at work on it (the    *)
(* timeout's leak) only makes the invariant easier to keep.                *)
(***************************************************************************)
EXTENDS Maker, TLAPS

HoldersClaimed == \A a \in Actors : stage[a] \in Holding /\ Item(a) \in Items => Item(a) \in active

IInv == TypeOK /\ HoldersClaimed /\ ExclusiveWork

-----------------------------------------------------------------------------
(* What the operators on tasks return is a task. *)
LEMMA TasksTyped ==
    /\ Blank \in Tasks
    /\ \A task \in Tasks, s \in TaskStatus : WithStatus(task, s) \in Tasks
    /\ \A task \in Tasks : Reopened(task) \in Tasks /\ FinalStatus(task) \in TaskStatus
    /\ \A task \in Tasks, p \in Phases, r \in PhaseStatus : [task EXCEPT !.phases[p] = r] \in Tasks
BY DEF Blank, Tasks, WithStatus, Reopened, FinalStatus, TaskStatus, PhaseStatus

(* The actor whose step it is has a task, once it is past its arrival. *)
LEMMA TaskTyped ==
    ASSUME TypeOK, NEW a \in Actors, stage[a] # "idle"
    PROVE  Task(a) \in Triggers
BY MakerAssumption DEF TypeOK, Task, Actors

LEMMA InitIInv == Init => IInv
<1>. SUFFICES ASSUME Init PROVE IInv
  OBVIOUS
<1>1. TypeOK
  <2>1. copy \in [Actors -> Tasks] /\ disk \in [Triggers -> Tasks]
    BY TasksTyped DEF Init
  <2>2. stage \in [Actors -> Stages] /\ \A k \in Retries : stage[k] = "idle"
    BY DEF Init, Stages, Actors
  <2>3. crashes \in 0..MaxCrashes /\ up \in BOOLEAN
    BY MakerAssumption DEF Init
  <2>. QED  BY <2>1, <2>2, <2>3 DEF Init, TypeOK
<1>2. \A a \in Actors : stage[a] \notin Holding
  BY DEF Init, Holding, Executing
<1>. QED  BY <1>1, <1>2 DEF IInv, HoldersClaimed, ExclusiveWork, Holds

LEMMA TypeStep == TypeOK /\ [Next]_vars => TypeOK'
<1>. SUFFICES ASSUME TypeOK, [Next]_vars PROVE TypeOK'
  OBVIOUS
<1>. USE MakerAssumption, TasksTyped DEF rigid, life
<1>1. ASSUME NEW t \in Triggers,
             ReceivePlain(t) \/ ReceiveRequest(t) \/ ReceiveEvent(t) \/ CheckDelivered(t) \/ Ignore(t)
                \/ EnqueueDirectly(t)
      PROVE  TypeOK'
  BY <1>1 DEF TypeOK, ReceivePlain, ReceiveRequest, ReceiveEvent, CheckDelivered, Ignore,
              EnqueueDirectly, Move, Actors, Stages, Holding, Executing
<1>2. ASSUME NEW t \in Triggers, Claim(t) \/ Approve(t) PROVE TypeOK'
  BY <1>2 DEF TypeOK, Claim, Approve, ClaimWork, Move, Actors, Stages, Holding, Executing
<1>3. ASSUME NEW t \in Triggers, PlanFails(t) PROVE TypeOK'
  BY <1>3
     DEF TypeOK, PlanFails, End, ReleaseWork, Keep, Actors, Stages, Holding, Executing
<1>4. ASSUME NEW t \in Triggers, SavePlan(t) PROVE TypeOK'
  BY <1>4
     DEF TypeOK, SavePlan, Save, Keep, Move, Actors, Stages, Holding, Executing,
         TaskStatus
<1>5. ASSUME NEW t \in Triggers, AskApproval(t) PROVE TypeOK'
  BY <1>5
     DEF TypeOK, AskApproval, Save, Keep, Move, Actors, Stages, Holding, Executing,
         TaskStatus
<1>6. ASSUME NEW t \in Triggers, Deny(t) PROVE TypeOK'
  BY <1>6
     DEF TypeOK, Deny, End, ReleaseWork, Save, Keep, Actors, Stages, Holding, Executing,
         TaskStatus
<1>7. ASSUME NEW k \in Retries, NEW t \in Triggers, Load(k, t) PROVE TypeOK'
  BY <1>7 DEF TypeOK, Load, Move, Keep, Actors, Stages, Holding, Executing
<1>8. ASSUME NEW k \in Retries, RetryClaim(k) PROVE TypeOK'
  <2>1. Item(k) \in Items \cup {NoItem}
    BY <1>8, TaskTyped DEF RetryClaim, Move, TypeOK, Item, Actors
  <2>. QED
    BY <1>8, <2>1
       DEF TypeOK, RetryClaim, ClaimWork, Move, Keep, Actors, Stages, Holding, Executing
<1>9. ASSUME NEW k \in Retries, RetryRefused(k) \/ ResumeFails(k) PROVE TypeOK'
  <2>1. Item(k) \in Items \cup {NoItem}
    BY <1>9, TaskTyped DEF RetryRefused, ResumeFails, TypeOK, Item, Actors
  <2>. QED
    BY <1>9, <2>1
       DEF TypeOK, RetryRefused, ResumeFails, Leave, LeaveClaim, Keep, Actors, Stages,
                      Holding, Executing
<1>10. ASSUME NEW k \in Retries, Resume(k) PROVE TypeOK'
  BY <1>10 DEF TypeOK, Resume, Save, Move, Actors, Stages, Holding, Executing
<1>11. ASSUME NEW a \in Actors, Dequeue(a) PROVE TypeOK'
  BY <1>11 DEF TypeOK, Dequeue, Move, Actors, Stages, Holding, Executing
<1>12. ASSUME NEW a \in Actors, BeginPhases(a) \/ PrepareFails(a) PROVE TypeOK'
  <2>1. Task(a) \in Triggers
    BY <1>12, TaskTyped DEF BeginPhases, PrepareFails, Move
  <2>. QED
    BY <1>12, <2>1
       DEF TypeOK, BeginPhases, PrepareFails, Save, Keep, Move, Actors, Stages,
                       Holding, Executing, TaskStatus
<1>13. ASSUME NEW a \in Actors, RunPhase(a) PROVE TypeOK'
  <2>1. Task(a) \in Triggers
    BY <1>13, TaskTyped DEF RunPhase
  <2>2. PICK p \in Phases, result \in {"Done", "Failed"} :
            /\ Keep(a, [copy[a] EXCEPT !.phases[p] = result])
            /\ Save(Task(a), [copy[a] EXCEPT !.phases[p] = result])
    BY <1>13 DEF RunPhase
  <2>3. [copy[a] EXCEPT !.phases[p] = result] \in Tasks
    BY <2>2 DEF TypeOK, PhaseStatus
  <2>. QED
    BY <1>13, <2>1, <2>2, <2>3
       DEF TypeOK, RunPhase, Save, Keep, Actors, Stages, Holding, Executing
<1>14. ASSUME NEW a \in Actors, Finish(a) PROVE TypeOK'
  <2>1. Task(a) \in Triggers
    BY <1>14, TaskTyped DEF Finish, Move
  <2>. QED
    BY <1>14, <2>1
       DEF TypeOK, Finish, Save, Keep, Move, Actors, Stages, Holding, Executing
<1>15. ASSUME NEW a \in Actors, Close(a) \/ BreakOff(a) PROVE TypeOK'
  BY <1>15
     DEF TypeOK, Close, BreakOff, End, ReleaseWork, Keep, Actors, Stages, Holding,
         Executing
<1>16. ASSUME NEW a \in Actors, DropBody(a) PROVE TypeOK'
  <2>1. Item(a) \in Items \cup {NoItem}
    BY <1>16, TaskTyped DEF DropBody, TypeOK, Item, Actors
  <2>. QED
    BY <1>16, <2>1
       DEF TypeOK, DropBody, Leave, LeaveClaim, Keep, Actors, Stages, Holding, Executing
<1>17. CASE Crash
  <2>2. stage' \in [Actors -> Stages] /\ copy' \in [Actors -> Tasks] /\ crashes' \in 0..MaxCrashes
    BY <1>17 DEF TypeOK, Crash, Stages
  <2>3. \A k \in Retries : stage'[k] # "idle" => target'[k] \in Triggers
    BY <1>17 DEF TypeOK, Crash, Actors
  <2>1. cut' \subseteq Triggers
    <3>1. \A b \in Actors : stage[b] = "working" => Task(b) \in Triggers
      BY TaskTyped
    <3>. QED  BY <1>17, <3>1 DEF Crash
  <2>. QED
    BY <1>17, <2>1, <2>2, <2>3 DEF TypeOK, Crash
<1>18. CASE Recover
  BY <1>18 DEF TypeOK, Recover
<1>19. CASE UNCHANGED vars
  BY <1>19 DEF TypeOK, vars
<1>. QED
  BY <1>1, <1>2, <1>3, <1>4, <1>5, <1>6, <1>7, <1>8, <1>9, <1>10, <1>11, <1>12, <1>13,
     <1>14,
     <1>15, <1>16, <1>17, <1>18, <1>19 DEF Next, Handle, HandleRetry, Execute
-----------------------------------------------------------------------------
Claims == HoldersClaimed /\ ExclusiveWork

(* The task and the item of an actor are fixed once it is past its arrival. *)
LEMMA ItemKept ==
    ASSUME UNCHANGED <<itemOf, target>>, NEW a \in Actors
    PROVE  Item(a)' = Item(a)
BY DEF Item, Task

(* A step on which nobody comes to an item keeps the claims, if it takes   *)
(* from active_work no key whose holder stays.                             *)
LEMMA NobodyComes ==
    ASSUME Claims,
           \A a \in Actors : stage'[a] \in Holding => stage[a] \in Holding /\ Item(a)' = Item(a),
           \A a \in Actors : stage'[a] \in Holding /\ Item(a) \in active => Item(a) \in active'
    PROVE  Claims'
<1>1. HoldersClaimed'
  BY DEF Claims, HoldersClaimed
<1>2. ExclusiveWork'
  BY DEF Claims, ExclusiveWork, Holds
<1>. QED  BY <1>1, <1>2 DEF Claims

(* Whoever ends takes with it its own claim and no other. *)
LEMMA EndKeepsClaims ==
    ASSUME TypeOK, Claims,
        NEW a \in Actors, stage[a] \in Holding, End(a), UNCHANGED <<itemOf, target>>
    PROVE  Claims'
<1>1. \A b \in Actors : stage'[b] \in Holding => b # a /\ stage[b] \in Holding /\ Item(b)' = Item(b)
  BY ItemKept DEF End, TypeOK, Holding, Executing
<1>2. ASSUME NEW b \in Actors, stage'[b] \in Holding, Item(b) \in active
        PROVE Item(b) \in active'
  <2>1. b # a /\ stage[b] \in Holding /\ Item(b) \in Items
    BY <1>1, <1>2 DEF TypeOK
  <2>2. Item(b) # Item(a)
    BY <2>1 DEF Claims, ExclusiveWork, Holds
  <2>. QED  BY <1>2, <2>2 DEF End, ReleaseWork
<1>. QED  BY <1>1, <1>2, NobodyComes

(* Whoever comes to an item has found its key absent: nobody was there. *)
LEMMA ClaimKeepsClaims ==
    ASSUME TypeOK, Claims, NEW a \in Actors, NEW to \in Stages,
           stage' = [stage EXCEPT ![a] = to], ClaimWork(Item(a)), UNCHANGED <<itemOf, target>>
    PROVE  Claims'
<1>1. \A b \in Actors : Item(b)' = Item(b) /\ (b # a /\ stage'[b] \in Holding => stage[b] \in Holding)
  BY ItemKept DEF TypeOK
<1>2. \A b \in Actors : b # a /\ stage'[b] \in Holding /\ Item(b) \in Items => Item(b) # Item(a)
  BY <1>1 DEF Claims, HoldersClaimed, ClaimWork
<1>3. HoldersClaimed'
  <2>. SUFFICES ASSUME NEW b \in Actors, stage'[b] \in Holding, Item(b) \in Items
                PROVE  Item(b) \in active'
    BY <1>1 DEF HoldersClaimed
  <2>1. CASE b = a
    BY <2>1, MakerAssumption DEF ClaimWork
  <2>2. CASE b # a
    BY <2>2, <1>1 DEF Claims, HoldersClaimed, ClaimWork
  <2>. QED  BY <2>1, <2>2
<1>4. ExclusiveWork'
  <2>. SUFFICES ASSUME NEW i \in Items, NEW b \in Actors, NEW c \in Actors,
                       stage'[b] \in Holding, Item(b) = i, stage'[c] \in Holding, Item(c) = i
                PROVE  b = c
    BY <1>1 DEF ExclusiveWork, Holds
  <2>1. CASE b = a \/ c = a
    BY <2>1, <1>2
  <2>2. CASE b # a /\ c # a
    BY <2>2, <1>1 DEF Claims, ExclusiveWork, Holds
  <2>. QED  BY <2>1, <2>2
<1>. QED  BY <1>3, <1>4 DEF Claims

(* A message without an item comes to none. *)
LEMMA PlainKeepsClaims ==
    ASSUME TypeOK, Claims, NEW t \in Triggers, ReceivePlain(t)
    PROVE  Claims'
<1>1. Item(t) = NoItem /\ \A b \in Actors : Item(b)' = Item(b)
  BY ItemKept DEF ReceivePlain, rigid, Item, Task
<1>2. \A b \in Actors : b # t => stage'[b] = stage[b]
  BY DEF ReceivePlain, Move, TypeOK
<1>3. NoItem \notin Items /\ active' = active
  BY MakerAssumption DEF ReceivePlain
<1>. QED  BY <1>1, <1>2, <1>3 DEF Claims, HoldersClaimed, ExclusiveWork, Holds

LEMMA ClaimsStep == TypeOK /\ Claims /\ [Next]_vars => Claims'
<1>. SUFFICES ASSUME TypeOK, Claims, [Next]_vars PROVE Claims'
  OBVIOUS
<1>. USE DEF rigid
<1>1. ASSUME NEW t \in Triggers, ReceivePlain(t) PROVE Claims'
  BY <1>1, PlainKeepsClaims
<1>2. ASSUME NEW t \in Triggers,
             ReceiveRequest(t) \/ ReceiveEvent(t) \/ CheckDelivered(t) \/ Ignore(t)
                \/ SavePlan(t) \/ EnqueueDirectly(t) \/ AskApproval(t) \/ Approve(t)
      PROVE  Claims'
  <2>1. t \in Actors /\ active' = active /\ UNCHANGED <<itemOf, target>>
    BY <1>2 DEF Actors, ReceiveRequest, ReceiveEvent, CheckDelivered, Ignore, SavePlan,
                EnqueueDirectly, AskApproval, Approve
  <2>2. \A a \in Actors : stage'[a] \in Holding => stage[a] \in Holding
    BY <1>2, <2>1
       DEF TypeOK, Move, ReceiveRequest, ReceiveEvent, CheckDelivered, Ignore, SavePlan,
                EnqueueDirectly, AskApproval, Approve, Holding, Executing
  <2>. QED  BY <2>1, <2>2, ItemKept, NobodyComes
<1>3. ASSUME NEW t \in Triggers, Claim(t) PROVE Claims'
  <2>1. t \in Actors /\ Item(t) = itemOf[t] /\ "planning" \in Stages
    BY DEF Actors, Item, Task, Stages, Holding
  <2>. QED  BY <1>3, <2>1, ClaimKeepsClaims DEF Claim, Move
<1>4. ASSUME NEW t \in Triggers, PlanFails(t) \/ Deny(t) PROVE Claims'
  <2>1. t \in Actors /\ stage[t] \in Holding
    BY <1>4 DEF Actors, PlanFails, Deny, Holding
  <2>. QED  BY <1>4, <2>1, EndKeepsClaims DEF PlanFails, Deny
<1>5. ASSUME NEW k \in Retries, NEW t \in Triggers, Load(k, t) PROVE Claims'
  <2>1. \A a \in Actors : stage'[a] \in Holding => a # k /\ stage[a] \in Holding
    BY <1>5 DEF Load, Move, TypeOK, Holding, Executing, Actors
  <2>2. \A a \in Actors : a # k => Item(a)' = Item(a)
    BY <1>5 DEF Load, Item, Task, TypeOK, Actors
  <2>. QED  BY <1>5, <2>1, <2>2, NobodyComes DEF Load
<1>6. ASSUME NEW k \in Retries, RetryClaim(k) PROVE Claims'
  <2>1. k \in Actors /\ "resuming" \in Stages
    BY DEF Actors, Stages, Holding
  <2>. QED  BY <1>6, <2>1, ClaimKeepsClaims DEF RetryClaim, Move
<1>7. ASSUME NEW a \in Actors,
             \/ a \in Retries /\ (RetryRefused(a) \/ Resume(a) \/ ResumeFails(a))
             \/ Dequeue(a) \/ BeginPhases(a) \/ PrepareFails(a) \/ RunPhase(a) \/ Finish(a) \/ DropBody(a)
      PROVE  Claims'
  <2>1. active' = active /\ UNCHANGED <<itemOf, target>>
    BY <1>7
       DEF RetryRefused, Resume, ResumeFails, Dequeue, BeginPhases, PrepareFails,
           RunPhase,
                Finish, DropBody, Leave, LeaveClaim
  <2>2. \A b \in Actors : stage'[b] \in Holding => stage[b] \in Holding
    BY <1>7
       DEF TypeOK, Move, RetryRefused, Resume, ResumeFails, Dequeue, BeginPhases,
           PrepareFails,
                RunPhase, Finish, DropBody, Leave, LeaveClaim, Holding, Executing
  <2>. QED  BY <2>1, <2>2, ItemKept, NobodyComes
<1>8. ASSUME NEW a \in Actors, Close(a) \/ BreakOff(a) PROVE Claims'
  <2>1. stage[a] \in Holding
    BY <1>8 DEF Close, BreakOff, Holding, Executing
  <2>. QED  BY <1>8, <2>1, EndKeepsClaims DEF Close, BreakOff
<1>9. CASE Crash
  BY <1>9, NobodyComes DEF Crash, Holding, Executing
<1>10. CASE Recover
  BY <1>10, ItemKept, NobodyComes DEF Recover
<1>11. CASE UNCHANGED vars
  BY <1>11, ItemKept, NobodyComes DEF vars
<1>. QED
  BY <1>1, <1>2, <1>3, <1>4, <1>5, <1>6, <1>7, <1>8, <1>9, <1>10, <1>11
     DEF Next, Handle, HandleRetry, Execute, Actors

LEMMA Invariance == Spec => []IInv
<1>1. IInv /\ [Next]_vars => IInv'
  BY TypeStep, ClaimsStep DEF IInv, Claims
<1>. QED  BY <1>1, InitIInv, PTL DEF Spec

(* Every variable keeps its type, for any number of messages, retries,     *)
(* items, phases, permits and crashes.                                     *)
THEOREM TypeCorrect == Spec => []TypeOK
BY Invariance, PTL DEF IInv

(* No two agents ever work on one Forgejo item, whatever times out, fails, *)
(* is retried or crashes.                                                  *)
THEOREM Exclusion == Spec => []ExclusiveWork
BY Invariance, PTL DEF IInv
-----------------------------------------------------------------------------
(* One actor writes task files at a time, for a Forgejo task: another      *)
(* actor of the same task would be at work on the same item.               *)
LEMMA OwnFile ==
    ASSUME TypeOK, Claims, NEW a \in Actors, stage[a] \in Holding,
           NEW b \in Actors, b # a, stage[b] = "working", Item(b) \in Items
    PROVE  Task(b) # Task(a)
<1>1. stage[b] \in Holding
  BY DEF Holding, Executing
<1>. QED  BY <1>1 DEF Claims, ExclusiveWork, Holds, Item

(* A step of one actor that writes at most its own task's file, and leaves *)
(* it equal to its copy if the actor is running phases.                    *)
LEMMA OwnStepKeepsFiles ==
    ASSUME TypeOK, Claims, FileIsCurrent, UNCHANGED <<itemOf, target>>,
           NEW a \in Actors, stage[a] \in Holding,
           \A b \in Actors : b # a => stage'[b] = stage[b] /\ copy'[b] = copy[b],
           \A t \in Triggers : t # Task(a) => disk'[t] = disk[t],
           stage'[a] = "working" => disk'[Task(a)] = copy'[a]
    PROVE  FileIsCurrent'
<1>. SUFFICES ASSUME NEW b \in Actors, stage'[b] = "working", Item(b) \in Items
              PROVE  disk'[Task(b)] = copy'[b]
  BY ItemKept DEF FileIsCurrent, Task
<1>1. CASE b = a
  BY <1>1
<1>2. CASE b # a
  <2>1. stage[b] = "working" /\ Task(b) \in Triggers
    BY <1>2, TaskTyped
  <2>2. Task(b) # Task(a)
    BY <1>2, <2>1, OwnFile
  <2>. QED  BY <1>2, <2>1, <2>2 DEF FileIsCurrent
<1>. QED  BY <1>1, <1>2

(* A step that writes no file and brings nobody to the phases. *)
LEMMA NoWriteKeepsFiles ==
    ASSUME FileIsCurrent, disk' = disk,
           \A b \in Actors : stage'[b] = "working" =>
               /\ stage[b] = "working" /\ copy'[b] = copy[b]
               /\ Item(b)' = Item(b) /\ Task(b)' = Task(b)
    PROVE  FileIsCurrent'
BY DEF FileIsCurrent

LEMMA FilesStep == IInv /\ FileIsCurrent /\ [Next]_vars => FileIsCurrent'
<1>. SUFFICES ASSUME TypeOK, Claims, FileIsCurrent, [Next]_vars PROVE FileIsCurrent'
  BY DEF IInv, Claims
<1>. USE DEF rigid
<1>1. ASSUME NEW a \in Actors,
             \/ a \in Triggers /\ (\/ ReceivePlain(a) \/ ReceiveRequest(a) \/ ReceiveEvent(a)
                                   \/ CheckDelivered(a) \/ Ignore(a) \/ EnqueueDirectly(a)
                                   \/ Claim(a) \/ Approve(a) \/ PlanFails(a))
             \/ a \in Retries /\ (RetryClaim(a) \/ RetryRefused(a) \/ ResumeFails(a))
             \/ Dequeue(a) \/ Close(a) \/ BreakOff(a) \/ DropBody(a)
      PROVE  FileIsCurrent'
  <2>1. disk' = disk /\ UNCHANGED <<itemOf, target>>
    BY <1>1
       DEF ReceivePlain, ReceiveRequest, ReceiveEvent, CheckDelivered, Ignore,
           EnqueueDirectly,
                Claim, Approve, PlanFails, RetryClaim, RetryRefused, ResumeFails, Dequeue, Close,
                BreakOff, DropBody
  <2>2. stage'[a] # "working"
    BY <1>1
       DEF ReceivePlain, ReceiveRequest, ReceiveEvent, CheckDelivered, Ignore,
           EnqueueDirectly,
                Claim, Approve, PlanFails, RetryClaim, RetryRefused, ResumeFails, Dequeue, Close,
                BreakOff, DropBody, Move, End, Leave, LeaveClaim, TypeOK
  <2>3. \A b \in Actors : b # a => stage'[b] = stage[b] /\ copy'[b] = copy[b]
    BY <1>1
       DEF ReceivePlain, ReceiveRequest, ReceiveEvent, CheckDelivered, Ignore,
           EnqueueDirectly,
                Claim, Approve, PlanFails, RetryClaim, RetryRefused, ResumeFails, Dequeue, Close,
                BreakOff, DropBody, Move, End, Leave, LeaveClaim, Keep, TypeOK
  <2>4. \A b \in Actors : Task(b)' = Task(b)
    BY <2>1 DEF Task
  <2>. QED  BY <2>1, <2>2, <2>3, <2>4, ItemKept, NoWriteKeepsFiles
<1>2. ASSUME NEW a \in Actors,
             \/ a \in Triggers /\ (SavePlan(a) \/ AskApproval(a) \/ Deny(a))
             \/ a \in Retries /\ Resume(a)
             \/ PrepareFails(a) \/ Finish(a)
      PROVE  FileIsCurrent'
  <2>1. stage[a] \in Holding /\ stage'[a] # "working"
    BY <1>2
       DEF SavePlan, AskApproval, Deny, Resume, PrepareFails, Finish, Move, End, TypeOK,
                Holding, Executing
  <2>2. \A b \in Actors : b # a => stage'[b] = stage[b] /\ copy'[b] = copy[b]
    BY <1>2
       DEF SavePlan, AskApproval, Deny, Resume, PrepareFails, Finish, Move, End, Keep,
           TypeOK
  <2>3. (a \in Triggers => Task(a) = a) /\ (a \in Retries => Task(a) = target[a])
    BY MakerAssumption DEF Task
  <2>4. \A t \in Triggers : t # Task(a) => disk'[t] = disk[t]
    BY <1>2, <2>3
       DEF SavePlan, AskApproval, Deny, Resume, PrepareFails, Finish, Save, TypeOK
  <2>5. UNCHANGED <<itemOf, target>>
    BY <1>2 DEF SavePlan, AskApproval, Deny, Resume, PrepareFails, Finish
  <2>. QED  BY <2>1, <2>2, <2>4, <2>5, OwnStepKeepsFiles
<1>3. ASSUME NEW a \in Actors, BeginPhases(a) \/ RunPhase(a) PROVE FileIsCurrent'
  <2>1. stage[a] \in Holding /\ Task(a) \in Triggers /\ UNCHANGED <<itemOf, target>>
    BY <1>3, TaskTyped DEF BeginPhases, RunPhase, Move, Holding, Executing
  <2>2. PICK task : Keep(a, task) /\ Save(Task(a), task)
    BY <1>3 DEF BeginPhases, RunPhase
  <2>3. /\ \A b \in Actors : b # a => copy'[b] = copy[b]
        /\ \A t \in Triggers : t # Task(a) => disk'[t] = disk[t]
        /\ disk'[Task(a)] = copy'[a]
    BY <2>1, <2>2 DEF Keep, Save, TypeOK
  <2>4. \A b \in Actors : b # a => stage'[b] = stage[b]
    BY <1>3 DEF BeginPhases, RunPhase, Move, TypeOK
  <2>. QED  BY <2>1, <2>3, <2>4, OwnStepKeepsFiles
<1>4. ASSUME NEW k \in Retries, NEW t \in Triggers, Load(k, t) PROVE FileIsCurrent'
  <2>1. \A b \in Actors : stage'[b] = "working" =>
            b # k /\ stage[b] = "working" /\ copy'[b] = copy[b]
    BY <1>4 DEF Load, Move, Keep, TypeOK, Actors
  <2>2. \A b \in Actors : b # k => Item(b)' = Item(b) /\ Task(b)' = Task(b)
    BY <1>4 DEF Load, Item, Task, TypeOK, Actors
  <2>. QED  BY <1>4, <2>1, <2>2, NoWriteKeepsFiles DEF Load
<1>5. CASE Crash
  BY <1>5 DEF Crash, FileIsCurrent
<1>6. CASE Recover \/ UNCHANGED vars
  BY <1>6 DEF Recover, vars, FileIsCurrent, Item, Task
<1>. QED
  BY <1>1, <1>2, <1>3, <1>4, <1>5, <1>6 DEF Next, Handle, HandleRetry, Execute, Actors

(* The progress of a Forgejo task is never overwritten: while its phases   *)
(* are run, its file is what the execution holds in memory.                *)
THEOREM FilesCurrent == Spec => []FileIsCurrent
<1>1. Init => FileIsCurrent
  BY DEF Init, FileIsCurrent
<1>. QED  BY <1>1, FilesStep, Invariance, PTL DEF Spec
-----------------------------------------------------------------------------
(* The refinement: what a step does to the set of actors at work on each   *)
(* item is nothing, or a step of WorkClaim.                                *)
LEMMA RefineNothing ==
    ASSUME \A a \in Actors, i \in Items : Holds(a, i)' <=> Holds(a, i)
    PROVE  UNCHANGED workersOf
BY DEF workersOf

LEMMA RefineEnd ==
    ASSUME Claims, NEW a \in Actors, stage[a] \in Holding,
           \A i \in Items : ~Holds(a, i)',
           \A b \in Actors, i \in Items : b # a => (Holds(b, i)' <=> Holds(b, i))
    PROVE  [Work!Next]_workersOf
<1>1. CASE Item(a) \in Items
  <2>. DEFINE i == Item(a)
  <2>1. Holds(a, i) /\ \A b \in Actors : Holds(b, i) => b = a
    BY <1>1 DEF Holds, Claims, ExclusiveWork
  <2>2. workersOf[i] # {}
    BY <1>1, <2>1 DEF workersOf
  <2>3. \A j \in Items : {b \in Actors : Holds(b, j)'} =
                             IF j = i THEN {} ELSE {b \in Actors : Holds(b, j)}
    BY <2>1 DEF Holds
  <2>4. workersOf' = [workersOf EXCEPT ![i] = {}]
    BY <1>1, <2>3 DEF workersOf
  <2>. QED  BY <1>1, <2>2, <2>4 DEF Work!Next, Work!End
<1>2. CASE Item(a) \notin Items
  BY <1>2, RefineNothing DEF Holds
<1>. QED  BY <1>1, <1>2

LEMMA RefineBegin ==
    ASSUME Claims, NEW a \in Actors, stage[a] \notin Holding, stage'[a] \in Holding,
           Item(a)' = Item(a), Item(a) \notin active \/ Item(a) \notin Items,
           \A b \in Actors, i \in Items : b # a => (Holds(b, i)' <=> Holds(b, i))
    PROVE  [Work!Next]_workersOf
<1>1. CASE Item(a) \in Items
  <2>. DEFINE i == Item(a)
  <2>1. \A b \in Actors : ~Holds(b, i)
    BY <1>1 DEF Holds, Claims, HoldersClaimed
  <2>2. workersOf[i] = {}
    BY <1>1, <2>1 DEF workersOf
  <2>3. \A j \in Items : {b \in Actors : Holds(b, j)'} =
                             IF j = i THEN {a} ELSE {b \in Actors : Holds(b, j)}
    BY <2>1 DEF Holds
  <2>4. workersOf' = [workersOf EXCEPT ![i] = {a}]
    BY <1>1, <2>3 DEF workersOf
  <2>. QED  BY <1>1, <2>2, <2>4 DEF Work!Next, Work!Begin
<1>2. CASE Item(a) \notin Items
  BY <1>2, RefineNothing DEF Holds
<1>. QED  BY <1>1, <1>2

LEMMA RefineStep == IInv /\ [Next]_vars => [Work!Next]_workersOf
<1>. SUFFICES ASSUME TypeOK, Claims, [Next]_vars PROVE [Work!Next]_workersOf
  BY DEF IInv, Claims
<1>. USE DEF rigid
<1>1. ASSUME NEW a \in Actors,
             \/ a \in Triggers /\ (\/ ReceiveRequest(a) \/ ReceiveEvent(a) \/ CheckDelivered(a) \/ Ignore(a)
                                   \/ SavePlan(a) \/ EnqueueDirectly(a) \/ AskApproval(a) \/ Approve(a))
             \/ a \in Retries /\ (RetryRefused(a) \/ Resume(a))
             \/ Dequeue(a) \/ BeginPhases(a) \/ PrepareFails(a) \/ RunPhase(a) \/ Finish(a)
      PROVE  [Work!Next]_workersOf
  <2>1. UNCHANGED <<itemOf, target>>
    BY <1>1
       DEF ReceiveRequest, ReceiveEvent, CheckDelivered, Ignore, SavePlan,
           EnqueueDirectly,
                AskApproval, Approve, RetryRefused, Resume, Dequeue, BeginPhases, PrepareFails,
                RunPhase, Finish
  <2>2. \A b \in Actors : stage'[b] \in Holding <=> stage[b] \in Holding
    BY <1>1
       DEF ReceiveRequest, ReceiveEvent, CheckDelivered, Ignore, SavePlan,
           EnqueueDirectly,
                AskApproval, Approve, RetryRefused, Resume, Dequeue, BeginPhases, PrepareFails,
                RunPhase, Finish, Leave, Move, TypeOK, Holding, Executing
  <2>. QED  BY <2>1, <2>2, ItemKept, RefineNothing DEF Holds
<1>2. ASSUME NEW a \in Actors,
             \/ a \in Triggers /\ (PlanFails(a) \/ Deny(a))
             \/ a \in Retries /\ ResumeFails(a)
             \/ Close(a) \/ BreakOff(a) \/ DropBody(a)
      PROVE  [Work!Next]_workersOf
  <2>1. stage[a] \in Holding /\ stage' = [stage EXCEPT ![a] = "over"] /\ UNCHANGED <<itemOf, target>>
    BY <1>2
       DEF PlanFails, Deny, ResumeFails, Close, BreakOff, DropBody, End, Leave,
           LeaveClaim, Holding, Executing
  <2>2. stage'[a] \notin Holding /\ \A b \in Actors : b # a => stage'[b] = stage[b]
    BY <2>1 DEF TypeOK, Holding, Executing
  <2>. QED  BY <2>1, <2>2, ItemKept, RefineEnd DEF Holds
<1>3. ASSUME NEW a \in Actors,
             \/ a \in Triggers /\ (ReceivePlain(a) \/ Claim(a))
             \/ a \in Retries /\ RetryClaim(a)
      PROVE  [Work!Next]_workersOf
  <2>1. UNCHANGED <<itemOf, target>>
    BY <1>3 DEF ReceivePlain, Claim, RetryClaim
  <2>2. /\ stage[a] \notin Holding /\ stage'[a] \in Holding
        /\ \A b \in Actors : b # a => stage'[b] = stage[b]
    BY <1>3 DEF ReceivePlain, Claim, RetryClaim, Move, TypeOK, Holding, Executing
  <2>3. Item(a) \notin active \/ Item(a) \notin Items
    BY <1>3, MakerAssumption DEF ReceivePlain, Claim, RetryClaim, ClaimWork, Item, Task
  <2>. QED  BY <2>1, <2>2, <2>3, ItemKept, RefineBegin DEF Holds
<1>4. ASSUME NEW k \in Retries, NEW t \in Triggers, Load(k, t) PROVE [Work!Next]_workersOf
  <2>1. \A a \in Actors : stage'[a] \in Holding <=> stage[a] \in Holding
    BY <1>4 DEF Load, Move, TypeOK, Holding, Executing
  <2>2. stage[k] \notin Holding /\ \A a \in Actors : a # k => Item(a)' = Item(a)
    BY <1>4 DEF Load, Move, Item, Task, TypeOK, Holding, Executing, Actors
  <2>. QED  BY <2>1, <2>2, RefineNothing DEF Holds
<1>5. CASE Crash
  <2>1. \A a \in Actors, i \in Items : ~Holds(a, i)'
    BY <1>5 DEF Crash, Holds, Holding, Executing
  <2>2. workersOf' = [i \in Items |-> {}]
    BY <2>1 DEF workersOf
  <2>. QED  BY <2>2 DEF Work!Next, Work!Stop
<1>6. CASE Recover \/ UNCHANGED vars
  BY <1>6, ItemKept, RefineNothing DEF Recover, vars, Holds
<1>. QED
  BY <1>1, <1>2, <1>3, <1>4, <1>5, <1>6 DEF Next, Handle, HandleRetry, Execute, Actors

(* active_work keeps the promise of WorkClaim. *)
THEOREM Refinement == Spec => ImplementsWorkClaim
<1>1. Init => Work!Init
  <2>. SUFFICES ASSUME Init PROVE workersOf = [i \in Items |-> {}]
    BY DEF Work!Init
  <2>1. \A a \in Actors, i \in Items : ~Holds(a, i)
    BY DEF Init, Holds, Holding, Executing
  <2>. QED  BY <2>1 DEF workersOf
<1>. QED  BY <1>1, RefineStep, Invariance, PTL DEF Spec, ImplementsWorkClaim, Work!Spec
-----------------------------------------------------------------------------
(* The announcement at boot.  The file of a Forgejo task whose phases were *)
(* being run says Running when the process dies, and nobody writes it      *)
(* before the boot has read it: its message is past, and no /retry is      *)
(* taken up while the main loop does not run.                              *)
Started ==
    /\ \A a \in Actors : stage[a] # "idle" => stage[Task(a)] # "idle"
    /\ \A t \in Triggers : stage[t] = "idle" => disk[t].status = "Absent"

WorkingRuns == \A a \in Actors : stage[a] = "working" => copy[a].status = "Running"

BootWindow ==
    ~up => /\ \A k \in Retries : stage[k] \in {"idle", "over"}
           /\ \A t \in cut : itemOf[t] \in Items => stage[t] = "over" /\ disk[t].status = "Running"

BootInv == Started /\ WorkingRuns /\ BootWindow /\ InterruptedAnnounced

(* What a step of actor a, not its arrival, may do. *)
ActsAlone(a) ==
    /\ stage[a] \notin {"idle", "over"} /\ stage'[a] # "idle"
    /\ \A b \in Actors : b # a => stage'[b] = stage[b] /\ copy'[b] = copy[b]
    /\ \A t \in Triggers : t # Task(a) => disk'[t] = disk[t]
    /\ stage'[a] = "working" => copy'[a].status = "Running"
    /\ UNCHANGED <<itemOf, target, up, announced, cut>>

(* An arrival: of a message, or of a retry for a task that has a file. *)
Arrives(a) ==
    /\ stage[a] = "idle" /\ stage'[a] \in Stages \ {"idle", "working"}
    /\ \A b \in Actors : b # a => stage'[b] = stage[b] /\ copy'[b] = copy[b] /\ Task(b)' = Task(b)
    /\ a \in Triggers \/ (up /\ Task(a)' \in Triggers /\ disk[Task(a)'].status # "Absent")
    /\ UNCHANGED <<itemOf, disk, up, announced, cut>>

LEMMA StepKinds ==
    ASSUME TypeOK, WorkingRuns, Next
    PROVE  Crash \/ Recover \/ \E a \in Actors : ActsAlone(a) \/ Arrives(a)
<1>. USE DEF rigid, life
<1>1. ASSUME NEW t \in Triggers, ReceivePlain(t) \/ ReceiveRequest(t) \/ ReceiveEvent(t)
        PROVE Arrives(t)
  <2>1. \A b \in Actors : Task(b)' = Task(b)
    BY <1>1 DEF Task, ReceivePlain, ReceiveRequest, ReceiveEvent
  <2>. QED  BY <1>1, <2>1
          DEF Arrives, ReceivePlain, ReceiveRequest, ReceiveEvent, Move, TypeOK, Stages,
                              Holding, Actors
<1>2. ASSUME NEW k \in Retries, NEW t \in Triggers, Load(k, t) PROVE Arrives(k)
  <2>1. Task(k)' = t /\ \A b \in Actors : b # k => Task(b)' = Task(b)
    BY <1>2, MakerAssumption DEF Load, Task, TypeOK, Actors
  <2>. QED  BY <1>2, <2>1 DEF Arrives, Load, Move, Keep, TypeOK, Stages, Actors
<1>3. ASSUME NEW a \in Actors,
             \/ a \in Triggers /\ (\/ CheckDelivered(a) \/ Claim(a) \/ Ignore(a) \/ PlanFails(a)
                                   \/ EnqueueDirectly(a) \/ Approve(a))
             \/ a \in Retries /\ (RetryClaim(a) \/ RetryRefused(a) \/ ResumeFails(a))
             \/ Dequeue(a) \/ Close(a) \/ BreakOff(a) \/ DropBody(a)
      PROVE  ActsAlone(a)
  BY <1>3
     DEF ActsAlone, CheckDelivered, Claim, Ignore, PlanFails, EnqueueDirectly, Approve,
         RetryClaim,
              RetryRefused, ResumeFails, Dequeue, Close, BreakOff, DropBody, Move, End, Leave, LeaveClaim, Keep,
              TypeOK, Executing
<1>4. ASSUME NEW a \in Actors,
             \/ a \in Triggers /\ (SavePlan(a) \/ AskApproval(a) \/ Deny(a))
             \/ a \in Retries /\ Resume(a)
             \/ PrepareFails(a) \/ Finish(a)
      PROVE  ActsAlone(a)
  <2>1. (a \in Triggers => Task(a) = a) /\ (a \in Retries => Task(a) = target[a])
    BY MakerAssumption DEF Task
  <2>. QED  BY <1>4, <2>1
          DEF ActsAlone, SavePlan, AskApproval, Deny, Resume, PrepareFails, Finish, Move,
                              End, Save, Keep, TypeOK
<1>5. ASSUME NEW a \in Actors, BeginPhases(a) \/ RunPhase(a) PROVE ActsAlone(a)
  <2>1. PICK task : Keep(a, task) /\ Save(Task(a), task) /\ task.status = "Running"
    <3>1. CASE BeginPhases(a)
      BY <3>1 DEF BeginPhases, WithStatus, TypeOK, Tasks
    <3>2. CASE RunPhase(a)
      BY <3>2 DEF RunPhase, WorkingRuns, TypeOK, Tasks
    <3>. QED  BY <1>5, <3>1, <3>2
  <2>. QED  BY <1>5, <2>1 DEF ActsAlone, BeginPhases, RunPhase, Move, Save, Keep, TypeOK
<1>. QED
  BY <1>1, <1>2, <1>3, <1>4, <1>5 DEF Next, Handle, HandleRetry, Execute, Actors

LEMMA AloneKeepsBoot ==
    ASSUME TypeOK, BootInv, NEW a \in Actors, ActsAlone(a)
    PROVE  BootInv'
<1>1. \A b \in Actors : Task(b)' = Task(b) /\ (stage[b] # "idle" <=> stage'[b] # "idle")
  BY DEF ActsAlone, Task
<1>2. Task(a) \in Triggers /\ stage[Task(a)] # "idle"
  BY TaskTyped DEF ActsAlone, BootInv, Started
<1>3. Started'
  <2>1. \A b \in Actors : stage'[b] # "idle" => Task(b) \in Actors
    BY <1>1, TaskTyped DEF Actors
  <2>2. \A t \in Triggers : stage'[t] = "idle" => disk'[t] = disk[t]
    BY <1>1, <1>2 DEF ActsAlone, Actors
  <2>. QED  BY <1>1, <2>1, <2>2 DEF BootInv, Started, Actors
<1>4. WorkingRuns'
  BY DEF ActsAlone, BootInv, WorkingRuns
<1>5. BootWindow' /\ InterruptedAnnounced'
  <2>1. CASE up
    BY <2>1 DEF ActsAlone, BootInv, BootWindow, InterruptedAnnounced
  <2>2. CASE ~up
    <3>1. a \in Triggers /\ Task(a) = a
      BY <2>2 DEF ActsAlone, BootInv, BootWindow, Actors, Task
    <3>2. \A t \in cut : itemOf[t] \in Items => t # a
      BY <2>2 DEF ActsAlone, BootInv, BootWindow
    <3>3. \A k \in Retries : k # a /\ k \in Actors
      BY <3>1, MakerAssumption DEF Actors
    <3>4. cut \subseteq Triggers /\ cut \subseteq Actors
      BY DEF TypeOK, Actors
    <3>. QED  BY <2>2, <3>1, <3>2, <3>3, <3>4
            DEF ActsAlone, BootInv, BootWindow, InterruptedAnnounced
  <2>. QED  BY <2>1, <2>2
<1>. QED  BY <1>3, <1>4, <1>5 DEF BootInv

LEMMA ArrivalKeepsBoot ==
    ASSUME TypeOK, BootInv, NEW a \in Actors, Arrives(a)
    PROVE  BootInv'
<1>1. \A b \in Actors : stage[b] # "idle" => b # a /\ stage'[b] = stage[b] /\ stage'[b] # "idle"
  BY DEF Arrives
<1>2. Started'
  <2>1. ASSUME NEW b \in Actors, stage'[b] # "idle" PROVE stage'[Task(b)'] # "idle"
    <3>1. CASE b # a
      <4>1. stage[b] # "idle" /\ Task(b)' = Task(b)
        BY <2>1, <3>1 DEF Arrives
      <4>2. Task(b) \in Actors /\ stage[Task(b)] # "idle"
        BY <4>1, TaskTyped DEF BootInv, Started, Actors
      <4>. QED  BY <1>1, <4>1, <4>2
    <3>2. CASE b = a /\ a \in Triggers
      BY <2>1, <3>2 DEF Task
    <3>3. CASE b = a /\ a \notin Triggers
      <4>1. Task(a)' \in Triggers /\ stage[Task(a)'] # "idle"
        BY <3>3 DEF Arrives, BootInv, Started
      <4>. QED  BY <1>1, <3>3, <4>1 DEF Actors
    <3>. QED  BY <3>1, <3>2, <3>3
  <2>2. \A t \in Triggers : stage'[t] = "idle" => disk'[t].status = "Absent"
    BY <1>1 DEF Arrives, BootInv, Started, Actors
  <2>. QED  BY <2>1, <2>2 DEF Started
<1>3. WorkingRuns'
  BY DEF Arrives, BootInv, WorkingRuns
<1>4. BootWindow' /\ InterruptedAnnounced'
  <2>1. CASE up
    BY <2>1 DEF Arrives, BootInv, BootWindow, InterruptedAnnounced
  <2>2. CASE ~up
    <3>1. a \in Triggers /\ \A k \in Retries : k # a /\ k \in Actors
      BY <2>2, MakerAssumption DEF Arrives, Actors
    <3>2. \A t \in cut : t \in Actors /\ (itemOf[t] \in Items => t # a)
      BY <2>2 DEF Arrives, BootInv, BootWindow, TypeOK, Actors
    <3>. QED  BY <2>2, <3>1, <3>2 DEF Arrives, BootInv, BootWindow, InterruptedAnnounced
  <2>. QED  BY <2>1, <2>2
<1>. QED  BY <1>2, <1>3, <1>4 DEF BootInv

LEMMA CrashKeepsBoot ==
    ASSUME TypeOK, FileIsCurrent, BootInv, Crash
    PROVE  BootInv'
<1>1. \A b \in Actors : (stage'[b] = "idle" <=> stage[b] = "idle") /\ stage'[b] \in {"idle", "over"}
  BY DEF Crash
<1>2. ASSUME NEW t \in cut', itemOf[t] \in Items
        PROVE t \in Triggers /\ stage'[t] = "over" /\ disk[t].status = "Running"
  <2>1. PICK a \in Actors : stage[a] = "working" /\ Task(a) = t
    BY <1>2 DEF Crash
  <2>2. t \in Triggers /\ t \in Actors /\ Item(a) \in Items
    BY <1>2, <2>1, TaskTyped DEF Item, Actors
  <2>3. disk[t].status = "Running"
    BY <2>1, <2>2 DEF FileIsCurrent, BootInv, WorkingRuns
  <2>4. stage[t] # "idle"
    BY <2>2, <2>3 DEF BootInv, Started
  <2>. QED  BY <2>2, <2>3, <2>4 DEF Crash
<1>3. Started'
  <2>1. \A b \in Actors : Task(b)' = Task(b) /\ (stage[b] # "idle" => Task(b) \in Actors)
    BY TaskTyped DEF Crash, Task, rigid, Actors
  <2>. QED  BY <1>1, <2>1 DEF Crash, BootInv, Started, Actors
<1>4. WorkingRuns'
  BY <1>1 DEF WorkingRuns
<1>5. BootWindow' /\ InterruptedAnnounced'
  BY <1>1, <1>2 DEF Crash, rigid, BootWindow, InterruptedAnnounced, Actors
<1>. QED  BY <1>3, <1>4, <1>5 DEF BootInv

(* After a restart every Forgejo task that was cut off in its phases is    *)
(* announced for /retry.                                                   *)
THEOREM Announced == Spec => []InterruptedAnnounced
<1>1. Init => BootInv
  BY
     DEF Init, BootInv, Started, WorkingRuns, BootWindow, InterruptedAnnounced, Blank,
         Actors
<1>2. TypeOK /\ FileIsCurrent /\ BootInv /\ [Next]_vars => BootInv'
  <2>. SUFFICES ASSUME TypeOK, FileIsCurrent, BootInv, [Next]_vars PROVE BootInv'
    OBVIOUS
  <2>1. CASE Recover
    BY <2>1
       DEF Recover, rigid, TypeOK, BootInv, Started, Task, WorkingRuns, BootWindow,
           InterruptedAnnounced
  <2>2. CASE UNCHANGED vars
    BY <2>2
       DEF vars, rigid, life, BootInv, Started, Task, WorkingRuns, BootWindow,
           InterruptedAnnounced
  <2>. QED  BY <2>1, <2>2, StepKinds, AloneKeepsBoot, ArrivalKeepsBoot, CrashKeepsBoot
          DEF BootInv
<1>. QED  BY <1>1, <1>2, TypeCorrect, FilesCurrent, PTL DEF Spec, BootInv
-----------------------------------------------------------------------------
(* Whoever is at work stays at work, and nothing new is claimed. *)
LEMMA HoldersStay ==
    ASSUME ClaimHeldOrLeaked, active' \subseteq active, leaked' = leaked,
           \A a \in Actors : stage[a] \in Holding => stage'[a] \in Holding /\ Item(a)' = Item(a)
    PROVE  ClaimHeldOrLeaked'
BY DEF ClaimHeldOrLeaked, Holds

LEMMA ClaimerHolds ==
    ASSUME TypeOK, ClaimHeldOrLeaked, UNCHANGED <<itemOf, target, leaked>>,
           NEW a \in Actors, stage[a] \notin Holding,
           NEW to \in Holding, stage' = [stage EXCEPT ![a] = to], ClaimWork(Item(a))
    PROVE  ClaimHeldOrLeaked'
<1>1. \A b \in Actors : Item(b)' = Item(b) /\ (b # a => stage'[b] = stage[b])
  BY ItemKept DEF TypeOK
<1>2. stage'[a] \in Holding
  BY DEF TypeOK
<1>3. active' \subseteq active \cup {Item(a)}
  BY DEF ClaimWork
<1>. QED  BY <1>1, <1>2, <1>3 DEF ClaimHeldOrLeaked, Holds

(* Whoever ends takes its claim along; the others' have other holders.     *)
LEMMA EnderReleases ==
    ASSUME TypeOK, ClaimHeldOrLeaked, UNCHANGED <<itemOf, target, leaked>>,
        NEW a \in Actors, End(a)
    PROVE  ClaimHeldOrLeaked'
<1>1. \A b \in Actors : Item(b)' = Item(b) /\ (b # a => stage'[b] = stage[b])
  BY ItemKept DEF End, TypeOK
<1>2. active' = active \ {Item(a)}
  BY DEF End, ReleaseWork
<1>. QED  BY <1>1, <1>2 DEF ClaimHeldOrLeaked, Holds

(* Whoever leaves a claim behind is seen to.                               *)
LEMMA LeaverLeaks ==
    ASSUME TypeOK, ClaimHeldOrLeaked, UNCHANGED <<itemOf, target>>,
        NEW a \in Actors, LeaveClaim(a)
    PROVE  ClaimHeldOrLeaked'
<1>1. \A b \in Actors : Item(b)' = Item(b) /\ (b # a => stage'[b] = stage[b])
  BY ItemKept DEF LeaveClaim, Leave, TypeOK
<1>2. active' = active /\ leaked' = leaked \cup ({Item(a)} \ {NoItem}) /\ NoItem \notin active
  BY MakerAssumption DEF LeaveClaim, Leave, TypeOK
<1>. QED  BY <1>1, <1>2 DEF ClaimHeldOrLeaked, Holds

LEMMA HoldersStep ==
    ASSUME TypeOK, ClaimHeldOrLeaked, [Next]_vars
    PROVE  ClaimHeldOrLeaked'
<1>. USE DEF rigid, life
<1>1. ASSUME NEW t \in Triggers, ReceivePlain(t) PROVE ClaimHeldOrLeaked'
  <2>1. UNCHANGED <<itemOf, target, active, leaked>> /\ \A a \in Actors : stage[a] \in Holding => stage'[a] = stage[a]
    BY <1>1 DEF ReceivePlain, Move, TypeOK, Holding, Executing
  <2>. QED  BY <2>1, ItemKept, HoldersStay
<1>2. ASSUME NEW t \in Triggers,
             ReceiveRequest(t) \/ ReceiveEvent(t) \/ CheckDelivered(t) \/ Ignore(t)
                \/ SavePlan(t) \/ EnqueueDirectly(t) \/ AskApproval(t) \/ Approve(t)
      PROVE  ClaimHeldOrLeaked'
  <2>1. UNCHANGED <<itemOf, target, active, leaked>>
    BY <1>2 DEF ReceiveRequest, ReceiveEvent, CheckDelivered, Ignore, SavePlan,
                EnqueueDirectly, AskApproval, Approve
  <2>2. \A a \in Actors : stage[a] \in Holding => stage'[a] \in Holding
    BY <1>2
       DEF TypeOK, Move, ReceiveRequest, ReceiveEvent, CheckDelivered, Ignore, SavePlan,
                EnqueueDirectly, AskApproval, Approve, Holding, Executing
  <2>. QED  BY <2>1, <2>2, ItemKept, HoldersStay
<1>3. ASSUME NEW t \in Triggers, Claim(t) PROVE ClaimHeldOrLeaked'
  <2>1. t \in Actors /\ Item(t) = itemOf[t] /\ "planning" \in Holding /\ stage[t] \notin Holding
    BY <1>3 DEF Actors, Item, Task, Holding, Executing, Claim, Move
  <2>. QED  BY <1>3, <2>1, ClaimerHolds DEF Claim, Move
<1>4. ASSUME NEW a \in Actors, \/ a \in Triggers /\ (PlanFails(a) \/ Deny(a))
                               \/ Close(a) \/ BreakOff(a)
      PROVE  ClaimHeldOrLeaked'
  BY <1>4, EnderReleases DEF PlanFails, Deny, Close, BreakOff
<1>5. ASSUME NEW k \in Retries, NEW t \in Triggers, Load(k, t) PROVE ClaimHeldOrLeaked'
  <2>1. \A a \in Actors : stage[a] \in Holding => a # k /\ stage'[a] = stage[a]
    BY <1>5 DEF Load, Move, TypeOK, Holding, Executing, Actors
  <2>2. \A a \in Actors : a # k => Item(a)' = Item(a)
    BY <1>5 DEF Load, Item, Task, TypeOK, Actors
  <2>. QED  BY <1>5, <2>1, <2>2, HoldersStay DEF Load
<1>6. ASSUME NEW k \in Retries, RetryClaim(k) PROVE ClaimHeldOrLeaked'
  <2>1. k \in Actors /\ "resuming" \in Holding /\ stage[k] \notin Holding
    BY <1>6 DEF Actors, Holding, Executing, RetryClaim, Move
  <2>. QED  BY <1>6, <2>1, ClaimerHolds DEF RetryClaim, Move
<1>7. ASSUME NEW a \in Actors,
             \/ a \in Retries /\ (RetryRefused(a) \/ Resume(a))
             \/ Dequeue(a) \/ BeginPhases(a) \/ PrepareFails(a) \/ RunPhase(a) \/ Finish(a)
      PROVE  ClaimHeldOrLeaked'
  <2>1. UNCHANGED <<active, leaked, itemOf, target>>
    BY <1>7
       DEF RetryRefused, Resume, Dequeue, BeginPhases, PrepareFails, RunPhase, Finish,
           Leave
  <2>2. \A b \in Actors : stage[b] \in Holding => stage'[b] \in Holding
    BY <1>7 DEF TypeOK, Move, RetryRefused, Resume, Dequeue, BeginPhases, PrepareFails,
                RunPhase, Finish, Leave, Holding, Executing
  <2>. QED  BY <2>1, <2>2, ItemKept, HoldersStay
<1>8. CASE Crash
  BY <1>8 DEF Crash, ClaimHeldOrLeaked
<1>9. CASE Recover \/ UNCHANGED vars
  <2>1. UNCHANGED <<stage, active, leaked, itemOf, target>>
    BY <1>9 DEF Recover, vars
  <2>. QED  BY <2>1, ItemKept, HoldersStay
<1>10. ASSUME NEW a \in Actors, DropBody(a) \/ (a \in Retries /\ ResumeFails(a))
         PROVE ClaimHeldOrLeaked'
  BY <1>10, LeaverLeaks DEF DropBody, ResumeFails
<1>. QED
  BY <1>1, <1>2, <1>3, <1>4, <1>5, <1>6, <1>7, <1>8, <1>9, <1>10
     DEF Next, Handle, HandleRetry, Execute, Actors

(* The queue's timeout (or a panic) and a resume that cannot be saved are  *)
(* all that leaves a claim behind: after every other end of an actor, over *)
(* crashes too, an item counts as active only while somebody works on it.  *)
THEOREM ClaimsHeld == Spec => []ClaimHeldOrLeaked
<1>1. Init => ClaimHeldOrLeaked
  BY DEF Init, ClaimHeldOrLeaked
<1>2. IInv /\ ClaimHeldOrLeaked /\ [Next]_vars => ClaimHeldOrLeaked'
  BY HoldersStep DEF IInv
<1>. QED  BY <1>1, <1>2, Invariance, PTL DEF Spec
=============================================================================
