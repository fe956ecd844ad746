------------------------------- MODULE Maker -------------------------------
(***************************************************************************)
(* The orchestrator of crates/oreia-seca/src/maker: messages and webhook   *)
(* events are handled concurrently, each by a Tokio task of its own; a     *)
(* handler plans a task, waits for approval when its source asks for it    *)
(* and hands the task to the queue, where it is executed.  What they share *)
(* is the set of claimed Forgejo items (active_work, in memory) and the    *)
(* task files (TaskStore, on disk).                                        *)
(*                                                                         *)
(* An actor is one message and everything it sets off: first its handler,  *)
(* then the execution the handler enqueued, which owns a copy of the task. *)
(* A trigger starts a task of its own; a retry is one /retry command, for  *)
(* the task of some trigger.  The steps of an actor are cut where the code *)
(* awaits something that another actor, the queue's timeout or a crash     *)
(* could come between.                                                     *)
(***************************************************************************)
EXTENDS Integers, FiniteSets

CONSTANTS Triggers,     (* messages that start a task, and that task's id    *)
          Retries,      (* /retry commands                                   *)
          Items,        (* the keys of Forgejo items (owner/repo#number)     *)
          NoItem,       (* "item" of a message that is not about one         *)
          NoTask,
          PhaseCount,   (* phases in a plan                                  *)
          Concurrency,  (* permits of the queue                              *)
          HasTimeout,   (* whether the queue has a timeout per task          *)
          DiskFaults,   (* whether saving a task may fail                    *)
          MaxCrashes    (* bound: how often the process dies                 *)

ASSUME MakerAssumption ==
    /\ NoItem \notin Items /\ NoTask \notin Triggers
    /\ Triggers \cap Retries = {}
    /\ PhaseCount \in Nat /\ Concurrency \in Nat /\ MaxCrashes \in Nat
    /\ HasTimeout \in BOOLEAN /\ DiskFaults \in BOOLEAN

VARIABLES
    stage,      (* how far each actor is                                     *)
    itemOf,     (* the item each trigger is about                            *)
    gated,      (* triggers whose source is listed in [approval].sources     *)
    target,     (* the task each retry names                                 *)
    copy,       (* the task as each actor holds it in memory                 *)
    disk,       (* the task files                                            *)
    active,     (* active_work                                               *)
    approved,   (* tasks somebody approved                                   *)
    up,         (* the main loop runs; false while booting                   *)
    announced,  (* tasks the boot listed as interrupted                      *)
    cut,        (* tasks whose phases were being run when the process died   *)
    leaked,     (* items whose claim was left behind (history)               *)
    crashes

rigid == <<itemOf, gated>>
life == <<up, announced, cut, leaked, crashes>>
vars == <<stage, rigid, target, copy, disk, active, approved, life>>

Actors == Triggers \cup Retries
Phases == 1..PhaseCount

PhaseStatus == {"Pending", "Done", "Failed"}
TaskStatus == {"Absent", "Planned", "AwaitingApproval", "Running", "Done",
               "DoneWithErrors", "Rejected", "Failed"}
Tasks == [status : TaskStatus, phases : [Phases -> PhaseStatus]]
Blank == [status |-> "Absent", phases |-> [p \in Phases |-> "Pending"]]

Executing == {"preparing", "working", "closing"}
Holding == {"planning", "planned", "awaiting", "resuming", "queued"} \cup Executing
Stages == {"idle", "checking", "announcing", "loaded", "over"} \cup Holding

Task(a) == IF a \in Triggers THEN a ELSE target[a]
Item(a) == IF Task(a) \in Triggers THEN itemOf[Task(a)] ELSE NoItem

(* Actor a is at work on item i. *)
Holds(a, i) == stage[a] \in Holding /\ Item(a) = i

Init ==
    /\ stage = [a \in Actors |-> "idle"]
    /\ itemOf \in [Triggers -> Items \cup {NoItem}]
    /\ gated \in SUBSET Triggers
    /\ \A t, s \in Triggers : {itemOf[t], itemOf[s]} \subseteq Items   \* one source: Forgejo
                                  => (t \in gated <=> s \in gated)
    /\ target = [k \in Retries |-> NoTask]
    /\ copy = [a \in Actors |-> Blank]
    /\ disk = [t \in Triggers |-> Blank]
    /\ active = {} /\ approved = {}
    /\ up = TRUE /\ announced = {} /\ cut = {} /\ leaked = {} /\ crashes = 0

Move(a, from, to) ==
    /\ stage[a] = from
    /\ stage' = [stage EXCEPT ![a] = to]

(* TaskStore::save: a temporary file and a rename, all or nothing. *)
Save(t, task) == disk' = [disk EXCEPT ![t] = task]

Keep(a, task) == copy' = [copy EXCEPT ![a] = task]

(* claim_work: insert() says whether the key was new.  A message without   *)
(* an item claims nothing.                                                 *)
ClaimWork(i) == i \notin active /\ active' = active \cup ({i} \ {NoItem})

(* release_work: remove(), whoever inserted the key. *)
ReleaseWork(i) == active' = active \ {i}

(* The actor is through, and its claim goes. *)
End(a) ==
    /\ stage' = [stage EXCEPT ![a] = "over"]
    /\ ReleaseWork(Item(a))
    /\ Keep(a, Blank)

(* The actor is through, and what it had claimed stays as it is. *)
Leave(a) ==
    /\ stage' = [stage EXCEPT ![a] = "over"]
    /\ Keep(a, Blank)
    /\ UNCHANGED active

LeaveClaim(a) ==
    /\ Leave(a)
    /\ leaked' = leaked \cup ({Item(a)} \ {NoItem})
    /\ UNCHANGED <<up, announced, cut, crashes>>

Delivered(i) ==
    \E t \in Triggers : itemOf[t] = i /\ disk[t].status \in {"Done", "DoneWithErrors"}

IsNext(task, p) ==
    task.phases[p] = "Pending" /\ \A q \in 1..(p - 1) : task.phases[q] # "Pending"

HasPending(task) == \E p \in Phases : task.phases[p] = "Pending"

Failures(task) == {p \in Phases : task.phases[p] = "Failed"}

FinalStatus(task) == IF Failures(task) # {} THEN "DoneWithErrors" ELSE "Done"

(* /retry: failed phases are to be run again, the status is Running. *)
Reopened(task) ==
    [status |-> "Running",
     phases |-> [p \in Phases |-> IF task.phases[p] = "Failed" THEN "Pending" ELSE task.phases[p]]]

WithStatus(task, status) == [task EXCEPT !.status = status]
-----------------------------------------------------------------------------
(* Slips: an action as a plausible mistake would leave it.                 *)
LoadWithoutTarget(k, t) ==
    /\ up /\ disk[t].status # "Absent"
    /\ Move(k, "idle", "loaded")
    /\ Keep(k, disk[t])
    /\ UNCHANGED <<rigid, target, disk, active, approved, life>>

RetryWithoutClaim(k) ==
    /\ Move(k, "loaded", "resuming")
    /\ Keep(k, Reopened(copy[k]))
    /\ UNCHANGED <<rigid, target, disk, active, approved, life>>

BeginUnsaved(a) ==
    /\ Move(a, "preparing", "working")
    /\ Keep(a, WithStatus(copy[a], "Running"))
    /\ UNCHANGED <<rigid, target, disk, active, approved, life>>

DenyKeepingClaim(t) ==
    /\ Move(t, "awaiting", "over")
    /\ Save(t, WithStatus(copy[t], "Rejected"))
    /\ Keep(t, Blank)
    /\ UNCHANGED <<rigid, target, active, approved, life>>

AnnounceAwaiting ==
    /\ ~up /\ up' = TRUE
    /\ announced' = {t \in Triggers : disk[t].status = "AwaitingApproval"}
    /\ UNCHANGED <<stage, rigid, target, copy, disk, active, approved, cut, leaked, crashes>>

DropWhileWorking(a) ==
    /\ HasTimeout /\ stage[a] = "working"
    /\ LeaveClaim(a)
    /\ UNCHANGED <<rigid, target, disk, approved>>
-----------------------------------------------------------------------------
(* Handlers.                                                               *)

(* A chat message judged complex, /feature, REST or cron: no item.  They   *)
(* come through the main loop.                                             *)
ReceivePlain(t) ==
    /\ up /\ itemOf[t] = NoItem
    /\ Move(t, "idle", "planning")
    /\ UNCHANGED <<rigid, target, copy, disk, active, approved, life>>

(* A mention in a comment, /changes or a review request: straight to       *)
(* dispatch_work.                                                          *)
ReceiveRequest(t) ==
    /\ itemOf[t] \in Items
    /\ Move(t, "idle", "announcing")
    /\ UNCHANGED <<rigid, target, copy, disk, active, approved, life>>

(* An issue or pull request event: dropped if the item is active...        *)
ReceiveEvent(t) ==
    /\ itemOf[t] \in Items
    /\ Move(t, "idle", IF itemOf[t] \in active THEN "over" ELSE "checking")
    /\ UNCHANGED <<rigid, target, copy, disk, active, approved, life>>

(* ...or, once the files are read, if it has been delivered.  An issue     *)
(* that was just opened is not looked up.                                  *)
CheckDelivered(t) ==
    /\ \/ Move(t, "checking", "announcing")
       \/ Delivered(itemOf[t]) /\ Move(t, "checking", "over")
    /\ UNCHANGED <<rigid, target, copy, disk, active, approved, life>>

(* dispatch_work, after the broadcast: claim the item or drop the request. *)
Claim(t) ==
    /\ Move(t, "announcing", "planning")
    /\ ClaimWork(itemOf[t])
    /\ UNCHANGED <<rigid, target, copy, disk, approved, life>>

Ignore(t) ==
    /\ itemOf[t] \in active
    /\ Move(t, "announcing", "over")
    /\ UNCHANGED <<rigid, target, copy, disk, active, approved, life>>

(* The planner gives up, or the new task cannot be saved. *)
PlanFails(t) ==
    /\ stage[t] = "planning"
    /\ End(t)
    /\ UNCHANGED <<rigid, target, disk, approved, life>>

SavePlan(t) ==
    /\ Move(t, "planning", "planned")
    /\ Save(t, WithStatus(Blank, "Planned"))
    /\ Keep(t, WithStatus(Blank, "Planned"))
    /\ UNCHANGED <<rigid, target, active, approved, life>>

(* Nobody has to be asked: enqueue. *)
EnqueueDirectly(t) ==
    /\ t \notin gated
    /\ Move(t, "planned", "queued")
    /\ UNCHANGED <<rigid, target, copy, disk, active, approved, life>>

AskApproval(t) ==
    /\ t \in gated
    /\ Move(t, "planned", "awaiting")
    /\ Save(t, WithStatus(copy[t], "AwaitingApproval"))
    /\ Keep(t, WithStatus(copy[t], "AwaitingApproval"))
    /\ UNCHANGED <<rigid, target, active, approved, life>>

Approve(t) ==
    /\ Move(t, "awaiting", "queued")
    /\ approved' = approved \cup {t}
    /\ UNCHANGED <<rigid, target, copy, disk, active, life>>

(* Rejected or expired. *)
Deny(t) ==
    /\ stage[t] = "awaiting"
    /\ Save(t, WithStatus(copy[t], "Rejected"))
    /\ End(t)
    /\ UNCHANGED <<rigid, target, approved, life>>

(* /retry reads the file first... *)
Load(k, t) ==
    /\ up /\ disk[t].status # "Absent"
    /\ Move(k, "idle", "loaded")
    /\ target' = [target EXCEPT ![k] = t]
    /\ Keep(k, disk[t])
    /\ UNCHANGED <<rigid, disk, active, approved, life>>

(* ...then claims, and goes on with what it has read, whatever its status. *)
RetryClaim(k) ==
    /\ Move(k, "loaded", "resuming")
    /\ ClaimWork(Item(k))
    /\ Keep(k, Reopened(copy[k]))
    /\ UNCHANGED <<rigid, target, disk, approved, life>>

RetryRefused(k) ==
    /\ stage[k] = "loaded" /\ Item(k) \in active
    /\ Leave(k)
    /\ UNCHANGED <<rigid, target, disk, approved, life>>

Resume(k) ==
    /\ Move(k, "resuming", "queued")
    /\ Save(target[k], copy[k])
    /\ UNCHANGED <<rigid, target, copy, active, approved, life>>

(* The save fails: the command ends, and nobody releases the claim. *)
ResumeFails(k) ==
    /\ DiskFaults /\ stage[k] = "resuming"
    /\ LeaveClaim(k)
    /\ UNCHANGED <<rigid, target, disk, approved>>
-----------------------------------------------------------------------------
(* Executions.                                                             *)

(* The queue starts the body (module TaskQueue tells how). *)
Dequeue(a) ==
    /\ Cardinality({b \in Actors : stage[b] \in Executing}) < Concurrency
    /\ Move(a, "queued", "preparing")
    /\ UNCHANGED <<rigid, target, copy, disk, active, approved, life>>

(* The repository is cloned, or a directory made. *)
BeginPhases(a) ==
    /\ Move(a, "preparing", "working")
    /\ Save(Task(a), WithStatus(copy[a], "Running"))
    /\ Keep(a, WithStatus(copy[a], "Running"))
    /\ UNCHANGED <<rigid, target, active, approved, life>>

PrepareFails(a) ==
    /\ Item(a) \in Items
    /\ Move(a, "preparing", "closing")
    /\ Save(Task(a), WithStatus(copy[a], "Failed"))
    /\ Keep(a, WithStatus(copy[a], "Failed"))
    /\ UNCHANGED <<rigid, target, active, approved, life>>

(* One turn of the loop over the phases: run the next pending one, save. *)
RunPhase(a) ==
    /\ stage[a] = "working"
    /\ \E p \in Phases, result \in {"Done", "Failed"} :
          /\ IsNext(copy[a], p)
          /\ Keep(a, [copy[a] EXCEPT !.phases[p] = result])
          /\ Save(Task(a), [copy[a] EXCEPT !.phases[p] = result])
    /\ UNCHANGED <<stage, rigid, target, active, approved, life>>

(* After the loop: publish, whatever comes of it, and save. *)
Finish(a) ==
    /\ ~HasPending(copy[a])
    /\ Move(a, "working", "closing")
    /\ Keep(a, WithStatus(copy[a], FinalStatus(copy[a])))
    /\ Save(Task(a), WithStatus(copy[a], FinalStatus(copy[a])))
    /\ UNCHANGED <<rigid, target, active, approved, life>>

(* The last reply is sent: execute() releases the claim and returns. *)
Close(a) ==
    /\ stage[a] = "closing"
    /\ End(a)
    /\ UNCHANGED <<rigid, target, disk, approved, life>>

(* A save or the directory fails and `?` leaves the handler or the body. *)
BreakOff(a) ==
    /\ DiskFaults
    /\ \/ stage[a] \in {"awaiting", "preparing", "working"}
       \/ stage[a] = "planned" /\ a \in gated
    /\ End(a)
    /\ UNCHANGED <<rigid, target, disk, approved, life>>

(* The queue's timeout drops the body at an await, and with it the call of *)
(* release_work that was to come.  A panic has the same effect.            *)
DropBody(a) ==
    /\ HasTimeout /\ stage[a] \in Executing
    /\ LeaveClaim(a)
    /\ UNCHANGED <<rigid, target, disk, approved>>
-----------------------------------------------------------------------------
(* The process dies or is shut down, and starts again: everything in       *)
(* memory is gone.                                                         *)
Crash ==
    /\ crashes < MaxCrashes
    /\ crashes' = crashes + 1
    /\ cut' = {Task(a) : a \in {b \in Actors : stage[b] = "working"}}
    /\ stage' = [a \in Actors |-> IF stage[a] = "idle" THEN "idle" ELSE "over"]
    /\ copy' = [a \in Actors |-> Blank]
    /\ active' = {} /\ leaked' = {} /\ up' = FALSE /\ announced' = {}
    /\ UNCHANGED <<rigid, target, disk, approved>>

(* recover_interrupted(), then the main loop.  Webhooks are served before. *)
Recover ==
    /\ ~up /\ up' = TRUE
    /\ announced' = {t \in Triggers : disk[t].status = "Running"}
    /\ UNCHANGED <<stage, rigid, target, copy, disk, active, approved, cut, leaked, crashes>>
-----------------------------------------------------------------------------
Handle(t) ==
    \/ CheckDelivered(t) \/ Claim(t) \/ Ignore(t)
    \/ PlanFails(t) \/ SavePlan(t) \/ EnqueueDirectly(t)
    \/ AskApproval(t) \/ Approve(t) \/ Deny(t)

HandleRetry(k) == RetryClaim(k) \/ RetryRefused(k) \/ Resume(k) \/ ResumeFails(k)

Execute(a) ==
    \/ BeginPhases(a) \/ PrepareFails(a) \/ RunPhase(a) \/ Finish(a) \/ Close(a)
    \/ BreakOff(a)

Next ==
    \/ \E t \in Triggers : ReceivePlain(t) \/ ReceiveRequest(t) \/ ReceiveEvent(t) \/ Handle(t)
    \/ \E k \in Retries : (\E t \in Triggers : Load(k, t)) \/ HandleRetry(k)
    \/ \E a \in Actors : Dequeue(a) \/ Execute(a) \/ DropBody(a)
    \/ Crash \/ Recover

Spec == Init /\ [][Next]_vars

(* Handlers are polled until they are over: what they await, replies, the  *)
(* planner and approvals, has limits of its own.  A body also awaits       *)
(* Forgejo, whose client has none (oreia-forgejo/src/lib.rs:132), so that  *)
(* a body returns is not assumed: only the queue's timeout is sure to end  *)
(* it, where there is one.  The queue is first come, first served.  No     *)
(* message has to arrive.                                                  *)
Fairness ==
    /\ \A t \in Triggers : WF_vars(Handle(t))
    /\ \A k \in Retries : WF_vars(HandleRetry(k))
    /\ \A a \in Actors : SF_vars(Dequeue(a)) /\ WF_vars(DropBody(a))
    /\ WF_vars(Recover)

FairSpec == Spec /\ Fairness
-----------------------------------------------------------------------------
(* Every variable holds a value of its kind, and a retry that has read its *)
(* file knows its task.                                                    *)
TypeOK ==
    /\ stage \in [Actors -> Stages]
    /\ itemOf \in [Triggers -> Items \cup {NoItem}]
    /\ gated \subseteq Triggers
    /\ target \in [Retries -> Triggers \cup {NoTask}]
    /\ \A k \in Retries : stage[k] # "idle" => target[k] \in Triggers
    /\ copy \in [Actors -> Tasks]
    /\ disk \in [Triggers -> Tasks]
    /\ active \subseteq Items
    /\ approved \subseteq Triggers /\ announced \subseteq Triggers /\ cut \subseteq Triggers
    /\ leaked \subseteq Items
    /\ up \in BOOLEAN /\ crashes \in 0..MaxCrashes

(* No two agents work on one issue at a time, whichever events, comments   *)
(* and retries race for it, and whatever times out, fails or crashes.      *)
ExclusiveWork ==
    \A i \in Items : \A a, b \in Actors : Holds(a, i) /\ Holds(b, i) => a = b

(* While phases of a Forgejo task are run, its file is exactly what the    *)
(* execution holds in memory: no other actor writes over its progress.     *)
FileIsCurrent ==
    \A a \in Actors : stage[a] = "working" /\ Item(a) \in Items => disk[Task(a)] = copy[a]

(* After a restart, every Forgejo task whose phases were being run when    *)
(* the process died is among those announced for /retry.                   *)
InterruptedAnnounced ==
    up => \A t \in cut : itemOf[t] \in Items => t \in announced

(* mod.rs:40, "Itens do Forgejo em andamento": an item counts as active    *)
(* only while somebody works on it.  Not so in the code: the queue's       *)
(* timeout drops the release.                                              *)
ClaimHasHolder == \A i \in active : \E a \in Actors : Holds(a, i)

(* Only two things leave a claim behind: the queue's timeout (or a panic)  *)
(* and a failed save of /retry.  After everything else that ends an actor, *)
(* denial, failed plan, refused retry, failure or crash, an item nobody    *)
(* works on can be claimed again.                                          *)
ClaimHeldOrLeaked == \A i \in active : i \in leaked \/ \E a \in Actors : Holds(a, i)

(* Every request taken up is over in the end: ignored, rejected, failed,   *)
(* executed or dropped by the queue's timeout, though bodies may hang and  *)
(* claims be left behind.                                                  *)
RequestEnds ==
    \A a \in Actors :
        stage[a] \in {"checking", "announcing", "loaded", "planning"} ~> stage[a] = "over"

(* config.rs:101, "Fontes cujas tarefas esperam `/approve` antes de        *)
(* executar": a task from a gated source is executed only when approved.   *)
(* Not so in the code: /retry looks at no status (RetryClaim, Resume).     *)
ApprovedBeforeRun ==
    \A a \in Actors : stage[a] \in Executing /\ Task(a) \in gated => Task(a) \in approved

(* The claims as module WorkClaim describes them. *)
workersOf == [i \in Items |-> {a \in Actors : Holds(a, i)}]

Work == INSTANCE WorkClaim WITH Workers <- Actors, workers <- workersOf

(* active_work keeps the promise of WorkClaim: an actor comes to an item   *)
(* only when no other is at work on it, leaks, retries and crashes         *)
(* included.                                                               *)
ImplementsWorkClaim == Work!Spec
=============================================================================
