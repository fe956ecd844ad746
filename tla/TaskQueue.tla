------------------------------ MODULE TaskQueue ------------------------------
(***************************************************************************)
(* The task queue of crates/oreia-core/src/queue.rs: every spawned future  *)
(* waits for one of a fixed number of permits, runs under an optional      *)
(* timeout, and is counted in four atomic counters.  Every atomic load,    *)
(* fetch_add and fetch_sub is a step of its own, because the tasks run on  *)
(* several threads and status() reads the counters one after the other.    *)
(*                                                                         *)
(* The semaphore is Tokio's: permits go to the waiters in the order in     *)
(* which they first asked.                                                 *)
(***************************************************************************)
EXTENDS Integers, Sequences, FiniteSets

CONSTANTS Jobs,         (* the futures that may be handed to spawn            *)
          Concurrency,  (* `queue.concurrency`, as configured: may be 0       *)
          HasTimeout    (* whether a timeout per task is configured           *)

ASSUME QueueAssumption ==
    /\ IsFiniteSet(Jobs)
    /\ Concurrency \in Nat
    /\ HasTimeout \in BOOLEAN

(* new() never builds a queue without a permit: concurrency.max(1). *)
Permits == IF Concurrency = 0 THEN 1 ELSE Concurrency

VARIABLES
    pc,         (* where each spawned future is                              *)
    result,     (* how its body ended                                        *)
    waiters,    (* the semaphore's queue                                     *)
    permits,    (* permits the semaphore can still hand out                  *)
    running, queued, completed, failed,   (* the atomic counters             *)
    drain,      (* the shutdown's drain(): "off", "poll", "read", a verdict  *)
    seenIdle,   (* its load of `running`, used after the load of `queued`    *)
    owed        (* the tasks under way when drain() was called               *)

counters == <<running, queued, completed, failed>>
drainVars == <<drain, seenIdle, owed>>
vars == <<pc, result, waiters, permits, counters, drainVars>>

(* "new": not spawned.  "spawned": counted as queued, not polled yet.      *)
(* "waiting": in the semaphore's queue.  "admitted": has a permit.         *)
(* "dequeued": no longer counted as queued.  "running": the body runs.     *)
(* "ended": the body returned, or was dropped by the timeout.  "settled":  *)
(* no longer counted as running.  "counted": counted as completed or       *)
(* failed.  "finished": the permit is back.                                *)
Holding == {"admitted", "dequeued", "running", "ended", "settled", "counted"}
PCs == {"new", "spawned", "waiting", "finished"} \cup Holding

(* The stages each counter stands for. *)
QueuedStages == {"spawned", "waiting", "admitted"}
RunningStages == {"running", "ended"}
CountedStages == {"counted", "finished"}

Successes == {"ok"}
Failures == {"error", "timeout"}
Panics == {"panic"}
Results == {"none"} \cup Successes \cup Failures \cup Panics

At(S) == {j \in Jobs : pc[j] \in S}

Init ==
    /\ pc = [j \in Jobs |-> "new"]
    /\ result = [j \in Jobs |-> "none"]
    /\ waiters = <<>>
    /\ permits = Permits
    /\ running = 0 /\ queued = 0 /\ completed = 0 /\ failed = 0
    /\ drain = "off" /\ seenIdle = FALSE /\ owed = {}

Move(j, from, to) ==
    /\ pc[j] = from
    /\ pc' = [pc EXCEPT ![j] = to]
-----------------------------------------------------------------------------
(* Slips: an action as a plausible mistake would leave it.  No behaviour of *)
(* Spec takes one; the properties below tell each from the real action.     *)
SpawnUncounted(j) ==
    /\ Move(j, "new", "spawned")
    /\ UNCHANGED <<result, waiters, permits, counters, drainVars>>

(* `let _ = sem.acquire_owned().await`: the permit is dropped at once. *)
DequeueDroppingPermit(j) ==
    /\ Move(j, "admitted", "dequeued")
    /\ queued' = queued - 1
    /\ permits' = permits + 1
    /\ UNCHANGED <<result, waiters, running, completed, failed, drainVars>>

PanicKeepsPermit(j) ==
    /\ Move(j, "running", "finished")
    /\ result' = [result EXCEPT ![j] = "panic"]
    /\ UNCHANGED <<waiters, permits, counters, drainVars>>

CountTimeoutAsNothing(j) ==
    /\ Move(j, "settled", "counted")
    /\ completed' = IF result[j] = "ok" THEN completed + 1 ELSE completed
    /\ failed' = IF result[j] = "error" THEN failed + 1 ELSE failed
    /\ UNCHANGED <<result, waiters, permits, running, queued, drainVars>>

-----------------------------------------------------------------------------
(* spawn(): counted as queued before the future exists for the runtime. *)
Spawn(j) ==
    /\ Move(j, "new", "spawned")
    /\ queued' = queued + 1
    /\ UNCHANGED <<result, waiters, permits, running, completed, failed, drainVars>>

(* The first poll of acquire_owned(). *)
Enqueue(j) ==
    /\ Move(j, "spawned", "waiting")
    /\ waiters' = Append(waiters, j)
    /\ UNCHANGED <<result, permits, counters, drainVars>>

(* The semaphore hands a permit to the task that has waited longest. *)
Grant(j) ==
    /\ permits > 0
    /\ waiters # <<>> /\ Head(waiters) = j
    /\ Move(j, "waiting", "admitted")
    /\ waiters' = Tail(waiters)
    /\ permits' = permits - 1
    /\ UNCHANGED <<result, counters, drainVars>>

Dequeue(j) ==
    /\ Move(j, "admitted", "dequeued")
    /\ queued' = queued - 1
    /\ UNCHANGED <<result, waiters, permits, running, completed, failed, drainVars>>

Start(j) ==
    /\ Move(j, "dequeued", "running")
    /\ running' = running + 1
    /\ UNCHANGED <<result, waiters, permits, queued, completed, failed, drainVars>>

(* The body returns by itself... *)
Return(j) ==
    /\ Move(j, "running", "ended")
    /\ \E r \in {"ok", "error"} : result' = [result EXCEPT ![j] = r]
    /\ UNCHANGED <<waiters, permits, counters, drainVars>>

(* ...or tokio::time::timeout gives up on it and drops it where it stands. *)
Timeout(j) ==
    /\ HasTimeout
    /\ Move(j, "running", "ended")
    /\ result' = [result EXCEPT ![j] = "timeout"]
    /\ UNCHANGED <<waiters, permits, counters, drainVars>>

(* A panic in the body unwinds through the wrapper: the permit is returned *)
(* by its destructor, and none of the counters below is reached.           *)
Panic(j) ==
    /\ Move(j, "running", "finished")
    /\ result' = [result EXCEPT ![j] = "panic"]
    /\ permits' = permits + 1
    /\ UNCHANGED <<waiters, counters, drainVars>>

Settle(j) ==
    /\ Move(j, "ended", "settled")
    /\ running' = running - 1
    /\ UNCHANGED <<result, waiters, permits, queued, completed, failed, drainVars>>

(* A timeout is an Err like any other. *)
Count(j) ==
    /\ Move(j, "settled", "counted")
    /\ IF result[j] = "ok"
       THEN completed' = completed + 1 /\ failed' = failed
       ELSE failed' = failed + 1 /\ completed' = completed
    /\ UNCHANGED <<result, waiters, permits, running, queued, drainVars>>

(* The end of the async block drops _permit. *)
Release(j) ==
    /\ Move(j, "counted", "finished")
    /\ permits' = permits + 1
    /\ UNCHANGED <<result, waiters, counters, drainVars>>
-----------------------------------------------------------------------------
(* drain(): polls is_idle() until it holds or the shutdown's limit passes. *)
StartDrain ==
    /\ drain = "off"
    /\ drain' = "poll"
    /\ owed' = At(PCs \ {"new", "finished"})
    /\ UNCHANGED <<pc, result, waiters, permits, counters, seenIdle>>

(* status() loads `running` first... *)
LoadRunning ==
    /\ drain = "poll"
    /\ drain' = "read"
    /\ seenIdle' = (running = 0)
    /\ UNCHANGED <<pc, result, waiters, permits, counters, owed>>

(* ...then `queued`, and is_idle() compares the two; not idle: sleep, poll again. *)
LoadQueued ==
    /\ drain = "read"
    /\ drain' = IF seenIdle /\ queued = 0 THEN "idle" ELSE "poll"
    /\ seenIdle' = FALSE
    /\ UNCHANGED <<pc, result, waiters, permits, counters, owed>>

(* The limit can pass only while drain() sleeps: is_idle() does not yield. *)
DrainExpires ==
    /\ drain = "poll"
    /\ drain' = "expired"
    /\ UNCHANGED <<pc, result, waiters, permits, counters, seenIdle, owed>>
-----------------------------------------------------------------------------
Step(j) ==
    \/ Enqueue(j) \/ Grant(j) \/ Dequeue(j) \/ Start(j)
    \/ Timeout(j) \/ Settle(j) \/ Count(j) \/ Release(j)

Next ==
    \/ \E j \in Jobs : Spawn(j) \/ Step(j) \/ Return(j) \/ Panic(j)
    \/ StartDrain \/ LoadRunning \/ LoadQueued \/ DrainExpires

Spec == Init /\ [][Next]_vars

(* The runtime keeps polling what it can poll and fires its timers; nobody *)
(* promises that a body returns.                                           *)
Fairness ==
    /\ \A j \in Jobs : WF_vars(Step(j))
    /\ WF_vars(LoadRunning) /\ WF_vars(LoadQueued) /\ SF_vars(DrainExpires)

FairSpec == Spec /\ Fairness
-----------------------------------------------------------------------------
(* Every variable holds a value of its kind.  The counters are unsigned in *)
(* the code, so that they stay in Nat also says that none of them wraps.   *)
TypeOK ==
    /\ pc \in [Jobs -> PCs]
    /\ result \in [Jobs -> Results]
    /\ waiters \in Seq(Jobs)
    /\ permits \in Nat
    /\ running \in Nat /\ queued \in Nat /\ completed \in Nat /\ failed \in Nat
    /\ drain \in {"off", "poll", "read", "idle", "expired"}
    /\ seenIdle \in BOOLEAN
    /\ owed \subseteq Jobs

(* `queue.concurrency`: never more bodies under way than permits, whatever *)
(* returns, times out or panics, and no permit is lost on the way: what    *)
(* the semaphore has left and what the futures hold add up.                *)
ConcurrencyBound ==
    /\ Cardinality(At({"running"})) <= Permits
    /\ permits + Cardinality(At(Holding)) = Permits

EndedWith(R) == {j \in At(CountedStages) : result[j] \in R}

(* What /status and /queue show: each counter is the number of futures in  *)
(* the stage it stands for, at every step.  A body that panicked stays in  *)
(* `running` for ever, since nothing subtracts it.                         *)
CountersExact ==
    /\ queued = Cardinality(At(QueuedStages))
    /\ running = Cardinality(At(RunningStages)) + Cardinality(EndedWith(Panics))
    /\ completed = Cardinality(EndedWith(Successes))
    /\ failed = Cardinality(EndedWith(Failures))

(* What drain() does promise when it reports an idle queue: nothing is     *)
(* still waiting for a permit, so at most a permitful of tasks is cut off. *)
IdleLeavesOnlyHolders ==
    [][drain' = "idle" /\ drain # "idle" =>
          /\ At(QueuedStages) = {}
          /\ Cardinality(At(PCs \ {"new", "finished"})) <= Permits]_vars

(* With a timeout configured a body that never returns cannot hold the     *)
(* queue: every spawned future is over in the end.                         *)
NoStarvation == \A j \in Jobs : pc[j] = "spawned" ~> pc[j] = "finished"

(* queue.rs:112, "Espera as tarefas em andamento terminarem": drain()      *)
(* reports an idle queue only when the tasks under way at its call are     *)
(* over.  Not so in the code: between Dequeue and Start a task is counted  *)
(* nowhere.                                                                *)
DrainWaits ==
    drain = "idle" => \A j \in owed : pc[j] \in {"ended", "settled", "counted", "finished"}
=============================================================================
