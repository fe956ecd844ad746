----------------------------- MODULE Escalation -----------------------------
(***************************************************************************)
(* The phases of one execution of a task: the loop of execute_inner, and   *)
(* run_phase_ladder, run_escalation, run_with_retries, verify and the      *)
(* local git commands they use.  A role with an [escalation] entry climbs  *)
(* a ladder of steps until an attempt passes its verification; a role      *)
(* without one makes a single, unverified attempt (step 0).                *)
(*                                                                         *)
(* What a working copy contains is told apart by who wrote it: <<p, s>> is *)
(* what the attempt of phase p at step s wrote.  Approval is only granted  *)
(* or refused here: that the answer is genuine is ApprovalBroker's.  The   *)
(* shells of an attempt, its executor's and its tests', may `git add` and  *)
(* leave processes behind; that they undo what others wrote, or commit, is *)
(* left out (prompts.rs:37 and external.rs:195 forbid commits), and so are *)
(* files git ignores.                                                      *)
(***************************************************************************)
EXTENDS Integers, FiniteSets

CONSTANTS PhaseCount,   (* phases of the plan                                *)
          StepCount,    (* steps of the ladder                               *)
          Retries,      (* phase_retries                                     *)
          AskBefore,    (* ask_before_step; StepCount + 1 if there is none   *)
          CostCap,      (* max_cost_usd                                      *)
          MaxCost,      (* bound: what one attempt costs at most             *)
          MaxSlips,     (* bound: works that shells put in the index and     *)
                        (* attempts that leave a process behind              *)
          Faults,       (* what may fail: "discard", "add", "commit", "log"  *)
          MaxFaults     (* bound: how many of these do in one execution      *)

ASSUME EscalationAssumption ==
    /\ PhaseCount \in Nat /\ StepCount \in Nat \ {0} /\ Retries \in Nat
    /\ AskBefore \in 1..(StepCount + 1)
    /\ CostCap \in Nat /\ MaxCost \in Nat /\ MaxSlips \in Nat
    /\ Faults \subseteq {"discard", "add", "commit", "log"} /\ MaxFaults \in Nat

VARIABLES
    hasLadder,  (* the role has an [escalation] entry                        *)
    isGit,      (* the task is about a Forgejo item, its directory a clone   *)
    expects,    (* phases whose name asks for a change of the code           *)
    pc,
    phases,     (* status of each phase                                      *)
    resolved,   (* resolved_step of the phases resolved in this execution    *)
    idx,        (* the phase under way, or the last one                      *)
    step,       (* step_no                                                   *)
    tries,      (* "attempt" of run_with_retries                             *)
    ok,         (* whether the executor returned a result                    *)
    changed,    (* whether the result lists changed files                    *)
    failure,    (* the step whose failure the next request tells; 0: none    *)
    cost,       (* total_cost of the phase                                   *)
    entries,    (* log_entries of the phase                                  *)
    log,        (* escalation.jsonl                                          *)
    repo,       (* the working copy                                          *)
    \* history
    tried,      (* attempts that were judged                                 *)
    wrote,      (* attempts that wrote something before they returned        *)
    staged,     (* works a shell put in the index                            *)
    leaky,      (* attempts with a process that outlived its command         *)
    granted,    (* attempts a human agreed to                                *)
    spent,      (* what the attempts of all phases cost                      *)
    faults      (* what failed and was only logged as a warning              *)

task == <<hasLadder, isGit, expects>>
attempt == <<tries, ok, changed>>
locals == <<step, attempt, failure, cost, entries>>     \* of run_escalation
shells == <<wrote, staged, leaky>>
history == <<tried, shells, granted, spent>>
vars == <<task, pc, phases, resolved, idx, locals, log, repo, history, faults>>

Phases == 1..PhaseCount
Steps == 1..StepCount
Works == Phases \X (0..StepCount)
Entries == [phase : Phases, step : Steps, passed : BOOLEAN]
Repos == [head : SUBSET Works, index : SUBSET Works, tree : SUBSET Works]
Current == <<idx, step>>

Working == {"asking", "running", "judging", "passed", "recording"}

Init ==
    /\ hasLadder \in BOOLEAN /\ isGit \in BOOLEAN /\ expects \in SUBSET Phases
    /\ pc = "loop"
    /\ phases \in [Phases -> {"Pending", "Done"}]
    /\ resolved = [p \in Phases |-> 0]
    /\ idx = 0 /\ step = 0 /\ tries = 0 /\ ok = FALSE /\ changed = FALSE
    /\ failure = 0 /\ cost = 0 /\ entries = {}
    /\ log = {}
    /\ repo = [head |-> {}, index |-> {}, tree |-> {}]
    /\ tried = {} /\ wrote = {} /\ staged = {} /\ leaky = {} /\ granted = {} /\ spent = 0 /\ faults = {}

Move(from, to) == pc = from /\ pc' = to

Content == repo.head \cup repo.index \cup repo.tree

(* A slip: the diff is taken from where the execution began. *)
ChangedSinceStart(r) == isGit /\ r.head \cup r.index \cup r.tree # {}

(* git status --porcelain: what differs from HEAD.  Outside a clone nothing *)
(* is ever listed.                                                          *)
ChangedFiles(r) == isGit /\ r.index \cup r.tree # {}

(* A step of git that fails is reported as a warning and passed over. *)
Warn(fault) ==
    /\ fault \in Faults
    /\ faults' = faults \cup {fault}
    /\ Cardinality(faults') <= MaxFaults

(* log::append: one write at the end of the ladder, which may fail halfway. *)
LogEscalation ==
    \/ log' = log \cup entries /\ UNCHANGED faults
    \/ /\ entries # {} /\ Warn("log")
       /\ \E some \in SUBSET entries : log' = log \cup some

(* The locals of run_escalation are gone when it returns. *)
Return ==
    /\ step' = 0 /\ tries' = 0 /\ ok' = FALSE /\ changed' = FALSE
    /\ failure' = 0 /\ cost' = 0 /\ entries' = {}

Settle(status) == phases' = [phases EXCEPT ![idx] = status]

(* The ladder gives up: bail!, and the phase has failed. *)
GiveUp(from) ==
    /\ Move(from, "loop")
    /\ LogEscalation
    /\ Settle("Failed")
    /\ Return
    /\ UNCHANGED <<task, resolved, idx, repo, history>>
-----------------------------------------------------------------------------
(* Slips: a definition as a plausible mistake would leave it.              *)
DiscardFromThird ==
    \/ ~(isGit /\ step > 2) /\ UNCHANGED <<repo, faults>>
    \/ isGit /\ step > 2 /\ repo' = [repo EXCEPT !.tree = {}] /\ UNCHANGED faults

DiscardToHead ==
    \/ ~(isGit /\ step > 1) /\ UNCHANGED <<repo, faults>>
    \/ isGit /\ step > 1 /\ repo' = [repo EXCEPT !.index = {}, !.tree = {}] /\ UNCHANGED faults

AsksAfter(s) == s > AskBefore

RefuseUnlogged ==
    /\ Move("asking", "loop")
    /\ Settle("Failed")
    /\ Return
    /\ UNCHANGED <<task, resolved, idx, log, repo, history, faults>>

FailWithoutClimbing ==
    /\ Move("judging", "climbing")
    /\ entries' = entries \cup {[phase |-> idx, step |-> step, passed |-> FALSE]}
    /\ tried' = tried \cup {Current}
    /\ failure' = step
    /\ step' = IF ok THEN step + 1 ELSE step
    /\ UNCHANGED <<task, phases, resolved, idx, attempt, cost, log, repo, shells, granted,
                   spent, faults>>

ExhaustedLate == step > StepCount + 1
-----------------------------------------------------------------------------
(* The loop over the phases. *)

Upcoming(p) ==
    /\ p > idx /\ phases[p] = "Pending"
    /\ \A q \in (idx + 1)..(p - 1) : phases[q] # "Pending"

StartPhase(p) ==
    /\ Upcoming(p)
    /\ Move("loop", IF hasLadder THEN "climbing" ELSE "running")
    /\ idx' = p
    /\ step' = IF hasLadder THEN 1 ELSE 0
    /\ UNCHANGED <<task, phases, resolved, attempt, failure, cost, entries, log, repo, history,
                   faults>>

Finish ==
    /\ \A p \in Phases : ~Upcoming(p)
    /\ Move("loop", "over")
    /\ UNCHANGED <<task, phases, resolved, idx, locals, log, repo, history, faults>>
-----------------------------------------------------------------------------
(* The ladder. *)

Exhausted == step > StepCount

Capped == cost > CostCap

Stop == (Exhausted \/ Capped) /\ GiveUp("climbing")

(* discard_attempt: git checkout -- . restores from the index, git clean    *)
(* removes what is untracked; if the one fails the other is not tried.      *)
Discard ==
    \/ ~(isGit /\ step > 1) /\ UNCHANGED <<repo, faults>>
    \/ isGit /\ step > 1 /\ repo' = [repo EXCEPT !.tree = {}] /\ UNCHANGED faults
    \/ /\ isGit /\ step > 1
       /\ \E left \in SUBSET repo.tree : repo' = [repo EXCEPT !.tree = left]
       /\ Warn("discard")

Asks(s) == s >= AskBefore

Climb ==
    /\ ~Exhausted /\ ~Capped
    /\ Move("climbing", IF Asks(step) THEN "asking" ELSE "running")
    /\ Discard
    /\ tries' = 0 /\ ok' = FALSE /\ changed' = FALSE
    /\ UNCHANGED <<task, phases, resolved, idx, step, failure, cost, entries, log, history>>

Grant ==
    /\ Move("asking", "running")
    /\ granted' = granted \cup {Current}
    /\ UNCHANGED <<task, phases, resolved, idx, locals, log, repo, tried, shells, spent, faults>>

(* Rejected, or expired without an answer. *)
Refuse == GiveUp("asking")
-----------------------------------------------------------------------------
(* run_with_retries and the executors. *)

Slips(some, others) == Cardinality(some) + Cardinality(others)

(* Works are written, and some of what is not yet in the index is added.    *)
Touch(done) ==
    \E added \in SUBSET (repo.tree \cup done) :
        /\ added # {} => isGit /\ Slips(staged \cup added, leaky) <= MaxSlips
        /\ repo' = [repo EXCEPT !.index = @ \cup added, !.tree = (@ \cup done) \ added]
        /\ staged' = staged \cup added

(* run_command kills the shell at its time limit, and nothing when it ends  *)
(* in time: what the shell started may live on (actions/builtin.rs:55-72).  *)
Leak ==
    \/ UNCHANGED leaky
    \/ leaky' = leaky \cup {Current} /\ Slips(staged', leaky') <= MaxSlips

(* The executor edits the working copy, or does not. *)
Edit == \E done \in SUBSET {Current} : Touch(done) /\ wrote' = wrote \cup done /\ Leak

(* A process that was left behind writes when the attempt is long over.     *)
LateWrite ==
    /\ pc \notin {"over", "dropped"}
    /\ \E w \in leaky :
          /\ Touch({w})
          /\ wrote' = wrote \cup {v \in {w} : pc = "running" /\ v = Current}
    /\ UNCHANGED <<task, pc, phases, resolved, idx, locals, log, tried, leaky, granted, spent,
                   faults>>

(* An infrastructure failure: the same attempt again, over what it left. *)
RunFails ==
    /\ tries < Retries
    /\ Move("running", "running")
    /\ tries' = tries + 1
    /\ Edit
    /\ UNCHANGED <<task, phases, resolved, idx, step, ok, changed, failure, cost, entries, log,
                   tried, granted, spent, faults>>

(* The changed files are listed as the executor returns; a listing that     *)
(* fails is an empty one.                                                   *)
RunReturns ==
    /\ hasLadder
    /\ Move("running", "judging")
    /\ ok' \in BOOLEAN /\ (ok' \/ tries = Retries)
    /\ Edit
    /\ changed' \in {FALSE, ok' /\ ChangedFiles(repo')}
    /\ UNCHANGED <<task, phases, resolved, idx, step, tries, failure, cost, entries, log,
                   tried, granted, spent, faults>>

(* Without a ladder what the executor returns is the phase's result. *)
RunUnverified ==
    /\ ~hasLadder
    /\ Move("running", "loop")
    /\ Edit
    /\ \/ Settle("Done")
       \/ tries = Retries /\ Settle("Failed")
    /\ Return
    /\ UNCHANGED <<task, resolved, idx, log, tried, granted, spent, faults>>
-----------------------------------------------------------------------------
(* verify, and what becomes of the attempt. *)

Unchanged == idx \in expects /\ ~changed

(* Tokens are known only of a result. *)
Costs == IF ok THEN 0..MaxCost ELSE {0}

(* test_cmd runs in the working copy, like an executor's shell. *)
Test ==
    \/ ok /\ ~Unchanged /\ (\E done \in SUBSET {Current} : Touch(done)) /\ Leak
    \/ UNCHANGED <<repo, staged, leaky>>

Judge(passed) ==
    /\ Test
    /\ \E c \in Costs : cost' = cost + c /\ spent' = spent + c
    /\ entries' = entries \cup {[phase |-> idx, step |-> step, passed |-> passed]}
    /\ tried' = tried \cup {Current}
    /\ UNCHANGED <<task, phases, resolved, idx, attempt, log, wrote, granted, faults>>

Pass ==
    /\ ok /\ ~Unchanged                                     \* and test_cmd succeeds
    /\ Move("judging", "passed")
    /\ Judge(TRUE)
    /\ UNCHANGED <<step, failure>>

Fail ==                                                     \* or test_cmd fails
    /\ Move("judging", "climbing")
    /\ Judge(FALSE)
    /\ failure' = step
    /\ step' = step + 1

Staged == [repo EXCEPT !.index = @ \cup repo.tree, !.tree = {}]

(* checkpoint: git add -A, and git commit if anything is staged. *)
Checkpoint ==
    /\ Move("passed", "recording")
    /\ \/ ~isGit /\ UNCHANGED <<repo, faults>>
       \/ isGit /\ Warn("add") /\ UNCHANGED repo
       \/ isGit /\ Staged.index # {} /\ Warn("commit") /\ repo' = Staged
       \/ /\ isGit
          /\ repo' = [head |-> repo.head \cup Staged.index, index |-> {}, tree |-> {}]
          /\ UNCHANGED faults
    /\ UNCHANGED <<task, phases, resolved, idx, locals, log, history>>

Record ==
    /\ Move("recording", "loop")
    /\ LogEscalation
    /\ resolved' = [resolved EXCEPT ![idx] = step]
    /\ Settle("Done")
    /\ Return
    /\ UNCHANGED <<task, idx, repo, history>>

(* The queue's timeout drops the execution at one of its awaits, or a save  *)
(* between two phases fails.                                                *)
Drop ==
    /\ pc \notin {"over", "dropped"}
    /\ pc' = "dropped"
    /\ UNCHANGED <<task, phases, resolved, idx, locals, log, repo, history, faults>>

Progress ==
    \/ \E p \in Phases : StartPhase(p)
    \/ Finish
    \/ Stop \/ Climb \/ Grant \/ Refuse
    \/ RunFails \/ RunReturns \/ RunUnverified
    \/ Pass \/ Fail
    \/ Checkpoint \/ Record

Next == Progress \/ LateWrite \/ Drop

(* Executors, tests and questions have time limits of their own. *)
Fairness == WF_vars(Progress)

Spec == Init /\ [][Next]_vars /\ Fairness
-----------------------------------------------------------------------------
TypeOK ==
    /\ hasLadder \in BOOLEAN /\ isGit \in BOOLEAN /\ expects \subseteq Phases
    /\ pc \in {"loop", "climbing", "over", "dropped"} \cup Working
    /\ phases \in [Phases -> {"Pending", "Done", "Failed"}]
    /\ resolved \in [Phases -> 0..StepCount]
    /\ idx \in 0..PhaseCount
    /\ step \in 0..(StepCount + 1)
    /\ tries \in 0..Retries
    /\ ok \in BOOLEAN /\ changed \in BOOLEAN
    /\ failure \in 0..StepCount
    /\ cost \in Nat /\ spent \in Nat
    /\ entries \subseteq Entries /\ log \subseteq Entries
    /\ repo \in Repos
    /\ tried \subseteq Works /\ wrote \subseteq Works /\ granted \subseteq Works
    /\ staged \subseteq Works /\ leaky \subseteq Works
    /\ faults \subseteq Faults

(* No attempt from ask_before_step on touches anything before a human       *)
(* agreed to that step of that phase (exec.rs:287-311).                     *)
AskedFirst == \A w \in tried \cup wrote : w[2] >= AskBefore => w \in granted

(* While an attempt is made, every lower step of the phase was tried and    *)
(* failed, and the request tells of the last of them (exec.rs:264-396).     *)
LadderOrder ==
    pc \in Working /\ hasLadder =>
        /\ failure = step - 1
        /\ \A s \in 1..(step - 1) : [phase |-> idx, step |-> s, passed |-> FALSE] \in entries

(* As long as discarding works, what is in the clone comes from an attempt  *)
(* that passed, from the one being made, or from the very last one of a     *)
(* phase that failed, which nothing discards (exec.rs:281-285).  Two things *)
(* a discard does not reach, although docs/executores.md:174-175 has every  *)
(* failed attempt undone: what a shell put in the index, from where         *)
(* `git checkout -- .` restores, and what a process that outlived its       *)
(* command writes afterwards (gitops.rs:115-119).                           *)
AttemptIsolation ==
    isGit /\ hasLadder /\ pc # "dropped" /\ "discard" \notin faults =>
        \A w \in Content \ (staged \cup leaky) :
            \/ resolved[w[1]] = w[2]
            \/ pc \in Working /\ w = Current
            \/ pc = "climbing" /\ w = <<idx, step - 1>>
            \/ phases[w[1]] = "Failed" /\ <<w[1], w[2] + 1>> \notin tried

(* Discarding later attempts never takes away what a resolved phase wrote,  *)
(* even if its commit failed: only a failed git add puts it at risk         *)
(* (gitops.rs:104-119).                                                     *)
ApprovedWorkKept ==
    "add" \notin faults => \A w \in wrote : resolved[w[1]] = w[2] => w \in Content

(* A phase that asks for a change and is resolved changed something itself, *)
(* or one of three things counted for it: at its first step, what a failed  *)
(* phase had left; what an earlier attempt had put in the index since a     *)
(* phase was last resolved; what a process wrote that an earlier attempt    *)
(* left behind (verify.rs:46, mod.rs:171).                                  *)
ChangeAccounted ==
    \A p \in expects :
        resolved[p] > 0 /\ faults \cap {"discard", "add", "commit"} = {} =>
            /\ isGit
            /\ \/ <<p, resolved[p]>> \in wrote
               \/ resolved[p] = 1 /\ \E q \in 1..(p - 1) : phases[q] = "Failed"
               \/ \E w \in staged \ {<<p, resolved[p]>>} :
                     w[1] <= p /\ \A q \in w[1]..(p - 1) : resolved[q] = 0
               \/ \E w \in leaky \ {<<p, resolved[p]>>} : w[1] <= p

(* Between phases the file of /stats holds every attempt judged so far, and *)
(* shows as passed exactly those that resolved a phase (exec.rs:360-400).   *)
EveryAttemptLogged ==
    pc \in {"loop", "over"} /\ "log" \notin faults =>
        /\ {<<e.phase, e.step>> : e \in log} = tried
        /\ \A e \in log : e.passed <=> resolved[e.phase] = e.step
        /\ \A p \in Phases : resolved[p] > 0 => <<p, resolved[p]>> \in tried

(* What the code keeps of its cap: each phase may pass it by one attempt,   *)
(* because it is compared before an attempt and the cost is known after it  *)
(* (exec.rs:260-279, 352-353).                                              *)
CostBound ==
    /\ spent <= idx * (CostCap + MaxCost)
    /\ pc \in {"asking", "running", "judging"} => cost <= CostCap

(* config.rs:236, "Teto de custo estimado por tarefa; ao atingir, a         *)
(* escalada para": a task goes past its cap by one attempt at most.  Not so *)
(* in the code: total_cost starts at zero in every phase (exec.rs:260).     *)
TaskCostBound == spent <= CostCap + MaxCost

(* The loop over phases and steps comes to its end. *)
LadderEnds == <>(pc \in {"over", "dropped"})

(* docs/executores.md:167-171, verify.rs:4-5: an attempt that changed       *)
(* nothing does not pass when the phase asked for a change.  Not so in the  *)
(* code: the last attempt of a phase that failed is not discarded, and its  *)
(* files count for the next phase.                                          *)
ChangeIsItsOwn ==
    \A p \in expects : resolved[p] > 0 => <<p, resolved[p]>> \in wrote
=============================================================================
