------------------------------ MODULE Executors ------------------------------
(***************************************************************************)
(* A phase and its executors: run_with_retries() (crates/oreia-seca/src/   *)
(* executor/mod.rs) over AgentLoop and ExternalTool, one after the other   *)
(* as the ladder of maker/exec.rs calls them, in one clone, with what the  *)
(* queue's timeout cuts off and what outlives its run.                     *)
(***************************************************************************)
EXTENDS AgentLoop, ExternalTool

CONSTANTS
    Rungs,          (* the executors of the ladder's steps                   *)
    PhaseRetries,   (* [executor] phase_retries                              *)
    ExpectsChange,  (* expects_code_change() of the phase                    *)
    MaxExecutions   (* Bound: executions of the task                         *)

ASSUME ExecutorsAssumption ==
    /\ Rungs \in Seq({"builtin", "external"}) /\ Rungs # <<>>
    /\ PhaseRetries \in Nat /\ MaxExecutions \in Nat \ {0}
    /\ ExpectsChange \in BOOLEAN
    /\ MaxSteps \in Nat /\ Budget \in Nat

VARIABLES
    rung,           (* the step of the ladder                                *)
    tries,          (* `attempt` of run_with_retries()                       *)
    phase,          (* of the phase: running, passed, failed or cut          *)
    executions,     (* of the task so far                                    *)
    own,            (* History: the first run of this step                   *)
    kept            (* History: whether a discard failed in this clone       *)

ladderVars == <<setup, rung, tries, phase, executions, own, kept>>
vars == <<attemptVars, loopVars, scratch, ladderVars>>

None == Outcome("none", {})

Climb(to) == rung' = to /\ tries' = 0 /\ own' = run + 1

StartRun ==
    /\ at = "start"
    /\ run' = run + 1
    /\ Goto(Rungs[rung])
    /\ outcome' = None
    /\ UNCHANGED <<clone, survivors, leaky, loopVars, scratch, ladderVars>>

(* Slips: one retry too many, a step that begins in what the step before   *)
(* it left.                                                                *)
RunAgainOnceMore ==
    /\ at = "ended" /\ outcome.status = "err" /\ tries <= PhaseRetries
    /\ tries' = tries + 1
    /\ Goto("start")
    /\ UNCHANGED <<run, clone, survivors, leaky, outcome, loopVars, scratch,
                   setup, rung, phase, executions, own, kept>>

NextRungAsIs ==
    /\ at = "rejected" \/ (at = "ended" /\ tries >= PhaseRetries)
    /\ rung < Len(Rungs)
    /\ Climb(rung + 1)
    /\ Goto("start")
    /\ UNCHANGED <<run, clone, survivors, leaky, outcome, loopVars, scratch, setup,
                   phase, executions, kept>>

(* Err(e) if attempt < retries: the same again, in the clone as it is. *)
RunAgain ==
    /\ at = "ended" /\ outcome.status = "err" /\ tries < PhaseRetries
    /\ tries' = tries + 1
    /\ Goto("start")
    /\ UNCHANGED <<run, clone, survivors, leaky, outcome, loopVars, scratch,
                   setup, rung, phase, executions, own, kept>>

(* verify(): an executor's error rejects the attempt, and so does a phase  *)
(* that asks for a change and has none; else test_cmd has the last word,   *)
(* if there is one: a shell's command in the same directory.               *)
Verifiable == outcome.status = "ok" /\ (ExpectsChange => outcome.files # {})

Test ==
    \/ UNCHANGED <<clone, survivors, leaky>>
    \/ Touch(run) /\ KillShell

Accept ==
    /\ at = "ended" /\ Verifiable
    /\ Test
    /\ Goto("over") /\ phase' = "passed"
    /\ UNCHANGED <<run, outcome, loopVars, scratch, setup, rung, tries, executions, own, kept>>

TestFails ==
    /\ at = "ended" /\ Verifiable
    /\ Test
    /\ Goto("rejected")
    /\ UNCHANGED <<run, outcome, loopVars, scratch, ladderVars>>

Rejected ==
    \/ at = "rejected"
    \/ at = "ended" /\ ~Verifiable /\ (outcome.status = "ok" \/ tries >= PhaseRetries)

(* discard_attempt(), only in a clone: git checkout restores what is in    *)
(* the index, git clean removes what is not; when one of them fails, that  *)
(* is a warning in the log.                                                *)
DiscardAttempt ==
    /\ \/ ~isGit /\ UNCHANGED <<changed, kept>>
       \/ isGit /\ changed' = index /\ UNCHANGED kept
       \/ /\ isGit /\ kept' = TRUE
          /\ \E left \in SUBSET Paths :
                changed' = [p \in Paths |-> IF p \in left THEN changed[p] ELSE index[p]]
    /\ UNCHANGED <<isGit, index>>

(* The next step of the ladder. *)
NextRung ==
    /\ Rejected /\ rung < Len(Rungs)
    /\ DiscardAttempt
    /\ Climb(rung + 1)
    /\ Goto("start")
    /\ UNCHANGED <<run, survivors, leaky, outcome, loopVars, scratch, setup, phase, executions>>

GiveUp ==
    /\ Rejected /\ rung = Len(Rungs)
    /\ Goto("over") /\ phase' = "failed"
    /\ UNCHANGED <<run, clone, survivors, leaky, outcome, loopVars, scratch,
                   setup, rung, tries, executions, own, kept>>

(* The queue's timeout drops the execution where it stands. *)
CutOff ==
    /\ phase = "running"
    /\ Goto("over") /\ phase' = "cut"
    /\ IF at \in {"tool", "act"} \/ (at = "ended" /\ Verifiable)
       THEN KillShell ELSE UNCHANGED <<survivors, leaky>>
    /\ Drop
    /\ UNCHANGED <<run, clone, outcome, scratch, setup, rung, tries, executions, own, kept>>

(* /retry: a clone is removed and the branch cloned again, a plain         *)
(* directory stays as it is.                                               *)
Retry ==
    /\ phase \in {"failed", "cut"} /\ executions < MaxExecutions
    /\ executions' = executions + 1
    /\ IF isGit THEN changed' = Pristine /\ index' = Pristine /\ kept' = FALSE
       ELSE UNCHANGED <<changed, index, kept>>
    /\ Climb(1)
    /\ Goto("start") /\ phase' = "running"
    /\ UNCHANGED <<run, isGit, survivors, leaky, outcome, loopVars, scratch, setup>>

RunLoop == Loop /\ UNCHANGED <<scratch, setup, rung, tries, phase, executions, own, kept>>

RunTool == Tool /\ UNCHANGED <<loopVars, rung, tries, phase, executions, own, kept>>

Outlive == (SurvivorWrites \/ SurvivorEnds) /\ UNCHANGED <<loopVars, scratch, ladderVars>>

Init ==
    /\ run = 0 /\ at = "start" /\ survivors = {} /\ outcome = None
    /\ isGit \in BOOLEAN /\ changed = Pristine /\ index = Pristine /\ kept = FALSE
    /\ messages = <<>> /\ step = 0 /\ exchanges = <<>>
    /\ todo = <<>> /\ round = 0
    /\ scratch = NoScratch /\ setup \in Setups
    /\ rung = 1 /\ tries = 0 /\ phase = "running" /\ executions = 1
    /\ own = 1 /\ leaky = {}

Advance == StartRun \/ RunAgain \/ Accept \/ TestFails \/ NextRung \/ GiveUp \/ RunLoop

Next == Advance \/ CutOff \/ Retry \/ RunTool \/ Outlive

Spec == Init /\ [][Next]_vars

(* The program goes on: a model's call ends (ModelRouter), a shell's       *)
(* command has its timeout, and step_timeout ends a tool that does not.    *)
(* Nothing makes a tool end by itself, and nobody has to say /retry.       *)
FairSpec ==
    /\ Spec
    /\ WF_vars(Advance)
    /\ WF_vars(RunTool /\ at # "tool")
    /\ WF_vars(RunTool /\ ToolTimeout)
-----------------------------------------------------------------------------
(* Every variable keeps its range: a run asks the model MaxSteps times at  *)
(* the most (once, if it is 0), and runs and retries keep their numbers.   *)
TypeOK ==
    /\ run \in 0 .. MaxExecutions * Len(Rungs) * (PhaseRetries + 1)
    /\ isGit \in BOOLEAN /\ kept \in BOOLEAN
    /\ changed \in [Paths -> 0 .. run] /\ index \in [Paths -> 0 .. run]
    /\ survivors \subseteq leaky /\ leaky \subseteq 1 .. run
    /\ outcome.status \in {"none", "ok", "err"} /\ outcome.files \subseteq Paths
    /\ step \in 0 .. IF MaxSteps = 0 THEN 1 ELSE MaxSteps
    /\ Len(exchanges) <= step
    /\ \A f \in DOMAIN scratch : f \in Files /\ scratch[f] \in 1 .. run
    /\ rung \in DOMAIN Rungs /\ tries \in 0 .. PhaseRetries
    /\ phase \in {"running", "passed", "failed", "cut"}
    /\ phase = "running" <=> at # "over"

(* Where every discard has worked, a change that verify() counts for a     *)
(* step was made by a run of this step, retries and test_cmd included, or  *)
(* is one of two that a discard does not reach: what was put into git's    *)
(* index, from where git checkout restores, and what a process writes that *)
(* outlived its run (gitops.rs:115-119, actions/builtin.rs:55-72).         *)
Attributed ==
    phase = "passed" /\ isGit /\ ~kept =>
        \A p \in Paths :
            changed[p] # 0 =>
                changed[p] >= own \/ changed[p] = index[p] \/ changed[p] \in leaky

(* The phase comes to an end, whatever the models answer and even if a     *)
(* tool never does.                                                        *)
PhaseEnds == phase = "running" ~> phase # "running"

(* The command file "goes with `dir` at the end" (external.rs:322-323) and  *)
(* of a container "nothing is left, not even after an error"               *)
(* (docs/executores.md:132): a run in a container that is over has left    *)
(* neither.  Not so in the code: without OREIA_SECA_HOST_DIR the run ends  *)
(* after cmd.sh is written, and a timeout kills docker's client only.      *)
NothingLeft ==
    at = "ended" /\ Rungs[rung] = "external" /\ setup.container =>
        "cmd" \notin DOMAIN scratch /\ run \notin survivors
=============================================================================
