--------------------------- MODULE ExecutorsProofs ---------------------------
(***************************************************************************)
(* Theorems about a phase and its executors, module Executors, for any     *)
(* ladder, any number of retries, executions and steps, any replies of the *)
(* models and any tool.  The inductive invariant says where the variables  *)
(* of a run stand at each place of it, how many runs there can have been,  *)
(* whose the changes in the clone are, whose the files a tool reads, and   *)
(* what is left of the conversation.                                       *)
(***************************************************************************)
EXTENDS Executors, FiniteSetTheorems, SequenceTheorems, WellFoundedInduction, TLAPS

(* Where a run may be, and where it is under way. *)
InLoop == {"builtin", "ask", "act", "report"}
InTool == {"external", "files", "message", "config", "tool", "exited", "broke"}
Places == {"start", "ended", "rejected", "over"} \cup InLoop \cup InTool

Outcomes == [status : {"none", "ok", "err"}, files : SUBSET Paths]

(* Every variable holds a value of its kind. *)
RangeInv ==
    /\ at \in Places
    /\ run \in Nat
    /\ isGit \in BOOLEAN /\ kept \in BOOLEAN
    /\ changed \in [Paths -> 0 .. run] /\ index \in [Paths -> 0 .. run]
    /\ survivors \subseteq leaky /\ leaky \subseteq 1 .. run
    /\ outcome \in Outcomes
    /\ setup \in Setups
    /\ rung \in DOMAIN Rungs /\ tries \in 0 .. PhaseRetries
    /\ executions \in 1 .. MaxExecutions
    /\ phase \in {"running", "passed", "failed", "cut"}
    /\ phase = "running" <=> at # "over"
    /\ round \in Nat /\ step \in Nat /\ exchanges \in Seq(Nat)

(* The loop asks once more only below max_steps, and an exchange is a reply *)
(* that has been dealt with.                                               *)
StepInv ==
    /\ Len(exchanges) <= step
    /\ step <= IF MaxSteps = 0 THEN 1 ELSE MaxSteps
    /\ at \notin {"ask", "act", "report"} => step = 0
    /\ at = "ask" => step = 0 \/ step < MaxSteps
    /\ at = "act" => Len(exchanges) < step

(* The runs the steps of the ladder before this one may have had.          *)
Earlier == ((executions - 1) * Len(Rungs) + rung - 1) * (PhaseRetries + 1)

CountInv == run <= Earlier + tries + IF at = "start" THEN 0 ELSE 1

(* The runs of this step begin with `own`; while every discard has worked, *)
(* what is in the clone was written by one of them or by a process that    *)
(* outlived a run, or is in git's index.                                   *)
Known(p) ==
    changed[p] = 0 \/ changed[p] >= own \/ changed[p] = index[p] \/ changed[p] \in leaky

OwnInv ==
    /\ own \in Nat \ {0} /\ own <= run + 1
    /\ at \notin {"start", "over"} => own <= run
    /\ isGit /\ ~kept => \A p \in Paths : Known(p)

Written(f) == f \in DOMAIN scratch /\ scratch[f] = run

(* The files of a tool, from where they are written to where it reads them. *)
ScratchInv ==
    /\ \A f \in DOMAIN scratch : f \in Files /\ scratch[f] \in 1 .. run
    /\ at \in {"message", "config", "tool"} => Written("message")
    /\ at = "message" => setup.config
    /\ at \in {"config", "tool"} /\ setup.config => Written("config")
    /\ at = "tool" /\ setup.container => Written("cmd")

(* The conversation. *)
Message == [role : {"user", "assistant"}, round : Nat, size : Nat]

(* The i-th message after the instruction, of the latest k exchanges.      *)
Item(ex, k, i) ==
    LET e == Len(ex) - k + (i + 1) \div 2
    IN  IF i % 2 = 1 THEN Reply(e) ELSE Feedback(e, ex[e])

Latest(ex, k) == <<Instruction>> \o [i \in 1 .. 2 * k |-> Item(ex, k, i)]

Fits(ex, k) == k <= 1 \/ EstimateTokens(Latest(ex, k)) <= Budget

(* As many exchanges as fit, and one at the least. *)
Longest(ex, k) == k \in 0 .. Len(ex) /\ Fits(ex, k) /\ \A j \in 0 .. Len(ex) : Fits(ex, j) => j <= k

PromptInv ==
    /\ at = "ask" => Len(exchanges) = step
    /\ at = "act" => Len(exchanges) = step - 1
    /\ at \in {"ask", "act"} => \E k \in Nat : Longest(exchanges, k) /\ messages = Latest(exchanges, k)

IInv == RangeInv /\ StepInv /\ CountInv /\ OwnInv /\ ScratchInv /\ PromptInv

LEMMA InitIInv == Init => IInv
<1>. SUFFICES ASSUME Init PROVE IInv
  OBVIOUS
<1>1. RangeInv
  <2>1. outcome \in Outcomes
    BY DEF Init, None, Outcome, Outcomes
  <2>2. rung \in DOMAIN Rungs /\ tries \in 0 .. PhaseRetries /\ executions \in 1 .. MaxExecutions
    BY ExecutorsAssumption DEF Init
  <2>3. exchanges \in Seq(Nat)
    BY DEF Init
  <2>4. Pristine \in [Paths -> 0 .. 0]
    BY DEF Pristine
  <2>. QED  BY <2>1, <2>2, <2>3, <2>4 DEF Init, RangeInv, Places
<1>2. StepInv
  BY ExecutorsAssumption DEF Init, StepInv
<1>3. CountInv
  <2>1. Earlier = 0
    <3>1. executions - 1 = 0 /\ rung - 1 = 0
      BY DEF Init
    <3>2. 0 * Len(Rungs) = 0 /\ 0 * (PhaseRetries + 1) = 0
      BY ExecutorsAssumption
    <3>. QED  BY <3>1, <3>2 DEF Earlier
  <2>. QED  BY <2>1 DEF Init, CountInv
<1>4. OwnInv /\ ScratchInv /\ PromptInv
  BY DEF Init, OwnInv, Known, Pristine, ScratchInv, NoScratch, PromptInv
<1>. QED  BY <1>1, <1>2, <1>3, <1>4 DEF IInv

(* A command of run r writes its own number, and what it puts into the     *)
(* index is what is there.                                                 *)
TouchedBy(r) ==
    /\ UNCHANGED isGit
    /\ changed' \in [Paths -> 0 .. run] /\ index' \in [Paths -> 0 .. run]
    /\ \A p \in Paths : \/ changed'[p] = r
                        \/ changed'[p] = index'[p]
                        \/ changed'[p] = changed[p] /\ index'[p] = index[p]

LEMMA TouchWrites ==
    ASSUME RangeInv, NEW r \in 0 .. run, Touch(r) \/ UNCHANGED clone
    PROVE  TouchedBy(r)
<1>1. changed \in [Paths -> 0 .. run] /\ index \in [Paths -> 0 .. run]
  BY DEF RangeInv
<1>2. CASE Touch(r)
  <2>1. PICK written \in SUBSET Paths, added \in SUBSET Paths :
            /\ changed' = [p \in Paths |-> IF p \in written THEN r ELSE changed[p]]
            /\ index' = [p \in Paths |-> IF p \in added THEN changed'[p] ELSE index[p]]
    BY <1>2 DEF Touch
  <2>2. UNCHANGED isGit
    BY <1>2 DEF Touch
  <2>3. changed' \in [Paths -> 0 .. run]
    BY <1>1, <2>1
  <2>4. index' \in [Paths -> 0 .. run]
    BY <1>1, <2>1, <2>3
  <2>5. \A p \in Paths : \/ changed'[p] = r
                         \/ changed'[p] = index'[p]
                         \/ changed'[p] = changed[p] /\ index'[p] = index[p]
    <3>. TAKE p \in Paths
    <3>1. p \in written => changed'[p] = r
      BY <2>1
    <3>2. p \in added => index'[p] = changed'[p]
      BY <2>1
    <3>3. p \notin written /\ p \notin added => changed'[p] = changed[p] /\ index'[p] = index[p]
      BY <2>1
    <3>. QED  BY <3>1, <3>2, <3>3
  <2>. QED  BY ONLY <2>2, <2>3, <2>4, <2>5 DEF TouchedBy
<1>3. CASE UNCHANGED clone
  BY <1>1, <1>3 DEF TouchedBy, clone
<1>. QED  BY <1>2, <1>3

LEMMA Listed == ASSUME RangeInv, ReturnFiles PROVE outcome' \in Outcomes /\ at' = "ended"
<1>1. GitChangedFiles \subseteq Paths
  BY DEF GitChangedFiles
<1>. QED  BY <1>1 DEF ReturnFiles, Return, Goto, Outcome, Outcomes

(* A process of run `run` is left behind, or none. *)
Leaves ==
    \/ UNCHANGED <<survivors, leaky>>
    \/ survivors' = survivors \cup {run} /\ leaky' = leaky \cup {run}

(* What a run under way, in the loop or as a tool, does with what it       *)
(* shares: it writes files of its own number, and leaves a process of its  *)
(* own number behind; the ladder does not move.                            *)
LEMMA WorkStep ==
    ASSUME RangeInv, RunLoop \/ RunTool
    PROVE  /\ at \in InLoop \cup InTool /\ at' \in InLoop \cup InTool \cup {"ended"}
           /\ UNCHANGED <<run, ladderVars>>
           /\ TouchedBy(run) /\ Leaves
           /\ outcome' \in Outcomes
<1>1. Failed \in Outcomes /\ outcome \in Outcomes /\ run \in 0 .. run
  BY DEF RangeInv, Failed, Outcome, Outcomes
<1>2. UNCHANGED clone => TouchedBy(run)
  BY <1>1, TouchWrites
<1>3. Touch(run) => TouchedBy(run)
  BY <1>1, TouchWrites
<1>4. KillShell => Leaves
  BY DEF KillShell, Leaves
<1>5. UNCHANGED <<survivors, leaky>> => Leaves
  BY DEF Leaves
<1>6. CASE RunLoop
  <2>1. UNCHANGED <<scratch, ladderVars>>
    BY <1>6 DEF RunLoop, ladderVars
  <2>. USE <1>1, <1>2, <1>3, <1>4, <1>5, <2>1 DEF InLoop, InTool, Goto, Return
  <2>2. CASE StartLoop  BY <2>2 DEF StartLoop
  <2>3. CASE ModelReplies  BY <2>3 DEF ModelReplies
  <2>4. CASE ModelFails  BY <2>4 DEF ModelFails
  <2>5. CASE RefuseAction  BY <2>5 DEF RefuseAction, Result
  <2>6. CASE FileAction
    <3>1. Writes(Head(todo).path) => TouchedBy(run)
      BY DEF Writes, TouchedBy, RangeInv
    <3>. QED  BY <2>6, <3>1 DEF FileAction, Result
  <2>7. CASE ShellAction  BY <2>7 DEF ShellAction, Result
  <2>8. CASE Collect  BY <2>8 DEF Collect
  <2>9. CASE Report  BY <2>9, Listed DEF Report
  <2>. QED  BY <1>6, <2>2, <2>3, <2>4, <2>5, <2>6, <2>7, <2>8, <2>9 DEF RunLoop, Loop
<1>7. CASE RunTool
  <2>1. UNCHANGED <<rung, tries, phase, executions, own, kept>>
    BY <1>7 DEF RunTool
  <2>. USE <1>1, <1>2, <1>3, <1>4, <1>5, <2>1 DEF InLoop, InTool, Goto, Return, ladderVars
  <2>2. CASE FailEarly  BY <2>2 DEF FailEarly
  <2>3. CASE MakeScratch  BY <2>3 DEF MakeScratch
  <2>4. CASE WriteMessage  BY <2>4 DEF WriteMessage
  <2>5. CASE WriteOpencodeConfig  BY <2>5 DEF WriteOpencodeConfig
  <2>6. CASE BuildDockerRun  BY <2>6 DEF BuildDockerRun
  <2>7. CASE RunHere  BY <2>7 DEF RunHere
  <2>8. CASE ToolWrites  BY <2>8 DEF ToolWrites
  <2>9. CASE ToolExits  BY <2>9 DEF ToolExits
  <2>10. CASE ToolTimeout  BY <2>10 DEF ToolTimeout
  <2>11. CASE CleanUp  BY <2>11, Listed DEF CleanUp
  <2>. QED  BY <1>7, <2>2, <2>3, <2>4, <2>5, <2>6, <2>7, <2>8, <2>9, <2>10, <2>11
          DEF RunTool, Tool
<1>. QED  BY <1>6, <1>7

(* What test_cmd does with it. *)
LEMMA TestStep ==
    ASSUME RangeInv, Test
    PROVE  TouchedBy(run) /\ Leaves
<1>1. run \in 0 .. run
  BY DEF RangeInv
<1>. QED  BY <1>1, TouchWrites DEF Test, KillShell, Leaves

(* What an outlived process does with it. *)
LEMMA OutliveStep ==
    ASSUME RangeInv, Outlive
    PROVE  /\ UNCHANGED <<run, at, outcome, leaky, loopVars, scratch, ladderVars>>
           /\ survivors' \subseteq leaky
           /\ \E r \in leaky \cup {0} : TouchedBy(r)
<1>1. CASE SurvivorWrites
  <2>1. PICK r \in survivors : Touch(r) /\ UNCHANGED <<run, at, survivors, leaky, outcome>>
    BY <1>1 DEF SurvivorWrites
  <2>2. r \in leaky /\ r \in 0 .. run
    BY <2>1 DEF RangeInv
  <2>. QED  BY <2>1, <2>2, TouchWrites DEF Outlive, RangeInv
<1>2. CASE SurvivorEnds
  <2>1. 0 \in 0 .. run
    BY DEF RangeInv
  <2>. QED  BY <1>2, <2>1, TouchWrites DEF Outlive, SurvivorEnds, RangeInv
<1>. QED  BY <1>1, <1>2 DEF Outlive

(* What a discard that works leaves is what git has in its index. *)
LEMMA DiscardStep ==
    ASSUME RangeInv, DiscardAttempt
    PROVE  /\ UNCHANGED <<isGit, index>> /\ kept' \in BOOLEAN
           /\ changed' \in [Paths -> 0 .. run]
           /\ isGit /\ ~kept' => changed' = index /\ ~kept
<1>1. CASE UNCHANGED changed \/ changed' = index
  BY <1>1 DEF RangeInv, DiscardAttempt
<1>2. ASSUME NEW left \in SUBSET Paths,
             changed' = [p \in Paths |-> IF p \in left THEN changed[p] ELSE index[p]]
      PROVE  changed' \in [Paths -> 0 .. run]
  BY <1>2 DEF RangeInv
<1>. QED  BY <1>1, <1>2 DEF RangeInv, DiscardAttempt

LoopType == round \in Nat /\ step \in Nat /\ exchanges \in Seq(Nat)

(* A run goes to the executor of its step of the ladder. *)
LEMMA RunStarts ==
    ASSUME RangeInv, StartRun
    PROVE  /\ at = "start" /\ at' \in {"builtin", "external"} /\ run' = run + 1
           /\ UNCHANGED <<clone, survivors, leaky, loopVars, scratch, ladderVars>>
<1>1. Rungs[rung] \in {"builtin", "external"}
  BY ExecutorsAssumption DEF RangeInv
<1>. QED  BY <1>1 DEF StartRun, Goto

(* The counters of the loop keep to max_steps, and at any other place of a *)
(* run they do not move or are reset.                                      *)
LEMMA LoopStep ==
    ASSUME RangeInv, StepInv, RunLoop
    PROVE  LoopType' /\ StepInv'
<1>. USE DEF RangeInv, LoopType, StepInv, Goto, Return
<1>1. CASE StartLoop
  BY <1>1, ExecutorsAssumption DEF StartLoop
<1>2. CASE ModelReplies
  <2>1. at = "ask" /\ at' = "act" /\ step' = step + 1 /\ round' = 0 /\ UNCHANGED exchanges
    BY <1>2 DEF ModelReplies
  <2>2. Len(exchanges) \in Nat
    OBVIOUS
  <2>. QED  BY <2>1, <2>2, ExecutorsAssumption
<1>3. CASE ModelFails \/ Report
  <2>1. at' = "ended" /\ step' = 0 /\ round' = 0 /\ exchanges' = <<>>
    BY <1>3, Listed DEF ModelFails, Report, Drop
  <2>2. exchanges' \in Seq(Nat) /\ Len(exchanges') = 0
    BY <2>1
  <2>. QED  BY <2>1, <2>2, ExecutorsAssumption
<1>4. CASE RefuseAction \/ FileAction \/ ShellAction
  <2>1. round' = round + 1 /\ UNCHANGED <<at, step, exchanges>>
    BY <1>4 DEF RefuseAction, FileAction, ShellAction, Result
  <2>. QED  BY <2>1
<1>5. CASE Collect
  <2>1. /\ at = "act" /\ UNCHANGED <<step, round>>
        /\ UNCHANGED exchanges \/ exchanges' = Append(exchanges, round)
        /\ at' = "report" \/ (at' = "ask" /\ step < MaxSteps)
    BY <1>5, ExecutorsAssumption DEF Collect
  <2>2. round \in Nat /\ exchanges \in Seq(Nat) /\ Len(exchanges) \in Nat
    OBVIOUS
  <2>3. Append(exchanges, round) \in Seq(Nat)
        /\ Len(Append(exchanges, round)) = Len(exchanges) + 1
    <3>. HIDE DEF RangeInv, LoopType, StepInv, Goto, Return
    <3>. QED  BY <2>2, AppendProperties
  <2>4. exchanges' \in Seq(Nat) /\ Len(exchanges') \in Nat
        /\ Len(exchanges') <= Len(exchanges) + 1
    <3>. HIDE DEF RangeInv, LoopType, StepInv, Goto, Return
    <3>1. CASE UNCHANGED exchanges
      <4>1. Len(exchanges) <= Len(exchanges) + 1
        BY <2>2
      <4>. QED  BY <2>2, <3>1, <4>1
    <3>2. CASE exchanges' = Append(exchanges, round)
      <4>1. Len(exchanges) + 1 \in Nat /\ Len(exchanges) + 1 <= Len(exchanges) + 1
        BY <2>2
      <4>. QED  BY <2>3, <3>2, <4>1
    <3>. QED  BY <2>1, <3>1, <3>2
  <2>5. step \in Nat /\ step' = step /\ Len(exchanges) < step
    BY <2>1
  <2>6. LoopType'
    BY <2>1, <2>4
  <2>7. Len(exchanges') <= step'
    <3>. HIDE DEF RangeInv, LoopType, StepInv, Goto, Return
    <3>. QED  BY <2>2, <2>4, <2>5
  <2>. QED  BY <2>1, <2>6, <2>7
<1>. QED  BY <1>1, <1>2, <1>3, <1>4, <1>5 DEF RunLoop, Loop

LEMMA StepStep == RangeInv /\ StepInv /\ [Next]_vars => LoopType' /\ StepInv'
<1>. SUFFICES ASSUME RangeInv, StepInv, [Next]_vars PROVE LoopType' /\ StepInv'
  OBVIOUS
<1>1. CASE RunLoop
  BY <1>1, LoopStep
<1>2. CASE RunTool
  <2>1. UNCHANGED loopVars /\ at \in InTool /\ at' \notin {"ask", "act", "report"}
    BY <1>2, Listed
       DEF RunTool, Tool, FailEarly, MakeScratch, WriteMessage, WriteOpencodeConfig,
           BuildDockerRun,
                RunHere, ToolWrites, ToolExits, ToolTimeout, CleanUp, Goto, Return, InTool
  <2>. QED  BY <2>1 DEF loopVars, RangeInv, LoopType, StepInv, InTool
<1>3. CASE Outlive \/ UNCHANGED vars
  <2>1. UNCHANGED <<loopVars, at>>
    BY <1>3, OutliveStep DEF vars, attemptVars
  <2>. QED  BY <2>1 DEF loopVars, RangeInv, LoopType, StepInv
<1>4. CASE StartRun
  <2>1. UNCHANGED loopVars /\ at = "start" /\ at' \in {"builtin", "external"}
    BY <1>4, RunStarts
  <2>. QED  BY <2>1 DEF loopVars, RangeInv, LoopType, StepInv
<1>5. CASE RunAgain \/ Accept \/ TestFails \/ NextRung \/ GiveUp \/ Retry
  <2>1. /\ UNCHANGED loopVars /\ at \notin {"ask", "act", "report"}
        /\ at' \in {"start", "over", "rejected"}
    BY <1>5
       DEF RunAgain, Accept, TestFails, NextRung, GiveUp, Rejected, Retry, Goto, RangeInv
  <2>. QED  BY <2>1 DEF loopVars, RangeInv, LoopType, StepInv
<1>6. CASE CutOff
  BY <1>6, ExecutorsAssumption DEF CutOff, Drop, Goto, LoopType, StepInv
<1>. QED  BY <1>1, <1>2, <1>3, <1>4, <1>5, <1>6 DEF Next, Advance
-----------------------------------------------------------------------------
(* Everything else that has a kind.                                        *)
LEMMA RangeStep == RangeInv /\ StepInv /\ OwnInv /\ [Next]_vars => RangeInv'
<1>. SUFFICES ASSUME RangeInv, StepInv, OwnInv, [Next]_vars PROVE RangeInv'
  OBVIOUS
<1>1. LoopType'
  BY StepStep
<1>2. ASSUME run \in 1 .. run, Leaves
        PROVE survivors' \subseteq leaky' /\ leaky' \subseteq 1 .. run
  BY <1>2 DEF Leaves, RangeInv
<1>3. CASE RunLoop \/ RunTool
  <2>1. /\ at \notin {"start", "over", "ended", "rejected"}
        /\ at' \in Places \ {"start", "over"} /\ UNCHANGED <<run, ladderVars>>
    BY <1>3, WorkStep DEF Places, InLoop, InTool
  <2>2. run \in 1 .. run
    BY <2>1 DEF OwnInv, RangeInv
  <2>3. isGit' \in BOOLEAN /\ changed' \in [Paths -> 0 .. run] /\ index' \in [Paths -> 0 .. run]
    BY <1>3, WorkStep DEF TouchedBy, RangeInv
  <2>4. survivors' \subseteq leaky' /\ leaky' \subseteq 1 .. run
    BY <1>2, <1>3, <2>2, WorkStep
  <2>5. outcome' \in Outcomes
    BY <1>3, WorkStep
  <2>. QED  BY <1>1, <2>1, <2>3, <2>4, <2>5 DEF RangeInv, LoopType, ladderVars
<1>4. CASE Outlive
  <2>1. isGit' \in BOOLEAN /\ changed' \in [Paths -> 0 .. run] /\ index' \in [Paths -> 0 .. run]
    BY <1>4, OutliveStep DEF TouchedBy, RangeInv
  <2>. QED  BY <1>1, <1>4, <2>1, OutliveStep DEF RangeInv, LoopType, ladderVars
<1>5. CASE StartRun
  <2>1. at' \in {"builtin", "external"}
    BY <1>5, RunStarts
  <2>2. outcome' \in Outcomes
    BY <1>5 DEF StartRun, None, Outcome, Outcomes
  <2>3. /\ changed' \in [Paths -> 0 .. run'] /\ index' \in [Paths -> 0 .. run']
        /\ leaky' \subseteq 1 .. run'
    BY <1>5 DEF StartRun, clone, RangeInv
  <2>. QED  BY <1>1, <1>5, <2>1, <2>2, <2>3
          DEF StartRun, clone, RangeInv, LoopType, ladderVars, Places, InLoop, InTool
<1>6. CASE RunAgain
  BY <1>1, <1>6, ExecutorsAssumption DEF RunAgain, clone, Goto, RangeInv, LoopType, Places
<1>7. CASE Accept \/ TestFails
  <2>1. at = "ended" /\ Test
    BY <1>7 DEF Accept, TestFails
  <2>2. run \in 1 .. run
    BY <2>1 DEF OwnInv, RangeInv
  <2>3. isGit' \in BOOLEAN /\ changed' \in [Paths -> 0 .. run] /\ index' \in [Paths -> 0 .. run]
    BY <2>1, TestStep DEF TouchedBy, RangeInv
  <2>4. survivors' \subseteq leaky' /\ leaky' \subseteq 1 .. run
    BY <1>2, <2>1, <2>2, TestStep
  <2>5. /\ UNCHANGED <<run, outcome, setup, rung, tries, executions, kept>>
        /\ \/ at' = "over" /\ phase' = "passed"
           \/ at' = "rejected" /\ UNCHANGED phase
    BY <1>7 DEF Accept, TestFails, Goto, ladderVars
  <2>. QED  BY <1>1, <2>1, <2>3, <2>4, <2>5 DEF RangeInv, LoopType, Places
<1>8. CASE NextRung
  <2>1. rung' \in DOMAIN Rungs /\ tries' \in 0 .. PhaseRetries
    BY <1>8, ExecutorsAssumption DEF NextRung, Climb, RangeInv
  <2>2. isGit' \in BOOLEAN /\ kept' \in BOOLEAN /\ changed' \in [Paths -> 0 .. run]
        /\ index' \in [Paths -> 0 .. run]
    BY <1>8, DiscardStep DEF NextRung, RangeInv
  <2>3. at # "over"
    BY <1>8 DEF NextRung, Rejected
  <2>. QED  BY <1>1, <1>8, <2>1, <2>2, <2>3 DEF NextRung, Goto, RangeInv, LoopType, Places
<1>9. CASE GiveUp
  BY <1>1, <1>9 DEF GiveUp, clone, Goto, RangeInv, LoopType, Places
<1>10. CASE CutOff
  <2>1. survivors' \subseteq leaky' /\ leaky' \subseteq 1 .. run
    <3>1. CASE UNCHANGED <<survivors, leaky>>
      BY <3>1 DEF RangeInv
    <3>2. CASE at \in {"tool", "act", "ended"} /\ KillShell
      <4>1. run \in 1 .. run
        BY <3>2 DEF OwnInv, RangeInv
      <4>. QED  BY <1>2, <3>2, <4>1 DEF KillShell, Leaves
    <3>. QED  BY <1>10, <3>1, <3>2 DEF CutOff
  <2>. QED  BY <1>1, <1>10, <2>1 DEF CutOff, clone, Goto, RangeInv, LoopType, Places
<1>11. CASE Retry
  <2>1. rung' \in DOMAIN Rungs /\ tries' \in 0 .. PhaseRetries /\ executions' \in 1 .. MaxExecutions
    BY <1>11, ExecutorsAssumption DEF Retry, Climb, RangeInv
  <2>2. Pristine \in [Paths -> 0 .. run]
    BY DEF Pristine, RangeInv
  <2>3. changed' \in [Paths -> 0 .. run] /\ index' \in [Paths -> 0 .. run] /\ kept' \in BOOLEAN
    BY <1>11, <2>2 DEF Retry, RangeInv
  <2>. QED  BY <1>1, <1>11, <2>1, <2>3 DEF Retry, Goto, RangeInv, LoopType, Places
<1>12. CASE UNCHANGED vars
  BY <1>12 DEF vars, attemptVars, clone, loopVars, ladderVars, RangeInv
<1>. QED  BY <1>3, <1>4, <1>5, <1>6, <1>7, <1>8, <1>9, <1>10, <1>11, <1>12
        DEF Next, Advance
-----------------------------------------------------------------------------
(* The runs up to step s of execution e. *)
UpTo(e, s) == ((e - 1) * Len(Rungs) + s - 1) * (PhaseRetries + 1)

(* One more step leaves room for one more run and its retries, and the     *)
(* first step of the next execution for those of the last of this one.     *)
LEMMA UpToGrows ==
    ASSUME NEW e \in Nat \ {0}, NEW s \in 1 .. Len(Rungs)
    PROVE  /\ UpTo(e, s) \in Nat
           /\ UpTo(e, s) + PhaseRetries + 1 = UpTo(e, s + 1)
           /\ UpTo(e, s + 1) <= UpTo(e + 1, 1)
           /\ UpTo(e + 1, 1) = e * Len(Rungs) * (PhaseRetries + 1)
<1>. DEFINE L == Len(Rungs)
            P == PhaseRetries + 1
            A == (e - 1) * L
<1>1. L \in Nat /\ P \in Nat /\ s \in Nat /\ s >= 1 /\ s <= L /\ e - 1 \in Nat
  BY ExecutorsAssumption
<1>. HIDE DEF L, P
<1>2. A \in Nat /\ e * L = A + L
  BY <1>1
<1>. HIDE DEF A
<1>3. A + s - 1 \in Nat /\ A + (s + 1) - 1 = (A + s - 1) + 1 /\ A + L \in Nat /\ A + s <= A + L
  BY <1>1, <1>2
<1>4. \A m, n \in Nat : m * n \in Nat /\ (m + 1) * n = m * n + n
  OBVIOUS
<1>5. \A k, m, n \in Nat : k <= m => k * n <= m * n
  <2>. SUFFICES ASSUME NEW k \in Nat, NEW m \in Nat, NEW n \in Nat, k <= m
         PROVE k * n <= m * n
    OBVIOUS
  <2>1. PICK d \in Nat : m = k + d
    <3>1. m - k \in Nat /\ m = k + (m - k)
      OBVIOUS
    <3>. QED  BY <3>1
  <2>2. (k + d) * n = k * n + d * n /\ k * n \in Nat /\ d * n \in Nat
    OBVIOUS
  <2>. QED  BY <2>1, <2>2
<1>6. UpTo(e, s) = (A + s - 1) * P
  BY DEF UpTo, A, L, P
<1>7. UpTo(e, s + 1) = (A + s) * P
  <2>1. A + (s + 1) - 1 = A + s
    BY <1>1, <1>2
  <2>. QED  BY <2>1 DEF UpTo, A, L, P
<1>8. UpTo(e + 1, 1) = (A + L) * P
  <2>1. (e + 1 - 1) * L + 1 - 1 = A + L
    <3>1. e + 1 - 1 = e
      OBVIOUS
    <3>. QED  BY <1>1, <1>2, <3>1
  <2>2. UpTo(e + 1, 1) = ((e + 1 - 1) * L + 1 - 1) * P
    BY DEF UpTo, L, P
  <2>. QED  BY <2>1, <2>2
<1>9. (A + s) * P = (A + s - 1) * P + P
  <2>1. A + s = (A + s - 1) + 1
    BY <1>1, <1>2
  <2>. QED  BY <1>1, <1>3, <1>4, <2>1
<1>10. (A + s) * P <= (A + L) * P
  BY <1>1, <1>2, <1>3, <1>5
<1>11. (A + s - 1) * P \in Nat /\ P = PhaseRetries + 1
  BY <1>1, <1>3, <1>4 DEF P
<1>12. UpTo(e, s) + PhaseRetries + 1 = UpTo(e, s) + P
  BY <1>6, <1>11, ExecutorsAssumption
<1>13. (A + L) * P = e * Len(Rungs) * (PhaseRetries + 1)
  BY <1>2 DEF L, P
<1>. QED  BY <1>6, <1>7, <1>8, <1>9, <1>10, <1>11, <1>12, <1>13

LEMMA CountStep == RangeInv /\ CountInv /\ [Next]_vars => CountInv'
<1>. SUFFICES ASSUME RangeInv, CountInv, [Next]_vars PROVE CountInv'
  OBVIOUS
<1>1. Earlier = UpTo(executions, rung) /\ Earlier' = UpTo(executions', rung')
  BY DEF Earlier, UpTo
<1>2. /\ executions \in Nat \ {0} /\ rung \in 1 .. Len(Rungs) /\ run \in Nat
      /\ tries \in Nat /\ tries <= PhaseRetries /\ PhaseRetries \in Nat
  BY ExecutorsAssumption DEF RangeInv
<1>3. Earlier \in Nat
  BY <1>1, <1>2, UpToGrows
<1>. HIDE DEF Earlier
<1>4. CASE RunLoop \/ RunTool
  <2>1. at # "start" /\ at' # "start" /\ UNCHANGED <<run, tries, executions, rung>>
    BY <1>4, WorkStep DEF ladderVars, InLoop, InTool
  <2>2. Earlier' = Earlier
    BY <1>1, <2>1
  <2>. QED  BY <2>1, <2>2 DEF CountInv
<1>5. CASE Outlive \/ UNCHANGED vars
  <2>1. UNCHANGED <<at, run, tries, executions, rung>>
    BY <1>5, OutliveStep DEF ladderVars, vars, attemptVars
  <2>2. Earlier' = Earlier
    BY <1>1, <2>1
  <2>. QED  BY <2>1, <2>2 DEF CountInv
<1>6. CASE StartRun
  <2>1. at = "start" /\ at' # "start" /\ run' = run + 1 /\ UNCHANGED <<tries, executions, rung>>
    BY <1>6, RunStarts DEF ladderVars
  <2>2. Earlier' = Earlier
    BY <1>1, <2>1
  <2>. QED  BY <1>2, <1>3, <2>1, <2>2 DEF CountInv
<1>7. CASE RunAgain
  <2>1. at # "start" /\ at' = "start" /\ tries' = tries + 1 /\ UNCHANGED <<run, executions, rung>>
    BY <1>7 DEF RunAgain, Goto
  <2>2. Earlier' = Earlier
    BY <1>1, <2>1
  <2>. QED  BY <1>2, <1>3, <2>1, <2>2 DEF CountInv
<1>8. CASE Accept \/ TestFails \/ GiveUp \/ CutOff
  <2>1. at' \in {"over", "rejected"} /\ UNCHANGED <<run, tries, executions, rung>>
    BY <1>8 DEF Accept, TestFails, GiveUp, CutOff, Goto, ladderVars
  <2>2. Earlier' = Earlier
    BY <1>1, <2>1
  <2>. QED  BY <1>2, <1>3, <2>1, <2>2 DEF CountInv
<1>9. CASE NextRung
  <2>1. at # "start" /\ rung' = rung + 1 /\ tries' = 0 /\ at' = "start" /\ UNCHANGED <<run, executions>>
    BY <1>9 DEF NextRung, Rejected, Climb, Goto
  <2>2. Earlier' = Earlier + PhaseRetries + 1
    BY <1>1, <1>2, <2>1, UpToGrows
  <2>. QED  BY <1>2, <1>3, <2>1, <2>2 DEF CountInv
<1>10. CASE Retry
  <2>1. rung' = 1 /\ tries' = 0 /\ at' = "start" /\ executions' = executions + 1 /\ UNCHANGED run
    BY <1>10 DEF Retry, Climb, Goto
  <2>2. UpTo(executions, rung) + PhaseRetries + 1 <= UpTo(executions + 1, 1)
    BY <1>2, UpToGrows
  <2>3. Earlier' = UpTo(executions + 1, 1) /\ Earlier' \in Nat
    <3>1. executions + 1 \in Nat \ {0} /\ 1 \in 1 .. Len(Rungs)
      BY <1>2
    <3>. QED  BY <1>1, <2>1, <3>1, UpToGrows
  <2>4. run <= Earlier + PhaseRetries + 1
    BY <1>2, <1>3 DEF CountInv
  <2>5. run <= Earlier'
    BY <1>1, <1>2, <1>3, <2>2, <2>3, <2>4
  <2>. QED  BY <2>1, <2>3, <2>5 DEF CountInv
<1>. QED  BY <1>4, <1>5, <1>6, <1>7, <1>8, <1>9, <1>10 DEF Next, Advance
-----------------------------------------------------------------------------
LEMMA OwnStep == RangeInv /\ OwnInv /\ [Next]_vars => OwnInv'
<1>. SUFFICES ASSUME RangeInv, OwnInv, [Next]_vars PROVE OwnInv'
  OBVIOUS
<1>1. run \in Nat
  BY DEF RangeInv
<1>2. ASSUME NEW r \in Nat, TouchedBy(r), r >= own \/ r \in leaky,
             leaky \subseteq leaky', UNCHANGED <<own, kept>>
      PROVE  (isGit /\ ~kept => \A p \in Paths : Known(p))'
  <2>. SUFFICES ASSUME isGit, ~kept, NEW p \in Paths PROVE Known(p)'
    BY <1>2 DEF TouchedBy
  <2>1. Known(p)
    BY DEF OwnInv
  <2>. QED  BY <1>2, <2>1 DEF Known, TouchedBy
<1>3. CASE RunLoop \/ RunTool
  <2>1. at \notin {"start", "over"} /\ UNCHANGED <<run, own, kept>> /\ TouchedBy(run) /\ Leaves
    BY <1>3, WorkStep DEF ladderVars, InLoop, InTool
  <2>2. run >= own /\ leaky \subseteq leaky'
    BY <2>1 DEF OwnInv, Leaves
  <2>. QED  BY <1>1, <1>2, <2>1, <2>2 DEF OwnInv
<1>4. CASE Outlive
  <2>1. UNCHANGED <<run, at, leaky, own, kept>>
    BY <1>4, OutliveStep DEF ladderVars
  <2>2. PICK r \in leaky \cup {0} : TouchedBy(r)
    BY <1>4, OutliveStep
  <2>3. (isGit /\ ~kept => \A p \in Paths : Known(p))'
    <3>1. CASE r \in leaky
      BY <1>2, <2>1, <2>2, <3>1 DEF RangeInv
    <3>2. CASE r = 0
      <4>. SUFFICES ASSUME isGit, ~kept, NEW p \in Paths PROVE Known(p)'
        BY <2>1, <2>2 DEF TouchedBy
      <4>1. Known(p)
        BY DEF OwnInv
      <4>. QED  BY <2>1, <2>2, <3>2, <4>1 DEF Known, TouchedBy
    <3>. QED  BY <3>1, <3>2
  <2>. QED  BY <2>1, <2>3 DEF OwnInv
<1>5. CASE StartRun
  <2>1. UNCHANGED <<clone, leaky, own, kept>> /\ run' = run + 1
    BY <1>5 DEF StartRun, ladderVars
  <2>. QED  BY <1>1, <2>1 DEF OwnInv, Known, clone
<1>6. CASE RunAgain \/ GiveUp
  <2>1. UNCHANGED <<run, clone, leaky, own, kept>> /\ at' \in {"start", "over"}
    BY <1>6 DEF RunAgain, GiveUp, Goto
  <2>. QED  BY <2>1 DEF OwnInv, Known, clone
<1>7. CASE Accept \/ TestFails
  <2>1. at = "ended" /\ UNCHANGED <<run, own, kept>> /\ TouchedBy(run) /\ Leaves
    BY <1>7, TestStep DEF Accept, TestFails, ladderVars
  <2>2. run >= own /\ own <= run /\ leaky \subseteq leaky'
    BY <1>1, <2>1 DEF OwnInv, Leaves
  <2>. QED  BY <1>1, <1>2, <2>1, <2>2 DEF OwnInv
<1>8. CASE NextRung
  <2>1. own' = run + 1 /\ at' = "start" /\ UNCHANGED run
    BY <1>8 DEF NextRung, Climb, Goto
  <2>2. UNCHANGED <<isGit, index>> /\ (isGit /\ ~kept' => changed' = index)
    BY <1>8, DiscardStep DEF NextRung
  <2>. QED  BY <1>1, <2>1, <2>2 DEF OwnInv, Known
<1>9. CASE Retry
  <2>1. own' = run + 1 /\ at' = "start" /\ UNCHANGED <<run, isGit>>
    BY <1>9 DEF Retry, Climb, Goto
  <2>2. isGit => \A p \in Paths : changed'[p] = 0
    BY <1>9 DEF Retry, Pristine
  <2>. QED  BY <1>1, <2>1, <2>2 DEF OwnInv, Known
<1>10. CASE CutOff
  <2>1. at' = "over" /\ leaky \subseteq leaky' /\ UNCHANGED <<run, clone, own, kept>>
    BY <1>10 DEF CutOff, KillShell, Goto
  <2>. QED  BY <2>1 DEF OwnInv, Known, clone
<1>11. CASE UNCHANGED vars
  BY <1>11 DEF vars, attemptVars, clone, ladderVars, OwnInv, Known
<1>. QED  BY <1>3, <1>4, <1>5, <1>6, <1>7, <1>8, <1>9, <1>10, <1>11 DEF Next, Advance

(* A file that is put into the directory is this run's; the others stay.   *)
LEMMA PutWritten ==
    ASSUME NEW f, Put(f), UNCHANGED run
    PROVE  /\ Written(f)' /\ \A g : Written(g) => Written(g)'
           /\ DOMAIN scratch' = DOMAIN scratch \cup {f}
           /\ \A g \in DOMAIN scratch' : scratch'[g] = run \/ (g \in DOMAIN scratch /\ scratch'[g] = scratch[g])
BY DEF Put, Written

LEMMA ScratchStep == RangeInv /\ OwnInv /\ ScratchInv /\ [Next]_vars => ScratchInv'
<1>. SUFFICES ASSUME RangeInv, OwnInv, ScratchInv, [Next]_vars PROVE ScratchInv'
  OBVIOUS
<1>. DEFINE Held == \A f \in DOMAIN scratch : f \in Files /\ scratch[f] \in 1 .. run
<1>1. Held
  BY DEF ScratchInv
<1>2. CASE RunTool
  <2>1. UNCHANGED <<run, setup>> /\ run \in 1 .. run
    BY <1>2, WorkStep DEF ladderVars, OwnInv, RangeInv, InLoop, InTool
  <2>2. ASSUME NEW f \in Files, Put(f) PROVE Held'
    BY <1>1, <2>1, <2>2, PutWritten
  <2>3. UNCHANGED scratch => Held'
    BY <1>1, <2>1
  <2>. HIDE DEF Held
  <2>4. CASE FailEarly \/ CleanUp
    <3>1. scratch' \in {scratch, NoScratch} /\ at' = "ended"
      BY <2>4, Listed DEF FailEarly, CleanUp, Return, Goto
    <3>2. Held'
      BY <2>3, <3>1 DEF Held, NoScratch
    <3>. QED  BY <3>1, <3>2 DEF ScratchInv, Held
  <2>5. CASE MakeScratch \/ ToolExits \/ ToolTimeout
    <3>1. UNCHANGED scratch /\ at' \in {"files", "exited", "broke"}
      BY <2>5 DEF MakeScratch, ToolExits, ToolTimeout, Goto
    <3>. QED  BY <2>3, <3>1 DEF ScratchInv, Held
  <2>6. CASE WriteMessage
    <3>1. Put("message") /\ at' = IF setup.config THEN "message" ELSE "config"
      BY <2>6 DEF WriteMessage, Goto
    <3>2. Held' /\ Written("message")'
      BY <2>1, <2>2, <3>1, PutWritten DEF Files
    <3>. QED  BY <2>1, <3>1, <3>2 DEF ScratchInv, Held
  <2>7. CASE WriteOpencodeConfig
    <3>1. Put("config") /\ at = "message" /\ at' = "config"
      BY <2>7 DEF WriteOpencodeConfig, Goto
    <3>2. Held' /\ Written("message")' /\ Written("config")'
      BY <2>1, <2>2, <3>1, PutWritten DEF Files, ScratchInv
    <3>. QED  BY <2>1, <3>1, <3>2 DEF ScratchInv, Held
  <2>8. CASE BuildDockerRun
    <3>1. Put("cmd") /\ at = "config" /\ at' \in {"tool", "ended"}
      BY <2>8 DEF BuildDockerRun, Goto, Return
    <3>2. Held' /\ Written("message")' /\ (setup.config => Written("config")') /\ Written("cmd")'
      BY <2>1, <2>2, <3>1, PutWritten DEF Files, ScratchInv
    <3>. QED  BY <2>1, <3>1, <3>2 DEF ScratchInv, Held
  <2>9. CASE RunHere \/ ToolWrites
    <3>1. UNCHANGED scratch /\ at \in {"config", "tool"} /\ at' = "tool" /\ (at = "config" => ~setup.container)
      BY <2>9 DEF RunHere, ToolWrites, Goto
    <3>2. \A f : Written(f) => Written(f)'
      BY <2>1, <3>1 DEF Written
    <3>. QED  BY <2>1, <2>3, <3>1, <3>2 DEF ScratchInv, Held
  <2>. QED  BY <1>2, <2>4, <2>5, <2>6, <2>7, <2>8, <2>9 DEF RunTool, Tool
<1>3. CASE RunLoop
  <2>1. UNCHANGED <<run, scratch>> /\ at' \notin {"message", "config", "tool"}
    BY <1>3, WorkStep, Listed
       DEF RunLoop, Loop, StartLoop, ModelReplies, ModelFails, RefuseAction, FileAction,
           ShellAction,
                          Collect, Report, Result, Goto, Return
  <2>. QED  BY <2>1 DEF ScratchInv
<1>4. CASE Outlive \/ UNCHANGED vars
  <2>1. UNCHANGED <<run, at, scratch, setup>>
    BY <1>4, OutliveStep DEF vars, attemptVars, ladderVars
  <2>. QED  BY <2>1 DEF ScratchInv, Written
<1>5. CASE StartRun
  <2>1. run' = run + 1 /\ UNCHANGED scratch /\ at' \in {"builtin", "external"}
    BY <1>5, RunStarts
  <2>2. \A f \in DOMAIN scratch : scratch[f] \in 1 .. run'
    BY <1>1, <2>1 DEF RangeInv
  <2>. QED  BY <1>1, <2>1, <2>2 DEF ScratchInv
<1>6. CASE RunAgain \/ Accept \/ TestFails \/ NextRung \/ GiveUp \/ CutOff \/ Retry
  <2>1. UNCHANGED <<run, scratch>> /\ at' \in {"start", "over", "rejected"}
    BY <1>6 DEF RunAgain, Accept, TestFails, NextRung, GiveUp, CutOff, Retry, Goto
  <2>. QED  BY <2>1 DEF ScratchInv
<1>. QED  BY <1>2, <1>3, <1>4, <1>5, <1>6 DEF Next, Advance
-----------------------------------------------------------------------------
(* A set of numbers has a least one. *)
LEMMA LeastThere ==
    ASSUME NEW T \in SUBSET Nat, T # {}
    PROVE  \E x \in T : \A y \in T : x <= y
<1>. DEFINE R == {ss \in Nat \X Nat : ss[1] < ss[2]}
<1>1. IsWellFoundedOn(R, Nat)
  BY NatLessThanWellFounded DEF OpToRel
<1>. HIDE DEF R
<1>2. PICK x \in T : \A y \in T : ~ (<<y, x>> \in R)
  BY <1>1, WFMin
<1>3. x \in Nat /\ \A y \in T : y \in Nat
  OBVIOUS
<1>4. \A y \in T : ~(y < x)
  BY <1>2, <1>3 DEF R
<1>. QED  BY <1>3, <1>4

LEMMA ItemTyped ==
    ASSUME NEW ex \in Seq(Nat), NEW k \in 0 .. Len(ex), NEW i \in 1 .. 2 * k
    PROVE  Item(ex, k, i) \in Message
<1>. DEFINE e == Len(ex) - k + (i + 1) \div 2
<1>1. e \in 1 .. Len(ex)
  OBVIOUS
<1>2. ex[e] \in Nat
  BY <1>1
<1>3. e \in Nat
  BY <1>1
<1>. HIDE DEF e
<1>4. Reply(e) \in Message /\ Feedback(e, ex[e]) \in Message
  BY <1>2, <1>3 DEF Reply, Feedback, Message
<1>. QED  BY <1>4 DEF Item, e

(* The messages of Latest, one by one. *)
LEMMA LatestIs ==
    ASSUME NEW ex \in Seq(Nat), NEW k \in 0 .. Len(ex)
    PROVE  /\ Latest(ex, k) \in Seq(Message)
           /\ Len(Latest(ex, k)) = 1 + 2 * k
           /\ Latest(ex, k)[1] = Instruction
           /\ \A i \in 1 .. 2 * k : Latest(ex, k)[1 + i] = Item(ex, k, i)
<1>. DEFINE items == [i \in 1 .. 2 * k |-> Item(ex, k, i)]
<1>1. k \in Nat /\ 2 * k \in Nat
  OBVIOUS
<1>2. items \in Seq(Message) /\ Len(items) = 2 * k
  BY <1>1, ItemTyped
<1>3. <<Instruction>> \in Seq(Message) /\ Len(<<Instruction>>) = 1
  BY DEF Instruction, Message
<1>4. \A i \in 1 .. 2 * k : items[i] = Item(ex, k, i)
  OBVIOUS
<1>. HIDE DEF items
<1>5. Latest(ex, k) = <<Instruction>> \o items
  BY DEF Latest, items
<1>6. /\ <<Instruction>> \o items \in Seq(Message)
      /\ Len(<<Instruction>> \o items) = Len(<<Instruction>>) + Len(items)
      /\ \A i \in 1 .. Len(<<Instruction>>) + Len(items) :
            (<<Instruction>> \o items)[i] =
                IF i <= Len(<<Instruction>>) THEN <<Instruction>>[i] ELSE items[i - Len(<<Instruction>>)]
  BY <1>2, <1>3, ConcatProperties
<1>7. \A i \in 1 .. 2 * k : (<<Instruction>> \o items)[1 + i] = items[i]
  BY <1>1, <1>2, <1>3, <1>6
<1>8. (<<Instruction>> \o items)[1] = Instruction
  BY <1>1, <1>2, <1>3, <1>6
<1>. QED  BY <1>1, <1>2, <1>3, <1>4, <1>5, <1>6, <1>7, <1>8

(* An exchange more, and one more of the latest: the same and its messages. *)
LEMMA LatestGrows ==
    ASSUME NEW ex \in Seq(Nat), NEW r \in Nat, NEW k \in 0 .. Len(ex)
    PROVE  Latest(Append(ex, r), k + 1) =
               Latest(ex, k) \o <<Reply(Len(ex) + 1), Feedback(Len(ex) + 1, r)>>
<1>. DEFINE n == Len(ex)
            more == Append(ex, r)
            new == <<Reply(n + 1), Feedback(n + 1, r)>>
            old == Latest(ex, k)
            long == Latest(more, k + 1)
<1>1. n \in Nat /\ k \in Nat /\ k <= n /\ more \in Seq(Nat) /\ Len(more) = n + 1
      /\ more[n + 1] = r /\ \A e \in 1 .. n : more[e] = ex[e]
  OBVIOUS
<1>2. new \in Seq(Message) /\ Len(new) = 2 /\ new[1] = Reply(n + 1) /\ new[2] = Feedback(n + 1, r)
  BY <1>1 DEF Reply, Feedback, Message
<1>3. old \in Seq(Message) /\ Len(old) = 1 + 2 * k /\ old[1] = Instruction
      /\ \A i \in 1 .. 2 * k : old[1 + i] = Item(ex, k, i)
  BY LatestIs
<1>4. long \in Seq(Message) /\ Len(long) = 1 + 2 * (k + 1) /\ long[1] = Instruction
      /\ \A i \in 1 .. 2 * (k + 1) : long[1 + i] = Item(more, k + 1, i)
  <2>1. k + 1 \in 0 .. Len(more)
    BY <1>1
  <2>. HIDE DEF more
  <2>. QED  BY <1>1, <2>1, LatestIs
<1>5. ASSUME NEW i \in 1 .. 2 * k PROVE Item(more, k + 1, i) = Item(ex, k, i)
  <2>. DEFINE e == n - k + (i + 1) \div 2
  <2>1. e \in 1 .. n /\ Len(more) - (k + 1) + (i + 1) \div 2 = e
    BY <1>1
  <2>2. more[e] = ex[e]
    BY <1>1, <2>1
  <2>. HIDE DEF e, more
  <2>3. Item(more, k + 1, i) = IF i % 2 = 1 THEN Reply(e) ELSE Feedback(e, more[e])
    BY <2>1 DEF Item
  <2>4. Item(ex, k, i) = IF i % 2 = 1 THEN Reply(e) ELSE Feedback(e, ex[e])
    BY DEF Item, e
  <2>. QED  BY <2>2, <2>3, <2>4
<1>6. Item(more, k + 1, 2 * k + 1) = Reply(n + 1) /\ Item(more, k + 1, 2 * k + 2) = Feedback(n + 1, r)
  <2>1. (2 * k + 1 + 1) \div 2 = k + 1 /\ (2 * k + 1) % 2 = 1
        /\ (2 * k + 2 + 1) \div 2 = k + 1 /\ (2 * k + 2) % 2 = 0
    BY <1>1
  <2>2. Len(more) - (k + 1) + (k + 1) = n + 1
    BY <1>1
  <2>. HIDE DEF more
  <2>. QED  BY <1>1, <2>1, <2>2 DEF Item
<1>7. \A i \in 1 .. 2 * (k + 1) : i \in 1 .. 2 * k \/ i = 2 * k + 1 \/ i = 2 * k + 2
  BY <1>1
<1>. HIDE DEF new, old, long, more, n
<1>8. /\ old \o new \in Seq(Message) /\ Len(old \o new) = 1 + 2 * (k + 1)
      /\ \A i \in 1 .. 1 + 2 * (k + 1) :
            (old \o new)[i] = IF i <= 1 + 2 * k THEN old[i] ELSE new[i - (1 + 2 * k)]
  <2>1. /\ old \o new \in Seq(Message) /\ Len(old \o new) = Len(old) + Len(new)
        /\ \A i \in 1 .. Len(old) + Len(new) :
              (old \o new)[i] = IF i <= Len(old) THEN old[i] ELSE new[i - Len(old)]
    BY <1>2, <1>3, ConcatProperties
  <2>2. Len(old) + Len(new) = 1 + 2 * (k + 1)
    BY <1>1, <1>2, <1>3
  <2>. QED  BY <1>2, <1>3, <2>1, <2>2
<1>9. ASSUME NEW i \in 1 .. Len(long) PROVE long[i] = (old \o new)[i]
  <2>1. i = 1 \/ (\E l \in 1 .. 2 * k : i = 1 + l) \/ i = 2 * k + 2 \/ i = 2 * k + 3
    <3>1. i = 1 \/ i - 1 \in 1 .. 2 * k \/ i = 2 * k + 2 \/ i = 2 * k + 3
      BY <1>1, <1>4
    <3>2. i - 1 \in 1 .. 2 * k => i = 1 + (i - 1)
      OBVIOUS
    <3>. QED  BY <3>1, <3>2
  <2>2. CASE i = 1
    <3>1. (old \o new)[1] = old[1]
      <4>1. 1 \in 1 .. 1 + 2 * (k + 1) /\ 1 <= 1 + 2 * k
        BY <1>1
      <4>. QED  BY <1>8, <4>1
    <3>. QED  BY <1>3, <1>4, <2>2, <3>1
  <2>3. ASSUME NEW l \in 1 .. 2 * k, i = 1 + l PROVE long[i] = (old \o new)[i]
    <3>1. (old \o new)[1 + l] = old[1 + l]
      BY <1>1, <1>8
    <3>2. long[1 + l] = Item(more, k + 1, l)
      BY <1>1, <1>4
    <3>. QED  BY <1>3, <1>5, <2>3, <3>1, <3>2
  <2>4. CASE i = 2 * k + 2
    <3>1. (old \o new)[2 * k + 2] = new[1]
      <4>1. 2 * k + 2 \in 1 .. 1 + 2 * (k + 1) /\ ~(2 * k + 2 <= 1 + 2 * k) /\ 2 * k + 2 - (1 + 2 * k) = 1
        BY <1>1
      <4>. QED  BY <1>8, <4>1
    <3>2. 2 * k + 1 \in 1 .. 2 * (k + 1) /\ 1 + (2 * k + 1) = 2 * k + 2
      BY <1>1
    <3>. QED  BY <1>2, <1>4, <1>6, <2>4, <3>1, <3>2
  <2>5. CASE i = 2 * k + 3
    <3>1. (old \o new)[2 * k + 3] = new[2]
      <4>1. 2 * k + 3 \in 1 .. 1 + 2 * (k + 1) /\ ~(2 * k + 3 <= 1 + 2 * k) /\ 2 * k + 3 - (1 + 2 * k) = 2
        BY <1>1
      <4>. QED  BY <1>8, <4>1
    <3>2. 2 * k + 2 \in 1 .. 2 * (k + 1) /\ 1 + (2 * k + 2) = 2 * k + 3
      BY <1>1
    <3>. QED  BY <1>2, <1>4, <1>6, <2>5, <3>1, <3>2
  <2>. QED  BY <2>1, <2>2, <2>3, <2>4, <2>5
<1>10. long = old \o new
  BY <1>4, <1>8, <1>9, SeqEqual
<1>. QED  BY <1>10 DEF long, old, new, more, n

(* Dropping the c oldest of the latest k exchanges leaves the latest k - c. *)
LEMMA LatestCut ==
    ASSUME NEW ex \in Seq(Nat), NEW k \in 0 .. Len(ex), NEW c \in 0 .. k
    PROVE  <<Head(Latest(ex, k))>> \o SubSeq(Latest(ex, k), 2 + 2 * c, Len(Latest(ex, k))) = Latest(ex, k - c)
<1>. DEFINE long == Latest(ex, k)
            short == Latest(ex, k - c)
            rest == SubSeq(long, 2 + 2 * c, 1 + 2 * k)
<1>1. k \in Nat /\ c \in Nat /\ k - c \in 0 .. Len(ex) /\ k - c \in Nat /\ Len(ex) \in Nat
  OBVIOUS
<1>2. long \in Seq(Message) /\ Len(long) = 1 + 2 * k /\ long[1] = Instruction
      /\ \A i \in 1 .. 2 * k : long[1 + i] = Item(ex, k, i)
  BY LatestIs
<1>3. short \in Seq(Message) /\ Len(short) = 1 + 2 * (k - c) /\ short[1] = Instruction
      /\ \A i \in 1 .. 2 * (k - c) : short[1 + i] = Item(ex, k - c, i)
  BY <1>1, LatestIs
<1>4. ASSUME NEW i \in 1 .. 2 * (k - c)
        PROVE 2 * c + i \in 1 .. 2 * k /\ Item(ex, k - c, i) = Item(ex, k, 2 * c + i)
  <2>1. 2 * c + i \in 1 .. 2 * k /\ (2 * c + i + 1) \div 2 = c + (i + 1) \div 2 /\ (2 * c + i) % 2 = i % 2
    BY <1>1
  <2>2. Len(ex) - (k - c) + (i + 1) \div 2 = Len(ex) - k + (2 * c + i + 1) \div 2
    BY <1>1, <2>1
  <2>. QED  BY <2>1, <2>2 DEF Item
<1>. HIDE DEF long, short
<1>5. /\ rest \in Seq(Message) /\ Len(rest) = 2 * (k - c)
      /\ \A i \in 1 .. 2 * (k - c) : rest[i] = long[(2 + 2 * c) + i - 1]
  <2>. DEFINE first == 2 + 2 * c
              last == 1 + 2 * k
  <2>1. first \in Int /\ last \in Int /\ first >= 1 /\ last - first + 1 = 2 * (k - c)
        /\ (~(first <= last) => 2 * (k - c) = 0)
    BY <1>1
  <2>2. \A i \in first .. last : long[i] \in Message
    BY <1>2, <2>1, ElementOfSeq
  <2>3. rest = SubSeq(long, first, last)
    OBVIOUS
  <2>. HIDE DEF first, last, rest
  <2>4. /\ rest \in Seq(Message)
        /\ Len(rest) = IF first <= last THEN last - first + 1 ELSE 0
        /\ \A i \in 1 .. last - first + 1 : rest[i] = long[first + i - 1]
    BY <2>1, <2>2, <2>3, SubSeqProperties
  <2>. QED  BY <2>1, <2>4 DEF first
<1>6. ASSUME NEW i \in 1 .. 2 * (k - c) PROVE rest[i] = long[1 + (2 * c + i)]
  <2>1. rest[i] = long[(2 + 2 * c) + i - 1]
    BY <1>5
  <2>2. 2 + 2 * c + i - 1 = 1 + (2 * c + i)
    BY <1>1
  <2>. QED  BY <2>1, <2>2
<1>. HIDE DEF rest
<1>7. ASSUME NEW i \in 1 .. 2 * (k - c) PROVE rest[i] = short[1 + i]
  <2>1. rest[i] = Item(ex, k, 2 * c + i)
    BY <1>2, <1>4, <1>6
  <2>. QED  BY <1>3, <1>4, <2>1
<1>8. Head(long) = Instruction
  BY <1>1, <1>2
<1>9. <<Instruction>> \in Seq(Message) /\ Len(<<Instruction>>) = 1
  BY DEF Instruction, Message
<1>10. /\ <<Instruction>> \o rest \in Seq(Message) /\ Len(<<Instruction>> \o rest) = Len(short)
       /\ (<<Instruction>> \o rest)[1] = Instruction
       /\ \A i \in 1 .. 2 * (k - c) : (<<Instruction>> \o rest)[1 + i] = rest[i]
  <2>1. /\ <<Instruction>> \o rest \in Seq(Message)
        /\ Len(<<Instruction>> \o rest) = Len(<<Instruction>>) + Len(rest)
        /\ \A i \in 1 .. Len(<<Instruction>>) + Len(rest) :
              (<<Instruction>> \o rest)[i] =
                  IF i <= Len(<<Instruction>>) THEN <<Instruction>>[i] ELSE rest[i - Len(<<Instruction>>)]
    BY <1>5, <1>9, ConcatProperties
  <2>. QED  BY <1>1, <1>3, <1>5, <1>9, <2>1
<1>11. ASSUME NEW i \in 1 .. Len(short) PROVE short[i] = (<<Instruction>> \o rest)[i]
  <2>1. CASE i = 1
    BY <1>3, <1>10, <2>1
  <2>2. CASE i # 1
    <3>1. i - 1 \in 1 .. 2 * (k - c) /\ i = 1 + (i - 1)
      BY <1>1, <1>3, <2>2
    <3>2. (<<Instruction>> \o rest)[1 + (i - 1)] = rest[i - 1]
      BY <1>10, <3>1
    <3>. QED  BY <1>7, <3>1, <3>2
  <2>. QED  BY <2>1, <2>2
<1>12. short = <<Instruction>> \o rest
  BY <1>3, <1>10, <1>11, SeqEqual
<1>. QED  BY <1>2, <1>8, <1>12 DEF long, short, rest

LEMMA FiniteImage ==
    ASSUME NEW S, IsFiniteSet(S), NEW f, f = [x \in S |-> f[x]]
    PROVE  IsFiniteSet({f[x] : x \in S})
<1>. DEFINE T == {f[x] : x \in S}
<1>1. f \in [S -> T] /\ \A t \in T : \E x \in S : f[x] = t
  OBVIOUS
<1>2. f \in Surjection(S, T)
  BY <1>1 DEF Surjection
<1>. QED  BY <1>2, FS_Surjection

(* A conversation has a size, and no smaller one with messages more. *)
LEMMA SizeGrows ==
    ASSUME NEW ms \in Seq(Message), NEW both \in Seq(Message),
           Len(ms) <= Len(both), \A i \in 1 .. Len(ms) : both[i] = ms[i]
    PROVE  /\ EstimateTokens(ms) \in Nat /\ EstimateTokens(both) \in Nat
           /\ EstimateTokens(ms) <= EstimateTokens(both)
<1>. DEFINE Part(s) == [i \in DOMAIN s |-> {i} \X (1 .. s[i].size)]
            Units(s) == UNION {Part(s)[i] : i \in DOMAIN s}
<1>1. ASSUME NEW s \in Seq(Message)
      PROVE  /\ IsFiniteSet(Units(s))
             /\ EstimateTokens(s) = Cardinality(Units(s))
  <2>1. DOMAIN s = 1 .. Len(s) /\ IsFiniteSet(DOMAIN s)
    BY FS_Interval
  <2>2. ASSUME NEW i \in DOMAIN s PROVE IsFiniteSet(Part(s)[i])
    <3>1. s[i] \in Message
      BY <2>1
    <3>2. s[i].size \in Nat
      BY <3>1 DEF Message
    <3>3. IsFiniteSet(1 .. s[i].size)
      BY <3>2, FS_Interval
    <3>4. IsFiniteSet({i})
      BY FS_Singleton
    <3>5. IsFiniteSet({i} \X (1 .. s[i].size))
      BY <3>3, <3>4, FS_Product
    <3>. QED  BY <3>5
  <2>3. IsFiniteSet({Part(s)[i] : i \in DOMAIN s})
    <3>1. Part(s) = [i \in DOMAIN s |-> Part(s)[i]]
      OBVIOUS
    <3>. HIDE DEF Part
    <3>. QED  BY <2>1, <3>1, FiniteImage
  <2>4. IsFiniteSet(Units(s))
    <3>. HIDE DEF Part
    <3>. QED  BY <2>2, <2>3, FS_UNION
  <2>5. {Part(s)[i] : i \in DOMAIN s} = {{i} \X (1 .. s[i].size) : i \in DOMAIN s}
    OBVIOUS
  <2>6. EstimateTokens(s) = Cardinality(Units(s))
    BY <2>5 DEF EstimateTokens
  <2>. QED  BY <2>4, <2>6
<1>2. Units(ms) \subseteq Units(both)
  <2>1. \A i \in DOMAIN ms : i \in DOMAIN both /\ Part(both)[i] = Part(ms)[i]
    OBVIOUS
  <2>. HIDE DEF Part
  <2>. QED  BY <2>1
<1>. HIDE DEF Units
<1>. QED  BY <1>1, <1>2, FS_Subset, FS_CardinalityType

(* What fits with an exchange more fits without it. *)
LEMMA FitsWithout ==
    ASSUME NEW ex \in Seq(Nat), NEW r \in Nat,
        NEW k \in 0 .. Len(ex), Fits(Append(ex, r), k + 1)
    PROVE  Fits(ex, k)
<1>. DEFINE new == <<Reply(Len(ex) + 1), Feedback(Len(ex) + 1, r)>>
            old == Latest(ex, k)
<1>1. CASE k = 0
  BY <1>1 DEF Fits
<1>2. CASE k # 0
  <2>1. k \in Nat /\ ~(k + 1 <= 1)
    BY <1>2
  <2>2. EstimateTokens(Latest(Append(ex, r), k + 1)) <= Budget
    BY <2>1 DEF Fits
  <2>3. Latest(Append(ex, r), k + 1) = old \o new
    BY LatestGrows
  <2>4. old \in Seq(Message) /\ new \in Seq(Message)
    BY LatestIs DEF Reply, Feedback, Message
  <2>. HIDE DEF new, old
  <2>5. /\ old \o new \in Seq(Message) /\ Len(old) <= Len(old \o new)
        /\ \A i \in 1 .. Len(old) : (old \o new)[i] = old[i]
    <3>1. Len(old) \in Nat /\ Len(new) \in Nat
      BY <2>4
    <3>. QED  BY <2>4, <3>1, ConcatProperties
  <2>6. /\ EstimateTokens(old) \in Nat /\ EstimateTokens(old \o new) \in Nat
        /\ EstimateTokens(old) <= EstimateTokens(old \o new)
    BY <2>4, <2>5, SizeGrows
  <2>7. EstimateTokens(old) <= Budget
    <3>1. EstimateTokens(old \o new) <= Budget
      BY <2>2, <2>3
    <3>. QED  BY <2>6, <3>1, ExecutorsAssumption
  <2>. QED  BY <2>7 DEF Fits, old
<1>. QED  BY <1>1, <1>2

(* Cutting the longest that fitted before, with an exchange more, leaves   *)
(* the longest that fits now.                                              *)
LEMMA TrimLongest ==
    ASSUME NEW ex \in Seq(Nat), NEW r \in Nat, NEW k \in Nat, Longest(ex, k)
    PROVE  \E m \in Nat :
              /\ Longest(Append(ex, r), m)
              /\ Trim(Latest(ex, k) \o <<Reply(Len(ex) + 1), Feedback(Len(ex) + 1, r)>>) =
                    Latest(Append(ex, r), m)
<1>. DEFINE more == Append(ex, r)
            K == k + 1
            ms == Latest(more, K)
            Cut(c) == <<Head(ms)>> \o SubSeq(ms, 2 + 2 * c, Len(ms))
            Stops(c) == Len(Cut(c)) <= 3 \/ EstimateTokens(Cut(c)) <= Budget
            First(c) == Stops(c) /\ \A j \in 0 .. c - 1 : ~Stops(j)
            least == CHOOSE c \in 0 .. Len(ms) \div 2 : First(c)
<1>1. k \in 0 .. Len(ex) /\ \A j \in 0 .. Len(ex) : Fits(ex, j) => j <= k
  BY DEF Longest
<1>2. more \in Seq(Nat) /\ Len(more) = Len(ex) + 1 /\ K \in 0 .. Len(more) /\ K \in Nat /\ Len(ex) \in Nat
  BY <1>1
<1>3. ms = Latest(ex, k) \o <<Reply(Len(ex) + 1), Feedback(Len(ex) + 1, r)>>
  BY <1>1, LatestGrows
<1>4. ASSUME NEW j \in 1 .. Len(more), Fits(more, j) PROVE j <= K
  <2>1. j - 1 \in 0 .. Len(ex) /\ (j - 1) + 1 = j
    BY <1>2
  <2>2. Fits(ex, j - 1)
    BY <1>4, <2>1, FitsWithout
  <2>. QED  BY <1>1, <1>2, <2>1, <2>2
<1>5. Trim(ms) = Cut(least)
  BY DEF Trim
<1>. HIDE DEF more
<1>6. ms \in Seq(Message) /\ Len(ms) = 1 + 2 * K
  BY <1>2, LatestIs
<1>7. Len(ms) \div 2 = K
  <2>1. \A n \in Nat : (1 + 2 * n) \div 2 = n
    OBVIOUS
  <2>. HIDE DEF K, ms
  <2>. QED  BY <1>2, <1>6, <2>1
<1>8. ASSUME NEW c \in 0 .. K
      PROVE  Cut(c) = Latest(more, K - c) /\ (Stops(c) <=> Fits(more, K - c))
  <2>1. Cut(c) = Latest(more, K - c)
    BY <1>2, LatestCut
  <2>2. K - c \in 0 .. Len(more)
    BY <1>2
  <2>3. Len(Latest(more, K - c)) = 1 + 2 * (K - c)
    BY <1>2, <2>2, LatestIs
  <2>4. 1 + 2 * (K - c) <= 3 <=> K - c <= 1
    BY <1>2
  <2>5. Stops(c) <=> Fits(more, K - c)
    <3>. HIDE DEF Cut
    <3>. QED  BY <2>1, <2>3, <2>4 DEF Fits
  <2>. QED  BY <2>1, <2>5
<1>. HIDE DEF ms, K, Cut, Stops
<1>9. \E c \in 0 .. K : First(c)
  <2>. DEFINE T == {c \in 0 .. K : Stops(c)}
  <2>1. K \in T
    <3>1. K \in 0 .. K /\ K - K = 0
      BY <1>2
    <3>2. Fits(more, 0)
      BY DEF Fits
    <3>. QED  BY <1>8, <3>1, <3>2
  <2>2. T \in SUBSET Nat
    OBVIOUS
  <2>3. PICK c \in T : \A j \in T : c <= j
    <3>. HIDE DEF T
    <3>. QED  BY <2>1, <2>2, LeastThere
  <2>4. \A j \in 0 .. c - 1 : ~Stops(j)
    <3>1. c \in 0 .. K
      BY <2>3
    <3>2. \A j \in 0 .. c - 1 : j \in 0 .. K /\ ~(c <= j)
      BY <1>2, <3>1
    <3>. QED  BY <2>3, <3>2
  <2>. QED  BY <2>3, <2>4
<1>10. least \in 0 .. K /\ First(least)
  <2>1. least = CHOOSE c \in 0 .. K : First(c)
    BY <1>7
  <2>. HIDE DEF First, least
  <2>. QED  BY <1>9, <2>1
<1>. HIDE DEF least
<1>11. K - least \in Nat /\ K - least \in 0 .. Len(more)
  BY <1>2, <1>10
<1>12. Longest(more, K - least)
  <2>1. Fits(more, K - least)
    BY <1>8, <1>10
  <2>2. ASSUME NEW j \in 0 .. Len(more), Fits(more, j) PROVE j <= K - least
    <3>1. CASE j = 0
      BY <1>11, <3>1
    <3>2. CASE j # 0
      <4>1. j \in 1 .. Len(more) /\ j \in Nat
        BY <1>2, <3>2
      <4>2. j <= K
        BY <1>4, <2>2, <4>1
      <4>3. K - j \in 0 .. K /\ K - (K - j) = j
        BY <1>2, <4>1, <4>2
      <4>4. Stops(K - j)
        <5>1. Stops(K - j) <=> Fits(more, K - (K - j))
          BY <1>8, <4>3
        <5>. QED  BY <2>2, <4>3, <5>1
      <4>5. ~(K - j \in 0 .. least - 1)
        BY <1>10, <4>4
      <4>. QED  BY <1>2, <1>10, <4>1, <4>3, <4>5
    <3>. QED  BY <3>1, <3>2
  <2>. QED  BY <1>11, <2>1, <2>2 DEF Longest
<1>13. Trim(ms) = Latest(more, K - least)
  BY <1>5, <1>8, <1>10
<1>. QED  BY <1>3, <1>11, <1>12, <1>13 DEF more
-----------------------------------------------------------------------------
LEMMA PromptLoopStep ==
    ASSUME RangeInv, StepInv, PromptInv, RunLoop
    PROVE  PromptInv'
<1>1. exchanges \in Seq(Nat) /\ round \in Nat /\ step \in Nat /\ Len(exchanges) \in Nat
  BY DEF RangeInv
<1>2. CASE StartLoop
  <2>1. at' = "ask" /\ step' = 0 /\ exchanges' = exchanges /\ messages' = <<Instruction>> /\ exchanges = <<>>
    BY <1>1, <1>2 DEF StartLoop, Goto, StepInv
  <2>2. Latest(<<>>, 0) \in Seq(Message) /\ Len(Latest(<<>>, 0)) = 1 /\ Latest(<<>>, 0)[1] = Instruction
    <3>1. <<>> \in Seq(Nat) /\ 0 \in 0 .. Len(<<>>) /\ 1 + 2 * 0 = 1
      OBVIOUS
    <3>. QED  BY <3>1, LatestIs
  <2>3. <<Instruction>> \in Seq(Message)
    BY DEF Instruction, Message
  <2>4. Latest(<<>>, 0) = <<Instruction>>
    BY <2>2, <2>3, SeqEqual
  <2>5. Longest(<<>>, 0)
    BY DEF Longest, Fits
  <2>6. Len(exchanges') = 0
    BY <2>1
  <2>. QED  BY <2>1, <2>4, <2>5, <2>6 DEF PromptInv
<1>3. CASE ModelReplies
  <2>1. at = "ask" /\ at' = "act" /\ step' = step + 1 /\ exchanges' = exchanges /\ messages' = messages
    BY <1>3 DEF ModelReplies, Goto
  <2>. QED  BY <1>1, <2>1 DEF PromptInv
<1>4. CASE ModelFails \/ Report
  <2>1. at' = "ended"
    BY <1>4, Listed DEF ModelFails, Report, Return, Goto
  <2>. QED  BY <2>1 DEF PromptInv
<1>5. CASE RefuseAction \/ FileAction \/ ShellAction
  <2>1. UNCHANGED <<at, step, exchanges, messages>>
    BY <1>5 DEF RefuseAction, FileAction, ShellAction, Result
  <2>. QED  BY <2>1 DEF PromptInv
<1>6. CASE Collect
  <2>1. at = "act" /\ at' \in {"report", "ask"} /\ step' = step /\ Len(exchanges) = step - 1
    BY <1>6 DEF Collect, Goto, PromptInv
  <2>2. CASE round = 0
    BY <1>6, <2>2 DEF Collect, Goto, PromptInv
  <2>3. CASE round # 0
    <3>1. /\ exchanges' = Append(exchanges, round)
          /\ messages' = Trim(messages \o <<Reply(step), Feedback(step, round)>>)
      BY <1>6, <2>3 DEF Collect
    <3>2. PICK k \in Nat : Longest(exchanges, k) /\ messages = Latest(exchanges, k)
      BY <2>1 DEF PromptInv
    <3>3. step = Len(exchanges) + 1
      BY <1>1, <2>1
    <3>4. \E m \in Nat : Longest(exchanges', m) /\ messages' = Latest(exchanges', m)
      BY <1>1, <3>1, <3>2, <3>3, TrimLongest
    <3>5. Len(exchanges') = step
      BY <1>1, <3>1, <3>3
    <3>. QED  BY <2>1, <3>4, <3>5 DEF PromptInv
  <2>. QED  BY <2>2, <2>3
<1>. QED  BY <1>2, <1>3, <1>4, <1>5, <1>6 DEF RunLoop, Loop

LEMMA PromptStep == RangeInv /\ StepInv /\ PromptInv /\ [Next]_vars => PromptInv'
<1>. SUFFICES ASSUME RangeInv, StepInv, PromptInv, [Next]_vars PROVE PromptInv'
  OBVIOUS
<1>1. CASE RunLoop
  BY <1>1, PromptLoopStep
<1>2. CASE RunTool
  <2>1. at' \notin {"ask", "act"}
    BY <1>2, Listed
       DEF RunTool, Tool, FailEarly, MakeScratch, WriteMessage, WriteOpencodeConfig,
           BuildDockerRun,
                RunHere, ToolWrites, ToolExits, ToolTimeout, CleanUp, Goto, Return
  <2>. QED  BY <2>1 DEF PromptInv
<1>3. CASE Outlive \/ UNCHANGED vars
  <2>1. UNCHANGED <<loopVars, at>>
    BY <1>3, OutliveStep DEF vars, attemptVars
  <2>. QED  BY <2>1 DEF loopVars, PromptInv
<1>4. CASE StartRun
  <2>1. at' \in {"builtin", "external"}
    BY <1>4, RunStarts
  <2>. QED  BY <2>1 DEF PromptInv
<1>5. CASE RunAgain \/ Accept \/ TestFails \/ NextRung \/ GiveUp \/ CutOff \/ Retry
  <2>1. at' \in {"start", "over", "rejected"}
    BY <1>5 DEF RunAgain, Accept, TestFails, NextRung, GiveUp, CutOff, Retry, Goto
  <2>. QED  BY <2>1 DEF PromptInv
<1>. QED  BY <1>1, <1>2, <1>3, <1>4, <1>5 DEF Next, Advance
-----------------------------------------------------------------------------
LEMMA Invariance == Spec => []IInv
<1>1. IInv /\ [Next]_vars => IInv'
  BY RangeStep, StepStep, CountStep, OwnStep, ScratchStep, PromptStep DEF IInv
<1>. QED  BY InitIInv, <1>1, PTL DEF Spec

(* No execution has more runs than the ladder's steps have tries. *)
LEMMA RunsBounded == RangeInv /\ CountInv => run <= MaxExecutions * Len(Rungs) * (PhaseRetries + 1)
<1>. SUFFICES ASSUME RangeInv, CountInv
              PROVE  run <= MaxExecutions * Len(Rungs) * (PhaseRetries + 1)
  OBVIOUS
<1>. DEFINE L == Len(Rungs)
            RunsOf(e) == e * L * (PhaseRetries + 1)
<1>1. /\ executions \in Nat \ {0} /\ rung \in 1 .. L /\ run \in Nat /\ executions <= MaxExecutions
      /\ tries \in Nat /\ tries <= PhaseRetries /\ PhaseRetries \in Nat /\ MaxExecutions \in Nat /\ L \in Nat
  BY ExecutorsAssumption DEF RangeInv
<1>2. Earlier = UpTo(executions, rung)
  BY DEF Earlier, UpTo
<1>3. Earlier \in Nat /\ Earlier + PhaseRetries + 1 <= RunsOf(executions)
  BY <1>1, <1>2, UpToGrows
<1>4. run <= Earlier + PhaseRetries + 1
  BY <1>1, <1>3 DEF CountInv
<1>5. executions * L * (PhaseRetries + 1) <= MaxExecutions * L * (PhaseRetries + 1)
  <2>. HIDE DEF L
  <2>1. PICK d \in Nat : MaxExecutions = executions + d
    <3>1. MaxExecutions - executions \in Nat /\ MaxExecutions = executions + (MaxExecutions - executions)
      BY <1>1
    <3>. QED  BY <3>1
  <2>2. \A m, n \in Nat : m * n \in Nat
    OBVIOUS
  <2>3. MaxExecutions * L = executions * L + d * L /\ executions * L \in Nat /\ d * L \in Nat
    BY <1>1, <2>1, <2>2
  <2>4. \A m, n, k \in Nat : (m + n) * k = m * k + n * k
    OBVIOUS
  <2>5. (executions * L + d * L) * (PhaseRetries + 1) =
            executions * L * (PhaseRetries + 1) + d * L * (PhaseRetries + 1)
    BY <1>1, <2>3, <2>4
  <2>6. d * L * (PhaseRetries + 1) \in Nat /\ executions * L * (PhaseRetries + 1) \in Nat
    BY <1>1, <2>2, <2>3
  <2>. QED  BY <2>3, <2>5, <2>6
<1>6. RunsOf(executions) \in Int /\ RunsOf(MaxExecutions) \in Int
  <2>1. \A m, n \in Nat : m * n \in Nat
    OBVIOUS
  <2>. QED  BY <1>1, <2>1
<1>. QED  BY <1>1, <1>3, <1>4, <1>5, <1>6

(* Every variable keeps its range: no run asks a model more often than     *)
(* max_steps allows, and no execution runs more often than its ladder.     *)
THEOREM TypeCorrect == Spec => []TypeOK
<1>1. IInv => TypeOK
  <2>. SUFFICES ASSUME IInv PROVE TypeOK
    OBVIOUS
  <2>1. RangeInv /\ StepInv /\ ScratchInv
    BY DEF IInv
  <2>2. MaxExecutions * Len(Rungs) * (PhaseRetries + 1) \in Nat
    <3>1. \A m, n \in Nat : m * n \in Nat
      OBVIOUS
    <3>. QED  BY <3>1, ExecutorsAssumption
  <2>3. run \in 0 .. MaxExecutions * Len(Rungs) * (PhaseRetries + 1)
    BY <2>1, <2>2, RunsBounded DEF IInv, RangeInv
  <2>4. outcome.status \in {"none", "ok", "err"} /\ outcome.files \subseteq Paths
    BY <2>1 DEF RangeInv, Outcomes
  <2>5. step \in 0 .. IF MaxSteps = 0 THEN 1 ELSE MaxSteps
    BY <2>1, ExecutorsAssumption DEF RangeInv, StepInv
  <2>6. \A f \in DOMAIN scratch : f \in Files /\ scratch[f] \in 1 .. run
    BY <2>1 DEF ScratchInv
  <2>. QED  BY <2>1, <2>3, <2>4, <2>5, <2>6 DEF TypeOK, RangeInv, StepInv
<1>. QED  BY <1>1, Invariance, PTL

(* A tool reads the message, the configuration and the command of its own  *)
(* run, whatever runs before it have left in the directory.                *)
THEOREM ReadsItsOwn == Spec => []OwnInstruction
<1>1. IInv => OwnInstruction
  BY DEF IInv, ScratchInv, Written, OwnInstruction
<1>. QED  BY <1>1, Invariance, PTL

(* Where every discard of a clone has worked, what verify() counts for a   *)
(* step of the ladder was made by that step, or is in git's index, or was  *)
(* written by a process that outlived its run.                             *)
THEOREM ChangesAttributed == Spec => []Attributed
<1>1. IInv => Attributed
  BY DEF IInv, OwnInv, Known, Attributed
<1>. QED  BY <1>1, Invariance, PTL

(* The conversation that reaches a model is the instruction and the latest *)
(* exchanges in their order, each reply before its results: the most of    *)
(* them that fit the context, and one at the least, whatever has been cut  *)
(* from it one exchange after the other.                                   *)
THEOREM PromptWhole == Spec => []PromptIsWhole
<1>1. IInv => PromptIsWhole
  <2>. SUFFICES ASSUME IInv, at = "ask" PROVE PromptIsWhole
    BY DEF PromptIsWhole
  <2>1. PICK k \in Nat : Longest(exchanges, k) /\ messages = Latest(exchanges, k)
    BY DEF IInv, PromptInv
  <2>. DEFINE fitting == {j \in 0 .. Len(exchanges) : Fits(exchanges, j)}
              longest == CHOOSE j \in fitting : \A i \in fitting : i <= j
  <2>2. k \in fitting /\ \A i \in fitting : i <= k
    BY <2>1 DEF Longest
  <2>3. \A i \in fitting : i \in Int
    OBVIOUS
  <2>4. longest = k
    <3>1. \A j \in fitting : (\A i \in fitting : i <= j) => j = k
      <4>. HIDE DEF fitting
      <4>. QED  BY <2>2, <2>3
    <3>. HIDE DEF fitting
    <3>. QED  BY <2>2, <3>1
  <2>5. messages = Latest(exchanges, longest)
    BY <2>1, <2>4
  <2>. QED  BY <2>5 DEF PromptIsWhole, Latest, Item, Fits
<1>. QED  BY <1>1, Invariance, PTL
=============================================================================
