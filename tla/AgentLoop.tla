------------------------------ MODULE AgentLoop ------------------------------
(***************************************************************************)
(* The built-in executor (crates/oreia-seca/src/executor/builtin.rs): ask  *)
(* the model, run the actions its reply holds, hand the results back, and  *)
(* again until a reply holds none.  The conversation is cut to the model's *)
(* context by dropping its oldest exchanges.  Actions are those of         *)
(* crates/oreia-core/src/actions (mod.rs, builtin.rs, parser.rs).          *)
(***************************************************************************)
EXTENDS Attempt

CONSTANTS
    Replies,        (* what a model may answer: sequences of blocks          *)
    MaxSteps,       (* [executor] max_steps                                  *)
    Budget          (* context, less the reserve and the system prompt       *)

VARIABLES
    messages,       (* the conversation that is sent                         *)
    step,           (* replies so far                                        *)
    todo,           (* blocks of the reply not run yet                       *)
    round,          (* how many results this reply has so far                *)
    exchanges       (* History: the exchanges of the run, cut or not         *)

loopVars == <<messages, step, todo, round, exchanges>>

(* Sizes, in units of estimate_tokens(): the results grow with the actions. *)
Instruction == [role |-> "user", round |-> 0, size |-> 1]
Reply(n) == [role |-> "assistant", round |-> n, size |-> 1]
Feedback(n, count) == [role |-> "user", round |-> n, size |-> count]

(* Their sum: one pair for each unit of each message. *)
EstimateTokens(ms) == Cardinality(UNION {{i} \X (1 .. ms[i].size) : i \in DOMAIN ms})

(* parse_actions(): the parameters of a block, wherever it gives them; its *)
(* lines count only when it has neither attributes nor tags.               *)
ParamsOf(b) ==
    LET tagged == b.attr \cup b.param \cup b.tag
    IN  tagged \cup (IF tagged = {} THEN b.line ELSE {}) \cup b.json

Required == [file_write |-> {"path", "content"}, file_read |-> {"path"},
             shell |-> {"command"}]

(* confine(): an absolute path, or one with "..", is refused. *)
Confined(p) == p \in Paths

Runs(b) == b.name \in DOMAIN Required /\ Required[b.name] \subseteq ParamsOf(b)

(* Slip: drain(1..2), a message where an exchange should go. *)
TrimHalf(ms) ==
    LET Cut(k) == <<Head(ms)>> \o SubSeq(ms, 2 + k, Len(ms))
        Stops(k) == Len(Cut(k)) <= 3 \/ EstimateTokens(Cut(k)) <= Budget
    IN  Cut(CHOOSE k \in 0 .. Len(ms) : Stops(k) /\ \A j \in 0 .. k - 1 : ~Stops(j))

(* while messages.len() > 3 && estimate > budget { messages.drain(1..3) } *)
Trim(ms) ==
    LET Cut(k) == <<Head(ms)>> \o SubSeq(ms, 2 + 2 * k, Len(ms))
        Stops(k) == Len(Cut(k)) <= 3 \/ EstimateTokens(Cut(k)) <= Budget
    IN  Cut(CHOOSE k \in 0 .. Len(ms) \div 2 :
                Stops(k) /\ \A j \in 0 .. k - 1 : ~Stops(j))

(* The run's own variables, when it returns. *)
Drop ==
    /\ messages' = <<>> /\ step' = 0 /\ todo' = <<>>
    /\ round' = 0 /\ exchanges' = <<>>

StartLoop ==
    /\ at = "builtin"
    /\ Goto("ask")
    /\ messages' = <<Instruction>>
    /\ UNCHANGED <<step, todo, round, exchanges>>
    /\ UNCHANGED <<run, clone, survivors, leaky, outcome>>

(* generate() answers. *)
ModelReplies ==
    /\ at = "ask"
    /\ \E reply \in Replies : todo' = reply
    /\ step' = step + 1
    /\ round' = 0
    /\ Goto("act")
    /\ UNCHANGED <<run, clone, survivors, leaky, outcome, messages, exchanges>>

(* generate() fails, on every model of the chain: the run fails, and what  *)
(* its actions did stays.                                                  *)
ModelFails ==
    /\ at = "ask"
    /\ Return(Failed)
    /\ Drop
    /\ UNCHANGED <<run, clone, survivors, leaky>>

(* The result of an action, good or bad. *)
Result ==
    /\ todo' = Tail(todo)
    /\ round' = round + 1
    /\ UNCHANGED <<run, at, outcome, messages, step, exchanges>>

(* An unknown action, a parameter that is missing, a path outside: a       *)
(* result that says so, and the next action.                               *)
RefuseAction ==
    /\ at = "act" /\ todo # <<>>
    /\ \/ ~Runs(Head(todo))
       \/ Head(todo).name # "shell" /\ ~Confined(Head(todo).path)
    /\ Result
    /\ UNCHANGED <<clone, survivors, leaky>>

FileAction ==
    /\ at = "act" /\ todo # <<>>
    /\ Runs(Head(todo)) /\ Head(todo).name # "shell" /\ Confined(Head(todo).path)
    /\ Result
    /\ \/ Head(todo).name = "file_write" /\ Writes(Head(todo).path)
       \/ UNCHANGED clone
    /\ UNCHANGED <<survivors, leaky>>

(* run_command(): the command writes or not, and succeeds, fails or is cut *)
(* off by shell_timeout; however it ends, a process it has started and     *)
(* that holds none of its pipes may go on.                                 *)
ShellAction ==
    /\ at = "act" /\ todo # <<>>
    /\ Head(todo).name = "shell" /\ Runs(Head(todo))
    /\ Touch(run)
    /\ Result
    /\ KillShell

(* The reply is dealt with: without an action, or after the last step, the *)
(* loop is over; else the results go back to the model.                    *)
Collect ==
    /\ at = "act" /\ todo = <<>>
    /\ IF round = 0
       THEN UNCHANGED <<messages, exchanges>>
       ELSE /\ exchanges' = Append(exchanges, round)
            /\ messages' = Trim(messages \o <<Reply(step), Feedback(step, round)>>)
    /\ Goto(IF round = 0 \/ step >= MaxSteps THEN "report" ELSE "ask")
    /\ UNCHANGED <<run, clone, survivors, leaky, outcome, step, todo, round>>

Report ==
    /\ at = "report"
    /\ ReturnFiles
    /\ Drop
    /\ UNCHANGED <<run, clone, survivors, leaky>>

Loop ==
    \/ StartLoop \/ ModelReplies \/ ModelFails \/ RefuseAction \/ FileAction
    \/ ShellAction \/ Collect \/ Report
-----------------------------------------------------------------------------
(* The conversation that reaches a model is the phase's instruction and    *)
(* the latest exchanges, unbroken, each reply before its results: as many  *)
(* of them as fit, and one at the least.                                   *)
PromptIsWhole ==
    at = "ask" =>
        LET n == Len(exchanges)
            Latest(k) ==
                <<Instruction>> \o
                [i \in 1 .. 2 * k |->
                    LET e == n - k + (i + 1) \div 2
                    IN  IF i % 2 = 1 THEN Reply(e) ELSE Feedback(e, exchanges[e])]
            fitting == {k \in 0 .. n : k <= 1 \/ EstimateTokens(Latest(k)) <= Budget}
        IN  messages = Latest(CHOOSE k \in fitting : \A j \in fitting : j <= k)
=============================================================================
