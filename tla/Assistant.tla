------------------------------ MODULE Assistant ------------------------------
(***************************************************************************)
(* The button assistants of crates/oreia-seca/src/maker/commands.rs:       *)
(* /issue asks for title, description and branch, /assign for a number,    *)
(* the button of /prs for the change wanted, each in a message of its own. *)
(* What comes next in a session is kept in `pending`, one entry a session. *)
(* main() spawns a handler for every message, so handlers of one session   *)
(* run side by side; taking an entry and putting one in are each a step    *)
(* under the lock, and calls to Forgejo and to the channels lie between.   *)
(***************************************************************************)
EXTENDS Integers, Sequences, FiniteSets

CONSTANTS
    Messages,       (* the messages there may be                             *)
    SessionKeys,    (* session keys                                          *)
    SessionOf(_),   (* the session a message belongs to                      *)
    Nothing         (* no entry                                              *)

Steps == {"title", "body", "branch", "number", "changes"}

(* An entry: the question that is open, the command that began it, and the *)
(* messages that answered it so far.                                       *)
Entry(step, by, answers) == [step |-> step, by |-> by, answers |-> answers]

Entries == [step : Steps \cup {"direct", "complete"}, by : Messages, answers : Seq(Messages)]

ASSUME AssistantAssumption == Nothing \notin Entries

VARIABLES
    pending,        (* the entry of each session                             *)
    at,             (* where the handler of each message is                  *)
    held,           (* the entry a handler carries                           *)
    outcome,        (* what came of each message                             *)
    issues,         (* issues opened, with the answers they are made of      *)
    abandoned,      (* History: assistants open when a command was handled   *)
    life            (* History: how often the process has started again      *)

assistVars == <<pending, at, held, outcome, issues, abandoned, life>>

(* Commands that open an assistant, with its first question: /issue and    *)
(* /assign without their last arguments, and the hidden /changes-ask.      *)
Opens == [issue_ask |-> "title", assign_ask |-> "number", changes_ask |-> "changes"]

(* Commands that say all in one line, and the calls they lead to. *)
Direct == [issue |-> "creating", assign |-> "labelling",
           merge |-> "approving", changes |-> "reviewing"]

IsCommand(input) ==
    input \in DOMAIN Opens \cup DOMAIN Direct \cup {"/status"}

Goto(m, place) == at' = [at EXCEPT ![m] = place]

Finish(m, what) ==
    /\ Goto(m, "done")
    /\ outcome' = [outcome EXCEPT ![m] = what]

(* Assistants of a session that wait for an answer or for their entry. *)
OpenIn(s) ==
    {pending[t].by : t \in {t \in {s} : pending[t] # Nothing}}
    \cup {held[m].by : m \in {m \in Messages :
              SessionOf(m) = s /\ at[m] \in {"storing", "branches"} /\ held[m] # Nothing}}

(* Slip: the entry is read where it should be removed. *)
TakenCopied(s) == pending

(* pending.remove(session) *)
Taken(s) == [pending EXCEPT ![s] = Nothing]

SpawnHandler(m) ==
    /\ at[m] = "none"
    /\ Goto(m, "spawned")
    /\ UNCHANGED <<pending, held, outcome, issues, abandoned, life>>

(* handle_inner() with a command: it takes the entry of its session away,  *)
(* then does what it says.                                                 *)
HandleCommand(m, input) ==
    /\ at[m] = "spawned"
    /\ IsCommand(input)
    /\ pending' = Taken(SessionOf(m))
    /\ abandoned' = abandoned \cup OpenIn(SessionOf(m))
    /\ \/ /\ input \in DOMAIN Opens
          /\ held' = [held EXCEPT ![m] = Entry(Opens[input], m, <<>>)]
          /\ Goto(m, "storing")
          /\ UNCHANGED outcome
       \/ /\ input \in DOMAIN Direct
          /\ held' = [held EXCEPT ![m] = Entry("direct", m, <<>>)]
          /\ Goto(m, Direct[input])
          /\ UNCHANGED outcome
       \/ /\ input = "/status"
          /\ Finish(m, "replied")
          /\ UNCHANGED held
    /\ UNCHANGED <<issues, life>>

(* handle_inner() with free text: the entry, if there is one, is taken and *)
(* resolved (resolve_pending); without one the text starts a task or a     *)
(* conversation.                                                           *)
HandleText(m, input) ==
    LET s == SessionOf(m)
        p == pending[s]
        Answered(step) == Entry(step, p.by, Append(p.answers, m))
        Carry(entry, place) ==
            held' = [held EXCEPT ![m] = entry] /\ Goto(m, place) /\ UNCHANGED outcome
    IN  /\ at[m] = "spawned"
        /\ ~IsCommand(input)
        /\ pending' = Taken(s)
        /\ IF p = Nothing THEN Finish(m, "chat") /\ UNCHANGED held
           ELSE CASE p.step = "title" -> Carry(Answered("body"), "storing")
                  [] p.step = "body" -> Carry(Answered("branch"), "branches")
                  [] p.step = "branch" -> Carry(Answered("complete"), "creating")
                  [] p.step = "changes" -> Carry(Answered("complete"), "reviewing")
                  [] p.step = "number" ->
                       IF input = "11" THEN Finish(m, "picked") /\ UNCHANGED held
                       ELSE Carry(p, "storing")
        /\ UNCHANGED <<issues, abandoned, life>>

(* ask_branch() has asked Forgejo and shown the branches, or a question. *)
ShowBranches(m) ==
    /\ at[m] = "branches"
    /\ Goto(m, "storing")
    /\ UNCHANGED <<pending, held, outcome, issues, abandoned, life>>

(* The entry goes in, over one that may be there. *)
Store(m) ==
    /\ at[m] = "storing"
    /\ pending' = [pending EXCEPT ![SessionOf(m)] = held[m]]
    /\ held' = [held EXCEPT ![m] = Nothing]
    /\ Finish(m, "asked")
    /\ UNCHANGED <<issues, abandoned, life>>

(* A call to Forgejo fails, the agent or its label does not exist: a reply *)
(* says so, and what the assistant had gathered is gone.                   *)
CallFails(m) ==
    /\ at[m] \in {"creating", "labelling", "reviewing", "merging"}
    /\ held' = [held EXCEPT ![m] = Nothing]
    /\ Finish(m, "failed")
    /\ UNCHANGED <<pending, issues, abandoned, life>>

(* create_issue_and_reply() *)
CreateIssue(m) ==
    /\ at[m] = "creating"
    /\ issues' = issues \cup {[life |-> life, by |-> held[m].by, answers |-> held[m].answers]}
    /\ held' = [held EXCEPT ![m] = Nothing]
    /\ Finish(m, "issue")
    /\ UNCHANGED <<pending, abandoned, life>>

(* assign_and_reply(), and run_changes() up to the agent's dispatch. *)
AddLabelOrReview(m) ==
    /\ at[m] \in {"labelling", "reviewing"}
    /\ held' = [held EXCEPT ![m] = Nothing]
    /\ Finish(m, IF at[m] = "labelling" THEN "labelled" ELSE "dispatched")
    /\ UNCHANGED <<pending, issues, abandoned, life>>

(* /merge: the approving review may fail, the merge is tried anyway. *)
Approve(m) ==
    /\ at[m] = "approving"
    /\ Goto(m, "merging")
    /\ UNCHANGED <<pending, held, outcome, issues, abandoned, life>>

Merge(m) ==
    /\ at[m] = "merging"
    /\ held' = [held EXCEPT ![m] = Nothing]
    /\ Finish(m, "merged")
    /\ UNCHANGED <<pending, issues, abandoned, life>>

(* The process starts again: `pending` is only in memory. *)
Forget ==
    /\ pending' = [s \in SessionKeys |-> Nothing]
    /\ at' = [m \in Messages |-> "none"]
    /\ held' = [m \in Messages |-> Nothing]
    /\ outcome' = [m \in Messages |-> "none"]
    /\ abandoned' = {}
    /\ life' = life + 1
    /\ UNCHANGED issues

AssistInit ==
    /\ pending = [s \in SessionKeys |-> Nothing]
    /\ at = [m \in Messages |-> "none"]
    /\ held = [m \in Messages |-> Nothing]
    /\ outcome = [m \in Messages |-> "none"]
    /\ issues = {}
    /\ abandoned = {}
    /\ life = 0

(* What the handler of m does after it has looked at its message. *)
Work(m) ==
    \/ ShowBranches(m) \/ Store(m) \/ CallFails(m) \/ CreateIssue(m)
    \/ AddLabelOrReview(m) \/ Approve(m) \/ Merge(m)
=============================================================================
