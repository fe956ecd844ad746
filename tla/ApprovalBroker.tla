--------------------------- MODULE ApprovalBroker ---------------------------
(***************************************************************************)
(* Human approval, crates/oreia-core/src/approval.rs, with the callers     *)
(* that use it: a gated task (maker/mod.rs, start_task_inner) and an       *)
(* escalation step (maker/exec.rs, run_escalation).  Both first show the   *)
(* question on every human channel and only then call request(), which     *)
(* registers the question and waits for an answer or for the deadline.     *)
(*                                                                         *)
(* A call is one such exchange.  Ids are not unique to a call: an          *)
(* escalation id is built from task, phase and step, so a task that is     *)
(* executed again asks under the same id.                                  *)
(***************************************************************************)
EXTENDS Naturals, FiniteSets

CONSTANTS Calls, Ids, None

ASSUME BrokerAssumption == None \notin Calls /\ None \notin Ids

VARIABLES
    phase,     (* "idle", "asked", "waiting", "expiring", "done", "dropped"  *)
    idOf,      (* the id each call asks under                                *)
    pending,   (* the broker's table: which call's sender is under each id   *)
    channel,   (* the oneshot channel: "empty", "yes", "no" or "closed"      *)
    outcome,   (* what request() returned                                    *)
    accepted,  (* the answer respond() took for the call, returning true     *)
    missed     (* calls on show to which respond() said "nothing pending"    *)

vars == <<phase, idOf, pending, channel, outcome, accepted, missed>>

Answers == {"yes", "no"}
Over == {"done", "dropped"}
Phases == {"idle", "asked", "waiting", "expiring"} \cup Over

Init ==
    /\ phase = [c \in Calls |-> "idle"]
    /\ idOf = [c \in Calls |-> None]
    /\ pending = [i \in Ids |-> None]
    /\ channel = [c \in Calls |-> "empty"]
    /\ outcome = [c \in Calls |-> "none"]
    /\ accepted = [c \in Calls |-> "none"]
    /\ missed = {}

Move(c, from, to) ==
    /\ phase[c] = from
    /\ phase' = [phase EXCEPT ![c] = to]

(* A slip: the sender that is displaced goes on living. *)
KeepOldSender(i) == channel' = channel

(* Taking a sender out of the table, or writing another over it, drops it: *)
(* a receiver that has no value yet then sees a closed channel.            *)
CloseEntry(i) ==
    channel' = [c \in Calls |-> IF c = pending[i] /\ channel[c] = "empty"
                                THEN "closed" ELSE channel[c]]
-----------------------------------------------------------------------------
(* Slips: an action as a plausible mistake would leave it.                 *)
TakeAnyAnswer(c) ==
    /\ channel[c] # "empty"
    /\ Move(c, "waiting", "done")
    /\ outcome' = [outcome EXCEPT ![c] = IF channel[c] = "no" THEN "Rejected" ELSE "Approved"]
    /\ UNCHANGED <<idOf, pending, channel, accepted, missed>>

TakeUntranslated(c) ==
    /\ channel[c] # "empty"
    /\ Move(c, "waiting", "done")
    /\ outcome' = [outcome EXCEPT ![c] = channel[c]]
    /\ UNCHANGED <<idOf, pending, channel, accepted, missed>>
-----------------------------------------------------------------------------
(* ask_approval() on the human channels: from here on people can answer. *)
Ask(c, i) ==
    /\ Move(c, "idle", "asked")
    /\ idOf' = [idOf EXCEPT ![c] = i]
    /\ UNCHANGED <<pending, channel, outcome, accepted, missed>>

(* request(): insert() replaces whatever was registered under the id. *)
Register(c) ==
    /\ Move(c, "asked", "waiting")
    /\ CloseEntry(idOf[c])
    /\ pending' = [pending EXCEPT ![idOf[c]] = c]
    /\ UNCHANGED <<idOf, outcome, accepted, missed>>

(* respond() when the id is registered.  The send fails, unnoticed, if the *)
(* deadline has already dropped the receiver.                              *)
RespondTaken(i, answer) ==
    \E c \in Calls :
        /\ pending[i] = c
        /\ pending' = [pending EXCEPT ![i] = None]
        /\ channel' = [channel EXCEPT ![c] = IF phase[c] = "waiting" THEN answer ELSE @]
        /\ accepted' = [accepted EXCEPT ![c] = answer]
        /\ UNCHANGED <<phase, idOf, outcome, missed>>

(* respond() when it is not: "Nenhuma aprovação pendente para <id>". *)
RespondRefused(i) ==
    /\ pending[i] = None
    /\ missed' = missed \cup {c \in Calls : idOf[c] = i /\ phase[c] = "asked"}
    /\ UNCHANGED <<phase, idOf, pending, channel, outcome, accepted>>

(* Someone answers a question that has been shown, with a button or with   *)
(* /approve and /reject, as often as they like.                            *)
Respond(i, answer) ==
    /\ \E c \in Calls : idOf[c] = i
    /\ RespondTaken(i, answer) \/ RespondRefused(i)

(* The wait ends with what the channel holds; a closed one is a rejection. *)
Take(c) ==
    /\ channel[c] # "empty"
    /\ Move(c, "waiting", "done")
    /\ outcome' = [outcome EXCEPT ![c] = IF channel[c] = "yes" THEN "Approved" ELSE "Rejected"]
    /\ UNCHANGED <<idOf, pending, channel, accepted, missed>>

(* The deadline: timeout() polls the receiver first, so it gives up only   *)
(* on an empty channel.                                                    *)
Deadline(c) ==
    /\ channel[c] = "empty"
    /\ Move(c, "waiting", "expiring")
    /\ UNCHANGED <<idOf, pending, channel, outcome, accepted, missed>>

(* After the deadline, under a lock taken anew: remove the id, whoever     *)
(* registered it last.                                                     *)
Forget(c) ==
    /\ Move(c, "expiring", "done")
    /\ CloseEntry(idOf[c])
    /\ pending' = [pending EXCEPT ![idOf[c]] = None]
    /\ outcome' = [outcome EXCEPT ![c] = "Expired"]
    /\ UNCHANGED <<idOf, accepted, missed>>

(* An escalation step asks from within the queue: when the timeout of its  *)
(* task drops the call, the receiver goes and the sender stays in the      *)
(* table.                                                                  *)
Abandon(c) ==
    /\ Move(c, "asked", "dropped") \/ Move(c, "waiting", "dropped")
    /\ UNCHANGED <<idOf, pending, channel, outcome, accepted, missed>>
-----------------------------------------------------------------------------
Next ==
    \/ \E c \in Calls : \/ \E i \in Ids : Ask(c, i)
                        \/ Register(c) \/ Take(c) \/ Deadline(c) \/ Forget(c) \/ Abandon(c)
    \/ \E i \in Ids, answer \in Answers : Respond(i, answer)

Spec == Init /\ [][Next]_vars

-----------------------------------------------------------------------------
(* Every variable holds a value of its kind. *)
TypeOK ==
    /\ phase \in [Calls -> Phases]
    /\ idOf \in [Calls -> Ids \cup {None}]
    /\ \A c \in Calls : phase[c] # "idle" => idOf[c] \in Ids
    /\ pending \in [Ids -> Calls \cup {None}]
    /\ channel \in [Calls -> Answers \cup {"empty", "closed"}]
    /\ outcome \in [Calls -> {"none", "Approved", "Rejected", "Expired"}]
    /\ accepted \in [Calls -> Answers \cup {"none"}]
    /\ missed \subseteq Calls

(* request() cannot be left hanging on a table that no longer knows it:    *)
(* whoever still waits either owns the entry under its id or has something *)
(* to read in its channel, even when calls share an id and expire across   *)
(* each other.                                                             *)
NotStranded ==
    \A c \in Calls : phase[c] = "waiting" => pending[idOf[c]] = c \/ channel[c] # "empty"

(* A second call under the same id: what makes a wait end without anyone   *)
(* having answered it.                                                     *)
SharesId(c) == \E d \in Calls \ {c} : idOf[d] = idOf[c]

(* Consent: request() says Approved only if somebody approved this very    *)
(* call, and Rejected only if somebody rejected it, or if nobody answered  *)
(* and another call under the same id pushed it out of the table.  An      *)
(* answer respond() took is never turned into its opposite: at worst it    *)
(* came too late.                                                          *)
Consent ==
    \A c \in Calls :
        /\ outcome[c] = "Approved" => accepted[c] = "yes"
        /\ outcome[c] = "Rejected" => accepted[c] = "no" \/ (accepted[c] = "none" /\ SharesId(c))
        /\ outcome[c] = "Expired" /\ ~SharesId(c) => idOf[c] \in Ids /\ pending[idOf[c]] = None

(* "não pode responder duas vezes": respond() returns true once per call,  *)
(* whatever button is pressed again.                                       *)
AnsweredOnce ==
    [][\A c \in Calls : accepted[c] # "none" => accepted'[c] = accepted[c]
                                                /\ ~\E i \in Ids : pending'[i] = c]_vars

(* approval.rs:4-6: the request is made and the channels are told, then    *)
(* somebody answers, then respond() releases the wait: an answer to a      *)
(* question on show is never refused before the wait is over.  Not so in   *)
(* the code: Ask comes before Register, and RespondRefused between them.   *)
NoAnswerMissed == missed = {}
=============================================================================
