------------------------------ MODULE Questions ------------------------------
(***************************************************************************)
(* What people see of an approval: the buttons Telegram shows              *)
(* (crates/oreia-channels/src/telegram.rs, ask_approval() and              *)
(* approval_resolved()) around the calls of ApprovalBroker.  Every allowed *)
(* chat gets a message with buttons; what ids Telegram gave them is put    *)
(* under the question's id when all are sent, and taken out when it is     *)
(* resolved, to remove the buttons one message after the other.            *)
(***************************************************************************)
EXTENDS ApprovalBroker

CONSTANTS
    ChatCount,  (* `allowed`: the chats, in the order they are asked         *)
    MaxLost     (* Bound: messages a call to Telegram goes wrong for         *)

ASSUME QuestionsAssumption == ChatCount \in Nat /\ MaxLost \in Nat

VARIABLES
    stage,      (* "idle", "showing", "shown", "resolving" or "cut"          *)
    tried,      (* how many chats a call has sent its question to            *)
    sent,       (* the messages whose id came back                           *)
    msgs,       (* approval_msgs: the messages under each id                 *)
    edits,      (* what approval_resolved() has taken out and not edited yet *)
    buttons,    (* messages that show their buttons                          *)
    lost,       (* History: those sent without their id coming back, and     *)
                (* those whose edit failed                                   *)
    overlap     (* History: calls that were under way together under one id  *)

chatVars == <<stage, tried, sent, msgs, edits, buttons, lost, overlap>>
allVars == <<vars, chatVars>>

Put(c, where) == stage' = [stage EXCEPT ![c] = where]

(* The message whose id is known, and one that was sent before it.         *)
Message(c, chat) == [of |-> c, chat |-> chat, known |-> TRUE]
Stray(c, chat) == [of |-> c, chat |-> chat, known |-> FALSE]

CanLose == Cardinality(lost) < MaxLost

(* approval_resolved() has come to its end. *)
Told(c) == stage[c] = "resolving" /\ edits[c] = {}

(* Slip: each chat's message takes the place of the one before. *)
RecordLast(c) ==
    /\ stage[c] = "showing" /\ tried[c] = ChatCount /\ phase[c] = "asked"
    /\ msgs' = [msgs EXCEPT ![idOf[c]] = {m \in sent[c] : m.chat = ChatCount}]
    /\ sent' = [sent EXCEPT ![c] = {}]
    /\ Put(c, "shown")
    /\ UNCHANGED <<vars, tried, edits, buttons, lost, overlap>>
-----------------------------------------------------------------------------
(* ask_approval() is called. *)
StartAsk(c, i) ==
    /\ Ask(c, i)
    /\ Put(c, "showing")
    /\ LET others == {d \in Calls : idOf[d] = i /\ ~Told(d) /\ stage[d] # "cut"}
       IN  overlap' = overlap \cup others \cup {d \in {c} : others # {}}
    /\ UNCHANGED <<tried, sent, msgs, edits, buttons, lost>>

(* send_to() one chat, in three attempts.  An attempt whose answer is lost *)
(* has sent its message all the same.                                      *)
SendTo(c) ==
    LET chat == tried[c] + 1
    IN  /\ stage[c] = "showing" /\ chat <= ChatCount /\ phase[c] = "asked"
        /\ tried' = [tried EXCEPT ![c] = chat]
        /\ \E known \in {{}, {Message(c, chat)}}, stray \in {{}, {Stray(c, chat)}} :
              /\ stray = {} \/ CanLose
              /\ sent' = [sent EXCEPT ![c] = @ \cup known]
              /\ lost' = lost \cup stray
              /\ buttons' = buttons \cup known \cup stray
        /\ UNCHANGED <<vars, stage, msgs, edits, overlap>>

(* The ids are kept when the last chat is done with, over those of an      *)
(* earlier question under the same id.                                     *)
Record(c) ==
    /\ stage[c] = "showing" /\ tried[c] = ChatCount /\ phase[c] = "asked"
    /\ msgs' = [msgs EXCEPT ![idOf[c]] = sent[c]]
    /\ sent' = [sent EXCEPT ![c] = {}]
    /\ Put(c, "shown")
    /\ UNCHANGED <<vars, tried, edits, buttons, lost, overlap>>

(* Only now does the caller call request(). *)
Request(c) == stage[c] = "shown" /\ Register(c) /\ UNCHANGED chatVars

Answer(i, answer) == Respond(i, answer) /\ UNCHANGED chatVars

Wait(c) == (Take(c) \/ Deadline(c) \/ Forget(c)) /\ UNCHANGED chatVars

(* approval_resolved(), when request() has returned. *)
Resolve(c) ==
    /\ stage[c] = "shown" /\ phase[c] = "done"
    /\ edits' = [edits EXCEPT ![c] = msgs[idOf[c]]]
    /\ msgs' = [msgs EXCEPT ![idOf[c]] = {}]
    /\ Put(c, "resolving")
    /\ UNCHANGED <<vars, tried, sent, buttons, lost, overlap>>

(* editMessageReplyMarkup, once; a failure is passed over. *)
Edit(c) ==
    /\ stage[c] = "resolving"
    /\ \E m \in edits[c] :
          /\ edits' = [edits EXCEPT ![c] = @ \ {m}]
          /\ \/ buttons' = buttons \ {m} /\ UNCHANGED lost
             \/ CanLose /\ lost' = lost \cup {m} /\ UNCHANGED buttons
    /\ UNCHANGED <<vars, stage, tried, sent, msgs, overlap>>

(* The queue's timeout drops the caller, in the broker's hands or in the   *)
(* channel's.                                                              *)
Cut(c) ==
    /\ \/ Abandon(c)
       \/ stage[c] \in {"shown", "resolving"} /\ phase[c] = "done" /\ ~Told(c)
          /\ UNCHANGED vars
    /\ Put(c, "cut")
    /\ sent' = [sent EXCEPT ![c] = {}]
    /\ edits' = [edits EXCEPT ![c] = {}]
    /\ UNCHANGED <<tried, msgs, buttons, lost, overlap>>

QuestionsInit ==
    /\ Init
    /\ stage = [c \in Calls |-> "idle"]
    /\ tried = [c \in Calls |-> 0]
    /\ sent = [c \in Calls |-> {}]
    /\ msgs = [i \in Ids |-> {}]
    /\ edits = [c \in Calls |-> {}]
    /\ buttons = {} /\ lost = {} /\ overlap = {}

QuestionsNext ==
    \/ \E c \in Calls :
          \/ \E i \in Ids : StartAsk(c, i)
          \/ SendTo(c) \/ Record(c) \/ Request(c) \/ Wait(c) \/ Resolve(c) \/ Edit(c) \/ Cut(c)
    \/ \E i \in Ids, answer \in Answers : Answer(i, answer)

QuestionsSpec == QuestionsInit /\ [][QuestionsNext]_allVars
-----------------------------------------------------------------------------
(* A question that shares its id with no other under way has its buttons   *)
(* as long as it is open, and loses them when it is resolved, on every     *)
(* chat: what stays are messages a call to Telegram went wrong for         *)
(* (ask_approval(), approval_resolved()).                                  *)
ButtonsMatch ==
    \A c \in Calls \ overlap :
        LET shown == {m \in buttons : m.of = c}
        IN  /\ Told(c) => shown \subseteq lost
            /\ phase[c] = "waiting" => shown \ lost = msgs[idOf[c]]
=============================================================================
