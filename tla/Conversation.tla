---------------------------- MODULE Conversation ----------------------------
(***************************************************************************)
(* Messages and the assistants they talk to: Polling brings updates to the *)
(* main loop of crates/oreia-seca/src/main.rs, which spawns a handler for  *)
(* each message; Assistant is what the handlers do.  The process may die   *)
(* at any step and start again.                                            *)
(***************************************************************************)
EXTENDS Polling, Assistant, Functions

CONSTANTS ApiText,              (* what the API's message says               *)
          MaxUpdates,           (* Bound: messages a person sends            *)
          MaxCrashes            (* Bound                                     *)

ASSUME ConversationAssumption ==
    /\ MaxUpdates \in Nat /\ \A s \in Scripts : Len(s) <= MaxUpdates
    /\ Messages = 1 .. MaxUpdates \cup {Api}
    /\ \A m \in Messages : SessionOf(m) \in SessionKeys
    /\ MaxCrashes \in Nat

talkVars == <<pollVars, assistVars>>

Input(m) == IF m = Api THEN ApiText ELSE script[m]

Listen == (UserSends \/ Poll \/ PollLost \/ TakeUpdate \/ ApiMessage)
          /\ UNCHANGED assistVars

(* The main loop: rx.recv(), and a task of its own for the message. *)
Deliver == \E m \in Messages : Receive(m) /\ SpawnHandler(m)

Handle(m) ==
    /\ m = Api \/ m \in DOMAIN script
    /\ \/ HandleCommand(m, Input(m))
       \/ HandleText(m, Input(m))
       \/ Work(m)
    /\ UNCHANGED pollVars

Crash == life < MaxCrashes /\ Restart /\ Forget

TalkInit == PollInit /\ AssistInit

TalkNext == Listen \/ Deliver \/ (\E m \in Messages : Handle(m)) \/ Crash

TalkSpec == TalkInit /\ [][TalkNext]_talkVars

(* The poll loop, the main loop and the handlers go on; Telegram is not    *)
(* out of reach for ever, and Forgejo and the channels answer or fail.     *)
(* Nobody has to send anything.                                            *)
FairTalk ==
    /\ TalkSpec
    /\ WF_talkVars(Poll /\ UNCHANGED assistVars)
    /\ WF_talkVars(TakeUpdate /\ UNCHANGED assistVars)
    /\ WF_talkVars(Deliver)
    /\ \A m \in Messages : WF_talkVars(Handle(m))
-----------------------------------------------------------------------------
(* Every variable keeps its range: what Telegram has forgotten was sent,   *)
(* the offset is never past what was sent, the queue keeps its capacity    *)
(* and an assistant's entry is a question with the answers given so far.   *)
TalkTypeOK ==
    /\ PollTypeOK
    /\ \A s \in SessionKeys :
          pending[s] # Nothing =>
              pending[s].step \in Steps /\ Len(pending[s].answers) <= 2
    /\ \A m \in Messages :
            held[m] = Nothing <=> at[m] \in {"none", "spawned", "done"}
    /\ \A i \in issues : Len(i.answers) \in {0, 3}
    /\ life \in 0 .. MaxCrashes

Pending(u) == Cardinality({i \in DOMAIN inbox : inbox[i] = u})

(* Every update the poll loop has moved past since the process started is  *)
(* in the queue or with a handler, exactly once; one that was confirmed    *)
(* before the start is not seen again.  So what a crash loses is what was  *)
(* confirmed and not handled yet; an unconfirmed update comes again.       *)
AccountedOnce ==
    \A u \in 1 .. sent :
        LET seen == Pending(u) + (IF at[u] = "none" THEN 0 ELSE 1)
        IN  seen = IF u > base /\ u < offset /\ Passes(u) THEN 1 ELSE 0

(* Where the assistant that command c opened is now. *)
Places(c) ==
    {<<"pending", s>> : s \in {s \in SessionKeys :
                                  pending[s] # Nothing /\ pending[s].by = c}}
    \cup {<<"held", m>> : m \in {m \in Messages : held[m] # Nothing /\ held[m].by = c}}
    \cup {<<"issue", i>> : i \in {i \in issues : i.life = life /\ i.by = c}}

(* However the handlers of a session interleave, an assistant is in one    *)
(* place: one command makes one issue at most, of three messages of its    *)
(* session, and no message is an answer of two assistants.                 *)
OneIssue ==
    /\ \A c \in Messages : Cardinality(Places(c)) <= 1
    /\ \A i \in issues : IsInjective(i.answers)
            /\ \A n \in DOMAIN i.answers : SessionOf(i.answers[n]) = SessionOf(i.by)
    /\ \A i, j \in issues : i.life = j.life /\ i # j =>
            \A n \in DOMAIN i.answers, k \in DOMAIN j.answers :
                i.answers[n] # j.answers[k]

(* An update that passes is handled to its end, over a crash too, unless   *)
(* it had been confirmed when the process died.  The queue holds back the  *)
(* poll loop, never the other way round.                                   *)
EventuallyHandled ==
    \A u \in 1 .. MaxUpdates :
        (u \in 1 .. sent /\ Passes(u)) ~> (at[u] = "done" \/ u <= base)

(* "Any new command abandons an assistant that is open" (mod.rs:147-148):  *)
(* an assistant open when a command of its session was handled never asks  *)
(* again.  Not so in the code: the handler of the command that opened it   *)
(* may store its entry only afterwards.                                    *)
AbandonedIsOver ==
    \A s \in SessionKeys : pending[s] # Nothing => pending[s].by \notin abandoned

=============================================================================
