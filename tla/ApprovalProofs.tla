--------------------------- MODULE ApprovalProofs ---------------------------
(***************************************************************************)
(* Theorems about human approval, for any number of calls, ids and chats.  *)
(*                                                                         *)
(* First of the broker, module ApprovalBroker: its inductive invariant     *)
(* ties the three places where an answer can be - the table, the channel,  *)
(* the record of what respond() accepted - to the phase of the call it     *)
(* belongs to.                                                             *)
(*                                                                         *)
(* Then of the broker among the channels, module Questions: a question     *)
(* shown, answered and taken back takes the broker's steps and no other,   *)
(* so what holds of the broker holds of it; and, by an inductive invariant *)
(* of its own, the buttons of a question that shares its id with no other  *)
(* match the state of its call.                                            *)
(***************************************************************************)
EXTENDS Questions, TLAPS

(* A registered call is waiting, about to forget itself or was dropped,    *)
(* and nobody has answered it.                                             *)
TableInv ==
    \A i \in Ids : \A c \in Calls : pending[i] = c =>
        idOf[c] = i /\ phase[c] \in {"waiting", "expiring", "dropped"} /\ channel[c] = "empty" /\ accepted[c] = "none"

(* What a waiting call finds in its channel is what was accepted for it; a *)
(* closed one was pushed out, unanswered, by another call under its id.    *)
ChannelInv ==
    \A c \in Calls :
        /\ phase[c] \in {"idle", "asked"} => channel[c] = "empty" /\ accepted[c] = "none"
        /\ channel[c] \in Answers => accepted[c] = channel[c]
        /\ channel[c] = "closed" /\ phase[c] = "waiting" => SharesId(c) /\ accepted[c] = "none"

IdInv == \A c \in Calls : phase[c] = "idle" <=> idOf[c] = None

OutcomeInv == \A c \in Calls : outcome[c] # "none" => phase[c] = "done"

IInv == TypeOK /\ TableInv /\ ChannelInv /\ IdInv /\ OutcomeInv /\ NotStranded /\ Consent

LEMMA InitIInv == Init => IInv
BY BrokerAssumption
   DEF Init, IInv, TypeOK, TableInv, ChannelInv, IdInv, OutcomeInv, NotStranded, Consent, Phases, Over, Answers

LEMMA TypeStep == TypeOK /\ [Next]_vars => TypeOK'
<1>. SUFFICES ASSUME TypeOK, [Next]_vars PROVE TypeOK'
  OBVIOUS
<1>1. ASSUME NEW c \in Calls, NEW i \in Ids, Ask(c, i) PROVE TypeOK'
  BY <1>1 DEF Ask, Move, TypeOK, Phases, Over
<1>2. ASSUME NEW c \in Calls, Register(c) PROVE TypeOK'
  BY <1>2 DEF Register, CloseEntry, Move, TypeOK, Phases, Over
<1>3. ASSUME NEW c \in Calls, Take(c) PROVE TypeOK'
  BY <1>3 DEF Take, Move, TypeOK, Phases, Over
<1>4. ASSUME NEW c \in Calls, Deadline(c) PROVE TypeOK'
  BY <1>4 DEF Deadline, Move, TypeOK, Phases, Over
<1>5. ASSUME NEW c \in Calls, Forget(c) PROVE TypeOK'
  BY <1>5 DEF Forget, CloseEntry, Move, TypeOK, Phases, Over
<1>6. ASSUME NEW i \in Ids, NEW answer \in Answers, Respond(i, answer) PROVE TypeOK'
  <2>1. CASE RespondTaken(i, answer)
    BY <2>1 DEF RespondTaken, TypeOK
  <2>2. CASE RespondRefused(i)
    BY <2>2 DEF RespondRefused, TypeOK
  <2>. QED  BY <1>6, <2>1, <2>2 DEF Respond
<1>7. ASSUME NEW c \in Calls, Abandon(c) PROVE TypeOK'
  BY <1>7 DEF Abandon, Move, TypeOK, Phases, Over
<1>8. CASE UNCHANGED vars
  BY <1>8 DEF vars, TypeOK
<1>. QED  BY <1>1, <1>2, <1>3, <1>4, <1>5, <1>6, <1>7, <1>8 DEF Next
-----------------------------------------------------------------------------
(* An id, once asked under, is not given up. *)
LEMMA SharingStays ==
    ASSUME NEW c \in Calls, SharesId(c), IdInv, idOf[c] # None, idOf' = idOf
    PROVE  SharesId(c)'
BY DEF SharesId

LEMMA AskStep ==
    ASSUME IInv, TypeOK', NEW c \in Calls, NEW i \in Ids, Ask(c, i)
    PROVE  IInv'
<1>1. idOf[c] = None /\ idOf'[c] = i /\ \A d \in Calls : d # c => idOf'[d] = idOf[d] /\ phase'[d] = phase[d]
  BY DEF Ask, Move, IInv, IdInv, TypeOK
<1>2. phase[c] = "idle" /\ phase'[c] = "asked" /\ UNCHANGED <<pending, channel, outcome, accepted>>
  BY DEF Ask, Move, IInv, TypeOK
<1>3. \A d \in Calls : d # c /\ idOf[d] # None /\ SharesId(d) => SharesId(d)'
  BY <1>1 DEF SharesId
<1>4. \A d \in Calls : d # c /\ ~SharesId(d)' /\ idOf[d] # None => ~SharesId(d)
  BY <1>3
<1>5. \A d \in Calls : phase[d] # "idle" => d # c /\ idOf[d] # None
  BY <1>2 DEF IInv, IdInv
<1>6. TableInv' /\ IdInv' /\ OutcomeInv' /\ NotStranded'
  BY <1>1, <1>2, <1>5, BrokerAssumption DEF IInv, TableInv, IdInv, OutcomeInv, NotStranded
<1>7. ChannelInv'
  BY <1>1, <1>2, <1>3, <1>5 DEF IInv, ChannelInv
<1>8. Consent'
  BY <1>1, <1>2, <1>3, <1>4, <1>5 DEF IInv, Consent, OutcomeInv
<1>. QED  BY <1>6, <1>7, <1>8 DEF IInv

(* The call displaced from the table, if there is one, is another one      *)
(* under the same id.                                                      *)
LEMMA RegisterStep ==
    ASSUME IInv, TypeOK', NEW c \in Calls, Register(c)
    PROVE  IInv'
<1>. DEFINE i == idOf[c]
<1>1. i \in Ids /\ phase[c] = "asked" /\ channel[c] = "empty" /\ accepted[c] = "none" /\ pending[i] # c
  BY DEF Register, Move, IInv, TypeOK, ChannelInv, TableInv
<1>2. /\ phase'[c] = "waiting" /\ \A d \in Calls : d # c => phase'[d] = phase[d]
      /\ UNCHANGED <<idOf, outcome, accepted>>
      /\ pending'[i] = c /\ \A j \in Ids : j # i => pending'[j] = pending[j]
  BY <1>1 DEF Register, Move, IInv, TypeOK
<1>3. \A d \in Calls : channel'[d] = IF d = pending[i] /\ channel[d] = "empty" THEN "closed" ELSE channel[d]
  BY DEF Register, CloseEntry
<1>4. \A d \in Calls : d = pending[i] => d # c /\ idOf[d] = i /\ channel[d] = "empty" /\ SharesId(d)
  BY <1>1 DEF IInv, TableInv, SharesId
<1>5. \A d \in Calls : idOf[d] # None /\ SharesId(d) => SharesId(d)'
  BY <1>2, SharingStays DEF IInv
<1>6. \A d \in Calls : phase[d] # "idle" => idOf[d] # None
  BY DEF IInv, IdInv
<1>7. TableInv'
  BY <1>1, <1>2, <1>3 DEF IInv, TableInv
<1>8. ChannelInv'
  BY <1>1, <1>2, <1>3, <1>4, <1>5, <1>6 DEF IInv, ChannelInv, TableInv, Answers
<1>9. IdInv' /\ OutcomeInv'
  BY <1>1, <1>2 DEF IInv, IdInv, OutcomeInv
<1>10. NotStranded'
  <2>. SUFFICES ASSUME NEW d \in Calls, phase'[d] = "waiting", d # c
                PROVE  pending'[idOf[d]] = d \/ channel'[d] # "empty"
    BY <1>1, <1>2 DEF NotStranded
  <2>1. idOf[d] \in Ids /\ (pending[idOf[d]] = d \/ channel[d] # "empty")
    BY <1>2 DEF IInv, TypeOK, NotStranded
  <2>. QED  BY <1>2, <1>3, <2>1
<1>11. Consent'
  <2>. SUFFICES ASSUME NEW d \in Calls, outcome[d] # "none"
                PROVE  /\ outcome[d] = "Approved" => accepted[d] = "yes"
                       /\ outcome[d] = "Rejected" => accepted[d] = "no" \/ (accepted[d] = "none" /\ SharesId(d)')
                       /\ outcome[d] = "Expired" /\ ~SharesId(d)' =>
                             idOf[d] \in Ids /\ pending'[idOf[d]] = None
    BY <1>2 DEF Consent
  <2>1. d # c /\ phase[d] = "done" /\ idOf[d] # None
    BY <1>1, <1>6 DEF IInv, OutcomeInv
  <2>2. idOf[d] = i => SharesId(d)'
    BY <1>2, <2>1 DEF SharesId
  <2>. QED  BY <1>2, <1>5, <2>1, <2>2 DEF IInv, Consent
<1>. QED  BY <1>7, <1>8, <1>9, <1>10, <1>11 DEF IInv

LEMMA RespondStep ==
    ASSUME IInv, TypeOK', NEW i \in Ids, NEW answer \in Answers, RespondTaken(i, answer)
    PROVE  IInv'
<1>1. PICK c \in Calls :
        /\ pending[i] = c /\ pending' = [pending EXCEPT ![i] = None]
        /\ channel' = [channel EXCEPT ![c] = IF phase[c] = "waiting" THEN answer ELSE @]
        /\ accepted' = [accepted EXCEPT ![c] = answer]
        /\ UNCHANGED <<phase, idOf, outcome>>
  BY DEF RespondTaken
<1>2. idOf[c] = i /\ phase[c] \in {"waiting", "expiring", "dropped"} /\ channel[c] = "empty" /\ accepted[c] = "none"
  BY <1>1 DEF IInv, TableInv
<1>3. \A d \in Calls : SharesId(d)' <=> SharesId(d)
  BY <1>1 DEF SharesId
<1>4. \A d \in Calls : d # c => channel'[d] = channel[d] /\ accepted'[d] = accepted[d]
  BY <1>1 DEF IInv, TypeOK
<1>5. /\ accepted'[c] = answer
      /\ phase[c] = "waiting" => channel'[c] = answer
      /\ phase[c] # "waiting" => channel'[c] = "empty"
  BY <1>1, <1>2 DEF IInv, TypeOK
<1>6. pending'[i] = None /\ \A j \in Ids : j # i => pending'[j] = pending[j]
  BY <1>1 DEF IInv, TypeOK
<1>7. TableInv'
  BY <1>1, <1>2, <1>4, <1>6, BrokerAssumption DEF IInv, TableInv
<1>8. ChannelInv'
  BY <1>1, <1>2, <1>3, <1>4, <1>5 DEF IInv, ChannelInv, Answers
<1>9. IdInv' /\ OutcomeInv'
  BY <1>1 DEF IInv, IdInv, OutcomeInv
<1>10. NotStranded'
  BY <1>1, <1>2, <1>4, <1>5, <1>6 DEF IInv, NotStranded, TypeOK, Answers
<1>11. Consent'
  BY <1>1, <1>2, <1>3, <1>4, <1>6 DEF IInv, Consent, OutcomeInv
<1>. QED  BY <1>7, <1>8, <1>9, <1>10, <1>11 DEF IInv

LEMMA ForgetStep ==
    ASSUME IInv, TypeOK', NEW c \in Calls, Forget(c)
    PROVE  IInv'
<1>. DEFINE i == idOf[c]
<1>1. i \in Ids /\ phase[c] = "expiring"
  BY DEF Forget, Move, IInv, TypeOK
<1>2. /\ phase'[c] = "done" /\ \A d \in Calls : d # c => phase'[d] = phase[d]
      /\ outcome'[c] = "Expired" /\ \A d \in Calls : d # c => outcome'[d] = outcome[d]
      /\ UNCHANGED <<idOf, accepted>>
      /\ pending'[i] = None /\ \A j \in Ids : j # i => pending'[j] = pending[j]
  BY <1>1 DEF Forget, Move, IInv, TypeOK
<1>3. \A d \in Calls : channel'[d] = IF d = pending[i] /\ channel[d] = "empty" THEN "closed" ELSE channel[d]
  BY DEF Forget, CloseEntry
<1>4. \A d \in Calls : d = pending[i] => idOf[d] = i /\ (d # c => SharesId(d))
  BY <1>1 DEF IInv, TableInv, SharesId
<1>5. \A d \in Calls : SharesId(d)' <=> SharesId(d)
  BY <1>2 DEF SharesId
<1>6. TableInv'
  BY <1>1, <1>2, <1>3, BrokerAssumption DEF IInv, TableInv
<1>7. ChannelInv'
  BY <1>1, <1>2, <1>3, <1>4, <1>5 DEF IInv, ChannelInv, TableInv, Answers
<1>8. IdInv' /\ OutcomeInv'
  BY <1>1, <1>2 DEF IInv, IdInv, OutcomeInv
<1>9. NotStranded'
  <2>. SUFFICES ASSUME NEW d \in Calls, phase'[d] = "waiting"
                PROVE  pending'[idOf[d]] = d \/ channel'[d] # "empty"
    BY <1>2 DEF NotStranded
  <2>1. d # c /\ idOf[d] \in Ids /\ (pending[idOf[d]] = d \/ channel[d] # "empty")
    BY <1>2 DEF IInv, TypeOK, NotStranded
  <2>. QED  BY <1>2, <1>3, <2>1
<1>10. Consent'
  BY <1>1, <1>2, <1>5, BrokerAssumption DEF IInv, Consent, TypeOK
<1>. QED  BY <1>6, <1>7, <1>8, <1>9, <1>10 DEF IInv

LEMMA WaitEndsStep ==
    ASSUME IInv, TypeOK', NEW c \in Calls, Take(c) \/ Deadline(c)
    PROVE  IInv'
<1>1. /\ phase[c] = "waiting" /\ phase'[c] \in {"expiring", "done"}
      /\ \A d \in Calls : d # c => phase'[d] = phase[d] /\ outcome'[d] = outcome[d]
      /\ UNCHANGED <<idOf, pending, channel, accepted>>
  BY DEF Take, Deadline, Move, IInv, TypeOK
<1>2. \A d \in Calls : SharesId(d)' <=> SharesId(d)
  BY <1>1 DEF SharesId
<1>3. \A i \in Ids : pending[i] = c => phase'[c] = "expiring"
  BY DEF Take, Deadline, Move, IInv, TypeOK, TableInv
<1>4. outcome'[c] # "none" => phase'[c] = "done" /\ channel[c] # "empty" /\
                              outcome'[c] = IF channel[c] = "yes" THEN "Approved" ELSE "Rejected"
  <2>1. outcome[c] = "none"
    BY <1>1 DEF IInv, OutcomeInv
  <2>. QED  BY <2>1 DEF Take, Deadline, Move, IInv, TypeOK
<1>5. TableInv' /\ IdInv' /\ OutcomeInv' /\ NotStranded'
  BY <1>1, <1>3, <1>4 DEF IInv, TableInv, IdInv, OutcomeInv, NotStranded
<1>6. ChannelInv'
  BY <1>1, <1>2 DEF IInv, ChannelInv
<1>7. Consent'
  <2>1. channel[c] \in Answers \cup {"empty", "closed"}
    BY DEF IInv, TypeOK
  <2>2. outcome'[c] = "Approved" => accepted[c] = "yes"
    BY <1>4 DEF IInv, ChannelInv, Answers
  <2>3. outcome'[c] = "Rejected" => accepted[c] = "no" \/ (accepted[c] = "none" /\ SharesId(c))
    BY <1>1, <1>4, <2>1 DEF IInv, ChannelInv, Answers
  <2>4. outcome'[c] # "Expired"
    BY <1>4
  <2>. QED  BY <1>1, <1>2, <2>2, <2>3, <2>4 DEF IInv, Consent
<1>. QED  BY <1>5, <1>6, <1>7 DEF IInv

LEMMA AbandonStep ==
    ASSUME IInv, TypeOK', NEW c \in Calls, Abandon(c)
    PROVE  IInv'
<1>1. /\ phase[c] \in {"asked", "waiting"} /\ phase'[c] = "dropped"
      /\ \A d \in Calls : d # c => phase'[d] = phase[d]
      /\ UNCHANGED <<idOf, pending, channel, outcome, accepted>>
  BY DEF Abandon, Move, IInv, TypeOK
<1>2. \A d \in Calls : SharesId(d)' <=> SharesId(d)
  BY <1>1 DEF SharesId
<1>3. TableInv' /\ IdInv' /\ OutcomeInv' /\ NotStranded'
  BY <1>1 DEF IInv, TableInv, IdInv, OutcomeInv, NotStranded
<1>4. ChannelInv' /\ Consent'
  BY <1>1, <1>2 DEF IInv, ChannelInv, Consent
<1>. QED  BY <1>3, <1>4 DEF IInv

LEMMA NextIInv == IInv /\ [Next]_vars => IInv'
<1>. SUFFICES ASSUME IInv, [Next]_vars PROVE IInv'
  OBVIOUS
<1>1. TypeOK'
  BY TypeStep DEF IInv
<1>2. ASSUME NEW i \in Ids, RespondRefused(i) \/ UNCHANGED vars PROVE IInv'
  BY <1>1, <1>2 DEF RespondRefused, vars, IInv, TableInv, ChannelInv, IdInv, OutcomeInv, NotStranded,
                    Consent, SharesId
<1>3. CASE UNCHANGED vars
  BY <1>1, <1>3 DEF vars, IInv, TableInv, ChannelInv, IdInv, OutcomeInv, NotStranded, Consent, SharesId
<1>. QED
  BY <1>1, <1>2, <1>3, AskStep, RegisterStep, RespondStep, ForgetStep, WaitEndsStep, AbandonStep DEF Next, Respond

LEMMA Invariance == Spec => []IInv
BY InitIInv, NextIInv, PTL DEF Spec

(* Every variable keeps its type. *)
THEOREM TypeCorrect == Spec => []TypeOK
BY Invariance, PTL DEF IInv

(* A call that waits is never forgotten by the table with nothing to read. *)
THEOREM NobodyStranded == Spec => []NotStranded
BY Invariance, PTL DEF IInv

(* request() never turns an answer it took into its opposite, and approves *)
(* nothing that nobody approved.                                           *)
THEOREM ConsentKept == Spec => []Consent
BY Invariance, PTL DEF IInv

(* respond() returns true at most once per call. *)
THEOREM AnswerOnce == Spec => AnsweredOnce
<1>1. IInv /\ [Next]_vars =>
          [\A c \in Calls : accepted[c] # "none" =>
              accepted'[c] = accepted[c] /\ ~\E i \in Ids : pending'[i] = c]_vars
  <2>. SUFFICES ASSUME IInv, IInv', Next, NEW c \in Calls, accepted[c] # "none"
                PROVE  accepted'[c] = accepted[c] /\ ~\E i \in Ids : pending'[i] = c
    BY NextIInv
  <2>1. accepted'[c] = accepted[c]
    <3>1. ASSUME NEW i \in Ids, NEW answer \in Answers, RespondTaken(i, answer)
          PROVE  accepted'[c] = accepted[c]
      BY <3>1 DEF RespondTaken, IInv, TypeOK, TableInv
    <3>. QED
      BY <3>1 DEF Next, Respond, RespondRefused, Ask, Register, Take, Deadline, Forget, Abandon
  <2>2. \A i \in Ids : pending'[i] # c
    BY <2>1 DEF IInv, TableInv
  <2>. QED  BY <2>1, <2>2
<1>. QED  BY <1>1, Invariance, PTL DEF Spec, AnsweredOnce
-----------------------------------------------------------------------------
(* Every step of the callers and the channels is a step of ApprovalBroker, *)
(* or none at all (Questions).                                             *)
LEMMA BrokerSteps == [QuestionsNext]_allVars => [Next]_vars
<1>1. ASSUME NEW c \in Calls, NEW i \in Ids, StartAsk(c, i) PROVE Next
  BY <1>1 DEF StartAsk, Next
<1>2. ASSUME NEW c \in Calls,
             SendTo(c) \/ Record(c) \/ Resolve(c) \/ Edit(c)
      PROVE  UNCHANGED vars
  BY <1>2, Zenon DEF SendTo, Record, Resolve, Edit
<1>3. ASSUME NEW c \in Calls, Request(c) PROVE Next
  BY <1>3 DEF Request, Next
<1>4. ASSUME NEW c \in Calls, Wait(c) PROVE Next
  BY <1>4 DEF Wait, Next
<1>5. ASSUME NEW c \in Calls, Cut(c) PROVE Next \/ UNCHANGED vars
  BY <1>5 DEF Cut, Next
<1>6. ASSUME NEW i \in Ids, NEW answer \in Answers, Answer(i, answer) PROVE Next
  BY <1>6 DEF Answer, Next
<1>7. ASSUME UNCHANGED allVars PROVE UNCHANGED vars
  BY <1>7 DEF allVars
<1>8. QED
  BY <1>1, <1>2, <1>3, <1>4, <1>5, <1>6, <1>7, Zenon DEF QuestionsNext

(* Showing questions and taking their buttons back implements the broker's *)
(* own specification.                                                      *)
THEOREM ShowingRefines == QuestionsSpec => Spec
<1>1. QuestionsInit => Init
  BY DEF QuestionsInit
<1>2. QED
  BY <1>1, BrokerSteps, PTL DEF QuestionsSpec, Spec

(* What was proved of the broker, of every call that is shown on channels: *)
(* nobody is stranded, and no answer is invented or inverted.              *)
THEOREM ConsentShown == QuestionsSpec => [](NotStranded /\ Consent)
BY ShowingRefines, NobodyStranded, ConsentKept, PTL
-----------------------------------------------------------------------------
(* What is kept of messages.                                               *)
MessageType == [of : Calls, chat : 1..ChatCount, known : BOOLEAN]

ScreenType ==
    /\ stage \in [Calls -> {"idle", "showing", "shown", "resolving", "cut"}]
    /\ tried \in [Calls -> 0..ChatCount]
    /\ sent \in [Calls -> SUBSET MessageType]
    /\ msgs \in [Ids -> SUBSET MessageType]
    /\ edits \in [Calls -> SUBSET MessageType]
    /\ buttons \subseteq MessageType
    /\ lost \subseteq MessageType
    /\ overlap \subseteq Calls

(* Where a call is on the channels, and where with the broker. *)
StageInv ==
    \A c \in Calls :
        /\ phase[c] = "idle" <=> stage[c] = "idle"
        /\ stage[c] = "showing" => phase[c] = "asked"
        /\ stage[c] = "resolving" => phase[c] = "done"
        /\ phase[c] = "waiting" => stage[c] = "shown"

(* Calls that are under way together under one id are known to overlap.    *)
Live(c) == stage[c] \in {"showing", "shown"} \/ (stage[c] = "resolving" /\ edits[c] # {})

OverlapInv ==
    \A c, d \in Calls : c # d /\ Live(c) /\ Live(d) /\ idOf[c] = idOf[d] => c \in overlap

(* A message is kept, and edited, by its own call, or it is one of a call  *)
(* that overlapped.                                                        *)
OwnerInv ==
    \A c \in Calls :
        /\ \A m \in sent[c] : m.of = c /\ m.known
        /\ stage[c] = "shown" => \A m \in msgs[idOf[c]] : m.of = c \/ m.of \in overlap
        /\ \A m \in edits[c] : m.of = c \/ m.of \in overlap

Shown(c) == {m \in buttons : m.of = c}

(* The buttons of a call are where the channel will look for them. *)
ButtonInv(c) ==
    /\ stage[c] \in {"idle", "showing"} =>
          Shown(c) \ lost = sent[c] /\ \A m \in lost : m.of = c => ~m.known
    /\ stage[c] = "shown" => Shown(c) \ lost = msgs[idOf[c]]
    /\ stage[c] = "resolving" => Shown(c) \subseteq lost \cup edits[c]

ScreenInv ==
    /\ ScreenType /\ StageInv /\ OverlapInv /\ OwnerInv
    /\ \A c \in Calls \ overlap : ButtonInv(c)

LEMMA ScreenInit == QuestionsInit => ScreenInv
BY QuestionsAssumption
   DEF QuestionsInit, Init, ScreenInv, ScreenType, StageInv, OverlapInv, Live, OwnerInv, ButtonInv, Shown

(* A step of the broker that leaves the channels alone. *)
LEMMA ScreenKept ==
    ASSUME ScreenInv, StageInv', UNCHANGED <<idOf, chatVars>>
    PROVE  ScreenInv'
BY DEF ScreenInv, ScreenType, OverlapInv, Live, OwnerInv, ButtonInv, Shown, chatVars

(* The first call of an id, or one that meets others under it: then all of *)
(* them are seen to overlap.                                               *)
LEMMA StartAskScreen ==
    ASSUME IInv, ScreenInv, NEW c \in Calls, NEW i \in Ids, StartAsk(c, i)
    PROVE  ScreenInv'
<1>. DEFINE others == {d \in Calls : idOf[d] = i /\ ~Told(d) /\ stage[d] # "cut"}
<1>1. /\ phase[c] = "idle" /\ phase'[c] = "asked" /\ idOf[c] = None /\ idOf'[c] = i
      /\ \A d \in Calls : d # c => phase'[d] = phase[d] /\ idOf'[d] = idOf[d]
  BY DEF StartAsk, Ask, Move, IInv, TypeOK, IdInv
<1>2. /\ stage[c] = "idle" /\ stage'[c] = "showing"
      /\ \A d \in Calls : d # c => stage'[d] = stage[d]
      /\ overlap' = overlap \cup others \cup {d \in {c} : others # {}}
      /\ UNCHANGED <<tried, sent, msgs, edits, buttons, lost>>
  BY <1>1, Zenon DEF StartAsk, Put, ScreenInv, ScreenType, StageInv
<1>3. ScreenType'
  BY <1>2 DEF StartAsk, Put, ScreenInv, ScreenType
<1>4. StageInv'
  BY <1>1, <1>2 DEF ScreenInv, StageInv
<1>5. \A d \in Calls : d # c /\ Live(d) /\ idOf[d] = i => d \in overlap' /\ c \in overlap'
  BY <1>2 DEF Live, Told
<1>. HIDE DEF others
<1>6. overlap \subseteq overlap'
  BY <1>2
<1>7. \A d \in Calls : d # c => (Live(d)' <=> Live(d))
  BY <1>2 DEF Live
<1>8. OverlapInv'
  BY <1>1, <1>5, <1>6, <1>7 DEF ScreenInv, OverlapInv
<1>9. OwnerInv'
  BY <1>1, <1>2, <1>6 DEF ScreenInv, OwnerInv
<1>10. ASSUME NEW d \in Calls \ overlap' PROVE ButtonInv(d)'
  BY <1>1, <1>2, <1>6 DEF ScreenInv, ButtonInv, Shown
<1>. QED  BY <1>3, <1>4, <1>8, <1>9, <1>10 DEF ScreenInv

(* A message whose id came back is one more to keep; a stray one is lost.  *)
LEMMA SendToScreen ==
    ASSUME ScreenInv, NEW c \in Calls, SendTo(c)
    PROVE  ScreenInv'
<1>. DEFINE chat == tried[c] + 1
<1>1. PICK known \in {{}, {Message(c, chat)}}, stray \in {{}, {Stray(c, chat)}} :
        /\ sent' = [sent EXCEPT ![c] = @ \cup known]
        /\ lost' = lost \cup stray
        /\ buttons' = buttons \cup known \cup stray
  BY DEF SendTo
<1>2. /\ stage[c] = "showing" /\ chat \in 1..ChatCount
      /\ tried' = [tried EXCEPT ![c] = chat]
      /\ UNCHANGED <<phase, idOf, stage, msgs, edits, overlap>>
  BY QuestionsAssumption DEF SendTo, vars, ScreenInv, ScreenType
<1>. HIDE DEF chat
<1>3. /\ \A m \in known : m \in MessageType /\ m.of = c /\ m.known
      /\ \A m \in stray : m \in MessageType /\ m.of = c /\ ~m.known
  <2>1. Message(c, chat) \in MessageType /\ Message(c, chat).of = c /\ Message(c, chat).known
    BY <1>2 DEF Message, MessageType
  <2>2. Stray(c, chat) \in MessageType /\ Stray(c, chat).of = c /\ ~Stray(c, chat).known
    BY <1>2 DEF Stray, MessageType
  <2>. QED  BY <2>1, <2>2
<1>4. sent'[c] = sent[c] \cup known /\ \A d \in Calls : d # c => sent'[d] = sent[d]
  BY <1>1 DEF ScreenInv, ScreenType
<1>5. ScreenType'
  BY <1>1, <1>2, <1>3, QuestionsAssumption DEF ScreenInv, ScreenType
<1>6. StageInv' /\ OverlapInv'
  BY <1>2 DEF ScreenInv, StageInv, OverlapInv, Live
<1>7. OwnerInv'
  BY <1>2, <1>3, <1>4 DEF ScreenInv, OwnerInv
<1>8. ASSUME NEW d \in Calls \ overlap' PROVE ButtonInv(d)'
  <2>1. ButtonInv(d)
    BY <1>2, <1>8 DEF ScreenInv
  <2>2. CASE d # c
    <3>1. Shown(d)' = Shown(d) /\ \A m \in Shown(d) : m \in lost' <=> m \in lost
      BY <1>1, <1>3, <2>2 DEF Shown
    <3>2. \A m \in lost' : m.of = d => m \in lost
      BY <1>1, <1>3, <2>2
    <3>. QED  BY <1>2, <1>4, <2>1, <2>2, <3>1, <3>2 DEF ButtonInv
  <2>3. CASE d = c
    <3>1. Shown(c) \ lost = sent[c] /\ \A m \in lost : m.of = c => ~m.known
      BY <1>2, <2>1, <2>3 DEF ButtonInv
    <3>2. \A m \in lost' : m.of = c => ~m.known
      BY <1>1, <1>3, <3>1
    <3>3. \A m \in sent[c] \cup known : m.known
      BY <1>3 DEF ScreenInv, OwnerInv
    <3>4. Shown(c)' = Shown(c) \cup known \cup stray
      BY <1>1, <1>3 DEF Shown
    <3>5. \A m \in sent[c] : m.of = c
      BY DEF ScreenInv, OwnerInv
    <3>6. Shown(c)' \ lost' = sent'[c]
      <4>1. \A m \in sent[c] \cup known : m \notin lost'
        BY <1>3, <3>2, <3>3, <3>5
      <4>2. \A m \in stray : m \in lost'
        BY <1>1
      <4>3. \A m \in Shown(c) : m \notin lost' => m \in sent[c]
        BY <1>1, <3>1
      <4>4. \A m \in sent[c] : m \in Shown(c)
        BY <3>1
      <4>. QED  BY <1>4, <3>4, <4>1, <4>2, <4>3, <4>4
    <3>. QED  BY <1>2, <2>3, <3>2, <3>6 DEF ButtonInv
  <2>. QED  BY <2>2, <2>3
<1>. QED  BY <1>5, <1>6, <1>7, <1>8 DEF ScreenInv

(* Ids are kept, or taken, over the head of another call only where the    *)
(* two overlap.                                                            *)
LEMMA RecordScreen ==
    ASSUME IInv, ScreenInv, NEW c \in Calls, Record(c)
    PROVE  ScreenInv'
<1>1. stage[c] = "showing" /\ idOf[c] \in Ids
  BY DEF Record, ScreenInv, StageInv, IInv, TypeOK
<1>2. /\ stage'[c] = "shown" /\ \A d \in Calls : d # c => stage'[d] = stage[d]
      /\ sent'[c] = {} /\ \A d \in Calls : d # c => sent'[d] = sent[d]
      /\ msgs'[idOf[c]] = sent[c] /\ \A i \in Ids : i # idOf[c] => msgs'[i] = msgs[i]
      /\ UNCHANGED <<phase, idOf, edits, buttons, lost, overlap>>
  BY <1>1 DEF Record, Put, vars, ScreenInv, ScreenType
<1>3. ScreenType'
  BY <1>1 DEF Record, Put, ScreenInv, ScreenType
<1>4. StageInv'
  BY <1>1, <1>2 DEF Record, ScreenInv, StageInv
<1>5. Live(c) /\ \A d \in Calls : Live(d)' <=> Live(d)
  BY <1>1, <1>2 DEF Live
<1>6. OverlapInv'
  BY <1>2, <1>5 DEF ScreenInv, OverlapInv
<1>7. \A d \in Calls : d # c /\ stage[d] = "shown" /\ idOf[d] = idOf[c] => c \in overlap /\ d \in overlap
  BY <1>5 DEF ScreenInv, OverlapInv, Live
<1>8. \A d \in Calls : d # c /\ stage[d] = "shown" => idOf[d] \in Ids
  BY DEF ScreenInv, StageInv, IInv, TypeOK
<1>9. OwnerInv'
  BY <1>1, <1>2, <1>7, <1>8 DEF ScreenInv, OwnerInv
<1>10. ASSUME NEW d \in Calls \ overlap' PROVE ButtonInv(d)'
  BY <1>1, <1>2, <1>7, <1>8, <1>10 DEF ScreenInv, ButtonInv, Shown
<1>. QED  BY <1>3, <1>4, <1>6, <1>9, <1>10 DEF ScreenInv

LEMMA ResolveScreen ==
    ASSUME IInv, ScreenInv, NEW c \in Calls, Resolve(c)
    PROVE  ScreenInv'
<1>1. stage[c] = "shown" /\ phase[c] = "done" /\ idOf[c] \in Ids
  BY DEF Resolve, ScreenInv, StageInv, IInv, TypeOK
<1>2. /\ stage'[c] = "resolving" /\ \A d \in Calls : d # c => stage'[d] = stage[d]
      /\ edits'[c] = msgs[idOf[c]] /\ \A d \in Calls : d # c => edits'[d] = edits[d]
      /\ msgs'[idOf[c]] = {} /\ \A i \in Ids : i # idOf[c] => msgs'[i] = msgs[i]
      /\ UNCHANGED <<phase, idOf, sent, buttons, lost, overlap>>
  BY <1>1 DEF Resolve, Put, vars, ScreenInv, ScreenType
<1>3. ScreenType'
  BY <1>1 DEF Resolve, Put, ScreenInv, ScreenType
<1>4. StageInv'
  BY <1>1, <1>2 DEF ScreenInv, StageInv
<1>5. Live(c) /\ \A d \in Calls : Live(d)' => Live(d)
  BY <1>1, <1>2 DEF Live
<1>6. OverlapInv'
  BY <1>2, <1>5 DEF ScreenInv, OverlapInv
<1>7. \A d \in Calls : d # c /\ stage[d] = "shown" /\ idOf[d] = idOf[c] => d \in overlap
  BY <1>5 DEF ScreenInv, OverlapInv, Live
<1>8. \A d \in Calls : d # c /\ stage[d] = "shown" => idOf[d] \in Ids
  BY DEF ScreenInv, StageInv, IInv, TypeOK
<1>9. OwnerInv'
  BY <1>1, <1>2, <1>8 DEF ScreenInv, OwnerInv
<1>10. ASSUME NEW d \in Calls \ overlap' PROVE ButtonInv(d)'
  BY <1>1, <1>2, <1>7, <1>8, <1>10 DEF ScreenInv, ButtonInv, Shown
<1>. QED  BY <1>3, <1>4, <1>6, <1>9, <1>10 DEF ScreenInv

(* An edit reaches the message of another call only if that one overlapped. *)
LEMMA EditScreen ==
    ASSUME ScreenInv, NEW c \in Calls, Edit(c)
    PROVE  ScreenInv'
<1>1. PICK m \in edits[c] :
        /\ edits' = [edits EXCEPT ![c] = @ \ {m}]
        /\ \/ buttons' = buttons \ {m} /\ UNCHANGED lost
           \/ lost' = lost \cup {m} /\ UNCHANGED buttons
  BY DEF Edit
<1>2. stage[c] = "resolving" /\ UNCHANGED <<phase, idOf, stage, tried, sent, msgs, overlap>>
  BY DEF Edit, vars
<1>3. m \in MessageType /\ (m.of = c \/ m.of \in overlap)
  BY DEF ScreenInv, ScreenType, OwnerInv
<1>4. edits'[c] = edits[c] \ {m} /\ \A d \in Calls : d # c => edits'[d] = edits[d]
  BY <1>1 DEF ScreenInv, ScreenType
<1>5. ScreenType'
  BY <1>1, <1>2, <1>3 DEF ScreenInv, ScreenType
<1>6. StageInv'
  BY <1>2 DEF ScreenInv, StageInv
<1>7. \A d \in Calls : Live(d)' => Live(d)
  BY <1>2, <1>4 DEF Live
<1>8. OverlapInv'
  BY <1>2, <1>7 DEF ScreenInv, OverlapInv
<1>9. OwnerInv'
  BY <1>2, <1>4 DEF ScreenInv, OwnerInv
<1>10. ASSUME NEW d \in Calls \ overlap' PROVE ButtonInv(d)'
  <2>1. ButtonInv(d)
    BY <1>2, <1>10 DEF ScreenInv
  <2>2. CASE d = c
    BY <1>1, <1>2, <1>4, <2>1, <2>2 DEF ButtonInv, Shown
  <2>3. CASE d # c
    <3>1. m.of # d
      BY <1>2, <1>3, <2>3
    <3>2. Shown(d)' = Shown(d) /\ \A n \in Shown(d) : n \in lost' <=> n \in lost
      BY <1>1, <3>1 DEF Shown
    <3>3. \A n \in lost' : n.of = d => n \in lost
      BY <1>1, <3>1
    <3>. QED  BY <1>2, <1>4, <2>1, <2>3, <3>2, <3>3 DEF ButtonInv
  <2>. QED  BY <2>2, <2>3
<1>. QED  BY <1>5, <1>6, <1>8, <1>9, <1>10 DEF ScreenInv

LEMMA CutScreen ==
    ASSUME IInv, ScreenInv, NEW c \in Calls, Cut(c)
    PROVE  ScreenInv'
<1>1. /\ phase'[c] \in {"done", "dropped"} /\ phase[c] # "idle"
      /\ \A d \in Calls : d # c => phase'[d] = phase[d]
      /\ UNCHANGED idOf
  BY DEF Cut, Abandon, Move, vars, IInv, TypeOK
<1>2. /\ stage'[c] = "cut" /\ \A d \in Calls : d # c => stage'[d] = stage[d]
      /\ sent'[c] = {} /\ \A d \in Calls : d # c => sent'[d] = sent[d]
      /\ edits'[c] = {} /\ \A d \in Calls : d # c => edits'[d] = edits[d]
      /\ UNCHANGED <<msgs, buttons, lost, overlap>>
  BY DEF Cut, Put, ScreenInv, ScreenType
<1>3. ScreenType'
  BY DEF Cut, Put, ScreenInv, ScreenType
<1>4. StageInv'
  BY <1>1, <1>2 DEF ScreenInv, StageInv
<1>5. \A d \in Calls : Live(d)' => Live(d)
  BY <1>2 DEF Live
<1>6. OverlapInv'
  BY <1>1, <1>2, <1>5 DEF ScreenInv, OverlapInv
<1>7. OwnerInv'
  BY <1>1, <1>2 DEF ScreenInv, OwnerInv
<1>8. ASSUME NEW d \in Calls \ overlap' PROVE ButtonInv(d)'
  BY <1>1, <1>2, <1>8 DEF ScreenInv, ButtonInv, Shown
<1>. QED  BY <1>3, <1>4, <1>6, <1>7, <1>8 DEF ScreenInv

LEMMA NextScreen == IInv /\ ScreenInv /\ [QuestionsNext]_allVars => ScreenInv'
<1>. SUFFICES ASSUME IInv, ScreenInv, [QuestionsNext]_allVars PROVE ScreenInv'
  OBVIOUS
<1>1. ASSUME NEW c \in Calls, Request(c) PROVE ScreenInv'
  <2>1. /\ stage[c] = "shown" /\ phase'[c] = "waiting" /\ phase[c] = "asked"
        /\ \A d \in Calls : d # c => phase'[d] = phase[d]
        /\ UNCHANGED <<idOf, chatVars>>
    BY <1>1 DEF Request, Register, Move, IInv, TypeOK
  <2>2. StageInv'
    BY <2>1 DEF ScreenInv, StageInv, chatVars
  <2>. QED  BY <2>1, <2>2, ScreenKept
<1>2. ASSUME NEW c \in Calls, Wait(c) PROVE ScreenInv'
  <2>1. /\ phase[c] \in {"waiting", "expiring"} /\ phase'[c] \in {"expiring", "done"}
        /\ \A d \in Calls : d # c => phase'[d] = phase[d]
        /\ UNCHANGED <<idOf, chatVars>>
    BY <1>2 DEF Wait, Take, Deadline, Forget, Move, IInv, TypeOK
  <2>2. StageInv'
    BY <2>1 DEF ScreenInv, StageInv, chatVars
  <2>. QED  BY <2>1, <2>2, ScreenKept
<1>3. ASSUME NEW i \in Ids, NEW answer \in Answers, Answer(i, answer) PROVE ScreenInv'
  <2>1. UNCHANGED <<phase, idOf, chatVars>>
    BY <1>3 DEF Answer, Respond, RespondTaken, RespondRefused
  <2>2. StageInv'
    BY <2>1 DEF ScreenInv, StageInv, chatVars
  <2>. QED  BY <2>1, <2>2, ScreenKept
<1>4. CASE UNCHANGED allVars
  <2>1. UNCHANGED <<phase, idOf, chatVars>>
    BY <1>4 DEF allVars, vars
  <2>2. StageInv'
    BY <2>1 DEF ScreenInv, StageInv, chatVars
  <2>. QED  BY <2>1, <2>2, ScreenKept
<1>. QED
  BY <1>1, <1>2, <1>3, <1>4, StartAskScreen, SendToScreen, RecordScreen, ResolveScreen, EditScreen, CutScreen
     DEF QuestionsNext

(* On the channels as the code shows them, a question that meets no other  *)
(* under its id has its buttons while it is open and loses them when it is *)
(* resolved, but for those a call to Telegram went wrong for.              *)
THEOREM ButtonsKept == QuestionsSpec => []ButtonsMatch
<1>1. QuestionsInit => IInv /\ ScreenInv
  BY InitIInv, ScreenInit DEF QuestionsInit
<1>2. IInv /\ ScreenInv /\ [QuestionsNext]_allVars => IInv' /\ ScreenInv'
  BY BrokerSteps, NextIInv, NextScreen
<1>3. ScreenInv => ButtonsMatch
  BY DEF ScreenInv, StageInv, ButtonInv, Shown, ButtonsMatch, Told
<1>. QED  BY <1>1, <1>2, <1>3, PTL DEF QuestionsSpec
=============================================================================
