----------------------------- MODULE QueuesProofs -----------------------------
(***************************************************************************)
(* Theorems about the two queues of the program.                           *)
(*                                                                         *)
(* First the one messages come through to their handlers, and what the     *)
(* assistants make of them (module Conversation), for any scripts, any     *)
(* sessions, any capacity and any number of crashes.  Its inductive        *)
(* invariant says where the poll loop stands between what Telegram has     *)
(* forgotten and what was sent, and of the entries of the assistants that  *)
(* each is made of messages of its session that were looked at, and has    *)
(* none of them in common with another.                                    *)
(*                                                                         *)
(* Then the one executions wait in (module TaskQueue), for any finite set  *)
(* of futures, any configured concurrency (0 included) and with or without *)
(* a timeout.                                                              *)
(***************************************************************************)
EXTENDS Conversation, TaskQueue, FiniteSetTheorems, SequenceTheorems, TLAPS

(* The update that is taken next. *)
NextUpdate == IF offset = 0 THEN base + 1 ELSE offset

(* What has come back is what follows it, and what Telegram has forgotten  *)
(* lies before it.                                                         *)
PollInv ==
    /\ script \in Scripts /\ sent \in 0 .. Len(script)
    /\ base \in Nat /\ confirmed \in Nat /\ offset \in Nat
    /\ base <= confirmed /\ confirmed < NextUpdate /\ NextUpdate <= sent + 1
    /\ offset # 0 => base + 1 < offset
    /\ batch \in Seq(Nat)
    /\ \A i \in DOMAIN batch : batch[i] = NextUpdate + i - 1 /\ batch[i] <= sent
    /\ inbox \in Seq(Messages) /\ Len(inbox) <= Capacity
    /\ \A i \in DOMAIN inbox : inbox[i] \in 1 .. sent \cup {Api}
    /\ apiSent \in BOOLEAN

Stations == {"none", "spawned", "storing", "branches", "creating", "labelling",
             "reviewing", "approving", "merging", "done"}

Idle == {"none", "spawned", "done"}

Seen(u) == Pending(u) + (IF at[u] = "none" THEN 0 ELSE 1)

(* AccountedOnce, and nothing of what is not sent yet. *)
SeenInv ==
    \A u \in DOMAIN script : Seen(u) = IF u > base /\ u < offset /\ Passes(u) THEN 1 ELSE 0

(* The answers an assistant has when it asks. *)
Given == [title |-> 0, body |-> 1, branch |-> 2, number |-> 0, changes |-> 0]

Asks(e) == e.step \in Steps /\ Len(e.answers) = Given[e.step]

(* Every entry is a question with its answers, wherever it is. *)
HandInv ==
    /\ at \in [Messages -> Stations]
    /\ pending \in [SessionKeys -> Entries \cup {Nothing}]
    /\ held \in [Messages -> Entries \cup {Nothing}]
    /\ issues \subseteq [life : Nat, by : Messages, answers : Seq(Messages)]
    /\ life \in 0 .. MaxCrashes
    /\ \A s \in SessionKeys : pending[s] # Nothing => Asks(pending[s])
    /\ \A m \in Messages : held[m] = Nothing <=> at[m] \in Idle
    /\ \A m \in Messages : at[m] \in {"storing", "branches"} => Asks(held[m])
    /\ \A m \in Messages : at[m] = "creating" => Len(held[m].answers) \in {0, 3}
    /\ \A i \in issues : i.life <= life /\ Len(i.answers) \in {0, 3}

(* The handler of the message has looked at it. *)
Used(m) == m \in Messages /\ at[m] \notin {"none", "spawned"}

(* Made of messages of a session that have been looked at, each once. *)
UsedIn(e) == Used(e.by) /\ \A n \in DOMAIN e.answers : Used(e.answers[n])

Within(e, s) ==
    /\ SessionOf(e.by) = s /\ IsInjective(e.answers)
    /\ \A n \in DOMAIN e.answers : SessionOf(e.answers[n]) = s

MadeInv ==
    /\ \A s \in SessionKeys : pending[s] # Nothing => UsedIn(pending[s]) /\ Within(pending[s], s)
    /\ \A m \in Messages : held[m] # Nothing => UsedIn(held[m]) /\ Within(held[m], SessionOf(m))
    /\ \A i \in issues : Within(i, SessionOf(i.by))
    /\ \A i \in issues : i.life = life => UsedIn(i)

(* Of two commands, with no answer in common. *)
Apart(e, f) ==
    /\ e.by # f.by
    /\ \A n \in DOMAIN e.answers, k \in DOMAIN f.answers : e.answers[n] # f.answers[k]

ApartInv ==
    /\ \A s \in SessionKeys, m \in Messages :
          pending[s] # Nothing /\ held[m] # Nothing => Apart(pending[s], held[m])
    /\ \A m, n \in Messages :
          m # n /\ held[m] # Nothing /\ held[n] # Nothing => Apart(held[m], held[n])
    /\ \A s \in SessionKeys, i \in issues :
          pending[s] # Nothing /\ i.life = life => Apart(pending[s], i)
    /\ \A m \in Messages, i \in issues :
          held[m] # Nothing /\ i.life = life => Apart(held[m], i)
    /\ \A i, j \in issues : i # j /\ i.life = j.life => Apart(i, j)

TalkInv == PollInv /\ SeenInv /\ HandInv /\ MadeInv /\ ApartInv

(* How often x is in s. *)
Times(s, x) == Cardinality({i \in DOMAIN s : s[i] = x})

LEMMA TimesFinite ==
    ASSUME NEW S, NEW s \in Seq(S), NEW x
    PROVE  IsFiniteSet({i \in DOMAIN s : s[i] = x}) /\ Times(s, x) \in Nat
<1>1. Len(s) \in Nat /\ DOMAIN s = 1 .. Len(s)
  OBVIOUS
<1>2. IsFiniteSet(1 .. Len(s))
  BY <1>1, FS_Interval
<1>3. IsFiniteSet({i \in DOMAIN s : s[i] = x})
  BY <1>1, <1>2, FS_Subset
<1>. QED  BY <1>3, FS_CardinalityType DEF Times

LEMMA TimesAppend ==
    ASSUME NEW S, NEW s \in Seq(S), NEW y \in S, NEW x
    PROVE  Times(Append(s, y), x) = Times(s, x) + IF x = y THEN 1 ELSE 0
<1>. DEFINE P(t) == {i \in DOMAIN t : t[i] = x}
            long == Append(s, y)
            n == Len(s) + 1
<1>1. /\ Len(s) \in Nat /\ DOMAIN s = 1 .. Len(s) /\ DOMAIN long = 1 .. n
      /\ long[n] = y /\ \A i \in 1 .. Len(s) : long[i] = s[i]
  OBVIOUS
<1>2. IsFiniteSet(P(s)) /\ Cardinality(P(s)) \in Nat
  BY TimesFinite, FS_CardinalityType
<1>. HIDE DEF long
<1>5. Times(s, x) = Cardinality(P(s)) /\ Times(long, x) = Cardinality(P(long))
  BY DEF Times
<1>3. CASE x = y
  <2>1. P(long) = P(s) \cup {n} /\ n \notin P(s)
    BY <1>1, <1>3
  <2>. HIDE DEF P
  <2>2. Cardinality(P(long)) = Cardinality(P(s)) + 1
    BY <1>2, <2>1, FS_AddElement
  <2>. QED  BY <1>3, <1>5, <2>2 DEF long
<1>4. CASE x # y
  <2>1. P(long) = P(s)
    BY <1>1, <1>4
  <2>. HIDE DEF P
  <2>. QED  BY <1>2, <1>4, <1>5, <2>1 DEF long
<1>. QED  BY <1>3, <1>4

LEMMA TimesTail ==
    ASSUME NEW S, NEW s \in Seq(S), s # <<>>, NEW x
    PROVE  Times(s, x) = Times(Tail(s), x) + IF x = Head(s) THEN 1 ELSE 0
<1>. DEFINE P(t) == {i \in DOMAIN t : t[i] = x}
            rest == Tail(s)
            f == [i \in P(rest) |-> i + 1]
<1>1. /\ Len(s) \in Nat \ {0} /\ DOMAIN s = 1 .. Len(s) /\ rest \in Seq(S) /\ DOMAIN rest = 1 .. Len(s) - 1
      /\ Head(s) = s[1] /\ \A i \in 1 .. Len(s) - 1 : rest[i] = s[i + 1]
  OBVIOUS
<1>. HIDE DEF rest
<1>2. IsFiniteSet(P(rest)) /\ Cardinality(P(rest)) \in Nat /\ IsFiniteSet(P(s)) /\ Cardinality(P(s)) \in Nat
  <2>1. IsFiniteSet(P(rest))
    BY <1>1, TimesFinite
  <2>2. IsFiniteSet(P(s))
    BY TimesFinite
  <2>. HIDE DEF P
  <2>. QED  BY <2>1, <2>2, FS_CardinalityType
<1>3. P(s) \ {1} = {i + 1 : i \in P(rest)}
  <2>1. ASSUME NEW i \in P(rest) PROVE i + 1 \in P(s) \ {1}
    BY <1>1
  <2>2. ASSUME NEW i \in P(s) \ {1} PROVE i - 1 \in P(rest) /\ i = (i - 1) + 1
    BY <1>1
  <2>. QED  BY <2>1, <2>2
<1>4. Cardinality(P(s) \ {1}) = Cardinality(P(rest))
  <2>1. \A i \in P(rest) : i \in Nat
    BY <1>1
  <2>2. f \in Bijection(P(rest), P(s) \ {1})
    <3>. DEFINE A == P(rest)
                B == P(s) \ {1}
    <3>1. B = {i + 1 : i \in A} /\ \A i \in A : i \in Nat
      BY <1>3, <2>1
    <3>. HIDE DEF A, B
    <3>2. f = [i \in A |-> i + 1]
      BY DEF A
    <3>. HIDE DEF f
    <3>3. f \in [A -> B] /\ DOMAIN f = A
      BY <3>1, <3>2
    <3>4. \A i, j \in A : f[i] = f[j] => i = j
      BY <3>1, <3>2
    <3>5. \A k \in B : \E i \in A : f[i] = k
      BY <3>1, <3>2
    <3>6. f \in Bijection(A, B)
      BY <3>3, <3>4, <3>5 DEF Bijection, Injection, Surjection, IsInjective
    <3>. QED  BY <3>6 DEF A, B
  <2>3. ExistsBijection(P(rest), P(s) \ {1})
    BY <2>2 DEF ExistsBijection
  <2>. HIDE DEF P, f
  <2>. QED  BY <1>2, <2>3, FS_Bijection
<1>5. 1 \in P(s) <=> x = Head(s)
  BY <1>1
<1>6. Cardinality(P(s)) = Cardinality(P(rest)) + IF x = Head(s) THEN 1 ELSE 0
  <2>. HIDE DEF P
  <2>1. Cardinality(P(s) \ {1}) = IF 1 \in P(s) THEN Cardinality(P(s)) - 1 ELSE Cardinality(P(s))
    BY <1>2, FS_RemoveElement
  <2>. QED  BY <1>2, <1>4, <1>5, <2>1
<1>. QED  BY <1>6 DEF Times, rest

(* What is asked for next is what follows the last that was taken. *)
LEMMA ConfirmIs == PollInv => Confirm = NextUpdate - 1
BY DEF PollInv, Confirm, NextUpdate

LEMMA MessagesThere ==
    ASSUME script \in Scripts
    PROVE  /\ script \in Seq(STRING) /\ Len(script) \in Nat /\ DOMAIN script = 1 .. Len(script)
           /\ DOMAIN script \subseteq Messages /\ Api \in Messages /\ Api \notin DOMAIN script
<1>1. script \in Seq(STRING) /\ Len(script) <= MaxUpdates /\ MaxUpdates \in Nat /\ Api \notin DOMAIN script
  BY PollingAssumption, ConversationAssumption
<1>2. Len(script) \in Nat /\ DOMAIN script = 1 .. Len(script)
  BY <1>1
<1>3. 1 .. Len(script) \subseteq 1 .. MaxUpdates
  BY <1>1, <1>2
<1>. QED  BY <1>1, <1>2, <1>3, ConversationAssumption

LEMMA ArrayIsSeq == ASSUME NEW S, NEW n \in Nat, NEW f \in [1 .. n -> S] PROVE f \in Seq(S)
BY SeqDef

LEMMA PollStep == PollInv /\ [TalkNext]_talkVars => PollInv'
<1>. SUFFICES ASSUME PollInv, [TalkNext]_talkVars PROVE PollInv'
  OBVIOUS
<1>10. NextUpdate \in Nat \ {0} /\ \A i \in 1 .. Len(batch) : batch[i] = NextUpdate + i - 1 /\ batch[i] <= sent
  BY DEF PollInv, NextUpdate
<1>11. batch \in Seq(Nat) /\ sent \in Nat /\ Len(batch) \in Nat /\ DOMAIN batch = 1 .. Len(batch)
  BY MessagesThere DEF PollInv
<1>. USE DEF PollInv
<1>1. script \in Scripts /\ Len(script) \in Nat /\ DOMAIN script = 1 .. Len(script) /\ DOMAIN script \subseteq Messages /\ Api \in Messages
  BY MessagesThere
<1>2. CASE UserSends
  BY <1>1, <1>2 DEF UserSends, NextUpdate
<1>3. CASE Poll
  <2>. DEFINE n == sent - Confirm
  <2>1. Confirm = NextUpdate - 1 /\ n \in Nat /\ Confirm \in Nat /\ n = sent - NextUpdate + 1
    BY <1>1, <1>10, ConfirmIs DEF NextUpdate
  <2>2. batch' = [i \in 1 .. n |-> Confirm + i] /\ confirmed' = Confirm
        /\ UNCHANGED <<script, sent, offset, inbox, apiSent, base>>
    BY <1>3 DEF Poll
  <2>. DEFINE b == [i \in 1 .. n |-> Confirm + i]
  <2>. HIDE DEF n
  <2>5. b \in Seq(Nat) /\ DOMAIN b = 1 .. n /\ \A i \in 1 .. n : b[i] = Confirm + i
    <3>1. \A i \in 1 .. n : Confirm + i \in Nat
      BY <2>1
    <3>2. DOMAIN b = 1 .. n /\ \A i \in 1 .. n : b[i] = Confirm + i
      OBVIOUS
    <3>3. b \in [1 .. n -> Nat]
      BY <3>1
    <3>4. n \in Nat
      BY <2>1
    <3>5. b \in Seq(Nat)
      BY <3>3, <3>4, ArrayIsSeq
    <3>. QED  BY <3>2, <3>5
  <2>. HIDE DEF b
  <2>3. batch' \in Seq(Nat) /\ DOMAIN batch' = 1 .. n /\ \A i \in 1 .. n : batch'[i] = Confirm + i
    <3>1. batch' = b
      BY <2>2 DEF b
    <3>. QED  BY <2>5, <3>1
  <2>4. \A i \in DOMAIN batch' : batch'[i] = NextUpdate + i - 1 /\ batch'[i] <= sent
    <3>. SUFFICES ASSUME NEW i \in 1 .. n
           PROVE batch'[i] = NextUpdate + i - 1 /\ batch'[i] <= sent
      BY <2>3
    <3>1. batch'[i] = Confirm + i /\ i \in Nat /\ i <= n
      BY <2>1, <2>3
    <3>2. Confirm + i = NextUpdate + i - 1 /\ Confirm + i <= sent
      BY <1>10, <1>11, <2>1, <3>1
    <3>. QED  BY <3>1, <3>2
  <2>. QED  BY <1>1, <2>1, <2>2, <2>3, <2>4 DEF NextUpdate
<1>4. CASE PollLost
  <2>1. Confirm = NextUpdate - 1
    BY ConfirmIs
  <2>. QED  BY <1>1, <1>4, <2>1 DEF PollLost, NextUpdate
<1>5. CASE TakeUpdate
  <2>. DEFINE u == Head(batch)
  <2>5. batch # <<>> /\ Len(batch) \in Nat \ {0} /\ u = batch[1] /\ 1 \in 1 .. Len(batch)
    BY <1>5, <1>11 DEF TakeUpdate
  <2>1. u = NextUpdate /\ u \in 1 .. sent
    BY <1>10, <1>11, <2>5
  <2>2. offset' = u + 1 /\ batch' = Tail(batch) /\ UNCHANGED <<script, sent, confirmed, apiSent, base>>
    <3>1. u + 1 > offset
      BY <2>1 DEF NextUpdate
    <3>. QED  BY <1>5, <3>1 DEF TakeUpdate
  <2>3. NextUpdate' = NextUpdate + 1
    BY <1>10, <2>1, <2>2 DEF NextUpdate
  <2>4. /\ batch' \in Seq(Nat)
        /\ \A i \in DOMAIN batch' : batch'[i] = NextUpdate' + i - 1 /\ batch'[i] <= sent
    <3>1. /\ batch' \in Seq(Nat) /\ DOMAIN batch' = 1 .. Len(batch) - 1
          /\ \A i \in 1 .. Len(batch) - 1 : batch'[i] = batch[i + 1]
      BY <1>11, <2>2, <2>5
    <3>2. ASSUME NEW i \in DOMAIN batch'
            PROVE batch'[i] = NextUpdate' + i - 1 /\ batch'[i] <= sent
      <4>4. i \in 1 .. Len(batch) - 1
        BY <3>1
      <4>1. i + 1 \in 1 .. Len(batch) /\ batch'[i] = batch[i + 1] /\ i \in Nat
        <5>1. i + 1 \in 1 .. Len(batch) /\ i \in Nat
          BY <2>5, <4>4
        <5>2. batch'[i] = batch[i + 1]
          BY <3>1, <4>4
        <5>. QED  BY <5>1, <5>2
      <4>2. batch[i + 1] = NextUpdate + (i + 1) - 1 /\ batch[i + 1] <= sent
        BY <1>10, <4>1
      <4>3. NextUpdate + (i + 1) - 1 = NextUpdate' + i - 1
        BY <1>10, <2>3, <4>1
      <4>. QED  BY <4>1, <4>2, <4>3
    <3>. QED  BY <3>1, <3>2
  <2>6. /\ inbox' \in Seq(Messages) /\ Len(inbox') <= Capacity
        /\ \A i \in DOMAIN inbox' : inbox'[i] \in 1 .. sent \cup {Api}
    <3>1. CASE UNCHANGED inbox
      BY <3>1
    <3>2. CASE Len(inbox) < Capacity /\ inbox' = Append(inbox, u)
      <4>1. u \in Messages
        BY <1>1, <2>1
      <4>. HIDE DEF u
      <4>. QED  BY <2>1, <3>2, <4>1, PollingAssumption
    <3>. QED  BY <1>5, <3>1, <3>2 DEF TakeUpdate
  <2>. HIDE DEF u
  <2>. QED  BY <1>1, <1>10, <2>1, <2>2, <2>3, <2>4, <2>6 DEF NextUpdate
<1>6. CASE ApiMessage
  BY <1>1, <1>6, PollingAssumption DEF ApiMessage, NextUpdate
<1>7. CASE Deliver
  <2>1. inbox # <<>> /\ inbox' = Tail(inbox) /\ UNCHANGED <<script, sent, confirmed, offset, batch, apiSent, base>>
    BY <1>7 DEF Deliver, Receive
  <2>2. /\ inbox' \in Seq(Messages) /\ Len(inbox') <= Capacity
        /\ \A i \in DOMAIN inbox' : inbox'[i] \in 1 .. sent \cup {Api}
    BY <2>1, PollingAssumption
  <2>. QED  BY <2>1, <2>2 DEF NextUpdate
<1>8. CASE Crash
  BY <1>1, <1>8, PollingAssumption DEF Crash, Restart, NextUpdate
<1>9. CASE UNCHANGED pollVars
  BY <1>9 DEF pollVars, NextUpdate
<1>. QED  BY <1>2, <1>3, <1>4, <1>5, <1>6, <1>7, <1>8, <1>9
        DEF TalkNext, Listen, Handle, talkVars

(* A message is taken up, or not, and a handler once begun stays begun. *)
LEMMA AtStep ==
    ASSUME HandInv, NEW m \in Messages, Handle(m)
    PROVE  /\ at' \in [Messages -> Stations] /\ UNCHANGED pollVars
           /\ \A n \in Messages : at'[n] = "none" <=> at[n] = "none"
<1>0. at \in [Messages -> Stations]
  BY DEF HandInv
<1>. USE <1>0 DEF Handle, Goto, Finish, Stations
<1>1. CASE HandleCommand(m, Input(m))
  BY <1>1 DEF HandleCommand, Direct
<1>2. CASE HandleText(m, Input(m))
  <2>1. at[m] = "spawned"
    BY <1>2 DEF HandleText
  <2>2. \E place \in {"done", "storing", "branches", "creating", "reviewing"} : at' = [at EXCEPT ![m] = place]
    <3>1. CASE pending[SessionOf(m)] = Nothing
      BY <1>2, <3>1 DEF HandleText
    <3>2. CASE pending[SessionOf(m)] # Nothing
      <4>1. pending[SessionOf(m)].step \in Steps
        BY <3>2, ConversationAssumption DEF HandInv, Asks
      <4>. QED  BY <1>2, <3>2, <4>1 DEF HandleText, Steps
    <3>. QED  BY <3>1, <3>2
  <2>. QED  BY <2>1, <2>2
<1>3. CASE Work(m)
  BY <1>3
     DEF Work, ShowBranches, Store, CallFails, CreateIssue, AddLabelOrReview, Approve,
         Merge
<1>. QED  BY <1>1, <1>2, <1>3

LEMMA SeenStep == PollInv /\ SeenInv /\ HandInv /\ [TalkNext]_talkVars => SeenInv'
<1>. SUFFICES ASSUME PollInv, SeenInv, HandInv, [TalkNext]_talkVars,
                     NEW u \in DOMAIN script'
              PROVE  Seen(u)' = IF u > base' /\ u < offset' /\ Passes(u)' THEN 1 ELSE 0
  BY DEF SeenInv
<1>. DEFINE Due == IF u > base /\ u < offset /\ Passes(u) THEN 1 ELSE 0
<1>1. /\ script' = script /\ u \in DOMAIN script /\ Passes(u)' = Passes(u)
      /\ u \in Nat /\ u \in Messages /\ u # Api /\ sent \in Nat /\ inbox \in Seq(Messages)
  <2>1. script' = script
    BY DEF TalkNext, talkVars, pollVars, Listen, UserSends, Poll, PollLost, TakeUpdate,
           ApiMessage,
           Deliver, Receive, Handle, Crash, Restart
  <2>. QED  BY <2>1, MessagesThere DEF PollInv, Passes
<1>2. base \in Nat /\ offset \in Nat /\ offset <= sent + 1 /\ (offset # 0 => base + 1 < offset)
  BY DEF PollInv, NextUpdate
<1>3. Seen(u) = Due /\ Pending(u) \in Nat /\ Pending(u) = Times(inbox, u) /\ Pending(u)' = Times(inbox', u)
  BY <1>1, TimesFinite DEF SeenInv, Pending, Times
<1>4. CASE (UserSends \/ Poll \/ PollLost) /\ UNCHANGED assistVars
  <2>1. UNCHANGED <<inbox, base, offset, at>>
    BY <1>4 DEF UserSends, Poll, PollLost, assistVars
  <2>. QED  BY <1>1, <1>3, <2>1 DEF Seen
<1>5. CASE TakeUpdate /\ UNCHANGED assistVars
  <2>1. batch # <<>> /\ Head(batch) = NextUpdate /\ NextUpdate \in 1 .. sent
    <3>1. batch # <<>> /\ batch \in Seq(Nat) /\ 1 \in DOMAIN batch /\ Head(batch) = batch[1]
      BY <1>5 DEF TakeUpdate, PollInv
    <3>2. batch[1] = NextUpdate + 1 - 1 /\ batch[1] <= sent
      BY <3>1 DEF PollInv
    <3>3. NextUpdate \in Nat \ {0}
      BY <1>2 DEF NextUpdate
    <3>. QED  BY <1>1, <3>1, <3>2, <3>3
  <2>2. NextUpdate \in Nat /\ NextUpdate >= offset
    BY <1>2 DEF NextUpdate
  <2>3. UNCHANGED <<at, base>> /\ offset' = NextUpdate + 1
        /\ inbox' = IF Passes(NextUpdate) THEN Append(inbox, NextUpdate) ELSE inbox
    BY <1>5, <2>1, <2>2 DEF TakeUpdate, assistVars
  <2>4. NextUpdate \in Messages
    <3>1. script \in Scripts /\ sent <= Len(script)
      BY DEF PollInv
    <3>2. DOMAIN script = 1 .. Len(script) /\ DOMAIN script \subseteq Messages /\ Len(script) \in Nat
      BY <3>1, MessagesThere
    <3>. QED  BY <1>1, <2>1, <3>1, <3>2
  <2>5. Pending(u)' = Pending(u) + IF Passes(NextUpdate) /\ u = NextUpdate THEN 1 ELSE 0
    BY <1>1, <1>3, <2>3, <2>4, TimesAppend
  <2>6. CASE u = NextUpdate
    <3>1. Due = 0 /\ u > base /\ u < offset'
      BY <1>1, <1>2, <2>3, <2>6 DEF NextUpdate
    <3>. QED  BY <1>1, <1>3, <2>3, <2>5, <2>6, <3>1 DEF Seen
  <2>7. CASE u # NextUpdate
    <3>1. u > base /\ u < offset' <=> u > base /\ u < offset
      BY <1>1, <1>2, <2>3, <2>7 DEF NextUpdate
    <3>. QED  BY <1>1, <1>3, <2>3, <2>5, <2>7, <3>1 DEF Seen
  <2>. QED  BY <2>6, <2>7
<1>6. CASE ApiMessage /\ UNCHANGED assistVars
  <2>1. UNCHANGED <<at, base, offset>> /\ inbox' = Append(inbox, Api) /\ Api \in Messages
    BY <1>6, MessagesThere DEF ApiMessage, assistVars, PollInv
  <2>2. Pending(u)' = Pending(u)
    BY <1>1, <1>3, <2>1, TimesAppend
  <2>. QED  BY <1>1, <1>3, <2>1, <2>2 DEF Seen
<1>7. CASE Deliver
  <2>1. PICK m \in Messages : Receive(m) /\ SpawnHandler(m)
    BY <1>7 DEF Deliver
  <2>2. inbox # <<>> /\ m = Head(inbox) /\ inbox' = Tail(inbox) /\ UNCHANGED <<base, offset>>
    BY <2>1 DEF Receive
  <2>3. at[m] = "none" /\ at'[m] = "spawned" /\ \A n \in Messages : n # m => at'[n] = at[n]
    BY <2>1 DEF SpawnHandler, Goto, HandInv
  <2>4. Pending(u) = Pending(u)' + (IF u = m THEN 1 ELSE 0) /\ Pending(u)' \in Nat
    <3>1. inbox' \in Seq(Messages)
      BY <1>1, <2>2
    <3>. QED  BY <1>1, <1>3, <2>2, <3>1, TimesTail, TimesFinite
  <2>. QED  BY <1>1, <1>3, <2>2, <2>3, <2>4 DEF Seen
<1>8. ASSUME NEW m \in Messages, Handle(m)
        PROVE Seen(u)' = IF u > base' /\ u < offset' /\ Passes(u)' THEN 1 ELSE 0
  <2>1. UNCHANGED <<inbox, base, offset>> /\ (at'[u] = "none" <=> at[u] = "none")
    BY <1>1, <1>8, AtStep DEF pollVars
  <2>. QED  BY <1>1, <1>3, <2>1 DEF Seen
<1>9. CASE Crash
  <2>1. inbox' = <<>> /\ offset' = 0 /\ at'[u] = "none"
    BY <1>1, <1>9 DEF Crash, Restart, Forget
  <2>2. Pending(u)' = 0
    <3>1. {i \in DOMAIN inbox' : inbox'[i] = u} = {}
      BY <2>1
    <3>. QED  BY <1>3, <3>1, FS_EmptySet DEF Times
  <2>. QED  BY <1>1, <2>1, <2>2 DEF Seen
<1>10. CASE UNCHANGED talkVars
  BY <1>1, <1>3, <1>10 DEF talkVars, pollVars, assistVars, Seen
<1>. QED  BY <1>4, <1>5, <1>6, <1>7, <1>8, <1>9, <1>10 DEF TalkNext, Listen
-----------------------------------------------------------------------------
(* What is left of p, the open question, when message m answers it, or     *)
(* what m begins.                                                          *)
Grown(e, m, p) ==
    \/ e.by = m /\ e.answers = <<>>
    \/ p # Nothing /\ e.by = p.by /\ (e.answers = p.answers \/ e.answers = Append(p.answers, m))

(* The handler of m looks at its message. *)
LooksAt(m) ==
    /\ at[m] = "spawned" /\ held[m] = Nothing
    /\ pending' = [pending EXCEPT ![SessionOf(m)] = Nothing]
    /\ UNCHANGED <<issues, life>>
    /\ \/ held' = held /\ at' = [at EXCEPT ![m] = "done"]
       \/ \E e \in Entries, place \in Stations \ Idle :
            /\ held' = [held EXCEPT ![m] = e]
            /\ at' = [at EXCEPT ![m] = place]
            /\ Grown(e, m, pending[SessionOf(m)])
            /\ place \in {"storing", "branches"} => Asks(e)
            /\ place = "creating" => Len(e.answers) \in {0, 3}

(* It goes on to a call, or back to the person. *)
GoesOn(m) ==
    /\ at[m] \notin Idle /\ UNCHANGED <<pending, held, issues, life>>
    /\ \/ at[m] = "branches" /\ at' = [at EXCEPT ![m] = "storing"]
       \/ at' = [at EXCEPT ![m] = "merging"]

(* It is done with its entry, which is gone, in the session or an issue. *)
Ends(m) ==
    /\ at[m] \notin Idle
    /\ at' = [at EXCEPT ![m] = "done"] /\ held' = [held EXCEPT ![m] = Nothing]
    /\ UNCHANGED life
    /\ \/ UNCHANGED <<pending, issues>>
       \/ at[m] = "storing" /\ pending' = [pending EXCEPT ![SessionOf(m)] = held[m]] /\ UNCHANGED issues
       \/ /\ at[m] = "creating" /\ UNCHANGED pending
          /\ issues' = issues \cup {[life |-> life, by |-> held[m].by, answers |-> held[m].answers]}

LEMMA EntryIs ==
    ASSUME NEW word \in Steps \cup {"direct", "complete"}, NEW by \in Messages,
        NEW answers \in Seq(Messages)
    PROVE  /\ Entry(word, by, answers) \in Entries /\ Entry(word, by, answers).step = word
           /\ Entry(word, by, answers).by = by /\ Entry(word, by, answers).answers = answers
BY DEF Entry, Entries

(* Of an entry that has no answer yet. *)
LEMMA EntryBegins ==
    ASSUME NEW word \in Steps \cup {"direct", "complete"}, NEW by \in Messages
    PROVE  /\ Entry(word, by, <<>>) \in Entries /\ Entry(word, by, <<>>).step = word
           /\ Entry(word, by, <<>>).by = by /\ Entry(word, by, <<>>).answers = <<>>
<1>. DEFINE nothing == <<>>
<1>1. nothing \in Seq(Messages)
  OBVIOUS
<1>. HIDE DEF nothing
<1>2. /\ Entry(word, by, nothing) \in Entries /\ Entry(word, by, nothing).step = word
      /\ Entry(word, by, nothing).by = by /\ Entry(word, by, nothing).answers = nothing
  BY <1>1, EntryIs
<1>. QED  BY <1>2 DEF nothing

LEMMA HandleStep ==
    ASSUME HandInv, NEW m \in Messages, Handle(m)
    PROVE  UNCHANGED pollVars /\ (LooksAt(m) \/ GoesOn(m) \/ Ends(m))
<1>1. SessionOf(m) \in SessionKeys
  BY ConversationAssumption
<1>2. UNCHANGED pollVars
  BY DEF Handle
<1>3. at[m] = "spawned" => held[m] = Nothing
  BY DEF HandInv, Idle
<1>7. <<>> \in Seq(Messages) /\ Len(<<>>) = 0
  OBVIOUS
<1>4. CASE HandleCommand(m, Input(m))
  <2>1. /\ at[m] = "spawned" /\ pending' = [pending EXCEPT ![SessionOf(m)] = Nothing]
        /\ UNCHANGED <<issues, life>>
    BY <1>4 DEF HandleCommand, Taken
  <2>2. CASE /\ Input(m) \in DOMAIN Opens
             /\ held' = [held EXCEPT ![m] = Entry(Opens[Input(m)], m, <<>>)]
             /\ Goto(m, "storing")
    <3>. DEFINE e == Entry(Opens[Input(m)], m, <<>>)
    <3>1. Opens[Input(m)] \in {"title", "number", "changes"}
      BY <2>2 DEF Opens
    <3>2. e \in Entries /\ e.by = m /\ e.answers = <<>> /\ e.step \in {"title", "number", "changes"} /\ Len(e.answers) = 0
      <4>1. Opens[Input(m)] \in Steps
        BY <3>1 DEF Steps
      <4>2. e \in Entries /\ e.by = m /\ e.answers = <<>> /\ e.step = Opens[Input(m)]
        BY <4>1, EntryBegins
      <4>. HIDE DEF e
      <4>. QED  BY <1>7, <3>1, <4>2
    <3>. HIDE DEF e
    <3>3. Asks(e) /\ Grown(e, m, pending[SessionOf(m)])
      BY <3>2 DEF Asks, Steps, Given, Grown
    <3>4. held' = [held EXCEPT ![m] = e] /\ at' = [at EXCEPT ![m] = "storing"] /\ "storing" \in Stations \ Idle
      BY <2>2 DEF e, Goto, Stations, Idle
    <3>. QED  BY <1>2, <1>3, <2>1, <3>2, <3>3, <3>4 DEF LooksAt
  <2>3. CASE /\ Input(m) \in DOMAIN Direct
             /\ held' = [held EXCEPT ![m] = Entry("direct", m, <<>>)]
             /\ Goto(m, Direct[Input(m)])
    <3>. DEFINE e == Entry("direct", m, <<>>)
                place == Direct[Input(m)]
    <3>1. place \in Stations \ Idle /\ place \notin {"storing", "branches"}
      BY <2>3 DEF Direct, Stations, Idle
    <3>2. e \in Entries /\ e.by = m /\ e.answers = <<>> /\ Len(e.answers) = 0
      <4>1. e \in Entries /\ e.by = m /\ e.answers = <<>>
        BY EntryBegins
      <4>. HIDE DEF e
      <4>. QED  BY <1>7, <4>1
    <3>3. held' = [held EXCEPT ![m] = e] /\ at' = [at EXCEPT ![m] = place]
      BY <2>3 DEF Goto
    <3>. HIDE DEF e, place
    <3>4. Grown(e, m, pending[SessionOf(m)])
      BY <3>2 DEF Grown
    <3>. QED  BY <1>2, <1>3, <2>1, <3>1, <3>2, <3>3, <3>4 DEF LooksAt
  <2>4. CASE Finish(m, "replied") /\ UNCHANGED held
    BY <1>2, <1>3, <2>1, <2>4 DEF LooksAt, Finish, Goto
  <2>. QED  BY <1>4, <2>2, <2>3, <2>4 DEF HandleCommand
<1>5. CASE HandleText(m, Input(m))
  <2>. DEFINE p == pending[SessionOf(m)]
  <2>1. /\ at[m] = "spawned" /\ pending' = [pending EXCEPT ![SessionOf(m)] = Nothing]
        /\ UNCHANGED <<issues, life>>
    BY <1>5 DEF HandleText, Taken
  <2>2. CASE held' = held /\ at' = [at EXCEPT ![m] = "done"]
    BY <1>2, <1>3, <2>1, <2>2 DEF LooksAt
  <2>3. CASE p # Nothing /\ ~(held' = held /\ at' = [at EXCEPT ![m] = "done"])
    <3>1. p \in Entries /\ Asks(p)
      BY <1>1, <2>3 DEF HandInv
    <3>2. p.by \in Messages /\ p.answers \in Seq(Messages) /\ p.step \in Steps /\ Len(p.answers) = Given[p.step]
      BY <3>1 DEF Asks, Entries
    <3>. DEFINE more == Append(p.answers, m)
    <3>3. more \in Seq(Messages) /\ Len(more) = Len(p.answers) + 1
      BY <3>2
    <3>4. PICK step \in {"body", "branch", "complete"}, place \in {"storing", "branches", "creating", "reviewing"} :
              /\ at' = [at EXCEPT ![m] = place]
              /\ \/ held' = [held EXCEPT ![m] = Entry(step, p.by, more)]
                    /\ \/ p.step = "title" /\ step = "body" /\ place = "storing"
                       \/ p.step = "body" /\ step = "branch" /\ place = "branches"
                       \/ p.step = "branch" /\ step = "complete" /\ place = "creating"
                       \/ p.step = "changes" /\ step = "complete" /\ place = "reviewing"
                 \/ held' = [held EXCEPT ![m] = p] /\ p.step = "number" /\ place = "storing"
      <4>1. p.step \in {"title", "body", "branch", "number", "changes"}
        BY <3>2 DEF Steps
      <4>. USE <1>5, <2>3 DEF HandleText, Goto, Finish
      <4>2. CASE p.step = "title"  BY <4>2
      <4>3. CASE p.step = "body"  BY <4>3
      <4>4. CASE p.step = "branch"  BY <4>4
      <4>5. CASE p.step = "changes"  BY <4>5
      <4>6. CASE p.step = "number"  BY <4>6
      <4>. QED  BY <4>1, <4>2, <4>3, <4>4, <4>5, <4>6
    <3>5. place \in Stations \ Idle
      BY <3>4 DEF Stations, Idle
    <3>6. CASE held' = [held EXCEPT ![m] = p] /\ p.step = "number" /\ place = "storing"
      <4>1. Grown(p, m, p)
        BY <2>3 DEF Grown
      <4>. HIDE DEF p
      <4>. QED  BY <1>3, <1>2, <2>1, <3>1, <3>4, <3>5, <3>6, <4>1 DEF LooksAt, p
    <3>7. CASE held' = [held EXCEPT ![m] = Entry(step, p.by, more)]
               /\ \/ p.step = "title" /\ step = "body" /\ place = "storing"
                  \/ p.step = "body" /\ step = "branch" /\ place = "branches"
                  \/ p.step = "branch" /\ step = "complete" /\ place = "creating"
                  \/ p.step = "changes" /\ step = "complete" /\ place = "reviewing"
      <4>. DEFINE e == Entry(step, p.by, more)
      <4>. HIDE DEF more
      <4>6. step \in Steps \cup {"direct", "complete"}
        BY <3>4 DEF Steps
      <4>1. e \in Entries /\ e.by = p.by /\ e.answers = more /\ e.step = step
        BY <3>2, <3>3, <4>6, EntryIs
      <4>. HIDE DEF e, p
      <4>2. place \in {"storing", "branches"} => Asks(e)
        BY <3>2, <3>3, <3>7, <4>1 DEF Asks, Steps, Given
      <4>3. place = "creating" => Len(e.answers) \in {0, 3}
        <5>1. Given["branch"] = 2
          BY DEF Given
        <5>2. place = "creating" => p.step = "branch"
          BY <3>7
        <5>3. ASSUME place = "creating" PROVE Len(e.answers) = 3
          <6>1. Len(p.answers) = 2
            BY <3>2, <5>1, <5>2, <5>3
          <6>2. Len(more) = 3
            BY <3>3, <6>1
          <6>. QED  BY <4>1, <6>2
        <5>. QED  BY <5>3
      <4>4. Grown(e, m, p)
        BY <2>3, <4>1 DEF Grown, more
      <4>5. held' = [held EXCEPT ![m] = e]
        BY <3>7 DEF e
      <4>. QED  BY <1>2, <1>3, <2>1, <3>4, <3>5, <4>1, <4>2, <4>3, <4>4, <4>5
              DEF LooksAt, p
    <3>. QED  BY <3>4, <3>6, <3>7
  <2>4. p = Nothing => held' = held /\ at' = [at EXCEPT ![m] = "done"]
    BY <1>5 DEF HandleText, Finish, Goto
  <2>. QED  BY <2>2, <2>3, <2>4
<1>6. CASE Work(m)
  <2>. USE DEF Goto, Finish, Idle
  <2>1. CASE ShowBranches(m) \/ Approve(m)
    BY <1>2, <2>1 DEF ShowBranches, Approve, GoesOn
  <2>2. CASE Store(m) \/ CallFails(m) \/ CreateIssue(m) \/ AddLabelOrReview(m) \/ Merge(m)
    BY <1>2, <2>2 DEF Store, CallFails, CreateIssue, AddLabelOrReview, Merge, Ends
  <2>. QED  BY <1>6, <2>1, <2>2 DEF Work
<1>. QED  BY <1>4, <1>5, <1>6 DEF Handle

LEMMA HandStep == HandInv /\ [TalkNext]_talkVars => HandInv'
<1>. SUFFICES ASSUME HandInv, [TalkNext]_talkVars PROVE HandInv'
  OBVIOUS
<1>. USE DEF HandInv
<1>1. ASSUME NEW m \in Messages, LooksAt(m) PROVE HandInv'
  <2>1. SessionOf(m) \in SessionKeys
    BY ConversationAssumption
  <2>2. at[m] = "spawned" /\ held[m] = Nothing /\ pending' = [pending EXCEPT ![SessionOf(m)] = Nothing] /\ UNCHANGED <<issues, life>>
    BY <1>1 DEF LooksAt
  <2>3. pending' \in [SessionKeys -> Entries \cup {Nothing}] /\ \A s \in SessionKeys : pending'[s] # Nothing => Asks(pending'[s])
    BY <2>1, <2>2
  <2>4. CASE held' = held /\ at' = [at EXCEPT ![m] = "done"]
    BY <2>2, <2>3, <2>4 DEF Stations, Idle
  <2>5. ASSUME NEW e \in Entries, NEW place \in Stations \ Idle,
            held' = [held EXCEPT ![m] = e], at' = [at EXCEPT ![m] = place],
            place \in {"storing", "branches"} => Asks(e), place = "creating" => Len(e.answers) \in {0, 3}
        PROVE  HandInv'
    <3>1. e # Nothing
      BY AssistantAssumption DEF Entries
    <3>2. at' \in [Messages -> Stations] /\ held' \in [Messages -> Entries \cup {Nothing}]
      BY <2>5
    <3>3. at'[m] = place /\ held'[m] = e /\ \A n \in Messages : n # m => at'[n] = at[n] /\ held'[n] = held[n]
      BY <2>5
    <3>4. \A n \in Messages : held'[n] = Nothing <=> at'[n] \in Idle
      BY <3>1, <3>3
    <3>5. \A n \in Messages : at'[n] \in {"storing", "branches"} => Asks(held'[n])
      BY <2>5, <3>3
    <3>6. \A n \in Messages : at'[n] = "creating" => Len(held'[n].answers) \in {0, 3}
      BY <2>5, <3>3
    <3>. QED  BY <2>2, <2>3, <3>2, <3>4, <3>5, <3>6
  <2>. QED  BY <1>1, <2>4, <2>5 DEF LooksAt
<1>2. ASSUME NEW m \in Messages, GoesOn(m) PROVE HandInv'
  <2>1. PICK place \in {"storing", "merging"} : at' = [at EXCEPT ![m] = place] /\ (place = "storing" => at[m] = "branches")
    BY <1>2 DEF GoesOn
  <2>2. at[m] \notin Idle /\ UNCHANGED <<pending, held, issues, life>>
    BY <1>2 DEF GoesOn
  <2>3. at' \in [Messages -> Stations] /\ at'[m] = place /\ \A n \in Messages : n # m => at'[n] = at[n]
    BY <2>1 DEF Stations
  <2>4. \A n \in Messages : held'[n] = Nothing <=> at'[n] \in Idle
    BY <2>1, <2>2, <2>3 DEF Idle
  <2>5. \A n \in Messages : at'[n] \in {"storing", "branches"} => Asks(held'[n])
    BY <2>1, <2>2, <2>3
  <2>6. \A n \in Messages : at'[n] = "creating" => Len(held'[n].answers) \in {0, 3}
    BY <2>1, <2>2, <2>3
  <2>. QED  BY <2>2, <2>3, <2>4, <2>5, <2>6
<1>3. ASSUME NEW m \in Messages, Ends(m) PROVE HandInv'
  <2>1. at' = [at EXCEPT ![m] = "done"] /\ held' = [held EXCEPT ![m] = Nothing] /\ at[m] \notin Idle /\ UNCHANGED life
    BY <1>3 DEF Ends
  <2>2. held[m] # Nothing /\ held[m] \in Entries
    BY <2>1
  <2>3. at' \in [Messages -> Stations] /\ held' \in [Messages -> Entries \cup {Nothing}]
    BY <2>1 DEF Stations
  <2>4. at'[m] = "done" /\ held'[m] = Nothing /\ \A n \in Messages : n # m => at'[n] = at[n] /\ held'[n] = held[n]
    BY <2>1
  <2>5. /\ \A n \in Messages : held'[n] = Nothing <=> at'[n] \in Idle
        /\ \A n \in Messages : at'[n] \in {"storing", "branches"} => Asks(held'[n])
        /\ \A n \in Messages : at'[n] = "creating" => Len(held'[n].answers) \in {0, 3}
    BY <2>4 DEF Idle
  <2>6. pending' \in [SessionKeys -> Entries \cup {Nothing}] /\ \A s \in SessionKeys : pending'[s] # Nothing => Asks(pending'[s])
    <3>1. CASE UNCHANGED pending
      BY <3>1
    <3>2. CASE at[m] = "storing" /\ pending' = [pending EXCEPT ![SessionOf(m)] = held[m]]
      <4>1. SessionOf(m) \in SessionKeys /\ Asks(held[m])
        BY <3>2, ConversationAssumption
      <4>. QED  BY <2>2, <3>2, <4>1
    <3>. QED  BY <1>3, <3>1, <3>2 DEF Ends
  <2>7. issues' \subseteq [life : Nat, by : Messages, answers : Seq(Messages)]
        /\ \A i \in issues' : i.life <= life /\ Len(i.answers) \in {0, 3}
    <3>1. CASE UNCHANGED issues
      BY <3>1
    <3>2. CASE at[m] = "creating" /\ issues' = issues \cup {[life |-> life, by |-> held[m].by, answers |-> held[m].answers]}
      <4>. DEFINE new == [life |-> life, by |-> held[m].by, answers |-> held[m].answers]
      <4>1. held[m].by \in Messages /\ held[m].answers \in Seq(Messages) /\ Len(held[m].answers) \in {0, 3}
        BY <2>2, <3>2 DEF Entries
      <4>2. life \in Nat
        BY ConversationAssumption
      <4>3. new \in [life : Nat, by : Messages, answers : Seq(Messages)] /\ new.life <= life /\ Len(new.answers) \in {0, 3}
        BY <4>1, <4>2
      <4>. HIDE DEF new
      <4>4. issues' = issues \cup {new}
        BY <3>2 DEF new
      <4>. QED  BY <4>3, <4>4
    <3>. QED  BY <1>3, <3>1, <3>2 DEF Ends
  <2>. QED  BY <2>1, <2>3, <2>5, <2>6, <2>7
<1>4. ASSUME NEW m \in Messages, Handle(m) PROVE HandInv'
  BY <1>1, <1>2, <1>3, <1>4, HandleStep
<1>5. CASE Deliver
  <2>1. PICK m \in Messages : SpawnHandler(m)
    BY <1>5 DEF Deliver
  <2>2. at[m] = "none" /\ at' = [at EXCEPT ![m] = "spawned"] /\ UNCHANGED <<pending, held, issues, life>>
    BY <2>1 DEF SpawnHandler, Goto
  <2>3. at' \in [Messages -> Stations] /\ at'[m] = "spawned" /\ \A n \in Messages : n # m => at'[n] = at[n]
    BY <2>2 DEF Stations
  <2>. QED  BY <2>2, <2>3 DEF Idle
<1>6. CASE Crash
  <2>1. /\ pending' = [s \in SessionKeys |-> Nothing] /\ at' = [m \in Messages |-> "none"] /\ held' = [m \in Messages |-> Nothing]
        /\ issues' = issues /\ life' = life + 1 /\ life < MaxCrashes
    BY <1>6 DEF Crash, Forget
  <2>2. at' \in [Messages -> Stations] /\ \A n \in Messages : at'[n] = "none" /\ held'[n] = Nothing
    BY <2>1 DEF Stations
  <2>3. life' \in 0 .. MaxCrashes /\ \A i \in issues : i.life <= life'
    <3>1. \A i \in issues : i.life \in Nat
      OBVIOUS
    <3>. QED  BY <2>1, <3>1, ConversationAssumption
  <2>4. pending' \in [SessionKeys -> Entries \cup {Nothing}] /\ \A s \in SessionKeys : pending'[s] = Nothing
    BY <2>1
  <2>5. held' \in [Messages -> Entries \cup {Nothing}]
    BY <2>1
  <2>. QED  BY <2>1, <2>2, <2>3, <2>4, <2>5 DEF Idle
<1>7. CASE UNCHANGED assistVars
  BY <1>7 DEF assistVars
<1>. QED  BY <1>4, <1>5, <1>6, <1>7 DEF TalkNext, Listen, talkVars
-----------------------------------------------------------------------------
(* What an answer adds to an entry is the message that gave it. *)
LEMMA GrownAnswers ==
    ASSUME NEW m \in Messages, NEW p, p # Nothing => p \in Entries,
        NEW e \in Entries, Grown(e, m, p)
    PROVE  /\ e.by = m \/ (p # Nothing /\ e.by = p.by)
           /\ \A n \in DOMAIN e.answers :
                 \/ e.answers[n] = m
                 \/ p # Nothing /\ \E k \in DOMAIN p.answers : k = n /\ e.answers[n] = p.answers[k]
           /\ p # Nothing /\ IsInjective(p.answers) /\ (\A k \in DOMAIN p.answers : p.answers[k] # m)
                 => IsInjective(e.answers)
           /\ e.answers = <<>> => IsInjective(e.answers)
<1>1. CASE e.by = m /\ e.answers = <<>>
  BY <1>1 DEF IsInjective
<1>2. CASE p # Nothing /\ e.by = p.by /\ e.answers = p.answers
  BY <1>2 DEF IsInjective
<1>3. CASE p # Nothing /\ e.by = p.by /\ e.answers = Append(p.answers, m)
  <2>. DEFINE a == p.answers
              b == e.answers
  <2>1. a \in Seq(Messages) /\ b = Append(a, m)
    BY <1>3 DEF Entries
  <2>2. /\ Len(a) \in Nat /\ DOMAIN a = 1 .. Len(a) /\ DOMAIN b = 1 .. Len(a) + 1
        /\ b[Len(a) + 1] = m /\ \A n \in 1 .. Len(a) : b[n] = a[n]
    BY <2>1
  <2>. HIDE DEF a, b
  <2>3. \A n \in DOMAIN b : n \in DOMAIN a \/ n = Len(a) + 1
    BY <2>2
  <2>4. IsInjective(a) /\ (\A k \in DOMAIN a : a[k] # m) => IsInjective(b)
    BY <2>2, <2>3 DEF IsInjective
  <2>5. \A n \in DOMAIN b : b[n] = m \/ \E k \in DOMAIN a : k = n /\ b[n] = a[k]
    BY <2>2, <2>3
  <2>6. b = <<>> => IsInjective(b)
    BY DEF IsInjective
  <2>. QED  BY <1>3, <2>4, <2>5, <2>6 DEF a, b
<1>. QED  BY <1>1, <1>2, <1>3 DEF Grown

LEMMA ApartSwaps == ASSUME NEW e, NEW f, Apart(e, f) PROVE Apart(f, e)
BY DEF Apart

(* Entries of two sessions have nothing in common. *)
LEMMA SessionsApart ==
    ASSUME NEW e, NEW f, NEW s, NEW t, s # t, Within(e, s), Within(f, t)
    PROVE  Apart(e, f)
BY DEF Within, Apart

(* What is apart from the open question and not of m stays apart. *)
LEMMA GrownApart ==
    ASSUME NEW m \in Messages, NEW p, p # Nothing => p \in Entries,
        NEW e \in Entries, Grown(e, m, p),
           NEW f, f.by # m, \A k \in DOMAIN f.answers : f.answers[k] # m, p # Nothing => Apart(p, f)
    PROVE  Apart(e, f) /\ Apart(f, e)
<1>1. e.by # f.by
  BY GrownAnswers DEF Apart
<1>2. ASSUME NEW n \in DOMAIN e.answers, NEW k \in DOMAIN f.answers
        PROVE e.answers[n] # f.answers[k]
  <2>1. \/ e.answers[n] = m
        \/ p # Nothing /\ \E l \in DOMAIN p.answers : l = n /\ e.answers[n] = p.answers[l]
    BY GrownAnswers
  <2>. QED  BY <2>1 DEF Apart
<1>. QED  BY <1>1, <1>2 DEF Apart

(* While the process lives, a message that was looked at stays so. *)
LEMMA UsedStays ==
    ASSUME HandInv,
        NEW m \in Messages, LooksAt(m) \/ GoesOn(m) \/ Ends(m) \/ SpawnHandler(m)
    PROVE  \A e : UsedIn(e) => UsedIn(e)'
<1>1. \A n \in Messages : at[n] \notin {"none", "spawned"} => at'[n] \notin {"none", "spawned"}
  <2>1. CASE LooksAt(m)
    BY <2>1 DEF LooksAt, HandInv, Stations, Idle
  <2>2. CASE GoesOn(m)
    BY <2>2 DEF GoesOn, HandInv
  <2>3. CASE Ends(m)
    BY <2>3 DEF Ends, HandInv
  <2>4. CASE SpawnHandler(m)
    BY <2>4 DEF SpawnHandler, Goto, HandInv
  <2>. QED  BY <2>1, <2>2, <2>3, <2>4
<1>. QED  BY <1>1 DEF UsedIn, Used

LEMMA MadeStep == HandInv /\ MadeInv /\ [TalkNext]_talkVars => MadeInv'
<1>. SUFFICES ASSUME HandInv, MadeInv, [TalkNext]_talkVars PROVE MadeInv'
  OBVIOUS
<1>. USE DEF MadeInv
<1>0. \A m \in Messages : SessionOf(m) \in SessionKeys
  BY ConversationAssumption
<1>1. ASSUME NEW m \in Messages, LooksAt(m) PROVE MadeInv'
  <2>. DEFINE s == SessionOf(m)
              p == pending[s]
  <2>1. at[m] = "spawned" /\ held[m] = Nothing /\ pending' = [pending EXCEPT ![s] = Nothing] /\ UNCHANGED <<issues, life>>
    BY <1>1 DEF LooksAt
  <2>2. \A e : UsedIn(e) => UsedIn(e)'
    BY <1>1, UsedStays
  <2>3. \A t \in SessionKeys : pending'[t] = Nothing \/ pending'[t] = pending[t]
    BY <1>0, <2>1 DEF HandInv
  <2>4. CASE held' = held
    BY <2>1, <2>2, <2>3, <2>4
  <2>5. ASSUME NEW e \in Entries, NEW place \in Stations \ Idle,
            held' = [held EXCEPT ![m] = e],
            at' = [at EXCEPT ![m] = place], Grown(e, m, p)
        PROVE  MadeInv'
    <3>1. at'[m] \notin {"none", "spawned"}
      BY <2>5 DEF HandInv, Idle
    <3>2. p # Nothing => p \in Entries /\ UsedIn(p) /\ Within(p, s)
      BY <1>0 DEF HandInv
    <3>. HIDE DEF p, s
    <3>3. p # Nothing => \A k \in DOMAIN p.answers : p.answers[k] # m
      BY <2>1, <3>2 DEF UsedIn, Used
    <3>4. IsInjective(e.answers)
      <4>1. CASE e.answers = <<>>
        BY <4>1 DEF IsInjective
      <4>2. CASE e.answers # <<>>
        <5>1. p # Nothing
          BY <2>5, <4>2 DEF Grown
        <5>. QED  BY <2>5, <3>2, <3>3, <5>1, GrownAnswers DEF Within
      <4>. QED  BY <4>1, <4>2
    <3>5. e.by = m \/ (p # Nothing /\ e.by = p.by)
      BY <2>5, <3>2, GrownAnswers
    <3>6. \A n \in DOMAIN e.answers :
              e.answers[n] = m \/ (p # Nothing /\ \E k \in DOMAIN p.answers : k = n /\ e.answers[n] = p.answers[k])
      BY <2>5, <3>2, GrownAnswers
    <3>7. p # Nothing =>
              /\ p.by \in Messages /\ at'[p.by] \notin {"none", "spawned"}
              /\ \A k \in DOMAIN p.answers : p.answers[k] \in Messages /\ at'[p.answers[k]] \notin {"none", "spawned"}
      <4>1. \A n \in Messages : Used(n) => at'[n] \notin {"none", "spawned"}
        BY <2>5, <3>1 DEF Used, HandInv
      <4>2. \A n : Used(n) => n \in Messages
        BY DEF Used
      <4>. QED  BY <3>2, <4>1, <4>2 DEF UsedIn
    <3>8. Within(e, s)
      BY <3>2, <3>4, <3>5, <3>6 DEF Within, s
    <3>9. UsedIn(e)'
      BY <3>1, <3>5, <3>6, <3>7 DEF UsedIn, Used
    <3>10. held'[m] = e /\ \A n \in Messages : n # m => held'[n] = held[n]
      BY <2>5 DEF HandInv
    <3>. QED  BY <2>1, <2>2, <2>3, <3>8, <3>9, <3>10 DEF s
  <2>. QED  BY <1>1, <2>4, <2>5 DEF LooksAt
<1>2. ASSUME NEW m \in Messages, GoesOn(m) \/ SpawnHandler(m) PROVE MadeInv'
  <2>1. \A e : UsedIn(e) => UsedIn(e)'
    BY <1>2, UsedStays
  <2>2. UNCHANGED <<pending, held, issues, life>>
    BY <1>2 DEF GoesOn, SpawnHandler
  <2>. QED  BY <2>1, <2>2
<1>3. ASSUME NEW m \in Messages, Ends(m) PROVE MadeInv'
  <2>1. \A e : UsedIn(e) => UsedIn(e)'
    BY <1>3, UsedStays
  <2>2. at[m] \notin Idle /\ held' = [held EXCEPT ![m] = Nothing] /\ UNCHANGED life
    BY <1>3 DEF Ends
  <2>3. held[m] # Nothing /\ UsedIn(held[m]) /\ Within(held[m], SessionOf(m)) /\ held[m] \in Entries
    BY <2>2 DEF HandInv
  <2>4. \A n \in Messages : held'[n] = Nothing \/ held'[n] = held[n]
    BY <2>2 DEF HandInv
  <2>5. \A s \in SessionKeys : pending'[s] # Nothing => UsedIn(pending[s])' /\ Within(pending'[s], s)
    <3>1. CASE UNCHANGED pending
      BY <2>1, <3>1
    <3>2. CASE pending' = [pending EXCEPT ![SessionOf(m)] = held[m]]
      <4>1. \A s \in SessionKeys : pending'[s] = pending[s] \/ (s = SessionOf(m) /\ pending'[s] = held[m])
        BY <3>2 DEF HandInv
      <4>. QED  BY <2>1, <2>3, <4>1
    <3>. QED  BY <1>3, <3>1, <3>2 DEF Ends
  <2>6. \A i \in issues' : Within(i, SessionOf(i.by)) /\ (i.life = life => UsedIn(i)')
    <3>1. CASE UNCHANGED issues
      BY <2>1, <3>1
    <3>2. CASE issues' = issues \cup {[life |-> life, by |-> held[m].by, answers |-> held[m].answers]}
      <4>. DEFINE new == [life |-> life, by |-> held[m].by, answers |-> held[m].answers]
      <4>1. new.by = held[m].by /\ new.answers = held[m].answers
        OBVIOUS
      <4>. HIDE DEF new
      <4>2. Within(new, SessionOf(new.by)) /\ UsedIn(new)
        BY <2>3, <4>1 DEF Within, UsedIn
      <4>3. issues' = issues \cup {new}
        BY <3>2 DEF new
      <4>. QED  BY <2>1, <4>2, <4>3
    <3>. QED  BY <1>3, <3>1, <3>2 DEF Ends
  <2>. QED  BY <2>1, <2>2, <2>4, <2>5, <2>6
<1>4. ASSUME NEW m \in Messages, Handle(m) PROVE MadeInv'
  BY <1>1, <1>2, <1>3, <1>4, HandleStep
<1>5. CASE Deliver
  BY <1>2, <1>5 DEF Deliver
<1>6. CASE Crash
  <2>1. /\ pending' = [s \in SessionKeys |-> Nothing] /\ held' = [m \in Messages |-> Nothing]
        /\ issues' = issues /\ life' = life + 1
    BY <1>6 DEF Crash, Forget
  <2>2. \A i \in issues : i.life # life'
    <3>1. life \in Nat /\ \A i \in issues : i.life \in Nat /\ i.life <= life
      BY ConversationAssumption DEF HandInv
    <3>. QED  BY <2>1, <3>1
  <2>. QED  BY <2>1, <2>2
<1>7. CASE UNCHANGED assistVars
  BY <1>7 DEF assistVars, UsedIn, Used
<1>. QED  BY <1>4, <1>5, <1>6, <1>7 DEF TalkNext, Listen, talkVars

LEMMA ApartStep == HandInv /\ MadeInv /\ ApartInv /\ [TalkNext]_talkVars => ApartInv'
<1>. SUFFICES ASSUME HandInv, MadeInv, ApartInv, [TalkNext]_talkVars PROVE ApartInv'
  OBVIOUS
<1>0. \A m \in Messages : SessionOf(m) \in SessionKeys
  BY ConversationAssumption
<1>1. ASSUME NEW m \in Messages, LooksAt(m) PROVE ApartInv'
  <2>. DEFINE s == SessionOf(m)
              p == pending[s]
  <2>1. at[m] = "spawned" /\ held[m] = Nothing /\ pending' = [pending EXCEPT ![s] = Nothing] /\ UNCHANGED <<issues, life>>
    BY <1>1 DEF LooksAt
  <2>2. s \in SessionKeys /\ pending'[s] = Nothing /\ \A t \in SessionKeys : t # s => pending'[t] = pending[t]
    BY <1>0, <2>1 DEF HandInv
  <2>3. CASE held' = held
    BY <2>1, <2>2, <2>3 DEF ApartInv
  <2>4. ASSUME NEW e \in Entries, held' = [held EXCEPT ![m] = e], Grown(e, m, p)
        PROVE  ApartInv'
    <3>1. held'[m] = e /\ \A n \in Messages : n # m => held'[n] = held[n]
      BY <2>4 DEF HandInv
    <3>2. p # Nothing => p \in Entries /\ Within(p, s)
      BY <2>2 DEF HandInv, MadeInv
    <3>3. ~Used(m)
      BY <2>1 DEF Used
    <3>4. \A f : UsedIn(f) => f.by # m /\ \A k \in DOMAIN f.answers : f.answers[k] # m
      BY <3>3 DEF UsedIn
    <3>5. \A f : UsedIn(f) /\ (p # Nothing => Apart(p, f)) => Apart(e, f) /\ Apart(f, e)
      BY <2>4, <3>2, <3>4, GrownApart
    <3>6. \A t \in SessionKeys : t # s /\ pending[t] # Nothing => Apart(pending[t], e)
      <4>1. \A t \in SessionKeys : t # s /\ pending[t] # Nothing =>
                UsedIn(pending[t]) /\ (p # Nothing => Apart(p, pending[t]))
        BY <3>2, SessionsApart DEF MadeInv
      <4>. QED  BY <3>5, <4>1
    <3>7. \A n \in Messages : n # m /\ held[n] # Nothing => Apart(held[n], e) /\ Apart(e, held[n])
      <4>1. \A n \in Messages : held[n] # Nothing => UsedIn(held[n]) /\ (p # Nothing => Apart(p, held[n]))
        BY <2>2 DEF MadeInv, ApartInv
      <4>. QED  BY <3>5, <4>1
    <3>8. \A i \in issues : i.life = life => Apart(e, i)
      <4>1. \A i \in issues : i.life = life => UsedIn(i) /\ (p # Nothing => Apart(p, i))
        BY <2>2 DEF MadeInv, ApartInv
      <4>. QED  BY <3>5, <4>1
    <3>. HIDE DEF p, s
    <3>9. \A t \in SessionKeys, n \in Messages :
              pending'[t] # Nothing /\ held'[n] # Nothing => Apart(pending'[t], held'[n])
      BY <2>2, <3>1, <3>6 DEF ApartInv
    <3>10. \A k, n \in Messages : k # n /\ held'[k] # Nothing /\ held'[n] # Nothing => Apart(held'[k], held'[n])
      BY <3>1, <3>7 DEF ApartInv
    <3>11. \A t \in SessionKeys, i \in issues : pending'[t] # Nothing /\ i.life = life => Apart(pending'[t], i)
      BY <2>2 DEF ApartInv
    <3>12. \A n \in Messages, i \in issues : held'[n] # Nothing /\ i.life = life => Apart(held'[n], i)
      BY <3>1, <3>8 DEF ApartInv
    <3>. QED  BY <2>1, <3>9, <3>10, <3>11, <3>12 DEF ApartInv
  <2>. QED  BY <1>1, <2>3, <2>4 DEF LooksAt
<1>2. ASSUME NEW m \in Messages, Ends(m) PROVE ApartInv'
  <2>1. at[m] \notin Idle /\ held' = [held EXCEPT ![m] = Nothing] /\ UNCHANGED life
    BY <1>2 DEF Ends
  <2>2. held[m] # Nothing /\ UsedIn(held[m]) /\ Within(held[m], SessionOf(m)) /\ SessionOf(m) \in SessionKeys
    BY <1>0, <2>1 DEF HandInv, MadeInv
  <2>3. held'[m] = Nothing /\ \A n \in Messages : n # m => held'[n] = held[n]
    BY <2>1 DEF HandInv
  <2>4. CASE UNCHANGED <<pending, issues>>
    BY <2>1, <2>3, <2>4 DEF ApartInv
  <2>5. CASE pending' = [pending EXCEPT ![SessionOf(m)] = held[m]] /\ UNCHANGED issues
    <3>1. \A t \in SessionKeys : pending'[t] = pending[t] \/ pending'[t] = held[m]
      BY <2>5 DEF HandInv
    <3>2. \A t \in SessionKeys, n \in Messages :
              pending'[t] # Nothing /\ held'[n] # Nothing => Apart(pending'[t], held'[n])
      BY <2>2, <2>3, <3>1 DEF ApartInv
    <3>3. \A t \in SessionKeys, i \in issues : pending'[t] # Nothing /\ i.life = life => Apart(pending'[t], i)
      BY <2>2, <3>1 DEF ApartInv
    <3>. QED  BY <2>1, <2>3, <2>5, <3>2, <3>3 DEF ApartInv
  <2>6. CASE UNCHANGED pending /\ issues' = issues \cup {[life |-> life, by |-> held[m].by, answers |-> held[m].answers]}
    <3>. DEFINE new == [life |-> life, by |-> held[m].by, answers |-> held[m].answers]
    <3>1. new.life = life /\ new.by = held[m].by /\ new.answers = held[m].answers
      OBVIOUS
    <3>. HIDE DEF new
    <3>2. issues' = issues \cup {new}
      BY <2>6 DEF new
    <3>3. \A f : Apart(f, held[m]) => Apart(f, new)
      BY <3>1 DEF Apart
    <3>4. \A f : Apart(held[m], f) => Apart(new, f) /\ Apart(f, new)
      BY <3>1 DEF Apart
    <3>5. \A t \in SessionKeys : pending[t] # Nothing => Apart(pending[t], new)
      BY <2>2, <3>3 DEF ApartInv
    <3>6. \A n \in Messages : n # m /\ held[n] # Nothing => Apart(held[n], new)
      BY <2>2, <3>3 DEF ApartInv
    <3>7. \A i \in issues : i.life = life => Apart(new, i) /\ Apart(i, new)
      BY <2>2, <3>4 DEF ApartInv
    <3>8. \A i, j \in issues' : i # j /\ i.life = j.life => Apart(i, j)
      BY <3>1, <3>2, <3>7 DEF ApartInv
    <3>9. \A t \in SessionKeys, i \in issues' : pending[t] # Nothing /\ i.life = life => Apart(pending[t], i)
      BY <3>2, <3>5 DEF ApartInv
    <3>10. \A n \in Messages, i \in issues' : held'[n] # Nothing /\ i.life = life => Apart(held'[n], i)
      BY <2>3, <3>2, <3>6 DEF ApartInv
    <3>. QED  BY <2>1, <2>3, <2>6, <3>8, <3>9, <3>10 DEF ApartInv
  <2>. QED  BY <1>2, <2>4, <2>5, <2>6 DEF Ends
<1>3. ASSUME NEW m \in Messages, Handle(m) PROVE ApartInv'
  <2>1. CASE GoesOn(m)
    BY <2>1 DEF GoesOn, ApartInv
  <2>. QED  BY <1>1, <1>2, <1>3, <2>1, HandleStep
<1>4. CASE Deliver
  BY <1>4 DEF Deliver, SpawnHandler, ApartInv
<1>5. CASE Crash
  <2>1. /\ pending' = [s \in SessionKeys |-> Nothing] /\ held' = [m \in Messages |-> Nothing]
        /\ issues' = issues
    BY <1>5 DEF Crash, Forget
  <2>. QED  BY <2>1 DEF ApartInv
<1>6. CASE UNCHANGED assistVars
  BY <1>6 DEF assistVars, ApartInv
<1>. QED  BY <1>3, <1>4, <1>5, <1>6 DEF TalkNext, Listen, talkVars
-----------------------------------------------------------------------------
LEMMA InitTalkInv == TalkInit => TalkInv
<1>. SUFFICES ASSUME TalkInit PROVE TalkInv
  OBVIOUS
<1>. USE DEF TalkInit, PollInit, AssistInit
<1>1. script \in Scripts /\ DOMAIN script = 1 .. Len(script) /\ DOMAIN script \subseteq Messages /\ Len(script) \in Nat
  BY MessagesThere
<1>2. PollInv
  <2>1. batch \in Seq(Nat) /\ DOMAIN batch = {}
    OBVIOUS
  <2>2. inbox \in Seq(Messages) /\ DOMAIN inbox = {} /\ Len(inbox) <= Capacity
    BY PollingAssumption
  <2>3. sent \in 0 .. Len(script) /\ NextUpdate = 1
    BY <1>1 DEF NextUpdate
  <2>4. /\ base \in Nat /\ confirmed \in Nat /\ offset \in Nat
        /\ base <= confirmed /\ confirmed < NextUpdate /\ NextUpdate <= sent + 1 /\ offset = 0
    BY <2>3
  <2>5. apiSent \in BOOLEAN
    OBVIOUS
  <2>6. \A i \in DOMAIN batch : batch[i] = NextUpdate + i - 1 /\ batch[i] <= sent
    BY <2>1
  <2>7. \A i \in DOMAIN inbox : inbox[i] \in 1 .. sent \cup {Api}
    BY <2>2
  <2>. HIDE DEF TalkInit, PollInit, AssistInit
  <2>. QED  BY <1>1, <2>1, <2>2, <2>3, <2>4, <2>5, <2>6, <2>7 DEF PollInv
<1>3. SeenInv
  <2>. SUFFICES ASSUME NEW u \in DOMAIN script PROVE Seen(u) = 0
    <3>1. \A u \in DOMAIN script : ~(u < offset)
      BY <1>1
    <3>. QED  BY <3>1 DEF SeenInv
  <2>1. {i \in DOMAIN inbox : inbox[i] = u} = {}
    OBVIOUS
  <2>. QED  BY <1>1, <2>1, FS_EmptySet DEF Seen, Pending
<1>4. HandInv
  BY ConversationAssumption DEF HandInv, Stations, Idle
<1>5. MadeInv /\ ApartInv
  BY DEF MadeInv, ApartInv
<1>. QED  BY <1>2, <1>3, <1>4, <1>5 DEF TalkInv

LEMMA TalkInvariance == TalkSpec => []TalkInv
<1>1. TalkInv /\ [TalkNext]_talkVars => TalkInv'
  BY PollStep, SeenStep, HandStep, MadeStep, ApartStep DEF TalkInv
<1>. QED  BY InitTalkInv, <1>1, PTL DEF TalkSpec

(* Updates, queue, entries and issues keep their kinds: the poll loop is   *)
(* never past what was sent, and an assistant asks with the answers its    *)
(* question supposes.                                                      *)
THEOREM TalkTypeCorrect == TalkSpec => []TalkTypeOK
<1>1. TalkInv => TalkTypeOK
  <2>. SUFFICES ASSUME TalkInv PROVE TalkTypeOK
    OBVIOUS
  <2>1. PollTypeOK
    <3>1. PollInv /\ Len(script) \in Nat
      BY MessagesThere DEF TalkInv, PollInv
    <3>. QED  BY <3>1 DEF PollInv, PollTypeOK, NextUpdate
  <2>2. \A s \in SessionKeys : pending[s] # Nothing => pending[s].step \in Steps /\ Len(pending[s].answers) <= 2
    <3>. SUFFICES ASSUME NEW s \in SessionKeys, pending[s] # Nothing
                  PROVE  pending[s].step \in Steps /\ Len(pending[s].answers) <= 2
      OBVIOUS
    <3>1. pending[s].step \in Steps /\ Len(pending[s].answers) = Given[pending[s].step]
      BY DEF TalkInv, HandInv, Asks
    <3>2. \A w \in Steps : Given[w] \in {0, 1, 2}
      BY DEF Given, Steps
    <3>. QED  BY <3>1, <3>2
  <2>. QED  BY <2>1, <2>2 DEF TalkInv, HandInv, TalkTypeOK, Idle
<1>. QED  BY <1>1, TalkInvariance, PTL

(* Every update the poll loop has moved past since the process started is  *)
(* in the queue or with a handler, once: however polls are lost, the queue *)
(* fills up and the process dies, none is dropped by a process that lives  *)
(* and none reaches two handlers.                                          *)
THEOREM EachUpdateOnce == TalkSpec => []AccountedOnce
<1>1. TalkInv => AccountedOnce
  <2>. SUFFICES ASSUME TalkInv, NEW u \in 1 .. sent
                PROVE  Seen(u) = IF u > base /\ u < offset /\ Passes(u) THEN 1 ELSE 0
    BY DEF AccountedOnce, Seen
  <2>1. u \in DOMAIN script
    <3>1. Len(script) \in Nat /\ DOMAIN script = 1 .. Len(script) /\ sent \in 0 .. Len(script)
      BY MessagesThere DEF TalkInv, PollInv
    <3>. QED  BY <3>1
  <2>. QED  BY <2>1 DEF TalkInv, SeenInv
<1>. QED  BY <1>1, TalkInvariance, PTL

(* However the handlers of a session interleave, a command makes one issue *)
(* at most in the life of a process, of messages of its own session, and   *)
(* no message is an answer of two of them.                                 *)
THEOREM OneIssueEach == TalkSpec => []OneIssue
<1>1. TalkInv => OneIssue
  <2>. SUFFICES ASSUME HandInv, MadeInv, ApartInv PROVE OneIssue
    BY DEF TalkInv
  <2>1. ASSUME NEW c \in Messages PROVE Cardinality(Places(c)) <= 1
    <3>1. \A s, t \in SessionKeys :
              pending[s] # Nothing /\ pending[s].by = c /\ pending[t] # Nothing /\ pending[t].by = c => s = t
      BY DEF MadeInv, Within
    <3>2. \A m, n \in Messages :
              held[m] # Nothing /\ held[m].by = c /\ held[n] # Nothing /\ held[n].by = c => m = n
      BY DEF ApartInv, Apart
    <3>3. \A i, j \in issues : i.life = life /\ i.by = c /\ j.life = life /\ j.by = c => i = j
      BY DEF ApartInv, Apart
    <3>4. \A s \in SessionKeys, m \in Messages :
              ~(pending[s] # Nothing /\ pending[s].by = c /\ held[m] # Nothing /\ held[m].by = c)
      BY DEF ApartInv, Apart
    <3>5. \A s \in SessionKeys, i \in issues :
              ~(pending[s] # Nothing /\ pending[s].by = c /\ i.life = life /\ i.by = c)
      BY DEF ApartInv, Apart
    <3>6. \A m \in Messages, i \in issues :
              ~(held[m] # Nothing /\ held[m].by = c /\ i.life = life /\ i.by = c)
      BY DEF ApartInv, Apart
    <3>7. \A x, y \in Places(c) : x = y
      BY <3>1, <3>2, <3>3, <3>4, <3>5, <3>6 DEF Places
    <3>8. CASE Places(c) = {}
      BY <3>8, FS_EmptySet
    <3>9. CASE Places(c) # {}
      <4>1. PICK x : Places(c) = {x}
        BY <3>7, <3>9
      <4>2. Cardinality({x}) = 1
        BY FS_Singleton
      <4>. QED  BY <4>1, <4>2
    <3>. QED  BY <3>8, <3>9
  <2>2. ASSUME NEW i \in issues
        PROVE  IsInjective(i.answers) /\ \A n \in DOMAIN i.answers : SessionOf(i.answers[n]) = SessionOf(i.by)
    BY DEF MadeInv, Within
  <2>3. ASSUME NEW i \in issues, NEW j \in issues, i.life = j.life, i # j,
               NEW n \in DOMAIN i.answers, NEW k \in DOMAIN j.answers
        PROVE  i.answers[n] # j.answers[k]
    BY <2>3 DEF ApartInv, Apart
  <2>. QED  BY <2>1, <2>2, <2>3 DEF OneIssue
<1>. QED  BY <1>1, TalkInvariance, PTL
-----------------------------------------------------------------------------
(* A body's outcome is known from its end on, and only then. *)
ResultOfStage ==
    \A j \in Jobs :
        /\ pc[j] \in {"ended", "settled", "counted"} =>
               result[j] \in {"ok", "error", "timeout"}
        /\ pc[j] = "finished" => result[j] # "none"

(* The inductive invariant.  TypeOK alone is not inductive: that a counter *)
(* stays in Nat when it is decremented follows from what it counts.        *)
IInv ==
    /\ TypeOK
    /\ permits + Cardinality(At(Holding)) = Permits
    /\ CountersExact
    /\ ResultOfStage

In(x, S) == IF x \in S THEN 1 ELSE 0
Entering(from, to, r, R) ==
    IF from \notin CountedStages /\ to \in CountedStages /\ r \in R THEN 1 ELSE 0

USE QueueAssumption

(* Sets of futures are finite, so counting them makes sense. *)
LEMMA FiniteParts ==
    ASSUME NEW S, S \subseteq Jobs
    PROVE  IsFiniteSet(S) /\ Cardinality(S) \in Nat
BY FS_Subset, FS_CardinalityType

LEMMA CountOneMore ==
    ASSUME NEW S, S \subseteq Jobs, NEW j \in Jobs, j \notin S
    PROVE  Cardinality(S \cup {j}) = Cardinality(S) + 1
BY FiniteParts, FS_AddElement

LEMMA CountOneLess ==
    ASSUME NEW S, S \subseteq Jobs, NEW j \in S
    PROVE  Cardinality(S \ {j}) = Cardinality(S) - 1 /\ Cardinality(S) > 0
<1>1. Cardinality(S \ {j}) = Cardinality(S) - 1
  BY FiniteParts, FS_RemoveElement
<1>2. Cardinality(S \ {j}) \in Nat /\ Cardinality(S) \in Nat
  BY FiniteParts
<1>. QED  BY <1>1, <1>2

(* What moving one future does to the set of futures in some stages. *)
LEMMA AtAfterMove ==
    ASSUME pc \in [Jobs -> PCs], NEW j \in Jobs, NEW from, NEW to, NEW S,
           Move(j, from, to)
    PROVE  /\ At(S) \subseteq Jobs
           /\ from \in S /\ to \in S => At(S)' = At(S)
           /\ from \notin S /\ to \notin S => At(S)' = At(S)
           /\ from \notin S /\ to \in S => At(S)' = At(S) \cup {j} /\ j \notin At(S)
           /\ from \in S /\ to \notin S => At(S)' = At(S) \ {j} /\ j \in At(S)
BY DEF At, Move

(* The same for their number. *)
LEMMA CountAfterMove ==
    ASSUME pc \in [Jobs -> PCs], NEW j \in Jobs, NEW from, NEW to, NEW S,
           Move(j, from, to)
    PROVE  /\ Cardinality(At(S)) \in Nat /\ Cardinality(At(S)') \in Nat
           /\ Cardinality(At(S)') = Cardinality(At(S)) + In(to, S) - In(from, S)
<1>1. At(S) \subseteq Jobs
  BY DEF At
<1>2. Cardinality(At(S)) \in Nat
  BY <1>1, FiniteParts
<1>3. CASE from \in S <=> to \in S
  <2>1. At(S)' = At(S)
    BY <1>3, AtAfterMove
  <2>. QED  BY <1>2, <1>3, <2>1 DEF In, Entering
<1>4. CASE from \notin S /\ to \in S
  <2>1. At(S)' = At(S) \cup {j} /\ j \notin At(S)
    BY <1>4, AtAfterMove
  <2>2. Cardinality(At(S)') = Cardinality(At(S)) + 1
    BY <1>1, <2>1, CountOneMore
  <2>. QED  BY <1>2, <1>4, <2>2 DEF In, Entering
<1>5. CASE from \in S /\ to \notin S
  <2>1. At(S)' = At(S) \ {j} /\ j \in At(S)
    BY <1>5, AtAfterMove
  <2>2. Cardinality(At(S)') = Cardinality(At(S)) - 1 /\ Cardinality(At(S)) > 0
    BY <1>1, <2>1, CountOneLess
  <2>. QED  BY <1>2, <1>5, <2>2 DEF In, Entering
<1>. QED  BY <1>3, <1>4, <1>5

(* Only a future that enters the counted stages changes what is counted. *)
LEMMA CountEndedAfterMove ==
    ASSUME pc \in [Jobs -> PCs], NEW j \in Jobs, NEW from, NEW to, NEW R,
           Move(j, from, to),
           from \in CountedStages => to \in CountedStages,
           \A k \in Jobs : pc[k] \in CountedStages => result'[k] = result[k]
    PROVE  /\ Cardinality(EndedWith(R)) \in Nat /\ Cardinality(EndedWith(R)') \in Nat
           /\ Cardinality(EndedWith(R)') = Cardinality(EndedWith(R))
                  + Entering(from, to, result'[j], R)
<1>. DEFINE Enters == from \notin CountedStages /\ to \in CountedStages /\ result'[j] \in R
<1>1. EndedWith(R) \subseteq Jobs
  BY DEF EndedWith, At
<1>2. Cardinality(EndedWith(R)) \in Nat
  BY <1>1, FiniteParts
<1>3. CASE Enters
  <2>1. EndedWith(R)' = EndedWith(R) \cup {j} /\ j \notin EndedWith(R)
    BY <1>3 DEF EndedWith, At, Move
  <2>2. Cardinality(EndedWith(R)') = Cardinality(EndedWith(R)) + 1
    BY <1>1, <2>1, CountOneMore
  <2>. QED  BY <1>2, <1>3, <2>2 DEF In, Entering
<1>4. CASE ~Enters
  <2>1. EndedWith(R)' = EndedWith(R)
    BY <1>4 DEF EndedWith, At, Move
  <2>. QED  BY <1>2, <1>4, <2>1 DEF In, Entering
<1>. QED  BY <1>3, <1>4

(* `running` stands for two numbers: the bodies not yet settled, and those *)
(* that panicked.                                                          *)
LEMMA RunningAfterMove ==
    ASSUME pc \in [Jobs -> PCs], NEW j \in Jobs, NEW from, NEW to,
           Move(j, from, to),
           from \in CountedStages => to \in CountedStages,
           \A k \in Jobs : pc[k] \in CountedStages => result'[k] = result[k],
           running = Cardinality(At(RunningStages)) + Cardinality(EndedWith(Panics)),
           running' = running + In(to, RunningStages) - In(from, RunningStages)
                      + Entering(from, to, result'[j], Panics)
    PROVE  /\ running' = Cardinality(At(RunningStages)') + Cardinality(EndedWith(Panics)')
           /\ running' \in Nat
<1>. DEFINE unsettled == Cardinality(At(RunningStages))
            panicked == Cardinality(EndedWith(Panics))
            x == In(to, RunningStages)
            y == In(from, RunningStages)
            z == Entering(from, to, result'[j], Panics)
<1>1. unsettled \in Nat /\ unsettled' \in Nat /\ unsettled' = unsettled + x - y
  BY CountAfterMove
<1>2. panicked \in Nat /\ panicked' \in Nat /\ panicked' = panicked + z
  BY CountEndedAfterMove
<1>3. x \in Nat /\ y \in Nat /\ z \in Nat
  BY DEF In, Entering
<1>4. running = unsettled + panicked /\ running' = running + x - y + z
  OBVIOUS
<1>5. SUFFICES running' = unsettled' + panicked' /\ running' \in Nat
  OBVIOUS
<1>. HIDE DEF unsettled, panicked, x, y, z
<1>6. running' = unsettled' + panicked'
  BY <1>1, <1>2, <1>3, <1>4
<1>7. running' \in Nat
  BY <1>1, <1>2, <1>6
<1>. QED  BY <1>6, <1>7
-----------------------------------------------------------------------------
LEMMA PermitsPositive == Permits \in Nat /\ Permits > 0
BY DEF Permits

LEMMA InitIInv == Init => IInv
<1>. SUFFICES ASSUME Init PROVE IInv
  OBVIOUS
<1>1. TypeOK
  <2>1. waiters \in Seq(Jobs)
    BY DEF Init
  <2>2. pc \in [Jobs -> PCs] /\ owed \subseteq Jobs
    BY DEF Init, PCs
  <2>. QED  BY <2>1, <2>2, PermitsPositive
          DEF Init, TypeOK, Results, Successes, Failures, Panics
<1>2. At(Holding) = {} /\ At(QueuedStages) = {} /\ At(RunningStages) = {}
  BY DEF Init, At, Holding, QueuedStages, RunningStages
<1>3. /\ EndedWith(Panics) = {}
      /\ EndedWith(Successes) = {}
      /\ EndedWith(Failures) = {}
  BY DEF Init, At, EndedWith, CountedStages
<1>4. Cardinality({}) = 0
  BY FS_EmptySet
<1>5. permits + Cardinality(At(Holding)) = Permits
  BY <1>2, <1>4, PermitsPositive DEF Init
<1>6. CountersExact
  <2>1. /\ Cardinality(At(QueuedStages)) = 0
        /\ Cardinality(At(RunningStages)) = 0
        /\ Cardinality(EndedWith(Panics)) = 0
        /\ Cardinality(EndedWith(Successes)) = 0
        /\ Cardinality(EndedWith(Failures)) = 0
    BY <1>2, <1>3, <1>4, Zenon
  <2>. QED  BY <2>1 DEF Init, CountersExact
<1>7. ResultOfStage
  BY DEF Init, ResultOfStage
<1>. QED  BY <1>1, <1>5, <1>6, <1>7 DEF IInv

(* The books kept for one future that moves from a stage to another: what  *)
(* each counter must gain and lose for the invariant to survive the step.  *)
LEMMA Ledger ==
    ASSUME IInv, NEW j \in Jobs, NEW from \in PCs, NEW to \in PCs, Move(j, from, to),
           result' \in [Jobs -> Results],
           \A k \in Jobs : k # j \/ from \in CountedStages => result'[k] = result[k],
           from \in CountedStages => to \in CountedStages,
           to \in {"ended", "settled", "counted"} =>
               result'[j] \in {"ok", "error", "timeout"},
           to = "finished" => result'[j] # "none",
           permits' = permits + In(from, Holding) - In(to, Holding),
           permits' \in Nat,
           queued' = queued + In(to, QueuedStages) - In(from, QueuedStages),
           running' = running + In(to, RunningStages) - In(from, RunningStages)
                      + Entering(from, to, result'[j], Panics),
           completed' = completed + Entering(from, to, result'[j], Successes),
           failed' = failed + Entering(from, to, result'[j], Failures),
           waiters' \in Seq(Jobs), UNCHANGED drainVars
    PROVE  IInv'
<1>. pc \in [Jobs -> PCs]
  BY DEF IInv, TypeOK
<1>1. \A k \in Jobs : pc[k] \in CountedStages => result'[k] = result[k]
  BY DEF Move
<1>2. (\A x, S : In(x, S) \in Nat) /\ (\A r, R : Entering(from, to, r, R) \in Nat)
  BY DEF In, Entering
<1>3. \A S : /\ Cardinality(At(S)) \in Nat /\ Cardinality(At(S)') \in Nat
             /\ Cardinality(At(S)') = Cardinality(At(S)) + In(to, S) - In(from, S)
  BY CountAfterMove
<1>4. \A R : /\ Cardinality(EndedWith(R)) \in Nat /\ Cardinality(EndedWith(R)') \in Nat
             /\ Cardinality(EndedWith(R)') = Cardinality(EndedWith(R))
                    + Entering(from, to, result'[j], R)
  BY <1>1, CountEndedAfterMove
<1>5. permits' + Cardinality(At(Holding)') = Permits
  <2>1. permits + Cardinality(At(Holding)) = Permits /\ permits \in Nat
    BY DEF IInv, TypeOK
  <2>2. /\ Cardinality(At(Holding)) \in Nat
        /\ Cardinality(At(Holding)') = Cardinality(At(Holding)) + In(to, Holding)
                                       - In(from, Holding)
        /\ In(to, Holding) \in Nat /\ In(from, Holding) \in Nat
    BY <1>2, <1>3
  <2>. QED  BY <2>1, <2>2, PermitsPositive
<1>6. /\ queued' = Cardinality(At(QueuedStages)')
      /\ running' = Cardinality(At(RunningStages)') + Cardinality(EndedWith(Panics)')
      /\ completed' = Cardinality(EndedWith(Successes)')
      /\ failed' = Cardinality(EndedWith(Failures)')
      /\ queued' \in Nat /\ running' \in Nat /\ completed' \in Nat /\ failed' \in Nat
  <2>1. /\ queued = Cardinality(At(QueuedStages))
        /\ running = Cardinality(At(RunningStages)) + Cardinality(EndedWith(Panics))
        /\ completed = Cardinality(EndedWith(Successes))
        /\ failed = Cardinality(EndedWith(Failures))
    BY DEF IInv, CountersExact
  <2>2. queued' = Cardinality(At(QueuedStages)') /\ queued' \in Nat
    BY <1>2, <1>3, <2>1
  <2>3. /\ running' = Cardinality(At(RunningStages)') + Cardinality(EndedWith(Panics)')
        /\ running' \in Nat
    BY <1>1, <2>1, RunningAfterMove
  <2>4. completed' = Cardinality(EndedWith(Successes)') /\ completed' \in Nat
    BY <1>4, <2>1
  <2>5. failed' = Cardinality(EndedWith(Failures)') /\ failed' \in Nat
    BY <1>4, <2>1
  <2>. QED  BY <2>2, <2>3, <2>4, <2>5
<1>7. ResultOfStage'
  BY DEF IInv, ResultOfStage, Move, CountedStages
<1>8. TypeOK'
  BY <1>6 DEF IInv, TypeOK, Move, drainVars
<1>. QED  BY <1>5, <1>6, <1>7, <1>8 DEF IInv, CountersExact
-----------------------------------------------------------------------------
LEMMA NextIInv == IInv /\ [Next]_vars => IInv'
<1>. SUFFICES ASSUME IInv, [Next]_vars PROVE IInv'
  OBVIOUS
<1>. USE DEF In, Entering, Holding, QueuedStages, RunningStages, CountedStages, PCs, Results,
      Successes, Failures, Panics
<1>. /\ permits \in Nat /\ running \in Nat /\ queued \in Nat
     /\ completed \in Nat /\ failed \in Nat /\ waiters \in Seq(Jobs)
     /\ result \in [Jobs -> Results]
  BY DEF IInv, TypeOK
<1>1. ASSUME NEW j \in Jobs, Spawn(j) PROVE IInv'
  BY <1>1, Ledger DEF Spawn, drainVars
<1>2. ASSUME NEW j \in Jobs, Enqueue(j) PROVE IInv'
  <2>1. waiters' \in Seq(Jobs)
    BY <1>2 DEF Enqueue
  <2>. QED  BY <1>2, <2>1, Ledger DEF Enqueue, counters, drainVars
<1>3. ASSUME NEW j \in Jobs, Grant(j) PROVE IInv'
  <2>1. waiters' \in Seq(Jobs)
    BY <1>3 DEF Grant
  <2>. QED  BY <1>3, <2>1, Ledger DEF Grant, counters, drainVars
<1>4. ASSUME NEW j \in Jobs, Dequeue(j) PROVE IInv'
  BY <1>4, Ledger DEF Dequeue, drainVars
<1>5. ASSUME NEW j \in Jobs, Start(j) PROVE IInv'
  BY <1>5, Ledger DEF Start, drainVars
<1>6. ASSUME NEW j \in Jobs, Return(j) PROVE IInv'
  BY <1>6, Ledger DEF Return, counters, drainVars
<1>7. ASSUME NEW j \in Jobs, Timeout(j) PROVE IInv'
  BY <1>7, Ledger DEF Timeout, counters, drainVars
<1>8. ASSUME NEW j \in Jobs, Panic(j) PROVE IInv'
  BY <1>8, Ledger DEF Panic, counters, drainVars
<1>9. ASSUME NEW j \in Jobs, Settle(j) PROVE IInv'
  <2>1. result[j] \in {"ok", "error", "timeout"}
    BY <1>9 DEF Settle, Move, IInv, ResultOfStage
  <2>. QED  BY <1>9, <2>1, Ledger DEF Settle, drainVars
<1>10. ASSUME NEW j \in Jobs, Count(j) PROVE IInv'
  <2>1. result[j] \in {"ok", "error", "timeout"}
    BY <1>10 DEF Count, Move, IInv, ResultOfStage
  <2>. QED  BY <1>10, <2>1, Ledger DEF Count, drainVars
<1>11. ASSUME NEW j \in Jobs, Release(j) PROVE IInv'
  <2>1. result[j] \in {"ok", "error", "timeout"}
    BY <1>11 DEF Release, Move, IInv, ResultOfStage
  <2>. QED  BY <1>11, <2>1, Ledger DEF Release, counters, drainVars
<1>12. CASE UNCHANGED <<pc, result, waiters, permits, counters>> /\ TypeOK'
  BY <1>12 DEF IInv, CountersExact, ResultOfStage, counters, At, EndedWith
<1>13. CASE StartDrain
  <2>. TypeOK'
    BY <1>13 DEF StartDrain, IInv, TypeOK, counters, At
  <2>. QED  BY <1>12, <1>13 DEF StartDrain
<1>14. CASE LoadRunning
  BY <1>12, <1>14 DEF LoadRunning, IInv, TypeOK, counters
<1>15. CASE LoadQueued
  BY <1>12, <1>15 DEF LoadQueued, IInv, TypeOK, counters
<1>16. CASE DrainExpires
  BY <1>12, <1>16 DEF DrainExpires, IInv, TypeOK, counters
<1>17. CASE UNCHANGED vars
  BY <1>12, <1>17 DEF vars, drainVars, IInv, TypeOK, counters
<1>. QED
  BY <1>1, <1>2, <1>3, <1>4, <1>5, <1>6, <1>7, <1>8, <1>9, <1>10, <1>11,
     <1>13, <1>14, <1>15, <1>16, <1>17 DEF Next, Step

LEMMA Invariance == Spec => []IInv
BY InitIInv, NextIInv, PTL DEF Spec

(* Every variable keeps its type; no counter of the queue ever wraps. *)
THEOREM TypeCorrect == Spec => []TypeOK
BY Invariance, PTL DEF IInv

(* The invariant covers every future that has a permit, so in particular   *)
(* those whose body is under way.                                          *)
LEMMA BoundFromIInv == IInv => ConcurrencyBound
<1>. SUFFICES ASSUME IInv PROVE ConcurrencyBound
  OBVIOUS
<1>1. At({"running"}) \subseteq At(Holding) /\ At(Holding) \subseteq Jobs
  BY DEF At, Holding
<1>2. /\ Cardinality(At({"running"})) <= Cardinality(At(Holding))
      /\ Cardinality(At({"running"})) \in Nat /\ Cardinality(At(Holding)) \in Nat
  BY <1>1, FiniteParts, FS_Subset
<1>. QED  BY <1>2 DEF IInv, TypeOK, ConcurrencyBound

(* `queue.concurrency` bounds the bodies under way, and permits are        *)
(* neither lost nor made, whatever returns, times out or panics.           *)
THEOREM Concurrent == Spec => []ConcurrencyBound
BY Invariance, BoundFromIInv, PTL

(* /status and /queue show what is there, at every step of every future.   *)
THEOREM CountersCorrect == Spec => []CountersExact
BY Invariance, PTL DEF IInv

(* When drain() reports an idle queue nothing waits for a permit any more, *)
(* and no more tasks than permits are cut off.                             *)
THEOREM IdleCorrect == Spec => IdleLeavesOnlyHolders
<1>1. IInv /\ [Next]_vars =>
          [drain' = "idle" /\ drain # "idle" =>
              /\ At(QueuedStages) = {}
              /\ Cardinality(At(PCs \ {"new", "finished"})) <= Permits]_vars
  <2>. SUFFICES ASSUME IInv, Next, drain' = "idle", drain # "idle"
                PROVE  /\ At(QueuedStages) = {}
                       /\ Cardinality(At(PCs \ {"new", "finished"})) <= Permits
    OBVIOUS
  <2>1. LoadQueued
    BY DEF Next, Step, Spawn, Enqueue, Grant, Dequeue, Start, Return, Timeout, Panic,
           Settle,
           Count, Release, StartDrain, LoadRunning, LoadQueued, DrainExpires, drainVars
  <2>2. Cardinality(At(QueuedStages)) = 0
    BY <2>1 DEF LoadQueued, IInv, CountersExact
  <2>3. At(QueuedStages) = {}
    <3>1. At(QueuedStages) \subseteq Jobs
      BY DEF At
    <3>. QED  BY <2>2, <3>1, FiniteParts, FS_EmptySet
  <2>4. At(PCs \ {"new", "finished"}) = At(Holding) /\ At(Holding) \subseteq Jobs
    BY <2>3 DEF At, PCs, Holding, QueuedStages
  <2>5. Cardinality(At(Holding)) <= Permits
    BY <2>4, FiniteParts DEF IInv, TypeOK
  <2>. QED  BY <2>3, <2>4, <2>5
<1>. QED  BY <1>1, Invariance, PTL DEF Spec, IdleLeavesOnlyHolders
===============================================================================
