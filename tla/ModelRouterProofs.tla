-------------------------- MODULE ModelRouterProofs --------------------------
(***************************************************************************)
(* Theorems about the model router, module ModelRouter, for any models,    *)
(* roles, chains, calls, cooldown and environment.                         *)
(***************************************************************************)
EXTENDS ModelRouter, TLAPS

(* ------------------------------ Cooldown ------------------------------- *)

ClockInv ==
    /\ cooling \in [Keys -> Int]
    /\ age \in [Keys -> 0 .. Cooldown]
    /\ CooldownExact

(* A failure starts the cooldown of one model and no other. *)
LEMMA OfflineKeeps ==
    ASSUME NEW k, ClockInv, MarkOffline(k)
    PROVE  ClockInv'
<1>1. Cooldown \in Nat
  BY RouterAssumption
<1>2. cooling \in [Keys -> Int] /\ cooling' = [cooling EXCEPT ![k] = Cooldown]
  BY DEF ClockInv, MarkOffline
<1>3. age \in [Keys -> 0 .. Cooldown] /\ age' = [age EXCEPT ![k] = 0]
  BY DEF ClockInv, MarkOffline
<1>4. cooling' = [x \in Keys |-> IF x = k THEN Cooldown ELSE cooling[x]]
  BY <1>2, Zenon
<1>5. age' = [x \in Keys |-> IF x = k THEN 0 ELSE age[x]]
  BY <1>3, Zenon
<1>6. \A x \in Keys : cooling[x] \in Int /\ age[x] \in 0 .. Cooldown
  BY <1>2, <1>3
<1>7. \A x \in Keys : (IF x = k THEN Cooldown ELSE cooling[x]) \in Int
  BY <1>1, <1>6
<1>8. \A x \in Keys : (IF x = k THEN 0 ELSE age[x]) \in 0 .. Cooldown
  BY <1>1, <1>6
<1>9. cooling' \in [Keys -> Int]
  BY <1>4, <1>7, Zenon
<1>10. age' \in [Keys -> 0 .. Cooldown]
  BY <1>5, <1>8, Zenon
<1>11. CooldownExact'
  BY <1>1 DEF ClockInv, MarkOffline, CooldownExact
<1>12. QED
  BY <1>9, <1>10, <1>11 DEF ClockInv

LEMMA OnlineKeeps ==
    ASSUME NEW k, ClockInv, MarkOnline(k)
    PROVE  ClockInv'
<1>1. cooling \in [Keys -> Int] /\ cooling' = [cooling EXCEPT ![k] = 0]
  BY DEF ClockInv, MarkOnline
<1>2. cooling' = [x \in Keys |-> IF x = k THEN 0 ELSE cooling[x]]
  BY <1>1, Zenon
<1>3. \A x \in Keys : (IF x = k THEN 0 ELSE cooling[x]) \in Int
  BY <1>1
<1>4. cooling' \in [Keys -> Int]
  BY <1>2, <1>3, Zenon
<1>5. age' \in [Keys -> 0 .. Cooldown]
  BY DEF ClockInv, MarkOnline
<1>6. CooldownExact'
  BY DEF ClockInv, MarkOnline, CooldownExact
<1>7. QED
  BY <1>4, <1>5, <1>6 DEF ClockInv

(* What is left of a cooldown and the time since the failure add up. *)
LEMMA TickKeeps ==
    ASSUME ClockInv, Tick
    PROVE  ClockInv'
<1>1. Cooldown \in Nat
  BY RouterAssumption
<1>2. ASSUME NEW k \in Keys
      PROVE  /\ cooling[k] \in Int /\ age[k] \in 0 .. Cooldown
             /\ cooling[k] = IF k \in cleared THEN 0 ELSE Cooldown - age[k]
             /\ cooling'[k] = IF cooling[k] = 0 THEN 0 ELSE cooling[k] - 1
             /\ age'[k] = IF age[k] = Cooldown THEN Cooldown ELSE age[k] + 1
  BY <1>2 DEF ClockInv, CooldownExact, Tick
<1>3. /\ cooling' = [k \in Keys |-> IF cooling[k] = 0 THEN 0 ELSE cooling[k] - 1]
      /\ age' = [k \in Keys |-> IF age[k] = Cooldown THEN Cooldown ELSE age[k] + 1]
  BY DEF Tick
<1>4. cooling' \in [Keys -> Int]
  BY <1>2, <1>3
<1>5. age' \in [Keys -> 0 .. Cooldown]
  BY <1>1, <1>2, <1>3
<1>6. CooldownExact'
  <2>1. cleared' = cleared
    BY DEF Tick
  <2>2. ASSUME NEW k \in Keys
        PROVE  cooling'[k] = IF k \in cleared' THEN 0 ELSE Cooldown - age'[k]
    BY <1>1, <1>2, <2>1
  <2>3. QED
    BY <2>2 DEF CooldownExact
<1>7. QED
  BY <1>4, <1>5, <1>6 DEF ClockInv

LEMMA ClockStays ==
    ASSUME ClockInv, UNCHANGED slotVars
    PROVE  ClockInv'
BY DEF ClockInv, CooldownExact, slotVars

LEMMA ClockStep == ClockInv /\ [Next]_vars => ClockInv'
<1> SUFFICES ASSUME ClockInv, [Next]_vars
             PROVE  ClockInv'
  OBVIOUS
<1>1. ASSUME NEW c \in Calls, NEW r \in Requests, Begin(c, r) PROVE ClockInv'
  BY <1>1, ClockStays DEF Begin
<1>2. ASSUME NEW c \in Calls, NEW k \in Keys, Ask(c, k) PROVE ClockInv'
  BY <1>2, ClockStays DEF Ask
<1>3. ASSUME NEW c \in Calls, Reply(c) \/ TimeLimit(c) \/ Return(c) PROVE ClockInv'
  BY <1>3, ClockStays DEF Reply, TimeLimit, Return
<1>4. ASSUME NEW c \in Calls, FallBack(c) PROVE ClockInv'
  BY <1>4, OfflineKeeps DEF FallBack
<1>5. ASSUME NEW k \in Keys, Probe(k) PROVE ClockInv'
  BY <1>5, ClockStays DEF Probe
<1>6. CASE ProbeAnswer
  BY <1>6, ClockStays DEF ProbeAnswer
<1>7. CASE ProbeMark
  BY <1>7, OfflineKeeps, OnlineKeeps DEF ProbeMark
<1>8. CASE Tick
  BY <1>8, TickKeeps
<1>9. CASE UNCHANGED vars
  BY <1>9, ClockStays DEF vars
<1>10. QED
  BY <1>1, <1>2, <1>3, <1>4, <1>5, <1>6, <1>7, <1>8, <1>9 DEF Next

(* However calls and the health check overtake each other, a model is away *)
(* exactly for the cooldown since its last failure, unless the health      *)
(* check brought it back (mark_offline(), mark_online()).                  *)
THEOREM CooldownKept == Spec => []CooldownExact
<1>1. Init => ClockInv
  <2> SUFFICES ASSUME Init PROVE ClockInv
    OBVIOUS
  <2>1. Cooldown \in Nat
    BY RouterAssumption
  <2>2. cooling = [k \in Keys |-> 0] /\ age = [k \in Keys |-> Cooldown] /\ cleared = {}
    BY DEF Init
  <2>3. QED
    BY <2>1, <2>2 DEF ClockInv, CooldownExact
<1>2. ClockInv => CooldownExact
  BY DEF ClockInv
<1>3. QED
  BY <1>1, <1>2, ClockStep, PTL DEF Spec

(* ------------------------------ The chain ------------------------------ *)

(* The models a call by role is to ask: the ready ones of its chain, or    *)
(* all of them when none was ready.                                        *)
Tried(c) ==
    LET chain == Configured(request[c].role)
    IN  IF chain \cap ready0[c] = {} THEN chain ELSE chain \cap ready0[c]

CallTypes ==
    /\ pc \in [Calls -> {"idle", "choosing", "asking", "replied", "ended"}]
    /\ request \in [Calls -> Requests]
    /\ todo \in [Calls -> SUBSET Keys]
    /\ DOMAIN asking = Calls /\ DOMAIN result = Calls
    /\ asking = [c \in Calls |-> asking[c]] /\ result = [c \in Calls |-> result[c]]
    /\ ready0 \in [Calls -> SUBSET Keys]
    /\ failed = [c \in Calls |-> failed[c]]

(* What is asked, what has failed and what is still to ask make up what    *)
(* the call set out with; nobody was passed over.                          *)
CallInv(c) ==
    /\ pc[c] = "idle" => failed[c] = {}
    /\ pc[c] = "replied" => result[c] \in {"text", "fallback", "error"}
    /\ ByRole(c) =>
        /\ pc[c] = "choosing" => todo[c] \cup failed[c] = Tried(c)
        /\ pc[c] \in {"asking", "replied"} =>
              /\ asking[c] \in Tried(c)
              /\ todo[c] \cup failed[c] \cup {asking[c]} = Tried(c)
              /\ \A j \in Tried(c) : Precedes(request[c], j, asking[c]) => j \in failed[c]
        /\ pc[c] = "ended" =>
              \/ /\ result[c] = "text"
                 /\ asking[c] \in Tried(c)
                 /\ \A j \in Tried(c) : Precedes(request[c], j, asking[c]) => j \in failed[c]
              \/ result[c] = NoModel /\ Configured(request[c].role) = {}
              \/ result[c] = "error" /\ asking[c] \in Tried(c)
              \/ result[c] = "fallback" /\ failed[c] = Tried(c)

ChainInv == CallTypes /\ \A c \in Calls : CallInv(c)

(* Chains cite keys. *)
LEMMA ConfiguredKeys ==
    ASSUME NEW role \in Roles
    PROVE  Configured(role) \subseteq Keys
<1>1. /\ RoleModels[role] \in Seq(Keys) /\ RoleModels[DefaultRole] \in Seq(Keys)
      /\ Fallback \in Seq(Keys)
  BY RouterAssumption
<1>2. Chain(role) \in Seq(Keys)
  BY <1>1 DEF Chain
<1>3. ToSet(Chain(role)) \subseteq Keys
  BY <1>2 DEF ToSet
<1>4. QED
  BY <1>3 DEF Configured

(* No key of a chain comes before itself. *)
LEMMA PrecedesIrreflexive ==
    ASSUME NEW r \in Requests, NEW k
    PROVE  ~Precedes(r, k, k)
<1>1. SUFFICES ASSUME Precedes(r, k, k) PROVE FALSE
  OBVIOUS
<1>2. r.role \in Roles
  BY <1>1 DEF Precedes, Requests, RoleRequests, ModelRequests
<1>3. Chain(r.role) \in Seq(Keys)
  BY <1>2, RouterAssumption DEF Chain
<1>4. PICK i \in DOMAIN Chain(r.role) : Chain(r.role)[i] = k /\ \A n \in 1 .. i : Chain(r.role)[n] # k
  BY <1>1 DEF Precedes
<1>5. i \in 1 .. i
  BY <1>3, <1>4
<1>6. QED
  BY <1>4, <1>5

(* What a call sets out with: the ready ones are those it found ready. *)
LEMMA SetsOut ==
    ASSUME NEW role \in Roles, NEW ready, ready = {k \in Keys : IsReady(k)}
    PROVE  Candidates(role) = IF Configured(role) \cap ready = {} THEN Configured(role)
                              ELSE Configured(role) \cap ready
<1>1. Configured(role) \subseteq Keys
  BY ConfiguredKeys
<1>2. {k \in Configured(role) : IsReady(k)} = Configured(role) \cap ready
  BY <1>1
<1>3. QED
  BY <1>2 DEF Candidates

(* A call whose own variables stay is in the same place. *)
LEMMA CallStays ==
    ASSUME NEW d \in Calls, CallInv(d), slot' = slot,
           pc'[d] = pc[d], request'[d] = request[d], todo'[d] = todo[d],
           asking'[d] = asking[d], result'[d] = result[d],
           ready0'[d] = ready0[d], failed'[d] = failed[d]
    PROVE  CallInv(d)'
BY DEF CallInv, ByRole, Tried, Configured

LEMMA BeginKeeps ==
    ASSUME ChainInv, NEW c \in Calls, NEW r \in Requests, Begin(c, r)
    PROVE  ChainInv'
<1>1. CallTypes'
  <2>1. Eligible(r) \subseteq Keys
    <3>1. CASE r.kind = "role"
      <4>1. r.role \in Roles
        BY <3>1 DEF Requests, RoleRequests, ModelRequests
      <4>2. Candidates(r.role) \subseteq Configured(r.role)
        BY DEF Candidates
      <4>3. QED
        BY <3>1, <4>1, <4>2, ConfiguredKeys DEF Eligible
    <3>2. CASE r.kind # "role"
      <4>1. r.key \in Keys
        BY <3>2, RouterAssumption DEF Requests, RoleRequests, ModelRequests
      <4>2. QED
        BY <3>2, <4>1 DEF Eligible
    <3>3. QED
      BY <3>1, <3>2
  <2>2. QED
    BY <2>1 DEF Begin, ChainInv, CallTypes
<1>2. ASSUME NEW d \in Calls, d # c PROVE CallInv(d)'
  BY <1>2, CallStays DEF Begin, ChainInv, CallTypes
<1>3. CallInv(c)'
  <2>1. /\ slot' = slot /\ request'[c] = r /\ todo'[c] = Eligible(r)
        /\ ready0'[c] = {k \in Keys : IsReady(k)} /\ failed'[c] = {}
        /\ \/ pc'[c] = "ended" /\ result'[c] = NoModel /\ Eligible(r) = {}
           \/ pc'[c] = "choosing"
    BY DEF Begin, ChainInv, CallTypes, CallInv
  <2>2. CASE r.kind # "role"
    BY <2>1, <2>2 DEF CallInv, ByRole
  <2>3. CASE r.kind = "role"
    <3>1. r.role \in Roles
      BY <2>3 DEF Requests, RoleRequests, ModelRequests
    <3>2. Configured(r.role)' = Configured(r.role)
      BY <2>1 DEF Configured
    <3>3. Eligible(r) = Candidates(r.role)
      BY <2>3 DEF Eligible
    <3>4. Eligible(r) = Tried(c)'
      BY <2>1, <3>1, <3>2, <3>3, SetsOut DEF Tried
    <3>5. Eligible(r) = {} => Configured(r.role) = {}
      BY <3>3 DEF Candidates
    <3>6. QED
      BY <2>1, <3>2, <3>4, <3>5 DEF CallInv, NoModel
  <2>4. QED
    BY <2>2, <2>3
<1>4. QED
  BY <1>1, <1>2, <1>3 DEF ChainInv

LEMMA AskKeeps ==
    ASSUME ChainInv, NEW c \in Calls, NEW k \in Keys, Ask(c, k)
    PROVE  ChainInv'
<1>1. CallTypes'
  BY DEF Ask, ChainInv, CallTypes
<1>2. ASSUME NEW d \in Calls, d # c PROVE CallInv(d)'
  BY <1>2, CallStays DEF Ask, ChainInv, CallTypes
<1>3. CallInv(c)'
  <2>1. /\ slot' = slot /\ pc[c] = "choosing" /\ pc'[c] = "asking" /\ request'[c] = request[c]
        /\ k \in todo[c] /\ todo'[c] = todo[c] \ {k} /\ asking'[c] = k
        /\ ready0'[c] = ready0[c] /\ failed'[c] = failed[c]
        /\ \A j \in todo[c] \ {k} : ~Precedes(request[c], j, k)
    BY DEF Ask, ChainInv, CallTypes
  <2>2. ~Precedes(request[c], k, k)
    BY PrecedesIrreflexive DEF ChainInv, CallTypes
  <2>3. Tried(c)' = Tried(c)
    BY <2>1 DEF Tried, Configured
  <2>4. ByRole(c) => todo[c] \cup failed[c] = Tried(c)
    BY <2>1 DEF ChainInv, CallInv
  <2>5. QED
    BY <2>1, <2>2, <2>3, <2>4 DEF CallInv, ByRole
<1>4. QED
  BY <1>1, <1>2, <1>3 DEF ChainInv

(* An answer, or the time limit. *)
LEMMA AnswerKeeps ==
    ASSUME ChainInv, NEW c \in Calls, Reply(c) \/ TimeLimit(c)
    PROVE  ChainInv'
<1>1. PICK res \in {"text", "fallback", "error"} : result' = [result EXCEPT ![c] = res]
  BY DEF Reply, TimeLimit, ResultOf
<1>2. /\ pc[c] = "asking" /\ pc' = [pc EXCEPT ![c] = "replied"]
      /\ UNCHANGED <<slot, request, todo, asking, ready0, failed>>
  BY DEF Reply, TimeLimit
<1>3. CallTypes'
  BY <1>1, <1>2 DEF ChainInv, CallTypes
<1>4. ASSUME NEW d \in Calls, d # c PROVE CallInv(d)'
  BY <1>1, <1>2, <1>4, CallStays DEF ChainInv, CallTypes
<1>5. CallInv(c)'
  <2>1. pc'[c] = "replied" /\ result'[c] = res
    BY <1>1, <1>2 DEF ChainInv, CallTypes
  <2>2. Tried(c)' = Tried(c)
    BY <1>2 DEF Tried, Configured
  <2>3. QED
    BY <1>2, <2>1, <2>2 DEF ChainInv, CallInv, ByRole
<1>6. QED
  BY <1>3, <1>4, <1>5 DEF ChainInv

LEMMA ReturnKeeps ==
    ASSUME ChainInv, NEW c \in Calls, Return(c)
    PROVE  ChainInv'
<1>1. CallTypes'
  BY DEF Return, ChainInv, CallTypes
<1>2. ASSUME NEW d \in Calls, d # c PROVE CallInv(d)'
  BY <1>2, CallStays DEF Return, ChainInv, CallTypes
<1>3. CallInv(c)'
  <2>1. /\ pc[c] = "replied" /\ pc'[c] = "ended" /\ result[c] # "fallback"
        /\ UNCHANGED <<slot, request, todo, asking, result, ready0, failed>>
    BY DEF Return, ChainInv, CallTypes
  <2>2. Tried(c)' = Tried(c)
    BY <2>1 DEF Tried, Configured
  <2>3. QED
    BY <2>1, <2>2 DEF ChainInv, CallInv, ByRole
<1>4. QED
  BY <1>1, <1>2, <1>3 DEF ChainInv

LEMMA FallBackKeeps ==
    ASSUME ChainInv, NEW c \in Calls, FallBack(c)
    PROVE  ChainInv'
<1>1. CallTypes'
  BY DEF FallBack, ChainInv, CallTypes
<1>2. ASSUME NEW d \in Calls, d # c PROVE CallInv(d)'
  BY <1>2, CallStays DEF FallBack, ChainInv, CallTypes
<1>3. CallInv(c)'
  <2>1. /\ pc[c] = "replied" /\ result[c] = "fallback"
        /\ failed'[c] = failed[c] \cup {asking[c]}
        /\ \/ todo[c] = {} /\ pc'[c] = "ended"
           \/ pc'[c] = "choosing"
        /\ UNCHANGED <<slot, request, todo, asking, result, ready0>>
    BY DEF FallBack, ChainInv, CallTypes
  <2>2. Tried(c)' = Tried(c)
    BY <2>1 DEF Tried, Configured
  <2>3. ByRole(c) => todo[c] \cup failed[c] \cup {asking[c]} = Tried(c)
    BY <2>1 DEF ChainInv, CallInv
  <2>4. QED
    BY <2>1, <2>2, <2>3 DEF CallInv, ByRole
<1>4. QED
  BY <1>1, <1>2, <1>3 DEF ChainInv

LEMMA OtherKeeps ==
    ASSUME ChainInv, UNCHANGED <<slot, callVars>>
    PROVE  ChainInv'
<1>1. CallTypes'
  BY DEF callVars, ChainInv, CallTypes
<1>2. ASSUME NEW d \in Calls PROVE CallInv(d)'
  BY <1>2, CallStays DEF callVars, ChainInv
<1>3. QED
  BY <1>1, <1>2 DEF ChainInv

LEMMA ChainStep == ChainInv /\ [Next]_vars => ChainInv'
<1> SUFFICES ASSUME ChainInv, [Next]_vars
             PROVE  ChainInv'
  OBVIOUS
<1>1. ASSUME NEW c \in Calls, NEW r \in Requests, Begin(c, r) PROVE ChainInv'
  BY <1>1, BeginKeeps
<1>2. ASSUME NEW c \in Calls, NEW k \in Keys, Ask(c, k) PROVE ChainInv'
  BY <1>2, AskKeeps
<1>3. ASSUME NEW c \in Calls, Reply(c) \/ TimeLimit(c) PROVE ChainInv'
  BY <1>3, AnswerKeeps
<1>4. ASSUME NEW c \in Calls, Return(c) PROVE ChainInv'
  BY <1>4, ReturnKeeps
<1>5. ASSUME NEW c \in Calls, FallBack(c) PROVE ChainInv'
  BY <1>5, FallBackKeeps
<1>6. CASE (\E k \in Keys : Probe(k)) \/ ProbeAnswer \/ ProbeMark \/ Tick \/ UNCHANGED vars
  <2>1. UNCHANGED <<slot, callVars>>
    BY <1>6, Zenon DEF Probe, ProbeAnswer, ProbeMark, Tick, vars
  <2>2. QED
    BY <2>1, OtherKeeps
<1>7. QED
  BY <1>1, <1>2, <1>3, <1>4, <1>5, <1>6 DEF Next

(* Whatever fails, in whatever order calls and the health check put models *)
(* aside, the chain of its role accounts for how a call ends (generate()). *)
THEOREM ChainAccounts == Spec => []AccountedFor
<1>1. Init => ChainInv
  <2> SUFFICES ASSUME Init PROVE ChainInv
    OBVIOUS
  <2>1. Unasked \in Requests
    BY RouterAssumption DEF Unasked, Requests, RoleRequests
  <2>2. CallTypes
    BY <2>1 DEF Init, CallTypes
  <2>3. ASSUME NEW c \in Calls PROVE CallInv(c)
    BY DEF Init, CallInv
  <2>4. QED
    BY <2>2, <2>3 DEF ChainInv
<1>2. ChainInv => AccountedFor
  <2> SUFFICES ASSUME ChainInv, NEW c \in Calls, pc[c] = "ended", ByRole(c)
               PROVE  LET chain == Configured(request[c].role)
                          tried == IF chain \cap ready0[c] = {} THEN chain
                                   ELSE chain \cap ready0[c]
                      IN  CASE result[c] = "text" ->
                                 /\ asking[c] \in tried
                                 /\ \A j \in tried :
                                      Precedes(request[c], j, asking[c]) => j \in failed[c]
                            [] result[c] = NoModel -> chain = {}
                            [] result[c] = "error" -> asking[c] \in tried
                            [] OTHER -> failed[c] = tried
    BY DEF AccountedFor
  <2>1. CallInv(c)
    BY DEF ChainInv
  <2>2. QED
    BY <2>1 DEF CallInv, Tried, NoModel
<1>3. QED
  BY <1>1, <1>2, ChainStep, PTL DEF Spec
=============================================================================
