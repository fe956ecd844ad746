----------------------------- MODULE ModelRouter -----------------------------
(***************************************************************************)
(* The model router of crates/oreia-llm/src/router.rs.  A call asks the    *)
(* models of a role one after the other; a model whose failure is one of   *)
(* infrastructure is put aside for a cooldown.  Many calls run at once and *)
(* share the slots, and the health check of the boot marks the same slots  *)
(* while they run.  An answer is formed at the server in one step and used *)
(* by the caller in a later one.                                           *)
(*                                                                         *)
(* Time is counted in ticks: `cooling` is what is left of offline_until.   *)
(***************************************************************************)
EXTENDS Integers, SequencesExt

CONSTANTS
    Keys,       (* the names that roles and the fallback list may cite       *)
    Models,     (* [models]: the specifications, by key                      *)
    EnvVars,    (* environment variables the specifications refer to         *)
    NoVar,      (* a value given literally, or no variable named             *)
    Roles,      (* the roles of [roles] and the ones callers ask for         *)
    DefaultRole,
    RoleModels, (* [roles]: the sequence of keys of each role                *)
    Fallback,   (* the fallback list                                         *)
    Pinned,     (* the models that steps of a ladder name themselves         *)
    Timed,      (* models whose calls have a time limit                      *)
    Cooldown,   (* ticks a failed model is left alone                        *)
    Calls       (* the calls of generate() and generate_with_model()         *)

ASSUME RouterAssumption ==
    /\ Cooldown \in Nat
    /\ DefaultRole \in Roles
    /\ RoleModels \in [Roles -> Seq(Keys)]
    /\ Fallback \in Seq(Keys)
    /\ DOMAIN Models \subseteq Keys
    /\ Timed \subseteq Keys
    /\ Pinned \subseteq Keys

VARIABLES
    slot,       (* the registered models: absent, unconfigured, configured   *)
    cooling,    (* ticks until offline_until, 0 when there is none           *)
    pc,         (* where each call is                                        *)
    request,    (* what it asked for: a role, or one model                   *)
    todo,       (* candidates it has not asked yet                           *)
    asking,     (* the model it is asking                                    *)
    result,     (* what generate() of that model returned; at the end, of it *)
    check, left, probed, health,    (* check_health(), the task of the boot  *)
    (* History: *)
    age,        (* ticks since a model was last marked offline               *)
    cleared,    (* models marked online since then                           *)
    ready0,     (* the models that were ready when a call began              *)
    failed      (* the models that failed it                                 *)

callVars == <<pc, request, todo, asking, result, ready0, failed>>
checkVars == <<check, left, probed, health>>
slotVars == <<cooling, age, cleared>>
vars == <<slot, slotVars, callVars, checkVars>>

NoModel == "no model"
NobodyAsked == "nobody"

(* ---------------------------- Configuration ---------------------------- *)

(* resolve(): the variables a specification reads have to be set. *)
Resolves(env, k) == {Models[k].base_url_env, Models[k].model_env} \subseteq env \cup {NoVar}

(* missing_api_key_var(): only the native Anthropic provider needs a key. *)
MissingKey(env, k) == Models[k].provider = "anthropic" /\ Models[k].api_key_env \notin env

(* from_config(): a model without its variables is registered, not called. *)
SlotOf(env, k) ==
    IF k \notin DOMAIN Models THEN "absent"
    ELSE IF Resolves(env, k) /\ ~MissingKey(env, k) THEN "configured"
    ELSE "unconfigured"

(* ------------------------------ Outcomes ------------------------------- *)

(* What a provider may meet, and the result its generate() makes of it:    *)
(* the send fails or times out (map_reqwest), the status is not a success, *)
(* the body breaks off or has neither text nor a tool call.                *)
LlmErrors ==
    [connect |-> "Connection", send_timeout |-> "Timeout",
     status_429 |-> "Http 429", status_5xx |-> "Http 5xx", status_4xx |-> "Http",
     body_cut |-> "Decode", no_text |-> "Decode"]

(* should_fallback() *)
FallsBack(error) == error \in {"Connection", "Timeout", "Http 429", "Http 5xx"}

(* What the router tells apart: an answer, and two classes of errors. *)
ResultOf(met) ==
    IF met \in {"text", "tool_call"} THEN "text"
    ELSE IF FallsBack(LlmErrors[met]) THEN "fallback"
    ELSE "error"

Meetings == {"text", "tool_call"} \cup DOMAIN LlmErrors

(* ----------------------------- Candidates ------------------------------ *)

Chain(role) == RoleModels[role] \o RoleModels[DefaultRole] \o Fallback

(* The first place of a key in the chain of a role: later ones are dropped. *)
Precedes(r, j, k) ==
    /\ r.kind = "role"
    /\ \E i \in DOMAIN Chain(r.role) :
          Chain(r.role)[i] = j /\ \A n \in 1 .. i : Chain(r.role)[n] # k

IsReady(k) == slot[k] = "configured" /\ cooling[k] = 0

Configured(role) == {k \in ToSet(Chain(role)) : slot[k] = "configured"}

(* candidates(): the ready ones; when there is none, all that are offline. *)
Candidates(role) ==
    LET ready == {k \in Configured(role) : IsReady(k)}
    IN  IF ready = {} THEN Configured(role) ELSE ready

RoleRequests == [kind : {"role"}, role : Roles]
ModelRequests == [kind : {"model"}, key : Pinned]
Requests == RoleRequests \cup ModelRequests
Unasked == [kind |-> "role", role |-> DefaultRole]

ByRole(c) == request[c].kind = "role"

(* The models a request may be answered by, in the state it begins in.     *)
(* generate_with_model() takes the model it is given, offline or not.      *)
Eligible(r) ==
    IF r.kind = "role" THEN Candidates(r.role)
    ELSE {k \in {r.key} : slot[k] = "configured"}

(* ------------------------------- Slots --------------------------------- *)

(* A slip the properties are tested on: a second failure does not start    *)
(* the cooldown again.                                                     *)
MarkOfflineOnce(k) ==
    /\ cooling' = [cooling EXCEPT ![k] = IF @ = 0 THEN Cooldown ELSE @]
    /\ age' = [age EXCEPT ![k] = 0]
    /\ cleared' = cleared \ {k}

MarkOffline(k) ==
    /\ cooling' = [cooling EXCEPT ![k] = Cooldown]
    /\ age' = [age EXCEPT ![k] = 0]
    /\ cleared' = cleared \ {k}

MarkOnline(k) ==
    /\ cooling' = [cooling EXCEPT ![k] = 0]
    /\ cleared' = cleared \cup {k}
    /\ UNCHANGED age

(* ------------------------------- A call -------------------------------- *)

(* generate() or generate_with_model() up to the first model asked. *)
Begin(c, r) ==
    /\ pc[c] = "idle"
    /\ request' = [request EXCEPT ![c] = r]
    /\ todo' = [todo EXCEPT ![c] = Eligible(r)]
    /\ ready0' = [ready0 EXCEPT ![c] = {k \in Keys : IsReady(k)}]
    /\ IF Eligible(r) = {}
       THEN /\ pc' = [pc EXCEPT ![c] = "ended"]
            /\ result' = [result EXCEPT ![c] = NoModel]
       ELSE pc' = [pc EXCEPT ![c] = "choosing"] /\ UNCHANGED result
    /\ UNCHANGED <<slot, slotVars, asking, failed, checkVars>>

(* The loop's next candidate, in the order of the chain. *)
Ask(c, k) ==
    /\ pc[c] = "choosing"
    /\ k \in todo[c]
    /\ \A j \in todo[c] \ {k} : ~Precedes(request[c], j, k)
    /\ pc' = [pc EXCEPT ![c] = "asking"]
    /\ asking' = [asking EXCEPT ![c] = k]
    /\ todo' = [todo EXCEPT ![c] = @ \ {k}]
    /\ UNCHANGED <<slot, slotVars, request, result, ready0, failed, checkVars>>

(* The server answers, or does not: which of them is not up to the caller. *)
Reply(c) ==
    /\ pc[c] = "asking"
    /\ \E met \in Meetings : result' = [result EXCEPT ![c] = ResultOf(met)]
    /\ pc' = [pc EXCEPT ![c] = "replied"]
    /\ UNCHANGED <<slot, slotVars, request, todo, asking, ready0, failed, checkVars>>

(* A slip: generate_with_model() without the limit generate() has. *)
TimeLimitByRole(c) ==
    /\ pc[c] = "asking"
    /\ ByRole(c)
    /\ asking[c] \in Timed
    /\ result' = [result EXCEPT ![c] = "fallback"]
    /\ pc' = [pc EXCEPT ![c] = "replied"]
    /\ UNCHANGED <<slot, slotVars, request, todo, asking, ready0, failed, checkVars>>

(* The time limit of the call, of the model or of the router: an error     *)
(* Timeout, which is worth a fallback.                                     *)
TimeLimit(c) ==
    /\ pc[c] = "asking"
    /\ asking[c] \in Timed
    /\ result' = [result EXCEPT ![c] = "fallback"]
    /\ pc' = [pc EXCEPT ![c] = "replied"]
    /\ UNCHANGED <<slot, slotVars, request, todo, asking, ready0, failed, checkVars>>

(* Ok(c) ends the call; so does an error that is not worth a fallback. *)
Return(c) ==
    /\ pc[c] = "replied"
    /\ result[c] # "fallback"
    /\ pc' = [pc EXCEPT ![c] = "ended"]
    /\ UNCHANGED <<slot, slotVars, request, todo, asking, result, ready0, failed, checkVars>>

(* A slip: candidates that were marked offline meanwhile are not asked. *)
FallBackToReady(c) ==
    /\ pc[c] = "replied"
    /\ result[c] = "fallback"
    /\ MarkOffline(asking[c])
    /\ failed' = [failed EXCEPT ![c] = @ \cup {asking[c]}]
    /\ pc' = [pc EXCEPT ![c] = IF \A k \in todo[c] : cooling[k] > 0 THEN "ended" ELSE "choosing"]
    /\ UNCHANGED <<slot, request, todo, asking, result, ready0, checkVars>>

(* The model is put aside, and the next one asked when there is one. *)
FallBack(c) ==
    /\ pc[c] = "replied"
    /\ result[c] = "fallback"
    /\ MarkOffline(asking[c])
    /\ failed' = [failed EXCEPT ![c] = @ \cup {asking[c]}]
    /\ pc' = [pc EXCEPT ![c] = IF todo[c] = {} THEN "ended" ELSE "choosing"]
    /\ UNCHANGED <<slot, request, todo, asking, result, ready0, checkVars>>

(* -------------------- The health check of the boot --------------------- *)

(* main() spawns check_health() once and serves messages meanwhile. *)
Probe(k) ==
    /\ check = "next"
    /\ k \in left
    /\ check' = "probing"
    /\ probed' = k
    /\ left' = left \ {k}
    /\ UNCHANGED <<slot, slotVars, callVars, health>>

(* health(): a GET with a limit of three seconds of its own. *)
ProbeAnswer ==
    /\ check = "probing"
    /\ health' \in BOOLEAN
    /\ check' = "probed"
    /\ UNCHANGED <<slot, slotVars, callVars, left, probed>>

ProbeMark ==
    /\ check = "probed"
    /\ IF health THEN MarkOnline(probed) ELSE MarkOffline(probed)
    /\ check' = IF left = {} THEN "done" ELSE "next"
    /\ probed' = NobodyAsked
    /\ health' = FALSE
    /\ UNCHANGED <<slot, callVars, left>>

(* ----------------------------- Environment ----------------------------- *)

Tick ==
    /\ \E k \in Keys : age[k] < Cooldown
    /\ cooling' = [k \in Keys |-> IF cooling[k] = 0 THEN 0 ELSE cooling[k] - 1]
    /\ age' = [k \in Keys |-> IF age[k] = Cooldown THEN Cooldown ELSE age[k] + 1]
    /\ UNCHANGED <<slot, cleared, callVars, checkVars>>

Init ==
    /\ \E env \in SUBSET EnvVars : slot = [k \in Keys |-> SlotOf(env, k)]
    /\ cooling = [k \in Keys |-> 0]
    /\ pc = [c \in Calls |-> "idle"]
    /\ request = [c \in Calls |-> Unasked]
    /\ todo = [c \in Calls |-> {}]
    /\ asking = [c \in Calls |-> NobodyAsked]
    /\ result = [c \in Calls |-> "none"]
    /\ left = {k \in Keys : slot[k] = "configured"}
    /\ check = IF left = {} THEN "done" ELSE "next"
    /\ probed = NobodyAsked
    /\ health = FALSE
    /\ age = [k \in Keys |-> Cooldown]
    /\ cleared = {}
    /\ ready0 = [c \in Calls |-> {}]
    /\ failed = [c \in Calls |-> {}]

Next ==
    \/ \E c \in Calls :
          \/ \E r \in Requests : Begin(c, r)
          \/ \E k \in Keys : Ask(c, k)
          \/ Reply(c) \/ TimeLimit(c) \/ Return(c) \/ FallBack(c)
    \/ \E k \in Keys : Probe(k)
    \/ ProbeAnswer \/ ProbeMark \/ Tick

Spec == Init /\ [][Next]_vars

(* The runtime polls a call that can go on, and its timer fires.  A server *)
(* owes no answer.                                                         *)
Fairness ==
    \A c \in Calls :
        WF_vars((\E k \in Keys : Ask(c, k)) \/ TimeLimit(c) \/ Return(c) \/ FallBack(c))

FairSpec == Spec /\ Fairness

----------------------------------------------------------------------------

(* Every variable keeps its type; no model is away for longer than one     *)
(* cooldown (Slot, Completion and LlmError).                               *)
TypeOK ==
    /\ slot \in [Keys -> {"absent", "unconfigured", "configured"}]
    /\ cooling \in [Keys -> 0 .. Cooldown]
    /\ pc \in [Calls -> {"idle", "choosing", "asking", "replied", "ended"}]
    /\ request \in [Calls -> Requests]
    /\ todo \in [Calls -> SUBSET Keys]
    /\ asking \in [Calls -> Keys \cup {NobodyAsked}]
    /\ result \in [Calls -> {"none", "text", "fallback", "error", NoModel}]
    /\ check \in {"next", "probing", "probed", "done"}
    /\ left \subseteq Keys
    /\ probed \in Keys \cup {NobodyAsked}
    /\ health \in BOOLEAN
    /\ age \in [Keys -> 0 .. Cooldown]
    /\ cleared \subseteq Keys
    /\ ready0 \in [Calls -> SUBSET Keys]
    /\ failed \in [Calls -> SUBSET Keys]

(* "um modelo que falha fica offline so por `cooldown` e volta sozinho"    *)
(* (router.rs): whatever the order in which several calls and the health   *)
(* check mark a model, it is away exactly for the cooldown counted from    *)
(* the last failure; only the health check of the boot brings it back      *)
(* earlier, and then at once.                                              *)
CooldownExact ==
    \A k \in Keys :
        cooling[k] = IF k \in cleared THEN 0 ELSE Cooldown - age[k]

(* When a call by role ends, the chain accounts for it (generate()): an    *)
(* answer comes from a model before which every configured one failed in   *)
(* this call or was offline when it began; an error worth a fallback means *)
(* that all of them that were ready failed, or all there are when none     *)
(* was; and no model at all means that none is configured.                 *)
AccountedFor ==
    \A c \in Calls :
        (pc[c] = "ended" /\ ByRole(c)) =>
            LET chain == Configured(request[c].role)
                tried == IF chain \cap ready0[c] = {} THEN chain ELSE chain \cap ready0[c]
            IN  CASE result[c] = "text" ->
                       /\ asking[c] \in tried
                       /\ \A j \in tried :
                            Precedes(request[c], j, asking[c]) => j \in failed[c]
                  [] result[c] = NoModel -> chain = {}
                  [] result[c] = "error" -> asking[c] \in tried
                  [] OTHER -> failed[c] = tried

(* With a time limit for every model, a call ends whatever the servers do  *)
(* (generate(), generate_with_model()).                                    *)
CallEnds ==
    \A c \in Calls :
        pc[c] \in {"choosing", "asking", "replied"} ~> pc[c] = "ended"

=============================================================================
