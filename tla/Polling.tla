------------------------------- MODULE Polling -------------------------------
(***************************************************************************)
(* How messages reach the program (crates/oreia-channels/src/telegram.rs   *)
(* run() and handle_update(), the queue of main() and api_message() of     *)
(* http.rs).  Telegram keeps an update until a later getUpdates confirms   *)
(* it by its offset; the program keeps that offset in memory and advances  *)
(* it before it deals with the update.  Every message that passes goes     *)
(* through one bounded queue to the main loop.                             *)
(***************************************************************************)
EXTENDS Integers, Sequences

CONSTANTS
    Scripts,        (* what a person may send, as sequences of inputs        *)
    Api,            (* the message of a caller of the HTTP API               *)
    Capacity        (* of the queue of main()                                *)

ASSUME PollingAssumption ==
    /\ Capacity \in Nat \ {0}
    /\ Scripts \subseteq Seq(STRING)
    /\ \A s \in Scripts : Api \notin DOMAIN s

VARIABLES
    script, sent,   (* what the person writes, and how much of it is sent    *)
    confirmed,      (* the last update Telegram has been told to forget      *)
    offset,         (* of the next getUpdates; 0 at boot                     *)
    batch,          (* updates that came back and are not dealt with yet     *)
    inbox,          (* the queue                                             *)
    apiSent,        (* whether the API's message was accepted                *)
    base            (* History: what was confirmed when the process started  *)

pollVars == <<script, sent, confirmed, offset, batch, inbox, apiSent, base>>

(* Inputs that handle_update() keeps to itself: somebody who is not in     *)
(* `allowed`, an update without text, and /start.                          *)
Kept == {"stranger", "no_text", "/start"}

Passes(u) == script[u] \notin Kept

(* What a call of getUpdates makes Telegram forget. *)
Confirm == IF offset > confirmed + 1 THEN offset - 1 ELSE confirmed

UserSends ==
    /\ sent < Len(script)
    /\ sent' = sent + 1
    /\ UNCHANGED <<script, confirmed, offset, batch, inbox, apiSent, base>>

(* getUpdates returns all that is not confirmed. *)
Poll ==
    /\ batch = <<>>
    /\ confirmed' = Confirm
    /\ batch' = [i \in 1 .. sent - Confirm |-> Confirm + i]
    /\ UNCHANGED <<script, sent, offset, inbox, apiSent, base>>

(* The call reaches Telegram and its answer is lost: the next one repeats  *)
(* it after the backoff.                                                   *)
PollLost ==
    /\ batch = <<>>
    /\ confirmed' = Confirm
    /\ UNCHANGED <<script, sent, offset, batch, inbox, apiSent, base>>

(* Slips: an offset that stays at the update, a message dropped when the   *)
(* queue is full.                                                          *)
TakeUpdateAgain ==
    /\ batch # <<>>
    /\ LET u == Head(batch)
       IN  /\ offset' = IF u > offset THEN u ELSE offset
           /\ IF Passes(u)
              THEN Len(inbox) < Capacity /\ inbox' = Append(inbox, u)
              ELSE UNCHANGED inbox
    /\ batch' = Tail(batch)
    /\ UNCHANGED <<script, sent, confirmed, apiSent, base>>

TakeUpdateDropping ==
    /\ batch # <<>>
    /\ offset' = IF Head(batch) + 1 > offset THEN Head(batch) + 1 ELSE offset
    /\ inbox' = IF Passes(Head(batch)) /\ Len(inbox) < Capacity
                THEN Append(inbox, Head(batch)) ELSE inbox
    /\ batch' = Tail(batch)
    /\ UNCHANGED <<script, sent, confirmed, apiSent, base>>

(* The loop over the updates: handle_update() waits for room in the queue. *)
TakeUpdate ==
    /\ batch # <<>>
    /\ LET u == Head(batch)
       IN  /\ offset' = IF u + 1 > offset THEN u + 1 ELSE offset
           /\ IF Passes(u)
              THEN Len(inbox) < Capacity /\ inbox' = Append(inbox, u)
              ELSE UNCHANGED inbox
    /\ batch' = Tail(batch)
    /\ UNCHANGED <<script, sent, confirmed, apiSent, base>>

(* POST /api/message: accepted as soon as it is in the queue. *)
ApiMessage ==
    /\ ~apiSent
    /\ Len(inbox) < Capacity
    /\ inbox' = Append(inbox, Api)
    /\ apiSent' = TRUE
    /\ UNCHANGED <<script, sent, confirmed, offset, batch, base>>

(* rx.recv() of the main loop. *)
Receive(m) ==
    /\ inbox # <<>>
    /\ m = Head(inbox)
    /\ inbox' = Tail(inbox)
    /\ UNCHANGED <<script, sent, confirmed, offset, batch, apiSent, base>>

(* The process dies, or is shut down, and starts again: what it had        *)
(* fetched, and what was in the queue, is gone.                            *)
Restart ==
    /\ offset' = 0
    /\ batch' = <<>>
    /\ inbox' = <<>>
    /\ base' = confirmed
    /\ UNCHANGED <<script, sent, confirmed, apiSent>>

PollInit ==
    /\ script \in Scripts
    /\ sent = 0
    /\ confirmed = 0
    /\ offset = 0
    /\ batch = <<>>
    /\ inbox = <<>>
    /\ apiSent = FALSE
    /\ base = 0

PollTypeOK ==
    /\ script \in Scripts
    /\ sent \in 0 .. Len(script)
    /\ confirmed \in 0 .. sent
    /\ base \in 0 .. confirmed
    /\ offset \in 0 .. sent + 1
    /\ \A i \in DOMAIN batch : batch[i] \in 1 .. sent
    /\ Len(inbox) <= Capacity
    /\ \A i \in DOMAIN inbox : inbox[i] \in 1 .. sent \cup {Api}
    /\ apiSent \in BOOLEAN
=============================================================================
