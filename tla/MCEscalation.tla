---------------------------- MODULE MCEscalation ----------------------------
(* A small instance of Escalation for TLC.  The constants are numbers, so   *)
(* the configurations give them; what varies between executions - ladder or *)
(* none, clone or plain directory, which phases are done already - is       *)
(* chosen in Init.                                                          *)
EXTENDS Escalation

(* The first phase may pass without a change, the second may not.           *)
MCInit == Init /\ expects = {2}

MCSpec == MCInit /\ [][Next]_vars /\ Fairness
=============================================================================
