-------------------------- MODULE MCApprovalBroker --------------------------
(* A small instance of ApprovalBroker and Questions for TLC: two calls that *)
(* meet under one id or do not, each shown in two chats.                    *)
EXTENDS Questions, TLC

CONSTANTS c1, c2, i1, i2

MCCalls == {c1, c2}
MCIds == {i1, i2}

BrokerSymmetry == Permutations(MCCalls) \cup Permutations(MCIds)
=============================================================================
