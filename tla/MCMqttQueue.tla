---------------------------- MODULE MCMqttQueue -----------------------------
(***************************************************************************)
(* Instance of MqttQueue for TLC: two producers, one with a call more than *)
(* the other, around a queue of two entries, and enough addresses that     *)
(* malloc() may reuse a freed block while clearQueue() still walks its     *)
(* chain and that the locked check of enqueue() finds the queue full.      *)
(***************************************************************************)
EXTENDS MqttQueue

CONSTANTS p1, p2

MCQuota == [p \in Producers |-> IF p = p1 THEN 2 ELSE 1]
=============================================================================
