------------------------------ MODULE MCBroker ------------------------------
(* The broker with two jobs and a target of one slot.                      *)
EXTENDS Broker
=============================================================================
