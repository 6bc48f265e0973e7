------------------------------ MODULE MCRelay ------------------------------
(***************************************************************************)
(* Instances of Relay.                                                     *)
(***************************************************************************)
EXTENDS Relay

CONSTANTS MaxIn, MaxOut

MCTotal == [x \in Sides |-> IF x = "client" THEN MaxIn ELSE MaxOut]
=============================================================================
