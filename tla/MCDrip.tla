------------------------------- MODULE MCDrip -------------------------------
(* A small instance of Drip for TLC. *)
EXTENDS Drip

\* A plan whose conditions split the contacts, and one without a step 1.
MCPlans == {<< <<1, "ALWAYS">>, <<2, "NO_REPLY">> >>, << <<2, "ALWAYS">> >>}
=============================================================================
