----------------------------- MODULE MCInbound ------------------------------
(* A small instance of Inbound for TLC. *)
EXTENDS Inbound, TLC

CONSTANTS p1, stop, start

MCSender    == [m \in Messages |-> p1]
MCKeyword   == [m \in Messages |-> CASE m = stop -> "stop" [] m = start -> "start"
                                    [] OTHER -> "text"]
MCRules     == {[priority |-> 0, isActive |-> TRUE, matches |-> {start}]}
=============================================================================
