---------------------------- MODULE MCScheduler ----------------------------
(* Small instances of Scheduler for TLC. *)
EXTENDS Scheduler

\* The bound MaxStarts never leaves a start without a row to insert.
ASSUME LogsSuffice == Cardinality(Logs) >= MaxStarts * Cardinality(Contacts)
=============================================================================
