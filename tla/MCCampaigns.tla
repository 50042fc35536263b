---------------------------- MODULE MCCampaigns ----------------------------
(* Small instances of Campaigns for TLC. *)
EXTENDS Campaigns, TLC

\* The bound MaxStarts never leaves a start without a row to insert.
ASSUME LogsSuffice == Cardinality(Logs) >= MaxStarts * Cardinality(Contacts)

\* Contacts, log rows and requests are interchangeable.
Symmetry ==
  Permutations(Contacts) \cup Permutations(Logs) \cup Permutations(Requests)
=============================================================================
