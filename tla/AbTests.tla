------------------------------ MODULE AbTests -------------------------------
(***************************************************************************)
(* The A/B test of one campaign: AbTestService with the row of the test,   *)
(* the two rows of its results, and the chi-squared test that names the    *)
(* winner.  Requests create the test; incrementResult and completeTest,    *)
(* which nothing calls yet, are modelled as written, under a caller that   *)
(* counts a message as read only once it counted it as delivered.          *)
(***************************************************************************)
EXTENDS Integers

CONSTANTS
  AbRequests,      \* create requests that may be in flight
  MinDelivered,    \* delivered messages a variant needs: 100
  MaxDelivered,    \* bound: delivered messages of a variant
  MaxCompletions   \* bound: calls of completeTest

ASSUME AbBounds ==
  /\ MinDelivered \in Nat \ {0} /\ MaxDelivered \in Nat /\ MaxCompletions \in Nat

VARIABLES
  campaignThere,  \* the row of the campaign
  abTest,         \* its row of ab_tests
  abResult,       \* whether the rows of ab_results are there, and what they count
  creation,       \* the create requests: the await each is at
  completion,     \* completeTest, with the results it has read
  completions,
  judged          \* history: the results on which a completion named the winner last

abVars == << campaignThere, abTest, abResult, creation, completion, completions, judged >>

Variants == {"A", "B"}
AbStatus == {"RUNNING", "COMPLETED", "CANCELLED"}
AbTest   == [exists : BOOLEAN, status : AbStatus, winner : Variants \cup {"none"}]
NoTest   == [exists |-> FALSE, status |-> "RUNNING", winner |-> "none"]
AbResult == [delivered : 0..MaxDelivered, read : 0..MaxDelivered]
Results  == [Variants -> AbResult]
NoData   == [v \in Variants |-> [delivered |-> 0, read |-> 0]]
NoResults == [exist |-> FALSE, of |-> NoData]

AbInit ==
  /\ campaignThere = TRUE
  /\ abTest = NoTest
  /\ abResult = NoResults
  /\ creation = [r \in AbRequests |-> "idle"]
  /\ completion = [pc |-> "idle", results |-> NoData]
  /\ completions = 0
  /\ judged = {}

-----------------------------------------------------------------------------
(* SignificanceService. *)

OtherThan(v)  == IF v = "A" THEN "B" ELSE "A"
NotRead(s, v) == s[v].delivered - s[v].read
Total(s)      == s["A"].delivered + s["B"].delivered
Observed(s, v, read) == IF read THEN s[v].read ELSE NotRead(s, v)
Column(s, read)      == Observed(s, "A", read) + Observed(s, "B", read)

\* (observed - expected)^2 / expected of a cell, where expected is its row times its
\* column over the total; times the total, both rows and both columns.
Deviation(s, v, read) ==
  LET over == Observed(s, v, read) * Total(s) - s[v].delivered * Column(s, read)
  IN over * over * s[OtherThan(v)].delivered * Column(s, ~read)

Products(s) == s["A"].delivered * s["B"].delivered * Column(s, TRUE) * Column(s, FALSE)

\* Chi-squared times Total and Products.
Deviations(s) == Deviation(s, "A", TRUE) + Deviation(s, "A", FALSE)
                   + Deviation(s, "B", TRUE) + Deviation(s, "B", FALSE)

\* The p-value of one degree of freedom is less than 0.05 where chi-squared is more
\* than 3.8415.  An empty column divides by zero, and NaN is not less.
IsSignificant(s) ==
  /\ Products(s) # 0
  /\ 10000 * Deviations(s) > 38415 * Products(s) * Total(s)

\* rateA > rateB ? 'A' : 'B'.
Better(s) == IF s["A"].read * s["B"].delivered > s["B"].read * s["A"].delivered THEN "A" ELSE "B"

\* Mutant: what is asked of each variant is asked of the two together.
ComputeSignificanceTogether(s) ==
  IF Total(s) < 2 * MinDelivered \/ ~IsSignificant(s) THEN "INCONCLUSIVE" ELSE Better(s)

ComputeSignificance(s) ==
  IF (\E v \in Variants : s[v].delivered < MinDelivered) \/ ~IsSignificant(s)
  THEN "INCONCLUSIVE" ELSE Better(s)

-----------------------------------------------------------------------------
(* AbTestService.create. *)

CreateAbTest(r) ==
  /\ creation[r] = "idle" /\ campaignThere
  /\ creation' = [creation EXCEPT ![r] = "existing"]
  /\ UNCHANGED << campaignThere, abTest, abResult, completion, completions, judged >>

\* 400: the campaign has one already.
FindTest(r) ==
  /\ creation[r] = "existing"
  /\ creation' = [creation EXCEPT ![r] = IF abTest.exists THEN "idle" ELSE "save"]
  /\ UNCHANGED << campaignThere, abTest, abResult, completion, completions, judged >>

\* A second test breaks the unique campaignId, one of a campaign that has gone the
\* foreign key: 500.
SaveTest(r) ==
  /\ creation[r] = "save"
  /\ IF abTest.exists \/ ~campaignThere
       THEN creation' = [creation EXCEPT ![r] = "idle"] /\ UNCHANGED abTest
       ELSE /\ creation' = [creation EXCEPT ![r] = "results"]
            /\ abTest' = [exists |-> TRUE, status |-> "RUNNING", winner |-> "none"]
  /\ UNCHANGED << campaignThere, abResult, completion, completions, judged >>

SaveResults(r) ==
  /\ creation[r] = "results"
  /\ creation' = [creation EXCEPT ![r] = "idle"]
  /\ abResult' = IF abTest.exists THEN [exist |-> TRUE, of |-> NoData] ELSE abResult
  /\ UNCHANGED << campaignThere, abTest, completion, completions, judged >>

\* The database fails, or the process stops: a test may be left without results.
CreateFails(r) ==
  /\ creation[r] # "idle"
  /\ creation' = [creation EXCEPT ![r] = "idle"]
  /\ UNCHANGED << campaignThere, abTest, abResult, completion, completions, judged >>

\* DELETE campaigns/:id takes the test and its results along.
RemoveCampaign ==
  /\ campaignThere /\ campaignThere' = FALSE
  /\ abTest' = NoTest /\ abResult' = NoResults
  /\ UNCHANGED << creation, completion, completions, judged >>

-----------------------------------------------------------------------------
(* incrementResult and completeTest. *)

Incremented(row, field) ==
  IF field = "read" THEN [delivered |-> row.delivered, read |-> row.read + 1]
                    ELSE [delivered |-> row.delivered + 1, read |-> row.read]

\* A single UPDATE, of no row when the results are not there.
IncrementResult(v, field) ==
  LET row == abResult.of[v] IN
  /\ abResult.exist
  /\ IF field = "read" THEN row.read < row.delivered ELSE row.delivered < MaxDelivered
  /\ abResult' = [exist |-> TRUE, of |-> [abResult.of EXCEPT ![v] = Incremented(row, field)]]
  /\ UNCHANGED << campaignThere, abTest, creation, completion, completions, judged >>

\* Results that are not there count as zero.
FindResults ==
  /\ completion.pc = "idle" /\ completions < MaxCompletions /\ abTest.exists
  /\ completion' = [pc |-> "update", results |-> abResult.of]
  /\ completions' = completions + 1
  /\ UNCHANGED << campaignThere, abTest, abResult, creation, judged >>

\* winnerId undefined is left out of the UPDATE: a completion without a winner keeps
\* the one an earlier completion named.
CompleteTest ==
  LET winner == ComputeSignificance(completion.results) IN
  /\ completion.pc = "update"
  /\ completion' = [pc |-> "idle", results |-> NoData]
  /\ abTest' = IF ~abTest.exists THEN abTest
               ELSE [exists |-> TRUE, status |-> "COMPLETED",
                     winner |-> IF winner = "INCONCLUSIVE" THEN abTest.winner ELSE winner]
  /\ judged' = IF winner = "INCONCLUSIVE" THEN judged ELSE {completion.results}
  /\ UNCHANGED << campaignThere, abResult, creation, completions >>

AbTestService ==
  \/ \E r \in AbRequests :
       CreateAbTest(r) \/ FindTest(r) \/ SaveTest(r) \/ SaveResults(r) \/ CreateFails(r)
  \/ \E v \in Variants, field \in {"delivered", "read"} : IncrementResult(v, field)
  \/ FindResults \/ CompleteTest

AbNext == AbTestService \/ RemoveCampaign

AbSpec == AbInit /\ [][AbNext]_abVars
-----------------------------------------------------------------------------
(* Properties. *)

\* Every variable keeps its type.
AbTypeOK ==
  /\ campaignThere \in BOOLEAN /\ abTest \in AbTest
  /\ abResult \in [exist : BOOLEAN, of : Results]
  /\ creation \in [AbRequests -> {"idle", "existing", "save", "results"}]
  /\ completion \in [pc : {"idle", "update"}, results : Results]
  /\ completions \in 0..MaxCompletions /\ judged \subseteq Results

\* "Winner: the variant with the better read rate once significance is confirmed":
\* a test names a winner only on results a completion has read, of which each variant
\* had enough, where that one was read at the better rate and the two-by-two formula
\* N (ad - bc)^2 over the product of the sums, which the code does not use, is past
\* the critical value.
WinnerEarned ==
  abTest.winner \in Variants =>
    \E s \in judged :
      LET v == abTest.winner
          w == OtherThan(v)
          cross == s[v].read * NotRead(s, w) - s[w].read * NotRead(s, v)
      IN
      /\ s[v].delivered >= MinDelivered /\ s[w].delivered >= MinDelivered
      /\ cross > 0
      /\ 10000 * Total(s) * cross * cross > 38415 * Products(s)
-----------------------------------------------------------------------------
(* What every reachable state satisfies.                                       *)

\* No message is read that was not delivered, in results counted, read or judged.
ReadWereDelivered(s) == \A v \in Variants : s[v].read <= s[v].delivered
ResultsFit ==
  /\ ReadWereDelivered(abResult.of) /\ ReadWereDelivered(completion.results)
  /\ \A s \in judged : ReadWereDelivered(s)
NoTestNoWinner == ~abTest.exists => abTest.winner = "none"

AbInvariant == AbTypeOK /\ ResultsFit /\ NoTestNoWinner /\ WinnerEarned
=============================================================================
