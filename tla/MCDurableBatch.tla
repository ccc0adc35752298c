--------------------------- MODULE MCDurableBatch ---------------------------
(* Instances of DurableBatch for TLC.                                      *)
EXTENDS DurableBatch

\* The rule of a batch that configures nothing: the first failure ends it.
Plain ==
  [total |-> N, concurrency |-> 2, min |-> Unset, tolerated |-> Unset, percent |-> Unset,
   custom |-> Unset, flat |-> FALSE, heavy |-> {}]

Started(k, gives) == [counts |-> ItemStatus, at |-> k, gives |-> gives]
Failing(k) == [counts |-> {"F"}, at |-> k, gives |-> "CustomCompletionFailed"]

MCConfigs ==
  {Plain,
   [Plain EXCEPT !.min = 1, !.concurrency = Unset, !.heavy = {0}],
   [Plain EXCEPT !.tolerated = 1, !.concurrency = 1, !.heavy = {1}],
   [Plain EXCEPT !.min = 2, !.tolerated = 0],
   [Plain EXCEPT !.percent = 34, !.heavy = {1}],
   [Plain EXCEPT !.min = 1, !.flat = TRUE],
   [Plain EXCEPT !.flat = TRUE, !.concurrency = 1],
   [Plain EXCEPT !.custom = Started(2, "CustomCompletionSucceeded"), !.concurrency = Unset],
   [Plain EXCEPT !.custom = Failing(1), !.concurrency = 1],
   [Plain EXCEPT !.total = 0, !.custom = Started(0, "CustomCompletionFailed")],
   [Plain EXCEPT !.total = 1, !.concurrency = Unset]}

\* A minimum of successes alone.
MCMinimum == {[Plain EXCEPT !.total = 2, !.min = 1]}
=============================================================================
