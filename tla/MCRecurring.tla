----------------------------- MODULE MCRecurring -----------------------------
(* Small instances of Recurring for TLC. *)
EXTENDS Recurring, TLC

\* The ends of a year and of February, and a day that every month has.
MCStartDates == {Date(2023, 12, 28), Date(2024, 1, 31)}
EndOfJanuary == {Date(2023, 1, 31)}

ThreadSymmetry == Permutations(Threads)
=============================================================================
