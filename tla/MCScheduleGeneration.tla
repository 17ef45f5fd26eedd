------------------------ MODULE MCScheduleGeneration ------------------------
(* Small instances of ScheduleGeneration for TLC. *)
EXTENDS ScheduleGeneration, TLC

CONSTANTS Daily

\* Schedule Daily recurs every day and has no advance_days, any other every
\* second day with one; past MaxDate stands FAR_FUTURE.
MCNextOccurrence ==
    [s \in Schedules |-> [d \in Dates |->
        LET next == IF s = Daily THEN d + 1 ELSE d + 2
        IN IF next > MaxDate THEN FarFuture ELSE next]]

MCAdvance == [s \in Schedules |-> IF s = Daily THEN 0 ELSE 1]

WorkerSymmetry == Permutations(Workers)
=============================================================================
