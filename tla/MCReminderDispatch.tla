-------------------------- MODULE MCReminderDispatch ---------------------------
(* Two runs that may overlap, a candidate to remind and one to skip.         *)
EXTENDS ReminderDispatch, TLC
CONSTANTS e1, e2, fit, unfit

MCExecutors == {e1, e2}
MCCandidates == {fit, unfit}
MCUnfit == {unfit}
=============================================================================
