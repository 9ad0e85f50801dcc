------------------------- MODULE MCReminderSequence -------------------------
(* Small instances of ReminderSequence for TLC. *)
EXTENDS ReminderSequence, TLC

CONSTANTS i1, i2, j1, j2, r1, r2

ScheduleOffsets == <<1, 2, 3>>

JobSymmetry == Permutations(Jobs)
Symmetry == Permutations(Jobs) \cup Permutations(Invoices)
=============================================================================
