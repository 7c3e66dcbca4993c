---------------------------- MODULE MCReminders ----------------------------
(* Small instances of Reminders for TLC. *)
EXTENDS Reminders

CONSTANTS u1, u2, i1, i2, d1, d2, r1, r2

\* d1 falls on the first day after the start, d2 on the second.
MCDayOf == [d \in Dates |-> IF d = d1 THEN 1 ELSE 2]
=============================================================================
