------------------------------- MODULE Files -------------------------------
(***************************************************************************)
(* What is in a file that has none of the contents a program put there.    *)
(***************************************************************************)
CONSTANTS
  Absent,   \* the file does not exist
  Empty,    \* it has been truncated
  Torn      \* it has been written in part, or by two writers

ASSUME MarksAssumption == Absent # Empty /\ Absent # Torn /\ Empty # Torn
=============================================================================
