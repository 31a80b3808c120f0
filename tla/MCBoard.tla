------------------------------- MODULE MCBoard -------------------------------
(***************************************************************************)
(* An instance of Board for TLC: an address of two bytes, the directions   *)
(* of the motors, and the goal value.                                      *)
(***************************************************************************)
EXTENDS Board

MCSettings == {"ip", "dir", "ir"}
MCSetting  == [x \in 1 .. 4 |-> CASE x <= 2 -> "ip" [] x = 3 -> "dir" [] OTHER -> "ir"]
MCBytes    == {"a", "b"}

\* A robot that is calibrated before its goal does not see the goal.
ASSUME GoalAssumption ==
  \A mean \in {350, 1000, 5400, 65635} : IrClass(GoalValue(mean), mean) = 0

=============================================================================
