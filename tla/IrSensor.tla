------------------------------ MODULE IrSensor ------------------------------
(***************************************************************************)
(* The infrared sensor of code/src/sensors.cpp: pulseinterrupt measures    *)
(* the low pulses of a pin, read_ir takes the last width and starts anew.  *)
(* Time is reduced to the question whether a width is that of one pulse.   *)
(* A handler that runs before the next edge measures right; the camera's   *)
(* handlers can make it late.                                              *)
(***************************************************************************)
EXTENDS Integers

VARIABLES
  level,      \* of the pin
  mode,       \* the edge the interrupt is attached to, or "off"
  pending,    \* an edge waits for the handler
  i,          \* static i of pulseinterrupt
  stamp,      \* its static time: "now" if of the pulse that runs
  pulsewidth, \* 0, or whether it is the width of a pulse
  debt,       \* ghost: disturbances no wrong width has come from
  calm        \* ghost: falling edges since the last disturbance or dropped edge

ir == <<level, mode, pending, i, stamp, pulsewidth, debt, calm>>

Capped(x, max) == IF x > max THEN max ELSE x

Disturbed == debt' = Capped(debt + 1, 2) /\ calm' = 0

\* What a start from power-up leaves; the level is the world's.
Cold(mode2, pending2, i2, stamp2, width2, debt2, calm2) ==
  /\ mode2 = "off" /\ pending2 = 0 /\ i2 = 0 /\ stamp2 = "old"
  /\ width2 = "none" /\ debt2 = 0 /\ calm2 = 0

InitIr == level = 1 /\ Cold(mode, pending, i, stamp, pulsewidth, debt, calm)

CutIr ==
  /\ Cold(mode', pending', i', stamp', pulsewidth', debt', calm')
  /\ UNCHANGED level

Edge ==
  /\ level' = 1 - level
  /\ pending' = IF mode = (IF level = 1 THEN "falling" ELSE "rising") THEN 1
                ELSE pending
  /\ stamp' = IF level = 1 THEN "old" ELSE stamp
  /\ IF pending = 1 THEN Disturbed
     ELSE calm' = Capped(calm + level, 3) /\ UNCHANGED debt
  /\ UNCHANGED <<mode, i, pulsewidth>>

\* Mutant: the end of the pulse is not armed.
PulseInterruptFalls ==
  /\ pending = 1 /\ pending' = 0 /\ i' = 1 - i
  /\ mode' = "falling"
  /\ IF i = 0
     THEN /\ stamp' = IF level = 0 THEN "now" ELSE "old"
          /\ UNCHANGED <<pulsewidth, debt>>
     ELSE /\ pulsewidth' = IF stamp = "now" /\ level = 1 THEN "right" ELSE "wrong"
          /\ debt' = IF pulsewidth' = "wrong" THEN debt - 1 ELSE debt
          /\ UNCHANGED stamp
  /\ UNCHANGED <<level, calm>>

PulseInterrupt ==
  /\ pending = 1 /\ pending' = 0 /\ i' = 1 - i
  /\ IF i = 0
     THEN /\ mode' = "rising"
          /\ stamp' = IF level = 0 THEN "now" ELSE "old"
          /\ UNCHANGED <<pulsewidth, debt>>
     ELSE /\ mode' = "falling"
          /\ pulsewidth' = IF stamp = "now" /\ level = 1 THEN "right" ELSE "wrong"
          /\ debt' = IF pulsewidth' = "wrong" THEN debt - 1 ELSE debt
          /\ UNCHANGED stamp
  /\ UNCHANGED <<level, calm>>

\* attachInterrupt to the falling edge, which drops a pending edge, but leaves the
\* handler's i.
Attach ==
  /\ mode' = "falling" /\ pending' = 0
  /\ IF i = 1 THEN Disturbed
     ELSE calm' = (IF pending = 1 THEN 0 ELSE calm) /\ UNCHANGED debt

InitSensors == Attach /\ UNCHANGED <<level, i, stamp, pulsewidth>>

ReadIr == Attach /\ pulsewidth' = "none" /\ UNCHANGED <<level, i, stamp>>

TypeIr ==
  /\ level \in {0, 1} /\ pending \in {0, 1} /\ i \in {0, 1}
  /\ mode \in {"off", "falling", "rising"} /\ stamp \in {"now", "old"}
  /\ pulsewidth \in {"none", "right", "wrong"}
  /\ debt \in -1 .. 2 /\ calm \in 0 .. 3

\* A wrong width has a cause of its own: read_ir or init_sensors in the middle of a
\* pulse, or a handler that was late.  Each such disturbance spoils one
\* measurement at most, although i is not reset (sensors.cpp 6-44).
OneWrongPerDisturbance == debt >= 0

---------------------------------------------------------------------------
(* What generatestatusmessage makes of a width below 2^31.  The argument   *)
(* of abs is a uint32_t, and the macro leaves it as it is: a difference    *)
(* below 0 is one above 2^31.                                              *)

Near(goal, width, k) == k * goal - width \in 0 .. 149

IrClass(goal, width) ==
  IF \E k \in 1 .. 6 : Near(goal, width, k)
  THEN CHOOSE k \in 1 .. 6 : /\ Near(goal, width, k)
                             /\ \A j \in 1 .. k - 1 : ~Near(goal, width, j)
  ELSE 0

\* The goal value of menu item 14 for a mean width, in a uint16_t.
GoalValue(mean) == (mean - 100) % 65536

=============================================================================
