------------------------------- MODULE Motors -------------------------------
(***************************************************************************)
(* The arithmetic of motors() in code/src/aktuators.cpp: from a speed in   *)
(* eight bits to the two pins of a wheel's bridge.                         *)
(***************************************************************************)
EXTENDS Integers

Byte == 0 .. 255
Int8 == -128 .. 127
FULL == 128         \* analogWriteResolution(7): a pin that is always on
Duties == 0 .. FULL

\* The conversion to int8_t.
AsInt8(x) == ((x + 128) % 256) - 128

Magnitude(x) == IF x < 0 THEN -x ELSE x

\* A motor that is mounted the other way round; -128 stays what it is.
Turned(speed, dir) == IF dir # 0 THEN AsInt8(-speed) ELSE speed

\* Below its minimal speed a motor would not start.
Raised(speed, min) ==
  IF speed # 0 /\ Magnitude(speed) < min
  THEN AsInt8(IF speed > 0 THEN min ELSE -min)
  ELSE speed

WheelSpeed(speed, dir, min) == Raised(Turned(speed, dir), min)

\* Mutant: the duty is not limited.
DutyUnclipped(x) == (x * 125) \div 100

\* SPEED_PER_RES; from 103 on the pin is always on.
Duty(x) == LET d == (x * 125) \div 100 IN IF d > FULL THEN FULL ELSE d

\* The two writes of a wheel in their order, to the pins [on1, on0] of its bridge.
Drives(p, s)   == IF s > 0 THEN [p EXCEPT !.on1 = Duty(s)]
                           ELSE [p EXCEPT !.on0 = Duty(-s)]
Releases(p, s) == IF s > 0 THEN [p EXCEPT !.on0 = 0] ELSE [p EXCEPT !.on1 = 0]

\* What both leave behind.
Bridge(s) == Releases(Drives([on1 |-> 0, on0 |-> 0], s), s)

=============================================================================
