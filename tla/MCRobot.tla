------------------------------ MODULE MCRobot ------------------------------
(***************************************************************************)
(* An instance of Robot for TLC: two commands, a configuration that turns  *)
(* a wheel and one that does not; and the arithmetic of motors() for every *)
(* speed the documentation allows.                                         *)
(***************************************************************************)
EXTENDS Robot

Order(x, y, k, v) ==
  [motors |-> [w \in Wheels |-> IF w = 1 THEN x ELSE y], kicker |-> k, kamera |-> v]

MCCommands == {Order(110, 50, 0, 1), Order(-50, 50, 1, 0)}
MCConfigs  == {[dir |-> [w \in Wheels |-> 0], min |-> [w \in Wheels |-> 60]],
               [dir |-> [w \in Wheels |-> 1], min |-> [w \in Wheels |-> 60]]}
MCTests    == {40}

\* Within -125 to 125 a wheel turns the way it is told, at least at its minimal
\* speed, as long as that fits into seven bits.
ASSUME ArithmeticAssumption ==
  \A s \in -125 .. 125, d \in {0, 1, 255}, m \in {0, 1, 60, 127} :
    LET t == WheelSpeed(s, d, m) IN
      /\ (t > 0) = (IF d = 0 THEN s > 0 ELSE s < 0)
      /\ s # 0 => Magnitude(t) >= m

=============================================================================
