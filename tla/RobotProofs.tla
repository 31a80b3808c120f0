---------------------------- MODULE RobotProofs ----------------------------
(***************************************************************************)
(* Proofs about Robot, for any commands, configurations and bounds: types, *)
(* and the safety properties of the run "robot"; and the arithmetic of     *)
(* motors() for every speed.                                               *)
(***************************************************************************)
EXTENDS Robot, TLAPS

---------------------------------------------------------------------------
(* Arithmetic.                                                             *)

LEMMA Int8Type == \A x \in Int : AsInt8(x) \in Int8
  BY SMT DEF AsInt8, Int8

LEMMA Int8Same == \A x \in Int8 : AsInt8(x) = x
  BY SMT DEF AsInt8, Int8

LEMMA TurnedType == \A s \in Int8, d \in Byte : Turned(s, d) \in Int8
  BY Int8Type DEF Turned, Int8, Byte

LEMMA RaisedType == \A s \in Int8, m \in Byte : Raised(s, m) \in Int8
  BY Int8Type DEF Raised, Int8, Byte

LEMMA SpeedType == \A s \in Int8, d, m \in Byte : WheelSpeed(s, d, m) \in Int8
  BY TurnedType, RaisedType DEF WheelSpeed

LEMMA DutyType == \A x \in 0 .. 128 : Duty(x) \in Duties
  BY SMT DEF Duty, Duties, FULL

\* A wheel turns the way it is told: within the documented range -125 to 125,
\* for any mounting direction and every minimal speed of seven bits, the sign of
\* the speed is kept or turned, never lost, and the minimal speed is reached
\* (aktuators.cpp 42-53).
THEOREM WheelObeys ==
  \A s \in -125 .. 125, d \in Byte, m \in 0 .. 127 :
    LET t == WheelSpeed(s, d, m) IN
      /\ t > 0 <=> (IF d = 0 THEN s > 0 ELSE s < 0)
      /\ t < 0 <=> (IF d = 0 THEN s < 0 ELSE s > 0)
      /\ s # 0 => Magnitude(t) >= m
<1> SUFFICES ASSUME NEW s \in -125 .. 125, NEW d \in Byte, NEW m \in 0 .. 127
             PROVE  /\ WheelSpeed(s, d, m) > 0
                         <=> (IF d = 0 THEN s > 0 ELSE s < 0)
                    /\ WheelSpeed(s, d, m) < 0
                         <=> (IF d = 0 THEN s < 0 ELSE s > 0)
                    /\ s # 0 => Magnitude(WheelSpeed(s, d, m)) >= m
  OBVIOUS
<1>1. Turned(s, d) = (IF d = 0 THEN s ELSE -s)
  BY Int8Same DEF Turned, Int8
<1>2. /\ AsInt8(m) = m /\ AsInt8(-m) = -m
  BY Int8Same DEF Int8
<1> DEFINE t == Turned(s, d)
<1>3. t \in Int
  BY <1>1
<1>4. WheelSpeed(s, d, m) = IF t # 0 /\ Magnitude(t) < m
                            THEN (IF t > 0 THEN m ELSE -m) ELSE t
  BY <1>2, <1>3 DEF WheelSpeed, Raised
<1> QED
  BY <1>1, <1>3, <1>4 DEF Magnitude

\* The pins of one wheel.
Bridges == [on1 : Duties, on0 : Duties]
OneOn(p) == p.on1 = 0 \/ p.on0 = 0

LEMMA WriteTypes ==
  ASSUME NEW p \in Bridges, NEW s \in Int8
  PROVE  Drives(p, s) \in Bridges /\ Releases(p, s) \in Bridges
<1>1. CASE s > 0
  <2>1. Duty(s) \in Duties
    BY <1>1, DutyType DEF Int8
  <2> QED
    BY <1>1, <2>1 DEF Drives, Releases, Bridges, Duties, FULL
<1>2. CASE ~(s > 0)
  <2>1. Duty(-s) \in Duties
    BY <1>2, DutyType DEF Int8
  <2> QED
    BY <1>2, <2>1 DEF Drives, Releases, Bridges, Duties, FULL
<1> QED
  BY <1>1, <1>2

LEMMA ZeroBridge == [on1 |-> 0, on0 |-> 0] \in Bridges
  BY DEF Bridges, Duties, FULL

LEMMA BridgeType == \A s \in Int8 : Bridge(s) \in Bridges
  BY WriteTypes, ZeroBridge DEF Bridge

LEMMA ReleaseEnds ==
  ASSUME NEW p \in Bridges, NEW s \in Int8
  PROVE  OneOn(Releases(p, s))
  BY DEF OneOn, Releases, Bridges

LEMMA BridgeOneOn == \A s \in Int8 : OneOn(Bridge(s))
  BY ReleaseEnds, WriteTypes, ZeroBridge DEF Bridge

\* The first of the two writes is done.
Driven(p, s) == IF s > 0 THEN p.on1 = Duty(s) ELSE p.on0 = Duty(-s)

LEMMA WritesMakeBridge ==
  ASSUME NEW p \in Bridges, NEW s \in Int8
  PROVE  /\ Driven(Drives(p, s), s)
         /\ Driven(p, s) => Releases(p, s) = Bridge(s)
  BY DEF Driven, Releases, Drives, Bridge, Bridges

---------------------------------------------------------------------------
(* The invariant.                                                          *)

Window == {"compare", "store", "copy"}

\* Where the main program can be inside config() and outside, and where the calls
\* it is in return to.
Place ==
  /\ pc \in Window \cup {"top", "yield", "setdirection", "poll", "work"} => menu = 0
  /\ pc \in {"menu", "test", "measure", "measured"} => menu = 1
  /\ pc = "motors" => /\ back \in {"fire", "reset", "test", "measure", "measured"}
                      /\ back \in {"test", "measure", "measured"} => menu = 1
  /\ pc = "radio" => /\ back \in {"setup", "work", "menu", "yield"}
                     /\ back \in {"work", "yield"} => menu = 0
                     /\ back = "menu" => menu = 1

\* The commands the callbacks run for are the operator's.
Callbacks ==
  /\ frame # NoFrame => frame \in Orders
  /\ isr \in {"kick", "switch"} => icmd \in Orders
  /\ pc \in Window => held \in Orders
  /\ pc = "kick" \/ pc = "fire" \/ (pc = "motors" /\ back = "fire")
       => IF menu = 0 THEN held \in Orders ELSE held.kicker = 1

\* Both pins of a wheel are on between its two writes only.
Bridged ==
  \A w \in Wheels : OneOn(pins[w]) \/ (step \in {2, 4} /\ w = WheelOf(step))

\* How much of the newest call has reached the wheels, if nobody overtook it.
Driving ==
  overtaken = 0 =>
    /\ step = 0 => \A w \in Wheels : pins[w] = Bridge(asked[w])
    /\ step > 0 => asked = speed
    /\ step = 2 => Driven(pins[1], speed[1])
    /\ step \in {3, 4} => pins[1] = Bridge(speed[1])
    /\ step = 4 => Driven(pins[2], speed[2])

\* activate_camera, with one command of the handler in its middle at most.
Switching ==
  crossed < 2 =>
    /\ pc # "copy" => camerastate = tmp
    /\ pc = "store" /\ crossed = 0 => tmp # held.kamera
    /\ pc = "copy" => camerastate = held.kamera
    /\ pc = "copy" /\ crossed = 0 => tmp # held.kamera

Applied == dir = Direction(c.dir) /\ minspeed = c.min

\* The configuration is applied wherever the main program runs in MAINLOOP, WIFIINIT
\* or errormessage, although robot_state may say USBCONFIG already.
Applying ==
  menu = 0 =>
    /\ pc \notin {"top", "yield", "setdirection"} => Applied
    /\ robot_state \in {"SENSORINIT", "KAMERAINIT", "WIFIINIT", "MAINLOOP", "ERROR"}
         => Applied

IInv == /\ TypeOK /\ Place /\ Callbacks /\ Bridged /\ Driving /\ Switching
        /\ Applying

---------------------------------------------------------------------------
(* Every step preserves every part.                                        *)

LEMMA FrameSpeeds ==
  ASSUME TypeOK, Callbacks, frame # NoFrame
  PROVE  Speeds(frame.motors) \in [Wheels -> Int8]
<1>1. frame.motors \in [Wheels -> Int8]
  BY DEF Callbacks, Orders
<1>2. \A w \in Wheels : WheelSpeed(frame.motors[w], dir[w], minspeed[w]) \in Int8
  BY <1>1, SpeedType DEF TypeOK
<1> QED
  BY <1>2 DEF Speeds

\* A write of motors(), and the return from the last.
LEMMA MotorsWriteSteps ==
  ASSUME MotorsWrite, step \in 0 .. 4, step > 0 <=> pc = "motors"
  PROVE  /\ pc = "motors" /\ step \in 1 .. 4
         /\ \/ /\ step < 4 /\ step' = step + 1
               /\ pc' = pc /\ back' = back /\ speed' = speed
            \/ step = 4 /\ step' = 0 /\ pc' = back /\ back' = "none" /\ speed' = Stand
         /\ UNCHANGED <<robot_state, input, menu, ops, sent, held, attached, edge, isr,
                        icmd, frame, burst, link, dir, minspeed, c, asked, overtaken,
                        kickpin, camerastate, tmp, crossed>>
<1>1. /\ pc = "motors"
      /\ IF step < 4
         THEN step' = step + 1 /\ UNCHANGED <<pc, back, speed>>
         ELSE step' = 0 /\ speed' = Stand /\ pc' = back /\ back' = "none"
  BY DEF MotorsWrite
<1>2. UNCHANGED <<robot_state, input, menu, ops, sent, held, attached, edge, isr,
                  icmd, frame, burst, link, dir, minspeed, c, asked, overtaken,
                  kickpin, camerastate, tmp, crossed>>
  BY DEF MotorsWrite, irq, radio, conf, cam
<1>3. CASE step < 4
  BY <1>1, <1>2, <1>3
<1>4. CASE ~(step < 4)
  <2>1. step = 4
    BY <1>4
  <2> QED
    BY <1>1, <1>2, <2>1
<1> QED
  BY <1>3, <1>4

LEMMA KickBeginsSteps ==
  ASSUME KickBegins
  PROVE  /\ pc = "fire"
         /\ \/ held.kicker = 1 /\ pc' = "kick" /\ kickpin' = 1
            \/ held.kicker # 1 /\ pc' = "compare" /\ kickpin' = kickpin
         /\ UNCHANGED <<back, menu, held, isr, icmd, frame>>
  BY DEF KickBegins, call, irq, radio

LEMMA MenuTestsSteps ==
  ASSUME MenuTests
  PROVE  /\ pc \in {"menu", "test"} /\ pc' = "motors" /\ step' = 1
         /\ asked' = speed' /\ overtaken' = 0
         /\ \/ /\ back' = "test" /\ held' = held
               /\ \E x, y \in Tests :
                    speed' = Speeds([w \in Wheels |-> IF w = 1 THEN x ELSE y])
            \/ /\ back' = "fire" /\ held' = [NoFrame EXCEPT !.kicker = 1]
               /\ speed' = Speeds(Stand)
         /\ input' = 0 /\ burst' = 0
         /\ UNCHANGED <<robot_state, menu, ops, sent, irq, frame, link, conf, pins,
                        kickpin, cam>>
  BY DEF MenuTests, Calls

LEMMA MenuMeasuresSteps ==
  ASSUME MenuMeasures
  PROVE  /\ pc \in {"menu", "measure", "measured"}
         /\ \/ pc' \in {"menu", "measure"} /\ UNCHANGED <<back, step, speed, asked,
                                                         overtaken>>
            \/ /\ pc' = "motors" /\ back' \in {"measure", "measured"} /\ step' = 1
               /\ asked' = speed' /\ overtaken' = 0
               /\ \/ speed' = Speeds(Stand)
                  \/ \E x \in Tests, v \in Wheels :
                       speed' = Speeds([w \in Wheels |-> IF w = v THEN x ELSE 0])
         /\ input' = 0 /\ burst' = 0
         /\ UNCHANGED <<robot_state, menu, ops, sent, held, irq, frame, link, dir, pins,
                        kickpin, cam>>
<1>1. \/ pc = "menu" /\ pc' = "measure" /\ UNCHANGED <<back, step, speed, asked, overtaken>>
      \/ pc = "measure" /\ \E x \in Tests, v \in Wheels :
           Calls([w \in Wheels |-> IF w = v THEN x ELSE 0], "measure")
      \/ pc = "measure" /\ Calls(Stand, "measured")
      \/ pc = "measured" /\ pc' \in {"measure", "menu"}
           /\ UNCHANGED <<back, step, speed, asked, overtaken>>
  BY DEF MenuMeasures
<1>2. /\ input' = 0 /\ burst' = 0
      /\ UNCHANGED <<robot_state, menu, ops, sent, held, irq, frame, link, dir, pins,
                     kickpin, cam>>
  BY DEF MenuMeasures
<1> QED
  BY <1>1, <1>2 DEF Calls

\* Where the main program is.
LEMMA PlaceStep ==
  ASSUME TypeOK, Place, Callbacks, [Next]_vars
  PROVE  Place'
<1> USE DEF TypeOK, Place, Window, flow, call, irq, radio, conf, wheel, cam, Main,
            Bit
<1>1. CASE MotorsWrite
  BY <1>1, MotorsWriteSteps
<1>2. CASE KickBegins
  BY <1>2, KickBeginsSteps DEF Callbacks
<1>3. CASE KickEnds
  BY <1>3 DEF KickEnds
<1>4. CASE Compares
  BY <1>4 DEF Compares
<1>5. CASE RadioEnds
  BY <1>5 DEF RadioEnds
<1>6. CASE KeyPressed \/ LinkChanges \/ Arrives \/ SerialEvent \/ AttnBegins \/
     AttnObeys \/ AttnKicked \/ AttnSwitches
  BY <1>6 DEF KeyPressed, LinkChanges, Arrives, SerialEvent, MayConfigure,
       Delaying, AttnBegins, AttnObeys, MotorsAtOnce, AttnKicked, AttnSwitches,
       SwitchAtOnce
<1>7. CASE AttnEnds \/ Stores \/ RadioObeys \/ Resets \/ Yield \/ Advances \/
     MotorInit \/ MotorsReady
  BY <1>7 DEF AttnEnds, Stores, RadioObeys, MotorsAtOnce, SwitchAtOnce, Resets,
       Detaches, Home, Yield, MayConfigure, Advances, NextState, MotorInit,
       MotorsReady
<1>8. CASE WifiInit \/ Operates \/ SetupDone \/ MainLoop \/ PollObeys \/
     PollEnds \/ WorkDone \/ Fails
  BY <1>8 DEF WifiInit, Operates, Detaches, SetupDone, Home, MainLoop,
       PollObeys, Calls, PollEnds, WorkDone, Fails, ErrorMessage
<1>9. CASE MenuOpens \/ MenuExits \/ MenuRadio \/ MenuTests \/ MenuMeasures
  BY <1>9 DEF MenuOpens, MenuExits, MenuCloses, MenuRadio, Detaches, MenuTests,
       Calls, MenuMeasures
<1>10. CASE UNCHANGED vars
  BY <1>10 DEF vars
<1> QED
  BY <1>1, <1>2, <1>3, <1>4, <1>5, <1>6, <1>7, <1>8, <1>9, <1>10 DEF Next,
       World, Attn, Callee, Loop, Menu

\* The callbacks' commands.
LEMMA CallbacksStep ==
  ASSUME TypeOK, Place, Callbacks, [Next]_vars
  PROVE  Callbacks'
<1> USE DEF TypeOK, Place, Callbacks, Window, Orders, NoFrame, flow, call, irq,
            radio, conf, wheel, cam, Main, Bit
<1>1. CASE Arrives
  BY <1>1, OrdersAssumption DEF Arrives
<1>2. CASE AttnObeys
  BY <1>2 DEF AttnObeys, MotorsAtOnce
<1>3. CASE AttnKicked
  BY <1>3 DEF AttnKicked
<1>4. CASE AttnSwitches
  BY <1>4 DEF AttnSwitches, SwitchAtOnce
<1>5. CASE MotorsWrite
  BY <1>5, MotorsWriteSteps
<1>6. CASE KickBegins
  BY <1>6, KickBeginsSteps
<1>7. CASE KickEnds
  BY <1>7 DEF KickEnds
<1>8. CASE Compares
  BY <1>8 DEF Compares
<1>9. CASE PollObeys
  BY <1>9 DEF PollObeys, Calls
<1>10. CASE PollEnds
  BY <1>10 DEF PollEnds
<1>11. CASE MenuTests
  BY <1>11, MenuTestsSteps
<1>12. CASE KeyPressed \/ LinkChanges \/ SerialEvent \/ AttnBegins \/ AttnEnds
     \/ Stores \/ RadioObeys \/ RadioEnds
  BY <1>12 DEF KeyPressed, LinkChanges, SerialEvent, MayConfigure, Delaying,
       AttnBegins, AttnEnds, Stores, RadioObeys, MotorsAtOnce, SwitchAtOnce,
       RadioEnds
<1>13. CASE Resets \/ Yield \/ Advances \/ MotorInit \/ MotorsReady \/ WifiInit
     \/ Operates \/ SetupDone
  BY <1>13 DEF Resets, Detaches, Home, Yield, MayConfigure, Advances, NextState,
       MotorInit, MotorsReady, WifiInit, Operates, SetupDone
<1>14. CASE MainLoop \/ WorkDone \/ Fails \/ MenuOpens \/ MenuExits \/ MenuRadio
     \/ MenuMeasures
  BY <1>14 DEF MainLoop, WorkDone, Fails, ErrorMessage, Calls, MenuOpens,
       MenuExits, MenuCloses, MenuRadio, Detaches, MenuMeasures
<1>15. CASE UNCHANGED vars
  BY <1>15 DEF vars
<1> QED
  BY <1>1, <1>2, <1>3, <1>4, <1>5, <1>6, <1>7, <1>8, <1>9, <1>10, <1>11, <1>12,
       <1>13, <1>14, <1>15 DEF Next, World, Attn, Callee, Loop, Menu

\* The bridges.
LEMMA BridgedStep ==
  ASSUME TypeOK, Bridged, Callbacks, [Next]_vars
  PROVE  Bridged'
<1> USE DEF TypeOK, Bridged, flow, call, irq, radio, conf, wheel, cam, Main, Bit
<1>1. CASE AttnObeys
  <2>1. pins' = [w \in Wheels |-> Bridge(Speeds(frame.motors)[w])]
    BY <1>1 DEF AttnObeys, RadioObeys, MotorsAtOnce
  <2>2. \A w \in Wheels : Bridge(Speeds(frame.motors)[w]) \in Bridges
                          /\ OneOn(Bridge(Speeds(frame.motors)[w]))
    BY <1>1, FrameSpeeds, BridgeOneOn, BridgeType DEF AttnObeys, RadioObeys
  <2> QED
    BY <2>1, <2>2
<1>2. CASE MotorsWrite
  <2> DEFINE w == WheelOf(step)
  <2>1. /\ step \in 1 .. 4 /\ w \in Wheels
        /\ pins' = [pins EXCEPT ![w] = Write(pins[w], speed[w], step)]
        /\ step' = (IF step < 4 THEN step + 1 ELSE 0)
    BY <1>2 DEF MotorsWrite, WheelOf, Wheels
  <2>2. pins[w] \in Bridges /\ speed[w] \in Int8
    BY <2>1 DEF Bridges
  <2>3. \A v \in Wheels : v # w => pins'[v] = pins[v]
    BY <2>1
  <2>4. pins'[w] = Write(pins[w], speed[w], step)
    BY <2>1
  <2>5. CASE step \in {1, 3}
    <3>1. step' \in {2, 4} /\ WheelOf(step') = w
      BY <2>1, <2>5 DEF WheelOf
    <3> QED
      BY <2>1, <2>3, <2>5, <3>1
  <2>6. CASE step \in {2, 4}
    <3>1. OneOn(pins'[w])
      BY <2>2, <2>4, <2>6, ReleaseEnds DEF Write
    <3>2. \A v \in Wheels : v # w => OneOn(pins'[v])
      BY <2>3
    <3> QED
      BY <3>1, <3>2
  <2> QED
    BY <2>1, <2>5, <2>6
<1>3. CASE RadioObeys
  <2>1. pins' = [w \in Wheels |-> Bridge(Speeds(frame.motors)[w])]
    BY <1>3 DEF AttnObeys, RadioObeys, MotorsAtOnce
  <2>2. \A w \in Wheels : Bridge(Speeds(frame.motors)[w]) \in Bridges
                          /\ OneOn(Bridge(Speeds(frame.motors)[w]))
    BY <1>3, FrameSpeeds, BridgeOneOn, BridgeType DEF AttnObeys, RadioObeys
  <2> QED
    BY <2>1, <2>2
<1>4. CASE KeyPressed \/ LinkChanges \/ Arrives \/ SerialEvent \/ AttnBegins \/
     AttnKicked \/ AttnSwitches \/ AttnEnds
  BY <1>4 DEF KeyPressed, LinkChanges, Arrives, SerialEvent, MayConfigure,
       Delaying, AttnBegins, AttnKicked, AttnSwitches, SwitchAtOnce, AttnEnds
<1>5. CASE KickBegins \/ KickEnds \/ Compares \/ Stores \/ RadioEnds \/ Resets
     \/ Yield \/ Advances
  BY <1>5 DEF KickBegins, KickEnds, Compares, Stores, RadioEnds, Resets,
       Detaches, Home, Yield, MayConfigure, Advances, NextState
<1>6. CASE MotorInit \/ MotorsReady \/ WifiInit \/ Operates \/ SetupDone \/
     MainLoop \/ PollObeys \/ PollEnds
  BY <1>6 DEF MotorInit, MotorsReady, WifiInit, Operates, Detaches, SetupDone,
       Home, MainLoop, PollObeys, Calls, PollEnds
<1>7. CASE WorkDone \/ Fails \/ MenuOpens \/ MenuExits \/ MenuRadio \/ MenuTests
     \/ MenuMeasures
  BY <1>7 DEF WorkDone, Fails, ErrorMessage, Calls, MenuOpens, MenuExits,
       MenuCloses, MenuRadio, Detaches, MenuTests, MenuMeasures
<1>8. CASE UNCHANGED vars
  BY <1>8 DEF vars
<1> QED
  BY <1>1, <1>2, <1>3, <1>4, <1>5, <1>6, <1>7, <1>8 DEF Next, World, Attn,
       Callee, Loop, Menu

\* The newest call.
LEMMA DrivingStep ==
  ASSUME TypeOK, Callbacks, Driving, [Next]_vars
  PROVE  Driving'
<1> USE DEF TypeOK, Driving, flow, call, irq, radio, conf, wheel, cam, Main, Bit
<1>1. CASE AttnObeys
  <2>1. /\ pins' = [w \in Wheels |-> Bridge(Speeds(frame.motors)[w])]
        /\ asked' = Speeds(frame.motors) /\ UNCHANGED step
        /\ overtaken' = IF step > 0 THEN 1 ELSE 0
    BY <1>1 DEF AttnObeys, RadioObeys, MotorsAtOnce
  <2> QED
    BY <2>1
<1>2. CASE MotorsWrite
  <2> SUFFICES ASSUME overtaken = 0
               PROVE  Driving'
    BY <1>2 DEF MotorsWrite
  <2> DEFINE w == WheelOf(step)
  <2>1. /\ step \in 1 .. 4 /\ w \in Wheels
        /\ pins' = [pins EXCEPT ![w] = Write(pins[w], speed[w], step)]
        /\ step' = (IF step < 4 THEN step + 1 ELSE 0)
        /\ step < 4 => speed' = speed
        /\ asked' = asked /\ asked = speed
    BY <1>2 DEF MotorsWrite, WheelOf, Wheels
  <2>2. pins[w] \in Bridges /\ speed[w] \in Int8
    BY <2>1 DEF Bridges
  <2>3. pins'[w] = Write(pins[w], speed[w], step)
    BY <2>1
  <2>4. \A v \in Wheels : v # w => pins'[v] = pins[v]
    BY <2>1
  <2>5. CASE step = 1
    BY <2>1, <2>2, <2>3, <2>5, WritesMakeBridge DEF Write, WheelOf
  <2>6. CASE step = 2
    BY <2>1, <2>2, <2>3, <2>6, WritesMakeBridge DEF Write, WheelOf
  <2>7. CASE step = 3
    <3>1. w = 2 /\ pins'[1] = pins[1]
      BY <2>4, <2>7 DEF WheelOf, Wheels
    <3> QED
      BY <2>1, <2>2, <2>3, <2>7, <3>1, WritesMakeBridge DEF Write
  <2>8. CASE step = 4
    <3>1. w = 2 /\ pins'[1] = pins[1]
      BY <2>4, <2>8 DEF WheelOf, Wheels
    <3>2. pins'[2] = Bridge(speed[2])
      BY <2>2, <2>3, <2>8, <3>1, WritesMakeBridge DEF Write
    <3>3. \A v \in Wheels : pins'[v] = Bridge(asked'[v])
      BY <2>1, <2>8, <3>1, <3>2 DEF Wheels
    <3> QED
      BY <2>1, <2>8, <3>3
  <2> QED
    BY <2>1, <2>5, <2>6, <2>7, <2>8
<1>3. CASE RadioObeys
  <2>1. /\ pins' = [w \in Wheels |-> Bridge(Speeds(frame.motors)[w])]
        /\ asked' = Speeds(frame.motors) /\ UNCHANGED step
        /\ overtaken' = IF step > 0 THEN 1 ELSE 0
    BY <1>3 DEF AttnObeys, RadioObeys, MotorsAtOnce
  <2> QED
    BY <2>1
<1>4. CASE PollObeys
  <2>1. step' = 1 /\ asked' = speed'
    BY <1>4 DEF PollObeys, Fails, ErrorMessage, MenuTests, Calls
  <2> QED
    BY <2>1
<1>5. CASE Fails
  <2>1. step' = 1 /\ asked' = speed'
    BY <1>5 DEF PollObeys, Fails, ErrorMessage, MenuTests, Calls
  <2> QED
    BY <2>1
<1>6. CASE MenuTests
  <2>1. step' = 1 /\ asked' = speed'
    BY <1>6 DEF PollObeys, Fails, ErrorMessage, MenuTests, Calls
  <2> QED
    BY <2>1
<1>7. CASE MenuMeasures
  <2>1. (step' = 1 /\ asked' = speed')
          \/ UNCHANGED <<step, speed, asked, overtaken>>
    BY <1>7, MenuMeasuresSteps
  <2>2. UNCHANGED pins
    BY <1>7 DEF MenuMeasures
  <2> QED
    BY <2>1, <2>2
<1>8. CASE KeyPressed \/ LinkChanges \/ Arrives \/ SerialEvent \/ AttnBegins \/
     AttnKicked \/ AttnSwitches \/ AttnEnds
  BY <1>8 DEF KeyPressed, LinkChanges, Arrives, SerialEvent, MayConfigure,
       Delaying, AttnBegins, AttnKicked, AttnSwitches, SwitchAtOnce, AttnEnds
<1>9. CASE KickBegins \/ KickEnds \/ Compares \/ Stores \/ RadioEnds \/ Resets
     \/ Yield \/ Advances
  BY <1>9 DEF KickBegins, KickEnds, Compares, Stores, RadioEnds, Resets,
       Detaches, Home, Yield, MayConfigure, Advances, NextState
<1>10. CASE MotorInit \/ MotorsReady \/ WifiInit \/ Operates \/ SetupDone \/
     MainLoop \/ PollEnds \/ WorkDone
  BY <1>10 DEF MotorInit, MotorsReady, WifiInit, Operates, Detaches, SetupDone,
       Home, MainLoop, PollEnds, WorkDone
<1>11. CASE MenuOpens \/ MenuExits \/ MenuRadio
  BY <1>11 DEF MenuOpens, MenuExits, MenuCloses, MenuRadio, Detaches
<1>12. CASE UNCHANGED vars
  BY <1>12 DEF vars
<1> QED
  BY <1>1, <1>2, <1>3, <1>4, <1>5, <1>6, <1>7, <1>8, <1>9, <1>10, <1>11, <1>12
       DEF Next, World, Attn, Callee, Loop, Menu

\* The camera flag.
LEMMA SwitchingStep ==
  ASSUME TypeOK, Callbacks, Switching, [Next]_vars
  PROVE  Switching'
<1> USE DEF TypeOK, Callbacks, Switching, Window, Orders, flow, call, irq,
     radio, conf, wheel, cam, Main, Bit
<1>1. CASE AttnSwitches
  BY <1>1 DEF AttnSwitches, SwitchAtOnce
<1>2. CASE Compares
  BY <1>2 DEF Compares
<1>3. CASE Stores
  BY <1>3 DEF Stores
<1>4. CASE RadioObeys
  BY <1>4 DEF RadioObeys, MotorsAtOnce, SwitchAtOnce
<1>5. CASE PollEnds
  BY <1>5 DEF PollEnds
<1>6. CASE KeyPressed \/ LinkChanges \/ Arrives \/ SerialEvent \/ AttnBegins \/
     AttnObeys \/ AttnKicked \/ AttnEnds
  BY <1>6 DEF KeyPressed, LinkChanges, Arrives, SerialEvent, MayConfigure,
       Delaying, AttnBegins, AttnObeys, MotorsAtOnce, AttnKicked, AttnEnds
<1>7. CASE MotorsWrite \/ KickBegins \/ KickEnds \/ RadioEnds \/ Resets \/ Yield
     \/ Advances \/ MotorInit
  BY <1>7 DEF MotorsWrite, Write, WheelOf, KickBegins, KickEnds, RadioEnds,
       Resets, Detaches, Home, Yield, MayConfigure, Advances, NextState,
       MotorInit
<1>8. CASE MotorsReady \/ WifiInit \/ Operates \/ SetupDone \/ MainLoop \/
     PollObeys \/ WorkDone \/ Fails
  BY <1>8 DEF MotorsReady, WifiInit, Operates, Detaches, SetupDone, Home,
       MainLoop, PollObeys, Calls, WorkDone, Fails, ErrorMessage
<1>9. CASE MenuOpens \/ MenuExits \/ MenuRadio \/ MenuTests \/ MenuMeasures
  BY <1>9 DEF MenuOpens, MenuExits, MenuCloses, MenuRadio, Detaches, MenuTests,
       Calls, MenuMeasures
<1>10. CASE UNCHANGED vars
  BY <1>10 DEF vars
<1> QED
  BY <1>1, <1>2, <1>3, <1>4, <1>5, <1>6, <1>7, <1>8, <1>9, <1>10 DEF Next,
       World, Attn, Callee, Loop, Menu

\* The configuration.
LEMMA ApplyingStep ==
  ASSUME TypeOK, Place, Applying, [Next]_vars
  PROVE  Applying'
<1> USE DEF TypeOK, Place, Applying, Applied, Window, flow, call, irq, radio,
     conf, wheel, cam, Main, Bit
<1>1. CASE SerialEvent
  BY <1>1 DEF SerialEvent, MayConfigure, Delaying
<1>2. CASE Yield
  BY <1>2 DEF Yield, MayConfigure
<1>3. CASE Advances
  BY <1>3 DEF Advances, NextState
<1>4. CASE MotorInit
  BY <1>4 DEF MotorInit
<1>5. CASE MotorsReady
  BY <1>5 DEF MotorsReady
<1>6. CASE SetupDone
  BY <1>6 DEF SetupDone, Home
<1>7. CASE MenuOpens
  BY <1>7 DEF MenuOpens
<1>8. CASE MenuExits
  BY <1>8 DEF MenuExits, MenuCloses
<1>9. CASE MenuMeasures
  BY <1>9 DEF MenuMeasures, Calls
<1>10. CASE KeyPressed \/ LinkChanges \/ Arrives \/ AttnBegins \/ AttnObeys \/
     AttnKicked \/ AttnSwitches \/ AttnEnds
  BY <1>10 DEF KeyPressed, LinkChanges, Arrives, AttnBegins, AttnObeys,
       MotorsAtOnce, AttnKicked, AttnSwitches, SwitchAtOnce, AttnEnds
<1>11. CASE MotorsWrite \/ KickBegins \/ KickEnds \/ Compares \/ Stores \/
     RadioObeys \/ RadioEnds \/ Resets
  BY <1>11 DEF MotorsWrite, Write, WheelOf, KickBegins, KickEnds, Compares,
       Stores, RadioObeys, MotorsAtOnce, SwitchAtOnce, RadioEnds, Resets,
       Detaches, Home
<1>12. CASE WifiInit \/ Operates \/ MainLoop \/ PollObeys \/ PollEnds \/
     WorkDone \/ Fails \/ MenuRadio
  BY <1>12 DEF WifiInit, Operates, Detaches, MainLoop, PollObeys, Calls,
       PollEnds, WorkDone, Fails, ErrorMessage, MenuRadio
<1>13. CASE MenuTests
  BY <1>13, MenuTestsSteps
<1>14. CASE UNCHANGED vars
  BY <1>14 DEF vars
<1> QED
  BY <1>1, <1>2, <1>3, <1>4, <1>5, <1>6, <1>7, <1>8, <1>9, <1>10, <1>11, <1>12,
       <1>13, <1>14 DEF Next, World, Attn, Callee, Loop, Menu

\* The types in two parts: control, and what it works on.
TypeFlow ==
  /\ robot_state \in {"PREINIT", "MOTORINIT", "SENSORINIT", "KAMERAINIT", "WIFIINIT",
                      "MAINLOOP", "ERROR", "USBCONFIG"}
  /\ pc \in {"top", "yield", "setdirection", "setup", "radio", "poll", "motors",
             "fire", "kick", "compare", "store", "copy", "work", "reset", "menu",
             "test", "measure", "measured"}
  /\ back \in {"none", "fire", "reset", "test", "measure", "measured", "setup", "work",
               "menu", "yield"}
  /\ input \in Bit /\ menu \in Bit /\ sent \in Bit /\ attached \in Bit /\ edge \in Bit
  /\ link \in Bit /\ kickpin \in Bit
  /\ ops \in 0 .. OPS /\ burst \in 0 .. BURST
  /\ step \in 0 .. 4 /\ (step > 0 <=> pc = "motors")
  /\ isr \in {"idle", "read", "kick", "switch"}

TypeWork ==
  /\ camerastate \in Bit /\ tmp \in Bit /\ overtaken \in Bit /\ crossed \in 0 .. 2
  /\ speed \in [Wheels -> Int8] /\ asked \in [Wheels -> Int8]
  /\ held \in Orders \cup {NoFrame, [NoFrame EXCEPT !.kicker = 1]}
  /\ icmd \in Orders \cup {NoFrame, [NoFrame EXCEPT !.kicker = 1]}
  /\ frame \in Orders \cup {NoFrame, [NoFrame EXCEPT !.kicker = 1]}
  /\ pins \in [Wheels -> [on1 : Duties, on0 : Duties]]
  /\ dir \in [Wheels -> Byte] /\ minspeed \in [Wheels -> Byte] /\ c \in Setups

LEMMA TypeParts == TypeOK <=> TypeFlow /\ TypeWork
  BY DEF TypeOK, TypeFlow, TypeWork

LEMMA SpeedsType ==
  ASSUME TypeOK, NEW m \in [Wheels -> Int8]
  PROVE  Speeds(m) \in [Wheels -> Int8]
<1>1. \A w \in Wheels : WheelSpeed(m[w], dir[w], minspeed[w]) \in Int8
  BY SpeedType DEF TypeOK
<1> QED
  BY <1>1 DEF Speeds

LEMMA StandType == Stand \in [Wheels -> Int8] /\ Stand \in [Wheels -> Byte]
  BY DEF Stand, Int8, Byte

LEMMA DirectionType ==
  \A d \in [Wheels -> Byte] : Direction(d) \in [Wheels -> Byte]
  BY SMT DEF Direction, Byte, Wheels

\* Control.
LEMMA TypeFlowStep ==
  ASSUME TypeFlow, Place, [Next]_vars
  PROVE  TypeFlow'
<1> USE BoundAssumption DEF TypeFlow, flow, call, irq, radio, conf, wheel, cam, Main, Bit
<1>1. CASE Arrives
  BY <1>1 DEF Arrives
<1>2. CASE SerialEvent
  BY <1>2 DEF SerialEvent, MayConfigure, Delaying
<1>3. CASE MotorsWrite
  BY <1>3, MotorsWriteSteps DEF Place
<1>4. CASE RadioEnds
  BY <1>4 DEF RadioEnds, Place
<1>5. CASE Yield
  BY <1>5 DEF Yield, MayConfigure
<1>6. CASE Advances
  BY <1>6 DEF Advances, NextState
<1>7. CASE Operates
  BY <1>7 DEF Operates, Detaches
<1>8. CASE SetupDone
  BY <1>8 DEF SetupDone, Home
<1>9. CASE PollObeys
  BY <1>9 DEF PollObeys, Calls
<1>10. CASE Fails
  BY <1>10 DEF Fails, ErrorMessage, Calls
<1>11. CASE MenuExits
  BY <1>11 DEF MenuExits, MenuCloses
<1>12. CASE MenuRadio
  BY <1>12 DEF MenuRadio, Detaches
<1>13. CASE MenuTests
  BY <1>13, MenuTestsSteps
<1>14. CASE MenuMeasures
  BY <1>14, MenuMeasuresSteps
<1>15. CASE KeyPressed \/ LinkChanges \/ AttnBegins \/ AttnObeys \/ AttnKicked
     \/ AttnSwitches \/ AttnEnds \/ KickBegins
  BY <1>15 DEF KeyPressed, LinkChanges, AttnBegins, AttnObeys, MotorsAtOnce,
       AttnKicked, AttnSwitches, SwitchAtOnce, AttnEnds, KickBegins
<1>16. CASE KickEnds \/ Compares \/ Stores \/ RadioObeys \/ Resets \/ MotorInit
     \/ MotorsReady \/ WifiInit
  BY <1>16 DEF KickEnds, Compares, Stores, RadioObeys, MotorsAtOnce,
       SwitchAtOnce, Resets, Detaches, Home, MotorInit, MotorsReady, WifiInit
<1>17. CASE MainLoop \/ PollEnds \/ WorkDone \/ MenuOpens
  BY <1>17 DEF MainLoop, PollEnds, WorkDone, MenuOpens
<1>18. CASE UNCHANGED vars
  BY <1>18 DEF vars
<1> QED
  BY <1>1, <1>2, <1>3, <1>4, <1>5, <1>6, <1>7, <1>8, <1>9, <1>10, <1>11, <1>12,
       <1>13, <1>14, <1>15, <1>16, <1>17, <1>18 DEF Next, World, Attn, Callee,
       Loop, Menu

\* What it works on.
LEMMA TypeWorkStep ==
  ASSUME TypeFlow, TypeWork, Place, Callbacks, [Next]_vars
  PROVE  TypeWork'
<1> USE DEF TypeWork, flow, call, irq, radio, conf, wheel, cam, Main, Bit
<1>1. CASE Arrives
  BY <1>1, OrdersAssumption DEF Arrives
<1>2. CASE AttnObeys
  <2>1. /\ Speeds(frame.motors) \in [Wheels -> Int8] /\ frame \in Orders
    BY <1>2, FrameSpeeds, TypeParts DEF AttnObeys, RadioObeys, Callbacks
  <2>2. [w \in Wheels |-> Bridge(Speeds(frame.motors)[w])] \in [Wheels -> Bridges]
    BY <2>1, BridgeType
  <2> QED
    BY <1>2, <2>1, <2>2 DEF AttnObeys, RadioObeys, MotorsAtOnce, SwitchAtOnce, Orders,
       Bridges, NoFrame
<1>3. CASE AttnSwitches
  BY <1>3 DEF AttnSwitches, SwitchAtOnce, Callbacks, Orders, TypeFlow
<1>4. CASE MotorsWrite
  <2> DEFINE w == WheelOf(step)
  <2>1. /\ w \in Wheels
        /\ pins' = [pins EXCEPT ![w] = Write(pins[w], speed[w], step)]
    BY <1>4 DEF MotorsWrite, WheelOf, Wheels
  <2>2. Write(pins[w], speed[w], step) \in Bridges
    BY <2>1, WriteTypes DEF Write, Bridges
  <2>3. pins' \in [Wheels -> Bridges]
    BY <2>1, <2>2 DEF Bridges
  <2>4. speed' \in [Wheels -> Int8]
    BY <1>4, StandType DEF MotorsWrite
  <2> QED
    BY <1>4, <2>3, <2>4 DEF MotorsWrite, Bridges
<1>5. CASE KickEnds
  BY <1>5 DEF KickEnds
<1>6. CASE Compares
  BY <1>6 DEF Compares
<1>7. CASE Stores
  BY <1>7 DEF Stores, Callbacks, Window, Orders
<1>8. CASE RadioObeys
  <2>1. /\ Speeds(frame.motors) \in [Wheels -> Int8] /\ frame \in Orders
    BY <1>8, FrameSpeeds, TypeParts DEF AttnObeys, RadioObeys, Callbacks
  <2>2. [w \in Wheels |-> Bridge(Speeds(frame.motors)[w])] \in [Wheels -> Bridges]
    BY <2>1, BridgeType
  <2> QED
    BY <1>8, <2>1, <2>2 DEF AttnObeys, RadioObeys, MotorsAtOnce, SwitchAtOnce, Orders,
       Bridges, NoFrame
<1>9. CASE MotorInit
  BY <1>9, StandType DEF MotorInit
<1>10. CASE MotorsReady
  BY <1>10, DirectionType DEF MotorsReady, Setups
<1>11. CASE PollObeys
  <2>1. Speeds(frame.motors) \in [Wheels -> Int8] /\ frame \in Orders
    BY <1>11, FrameSpeeds, TypeParts DEF PollObeys, Callbacks
  <2> QED
    BY <1>11, <2>1 DEF PollObeys, Calls
<1>12. CASE PollEnds
  BY <1>12 DEF PollEnds
<1>13. CASE Fails
  <2>1. Speeds(Stand) \in [Wheels -> Int8]
    BY SpeedsType, StandType, TypeParts
  <2> QED
    BY <1>13, <2>1 DEF Fails, ErrorMessage, Calls
<1>14. CASE MenuExits
  <2>1. c' \in Setups /\ dir' \in [Wheels -> Byte]
    <3>1. CASE UNCHANGED <<c, dir>>
      BY <3>1
    <3>2. CASE \E s \in Configs :
                 c' = [c EXCEPT !.dir = s.dir] /\ dir' = Direction(s.dir)
      <4>1. PICK s \in Configs :
                 c' = [c EXCEPT !.dir = s.dir] /\ dir' = Direction(s.dir)
        BY <3>2
      <4>2. s.dir \in [Wheels -> Byte]
        BY OrdersAssumption DEF Setups
      <4> QED
        BY <4>1, <4>2, DirectionType DEF Setups
    <3> QED
      BY <1>14, <3>1, <3>2 DEF MenuExits
  <2> QED
    BY <1>14, <2>1 DEF MenuExits
<1>15. CASE MenuTests
  <2>1. \A x, y \in Tests :
          Speeds([w \in Wheels |-> IF w = 1 THEN x ELSE y]) \in [Wheels -> Int8]
    <3> SUFFICES ASSUME NEW x \in Tests, NEW y \in Tests
                 PROVE  Speeds([w \in Wheels |-> IF w = 1 THEN x ELSE y])
                          \in [Wheels -> Int8]
      OBVIOUS
    <3>1. [w \in Wheels |-> IF w = 1 THEN x ELSE y] \in [Wheels -> Int8]
      BY OrdersAssumption
    <3> QED
      BY <3>1, SpeedsType, TypeParts
  <2>2. Speeds(Stand) \in [Wheels -> Int8]
    BY SpeedsType, StandType, TypeParts
  <2>3. /\ asked' = speed' /\ overtaken' = 0
        /\ \/ speed' = Speeds(Stand)
           \/ \E x, y \in Tests :
                speed' = Speeds([w \in Wheels |-> IF w = 1 THEN x ELSE y])
    BY <1>15, MenuTestsSteps
  <2>6. speed' \in [Wheels -> Int8]
    <3>1. CASE speed' = Speeds(Stand)
      BY <2>2, <3>1
    <3>2. CASE \E x, y \in Tests :
                speed' = Speeds([w \in Wheels |-> IF w = 1 THEN x ELSE y])
      <4>1. PICK x, y \in Tests :
                speed' = Speeds([w \in Wheels |-> IF w = 1 THEN x ELSE y])
        BY <3>2
      <4>2. Speeds([w \in Wheels |-> IF w = 1 THEN x ELSE y]) \in [Wheels -> Int8]
        BY <2>1
      <4> QED
        BY <4>1, <4>2
    <3> QED
      BY <2>3, <3>1, <3>2
  <2>4. held' \in {held, [NoFrame EXCEPT !.kicker = 1]}
    BY <1>15 DEF MenuTests
  <2>5. UNCHANGED <<irq, frame, conf, pins, cam>>
    BY <1>15 DEF MenuTests
  <2> QED
    BY <2>3, <2>4, <2>5, <2>6
<1>16. CASE MenuMeasures
  <2>1. \A x \in Tests, v \in Wheels :
          Speeds([w \in Wheels |-> IF w = v THEN x ELSE 0]) \in [Wheels -> Int8]
    <3> SUFFICES ASSUME NEW x \in Tests, NEW v \in Wheels
                 PROVE  Speeds([w \in Wheels |-> IF w = v THEN x ELSE 0])
                          \in [Wheels -> Int8]
      OBVIOUS
    <3>1. [w \in Wheels |-> IF w = v THEN x ELSE 0] \in [Wheels -> Int8]
      BY OrdersAssumption DEF Int8
    <3> QED
      BY <3>1, SpeedsType, TypeParts
  <2>2. Speeds(Stand) \in [Wheels -> Int8]
    BY SpeedsType, StandType, TypeParts
  <2>3. \/ UNCHANGED <<speed, asked, overtaken>>
        \/ /\ asked' = speed' /\ overtaken' = 0
           /\ \/ speed' = Speeds(Stand)
              \/ \E x \in Tests, v \in Wheels :
                   speed' = Speeds([w \in Wheels |-> IF w = v THEN x ELSE 0])
    BY <1>16, MenuMeasuresSteps
  <2>7. speed' \in [Wheels -> Int8]
    <3>1. CASE \E x \in Tests, v \in Wheels :
                 speed' = Speeds([w \in Wheels |-> IF w = v THEN x ELSE 0])
      <4>1. PICK x \in Tests, v \in Wheels :
                 speed' = Speeds([w \in Wheels |-> IF w = v THEN x ELSE 0])
        BY <3>1
      <4>2. Speeds([w \in Wheels |-> IF w = v THEN x ELSE 0]) \in [Wheels -> Int8]
        BY <2>1
      <4> QED
        BY <4>1, <4>2
    <3> QED
      BY <2>2, <2>3, <3>1
  <2>4. \A s \in Configs : s.min \in [Wheels -> Byte]
    BY OrdersAssumption DEF Setups
  <2>5. minspeed' \in [Wheels -> Byte] /\ c' \in Setups
    BY <1>16, <2>4, StandType DEF MenuMeasures, Setups
  <2>6. UNCHANGED <<held, irq, frame, dir, pins, cam>>
    BY <1>16 DEF MenuMeasures
  <2> QED
    BY <2>3, <2>5, <2>6, <2>7
<1>17. CASE KeyPressed \/ LinkChanges \/ SerialEvent \/ AttnBegins \/ AttnKicked
     \/ AttnEnds \/ KickBegins \/ RadioEnds
  BY <1>17 DEF KeyPressed, LinkChanges, SerialEvent, MayConfigure, Delaying,
       AttnBegins, AttnKicked, AttnEnds, KickBegins, RadioEnds
<1>18. CASE Resets \/ Yield \/ Advances \/ WifiInit \/ Operates \/ SetupDone \/
     MainLoop \/ WorkDone
  BY <1>18 DEF Resets, Detaches, Home, Yield, MayConfigure, Advances, NextState,
       WifiInit, Operates, SetupDone, MainLoop, WorkDone
<1>19. CASE MenuOpens \/ MenuRadio
  BY <1>19 DEF MenuOpens, MenuRadio, Detaches
<1>20. CASE UNCHANGED vars
  BY <1>20 DEF vars
<1> QED
  BY <1>1, <1>2, <1>3, <1>4, <1>5, <1>6, <1>7, <1>8, <1>9, <1>10, <1>11, <1>12,
       <1>13, <1>14, <1>15, <1>16, <1>17, <1>18, <1>19, <1>20 DEF Next, World,
       Attn, Callee, Loop, Menu

---------------------------------------------------------------------------
(* The theorems.                                                           *)

LEMMA InitInv == Init => IInv
<1> SUFFICES ASSUME Init PROVE IInv
  OBVIOUS
<1>1. TypeOK
  <2>1. /\ pins = [w \in Wheels |-> Bridge(0)] /\ Bridge(0) \in Bridges
    BY BridgeType DEF Init, Int8
  <2>2. c \in Setups /\ OPS \in Nat /\ BURST \in Nat
    BY OrdersAssumption, BoundAssumption DEF Init
  <2>3. TypeFlow
    BY <2>2 DEF Init, TypeFlow, Bit
  <2>4. pins \in [Wheels -> [on1 : Duties, on0 : Duties]]
    BY <2>1 DEF Bridges
  <2>5. TypeWork
    BY <2>2, <2>4, StandType DEF Init, TypeWork, Bit
  <2> QED
    BY <2>3, <2>5, TypeParts
<1>2. Place /\ Callbacks /\ Switching /\ Applying
  BY DEF Init, Place, Callbacks, Switching, Applying, Window
<1>3. Bridged
  BY BridgeOneOn DEF Init, Bridged, Int8
<1>4. Driving
  BY DEF Init, Driving, Stand
<1> QED
  BY <1>1, <1>2, <1>3, <1>4 DEF IInv

\* The invariant is inductive.
THEOREM Inductive == Spec => []IInv
<1>1. IInv /\ [Next]_vars => IInv'
  <2> SUFFICES ASSUME IInv, [Next]_vars
               PROVE  IInv'
    OBVIOUS
  <2> USE DEF IInv
  <2>1. TypeFlow /\ TypeWork
    BY TypeParts
  <2>2. TypeFlow' /\ TypeWork'
    BY <2>1, TypeFlowStep, TypeWorkStep
  <2>3. TypeOK'
    BY <2>2 DEF TypeOK, TypeFlow, TypeWork
  <2> QED
    BY <2>3, PlaceStep, CallbacksStep, BridgedStep, DrivingStep, SwitchingStep,
       ApplyingStep
<1> QED
  BY InitInv, <1>1, PTL DEF Spec

\* Every variable keeps its type; above all the pins of the motors, whose duties
\* fit into the timer's seven bits whatever the operator sends (aktuators.cpp
\* 55-75).
THEOREM TypeCorrect == Spec => []TypeOK
<1>1. IInv => TypeOK
  BY DEF IInv
<1> QED
  BY Inductive, <1>1, PTL

\* Whatever the operator sends and whenever the handler breaks into motors(), no
\* bridge is left with both pins on.
THEOREM NoShort == Spec => []NoShortCircuit
<1>1. IInv => NoShortCircuit
  <2> SUFFICES ASSUME IInv, pc # "motors", NEW w \in Wheels
               PROVE  pins[w].on1 = 0 \/ pins[w].on0 = 0
    BY DEF NoShortCircuit
  <2>1. step = 0
    BY DEF IInv, TypeOK
  <2> QED
    BY <2>1 DEF IInv, Bridged, OneOn
<1> QED
  BY Inductive, <1>1, PTL

\* The wheels obey the newest call of motors() unless the handler overtook it.
THEOREM NewestDrives == Spec => []NewestCommandDrives
<1>1. IInv => NewestCommandDrives
  <2>1. IInv /\ pc # "motors" => step = 0
    BY DEF IInv, TypeOK
  <2> QED
    BY <2>1 DEF IInv, Driving, NewestCommandDrives
<1> QED
  BY Inductive, <1>1, PTL

\* The operator's command to switch the camera is never taken for an old one, as
\* long as at most one command falls into one call of activate_camera.
THEOREM CameraStays == Spec => []CameraSwitchable
<1>1. IInv => CameraSwitchable
  BY DEF IInv, Switching, CameraSwitchable
<1> QED
  BY Inductive, <1>1, PTL

\* The stored directions and minimal speeds are those the robot drives with.
THEOREM ConfigApplied == Spec => []Configured
<1>1. IInv => Configured
  BY DEF IInv, Applying, Applied, Configured
<1> QED
  BY Inductive, <1>1, PTL

---------------------------------------------------------------------------
(* The kicker.                                                             *)

\* The coil is on only while a kick() waits that will switch it off, in the main
\* program or in the handler, and on for as long as the handler's does.
Watched ==
  /\ kickpin = 1 => isr = "kick" \/ pc = "kick"
  /\ isr = "kick" => kickpin = 1

LEMMA WatchedStep == Watched /\ [Next]_vars => Watched'
<1> SUFFICES ASSUME Watched, [Next]_vars PROVE Watched'
  OBVIOUS
<1> USE DEF Watched, flow, call, irq, radio, conf, wheel, cam, Main
<1>1. CASE World \/ SerialEvent
  BY <1>1 DEF World, KeyPressed, LinkChanges, Arrives, SerialEvent
<1>2. CASE Attn
  BY <1>2 DEF Attn, AttnBegins, AttnObeys, AttnKicked, AttnSwitches, AttnEnds
<1>3. CASE MotorsWrite
  BY <1>3 DEF MotorsWrite
<1>4. CASE Callee /\ ~MotorsWrite
  BY <1>4 DEF Callee, KickBegins, KickEnds, Compares, Stores, RadioObeys, RadioEnds,
              Resets, Detaches
<1>5. CASE Loop
  BY <1>5 DEF Loop, Yield, Advances, MotorInit, MotorsReady, WifiInit, Operates,
              SetupDone, MainLoop, PollObeys, PollEnds, WorkDone, Fails, MenuOpens,
              Detaches, Calls, ErrorMessage
<1>6. CASE MenuExits \/ MenuRadio
  BY <1>6 DEF MenuExits, MenuCloses, MenuRadio, Detaches
<1>7. CASE MenuTests
  BY <1>7, MenuTestsSteps
<1>8. CASE MenuMeasures
  BY <1>8, MenuMeasuresSteps
<1>9. CASE UNCHANGED vars
  BY <1>9 DEF vars
<1> QED
  BY <1>1, <1>2, <1>3, <1>4, <1>5, <1>6, <1>7, <1>8, <1>9 DEF Next, Menu

\* Whoever interrupts whom, the coil never stays on behind a kick(): the half of
\* KickReleased that is safety (aktuators.cpp, kick).
THEOREM CoilIsWatched == Spec => []Watched
<1>1. Init => Watched
  BY DEF Init, Watched
<1> QED
  BY <1>1, WatchedStep, PTL DEF Spec

=============================================================================
