------------------------------- MODULE Robot -------------------------------
(***************************************************************************)
(* The robot as a whole: robot_state and loop() of soccerrobot.cpp, the    *)
(* configuration menu, errormessage, and what a command of the operator    *)
(* does to wheels, kicker and camera (inbound_ip in wifi.cpp, motors and   *)
(* kick in aktuators.cpp, activate_camera in config.cpp).                  *)
(*                                                                         *)
(* Two actors share these: the main program, and attn_interrupt, which     *)
(* runs as the handler of the attention pin or is called by the main       *)
(* program.  The radio is reduced to what matters here: whether the link   *)
(* is up, and one frame that waits.  serialEvent is called by yield(),     *)
(* that is after each loop() and from within every delay(), the one in the *)
(* handler's kick() included.                                              *)
(***************************************************************************)
EXTENDS Motors

CONSTANTS
  Commands,  \* datagrams of the operator
  Configs,   \* configurations of motors that may be stored or entered
  Tests,     \* speeds of the motor test and of getminimalspeed
  OPS,       \* bound: operations on the radio in one image or one setupwifi
  BURST      \* bound: commands that arrive in one turn of the loop

Bit == {0, 1}
Wheels == {1, 2}   \* first and second argument of motors

Orders == [motors : [Wheels -> Int8], kicker : Bit, kamera : Bit]
Setups == [dir : [Wheels -> Byte], min : [Wheels -> Byte]]

ASSUME OrdersAssumption == /\ Commands \subseteq Orders /\ Configs \subseteq Setups
                           /\ Tests \subseteq Int8
ASSUME BoundAssumption  == OPS \in Nat /\ BURST \in Nat

NoFrame == [motors |-> [w \in Wheels |-> 0], kicker |-> 0, kamera |-> 2]
Stand   == [w \in Wheels |-> 0]

VARIABLES
  robot_state,
  input,          \* Serial.available()
  pc, back,       \* where the main program is, and where the call returns
  menu,           \* it is inside config()
  ops, sent,      \* operations of this image or setup, seen result of the last
  step, speed,    \* the pin write of motors() it is at, the wheels' speeds
  held,           \* the command whose callback it runs
  attached, edge, \* attn_interrupt is attached; an edge of ATN is pending
  isr, icmd,      \* where the handler is, and its command
  frame, burst,   \* the command that waits in the radio; how many came
  link,           \* the module is joined
  pins, kickpin, camerastate, tmp,
  dir, minspeed,  \* motor_*_direction, motor_*_minspeed
  c,              \* the stored configuration
  asked,          \* ghost: speeds of the newest call of motors()
  overtaken,      \* ghost: the handler called it within the main program's
  crossed         \* ghost: commands the handler obeyed in activate_camera

flow  == <<pc, back, menu, ops, sent>>
call  == <<step, speed, held>>
irq   == <<attached, edge, isr, icmd>>
radio == <<frame, burst, link>>
conf  == <<dir, minspeed, c>>
wheel == <<pins, asked, overtaken>>
cam   == <<camerastate, tmp, crossed>>
vars  == <<robot_state, input, flow, call, irq, radio, conf, wheel, kickpin, cam>>

Init ==
  /\ robot_state = "PREINIT" /\ input = 0
  /\ pc = "top" /\ back = "none" /\ menu = 0 /\ ops = 0 /\ sent = 0
  /\ step = 0 /\ speed = Stand /\ held = NoFrame
  /\ attached = 0 /\ edge = 0 /\ isr = "idle" /\ icmd = NoFrame
  /\ frame = NoFrame /\ burst = 0 /\ link \in Bit
  /\ pins = [w \in Wheels |-> Bridge(0)] /\ kickpin = 0
  /\ camerastate = 0 /\ tmp = 0
  /\ dir = Stand /\ minspeed = Stand /\ c \in Configs
  /\ asked = Stand /\ overtaken = 0 /\ crossed = 0

---------------------------------------------------------------------------
(* The world.                                                              *)

KeyPressed ==
  /\ input' = 1
  /\ UNCHANGED <<robot_state, flow, call, irq, radio, conf, wheel, kickpin, cam>>

LinkChanges ==
  /\ link' = 1 - link
  /\ UNCHANGED <<robot_state, input, flow, call, irq, frame, burst, conf, wheel,
                 kickpin, cam>>

Arrives ==
  /\ link = 1 /\ frame = NoFrame /\ burst < BURST
  /\ frame' \in Commands /\ burst' = burst + 1
  /\ edge' = attached
  /\ UNCHANGED <<robot_state, input, flow, call, attached, isr, icmd, link, conf,
                 wheel, kickpin, cam>>

\* Mutant: the menu can only be called from MAINLOOP.
MayConfigureLate == robot_state = "MAINLOOP"

MayConfigure == robot_state # "PREINIT"

\* yield() in a delay.
Delaying == {"kick", "radio", "setup", "work"}
Main     == isr = "idle" /\ edge = 0

SerialEvent ==
  /\ input = 1 /\ MayConfigure /\ robot_state # "USBCONFIG"
  /\ isr = "kick" \/ (Main /\ pc \in Delaying)
  /\ robot_state' = "USBCONFIG"
  /\ UNCHANGED <<input, flow, call, irq, radio, conf, wheel, kickpin, cam>>

---------------------------------------------------------------------------
(* The handler, in which only delay() lets others see something.           *)

Speeds(m) == [w \in Wheels |-> WheelSpeed(m[w], dir[w], minspeed[w])]

\* motors() from its begin to its end.
MotorsAtOnce(m) ==
  /\ asked' = Speeds(m)
  /\ pins' = [w \in Wheels |-> Bridge(Speeds(m)[w])]
  /\ overtaken' = IF step > 0 THEN 1 ELSE 0

SwitchAtOnce(k) ==
  /\ camerastate' = IF tmp # k THEN k ELSE camerastate
  /\ tmp' = k
  /\ crossed' = IF pc \in {"store", "copy"} /\ crossed < 2 THEN crossed + 1
                ELSE crossed

AttnBegins ==
  /\ edge = 1 /\ isr = "idle"
  /\ edge' = 0 /\ isr' = "read"
  /\ UNCHANGED <<robot_state, input, flow, call, attached, icmd, radio, conf, wheel,
                 kickpin, cam>>

AttnObeys ==
  /\ isr = "read" /\ frame # NoFrame
  /\ icmd' = frame /\ frame' = NoFrame
  /\ MotorsAtOnce(frame.motors)
  /\ isr' = (IF frame.kicker = 1 THEN "kick" ELSE "switch")
  /\ kickpin' = (IF frame.kicker = 1 THEN 1 ELSE kickpin)
  /\ UNCHANGED <<robot_state, input, flow, call, attached, edge, burst, link, conf,
                 cam>>

AttnKicked ==
  /\ isr = "kick" /\ kickpin' = 0 /\ isr' = "switch"
  /\ UNCHANGED <<robot_state, input, flow, call, attached, edge, icmd, radio, conf,
                 wheel, cam>>

AttnSwitches ==
  /\ isr = "switch" /\ SwitchAtOnce(icmd.kamera)
  /\ isr' = "read" /\ icmd' = NoFrame
  /\ UNCHANGED <<robot_state, input, flow, call, attached, edge, radio, conf, wheel,
                 kickpin>>

AttnEnds ==
  /\ isr = "read" /\ frame = NoFrame /\ isr' = "idle"
  /\ UNCHANGED <<robot_state, input, flow, call, attached, edge, icmd, radio, conf,
                 wheel, kickpin, cam>>

---------------------------------------------------------------------------
(* motors(), kick() and activate_camera() in the main program, step by     *)
(* step: the handler is attached.                                          *)

Calls(m, ret) ==
  /\ pc' = "motors" /\ back' = ret /\ step' = 1 /\ speed' = Speeds(m)
  /\ asked' = Speeds(m) /\ overtaken' = 0

\* Mutant: the other pin is released first.
WriteSwapped(p, s, k) == IF k % 2 = 1 THEN Releases(p, s) ELSE Drives(p, s)

\* Mutant: the other pin is not released.
WriteOnce(p, s, k) == IF k % 2 = 1 THEN Drives(p, s) ELSE p

\* Writes 1 and 2 are to the first wheel, 3 and 4 to the second.
Write(p, s, k) == IF k % 2 = 1 THEN Drives(p, s) ELSE Releases(p, s)

WheelOf(k) == IF k <= 2 THEN 1 ELSE 2

MotorsWrite ==
  /\ Main /\ pc = "motors"
  /\ LET w == WheelOf(step) IN
       pins' = [pins EXCEPT ![w] = Write(@, speed[w], step)]
  /\ IF step < 4
     THEN step' = step + 1 /\ UNCHANGED <<pc, back, speed>>
     ELSE step' = 0 /\ speed' = Stand /\ pc' = back /\ back' = "none"
  /\ UNCHANGED <<robot_state, input, menu, ops, sent, held, irq, radio, conf, asked,
                 overtaken, kickpin, cam>>

\* After motors() in inbound_ip and in the motor test.
KickBegins ==
  /\ Main /\ pc = "fire"
  /\ IF held.kicker = 1 THEN pc' = "kick" /\ kickpin' = 1
                        ELSE pc' = "compare" /\ UNCHANGED kickpin
  /\ UNCHANGED <<robot_state, input, back, menu, ops, sent, call, irq, radio, conf,
                 wheel, cam>>

\* Mutant: kick() does not wait, and nobody releases the pin.
KickEndsNever ==
  /\ Main /\ pc = "kick" /\ pc' = (IF menu = 1 THEN "menu" ELSE "compare")
  /\ UNCHANGED <<robot_state, input, back, menu, ops, sent, call, irq, radio, conf,
                 wheel, kickpin, cam>>

KickEnds ==
  /\ Main /\ pc = "kick"
  /\ kickpin' = 0
  /\ IF menu = 1 THEN pc' = "menu" /\ held' = NoFrame
                 ELSE pc' = "compare" /\ UNCHANGED held
  /\ UNCHANGED <<robot_state, input, back, menu, ops, sent, step, speed, irq, radio,
                 conf, wheel, cam>>

\* activate_camera: the test, then two stores.
Compares ==
  /\ Main /\ pc = "compare"
  /\ IF tmp # held.kamera
     THEN pc' = "store" /\ crossed' = (IF crossed = 2 THEN 2 ELSE 0)
     ELSE pc' = "poll" /\ UNCHANGED crossed
  /\ UNCHANGED <<robot_state, input, back, menu, ops, sent, call, irq, radio, conf,
                 wheel, kickpin, camerastate, tmp>>

\* Mutant: the copy is stored first.
StoresCopyFirst ==
  /\ Main
  /\ \/ pc = "store" /\ pc' = "copy" /\ tmp' = held.kamera /\ UNCHANGED camerastate
     \/ pc = "copy" /\ pc' = "poll" /\ camerastate' = held.kamera /\ UNCHANGED tmp
  /\ UNCHANGED <<robot_state, input, back, menu, ops, sent, call, irq, radio, conf,
                 wheel, kickpin, crossed>>

Stores ==
  /\ Main
  /\ \/ pc = "store" /\ pc' = "copy" /\ camerastate' = held.kamera /\ UNCHANGED tmp
     \/ pc = "copy" /\ pc' = "poll" /\ tmp' = held.kamera /\ UNCHANGED camerastate
  /\ UNCHANGED <<robot_state, input, back, menu, ops, sent, call, irq, radio, conf,
                 wheel, kickpin, crossed>>

---------------------------------------------------------------------------
(* Operations of wifi.cpp: the handler is detached, and the main program   *)
(* runs the callbacks.                                                     *)

Detaches(ret) ==
  /\ attached' = 0 /\ edge' = 0 /\ pc' = "radio" /\ back' = ret

RadioObeys ==
  /\ Main /\ pc = "radio" /\ frame # NoFrame
  /\ frame' = NoFrame
  /\ MotorsAtOnce(frame.motors) /\ SwitchAtOnce(frame.kamera)
  /\ UNCHANGED <<robot_state, input, flow, call, irq, burst, link, conf, kickpin>>

\* A datagram is confirmed only by a module that is joined.  The failure of a nested
\* put_buf, before which another datagram was confirmed, is not looked at.
RadioEnds ==
  /\ Main /\ pc = "radio"
  /\ attached' = 1 /\ edge' = 0 /\ pc' = back /\ back' = "none"
  /\ sent' \in {0, sent} \cup (IF back = "work" THEN {link} ELSE {})
  /\ UNCHANGED <<robot_state, input, menu, ops, call, isr, icmd, radio, conf, wheel,
                 kickpin, cam>>

Home == IF menu = 1 THEN "menu" ELSE "yield"

\* Mutant: errormessage does not stop the motors.
ErrorMessageRolls ==
  /\ robot_state' = "ERROR" /\ pc' = "reset"
  /\ UNCHANGED <<back, step, speed, asked, overtaken>>

ErrorMessage == robot_state' = "ERROR" /\ Calls(Stand, "reset")

\* wifi_reset.
Resets ==
  /\ Main /\ pc = "reset" /\ Detaches(Home)
  /\ UNCHANGED <<robot_state, input, menu, ops, sent, call, isr, icmd, radio, conf,
                 wheel, kickpin, cam>>

---------------------------------------------------------------------------
(* loop().                                                                 *)

Yield ==
  /\ Main /\ pc = "yield"
  /\ pc' = "top" /\ burst' = 0
  /\ robot_state' = IF input = 1 /\ MayConfigure THEN "USBCONFIG" ELSE robot_state
  /\ UNCHANGED <<input, back, menu, ops, sent, call, irq, frame, link, conf, wheel,
                 kickpin, cam>>

\* PREINIT, SENSORINIT, KAMERAINIT and, after its delay, ERROR.
NextState == [PREINIT |-> "MOTORINIT", SENSORINIT |-> "KAMERAINIT",
              KAMERAINIT |-> "WIFIINIT", ERROR |-> "WIFIINIT"]

Advances ==
  /\ Main /\ pc = "top" /\ robot_state \in DOMAIN NextState
  /\ robot_state' = NextState[robot_state] /\ pc' = "yield"
  /\ UNCHANGED <<input, back, menu, ops, sent, call, irq, radio, conf, wheel,
                 kickpin, cam>>

\* initaktuators.
MotorInit ==
  /\ Main /\ pc = "top" /\ robot_state = "MOTORINIT"
  /\ dir' = Stand /\ minspeed' = Stand /\ pc' = "setdirection"
  /\ UNCHANGED <<robot_state, input, back, menu, ops, sent, call, irq, radio, c,
                 wheel, kickpin, cam>>

\* ROBOTERGELB: ~ in eight bits, by which 0 and 1 both come out as "inverted".
Direction(d) == [w \in Wheels |-> IF w = 1 THEN d[w] ELSE 255 - d[w]]

\* setdirection, setminimalspeed.
MotorsReady ==
  /\ Main /\ pc = "setdirection"
  /\ dir' = Direction(c.dir) /\ minspeed' = c.min
  /\ robot_state' = "SENSORINIT" /\ pc' = "yield"
  /\ UNCHANGED <<input, back, menu, ops, sent, call, irq, radio, c, wheel, kickpin,
                 cam>>

WifiInit ==
  /\ Main /\ pc = "top" /\ robot_state = "WIFIINIT"
  /\ pc' = "setup"
  /\ UNCHANGED <<robot_state, input, back, menu, ops, sent, call, irq, radio, conf,
                 wheel, kickpin, cam>>

\* setupwifi and the sending of an image or a status, one operation at a time.
Operates ==
  /\ Main /\ pc \in {"setup", "work"} /\ ops < OPS
  /\ ops' = ops + 1 /\ Detaches(pc)
  /\ UNCHANGED <<robot_state, input, menu, sent, call, isr, icmd, radio, conf, wheel,
                 kickpin, cam>>

SetupDone ==
  /\ Main /\ pc = "setup" /\ ops > 0
  /\ pc' = Home /\ robot_state' = (IF menu = 1 THEN robot_state ELSE "MAINLOOP")
  /\ ops' = 0
  /\ UNCHANGED <<input, back, menu, sent, call, irq, radio, conf, wheel, kickpin,
                 cam>>

MainLoop ==
  /\ Main /\ pc = "top" /\ robot_state = "MAINLOOP"
  /\ pc' = "poll"
  /\ UNCHANGED <<robot_state, input, back, menu, ops, sent, call, irq, radio, conf, wheel,
                 kickpin, cam>>

PollObeys ==
  /\ Main /\ pc = "poll" /\ frame # NoFrame
  /\ held' = frame /\ frame' = NoFrame
  /\ Calls(frame.motors, "fire")
  /\ UNCHANGED <<robot_state, input, menu, ops, sent, irq, burst, link, conf, pins,
                 kickpin, cam>>

PollEnds ==
  /\ Main /\ pc = "poll" /\ frame = NoFrame /\ pc' = "work"
  /\ held' = NoFrame
  /\ UNCHANGED <<robot_state, input, back, menu, ops, sent, step, speed, irq, radio,
                 conf, wheel, kickpin, cam>>

WorkDone ==
  /\ Main /\ pc = "work" /\ sent = 1
  /\ pc' = "yield" /\ ops' = 0 /\ sent' = 0
  /\ UNCHANGED <<robot_state, input, back, menu, call, irq, radio, conf, wheel,
                 kickpin, cam>>

\* The radio is not ready, a datagram is not confirmed, a line does not come;
\* setupwifi takes 10 s.
Fails ==
  /\ Main /\ pc \in {"setup", "work"}
  /\ ErrorMessage /\ ops' = 0 /\ sent' = 0
  /\ UNCHANGED <<input, menu, held, irq, radio, conf, pins, kickpin, cam>>

---------------------------------------------------------------------------
(* config(), in which the handler stays attached.                          *)

MenuOpens ==
  /\ Main /\ pc = "top" /\ robot_state = "USBCONFIG"
  /\ input' = 0 /\ menu' = 1 /\ pc' = "menu" /\ burst' = 0
  /\ UNCHANGED <<robot_state, back, ops, sent, call, irq, frame, link, conf, wheel,
                 kickpin, cam>>

\* Mutant: after the menu only the radio is initialised.
MenuClosesToWifi == menu' = 0 /\ robot_state' = "WIFIINIT" /\ pc' = "yield"

MenuCloses == menu' = 0 /\ robot_state' = "PREINIT" /\ pc' = "yield"

\* 8, and 7, which returns as well.
MenuExits ==
  /\ Main /\ pc = "menu" /\ input' = 0
  /\ \/ UNCHANGED <<c, dir>>
     \/ \E s \in Configs : c' = [c EXCEPT !.dir = s.dir] /\ dir' = Direction(s.dir)
  /\ MenuCloses
  /\ UNCHANGED <<back, ops, sent, call, irq, radio, minspeed, wheel, kickpin, cam>>

\* 4: setupwifi; 6: wifi_reset.
MenuRadio ==
  /\ Main /\ pc = "menu" /\ input' = 0 /\ burst' = 0
  /\ \/ pc' = "setup" /\ UNCHANGED <<back, attached, edge>>
     \/ Detaches("menu")
  /\ UNCHANGED <<robot_state, menu, ops, sent, call, isr, icmd, frame, link, conf, wheel,
                 kickpin, cam>>

\* 2: motors at some speed, again and again, then they stop and the robot kicks.
MenuTests ==
  /\ Main /\ pc \in {"menu", "test"} /\ input' = 0 /\ burst' = 0
  /\ \/ \E x, y \in Tests : Calls([w \in Wheels |-> IF w = 1 THEN x ELSE y], "test")
        /\ UNCHANGED held
     \/ pc = "test" /\ Calls(Stand, "fire") /\ held' = [NoFrame EXCEPT !.kicker = 1]
  /\ UNCHANGED <<robot_state, menu, ops, sent, irq, frame, link, conf, pins, kickpin,
                 cam>>

\* 13: getminimalspeed for one motor after the other.
MenuMeasures ==
  /\ Main /\ input' = 0 /\ burst' = 0
  /\ \/ pc = "menu" /\ pc' = "measure" /\ minspeed' = Stand
        /\ UNCHANGED <<back, step, speed, asked, overtaken, c>>
     \/ /\ pc = "measure" /\ UNCHANGED <<c, minspeed>>
        /\ \/ \E x \in Tests, v \in Wheels :
                Calls([w \in Wheels |-> IF w = v THEN x ELSE 0], "measure")
           \/ Calls(Stand, "measured")
     \/ pc = "measured" /\ pc' = "measure" /\ UNCHANGED minspeed
        /\ UNCHANGED <<back, step, speed, asked, overtaken, c>>
     \/ /\ pc = "measured" /\ pc' = "menu"
        /\ \E s \in Configs : c' = [c EXCEPT !.min = s.min] /\ minspeed' = s.min
        /\ UNCHANGED <<back, step, speed, asked, overtaken>>
  /\ UNCHANGED <<robot_state, menu, ops, sent, held, irq, frame, link, dir, pins,
                 kickpin, cam>>

Attn   == AttnBegins \/ AttnObeys \/ AttnKicked \/ AttnSwitches \/ AttnEnds
World  == KeyPressed \/ LinkChanges \/ Arrives
Callee == \/ MotorsWrite \/ KickBegins \/ KickEnds \/ Compares \/ Stores
          \/ RadioObeys \/ RadioEnds \/ Resets
Loop   == \/ Yield \/ Advances \/ MotorInit \/ MotorsReady \/ WifiInit \/ Operates
          \/ SetupDone \/ MainLoop \/ PollObeys \/ PollEnds \/ WorkDone \/ Fails
          \/ MenuOpens
Menu   == MenuExits \/ MenuRadio \/ MenuTests \/ MenuMeasures

Next == World \/ SerialEvent \/ Attn \/ Callee \/ Loop \/ Menu
Spec == Init /\ [][Next]_vars

\* The handler and the main program run; the operator's choices in the menu are
\* not forced.
FairSpec == Spec /\ WF_vars(Attn) /\ WF_vars(Callee \/ Loop)

---------------------------------------------------------------------------
(* Properties.                                                             *)

TypeOK ==
  /\ robot_state \in {"PREINIT", "MOTORINIT", "SENSORINIT", "KAMERAINIT", "WIFIINIT",
                      "MAINLOOP", "ERROR", "USBCONFIG"}
  /\ pc \in {"top", "yield", "setdirection", "setup", "radio", "poll", "motors",
             "fire", "kick", "compare", "store", "copy", "work", "reset", "menu",
             "test", "measure", "measured"}
  /\ back \in {"none", "fire", "reset", "test", "measure", "measured", "setup", "work",
               "menu", "yield"}
  /\ {input, menu, sent, attached, edge, link, kickpin, camerastate, tmp, overtaken}
       \subseteq Bit
  /\ ops \in 0 .. OPS /\ burst \in 0 .. BURST /\ crossed \in 0 .. 2
  /\ step \in 0 .. 4 /\ (step > 0 <=> pc = "motors")
  /\ {speed, asked} \subseteq [Wheels -> Int8]
  /\ {held, icmd, frame} \subseteq Orders \cup {NoFrame, [NoFrame EXCEPT !.kicker = 1]}
  /\ isr \in {"idle", "read", "kick", "switch"}
  /\ pins \in [Wheels -> [on1 : Duties, on0 : Duties]]
  /\ {dir, minspeed} \subseteq [Wheels -> Byte] /\ c \in Setups

\* Outside motors() no wheel has both pins of its bridge on, although the handler
\* calls motors() in the middle of the main program's call and the other way
\* round (aktuators.cpp 55-75).
NoShortCircuit ==
  pc # "motors" => \A w \in Wheels : pins[w].on1 = 0 \/ pins[w].on0 = 0

\* The wheels do what the newest call of motors() says, by whomever, unless the
\* handler has overtaken a call of the main program: then a wheel may obey the
\* one, the other, or stand.
NewestCommandDrives ==
  pc # "motors" /\ overtaken = 0 => \A w \in Wheels : pins[w] = Bridge(asked[w])

\* The camera flag and the copy activate_camera compares with agree: otherwise the
\* operator's command to switch would be taken for an old one for ever.  Two
\* commands in the few instructions of one call of the main program break it.
CameraSwitchable ==
  pc \notin {"store", "copy"} /\ crossed < 2 => camerastate = tmp

\* The robot drives with the directions and minimal speeds of its configuration,
\* whenever the menu was called, even in the middle of the initialisation.
Configured ==
  menu = 0 /\ robot_state \in {"SENSORINIT", "KAMERAINIT", "WIFIINIT", "MAINLOOP",
                               "ERROR"}
    => dir = Direction(c.dir) /\ minspeed = c.min

\* A key that is pressed leads to the menu, whatever overwrites robot_state.
KeyServed == (input = 1) ~> (menu = 1)

\* When the link is lost the wheels come to a stand, unless it comes back or the
\* menu was opened: a send fails, and errormessage stops the motors again and
\* again, as a late command may have slipped in behind it.
LinkLossStops ==
  (link = 0) ~> (link = 1 \/ menu = 1 \/ pins = [w \in Wheels |-> Bridge(0)])

\* The kicker's coil is switched off again.
KickReleased == (kickpin = 1) ~> (kickpin = 0)

=============================================================================
