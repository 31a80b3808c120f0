-------------------------------- MODULE Board --------------------------------
(***************************************************************************)
(* The main program's dealings with the configuration store and the        *)
(* infrared sensor, across power cuts: PREINIT and SENSORINIT, the status  *)
(* message, and config() with the items that change a setting, among them  *)
(* item 14, which takes the goal value from the sensor.                    *)
(***************************************************************************)
EXTENDS Eeprom, IrSensor

CONSTANTS
  RIGHT,    \* the byte of the goal value if all samples are right
  SAMPLES   \* bound: samples of item 14

ASSUME SampleAssumption == SAMPLES \in Nat \ {0} /\ RIGHT \in Bytes

VARIABLES
  pc,
  taken,   \* samples of the running calibration
  bad,     \* one of them is wrong, or a key has stopped it
  rest     \* ghost: none was taken soon after a disturbance

calibration == <<taken, bad, rest>>
vars == <<store, ir, pc, calibration>>

NoCalibration == taken' = 0 /\ bad' = 0 /\ rest' = 1

Init == /\ InitStore /\ InitIr
        /\ pc = "boot" /\ taken = 0 /\ bad = 0 /\ rest = 1

Boot    == pc = "boot" /\ Load /\ pc' = "sensorinit" /\ UNCHANGED <<ir, calibration>>

SensorInit ==
  pc = "sensorinit" /\ InitSensors /\ pc' = "run" /\ UNCHANGED <<store, calibration>>

\* generatestatusmessage; item 5.
Status == pc \in {"run", "menu"} /\ ReadIr /\ UNCHANGED <<store, pc, calibration>>

MenuOpens ==
  /\ pc \in {"sensorinit", "run"} /\ pc' = "menu" /\ UNCHANGED <<store, ir, calibration>>

\* Items 1, 6, 7 and 13.
Enters ==
  /\ pc = "menu" /\ pc' = "save"
  /\ \E s \in Settings \ {"ir"}, value \in [Cells -> Bytes] : Change(s, value)
  /\ UNCHANGED <<ir, calibration>>

Calibrates ==
  /\ pc = "menu" /\ pc' = "sample" /\ UNCHANGED <<store, ir, calibration>>

\* A width that is not 0 counts; as long as it is 0 the loop goes on.
Samples ==
  /\ pc = "sample" /\ taken < SAMPLES
  /\ ReadIr
  /\ taken' = IF pulsewidth = "none" THEN taken ELSE taken + 1
  /\ bad' = IF pulsewidth = "wrong" THEN 1 ELSE bad
  /\ rest' = IF pulsewidth # "none" /\ calm < 3 THEN 0 ELSE rest
  /\ UNCHANGED <<store, pc>>

\* A key ends the loop; what has been summed up is divided all the same.
Stops ==
  /\ pc = "sample" /\ taken < SAMPLES
  /\ taken' = SAMPLES /\ bad' = 1 /\ rest' = 0
  /\ UNCHANGED <<store, ir, pc>>

Calibrated ==
  /\ pc = "sample" /\ taken = SAMPLES /\ pc' = "save"
  /\ \E b \in Bytes : /\ bad = 0 => b = RIGHT
                      /\ Change("ir", [x \in Cells |-> b])
  /\ UNCHANGED <<ir, calibration>>

Saves ==
  /\ pc = "save" /\ SaveCell
  /\ IF cell = SIZE + 1 THEN pc' = "menu" /\ NoCalibration
                        ELSE UNCHANGED <<pc, calibration>>
  /\ UNCHANGED ir

\* Items 7 and 8, and back to PREINIT.
MenuExits == pc = "menu" /\ pc' = "boot" /\ UNCHANGED <<store, ir, calibration>>

PowerCut == pc' = "boot" /\ CutSave /\ CutIr /\ NoCalibration

Edges  == Edge /\ UNCHANGED <<store, pc, calibration>>
Pulses == PulseInterrupt /\ UNCHANGED <<store, pc, calibration>>

Next == \/ Boot \/ SensorInit \/ Status \/ MenuOpens \/ Enters \/ Calibrates \/ Samples
        \/ Stops \/ Calibrated \/ Saves \/ MenuExits \/ PowerCut \/ Edges \/ Pulses
Spec == Init /\ [][Next]_vars

---------------------------------------------------------------------------
(* Properties.                                                             *)

TypeOK ==
  /\ TypeStore /\ TypeIr
  /\ pc \in {"boot", "sensorinit", "run", "menu", "sample", "save"}
  /\ taken \in 0 .. SAMPLES /\ bad \in {0, 1} /\ rest \in {0, 1}

\* A calibration that is not stopped and whose samples each come at least three
\* pulses after the sensor was last disturbed saves the right goal value, whatever the
\* sensor was doing when the menu was opened.
CalmCalibration ==
  pc = "save" /\ during = "ir" /\ rest = 1 =>
    \A x \in Cells : Setting[x] = "ir" => c[x] = RIGHT

=============================================================================
