----------------------------- MODULE BoardProofs -----------------------------
(***************************************************************************)
(* Proofs about Board, for any layout of the configuration and any number  *)
(* of samples: types, and the properties of the run "board".               *)
(***************************************************************************)
EXTENDS Board, TLAPS

---------------------------------------------------------------------------
(* The goal value.                                                         *)

\* Widths from 350 on, whose goal value fits into 16 bits.
Means == 350 .. 65635

\* A robot that has been calibrated before its goal (menu item 14) and sends a
\* status from the same place does not report the goal, whatever the width from
\* 350 on: the goal value is 100 below the mean, and the difference is unsigned
\* (config.cpp 47-61, soccerrobot.cpp 177-179).
THEOREM GoalIsMissed ==
  \A mean \in Means : IrClass(GoalValue(mean), mean) = 0
<1> TAKE mean \in Means
<1>1. GoalValue(mean) = mean - 100
  <2> DEFINE n == mean - 100
  <2>1. n \in Int /\ 0 <= n /\ n < 65536
    BY DEF Means
  <2>2. GoalValue(mean) = n % 65536
    BY DEF GoalValue
  <2> HIDE DEF n
  <2>3. n % 65536 = n
    BY <2>1
  <2>4. n = mean - 100
    BY DEF n
  <2> QED
    BY <2>2, <2>3, <2>4
<1>2. ASSUME NEW k \in 1 .. 6
      PROVE  ~Near(mean - 100, mean, k)
  <2>1. k \in {1, 2, 3, 4, 5, 6}
    OBVIOUS
  <2> QED
    BY <2>1 DEF Near, Means
<1> QED
  BY <1>1, <1>2 DEF IrClass

---------------------------------------------------------------------------
(* The store.                                                              *)

\* Between saves nothing is open; within one, the cells so far are written.
Saved ==
  /\ pc \notin {"save", "boot"} => during = "none"
  /\ pc = "save" => /\ cell > 0
                    /\ \A x \in Cells : x < cell => eep[x] = c[x]

\* The next measurement will be a wrong one.
Spoilt ==
  \/ i = 1 /\ (mode = "falling" \/ stamp = "old" \/ (pending = 1 /\ level = 0))
  \/ i = 0 /\ pending = 1 /\ level = 1

Measuring ==
  /\ mode = "off" => i = 0 /\ pending = 0 /\ pulsewidth = "none"
  /\ mode = "rising" => i = 1
  /\ i = 1 /\ mode = "rising" /\ stamp = "now" /\ pending = 0 => level = 0
  /\ debt >= 0 /\ (Spoilt => debt >= 1)

\* What one, two and three undisturbed falling edges are worth.
Calming ==
  /\ calm >= 1 =>
       /\ i = 0 /\ pending = 1 => level = 0
       /\ i = 1 /\ pending = 0 => level = 0 /\ mode = "rising"
       /\ i = 1 /\ pending = 1 => \/ mode = "rising" /\ level = 1
                                  \/ mode = "falling" /\ level = 0 /\ calm = 1
  /\ calm >= 2 /\ i = 1 => stamp = "now" /\ mode = "rising"
  /\ calm = 2 /\ pulsewidth = "wrong" => i = 1 \/ (pending = 1 /\ level = 0)
  /\ calm = 3 => pulsewidth # "wrong"

Calibrating ==
  /\ pc \notin {"sample", "save"} => taken = 0 /\ bad = 0 /\ rest = 1
  /\ pc = "sample" /\ rest = 1 => bad = 0

IInv == /\ TypeOK /\ Saved /\ CutKeepsSettings /\ Measuring /\ Calming
        /\ Calibrating /\ CalmCalibration

---------------------------------------------------------------------------
(* The parts of a step.                                                    *)

\* The sensor by itself.
IrStep == Edge \/ PulseInterrupt \/ InitSensors \/ ReadIr \/ CutIr \/ UNCHANGED ir

LEMMA IrSteps == [Next]_vars => IrStep
  BY DEF Next, Boot, SensorInit, Status, MenuOpens, Enters, Calibrates, Samples, Stops,
         Calibrated, Saves, MenuExits, PowerCut, Edges, Pulses, vars, IrStep

LEMMA IrInvStep ==
  ASSUME TypeIr, Measuring, Calming, IrStep
  PROVE  TypeIr' /\ Measuring' /\ Calming'
<1> USE DEF TypeIr, Measuring, Spoilt, Calming
<1>1. CASE Edge
  <2>1. CASE pending = 1
    BY <1>1, <2>1 DEF Edge, Disturbed, Capped
  <2>2. CASE pending = 0
    <3>1. CASE level = 1
      BY <1>1, <2>2, <3>1 DEF Edge, Capped
    <3>2. CASE level = 0
      BY <1>1, <2>2, <3>2 DEF Edge, Capped
    <3> QED
      BY <3>1, <3>2
  <2> QED
    BY <2>1, <2>2
<1>2. CASE PulseInterrupt
  <2>1. CASE i = 0
    BY <1>2, <2>1 DEF PulseInterrupt
  <2>2. CASE i = 1
    BY <1>2, <2>2 DEF PulseInterrupt
  <2> QED
    BY <2>1, <2>2
<1>3. CASE InitSensors
  BY <1>3 DEF InitSensors, Attach, Disturbed, Capped
<1>4. CASE ReadIr
  BY <1>4 DEF ReadIr, Attach, Disturbed, Capped
<1>5. CASE CutIr
  BY <1>5 DEF CutIr, Cold
<1>6. CASE UNCHANGED ir
  BY <1>6 DEF ir
<1> QED
  BY <1>1, <1>2, <1>3, <1>4, <1>5, <1>6 DEF IrStep

LEMMA LoadedType == TypeStore => Loaded \in [Cells -> Values]
  BY DEF TypeStore, Loaded, Values

\* What the menu enters.
LEMMA ChangeStep ==
  ASSUME TypeStore, CutKeepsSettings, during = "none",
         NEW s \in Settings, NEW value \in [Cells -> Bytes], Change(s, value)
  PROVE  /\ TypeStore' /\ CutKeepsSettings' /\ cell' = 1 /\ during' = s
         /\ \A x \in Cells : Setting[x] = s => c'[x] = value[x]
<1>1. /\ old' = c /\ during' = s /\ cell' = 1 /\ eep' = eep /\ valid' = valid
      /\ c' = [x \in Cells |-> IF Setting[x] = s THEN value[x] ELSE c[x]]
  BY DEF Change
<1>2. \A x \in Cells : c'[x] = IF Setting[x] = s THEN value[x] ELSE c[x]
  BY <1>1
<1>3. c' \in [Cells -> Values]
  BY <1>1 DEF TypeStore, Values
<1>4. TypeStore'
  BY <1>1, <1>3, LayoutAssumption DEF TypeStore
<1>5. Loaded' = Loaded
  BY <1>1 DEF Loaded
<1>6. \A x \in Cells : Setting[x] \in Settings
  BY LayoutAssumption DEF Cells
<1>7. ASSUME NEW x \in Cells
      PROVE  \/ Loaded'[x] = c'[x]
             \/ Setting[x] = during' /\ Loaded'[x] = old'[x]
  <2>1. Loaded[x] = c[x]
    BY <1>6, LayoutAssumption DEF CutKeepsSettings
  <2> QED
    BY <1>1, <1>2, <1>5, <2>1
<1> QED
  BY <1>1, <1>2, <1>4, <1>7 DEF CutKeepsSettings

\* A byte is written, and behind the last one the flag.
LEMMA SaveStep ==
  ASSUME TypeStore, Saved, CutKeepsSettings, pc = "save", SaveCell
  PROVE  /\ TypeStore' /\ CutKeepsSettings' /\ c' = c
         /\ IF cell = SIZE + 1
            THEN during' = "none"
            ELSE /\ during' = during /\ cell' > 0
                 /\ \A x \in Cells : x < cell' => eep'[x] = c[x]
<1>1. cell \in 1 .. SIZE + 1 /\ \A x \in Cells : x < cell => eep[x] = c[x]
  BY LayoutAssumption DEF TypeStore, Saved
<1>2. c' = c
  BY DEF SaveCell
<1>3. CASE cell <= SIZE
  <2>1. /\ cell' = cell + 1 /\ during' = during /\ old' = old /\ valid' = valid
        /\ eep' = [eep EXCEPT ![cell] = c[cell]]
    BY <1>3 DEF SaveCell, Advance
  <2>2. cell \in Cells
    BY <1>1, <1>3, LayoutAssumption DEF Cells
  <2>3. \A x \in Cells : eep'[x] = IF x = cell THEN c[x] ELSE eep[x]
    BY <2>1 DEF TypeStore
  <2>4. TypeStore'
    <3>1. eep' \in [Cells -> Values]
      BY <2>1, <2>2 DEF TypeStore
    <3> QED
      BY <1>1, <1>2, <1>3, <2>1, <3>1, LayoutAssumption DEF TypeStore
  <2>5. \A x \in Cells : x < cell' => eep'[x] = c[x]
    BY <1>1, <2>1, <2>3, LayoutAssumption DEF Cells
  <2>6. ASSUME NEW x \in Cells
        PROVE  Loaded'[x] = Loaded[x] \/ Loaded'[x] = c[x]
    <3>1. /\ Loaded[x] = IF valid = 1 \/ Setting[x] = "dir" THEN eep[x] ELSE "default"
          /\ Loaded'[x] = IF valid = 1 \/ Setting[x] = "dir" THEN eep'[x] ELSE "default"
      BY <2>1 DEF Loaded
    <3> QED
      BY <2>3, <3>1
  <2>7. CutKeepsSettings'
    BY <1>2, <2>1, <2>6 DEF CutKeepsSettings
  <2> QED
    BY <1>2, <1>3, <2>1, <2>4, <2>5, <2>7, <1>1, LayoutAssumption
<1>4. CASE cell = SIZE + 1
  <2>1. /\ cell' = 0 /\ during' = "none" /\ old' = c /\ eep' = eep /\ valid' = 1
    BY <1>4, LayoutAssumption DEF SaveCell, Advance
  <2>2. TypeStore'
    BY <1>2, <2>1, LayoutAssumption DEF TypeStore
  <2>3. \A x \in Cells : Loaded'[x] = c'[x]
    <3>1. \A x \in Cells : Loaded'[x] = eep[x]
      BY <2>1 DEF Loaded
    <3>2. \A x \in Cells : eep[x] = c[x]
      BY <1>1, <1>4, LayoutAssumption DEF Cells
    <3> QED
      BY <1>2, <3>1, <3>2
  <2> QED
    BY <1>2, <1>4, <2>1, <2>2, <2>3 DEF CutKeepsSettings
<1> QED
  BY <1>1, <1>3, <1>4, LayoutAssumption

\* The store is not touched.
LEMMA StoreSame ==
  ASSUME TypeStore, CutKeepsSettings, UNCHANGED <<c, eep, valid, during, old>>,
         cell' \in {0, cell}
  PROVE  TypeStore' /\ CutKeepsSettings'
<1>1. Loaded' = Loaded
  BY DEF Loaded
<1> QED
  BY <1>1, LayoutAssumption DEF TypeStore, CutKeepsSettings

\* What the main program does, whatever the sensor does.
LEMMA MainInvStep ==
  ASSUME IInv, [Next]_vars
  PROVE  /\ TypeStore' /\ Saved' /\ CutKeepsSettings' /\ Calibrating'
         /\ CalmCalibration'
         /\ pc' \in {"boot", "sensorinit", "run", "menu", "sample", "save"}
         /\ taken' \in 0 .. SAMPLES /\ bad' \in {0, 1} /\ rest' \in {0, 1}
<1> USE SampleAssumption DEF IInv, TypeOK, Calibrating
<1>1. CASE Boot
  <2>1. /\ c' = Loaded /\ during' = "none" /\ cell' = 0 /\ old' = c' /\ eep' = eep
        /\ valid' = valid /\ pc = "boot" /\ pc' = "sensorinit"
        /\ UNCHANGED calibration
    BY <1>1 DEF Boot, Load
  <2>2. Loaded' = Loaded
    BY <2>1 DEF Loaded
  <2>3. TypeStore'
    BY <2>1, LoadedType, LayoutAssumption DEF TypeStore
  <2> QED
    BY <2>1, <2>2, <2>3 DEF CutKeepsSettings, Saved, CalmCalibration, calibration
<1>2. CASE Enters
  <2>1. PICK s \in Settings \ {"ir"}, value \in [Cells -> Bytes] : Change(s, value)
    BY <1>2 DEF Enters
  <2>2. pc = "menu" /\ pc' = "save" /\ UNCHANGED calibration /\ during = "none"
    BY <1>2 DEF Enters, Saved
  <2>3. TypeStore' /\ CutKeepsSettings' /\ cell' = 1 /\ during' = s
    BY <2>1, <2>2, ChangeStep
  <2>4. Saved'
    BY <2>2, <2>3 DEF Saved, Cells
  <2> QED
    BY <2>2, <2>3, <2>4 DEF CalmCalibration, calibration
<1>3. CASE Calibrated
  <2>1. PICK b \in Bytes : /\ bad = 0 => b = RIGHT
                           /\ Change("ir", [x \in Cells |-> b])
    BY <1>3 DEF Calibrated
  <2>2. pc = "sample" /\ pc' = "save" /\ UNCHANGED calibration /\ during = "none"
    BY <1>3 DEF Calibrated, Saved
  <2>3. /\ TypeStore' /\ CutKeepsSettings' /\ cell' = 1 /\ during' = "ir"
        /\ \A x \in Cells : Setting[x] = "ir" => c'[x] = b
    <3> DEFINE value == [x \in Cells |-> b]
    <3>1. value \in [Cells -> Bytes] /\ Change("ir", value)
      BY <2>1
    <3>2. \A x \in Cells : value[x] = b
      OBVIOUS
    <3> HIDE DEF value
    <3> QED
      BY <2>1, <2>2, <3>1, <3>2, ChangeStep, LayoutAssumption
  <2>4. Saved'
    BY <2>2, <2>3 DEF Saved, Cells
  <2>5. CalmCalibration'
    BY <2>1, <2>2, <2>3 DEF CalmCalibration, calibration
  <2> QED
    BY <2>2, <2>3, <2>4, <2>5 DEF calibration
<1>4. CASE Saves
  <2>1. pc = "save" /\ SaveCell
    BY <1>4 DEF Saves
  <2>2. CASE cell = SIZE + 1
    <3>1. pc' = "menu" /\ taken' = 0 /\ bad' = 0 /\ rest' = 1
      BY <1>4, <2>2 DEF Saves, NoCalibration
    <3> QED
      BY <2>1, <2>2, <3>1, SaveStep DEF Saved, CalmCalibration
  <2>3. CASE cell # SIZE + 1
    <3>1. pc' = "save" /\ UNCHANGED calibration
      BY <1>4, <2>1, <2>3 DEF Saves
    <3>2. Saved'
      BY <2>1, <2>3, <3>1, SaveStep DEF Saved
    <3>3. TypeStore' /\ CutKeepsSettings' /\ c' = c /\ during' = during
      BY <2>1, <2>3, SaveStep
    <3> QED
      BY <2>1, <3>1, <3>2, <3>3 DEF CalmCalibration, calibration
  <2> QED
    BY <2>2, <2>3
<1>5. CASE PowerCut
  <2>1. /\ pc' = "boot" /\ cell' = 0 /\ UNCHANGED <<c, eep, valid, during, old>>
        /\ taken' = 0 /\ bad' = 0 /\ rest' = 1
    BY <1>5 DEF PowerCut, CutSave, NoCalibration
  <2> QED
    BY <2>1, StoreSame DEF Saved, CalmCalibration
<1>6. CASE Samples
  <2>1. /\ pc = "sample" /\ pc' = "sample" /\ UNCHANGED store /\ taken < SAMPLES
        /\ taken' \in {taken, taken + 1}
        /\ bad' = IF pulsewidth = "wrong" THEN 1 ELSE bad
        /\ rest' = IF pulsewidth # "none" /\ calm < 3 THEN 0 ELSE rest
    BY <1>6 DEF Samples
  <2>2. rest' = 1 => bad' = 0
    BY <2>1 DEF Calming, TypeIr
  <2>3. TypeStore' /\ CutKeepsSettings'
    BY <2>1, StoreSame DEF store
  <2>4. Saved' /\ CalmCalibration'
    BY <2>1 DEF Saved, CalmCalibration, store
  <2> QED
    BY <2>1, <2>2, <2>3, <2>4
<1>7. CASE Stops
  <2>1. /\ pc = "sample" /\ pc' = "sample" /\ UNCHANGED store
        /\ taken' = SAMPLES /\ bad' = 1 /\ rest' = 0
    BY <1>7 DEF Stops
  <2>2. TypeStore' /\ CutKeepsSettings'
    BY <2>1, StoreSame DEF store
  <2> QED
    BY <2>1, <2>2 DEF Saved, CalmCalibration, store
<1>8. CASE \/ SensorInit \/ Status \/ MenuOpens \/ Calibrates \/ MenuExits \/ Edges
           \/ Pulses \/ UNCHANGED vars
  <2>1. /\ UNCHANGED <<store, calibration>>
        /\ \/ pc' = pc
           \/ /\ pc \in {"sensorinit", "run", "menu"}
              /\ pc' \in {"run", "menu", "sample", "boot"}
    BY <1>8 DEF SensorInit, Status, MenuOpens, Calibrates, MenuExits, Edges, Pulses, vars
  <2>2. TypeStore' /\ CutKeepsSettings'
    BY <2>1, StoreSame DEF store
  <2> QED
    BY <2>1, <2>2 DEF Saved, CalmCalibration, store, calibration
<1> QED
  BY <1>1, <1>2, <1>3, <1>4, <1>5, <1>6, <1>7, <1>8 DEF Next

---------------------------------------------------------------------------
(* The theorems.                                                           *)

\* The invariant is inductive.
THEOREM Inductive == Spec => []IInv
<1>1. Init => IInv
  <2> SUFFICES ASSUME Init PROVE IInv
    OBVIOUS
  <2>1. TypeStore
    <3>1. eep \in [Cells -> Values]
      BY DEF Init, InitStore, Values
    <3>2. Loaded \in [Cells -> Values]
      BY <3>1 DEF Loaded, Values
    <3> QED
      BY <3>1, <3>2, LayoutAssumption DEF Init, InitStore, TypeStore
  <2>2. TypeIr /\ Measuring /\ Calming
    BY DEF Init, InitIr, Cold, TypeIr, Measuring, Spoilt, Calming
  <2>3. Saved /\ CutKeepsSettings /\ Calibrating /\ CalmCalibration
    BY DEF Init, InitStore, Saved, CutKeepsSettings, Calibrating, CalmCalibration
  <2> QED
    BY <2>1, <2>2, <2>3, SampleAssumption DEF Init, IInv, TypeOK
<1>2. IInv /\ [Next]_vars => IInv'
  <2> SUFFICES ASSUME IInv, [Next]_vars
               PROVE  IInv'
    OBVIOUS
  <2>1. TypeIr' /\ Measuring' /\ Calming'
    BY IrSteps, IrInvStep DEF IInv, TypeOK
  <2> QED
    BY <2>1, MainInvStep DEF IInv, TypeOK
<1> QED
  BY <1>1, <1>2, PTL DEF Spec

\* Every variable keeps its type.
THEOREM TypeCorrect == Spec => []TypeOK
<1>1. IInv => TypeOK
  BY DEF IInv
<1> QED
  BY Inductive, <1>1, PTL

\* Power may be cut between any two bytes that saveeeprom writes, again and again:
\* the robot comes up with the configuration it had, up to bytes of the one setting
\* that was being changed.
THEOREM CutKeeps == Spec => []CutKeepsSettings
<1>1. IInv => CutKeepsSettings
  BY DEF IInv
<1> QED
  BY Inductive, <1>1, PTL

\* Every wrong width of the infrared sensor has a disturbance of its own.
THEOREM WrongHasCause == Spec => []OneWrongPerDisturbance
<1>1. IInv => OneWrongPerDisturbance
  BY DEF IInv, Measuring, OneWrongPerDisturbance
<1> QED
  BY Inductive, <1>1, PTL

\* A calm calibration saves the right goal value.
THEOREM CalmIsRight == Spec => []CalmCalibration
<1>1. IInv => CalmCalibration
  BY DEF IInv
<1> QED
  BY Inductive, <1>1, PTL

=============================================================================
