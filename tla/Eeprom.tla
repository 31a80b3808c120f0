------------------------------- MODULE Eeprom -------------------------------
(***************************************************************************)
(* The configuration in RAM and in the EEPROM: saveeeprom and loadeeprom   *)
(* of code/src/config.cpp.  A setting of struct config takes one or more   *)
(* bytes, here cells, in the order of the struct; validflag is the last.   *)
(* The EEPROM takes one byte at a time (teensy3/eeprom.c), so that a power *)
(* cut leaves what was written so far.                                     *)
(***************************************************************************)
EXTENDS Integers

CONSTANTS
  SIZE,      \* cells of struct config without validflag
  Settings,
  Setting,   \* the setting a cell belongs to
  Bytes      \* what a user may enter

ASSUME LayoutAssumption ==
  /\ SIZE \in Nat /\ Setting \in [1 .. SIZE -> Settings]
  /\ "ir" \in Settings /\ "none" \notin Settings

Cells  == 1 .. SIZE
Values == Bytes \cup {"erased", "default"}

VARIABLES
  c,       \* the struct in RAM
  eep,     \* the cells of the EEPROM
  valid,   \* its validflag is 0x42
  cell,    \* the cell saveeeprom is at
  during,  \* the setting that is being changed, or was when power was cut
  old      \* ghost: c before that change

store == <<c, eep, valid, cell, during, old>>

\* The defaults leave the directions of the motors as they were read.
Loaded == [x \in Cells |->
             IF valid = 1 \/ Setting[x] = "dir" THEN eep[x] ELSE "default"]

InitStore ==
  /\ eep = [x \in Cells |-> "erased"] /\ valid = 0
  /\ c = Loaded /\ cell = 0 /\ during = "none" /\ old = c

\* loadeeprom.
Load ==
  /\ c' = Loaded /\ during' = "none" /\ cell' = 0 /\ old' = c'
  /\ UNCHANGED <<eep, valid>>

\* A menu item has changed setting s, and calls saveeeprom.
Change(s, value) ==
  /\ old' = c /\ during' = s /\ cell' = 1
  /\ c' = [x \in Cells |-> IF Setting[x] = s THEN value[x] ELSE c[x]]
  /\ UNCHANGED <<eep, valid>>

Advance ==
  IF cell <= SIZE THEN cell' = cell + 1 /\ UNCHANGED <<during, old>>
                  ELSE cell' = 0 /\ during' = "none" /\ old' = c

\* Mutant: the flag is written first.
SaveCellFlagFirst ==
  /\ cell > 0 /\ Advance
  /\ IF cell = 1 THEN valid' = 1 /\ UNCHANGED eep
                 ELSE eep' = [eep EXCEPT ![cell - 1] = c[cell - 1]] /\ UNCHANGED valid
  /\ UNCHANGED c

\* One turn of saveeeprom's loop.
SaveCell ==
  /\ cell > 0 /\ Advance
  /\ IF cell <= SIZE THEN eep' = [eep EXCEPT ![cell] = c[cell]] /\ UNCHANGED valid
                     ELSE valid' = 1 /\ UNCHANGED eep
  /\ UNCHANGED c

\* RAM is lost, but loadeeprom is what comes next and sets all of it: c is kept as
\* what should have been stored.
CutSave == cell' = 0 /\ UNCHANGED <<c, eep, valid, during, old>>

TypeStore ==
  /\ c \in [Cells -> Values] /\ old \in [Cells -> Values] /\ eep \in [Cells -> Values]
  /\ valid \in {0, 1} /\ cell \in 0 .. SIZE + 1
  /\ during \in Settings \cup {"none"}

\* Whenever power is cut, the robot comes up again with the configuration it had:
\* a finished change is there as a whole; of an interrupted one every byte is the
\* old or the new one, and no other setting suffers, the very first save with
\* its missing flag included (config.cpp 16-41).
CutKeepsSettings ==
  \A x \in Cells : \/ Loaded[x] = c[x]
                   \/ Setting[x] = during /\ Loaded[x] = old[x]

=============================================================================
