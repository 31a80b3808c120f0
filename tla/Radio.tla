-------------------------------- MODULE Radio --------------------------------
(***************************************************************************)
(* The robot and its XBee module: frames over SPI, the attention pin, AT   *)
(* commands and confirmed transmissions (code/src/XBee.cpp), and the       *)
(* operations of wifi.cpp in the order in which MAINLOOP, ERROR and        *)
(* WIFIINIT of soccerrobot.cpp call them.  Two actors run on the robot,    *)
(* the main program and attn_interrupt; the third is the module.           *)
(*                                                                         *)
(* ATN is low as long as the module has a frame for the robot.  A frame is *)
(* read in one step, as nobody on the robot can come between: ATN falls    *)
(* only after it has been high.  The id of a frame is abstracted to        *)
(* whether it is the newest one: next_atid skips 0 and would have to run   *)
(* through all 255 values for an old answer to look new.                   *)
(***************************************************************************)
EXTENDS Integers, Sequences

CONSTANTS
  Udp,        \* tcp_or_udp_flag = UDP
  HoldsBack,  \* the module queues nothing while CS is asserted
  Faults,     \* what may go wrong: subset of {"deaf", "noise", "crash"}
  Factory,    \* settings of the module that are not what the robot wants
  QLEN, OWED, \* bounds: frames for the robot, and unanswered ones of it
  BUDGET      \* bound: frames the module sends on its own, and its crashes

ASSUME KindAssumption  == {Udp, HoldsBack} \subseteq BOOLEAN
ASSUME BoundAssumption == /\ QLEN \in Nat /\ QLEN >= 1
                          /\ OWED \in Nat /\ OWED >= 1
                          /\ BUDGET \in Nat

Stages == 1 .. 3   \* wifi_init, wifi_connecttoAp, wifi_connecttoServer

ASSUME FactoryAssumption == Factory \subseteq Stages

\* XBEE_MODEM_STATUS_*
RESET  == 0
JOINED == 2
NO_LONGER_JOINED == 3

Bit    == {0, 1}
Codes  == {0, 1, 2, 3}
Frames == [kind : {"ip", "modem", "tx", "at", "noise", "broken"},
           own  : Bit,      \* an answer to the newest frame of the robot
           val  : Codes]    \* status; 0: sent, or joined; 2 of an AT: error
Debts  == [kind : {"tx", "at"}, own : Bit,
           cur  : Bit]      \* carries the datagram of the running call

Frame(k, o, v) == [kind |-> k, own |-> o, val |-> v]
Noise == Frame("noise", 0, 0)

VARIABLES
  inq,         \* frames the module has for the robot
  owed,        \* frames of the robot the module has not answered
  joined,      \* the module is joined to the access point
  booting,     \* the module was reset and has not said so
  budget,      \* frames the module may still send on its own
  attached,    \* attn_interrupt is attached
  edge,        \* a falling edge of ATN is pending
  isr,         \* attn_interrupt runs as interrupt handler
  spiRunning, spiLocked,
  pc,          \* where the main program is
  op, stage,   \* the operation of wifi.cpp that runs
  ex,          \* its exchange with the module
  try,         \* attempts of transmit
  res,         \* result of the operation: "ok" stands for 0
  held,        \* frame whose callback the main program runs
  modemstatus,
  fresh,       \* ghost: modemstatus is not behind the newest status read
  newest,      \* ghost: held is the newest status that was read
  aired,       \* ghost: times the datagram of the running call was sent
  wrong,       \* ghost: settings the module does not have
  wasJoined    \* ghost: the module has been joined

module == <<joined, booting, budget, wrong, wasJoined>>
bus    == <<spiRunning, spiLocked>>
irq    == <<attached, edge, isr>>
job    == <<op, stage, ex, try, res>>
status == <<modemstatus, fresh, newest>>
vars   == <<inq, owed, module, irq, bus, pc, job, held, status, aired>>

Init ==
  /\ inq = <<>> /\ owed = <<>> /\ joined = 0 /\ booting = 1 /\ budget = BUDGET
  /\ attached = 0 /\ edge = 0 /\ isr = 0 /\ spiRunning = 0 /\ spiLocked = 0
  /\ pc = "start" /\ op = "setup" /\ stage = 1 /\ ex = "at" /\ try = 1
  /\ res = "ok" /\ held = Noise
  /\ modemstatus = RESET /\ fresh = 1 /\ newest = 0
  /\ aired = 0 /\ wrong = Factory /\ wasJoined = 0

---------------------------------------------------------------------------
(* The module.                                                             *)

CanQueue == Len(inq) < QLEN /\ ~(HoldsBack /\ spiRunning = 1)

\* A frame for the robot: ATN falls if it was high.
Queues(f) ==
  /\ CanQueue
  /\ inq' = Append(inq, f)
  /\ edge' = IF inq = <<>> /\ attached = 1 THEN 1 ELSE edge

\* A command of the operator, or what the line makes of it.
Arrives ==
  /\ budget > 0 /\ budget' = budget - 1
  /\ \/ Queues(Frame("ip", 0, 0))
     \/ "noise" \in Faults /\ Queues(Noise)
  /\ UNCHANGED <<owed, joined, booting, wrong, wasJoined, attached, isr, bus, pc,
                 job, held, status, aired>>

Joins ==
  /\ joined = 0 /\ booting = 0 /\ Queues(Frame("modem", 0, JOINED))
  /\ joined' = 1 /\ wasJoined' = 1
  /\ UNCHANGED <<owed, booting, budget, wrong, attached, isr, bus, pc, job, held,
                 status, aired>>

Leaves ==
  /\ joined = 1 /\ budget > 0 /\ Queues(Frame("modem", 0, NO_LONGER_JOINED))
  /\ joined' = 0 /\ budget' = budget - 1
  /\ UNCHANGED <<owed, booting, wrong, wasJoined, attached, isr, bus, pc, job,
                 held, status, aired>>

Boots ==
  /\ booting = 1 /\ Queues(Frame("modem", 0, RESET)) /\ booting' = 0
  /\ UNCHANGED <<owed, joined, budget, wrong, wasJoined, attached, isr, bus, pc,
                 job, held, status, aired>>

\* The module's own watchdog resets it.
Crashes ==
  /\ "crash" \in Faults /\ budget > 0 /\ budget' = budget - 1
  /\ inq' = <<>> /\ owed' = <<>> /\ joined' = 0 /\ booting' = 1
  /\ UNCHANGED <<wrong, wasJoined, irq, bus, pc, job, held, status, aired>>

\* The module answers its oldest debt, after it has sent the datagram or failed.
Answers ==
  /\ owed # <<>> /\ owed' = Tail(owed)
  /\ LET d == Head(owed) IN
       \/ /\ d.kind = "tx" /\ joined = 1
          /\ aired' = aired + d.cur
          /\ \/ Queues(Frame("tx", d.own, 0))
             \/ "noise" \in Faults /\ Queues(Frame("broken", 0, 0))
       \/ d.kind = "tx" /\ Queues(Frame("tx", d.own, 1)) /\ UNCHANGED aired
       \/ /\ d.kind = "at" /\ UNCHANGED aired
          /\ \/ Queues(Frame("at", d.own, 1 - joined))
             \/ "noise" \in Faults /\ Queues(Frame("at", d.own, 2))
  /\ UNCHANGED <<module, attached, isr, bus, pc, job, held, status>>

---------------------------------------------------------------------------
(* Reading frames.                                                         *)

Masked == pc \in {"start", "lock", "write", "wait", "flush", "drain", "attach"}

\* The main program runs only when the handler does not.
Main == isr = 0 /\ edge = 0

\* rx_frame takes the first frame; noise makes it flush the bus.
Take == inq # <<>> /\ inq' = IF Head(inq).kind = "noise" THEN <<>> ELSE Tail(inq)

\* inbound_status.
Record(f) ==
  IF f.kind = "modem"
  THEN modemstatus' = f.val /\ fresh' = 1 /\ newest' = 0
  ELSE UNCHANGED status

spiEnd == spiRunning' = (IF spiLocked = 1 THEN spiRunning ELSE 0) /\ UNCHANGED spiLocked

AttnBegins ==
  /\ edge = 1 /\ isr = 0
  /\ edge' = 0 /\ isr' = 1
  /\ UNCHANGED <<inq, owed, module, attached, bus, pc, job, held, status, aired>>

AttnReads ==
  /\ isr = 1 /\ Take /\ Record(Head(inq)) /\ spiEnd
  /\ UNCHANGED <<owed, module, irq, pc, job, held, aired>>

AttnEnds ==
  /\ isr = 1 /\ inq = <<>> /\ isr' = 0
  /\ UNCHANGED <<inq, owed, module, attached, edge, bus, pc, job, held, status,
                 aired>>

\* The main loop looks at ATN and calls attn_interrupt itself.
LoopTop ==
  /\ Main /\ pc = "loop"
  /\ pc' = IF inq # <<>> THEN "poll" ELSE "work"
  /\ UNCHANGED <<inq, owed, module, irq, bus, job, held, status, aired>>

\* Mutant: CS is released before the callback runs.
PollReadsReleased ==
  /\ Main /\ pc = "poll" /\ Take
  /\ LET f == Head(inq) IN
       IF f.kind \in {"ip", "modem"}
       THEN /\ pc' = "call" /\ held' = f
            /\ newest' = (IF f.kind = "modem" THEN 1 ELSE 0)
            /\ fresh' = (IF f.kind = "modem" THEN 0 ELSE fresh)
       ELSE UNCHANGED <<pc, held, newest, fresh>>
  /\ UNCHANGED <<owed, module, irq, bus, job, modemstatus, aired>>

\* There the handler is attached: the callback runs with CS asserted and may be
\* interrupted.
PollReads ==
  /\ Main /\ pc = "poll" /\ Take
  /\ LET f == Head(inq) IN
       IF f.kind \in {"ip", "modem"}
       THEN /\ pc' = "call" /\ held' = f /\ spiRunning' = 1
            /\ newest' = (IF f.kind = "modem" THEN 1 ELSE 0)
            /\ fresh' = (IF f.kind = "modem" THEN 0 ELSE fresh)
       ELSE UNCHANGED <<pc, held, spiRunning, newest, fresh>>
  /\ UNCHANGED <<owed, module, irq, spiLocked, job, modemstatus, aired>>

PollCalls ==
  /\ Main /\ pc = "call" /\ pc' = "end" /\ held' = Noise
  /\ IF held.kind = "modem"
     THEN modemstatus' = held.val /\ fresh' = newest /\ newest' = 0
     ELSE UNCHANGED status
  /\ UNCHANGED <<inq, owed, module, irq, bus, job, aired>>

PollEnds ==
  /\ Main /\ pc = "end" /\ spiEnd /\ pc' = "poll"
  /\ UNCHANGED <<inq, owed, module, irq, job, held, status, aired>>

PollDone ==
  /\ Main /\ pc = "poll" /\ inq = <<>> /\ pc' = "work"
  /\ UNCHANGED <<inq, owed, module, irq, bus, job, held, status, aired>>

---------------------------------------------------------------------------
(* An operation of wifi.cpp: detach the handler, exchange frames, drain,   *)
(* attach the handler.                                                     *)

\* Mutant: the handler stays attached.
BeginsAttached(o, s, x) ==
  /\ pc' = "start" /\ op' = o /\ stage' = s /\ ex' = x /\ try' = 1 /\ res' = "ok"
  /\ UNCHANGED <<attached, edge>>

Begins(o, s, x) ==
  /\ attached' = 0 /\ edge' = 0
  /\ pc' = "start" /\ op' = o /\ stage' = s /\ ex' = x /\ try' = 1 /\ res' = "ok"

\* The debts of the robot, once it sends a newer frame or a newer datagram.
Older(q)   == [i \in DOMAIN q |-> [q[i] EXCEPT !.own = 0]]
Settled(q) == [i \in DOMAIN q |-> [q[i] EXCEPT !.cur = 0]]

\* wifi_senddata; over UDP it asks for the protocol first.
SendData ==
  /\ Begins("send", stage, IF Udp THEN "at" ELSE "tx")
  /\ aired' = 0 /\ owed' = Settled(owed)

\* sendstatus and put_buf look at wifi_isready before they send; the handler
\* may run in between.
ChecksReady ==
  /\ Main /\ pc = "work" /\ modemstatus = JOINED
  /\ pc' = "send"
  /\ UNCHANGED <<inq, owed, module, irq, bus, job, held, status, aired>>

Works ==
  /\ Main /\ pc = "send"
  /\ SendData
  /\ UNCHANGED <<inq, module, isr, bus, held, status>>

\* errormessage: wifi_reset.
Resets == Begins("reset", stage, "none")

\* The radio is not ready, or encodeimage fails for want of a line.
GivesUp ==
  /\ Main /\ pc = "work"
  /\ Resets
  /\ UNCHANGED <<inq, owed, module, isr, bus, held, status, aired>>

\* The reset line: the module loses what it had.
PulsesReset ==
  /\ Main /\ pc = "start" /\ op = "reset"
  /\ inq' = <<>> /\ owed' = <<>> /\ joined' = 0 /\ booting' = 1
  /\ pc' = "drain"
  /\ UNCHANGED <<budget, wrong, wasJoined, irq, bus, job, held, status, aired>>

\* Mutant: the bus is taken without being locked.
LockTakesOnly ==
  /\ Main /\ pc = "start" /\ op # "reset"
  /\ spiRunning' = 1 /\ pc' = "lock"
  /\ UNCHANGED <<inq, owed, module, irq, spiLocked, job, held, status, aired>>

Lock ==
  /\ Main /\ pc = "start" /\ op # "reset"
  /\ spiRunning' = 1 /\ spiLocked' = 1 /\ pc' = "lock"
  /\ UNCHANGED <<inq, owed, module, irq, job, held, status, aired>>

\* process, before a frame is sent: spiEnd keeps a locked bus.
LockReads ==
  /\ Main /\ pc = "lock" /\ Take /\ Record(Head(inq)) /\ spiEnd
  /\ UNCHANGED <<owed, module, irq, pc, job, held, aired>>

\* Mutant: the bus stays locked.
UnlockForgets ==
  /\ Main /\ pc = "lock" /\ inq = <<>>
  /\ pc' = "write"
  /\ UNCHANGED <<inq, owed, module, irq, bus, job, held, status, aired>>

Unlock ==
  /\ Main /\ pc = "lock" /\ inq = <<>>
  /\ spiLocked' = 0 /\ pc' = "write"
  /\ UNCHANGED <<inq, owed, module, irq, spiRunning, job, held, status, aired>>

\* What is left of the module's frames when the robot writes: SPI clocks out a
\* byte for every byte written, and write drops it.
Clobbered(q) ==
  {<<>>} \cup {<<Noise>> \o SubSeq(q, k + 1, Len(q)) : k \in 1 .. Len(q)}

\* One frame of the robot.
Write ==
  /\ Main /\ pc = "write"
  /\ inq' \in Clobbered(Older(inq))
  /\ LET d == [kind |-> IF ex = "tx" THEN "tx" ELSE "at", own |-> 1,
               cur |-> IF ex = "tx" THEN 1 ELSE 0]
     IN \/ /\ Len(owed) < OWED
           /\ owed' = Append(Older(owed), d)
           /\ wrong' = IF ex = "set" /\ op = "setup" THEN wrong \ {stage} ELSE wrong
        \/ /\ Len(owed) = OWED \/ "deaf" \in Faults
           /\ owed' = Older(owed) /\ UNCHANGED wrong
  /\ spiEnd
  /\ pc' = "wait"
  /\ UNCHANGED <<joined, booting, budget, wasJoined, irq, job, held, status, aired>>

---------------------------------------------------------------------------
(* The answer.                                                             *)

\* rx_frame handles what is not an answer and goes on waiting.
WaitReads ==
  /\ Main /\ pc = "wait" /\ Take
  /\ Head(inq).kind \in {"ip", "modem"}
  /\ Record(Head(inq))
  /\ UNCHANGED <<owed, module, irq, bus, pc, job, held, aired>>

\* What follows an AT query or command; only its own success counts as good.
\* atbyte, atshort, atstring: 1 for an answered query, and nothing is set; else
\* the buffer is compared without having been written.  betterstatus: a failed
\* query leaves ret at 0 and len unwritten.  No result is ever other than 0
\* after the &= with the initial 0.
AtReturns(good, v) ==
  \/ /\ op \in {"send", "setup"} /\ ex = "at"
     /\ pc' = "start"
     /\ ex' \in (IF good THEN {} ELSE {"set"})
                  \cup {IF op = "send" THEN "tx" ELSE "write"}
     /\ UNCHANGED <<op, stage, try, res, status>>
  \/ /\ op \in {"send", "setup"} /\ ex = "set"
     /\ pc' = "start" /\ ex' = (IF op = "send" THEN "tx" ELSE "write")
     /\ UNCHANGED <<op, stage, try, res, status>>
  \/ /\ op = "setup" /\ ex = "write"
     /\ pc' = "drain"
     /\ UNCHANGED <<job, status>>
  \/ /\ op \in {"ready", "fault"}
     /\ pc' = "drain"
     /\ res' \in (IF good THEN {IF v = 0 THEN "ok" ELSE "bad"} ELSE {"ok", "bad"})
     /\ modemstatus' = (IF good /\ v # 0 THEN modemstatus ELSE JOINED)
     /\ UNCHANGED <<op, stage, ex, try, fresh, newest>>

AtGood(f) == f.kind = "at" /\ f.own = 1 /\ f.val # 2

AtAnswered ==
  /\ Main /\ pc = "wait" /\ ex # "tx" /\ Take
  /\ Head(inq).kind \notin {"ip", "modem"}
  /\ AtReturns(AtGood(Head(inq)), Head(inq).val)
  /\ UNCHANGED <<owed, module, irq, bus, held, aired>>

AtTimesOut ==
  /\ Main /\ pc = "wait" /\ ex # "tx" /\ inq = <<>>
  /\ AtReturns(FALSE, 0)
  /\ UNCHANGED <<inq, owed, module, irq, bus, held, aired>>

\* Mutant: transmit does not look at the id.
TxIdIgnored(f) == f.kind = "tx"

TxOwn(f) == f.kind = "tx" /\ f.own = 1

\* transmit has read an answer: sent, failed with a code, or not its own.
TxAnswered ==
  /\ Main /\ pc = "wait" /\ ex = "tx" /\ Take
  /\ Head(inq).kind \in {"tx", "at"}
  /\ IF TxOwn(Head(inq))
     THEN /\ pc' = "drain"
          /\ res' = IF Head(inq).val = 0 THEN "ok" ELSE "bad"
     ELSE pc' = "flush" /\ res' = "bad"
  /\ UNCHANGED <<owed, module, irq, bus, op, stage, ex, try, held, status, aired>>

\* No answer, or one that cannot be read: 0xEE.
TxFails ==
  /\ Main /\ pc = "wait" /\ ex = "tx"
  /\ \/ inq = <<>> /\ UNCHANGED inq
     \/ Take /\ Head(inq).kind \in {"noise", "broken"}
  /\ pc' = "flush" /\ res' = "again"
  /\ UNCHANGED <<owed, module, irq, bus, op, stage, ex, try, held, status, aired>>

\* flush_spi reads as long as ATN is low.  rx_frame has released CS, and a
\* module that is not selected gives nothing away.
FlushSpins ==
  /\ Main /\ pc = "flush" /\ inq # <<>>
  /\ inq' = IF spiRunning = 1 THEN <<>> ELSE inq
  /\ UNCHANGED <<owed, module, irq, bus, pc, job, held, status, aired>>

\* Mutant: transmit is repeated as long as there is no answer.
FlushEndsRetry ==
  /\ Main /\ pc = "flush" /\ inq = <<>>
  /\ IF res = "again"
     THEN pc' = "start" /\ res' = "ok"
     ELSE pc' = "drain" /\ UNCHANGED res
  /\ UNCHANGED <<inq, owed, module, irq, bus, op, stage, ex, try, held, status,
                 aired>>

\* Mutant: the attempts are counted and not limited.
FlushEndsCounts ==
  /\ Main /\ pc = "flush" /\ inq = <<>>
  /\ IF res = "again"
     THEN pc' = "start" /\ try' = try + 1 /\ res' = "ok"
     ELSE pc' = "drain" /\ res' = "bad" /\ UNCHANGED try
  /\ UNCHANGED <<inq, owed, module, irq, bus, op, stage, ex, held, status, aired>>

\* wifi_senddata repeats transmit once.
FlushEnds ==
  /\ Main /\ pc = "flush" /\ inq = <<>>
  /\ IF res = "again" /\ try = 1
     THEN pc' = "start" /\ try' = 2 /\ res' = "ok"
     ELSE pc' = "drain" /\ res' = "bad" /\ UNCHANGED try
  /\ UNCHANGED <<inq, owed, module, irq, bus, op, stage, ex, held, status, aired>>

DrainReads ==
  /\ Main /\ pc = "drain" /\ Take /\ Record(Head(inq))
  /\ UNCHANGED <<owed, module, irq, bus, pc, job, held, aired>>

DrainEnds ==
  /\ Main /\ pc = "drain" /\ inq = <<>> /\ pc' = "attach"
  /\ UNCHANGED <<inq, owed, module, irq, bus, job, held, status, aired>>

\* attachInterrupt clears the pending flag; an edge it did not see is lost.
Attach ==
  /\ Main /\ pc = "attach"
  /\ attached' = 1 /\ edge' = 0
  /\ pc' = "return"
  /\ UNCHANGED <<inq, owed, module, isr, bus, job, held, status, aired>>

---------------------------------------------------------------------------
(* What the main program does next.                                        *)

\* After wifi_senddata: the next turn of the loop or, within an image, the next
\* datagram; after a failure the same datagram once more (put_buf, code 3),
\* betterstatus and the reset (sendstatus), the reset, or the same as after a
\* success: put_buf does not look at the result of its nested call.
SendReturns ==
  /\ Main /\ pc = "return" /\ op = "send"
  /\ \/ /\ pc' \in {"loop", "work"} \cup (IF res = "ok" THEN {} ELSE {"send"})
        /\ UNCHANGED <<job, attached, edge>>
     \/ res = "bad" /\ (Begins("fault", stage, "at") \/ Resets)
  /\ UNCHANGED <<inq, owed, module, isr, bus, held, status, aired>>

FaultReturns ==
  /\ Main /\ pc = "return" /\ op = "fault" /\ Resets
  /\ UNCHANGED <<inq, owed, module, isr, bus, held, status, aired>>

\* ERROR, then WIFIINIT.
ResetReturns ==
  /\ Main /\ pc = "return" /\ op = "reset"
  /\ Begins("setup", 1, "at")
  /\ UNCHANGED <<inq, owed, module, isr, bus, held, status, aired>>

\* setupwifi: wifi_connecttoAp is skipped when the module is joined.
SetupReturns ==
  /\ Main /\ pc = "return" /\ op = "setup"
  /\ IF stage = 3
     THEN pc' = "ready" /\ UNCHANGED <<job, attached, edge>>
     ELSE Begins("setup", IF stage = 1 /\ modemstatus = JOINED THEN 3 ELSE stage + 1,
                 "at")
  /\ UNCHANGED <<inq, owed, module, isr, bus, held, status, aired>>

\* It then waits until wifi_isready, or betterstatus, returns 0, or 10 s.
IsReady ==
  /\ Main /\ pc = "ready"
  /\ IF modemstatus = JOINED
     THEN pc' = "loop" /\ UNCHANGED <<job, attached, edge>>
     ELSE Begins("ready", stage, "at")
  /\ UNCHANGED <<inq, owed, module, isr, bus, held, status, aired>>

ReadyReturns ==
  /\ Main /\ pc = "return" /\ op = "ready"
  /\ \/ res = "ok" /\ pc' = "loop" /\ UNCHANGED <<job, attached, edge>>
     \/ res = "bad" /\ pc' = "ready" /\ UNCHANGED <<job, attached, edge>>
     \/ res = "bad" /\ Resets
  /\ UNCHANGED <<inq, owed, module, isr, bus, held, status, aired>>

Attn   == AttnBegins \/ AttnReads \/ AttnEnds
Module == Arrives \/ Joins \/ Leaves \/ Boots \/ Crashes \/ Answers
Poll   == LoopTop \/ PollReads \/ PollCalls \/ PollEnds \/ PollDone
Start  == ChecksReady \/ Works \/ GivesUp \/ PulsesReset
          \/ Lock \/ LockReads \/ Unlock \/ Write
Answer == WaitReads \/ AtAnswered \/ AtTimesOut \/ TxAnswered \/ TxFails
Finish == FlushSpins \/ FlushEnds \/ DrainReads \/ DrainEnds \/ Attach
Goes   == \/ SendReturns \/ FaultReturns \/ ResetReturns \/ SetupReturns
          \/ IsReady \/ ReadyReturns

MainStep == Poll \/ Start \/ Answer \/ Finish \/ Goes
Next == Module \/ Attn \/ MainStep
Spec == Init /\ [][Next]_vars

\* Both actors of the robot run; rx_frame waits no longer than its timeout.
FairSpec == Spec /\ WF_vars(Attn) /\ WF_vars(MainStep)

---------------------------------------------------------------------------
(* Properties.                                                             *)

TypeOK ==
  /\ inq \in Seq(Frames) /\ owed \in Seq(Debts)
  /\ Len(inq) <= QLEN /\ Len(owed) <= OWED
  /\ {joined, booting, attached, edge, isr, spiRunning, spiLocked, fresh, newest,
      wasJoined} \subseteq Bit
  /\ budget \in 0 .. BUDGET
  /\ pc \in {"loop", "poll", "call", "end", "work", "send", "start", "lock", "write",
             "wait", "flush", "drain", "attach", "return", "ready"}
  /\ op \in {"send", "fault", "ready", "reset", "setup"} /\ stage \in Stages
  /\ ex \in {"at", "set", "write", "tx", "none"} /\ try \in {1, 2}
  /\ res \in {"ok", "bad", "again"}
  /\ held \in Frames /\ modemstatus \in Codes
  /\ aired \in Nat /\ wrong \subseteq Stages

\* No frame of the module is clocked out and lost under a frame of the robot:
\* the bus is empty when the robot writes (XBee.cpp 966-983).  It holds as long
\* as the module queues nothing while CS is asserted, and because nothing
\* releases CS between the last read and the write.
NothingClobbered == pc = "write" => inq = <<>>

\* The bus is released when the main program is not in the driver, and locked
\* only while the driver drains it before it sends.
BusReleased ==
  /\ spiLocked = 1 => pc = "lock"
  /\ spiRunning = 1 => pc \in {"lock", "write", "call", "end"}

\* attn_interrupt never runs into an operation of wifi.cpp: it would read the
\* answer the main program waits for.
HandlerKeptOut == isr = 1 \/ edge = 1 => ~Masked

\* wifi_senddata returns 0 only when the module has sent the datagram, however
\* late answers to older frames come.
ConfirmedIsSent ==
  op = "send" /\ res = "ok" /\ pc \in {"drain", "attach", "return"} => aired >= 1

\* No status of the module is overwritten by an older one, whoever read them:
\* outside a callback modemstatus is not behind the newest one that was read.
\* It fails when the handler overtakes inbound_status in the main program.
StatusIsNewest == pc # "call" => fresh = 1

\* An operation of wifi.cpp ends whatever the module answers or does not
\* answer, unless transmit hangs in flush_spi.
EveryCallReturns ==
  Masked ~> (~Masked \/ (pc = "flush" /\ inq # <<>>))

\* wifi_senddata keeps the promise of Delivery.
Sending == INSTANCE Delivery WITH
  phase  <- IF op # "send" THEN "none"
            ELSE IF Masked THEN "busy" ELSE IF res = "ok" THEN "ok" ELSE "failed",
  copies <- aired
KeepsPromise == Sending!Spec

\* flush_spi comes to an end: "an emergency recovery function to ensure resync
\* of the SPI bus" (XBee.cpp 710-714).
FlushComesBack == (pc = "flush") ~> (pc # "flush")

\* Once setupwifi is through and wifi_isready returns 0, the module has been
\* joined ("returns 0 if connection is established", wifi.h 43-44), or at least
\* has the settings of the three functions ("returns 0 for success", wifi.h
\* 25-35).
ReadyHasGround ==
  pc = "work" /\ modemstatus = JOINED => wasJoined = 1 \/ wrong = {}

=============================================================================
