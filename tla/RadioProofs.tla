----------------------------- MODULE RadioProofs -----------------------------
(***************************************************************************)
(* Proofs about Radio, for every length of the queues and any faults.      *)
(*                                                                         *)
(* IInv says, next to the types, which part of the driver holds the bus    *)
(* (Bus), that the handler is detached and quiet in every operation of     *)
(* wifi.cpp (Kept), and that while transmit waits, every answer that would *)
(* satisfy it, and every debt that could become one, belongs to the        *)
(* datagram of the running call (Answered).  HeldBus adds what a module    *)
(* that holds back gives.                                                  *)
(***************************************************************************)
EXTENDS Radio, SequenceTheorems, TLAPS

Bus  == BusReleased /\ (pc = "lock" => spiLocked = 1)

Kept == /\ Masked => attached = 0 /\ isr = 0
        /\ attached = 0 => edge = 0

Success(f) == f.kind = "tx" /\ f.own = 1 /\ f.val = 0

Waiting == pc = "wait" /\ ex = "tx"

Answered ==
  /\ pc = "flush" => res # "ok"
  /\ Waiting => \A i \in 1 .. Len(owed) : owed[i].own = 1 => owed[i].cur = 1
  /\ Waiting => \A i \in 1 .. Len(inq) : Success(inq[i]) => aired >= 1
  /\ ConfirmedIsSent

IInv == TypeOK /\ Bus /\ Kept /\ Answered

HeldBus ==
  /\ pc \in {"lock", "write", "call", "end"} => spiRunning = 1 /\ isr = 0 /\ edge = 0
  /\ pc = "call" => IF held.kind = "modem" THEN newest = 1 ELSE fresh = 1
  /\ StatusIsNewest
  /\ NothingClobbered

---------------------------------------------------------------------------
(* The queues.                                                             *)

LEMMA OlderFrame ==
  ASSUME NEW f \in Frames
  PROVE  [f EXCEPT !.own = 0] \in Frames /\ [f EXCEPT !.own = 0].own = 0
<1>1. 0 \in Bit
  BY DEF Bit
<1> QED
  BY <1>1 DEF Frames

LEMMA OlderDebt ==
  ASSUME NEW d \in Debts
  PROVE  /\ [d EXCEPT !.own = 0] \in Debts /\ [d EXCEPT !.own = 0].own = 0
         /\ [d EXCEPT !.cur = 0] \in Debts
<1>1. 0 \in Bit
  BY DEF Bit
<1> QED
  BY <1>1 DEF Debts

LEMMA OlderFrames ==
  ASSUME NEW q \in Seq(Frames)
  PROVE  /\ Older(q) \in Seq(Frames) /\ Len(Older(q)) = Len(q)
         /\ \A i \in 1 .. Len(q) : Older(q)[i].own = 0
<1> DEFINE aged(i) == [q[i] EXCEPT !.own = 0]
<1>1. \A i \in 1 .. Len(q) : aged(i) \in Frames /\ aged(i).own = 0
  <2> TAKE i \in 1 .. Len(q)
  <2>1. q[i] \in Frames
    OBVIOUS
  <2> QED
    BY <2>1, OlderFrame
<1>2. Older(q) = [i \in 1 .. Len(q) |-> aged(i)]
  BY DEF Older
<1> HIDE DEF aged
<1> QED
  BY <1>1, <1>2

LEMMA OlderDebts ==
  ASSUME NEW q \in Seq(Debts)
  PROVE  /\ Older(q) \in Seq(Debts) /\ Len(Older(q)) = Len(q)
         /\ \A i \in 1 .. Len(q) : Older(q)[i].own = 0
<1> DEFINE aged(i) == [q[i] EXCEPT !.own = 0]
<1>1. \A i \in 1 .. Len(q) : aged(i) \in Debts /\ aged(i).own = 0
  <2> TAKE i \in 1 .. Len(q)
  <2>1. q[i] \in Debts
    OBVIOUS
  <2> QED
    BY <2>1, OlderDebt
<1>2. Older(q) = [i \in 1 .. Len(q) |-> aged(i)]
  BY DEF Older
<1> HIDE DEF aged
<1> QED
  BY <1>1, <1>2

LEMMA SettledDebts ==
  ASSUME NEW q \in Seq(Debts)
  PROVE  Settled(q) \in Seq(Debts) /\ Len(Settled(q)) = Len(q)
<1> DEFINE paid(i) == [q[i] EXCEPT !.cur = 0]
<1>1. \A i \in 1 .. Len(q) : paid(i) \in Debts
  <2> TAKE i \in 1 .. Len(q)
  <2>1. q[i] \in Debts
    OBVIOUS
  <2> QED
    BY <2>1, OlderDebt
<1>2. Settled(q) = [i \in 1 .. Len(q) |-> paid(i)]
  BY DEF Settled
<1> HIDE DEF paid
<1> QED
  BY <1>1, <1>2

\* What a write of the robot leaves of the module's frames is part of them, or
\* noise.
LEMMA ClobberedFrames ==
  ASSUME NEW q \in Seq(Frames), \A i \in 1 .. Len(q) : q[i].own = 0,
         NEW c \in Clobbered(q)
  PROVE  /\ c \in Seq(Frames) /\ Len(c) <= Len(q)
         /\ \A i \in 1 .. Len(c) : c[i].own = 0
<1>0. Noise \in Frames /\ Noise.own = 0
  BY DEF Noise, Frame, Frames, Bit, Codes
<1>1. CASE c = <<>>
  BY <1>1
<1>2. ASSUME NEW k \in 1 .. Len(q), c = <<Noise>> \o SubSeq(q, k + 1, Len(q))
      PROVE  /\ c \in Seq(Frames) /\ Len(c) <= Len(q)
             /\ \A i \in 1 .. Len(c) : c[i].own = 0
  <2> DEFINE s == SubSeq(q, k + 1, Len(q))
  <2>1. s \in Seq(Frames) /\ Len(s) = Len(q) - k
    OBVIOUS
  <2>2. \A i \in 1 .. Len(s) : s[i] = q[k + i]
    OBVIOUS
  <2>3. \A i \in 1 .. Len(s) : s[i].own = 0
    BY <2>1, <2>2
  <2> HIDE DEF s
  <2>4. c = <<Noise>> \o s
    BY <1>2 DEF s
  <2> DEFINE n == <<Noise>>
  <2>7. n \in Seq(Frames) /\ Len(n) = 1 /\ n[1] = Noise
    BY <1>0
  <2>8. c = n \o s
    BY <2>4
  <2> HIDE DEF n
  <2>9. /\ n \o s \in Seq(Frames) /\ Len(n \o s) = Len(n) + Len(s)
        /\ \A i \in 1 .. Len(n) + Len(s) :
             (n \o s)[i] = IF i <= Len(n) THEN n[i] ELSE s[i - Len(n)]
    <3>1. s \in Seq(Frames) /\ n \in Seq(Frames)
      BY <2>1, <2>7
    <3> QED
      BY <3>1, ConcatProperties, Zenon
  <2>5. c \in Seq(Frames) /\ Len(c) = Len(s) + 1
    BY <2>1, <2>7, <2>8, <2>9
  <2>6. \A i \in 1 .. Len(c) : c[i] = IF i = 1 THEN Noise ELSE s[i - 1]
    <3> TAKE i \in 1 .. Len(c)
    <3>1. i \in 1 .. Len(n) + Len(s) /\ (i <= Len(n) <=> i = 1)
      BY <2>1, <2>5, <2>7
    <3>2. c[i] = IF i <= Len(n) THEN n[i] ELSE s[i - Len(n)]
      BY <3>1, <2>8, <2>9
    <3> QED
      BY <3>1, <3>2, <2>7
  <2>10. \A i \in 1 .. Len(c) : c[i].own = 0
    <3> TAKE i \in 1 .. Len(c)
    <3>1. CASE i = 1
      BY <3>1, <2>6, <1>0
    <3>2. CASE i # 1
      <4>1. i - 1 \in 1 .. Len(s)
        BY <3>2, <2>1, <2>5
      <4> QED
        BY <4>1, <3>2, <2>3, <2>6
    <3> QED
      BY <3>1, <3>2
  <2> QED
    BY <2>1, <2>5, <2>10
<1> QED
  BY <1>1, <1>2 DEF Clobbered

\* Reading a frame leaves the others.
LEMMA TakeFrames ==
  ASSUME TypeOK, Take
  PROVE  /\ Head(inq) \in Frames /\ Head(inq) = inq[1] /\ Len(inq) >= 1
         /\ inq' \in Seq(Frames) /\ Len(inq') <= QLEN
         /\ \A i \in 1 .. Len(inq') : \E j \in 1 .. Len(inq) : inq'[i] = inq[j]
<1>1. inq \in Seq(Frames) /\ inq # <<>> /\ Len(inq) <= QLEN
  BY DEF TypeOK, Take
<1>2. CASE inq' = <<>>
  BY <1>1, <1>2, BoundAssumption
<1>3. CASE inq' = Tail(inq)
  <2>1. inq' \in Seq(Frames) /\ Len(inq') = Len(inq) - 1
    BY <1>1, <1>3
  <2>2. \A i \in 1 .. Len(inq') : inq'[i] = inq[i + 1] /\ i + 1 \in 1 .. Len(inq)
    BY <1>1, <1>3, <2>1
  <2> QED
    BY <1>1, <2>1, <2>2, BoundAssumption
<1> QED
  BY <1>2, <1>3 DEF Take

\* A frame of the module joins the queue at its end.
LEMMA QueuesFrames ==
  ASSUME TypeOK, NEW f \in Frames, Queues(f)
  PROVE  /\ inq' \in Seq(Frames) /\ Len(inq') <= QLEN
         /\ \A i \in 1 .. Len(inq') : inq'[i] = f
                                      \/ (i \in 1 .. Len(inq) /\ inq'[i] = inq[i])
         /\ edge' \in Bit /\ (attached = 0 => edge' = edge)
         /\ ~(HoldsBack /\ spiRunning = 1)
<1>1. inq \in Seq(Frames) /\ Len(inq) < QLEN /\ Len(inq) \in Nat /\ inq' = Append(inq, f)
  BY DEF TypeOK, Queues, CanQueue
<1>2. inq' \in Seq(Frames) /\ Len(inq') = Len(inq) + 1
  BY <1>1
<1>3. \A i \in 1 .. Len(inq') : IF i = Len(inq) + 1 THEN inq'[i] = f ELSE inq'[i] = inq[i]
  BY <1>1, <1>2
<1>4. edge' \in Bit /\ (attached = 0 => edge' = edge) /\ ~(HoldsBack /\ spiRunning = 1)
  BY DEF TypeOK, Queues, CanQueue, Bit
<1> QED
  BY <1>1, <1>2, <1>3, <1>4, BoundAssumption

---------------------------------------------------------------------------
(* Types.                                                                  *)

LEMMA NewFrames ==
  /\ Noise \in Frames
  /\ \A k \in {"ip", "modem", "tx", "at", "broken"}, o \in Bit, v \in Codes :
       Frame(k, o, v) \in Frames
<1>1. Noise \in Frames
  BY DEF Noise, Frame, Frames, Bit, Codes
<1>2. ASSUME NEW k \in {"ip", "modem", "tx", "at", "broken"}, NEW o \in Bit,
             NEW v \in Codes
      PROVE  Frame(k, o, v) \in Frames
  BY DEF Frame, Frames
<1> QED
  BY <1>1, <1>2

\* The statuses after inbound_status.
LEMMA RecordTypes ==
  ASSUME TypeOK, NEW f \in Frames, Record(f)
  PROVE  modemstatus' \in Codes /\ fresh' \in Bit /\ newest' \in Bit
<1>1. f.val \in Codes
  BY DEF Frames
<1> QED
  BY <1>1 DEF Record, TypeOK, status, Bit

LEMMA ModuleTypes ==
  ASSUME TypeOK, Module
  PROVE  TypeOK'
<1> USE NewFrames, QueuesFrames, BoundAssumption DEF Bit, Codes, RESET, JOINED,
    NO_LONGER_JOINED
<1>1. CASE Arrives
  BY <1>1 DEF Arrives, TypeOK, bus, job, status
<1>2. CASE Joins
  BY <1>2 DEF Joins, TypeOK, bus, job, status
<1>3. CASE Leaves
  BY <1>3 DEF Leaves, TypeOK, bus, job, status
<1>4. CASE Boots
  BY <1>4 DEF Boots, TypeOK, bus, job, status
<1>5. CASE Crashes
  BY <1>5 DEF Crashes, TypeOK, bus, irq, job, status
<1>6. CASE Answers
  <2> DEFINE d == Head(owed)
  <2>1. d \in Debts /\ owed' \in Seq(Debts) /\ Len(owed') <= OWED
    BY <1>6 DEF Answers, TypeOK
  <2>2. d.own \in Bit /\ d.cur \in Bit
    BY <2>1 DEF Debts
  <2>3. aired' \in Nat
    BY <1>6, <2>2 DEF Answers, TypeOK
  <2>4. \E f \in Frames : Queues(f)
    BY <1>6, <2>2 DEF Answers, TypeOK
  <2> QED
    BY <1>6, <2>1, <2>3, <2>4 DEF Answers, TypeOK, module, bus, job, status
<1> QED
  BY <1>1, <1>2, <1>3, <1>4, <1>5, <1>6 DEF Module

LEMMA ReadingTypes ==
  ASSUME TypeOK, Attn \/ Poll
  PROVE  TypeOK'
<1> USE TakeFrames, BoundAssumption DEF Bit
<1>1. CASE AttnBegins
  BY <1>1 DEF AttnBegins, TypeOK, module, bus, job, status
<1>2. CASE AttnReads
  BY <1>2, RecordTypes DEF AttnReads, TypeOK, module, irq, job, spiEnd
<1>3. CASE AttnEnds
  BY <1>3 DEF AttnEnds, TypeOK, module, bus, job, status
<1>4. CASE LoopTop
  BY <1>4 DEF LoopTop, TypeOK, module, bus, irq, job, status
<1>5. CASE PollReads
  BY <1>5 DEF PollReads, TypeOK, module, irq, job
<1>6. CASE PollCalls
  <2>1. held.val \in Codes
    BY DEF TypeOK, Frames
  <2> QED
    BY <1>6, <2>1, NewFrames DEF PollCalls, TypeOK, module, bus, irq, job, status
<1>7. CASE PollEnds
  BY <1>7 DEF PollEnds, TypeOK, module, irq, job, status, spiEnd
<1>8. CASE PollDone
  BY <1>8 DEF PollDone, TypeOK, module, bus, irq, job, status
<1> QED
  BY <1>1, <1>2, <1>3, <1>4, <1>5, <1>6, <1>7, <1>8 DEF Attn, Poll

LEMMA StartTypes ==
  ASSUME TypeOK, Start
  PROVE  TypeOK'
<1> USE BoundAssumption DEF Bit
<1>1. CASE Works
  BY <1>1, SettledDebts DEF Works, SendData, Begins, TypeOK, module, bus, status
<1>8. CASE ChecksReady
  BY <1>8 DEF ChecksReady, TypeOK, module, bus, irq, job, status
<1>2. CASE GivesUp
  BY <1>2 DEF GivesUp, Resets, Begins, TypeOK, module, bus, status
<1>3. CASE PulsesReset
  BY <1>3 DEF PulsesReset, TypeOK, bus, irq, job, status
<1>4. CASE Lock
  BY <1>4 DEF Lock, TypeOK, module, irq, job, status
<1>5. CASE LockReads
  BY <1>5, TakeFrames, RecordTypes DEF LockReads, TypeOK, module, irq, job, spiEnd
<1>6. CASE Unlock
  BY <1>6 DEF Unlock, TypeOK, module, irq, job, status
<1>7. CASE Write
  <2>1. inq' \in Seq(Frames) /\ Len(inq') <= QLEN
    <3>1. inq \in Seq(Frames) /\ Len(inq) <= QLEN
      BY DEF TypeOK
    <3>2. Older(inq) \in Seq(Frames) /\ Len(Older(inq)) = Len(inq)
          /\ \A i \in 1 .. Len(Older(inq)) : Older(inq)[i].own = 0
      BY <3>1, OlderFrames
    <3>3. inq' \in Clobbered(Older(inq))
      BY <1>7 DEF Write
    <3>4. inq' \in Seq(Frames) /\ Len(inq') <= Len(Older(inq))
      BY <3>2, <3>3, ClobberedFrames
    <3> QED
      BY <3>1, <3>2, <3>4
  <2>2. owed' \in Seq(Debts) /\ Len(owed') <= OWED
    <3> DEFINE d == [kind |-> IF ex = "tx" THEN "tx" ELSE "at", own |-> 1,
                     cur |-> IF ex = "tx" THEN 1 ELSE 0]
    <3>1. d \in Debts
      BY DEF Debts
    <3>2. Older(owed) \in Seq(Debts) /\ Len(Older(owed)) = Len(owed)
      BY OlderDebts DEF TypeOK
    <3>3. owed' = Older(owed) \/ (owed' = Append(Older(owed), d) /\ Len(owed) < OWED)
      BY <1>7 DEF Write
    <3> QED
      BY <3>1, <3>2, <3>3 DEF TypeOK
  <2>3. wrong' \subseteq Stages
    BY <1>7 DEF Write, TypeOK
  <2> QED
    BY <1>7, <2>1, <2>2, <2>3 DEF Write, TypeOK, irq, job, status, spiEnd
<1> QED
  BY <1>1, <1>2, <1>3, <1>4, <1>5, <1>6, <1>7, <1>8 DEF Start

LEMMA AnswerTypes ==
  ASSUME TypeOK, Answer
  PROVE  TypeOK'
<1> USE TakeFrames DEF Bit
<1>1. CASE WaitReads
  BY <1>1, RecordTypes DEF WaitReads, TypeOK, module, bus, irq, job
<1>2. ASSUME NEW good, NEW v, AtReturns(good, v)
      PROVE  /\ pc' \in {"start", "drain"} /\ ex' \in {"at", "set", "write", "tx", "none"}
             /\ res' \in {"ok", "bad", "again"} /\ modemstatus' \in Codes
             /\ UNCHANGED <<op, stage, try, fresh, newest>>
  BY <1>2 DEF AtReturns, TypeOK, job, status, JOINED, Codes
<1>3. CASE AtAnswered
  BY <1>2, <1>3 DEF AtAnswered, TypeOK, module, bus, irq
<1>4. CASE AtTimesOut
  BY <1>2, <1>4 DEF AtTimesOut, TypeOK, module, bus, irq
<1>5. CASE TxAnswered
  BY <1>5 DEF TxAnswered, TypeOK, module, bus, irq, status
<1>6. CASE TxFails
  BY <1>6 DEF TxFails, TypeOK, module, bus, irq, status
<1> QED
  BY <1>1, <1>3, <1>4, <1>5, <1>6 DEF Answer

LEMMA FinishTypes ==
  ASSUME TypeOK, Finish
  PROVE  TypeOK'
<1> USE TakeFrames, BoundAssumption DEF Bit
<1>1. CASE FlushSpins
  BY <1>1 DEF FlushSpins, TypeOK, module, bus, irq, job, status
<1>2. CASE FlushEnds
  BY <1>2 DEF FlushEnds, TypeOK, module, bus, irq, status
<1>3. CASE DrainReads
  BY <1>3, RecordTypes DEF DrainReads, TypeOK, module, bus, irq, job
<1>4. CASE DrainEnds
  BY <1>4 DEF DrainEnds, TypeOK, module, bus, irq, job, status
<1>5. CASE Attach
  BY <1>5 DEF Attach, TypeOK, module, bus, job, status
<1> QED
  BY <1>1, <1>2, <1>3, <1>4, <1>5 DEF Finish

LEMMA GoesTypes ==
  ASSUME TypeOK, Goes
  PROVE  TypeOK'
<1> USE DEF Bit, Begins, Resets
<1>1. CASE SendReturns
  BY <1>1 DEF SendReturns, TypeOK, module, bus, job, status
<1>2. CASE FaultReturns
  BY <1>2 DEF FaultReturns, TypeOK, module, bus, status
<1>3. CASE ResetReturns
  BY <1>3 DEF ResetReturns, TypeOK, module, bus, status, Stages
<1>4. CASE SetupReturns
  BY <1>4 DEF SetupReturns, TypeOK, module, bus, job, status, Stages
<1>5. CASE IsReady
  BY <1>5 DEF IsReady, TypeOK, module, bus, job, status
<1>6. CASE ReadyReturns
  BY <1>6 DEF ReadyReturns, TypeOK, module, bus, job, status
<1> QED
  BY <1>1, <1>2, <1>3, <1>4, <1>5, <1>6 DEF Goes

LEMMA TypeStep ==
  ASSUME TypeOK, [Next]_vars
  PROVE  TypeOK'
<1>1. CASE UNCHANGED vars
  BY <1>1 DEF vars, TypeOK, module, bus, irq, job, status
<1> QED
  BY <1>1, ModuleTypes, ReadingTypes, StartTypes, AnswerTypes, FinishTypes, GoesTypes
  DEF Next, MainStep

LEMMA InitTypes == Init => TypeOK
  BY FactoryAssumption, BoundAssumption, NewFrames
  DEF Init, TypeOK, Bit, Codes, RESET, Stages

---------------------------------------------------------------------------
(* The bus and the handler.                                                *)

LEMMA BusStep ==
  ASSUME TypeOK, Bus, [Next]_vars
  PROVE  Bus'
<1> USE DEF Bus, BusReleased
<1>1. CASE Module
  BY <1>1 DEF Module, Arrives, Joins, Leaves, Boots, Crashes, Answers, bus
<1>2. CASE AttnReads
  BY <1>2 DEF AttnReads, spiEnd
<1>3. CASE AttnBegins \/ AttnEnds
  BY <1>3 DEF AttnBegins, AttnEnds, bus
<1>4. CASE PollReads
  BY <1>4 DEF PollReads
<1>5. CASE PollEnds
  BY <1>5 DEF PollEnds, spiEnd
<1>6. CASE LoopTop \/ PollCalls \/ PollDone
  BY <1>6 DEF LoopTop, PollCalls, PollDone, bus
<1>7. CASE Lock \/ Unlock
  BY <1>7 DEF Lock, Unlock
<1>8. CASE LockReads
  BY <1>8 DEF LockReads, spiEnd
<1>9. CASE Write
  <2>1. spiLocked # 1 /\ spiRunning \in Bit
    BY <1>9 DEF Write, TypeOK
  <2> QED
    BY <1>9, <2>1 DEF Write, spiEnd
<1>10. CASE ChecksReady \/ Works \/ GivesUp \/ PulsesReset
  BY <1>10 DEF ChecksReady, Works, SendData, GivesUp, Resets, Begins, PulsesReset, bus
<1>11. CASE Answer
  BY <1>11 DEF Answer, WaitReads, AtAnswered, AtTimesOut, AtReturns, TxAnswered,
               TxFails, bus
<1>12. CASE Finish
  BY <1>12 DEF Finish, FlushSpins, FlushEnds, DrainReads, DrainEnds, Attach, bus
<1>13. CASE Goes
  BY <1>13 DEF Goes, SendReturns, FaultReturns, ResetReturns, SetupReturns,
               IsReady, ReadyReturns, Begins, Resets, bus
<1>14. CASE UNCHANGED vars
  BY <1>14 DEF vars, bus
<1> QED
  BY <1>1, <1>2, <1>3, <1>4, <1>5, <1>6, <1>7, <1>8, <1>9, <1>10, <1>11, <1>12,
     <1>13, <1>14
  DEF Next, MainStep, Attn, Poll, Start

\* The pending edge and the handler: an edge is noted only while the handler is
\* attached, and the main program enters an operation only when it is quiet.
LEMMA KeptStep ==
  ASSUME TypeOK, Kept, [Next]_vars
  PROVE  Kept'
<1> USE DEF Kept, Masked, Main
<1>1. CASE Module
  <2>1. UNCHANGED <<pc, attached, isr>>
    BY <1>1 DEF Module, Arrives, Joins, Leaves, Boots, Crashes, Answers, irq
  <2>2. attached = 0 => edge' = edge
    BY <1>1 DEF Module, Arrives, Joins, Leaves, Boots, Crashes, Answers, Queues, irq
  <2> QED
    BY <2>1, <2>2
<1>2. CASE Attn
  BY <1>2 DEF Attn, AttnBegins, AttnReads, AttnEnds, irq
<1>3. CASE Poll
  BY <1>3 DEF Poll, LoopTop, PollReads, PollCalls, PollEnds, PollDone, irq
<1>4. CASE Start
  <2>1. CASE Works \/ GivesUp
    BY <2>1 DEF Works, SendData, GivesUp, Resets, Begins, TypeOK, Bit
  <2>2. CASE ChecksReady \/ PulsesReset \/ Lock \/ LockReads \/ Unlock \/ Write
    BY <2>2 DEF ChecksReady, PulsesReset, Lock, LockReads, Unlock, Write, irq
  <2> QED
    BY <1>4, <2>1, <2>2 DEF Start
<1>5. CASE Answer
  BY <1>5 DEF Answer, WaitReads, AtAnswered, AtTimesOut, AtReturns, TxAnswered,
              TxFails, irq
<1>6. CASE Finish
  BY <1>6 DEF Finish, FlushSpins, FlushEnds, DrainReads, DrainEnds, Attach, irq
<1>7. CASE Goes
  BY <1>7 DEF Goes, SendReturns, FaultReturns, ResetReturns, SetupReturns,
              IsReady, ReadyReturns, Begins, Resets
<1>8. CASE UNCHANGED vars
  BY <1>8 DEF vars, irq
<1> QED
  BY <1>1, <1>2, <1>3, <1>4, <1>5, <1>6, <1>7, <1>8 DEF Next, MainStep

---------------------------------------------------------------------------
(* The answer transmit takes for its own.                                  *)

\* What the module does keeps every promise it has made: an answer to the
\* running datagram is queued only after it was sent.
LEMMA ModuleAnswered ==
  ASSUME TypeOK, Answered, Module
  PROVE  Answered'
<1> USE DEF Waiting, ConfirmedIsSent
<1>1. UNCHANGED <<pc, op, ex, res>>
  BY DEF Module, Arrives, Joins, Leaves, Boots, Crashes, Answers, job
<1>2. CASE Arrives \/ Joins \/ Leaves \/ Boots
  <2>1. UNCHANGED <<owed, aired>>
    BY <1>2 DEF Arrives, Joins, Leaves, Boots
  <2>2. PICK f \in Frames : Queues(f) /\ ~Success(f)
    BY <1>2, NewFrames DEF Arrives, Joins, Leaves, Boots, Frame, Noise, Success,
                           Codes, Bit, RESET, JOINED, NO_LONGER_JOINED
  <2>3. \A i \in 1 .. Len(inq') : Success(inq'[i]) =>
          i \in 1 .. Len(inq) /\ inq'[i] = inq[i]
    BY <2>2, QueuesFrames
  <2> QED
    BY <1>1, <2>1, <2>3 DEF Answered
<1>3. CASE Crashes
  BY <1>1, <1>3 DEF Crashes, Answered
<1>4. CASE Answers
  <2> DEFINE d == Head(owed)
  <2>1. owed \in Seq(Debts) /\ owed # <<>> /\ owed' = Tail(owed) /\ aired \in Nat
    BY <1>4 DEF Answers, TypeOK
  <2>2. d \in Debts /\ d = owed[1] /\ 1 \in 1 .. Len(owed)
    BY <2>1
  <2>3. d.own \in Bit /\ d.cur \in Bit
    BY <2>2 DEF Debts
  <2>4. \A i \in 1 .. Len(owed') : i + 1 \in 1 .. Len(owed) /\ owed'[i] = owed[i + 1]
    BY <2>1
  <2>5. aired' \in Nat /\ aired' >= aired
    BY <1>4, <2>1, <2>3 DEF Answers, Bit
  <2>6. PICK f \in Frames :
          Queues(f) /\ (Success(f) => d.own = 1 /\ aired' = aired + d.cur)
    <3>1. Noise \in Frames /\ Frame("tx", d.own, 0) \in Frames
          /\ Frame("tx", d.own, 1) \in Frames /\ Frame("broken", 0, 0) \in Frames
          /\ Frame("at", d.own, 1 - joined) \in Frames
          /\ Frame("at", d.own, 2) \in Frames
      BY <2>3, NewFrames DEF Bit, Codes, TypeOK
    <3> HIDE DEF d
    <3>2. /\ ~Success(Frame("tx", d.own, 1)) /\ ~Success(Frame("broken", 0, 0))
          /\ ~Success(Frame("at", d.own, 1 - joined)) /\ ~Success(Frame("at", d.own, 2))
          /\ Success(Frame("tx", d.own, 0)) => d.own = 1
      BY DEF Success, Frame
    <3>3. \/ aired' = aired + d.cur /\ Queues(Frame("tx", d.own, 0))
          \/ Queues(Frame("broken", 0, 0))
          \/ Queues(Frame("tx", d.own, 1))
          \/ Queues(Frame("at", d.own, 1 - joined))
          \/ Queues(Frame("at", d.own, 2))
      BY <1>4 DEF Answers, d
    <3> QED
      BY <3>1, <3>2, <3>3
  <2>7. \A i \in 1 .. Len(inq') :
          inq'[i] = f \/ (i \in 1 .. Len(inq) /\ inq'[i] = inq[i])
    BY <2>6, QueuesFrames
  <2>8. Waiting => (Success(f) => aired' >= 1)
    BY <2>1, <2>2, <2>3, <2>6 DEF Answered
  <2>9. Waiting' => \A i \in 1 .. Len(inq') : Success(inq'[i]) => aired' >= 1
    <3>1. SUFFICES ASSUME Waiting, NEW i \in 1 .. Len(inq'), Success(inq'[i])
                   PROVE  aired' >= 1
      BY <1>1
    <3>2. CASE inq'[i] = f
      BY <2>8, <3>1, <3>2
    <3>3. CASE i \in 1 .. Len(inq) /\ inq'[i] = inq[i]
      BY <2>1, <2>5, <3>1, <3>3 DEF Answered
    <3> QED
      BY <2>7, <3>2, <3>3
  <2>10. Waiting' => \A i \in 1 .. Len(owed') : owed'[i].own = 1 => owed'[i].cur = 1
    BY <1>1, <2>4 DEF Answered
  <2>11. ConfirmedIsSent' /\ (pc' = "flush" => res' # "ok")
    BY <1>1, <2>1, <2>5 DEF Answered
  <2> QED
    BY <2>9, <2>10, <2>11 DEF Answered
<1> QED
  BY <1>2, <1>3, <1>4 DEF Module

\* Steps of the robot outside transmit that read or leave frames.
LEMMA OtherAnswered ==
  ASSUME TypeOK, Kept, Answered, ~Waiting', UNCHANGED aired,
         pc' = "flush" => res' # "ok",
         op' = "send" /\ res' = "ok" /\ pc' \in {"drain", "attach", "return"} =>
           op = "send" /\ res = "ok" /\ pc \in {"drain", "attach", "return"}
  PROVE  Answered'
  BY DEF Answered, Waiting, ConfirmedIsSent

LEMMA TakenAnswered ==
  ASSUME TypeOK, Answered, Waiting, Waiting', Take, UNCHANGED <<owed, aired, res>>
  PROVE  Answered'
<1>1. \A i \in 1 .. Len(inq') : \E j \in 1 .. Len(inq) : inq'[i] = inq[j]
  BY TakeFrames
<1>2. \A i \in 1 .. Len(inq') : Success(inq'[i]) => aired >= 1
  BY <1>1 DEF Answered
<1> QED
  BY <1>2 DEF Answered, Waiting, ConfirmedIsSent

\* A write leaves nothing that could be taken for the answer.
LEMMA WriteAnswered ==
  ASSUME TypeOK, Answered, Write
  PROVE  Answered'
<1>1. \A i \in 1 .. Len(inq') : ~Success(inq'[i])
  <2>1. inq \in Seq(Frames)
    BY DEF TypeOK
  <2>2. Older(inq) \in Seq(Frames) /\ Len(Older(inq)) = Len(inq)
        /\ \A i \in 1 .. Len(Older(inq)) : Older(inq)[i].own = 0
    BY <2>1, OlderFrames
  <2>3. inq' \in Clobbered(Older(inq))
    BY DEF Write
  <2>4. \A i \in 1 .. Len(inq') : inq'[i].own = 0
    BY <2>2, <2>3, ClobberedFrames
  <2> QED
    BY <2>4 DEF Success
<1>2. Waiting' => \A i \in 1 .. Len(owed') : owed'[i].own = 1 => owed'[i].cur = 1
  <2> DEFINE d == [kind |-> IF ex = "tx" THEN "tx" ELSE "at", own |-> 1,
                   cur |-> IF ex = "tx" THEN 1 ELSE 0]
  <2>1. SUFFICES ASSUME ex = "tx"
                 PROVE  \A i \in 1 .. Len(owed') : owed'[i].own = 1 => owed'[i].cur = 1
    BY DEF Write, Waiting, job
  <2>2. d.cur = 1
    BY <2>1
  <2>3. owed \in Seq(Debts)
    BY DEF TypeOK
  <2>4. Older(owed) \in Seq(Debts) /\ Len(Older(owed)) = Len(owed)
        /\ \A i \in 1 .. Len(Older(owed)) : Older(owed)[i].own = 0
    BY <2>3, OlderDebts
  <2>5. owed' = Older(owed) \/ owed' = Append(Older(owed), d)
    BY DEF Write
  <2> HIDE DEF d
  <2>6. CASE owed' = Older(owed)
    BY <2>4, <2>6
  <2>7. CASE owed' = Append(Older(owed), d)
    <3>1. \A i \in 1 .. Len(owed') :
            owed'[i] = d \/ (i \in 1 .. Len(Older(owed)) /\ owed'[i] = Older(owed)[i])
      BY <2>4, <2>7
    <3> QED
      BY <2>2, <2>4, <3>1
  <2> QED
    BY <2>5, <2>6, <2>7
<1>3. pc' = "wait" /\ UNCHANGED res
  BY DEF Write, job
<1> QED
  BY <1>1, <1>2, <1>3 DEF Answered, ConfirmedIsSent

LEMMA AnsweredStep ==
  ASSUME TypeOK, Kept, Answered, [Next]_vars
  PROVE  Answered'
<1>1. CASE Module
  BY <1>1, ModuleAnswered
<1>2. CASE Attn
  <2>1. ~Masked /\ UNCHANGED <<pc, op, ex, res, aired>>
    BY <1>2 DEF Attn, AttnBegins, AttnReads, AttnEnds, job, Kept, TypeOK, Bit
  <2>2. ~Waiting /\ ~Waiting' /\ pc # "flush"
    BY <2>1 DEF Masked, Waiting
  <2> QED
    BY <2>1, <2>2, OtherAnswered
<1>3. CASE Poll
  <2>1. UNCHANGED <<op, ex, res, aired>>
        /\ pc' \in {"poll", "call", "end", "work"}
    BY <1>3 DEF Poll, LoopTop, PollReads, PollCalls, PollEnds, PollDone, job
  <2> QED
    BY <2>1, OtherAnswered DEF Waiting
<1>4. CASE Works
  <2>1. pc' = "start"
    BY <1>4 DEF Works, SendData, Begins
  <2> QED
    BY <2>1 DEF Answered, Waiting, ConfirmedIsSent
<1>5. CASE ChecksReady \/ GivesUp \/ PulsesReset \/ Lock \/ LockReads \/ Unlock
  <2>1. UNCHANGED aired /\ pc' \in {"send", "start", "lock", "write", "drain"}
        /\ (pc' = "drain" => op' = "reset")
    BY <1>5 DEF ChecksReady, GivesUp, Resets, Begins, PulsesReset, Lock, LockReads,
                Unlock, job
  <2> QED
    BY <2>1, OtherAnswered DEF Waiting
<1>6. CASE Write
  BY <1>6, WriteAnswered
<1>7. CASE WaitReads
  <2>1. Take /\ UNCHANGED <<owed, aired, res, pc, ex>>
    BY <1>7 DEF WaitReads, job
  <2>2. CASE Waiting
    BY <2>1, <2>2, TakenAnswered DEF Waiting
  <2>3. CASE ~Waiting
    <3>1. pc = "wait"
      BY <1>7 DEF WaitReads
    <3> QED
      BY <2>1, <2>3, <3>1, OtherAnswered DEF Waiting
  <2> QED
    BY <2>2, <2>3
<1>8. CASE AtAnswered \/ AtTimesOut
  <2>1. UNCHANGED aired /\ pc' \in {"start", "drain"}
        /\ (pc' = "drain" => op' # "send")
    BY <1>8 DEF AtAnswered, AtTimesOut, AtReturns, job
  <2> QED
    BY <2>1, OtherAnswered DEF Waiting
<1>9. CASE TxAnswered
  <2>1. Waiting /\ Head(inq) = inq[1] /\ 1 \in 1 .. Len(inq) /\ UNCHANGED aired
    BY <1>9, TakeFrames DEF TxAnswered, Waiting
  <2>2. pc' \in {"drain", "flush"} /\ (pc' = "flush" => res' = "bad")
        /\ (res' = "ok" => Success(Head(inq)))
    BY <1>9 DEF TxAnswered, TxOwn, Success
  <2>3. res' = "ok" => aired' >= 1
    BY <2>1, <2>2 DEF Answered
  <2> QED
    BY <2>2, <2>3 DEF Answered, Waiting, ConfirmedIsSent
<1>10. CASE TxFails
  <2>1. pc' = "flush" /\ res' = "again"
    BY <1>10 DEF TxFails
  <2> QED
    BY <2>1 DEF Answered, Waiting, ConfirmedIsSent
<1>11. CASE FlushEnds
  <2>1. pc' = "start" \/ (pc' = "drain" /\ res' = "bad")
    BY <1>11 DEF FlushEnds
  <2> QED
    BY <2>1 DEF Answered, Waiting, ConfirmedIsSent
<1>12. CASE FlushSpins \/ DrainReads \/ DrainEnds \/ Attach
  <2>1. UNCHANGED <<op, ex, res, aired>>
        /\ (pc' = "flush" => pc = "flush") /\ pc' # "wait"
        /\ (pc' \in {"drain", "attach", "return"} =>
               pc \in {"drain", "attach", "return"})
    BY <1>12 DEF FlushSpins, DrainReads, DrainEnds, Attach, job
  <2> QED
    BY <2>1, OtherAnswered DEF Answered, Waiting
<1>13. CASE Goes
  <2>1. UNCHANGED aired /\ pc' \in {"start", "send", "loop", "work", "ready"}
    BY <1>13 DEF Goes, SendReturns, FaultReturns, ResetReturns, SetupReturns,
                 IsReady, ReadyReturns, Begins, Resets
  <2> QED
    BY <2>1, OtherAnswered DEF Waiting
<1>14. CASE UNCHANGED vars
  BY <1>14 DEF vars, job, Answered, Waiting, ConfirmedIsSent
<1> QED
  BY <1>1, <1>2, <1>3, <1>4, <1>5, <1>6, <1>7, <1>8, <1>9, <1>10, <1>11, <1>12,
     <1>13, <1>14
  DEF Next, MainStep, Start, Answer, Finish

---------------------------------------------------------------------------
(* What a module that holds back gives.                                    *)

LEMMA HeldModule ==
  ASSUME HoldsBack, TypeOK, HeldBus, Module
  PROVE  HeldBus'
<1>1. UNCHANGED <<pc, isr, spiRunning, held, fresh, newest>>
  BY DEF Module, Arrives, Joins, Leaves, Boots, Crashes, Answers, bus, irq, status
<1>2. CASE spiRunning = 1
  <2>1. ~CanQueue
    BY <1>2 DEF CanQueue
  <2>2. inq' = <<>> /\ edge' = edge
    BY <2>1 DEF Module, Arrives, Joins, Leaves, Boots, Crashes, Answers, Queues, irq
  <2> QED
    BY <1>1, <2>2 DEF HeldBus, StatusIsNewest, NothingClobbered
<1>3. CASE spiRunning # 1
  BY <1>1, <1>3 DEF HeldBus, StatusIsNewest, NothingClobbered
<1> QED
  BY <1>2, <1>3

\* A status that is read and recorded in one step is the newest.
LEMMA RecordFresh ==
  ASSUME NEW f, Record(f)
  PROVE  (fresh = 1 => fresh' = 1)
  BY DEF Record, status

LEMMA HeldReading ==
  ASSUME TypeOK, Bus, HeldBus, Attn \/ Poll
  PROVE  HeldBus'
<1> USE DEF HeldBus, StatusIsNewest, NothingClobbered, Main
<1>1. CASE AttnBegins
  BY <1>1 DEF AttnBegins, bus, status
<1>2. CASE AttnReads
  BY <1>2, RecordFresh DEF AttnReads, irq
<1>3. CASE AttnEnds
  BY <1>3 DEF AttnEnds, bus, status
<1>4. CASE LoopTop
  BY <1>4 DEF LoopTop, status
<1>5. CASE PollReads
  BY <1>5 DEF PollReads, irq
<1>6. CASE PollCalls
  BY <1>6 DEF PollCalls, bus, irq, status
<1>7. CASE PollEnds
  BY <1>7 DEF PollEnds, status
<1>8. CASE PollDone
  BY <1>8 DEF PollDone, status
<1> QED
  BY <1>1, <1>2, <1>3, <1>4, <1>5, <1>6, <1>7, <1>8 DEF Attn, Poll

LEMMA HeldOperation ==
  ASSUME TypeOK, Bus, HeldBus, Start \/ Answer \/ Finish \/ Goes
  PROVE  HeldBus'
<1> USE DEF HeldBus, StatusIsNewest, NothingClobbered, Main
<1>1. CASE Lock
  BY <1>1 DEF Lock, irq, status
<1>2. CASE LockReads
  BY <1>2, RecordFresh DEF LockReads, spiEnd, irq, Bus
<1>3. CASE Unlock
  BY <1>3 DEF Unlock, irq, status
<1>4. CASE Write
  BY <1>4 DEF Write, status
<1>5. CASE ChecksReady \/ Works \/ GivesUp \/ PulsesReset
  BY <1>5 DEF ChecksReady, Works, SendData, GivesUp, Resets, Begins, PulsesReset, status
<1>6. CASE WaitReads
  BY <1>6, RecordFresh DEF WaitReads
<1>7. CASE AtAnswered \/ AtTimesOut
  BY <1>7 DEF AtAnswered, AtTimesOut, AtReturns, status
<1>8. CASE TxAnswered \/ TxFails
  BY <1>8 DEF TxAnswered, TxFails, status
<1>9. CASE DrainReads
  BY <1>9, RecordFresh DEF DrainReads
<1>10. CASE FlushSpins \/ FlushEnds \/ DrainEnds \/ Attach
  BY <1>10 DEF FlushSpins, FlushEnds, DrainEnds, Attach, status
<1>11. CASE Goes
  BY <1>11 DEF Goes, SendReturns, FaultReturns, ResetReturns, SetupReturns,
               IsReady, ReadyReturns, Begins, Resets, status
<1> QED
  BY <1>1, <1>2, <1>3, <1>4, <1>5, <1>6, <1>7, <1>8, <1>9, <1>10, <1>11
  DEF Start, Answer, Finish

LEMMA HeldStep ==
  ASSUME HoldsBack, TypeOK, Bus, HeldBus, [Next]_vars
  PROVE  HeldBus'
<1>1. CASE UNCHANGED vars
  BY <1>1 DEF vars, bus, irq, status, HeldBus, StatusIsNewest, NothingClobbered
<1> QED
  BY <1>1, HeldModule, HeldReading, HeldOperation DEF Next, MainStep

---------------------------------------------------------------------------
(* The theorems.                                                           *)

LEMMA InitInvariant == Init => IInv /\ HeldBus
<1> SUFFICES ASSUME Init PROVE IInv /\ HeldBus
  OBVIOUS
<1>1. TypeOK
  BY InitTypes
<1>2. Bus /\ Kept /\ Answered
  BY DEF Init, Bus, BusReleased, Kept, Masked, Answered, Waiting, ConfirmedIsSent
<1>3. HeldBus
  BY DEF Init, HeldBus, StatusIsNewest, NothingClobbered
<1> QED
  BY <1>1, <1>2, <1>3 DEF IInv

LEMMA InvariantStep == IInv /\ [Next]_vars => IInv'
  BY TypeStep, BusStep, KeptStep, AnsweredStep DEF IInv

LEMMA Invariant == Spec => []IInv
  BY InitInvariant, InvariantStep, PTL DEF Spec

\* Queues, statuses and the variables of the driver keep their types: in
\* particular transmit is tried at most twice.
THEOREM TypeCorrect == Spec => []TypeOK
<1>1. IInv => TypeOK
  BY DEF IInv
<1> QED
  BY <1>1, Invariant, PTL

\* Outside the driver the bus is free, and it is locked only while the driver
\* drains it before it sends (spiStart, spiEnd, spiLock: XBee.cpp 102-127).
THEOREM BusIsReleased == Spec => []BusReleased
<1>1. IInv => BusReleased
  BY DEF IInv, Bus
<1> QED
  BY <1>1, Invariant, PTL

\* attn_interrupt runs into no operation of wifi.cpp, and no edge is left over
\* for it there.
THEOREM HandlerIsKeptOut == Spec => []HandlerKeptOut
<1>1. IInv => HandlerKeptOut
  BY DEF IInv, Kept, HandlerKeptOut, TypeOK, Bit
<1> QED
  BY <1>1, Invariant, PTL

\* A datagram whose call returns 0 has been sent, whatever the module loses,
\* and however late it answers older frames.
THEOREM ConfirmedSent == Spec => []ConfirmedIsSent
<1>1. IInv => ConfirmedIsSent
  BY DEF IInv, Answered
<1> QED
  BY <1>1, Invariant, PTL

LEMMA HeldInvariant ==
  ASSUME HoldsBack
  PROVE  Spec => [](IInv /\ HeldBus)
<1>1. IInv /\ HeldBus /\ [Next]_vars => (IInv /\ HeldBus)'
  BY InvariantStep, HeldStep DEF IInv
<1> QED
  BY <1>1, InitInvariant, PTL DEF Spec

\* With a module that queues nothing while CS is asserted, the robot writes
\* only to an empty bus.
THEOREM NothingIsClobbered ==
  ASSUME HoldsBack
  PROVE  Spec => []NothingClobbered
<1>1. HeldBus => NothingClobbered
  BY DEF HeldBus
<1> QED
  BY <1>1, HeldInvariant, PTL

\* With such a module the handler never overtakes a callback of the main
\* program, so that modemstatus does not go back to an older status.
THEOREM StatusNewest ==
  ASSUME HoldsBack
  PROVE  Spec => []StatusIsNewest
<1>1. HeldBus => StatusIsNewest
  BY DEF HeldBus
<1> QED
  BY <1>1, HeldInvariant, PTL

=============================================================================
