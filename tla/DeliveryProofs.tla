---------------------------- MODULE DeliveryProofs ----------------------------
(***************************************************************************)
(* Radio implements Delivery, for every length of the queues and any       *)
(* faults: wifi_senddata keeps its promise.                                *)
(*                                                                         *)
(* That a confirmed datagram was sent is known from RadioProofs.  That it  *)
(* is sent twice at most is an argument by counting: how often it has been *)
(* sent (aired), how many debts of the module still carry it, and how many *)
(* attempts transmit has left (Left) are two together at most (Counted).   *)
(***************************************************************************)
EXTENDS RadioProofs

\* The attempts of the running call that are still to be written.
Left ==
  CASE op = "send" /\ (pc \in {"start", "lock", "write"} \/ (pc = "wait" /\ ex # "tx"))
         -> 3 - try
    [] op = "send" /\ (pc = "flush" \/ (pc = "wait" /\ ex = "tx")) -> 2 - try
    [] OTHER -> 0

\* Debt i of q carries the datagram of the newest call.
Carries(q, i) == i \in 1 .. Len(q) /\ q[i].cur = 1

\* At most n debts of q do; the cases are all there are, as transmit is tried
\* twice at most.
Few(q, n) ==
  \/ n = 0 /\ \A i \in 1 .. Len(q) : ~Carries(q, i)
  \/ n = 1 /\ \A i, j \in 1 .. Len(q) : Carries(q, i) /\ Carries(q, j) => i = j
  \/ n = 2 /\ \A i, j, k \in 1 .. Len(q) :
                Carries(q, i) /\ Carries(q, j) /\ Carries(q, k)
                  => i = j \/ j = k \/ i = k

Counted ==
  /\ ex = "tx" => op = "send"
  /\ Few(owed, 2 - aired - Left)

---------------------------------------------------------------------------
(* Counting debts.                                                         *)

\* One may count too many.
LEMMA FewWeaker ==
  ASSUME NEW q \in Seq(Debts), NEW n \in 0 .. 2, NEW m \in n .. 2, Few(q, n)
  PROVE  Few(q, m)
  BY DEF Few

LEMMA FewEmpty ==
  ASSUME NEW n \in 0 .. 2
  PROVE  Few(<<>>, n)
  BY DEF Few

\* A queue whose members are found, in their order, in one with few of them.
LEMMA FewPart ==
  ASSUME NEW q \in Seq(Debts), NEW r \in Seq(Debts), NEW s \in Nat, NEW n \in 0 .. 2,
         Few(q, n),
         \A i \in 1 .. Len(r) : i + s \in 1 .. Len(q) /\ r[i].cur = q[i + s].cur
  PROVE  Few(r, n)
<1>1. \A i \in 1 .. Len(r) : Carries(r, i) => Carries(q, i + s) /\ i + s \in 1 .. Len(q)
  BY DEF Carries
<1>2. \A i, j \in 1 .. Len(r) : i + s = j + s => i = j
  OBVIOUS
<1> QED
  BY <1>1, <1>2 DEF Few

\* Paying the oldest debt.
LEMMA FewTail ==
  ASSUME NEW q \in Seq(Debts), q # <<>>, NEW n \in 0 .. 2, Few(q, n)
  PROVE  /\ Few(Tail(q), n)
         /\ q[1].cur = 1 => n >= 1 /\ Few(Tail(q), n - 1)
<1>1. /\ Tail(q) \in Seq(Debts) /\ Len(Tail(q)) = Len(q) - 1 /\ 1 \in 1 .. Len(q)
      /\ \A i \in 1 .. Len(Tail(q)) : i + 1 \in 1 .. Len(q) /\ Tail(q)[i] = q[i + 1]
  OBVIOUS
<1>2. Few(Tail(q), n)
  BY <1>1, FewPart
<1>3. ASSUME q[1].cur = 1 PROVE n >= 1 /\ Few(Tail(q), n - 1)
  <2>1. Carries(q, 1)
    BY <1>1, <1>3 DEF Carries
  <2>2. \A i \in 1 .. Len(Tail(q)) : Carries(Tail(q), i) =>
          Carries(q, i + 1) /\ i + 1 # 1 /\ i + 1 \in 1 .. Len(q)
    BY <1>1 DEF Carries
  <2>3. n # 0
    BY <1>1, <2>1 DEF Few
  <2>4. CASE n = 1
    BY <1>1, <2>1, <2>2, <2>4 DEF Few
  <2>5. CASE n = 2
    <3>1. ASSUME NEW i \in 1 .. Len(Tail(q)), NEW j \in 1 .. Len(Tail(q)),
                 Carries(Tail(q), i), Carries(Tail(q), j)
          PROVE  i = j
      <4>1. 1 = i + 1 \/ i + 1 = j + 1 \/ 1 = j + 1
        BY <1>1, <2>1, <2>2, <2>5, <3>1 DEF Few
      <4> QED
        BY <4>1
    <3> QED
      BY <2>5, <3>1 DEF Few
  <2> QED
    BY <2>3, <2>4, <2>5
<1> QED
  BY <1>2, <1>3

\* A new debt.
LEMMA FewAppend ==
  ASSUME NEW q \in Seq(Debts), NEW d \in Debts, NEW n \in 0 .. 2, Few(q, n)
  PROVE  /\ d.cur = 0 => Few(Append(q, d), n)
         /\ n < 2 => Few(Append(q, d), n + 1)
<1> DEFINE r == Append(q, d)
<1>1. /\ r \in Seq(Debts) /\ Len(r) = Len(q) + 1 /\ r[Len(q) + 1] = d
      /\ \A i \in 1 .. Len(r) : i # Len(q) + 1 => i \in 1 .. Len(q) /\ r[i] = q[i]
  OBVIOUS
<1> HIDE DEF r
<1>2. \A i \in 1 .. Len(r) : Carries(r, i) =>
        \/ i = Len(q) + 1 /\ d.cur = 1
        \/ i \in 1 .. Len(q) /\ Carries(q, i)
  BY <1>1 DEF Carries
<1>3. d.cur = 0 => Few(r, n)
  <2>1. SUFFICES ASSUME d.cur = 0 PROVE Few(r, n)
    OBVIOUS
  <2>2. \A i \in 1 .. Len(r) : Carries(r, i) => i \in 1 .. Len(q) /\ Carries(q, i)
    BY <1>2, <2>1
  <2> QED
    BY <2>2 DEF Few
<1>4. n = 0 => Few(r, 1)
  BY <1>2 DEF Few
<1>5. n = 1 => Few(r, 2)
  BY <1>2 DEF Few
<1> QED
  BY <1>3, <1>4, <1>5 DEF r

\* Growing older changes nothing; a new call starts without debts.
LEMMA FewOlder ==
  ASSUME NEW q \in Seq(Debts), NEW n \in 0 .. 2, Few(q, n)
  PROVE  Few(Older(q), n)
<1>1. Older(q) \in Seq(Debts) /\ Len(Older(q)) = Len(q)
  BY OlderDebts
<1>2. \A i \in 1 .. Len(Older(q)) : i + 0 \in 1 .. Len(q) /\ Older(q)[i].cur = q[i + 0].cur
  <2> TAKE i \in 1 .. Len(Older(q))
  <2>1. i \in DOMAIN q /\ q[i] \in Debts /\ i + 0 = i
    BY <1>1
  <2>2. Older(q)[i] = [q[i] EXCEPT !.own = 0]
    BY <2>1 DEF Older
  <2> QED
    BY <1>1, <2>1, <2>2 DEF Debts
<1> QED
  BY <1>1, <1>2, FewPart

LEMMA FewSettled ==
  ASSUME NEW q \in Seq(Debts)
  PROVE  Few(Settled(q), 0)
<1>1. Len(Settled(q)) = Len(q)
  BY SettledDebts
<1>2. \A i \in 1 .. Len(Settled(q)) : Settled(q)[i].cur = 0
  <2> TAKE i \in 1 .. Len(Settled(q))
  <2>1. i \in DOMAIN q /\ q[i] \in Debts
    BY <1>1
  <2>2. Settled(q)[i] = [q[i] EXCEPT !.cur = 0]
    BY <2>1 DEF Settled
  <2> QED
    BY <2>1, <2>2 DEF Debts
<1> QED
  BY <1>2 DEF Few, Carries

---------------------------------------------------------------------------
(* Every step keeps the count.                                             *)

LEMMA LeftType ==
  ASSUME TypeOK, Counted
  PROVE  /\ owed \in Seq(Debts) /\ Left \in 0 .. 2 /\ aired \in 0 .. 2
         /\ aired + Left \in 0 .. 2 /\ 2 - aired - Left \in 0 .. 2
  BY DEF TypeOK, Left, Counted, Few

\* A step that sends nothing and does not win back an attempt.
LEMMA CountedKept ==
  ASSUME TypeOK, Counted, UNCHANGED <<owed, aired>>, ex' = "tx" => op' = "send",
         Left' \in 0 .. Left
  PROVE  Counted'
<1> DEFINE n == 2 - aired - Left
           m == 2 - aired - Left'
<1>1. n \in 0 .. 2 /\ m \in n .. 2 /\ owed \in Seq(Debts)
  BY LeftType
<1>2. Few(owed, n)
  BY DEF Counted
<1> HIDE DEF n, m
<1>3. Few(owed, m)
  BY <1>1, <1>2, FewWeaker
<1> QED
  BY <1>3 DEF Counted, m

LEMMA CountedModule ==
  ASSUME TypeOK, Counted, Module
  PROVE  Counted' /\ aired' \in {aired, aired + 1}
<1>1. UNCHANGED <<pc, op, ex, try>> /\ Left' = Left
  BY DEF Module, Arrives, Joins, Leaves, Boots, Crashes, Answers, job, Left
<1>2. owed \in Seq(Debts) /\ Left \in 0 .. 2 /\ aired \in 0 .. 2
      /\ 2 - aired - Left \in 0 .. 2 /\ Few(owed, 2 - aired - Left)
  BY LeftType DEF Counted
<1>3. CASE Arrives \/ Joins \/ Leaves \/ Boots
  <2>1. UNCHANGED <<owed, aired>>
    BY <1>3 DEF Arrives, Joins, Leaves, Boots
  <2> QED
    BY <1>1, <1>2, <2>1, CountedKept DEF Counted
<1>4. CASE Crashes
  BY <1>1, <1>2, <1>4, FewEmpty DEF Crashes, Counted
<1>5. CASE Answers
  <2>1. owed # <<>> /\ owed' = Tail(owed) /\ Head(owed) = owed[1] /\ owed[1] \in Debts
    BY <1>2, <1>5 DEF Answers
  <2>2. owed[1].cur \in Bit
    BY <2>1 DEF Debts
  <2>3. aired' = aired \/ aired' = aired + owed[1].cur
    BY <1>5, <2>1 DEF Answers
  <2>4. CASE aired' = aired
    <3>1. Few(owed', 2 - aired - Left)
      BY <1>2, <2>1, FewTail
    <3> QED
      BY <1>1, <2>4, <3>1 DEF Counted
  <2>5. CASE owed[1].cur = 1 /\ aired' = aired + 1
    <3> DEFINE n == 2 - aired - Left
    <3>1. n \in 0 .. 2 /\ Few(owed, n)
      BY <1>2
    <3> HIDE DEF n
    <3>2. Few(owed', n - 1)
      BY <1>2, <2>1, <2>5, <3>1, FewTail
    <3>3. n - 1 = 2 - aired' - Left'
      BY <1>1, <1>2, <2>5 DEF n
    <3> QED
      BY <1>1, <2>5, <3>2, <3>3 DEF Counted
  <2> QED
    BY <1>2, <2>2, <2>3, <2>4, <2>5 DEF Bit
<1> QED
  BY <1>3, <1>4, <1>5, CountedKept DEF Module, Arrives, Joins, Leaves, Boots, Crashes

\* A transmission gives up an attempt for the debt it leaves.
LEMMA CountedWrite ==
  ASSUME TypeOK, Counted, Write
  PROVE  Counted'
<1> DEFINE d == [kind |-> IF ex = "tx" THEN "tx" ELSE "at", own |-> 1,
                 cur |-> IF ex = "tx" THEN 1 ELSE 0]
           n == 2 - aired - Left
<1>1. /\ owed' = Older(owed) \/ owed' = Append(Older(owed), d)
      /\ UNCHANGED <<op, ex, try, aired>> /\ pc = "write" /\ pc' = "wait"
  BY DEF Write, job
<1>2. n \in 0 .. 2 /\ Few(owed, n) /\ owed \in Seq(Debts) /\ Left \in 0 .. 2
      /\ aired \in 0 .. 2 /\ try \in {1, 2}
  BY LeftType DEF Counted, TypeOK
<1>3. Older(owed) \in Seq(Debts) /\ Few(Older(owed), n)
  BY <1>2, FewOlder, OlderDebts
<1>4. d \in Debts /\ (ex # "tx" => d.cur = 0)
  BY DEF Debts, Bit
<1>5. ex = "tx" => Left = 3 - try /\ Left' = 2 - try
  BY <1>1 DEF Left, Counted
<1>6. ex # "tx" => Left' = Left
  BY <1>1 DEF Left
<1>7. Few(Older(owed), n) /\ (n < 2 => Few(Older(owed), n + 1))
  BY <1>2, <1>3, FewWeaker
<1> HIDE DEF d
<1>8. (ex # "tx" => Few(owed', n)) /\ (ex = "tx" /\ n < 2 => Few(owed', n + 1))
  BY <1>1, <1>2, <1>3, <1>4, <1>7, FewAppend
<1>9. ex = "tx" => n < 2 /\ n + 1 = 2 - aired' - Left'
  BY <1>1, <1>2, <1>5
<1>10. ex # "tx" => n = 2 - aired' - Left'
  BY <1>1, <1>6
<1> HIDE DEF n
<1>11. Few(owed', 2 - aired' - Left')
  BY <1>8, <1>9, <1>10
<1> QED
  BY <1>1, <1>11 DEF Counted

LEMMA CountedStep ==
  ASSUME TypeOK, Counted, [Next]_vars
  PROVE  Counted'
<1> USE DEF Left, Counted, TypeOK
<1>1. CASE Module
  BY <1>1, CountedModule
<1>2. CASE Attn
  BY <1>2, CountedKept DEF Attn, AttnBegins, AttnReads, AttnEnds, job
<1>3. CASE Poll
  BY <1>3, CountedKept
  DEF Poll, LoopTop, PollReads, PollCalls, PollEnds, PollDone, job
<1>4. CASE Works
  <2>1. Few(owed', 0)
    BY <1>4, FewSettled DEF Works, SendData
  <2>2. /\ aired' = 0 /\ op' = "send" /\ pc' = "start" /\ try' = 1
        /\ ex' \in {"at", "tx"}
    BY <1>4 DEF Works, SendData, Begins
  <2>3. 2 - aired' - Left' = 0
    BY <2>2
  <2> QED
    BY <2>1, <2>2, <2>3
<1>5. CASE ChecksReady \/ GivesUp \/ PulsesReset \/ Lock \/ LockReads \/ Unlock
  <2>1. CASE PulsesReset
    <3>1. owed' = <<>> /\ UNCHANGED <<op, ex, try, aired>> /\ Left' = 0 /\ op = "reset"
      BY <2>1 DEF PulsesReset, job
    <3>2. 2 - aired' - Left' \in 0 .. 2
      BY <3>1, LeftType
    <3> QED
      BY <3>1, <3>2, FewEmpty
  <2>2. CASE ChecksReady \/ Lock \/ LockReads \/ Unlock
    BY <2>2, CountedKept DEF ChecksReady, Lock, LockReads, Unlock, job
  <2>3. CASE GivesUp
    BY <2>3, CountedKept DEF GivesUp, Resets, Begins
  <2> QED
    BY <1>5, <2>1, <2>2, <2>3
<1>6. CASE Write
  BY <1>6, CountedWrite
<1>7. CASE WaitReads \/ TxAnswered \/ TxFails
  BY <1>7, CountedKept DEF WaitReads, TxAnswered, TxFails, job
<1>8. CASE AtAnswered \/ AtTimesOut
  BY <1>8, CountedKept DEF AtAnswered, AtTimesOut, AtReturns, job
<1>9. CASE Finish
  BY <1>9, CountedKept
  DEF Finish, FlushSpins, FlushEnds, DrainReads, DrainEnds, Attach, job
<1>10. CASE Goes
  BY <1>10, CountedKept
  DEF Goes, SendReturns, FaultReturns, ResetReturns, SetupReturns, IsReady,
      ReadyReturns, Begins, Resets, job
<1>11. CASE UNCHANGED vars
  BY <1>11, CountedKept DEF vars, job
<1> QED
  BY <1>1, <1>2, <1>3, <1>4, <1>5, <1>6, <1>7, <1>8, <1>9, <1>10, <1>11
  DEF Next, MainStep, Start, Answer

---------------------------------------------------------------------------
(* The refinement.                                                         *)

\* What Delivery sees as the phase of the newest call, and its steps on that
\* and on the number of copies.
Phase == IF op # "send" THEN "none"
         ELSE IF Masked THEN "busy" ELSE IF res = "ok" THEN "ok" ELSE "failed"

PromiseStep == [Sending!Next]_<<Phase, aired>>

LEMMA SendingStep ==
  /\ PromiseStep <=> \/ Phase # "busy" /\ Phase' = "busy" /\ aired' = 0
                     \/ aired < 2 /\ aired' = aired + 1 /\ Phase' = Phase
                     \/ Phase = "busy" /\ aired >= 1 /\ Phase' = "ok" /\ aired' = aired
                     \/ Phase = "busy" /\ Phase' = "failed" /\ aired' = aired
                     \/ Phase \in {"ok", "failed"} /\ Phase' = "none" /\ aired' = aired
                     \/ Phase' = Phase /\ aired' = aired
  BY DEF PromiseStep, Phase, Sending!Next, Sending!Call, Sending!Air, Sending!Succeed,
         Sending!Fail, Sending!Forget

LEMMA PromiseKeptStep ==
  ASSUME IInv, IInv', Counted, [Next]_vars
  PROVE  PromiseStep
<1> USE SendingStep DEF Phase, Masked
<1>1. CASE Module
  <2>1. UNCHANGED <<pc, op, res>>
    BY <1>1 DEF Module, Arrives, Joins, Leaves, Boots, Crashes, Answers, job
  <2>2. aired' \in {aired, aired + 1} /\ aired \in 0 .. 2 /\ aired' \in 0 .. 2
    <3>1. Counted' /\ TypeOK /\ TypeOK'
      BY <1>1, CountedModule DEF IInv
    <3> QED
      BY <1>1, <3>1, CountedModule, LeftType DEF Counted, Few, Left, TypeOK
  <2> QED
    BY <2>1, <2>2
<1>2. CASE Attn
  BY <1>2 DEF Attn, AttnBegins, AttnReads, AttnEnds, job
<1>3. CASE Poll
  BY <1>3 DEF Poll, LoopTop, PollReads, PollCalls, PollEnds, PollDone, job
<1>4. CASE Start
  <2>1. CASE Works
    BY <2>1 DEF Works, SendData, Begins
  <2>2. CASE GivesUp
    BY <2>2 DEF GivesUp, Resets, Begins
  <2>3. CASE ChecksReady \/ PulsesReset \/ Lock \/ LockReads \/ Unlock \/ Write
    BY <2>3 DEF ChecksReady, PulsesReset, Lock, LockReads, Unlock, Write, job
  <2> QED
    BY <1>4, <2>1, <2>2, <2>3 DEF Start
<1>5. CASE Answer
  BY <1>5 DEF Answer, WaitReads, AtAnswered, AtTimesOut, AtReturns, TxAnswered, TxFails,
              job
<1>6. CASE Attach
  <2>1. /\ pc = "attach" /\ pc' = "return" /\ UNCHANGED <<op, res, aired>>
        /\ op = "send" /\ res = "ok" => aired >= 1
    BY <1>6 DEF Attach, job, IInv, Answered, ConfirmedIsSent
  <2> QED
    BY <2>1
<1>7. CASE FlushSpins \/ FlushEnds \/ DrainReads \/ DrainEnds
  BY <1>7 DEF FlushSpins, FlushEnds, DrainReads, DrainEnds, job
<1>8. CASE Goes
  BY <1>8 DEF Goes, SendReturns, FaultReturns, ResetReturns, SetupReturns, IsReady,
              ReadyReturns, Begins, Resets, job
<1>9. CASE UNCHANGED vars
  BY <1>9 DEF vars, job
<1> QED
  BY <1>1, <1>2, <1>3, <1>4, <1>5, <1>6, <1>7, <1>8, <1>9 DEF Next, MainStep, Finish

\* wifi_senddata does what its callers rely on, whatever the module loses, says
\* late or does not say at all: it sends a datagram twice at most, and reports
\* success only when it was sent (wifi.cpp 302-306).
THEOREM PromiseKept == Spec => KeepsPromise
<1>1. Init => Counted /\ Phase = "none" /\ aired = 0
  BY DEF Init, Counted, Few, Carries, Left, Phase
<1>2. IInv /\ Counted /\ [Next]_vars => (IInv /\ Counted)'
  BY InvariantStep, CountedStep DEF IInv
<1>3. IInv /\ Counted /\ [Next]_vars => PromiseStep
  BY InvariantStep, PromiseKeptStep
<1> QED
  BY <1>1, <1>2, <1>3, InitInvariant, PTL
  DEF Spec, KeepsPromise, Sending!Spec, Sending!Init, PromiseStep, Phase

---------------------------------------------------------------------------
(* What bounds an operation of wifi.cpp.                                   *)

\* The exchanges the operation can still come to, after the running one.
Exchanges == CASE ex = "at" -> 3
               [] ex = "set" -> 2
               [] ex = "tx" -> 2 - try
               [] OTHER -> 0

\* How far the operation is from its end.
Rank == CASE pc = "start" -> 10 * Exchanges + 7
          [] pc = "lock"  -> 10 * Exchanges + 6
          [] pc = "write" -> 10 * Exchanges + 5
          [] pc = "wait"  -> 10 * Exchanges + 4
          [] pc = "flush" -> 10 * Exchanges + 3
          [] pc = "drain" -> 2
          [] OTHER        -> 1

Hangs == pc = "flush" /\ inq # <<>>

\* A step of the operation comes nearer to the end, or reads a frame; the handler
\* does not come between.
Advances ==
  \/ Module /\ Rank' = Rank
  \/ ~Masked'
  \/ Rank' \in Nat /\ Rank' < Rank
  \/ Rank' = Rank /\ Len(inq') < Len(inq)

Flushing == pc = "flush" => ex = "tx"

LEMMA TakeShortens ==
  ASSUME TypeOK, Take
  PROVE  Len(inq') < Len(inq)
<1>1. inq \in Seq(Frames) /\ inq # <<>>
  BY DEF TypeOK, Take
<1> QED
  BY <1>1 DEF Take

LEMMA RankType == TypeOK => Rank \in 1 .. 37
<1> SUFFICES ASSUME TypeOK PROVE Rank \in 1 .. 37
  OBVIOUS
<1>1. try \in {1, 2}
  BY DEF TypeOK
<1>2. Exchanges \in {0, 1, 2, 3}
  BY <1>1 DEF Exchanges
<1> QED
  BY <1>2 DEF Rank

LEMMA FlushingStep ==
  ASSUME TypeOK, Flushing, [Next]_vars
  PROVE  Flushing'
<1> USE DEF Flushing
<1>1. CASE Module \/ Attn
  BY <1>1 DEF Module, Arrives, Joins, Leaves, Boots, Crashes, Answers, Attn, AttnBegins,
              AttnReads, AttnEnds, job
<1>2. CASE Poll \/ Goes
  BY <1>2 DEF Poll, LoopTop, PollReads, PollCalls, PollEnds, PollDone, Goes,
              SendReturns, FaultReturns, ResetReturns, SetupReturns, IsReady,
              ReadyReturns, Begins, Resets
<1>3. CASE Start
  BY <1>3 DEF Start, ChecksReady, Works, SendData, GivesUp, Resets, Begins,
              PulsesReset, Lock, LockReads, Unlock, Write, job
<1>4. CASE Answer \/ Finish
  BY <1>4 DEF Answer, WaitReads, AtAnswered, AtTimesOut, AtReturns, TxAnswered, TxFails,
              Finish, FlushSpins, FlushEnds, DrainReads, DrainEnds, Attach, job
<1>5. CASE UNCHANGED vars
  BY <1>5 DEF vars, job
<1> QED
  BY <1>1, <1>2, <1>3, <1>4, <1>5 DEF Next, MainStep

LEMMA AdvancesStep ==
  ASSUME IInv, Counted, Flushing, Next, Masked, ~Hangs
  PROVE  Advances
<1>1. TypeOK
  BY DEF IInv
<1> USE DEF Advances, Rank, Exchanges
<1>2. CASE Module
  BY <1>2 DEF Module, Arrives, Joins, Leaves, Boots, Crashes, Answers, job
<1>3. CASE Attn \/ Poll \/ Goes \/ ChecksReady \/ Works \/ GivesUp
  BY <1>1, <1>3
  DEF Masked, IInv, Kept, TypeOK, Bit, Attn, AttnBegins, AttnReads, AttnEnds, Poll,
      LoopTop, PollReads, PollCalls, PollEnds, PollDone, Goes, SendReturns,
      FaultReturns, ResetReturns, SetupReturns, IsReady, ReadyReturns, ChecksReady,
      Works, GivesUp
<1>4. CASE PulsesReset \/ Lock \/ Unlock \/ Write
  BY <1>1, <1>4 DEF PulsesReset, Lock, Unlock, Write, job, TypeOK
<1>5. CASE LockReads \/ WaitReads \/ DrainReads
  BY <1>1, <1>5, TakeShortens DEF LockReads, WaitReads, DrainReads, job
<1>6. CASE AtAnswered \/ AtTimesOut
  <2>1. pc = "wait" /\ ex \in {"at", "set", "write", "none"} /\ try \in {1, 2}
    BY <1>1, <1>6 DEF AtAnswered, AtTimesOut, TypeOK
  <2>2. \/ pc' = "drain"
        \/ pc' = "start" /\ ex = "at" /\ ex' \in {"set", "write", "tx"} /\ try' = try
        \/ pc' = "start" /\ ex = "set" /\ ex' \in {"write", "tx"} /\ try' = try
    BY <1>6 DEF AtAnswered, AtTimesOut, AtReturns
  <2>3. Rank \in Nat /\ Rank >= 4
    BY <2>1
  <2>4. CASE pc' = "drain"
    BY <2>3, <2>4
  <2>5. CASE pc' = "start" /\ ex' = "set" /\ ex = "at"
    BY <2>1, <2>5
  <2>6. CASE pc' = "start" /\ ex' = "write" /\ ex \in {"at", "set"}
    BY <2>1, <2>6
  <2>7. CASE pc' = "start" /\ ex' = "tx" /\ ex \in {"at", "set"} /\ try' = try
    BY <2>1, <2>7
  <2> QED
    BY <2>2, <2>4, <2>5, <2>6, <2>7
<1>7. CASE TxAnswered \/ TxFails \/ FlushEnds
  BY <1>1, <1>7 DEF TxAnswered, TxFails, FlushEnds, TypeOK, Flushing
<1>8. CASE FlushSpins \/ DrainEnds \/ Attach
  BY <1>1, <1>8 DEF FlushSpins, DrainEnds, Attach, Hangs, Masked, TypeOK, job
<1> QED
  BY <1>2, <1>3, <1>4, <1>5, <1>6, <1>7, <1>8
  DEF Next, MainStep, Start, Answer, Finish

\* What EveryCallReturns rests on besides fairness: unless transmit hangs in
\* flush_spi, no step of an operation of wifi.cpp leads back.  It either reads
\* one of the frames the module has, or gets nearer to the end by a measure that
\* nothing the module does raises, and which is at most 37.
THEOREM CallsAdvance ==
  Spec => [](Masked => Rank \in 1 .. 37) /\ [][Masked /\ ~Hangs => Advances]_vars
<1>1. Init => Counted /\ Flushing
  BY DEF Init, Counted, Few, Carries, Left, Flushing
<1>2. IInv /\ Counted /\ Flushing /\ [Next]_vars => (IInv /\ Counted /\ Flushing)'
  BY InvariantStep, CountedStep, FlushingStep DEF IInv
<1>3. IInv /\ Counted /\ Flushing /\ [Next]_vars => [Masked /\ ~Hangs => Advances]_vars
  BY AdvancesStep
<1>4. IInv => (Masked => Rank \in 1 .. 37)
  BY RankType DEF IInv
<1> QED
  BY <1>1, <1>2, <1>3, <1>4, InitInvariant, PTL DEF Spec

=============================================================================
