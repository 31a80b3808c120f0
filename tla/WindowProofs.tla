----------------------------- MODULE WindowProofs -----------------------------
(***************************************************************************)
(* Why two blocks more than the width of the window are enough for an      *)
(* encoder that walks the lines in order: the driver never has to drop a   *)
(* line (NeverDropsALine of LineBuffer), for any size of image and buffer. *)
(*                                                                         *)
(* Every block that is not EMPTY has a line.  The camera takes a line only *)
(* when it is in the window around the one the encoder has asked for, and  *)
(* the window moves on with it; so what needs an argument are the lines    *)
(* that stay linked behind the window.  There are two at most: the line p  *)
(* that the encoder was at when the frame began, which it may have         *)
(* finished before the camera came to it, and the one before.  All lines   *)
(* the encoder has walked over since were taken in this frame and freed,   *)
(* and the camera does not come back to them in it (Pace).                 *)
(***************************************************************************)
EXTENDS LineBufferProofs, FiniteSetTheorems

Succ(l) == IF l = HEIGHT - 1 THEN 0 ELSE l + 1
Pred(l) == IF l = 0 THEN HEIGHT - 1 ELSE l - 1

\* The consumer is encodeimage, which walks the lines in order.
EncodeOrder ==
  Encodes /\ FirstLine = 0 /\ \A l \in Lines : NextLine[l] = Succ(l)

\* Two blocks more than the window is wide; MAXNUMBER is twice its width.
Room == MAXNUMBER >= LINEBUFFERSIZE + 2

\* Line l comes strictly after p and before r on the way round.
Between(p, l, r) ==
  \/ p < l /\ l < r
  \/ r < p /\ (p < l \/ l < r)

\* The camera is past line l and has left nothing there.
Walked(l) == mitl[l] = NoBlock /\ l < linecount

\* The consumer's line and the one last asked for.
Asking ==
  /\ pc \in {"poll", "wait", "lock", "use", "free", "unlink", "release"} => line = lrl
  /\ pc = "detach_href" => line = lrl \/ blk = NoBlock
  /\ pc \in {"idle", "finish"} => line \in {lrl, Succ(lrl)}
  /\ pc \in {"idle", "finish"} /\ ended = 1 => line = Succ(lrl)
  /\ pc = "idle" /\ line = 0 => ended = 0
  /\ pc = "free" => (ended = 1 <=> blk = NoBlock)
  /\ pc \in {"again_request", "again_blocks", "again_links", "again_href",
             "again_vsync", "camera_setup"} => line = 0 /\ ended = 0
  /\ pc \in {"attach_vsync", "again_blocks", "again_links", "again_href",
             "again_vsync", "camera_setup"} => lrl = 0

\* A FULL block was filled in this frame.
Fresh ==
  /\ ended = 1 => pc \notin {"unlink", "release"}
  /\ \A l \in Lines : Holds(mitl[l], FULL) => l < linecount

\* The frame began when the encoder was at line p.
BeganAt(p) ==
  /\ \A l \in Lines : mitl[l] # NoBlock => Wanted(l, lrl) \/ l \in {p, Pred(p)}
  /\ ended = 0 \/ pc \in {"free", "idle", "finish"} =>
       \A l \in Lines : Between(p, l, lrl) => Walked(l)
  /\ pc \in {"use", "free", "unlink"} /\ blk # NoBlock => p = lrl \/ lrl < linecount
  /\ pc = "release" => p = lrl \/ Walked(lrl)
  /\ pc \in {"idle", "finish"} /\ ended = 0 /\ line # lrl => p = lrl \/ Walked(lrl)
  /\ pc = "attach_vsync" => p = lrl

Pace == Clean => Fresh /\ \E p \in Lines : BeganAt(p)

---------------------------------------------------------------------------
(* The way round the lines.                                                *)

LEMMA Round ==
  ASSUME NEW l \in Lines
  PROVE  /\ Succ(l) \in Lines /\ Pred(l) \in Lines
         /\ Succ(l) # l /\ Pred(l) # l /\ Pred(Succ(l)) = l /\ Succ(Pred(l)) = l
  BY HeightAssumption DEF Succ, Pred, Lines

LEMMA BetweenSelf ==
  ASSUME NEW p \in Lines, NEW l \in Lines
  PROVE  ~Between(p, l, p)
  BY DEF Between, Lines

\* The window moves on by a line: the line before the requested one leaves it.
LEMMA WindowMoves ==
  ASSUME NEW l \in Lines, NEW r \in Lines, Wanted(l, r), ~Wanted(l, Succ(r))
  PROVE  l = Pred(r)
  BY HeightAssumption, SizeAssumption DEF Wanted, Succ, Pred, Lines, BACK, FRONT

\* It always has the requested line and the one before.
LEMMA WindowHas ==
  ASSUME NEW r \in Lines
  PROVE  Wanted(r, r) /\ Wanted(Pred(r), r)
  BY HeightAssumption, SizeAssumption DEF Wanted, Pred, Lines, BACK, FRONT

LEMMA BetweenMoves ==
  ASSUME NEW p \in Lines, NEW l \in Lines, NEW r \in Lines
  PROVE  /\ Succ(r) # p /\ Between(p, l, Succ(r)) => Between(p, l, r) \/ (l = r /\ r # p)
         /\ Succ(r) = p => Between(p, l, r) \/ l \in {p, r}
         /\ r # p /\ Pred(r) # p => Between(p, Pred(r), r)
  BY HeightAssumption DEF Between, Succ, Pred, Lines

---------------------------------------------------------------------------
(* The consumer's request.                                                 *)

LEMMA AskingStep ==
  ASSUME EncodeOrder, TypeOK, Freeing, Asking, [Next]_vars
  PROVE  Asking'
<1> USE DEF Asking, memory, camera, driver, pending, consumer, ghosts
<1>1. CASE Handler
  BY <1>1 DEF Handler, vsyncrising, hrefrising, hreffalling
<1>2. CASE Camera \/ AtnBegins \/ AtnEnds
  BY <1>2 DEF Camera, VsyncFalls, HrefRises, HrefFalls, AtnBegins, AtnEnds
<1>3. CASE Request \/ Poll \/ PollAgain \/ Timeout \/ Lock \/ Finish
  BY <1>3 DEF Request, Poll, PollAgain, Timeout, Lock, Finish
<1>4. CASE Use \/ UseFails
  BY <1>4 DEF Use, UseFails, EncodeOrder, Freeing, Bit, TypeOK
<1>5. CASE FreeLine \/ Unlink \/ Release
  <2>1. line \in Lines /\ ended \in Bit
    BY DEF TypeOK
  <2>2. NextLine[line] = Succ(line) /\ FirstLine = 0 /\ Encodes
    BY <2>1 DEF EncodeOrder
  <2>3. CASE Advance
    BY <1>5, <2>1, <2>2, <2>3 DEF Advance, FreeLine, Unlink, Release, Bit
  <2>4. CASE ~Advance
    BY <1>5, <2>4 DEF FreeLine, Unlink, Release
  <2> QED
    BY <2>3, <2>4
<1>6. CASE DetachHref \/ DetachVsync \/ AttachVsync
  BY <1>6 DEF DetachHref, DetachVsync, AttachVsync, EncodeOrder
<1>7. CASE StopInitMem
  BY <1>7 DEF StopInitMem, InitMem, EncodeOrder
<1>8. CASE SecondInit
  BY <1>8 DEF SecondInit, InitAgain, AgainRequest, AgainBlocks, AgainLinks, DisableHref,
              DisableVsync, NewChannel, EncodeOrder, Bit, TypeOK
<1>9. CASE UNCHANGED vars
  BY <1>9 DEF vars
<1> QED
  BY <1>1, <1>2, <1>3, <1>4, <1>5, <1>6, <1>7, <1>8, <1>9 DEF Next, MainStep

---------------------------------------------------------------------------
(* The frame: what the handlers do to the links.                           *)

\* startdmaline links one line of the window, to a block it locks.
LEMMA StartDmaLinks ==
  ASSUME NEW lc \in Nat, NEW bs \in StateTable, NEW ml \in LinkTable,
         StartDmaLine(lc, bs, ml)
  PROVE  /\ \A b \in Blocks : bstate'[b] \in {bs[b], LOCKED_BY_DRIVER}
         /\ \A l \in Lines : mitl'[l] # NoBlock =>
              \/ mitl'[l] = ml[l]
              \/ l = lc /\ Wanted(l, lrl) /\ bstate'[mitl'[l]] = LOCKED_BY_DRIVER
<1>1. CASE ~ (Wanted(lc, lrl) /\ ml[lc] = NoBlock)
  BY <1>1 DEF StartDmaLine
<1>2. CASE Wanted(lc, lrl) /\ ml[lc] = NoBlock
  <2>1. PICK b \in Blocks :
          /\ mitl' = [Unlinked(bs, ml, b) EXCEPT ![lc] = b]
          /\ bstate' = [bs EXCEPT ![b] = LOCKED_BY_DRIVER]
    BY <1>2 DEF StartDmaLine
  <2>2. \A l \in Lines : l # lc => mitl'[l] \in {ml[l], NoBlock}
    BY <2>1 DEF Unlinked
  <2>3. lc \in Lines => mitl'[lc] = b
    BY <2>1 DEF Unlinked
  <2> QED
    BY <1>2, <2>1, <2>2, <2>3 DEF StateTable
<1> QED
  BY <1>1, <1>2

\* The frame goes on: no line is linked behind the window.
LEMMA FrameGoesOn ==
  ASSUME TypeOK, NEW p \in Lines, BeganAt(p),
         UNCHANGED <<pc, line, blk, ended, lrl>>,
         linecount' \in Nat, linecount <= linecount',
         \A l \in Lines : mitl'[l] # NoBlock => mitl[l] # NoBlock \/ Wanted(l, lrl),
         \A l \in Lines : Walked(l) => Walked(l)'
  PROVE  BeganAt(p)'
  BY DEF BeganAt, TypeOK, Lines

\* vsyncrising begins a frame, with what the consumer has of the last one.
LEMMA FrameBeginsHere ==
  ASSUME IInv, Clean, Asking, Pace, vsyncrising,
         NEW p \in Lines, p = lrl
  PROVE  Fresh' /\ BeganAt(p)'
<1> DEFINE bs == CleanedBlocks(bstate, mitl)
           ml == CleanedLinks(bstate, mitl)
<1>1. /\ TypeOK /\ Edges /\ Count /\ Capture /\ Freeing
      /\ Tidy(bstate, mitl) /\ Owned /\ InSync /\ Fresh
  BY DEF IInv, Linked, Clean, Pace
<1>2. /\ UNCHANGED <<pc, line, blk, ended, lrl>> /\ CanServeV /\ linecount' = 0
      /\ StartDmaLine(0, bs, ml)
      /\ line \in Lines /\ lrl \in Lines
  BY <1>1 DEF vsyncrising, consumer, TypeOK
<1>3. bs \in StateTable /\ ml \in LinkTable
  BY <1>1, CleanedType DEF TypeOK
<1>4. Tidy(bs, ml)
  BY <1>1, <1>2, CleanedTidy DEF Freeing, CanServeV, Edges, ShortPcs
<1>5. \A b \in Blocks : bs[b] # LOCKED_BY_DRIVER
  BY <1>1, <1>2, CleanedNoDriver
<1>6. \A b \in Blocks : bs[b] # FULL /\ (bs[b] # EMPTY => bs[b] = bstate[b])
  BY <1>1 DEF CleanedBlocks, Tidy, EMPTY, FULL
<1>7. \A l \in Lines : ml[l] # NoBlock => ml[l] = mitl[l] /\ mitl[l] \in Blocks
  BY <1>1 DEF CleanedLinks, TypeOK, LinkTable, Links
<1> HIDE DEF bs, ml
<1>8. ASSUME NEW l \in Lines, ml[l] # NoBlock
      PROVE  l = lrl
  <2>1. ml[l] = mitl[l] /\ mitl[l] \in Blocks
    BY <1>7, <1>8
  <2>2. CASE bs[ml[l]] = EMPTY
    BY <1>4, <1>8, <2>2 DEF Tidy, Asking
  <2>3. CASE bs[ml[l]] # EMPTY
    <3>1. bs[mitl[l]] = LOCKED /\ bstate[mitl[l]] = LOCKED
      BY <1>3, <1>5, <1>6, <2>1, <2>3 DEF StateTable, BlockStates
    <3>2. /\ pc \in {"use", "free", "detach_href"}
          /\ mitl[line] = mitl[l] /\ blk = mitl[l] /\ blk # NoBlock
      BY <1>1, <1>8, <2>1, <3>1 DEF Tidy, Owned
    <3> QED
      BY <1>1, <1>2, <1>8, <2>1, <3>2 DEF Tidy, Asking
  <2> QED
    BY <2>2, <2>3
<1>9. /\ \A b \in Blocks : bstate'[b] \in {bs[b], LOCKED_BY_DRIVER}
      /\ \A l \in Lines : mitl'[l] # NoBlock => mitl'[l] = ml[l] \/ Wanted(l, lrl)
  BY <1>2, <1>3, StartDmaLinks
<1>10. \A l \in Lines : mitl'[l] \in Links
  BY <1>1, <1>2, <1>3, StartDmaLineType DEF TypeOK, LinkTable
<1>11. Fresh'
  BY <1>1, <1>2, <1>6, <1>9, <1>10
  DEF Fresh, Holds, Links, FULL, LOCKED_BY_DRIVER
<1>12. \A l \in Lines : mitl'[l] # NoBlock => Wanted(l, lrl)
  BY <1>2, <1>8, <1>9, WindowHas
<1> QED
  BY <1>2, <1>11, <1>12, BetweenSelf DEF BeganAt

\* hreffalling publishes a line and takes the next.
LEMMA LineGoesOn ==
  ASSUME IInv, Clean, Asking, Fresh, hreffalling,
         NEW p \in Lines, BeganAt(p)
  PROVE  Fresh' /\ BeganAt(p)'
<1>1. /\ TypeOK /\ Edges /\ Count /\ Capture /\ Freeing
      /\ Tidy(bstate, mitl) /\ Owned /\ InSync
  BY DEF IInv, Linked, Clean
<1>2. /\ UNCHANGED <<pc, line, blk, ended, lrl>> /\ CanServeH /\ href = "falling"
      /\ linecount \in Nat /\ mitl \in LinkTable
  BY <1>1 DEF hreffalling, consumer, TypeOK
<1>3. PICK bs \in PublishedBlocks : StartDmaLine((linecount + 1) % 65536, bs, mitl)
  BY DEF hreffalling
<1>4. /\ linecount < HEIGHT /\ (linecount + 1) % 65536 = linecount + 1
      /\ linecount' = linecount + 1
  BY <1>1, <1>2, <1>3, PublishedNoDriver DEF hreffalling
<1>5. bs \in StateTable
  BY <1>1, <1>3, PublishedType
<1>6. /\ Tidy(bs, mitl)
      /\ \A b \in Blocks : bstate[b] # LOCKED_BY_DRIVER => bs[b] = bstate[b]
  BY <1>1, <1>2, <1>3, PublishedTidy DEF Freeing, CanServeH, Edges, ShortPcs
<1>7. /\ \A b \in Blocks : bstate'[b] \in {bs[b], LOCKED_BY_DRIVER}
      /\ \A l \in Lines : mitl'[l] # NoBlock =>
           \/ mitl'[l] = mitl[l]
           \/ /\ l = linecount + 1 /\ Wanted(l, lrl)
              /\ bstate'[mitl'[l]] = LOCKED_BY_DRIVER
  BY <1>2, <1>3, <1>4, <1>5, StartDmaLinks
<1>8. ASSUME NEW l \in Lines, mitl[l] # NoBlock, bs[mitl[l]] = FULL
      PROVE  l < linecount + 1
  <2>1. mitl[l] \in Blocks
    BY <1>1, <1>8 DEF TypeOK, LinkTable, Links
  <2>2. CASE bstate[mitl[l]] = LOCKED_BY_DRIVER
    <3>1. mitl[linecount] = mitl[l] /\ linecount \in Lines
      BY <1>1, <1>2, <1>4, <2>1, <2>2, HeightAssumption DEF Capture, Lines
    <3>2. l = linecount
      BY <1>6, <1>8, <3>1 DEF Tidy
    <3> QED
      BY <1>2, <3>2
  <2>3. CASE bstate[mitl[l]] # LOCKED_BY_DRIVER
    BY <1>2, <1>6, <1>8, <2>1, <2>3 DEF Fresh, Holds, Lines
  <2> QED
    BY <2>2, <2>3
<1>9. \A l \in Lines : mitl'[l] \in Links
  BY <1>1, <1>2, <1>3, <1>4, <1>5, StartDmaLineType DEF TypeOK, LinkTable
<1>10. Fresh'
  BY <1>2, <1>4, <1>7, <1>8, <1>9
  DEF Fresh, Holds, Links, FULL, LOCKED_BY_DRIVER
<1>11. /\ \A l \in Lines : mitl'[l] # NoBlock => mitl[l] # NoBlock \/ Wanted(l, lrl)
       /\ \A l \in Lines : Walked(l) => Walked(l)'
  BY <1>2, <1>4, <1>7 DEF Walked, Lines
<1> QED
  BY <1>1, <1>2, <1>4, <1>10, <1>11, FrameGoesOn

---------------------------------------------------------------------------
(* The pace of the consumer and the camera.                                *)

LEMMA PaceHandler ==
  ASSUME IInv, Clean, Asking, Pace, Handler
  PROVE  Fresh' /\ \E p \in Lines : BeganAt(p)'
<1>1. TypeOK /\ lrl \in Lines
  BY DEF IInv, TypeOK
<1>2. Fresh /\ \E p \in Lines : BeganAt(p)
  BY DEF Pace
<1>3. CASE vsyncrising
  <2>1. PICK p \in Lines : p = lrl
    BY <1>1
  <2> QED
    BY <1>3, <2>1, FrameBeginsHere
<1>4. CASE hrefrising
  BY <1>2, <1>4
  DEF hrefrising, memory, consumer, Fresh, Holds, BeganAt, Walked
<1>5. CASE hreffalling
  BY <1>2, <1>5, LineGoesOn
<1> QED
  BY <1>3, <1>4, <1>5 DEF Handler

\* The consumer asks for its line, and may do so again and again.
LEMMA PaceRequest ==
  ASSUME TypeOK, Asking, Fresh, NEW p \in Lines, BeganAt(p), Request
  PROVE  Fresh' /\ BeganAt(p)'
<1>1. /\ UNCHANGED <<bstate, mitl, linecount, ended>>
      /\ pc = "idle" /\ pc' = "poll" /\ lrl' = line
      /\ line \in {lrl, Succ(lrl)} /\ lrl \in Lines /\ ended \in Bit
  BY DEF Request, memory, driver, Asking, TypeOK
<1>2. Fresh'
  BY <1>1 DEF Fresh, Holds
<1>3. CASE line = lrl
  BY <1>1, <1>2, <1>3 DEF BeganAt, Walked, Wanted, Between
<1>4. CASE line = Succ(lrl) /\ line # lrl
  <2>1. ASSUME NEW l \in Lines, mitl[l] # NoBlock
        PROVE  Wanted(l, Succ(lrl)) \/ l \in {p, Pred(p)}
    <3> SUFFICES ASSUME Wanted(l, lrl), ~Wanted(l, Succ(lrl)), l # p, l # Pred(p)
                 PROVE  FALSE
      BY <2>1 DEF BeganAt
    <3>1. l = Pred(lrl)
      BY <1>1, WindowMoves
    <3>2. Between(p, l, lrl)
      BY <1>1, <3>1, BetweenMoves
    <3>3. Walked(l)
      BY <1>1, <3>2 DEF BeganAt
    <3> QED
      BY <2>1, <3>3 DEF Walked
  <2>2. ASSUME NEW l \in Lines, Between(p, l, Succ(lrl)), ended = 0
        PROVE  Walked(l)
    <3>1. Succ(lrl) # p
      BY <2>2, BetweenSelf
    <3>2. Between(p, l, lrl) \/ (l = lrl /\ lrl # p)
      BY <1>1, <2>2, <3>1, BetweenMoves
    <3> QED
      BY <1>1, <1>4, <2>2, <3>2 DEF BeganAt
  <2> QED
    <3>1. \A l \in Lines : Between(p, l, lrl)' <=> Between(p, l, Succ(lrl))
      BY <1>1, <1>4 DEF Between
    <3>2. \A l \in Lines : Wanted(l, lrl)' <=> Wanted(l, Succ(lrl))
      BY <1>1, <1>4 DEF Wanted
    <3> QED
      BY <1>1, <1>2, <1>4, <2>1, <2>2, <3>1, <3>2 DEF BeganAt, Walked
<1> QED
  BY <1>1, <1>2, <1>3, <1>4

\* freeline and the end of the body of the loop.
LEMMA PaceFreeLine ==
  ASSUME IInv, Clean, EncodeOrder, Asking, Fresh, NEW p \in Lines, BeganAt(p),
         FreeLine \/ Unlink \/ Release
  PROVE  Fresh' /\ BeganAt(p)'
<1>1. /\ TypeOK /\ Freeing /\ Tidy(bstate, mitl) /\ Owned
      /\ line = lrl /\ line \in Lines /\ line' \in Lines
      /\ ended \in Bit /\ linecount \in Nat
      /\ UNCHANGED <<linecount, lrl, ended>>
  BY OrderAssumption
  DEF IInv, Linked, TypeOK, Asking, FreeLine, Unlink, Release, Advance, driver
<1>2. ASSUME NEW l \in Lines PROVE mitl'[l] \in {mitl[l], NoBlock}
  BY <1>1 DEF FreeLine, Unlink, Release, memory, TypeOK, LinkTable
<1>3. ASSUME NEW b \in Blocks PROVE bstate'[b] \in {bstate[b], EMPTY}
  BY <1>1 DEF FreeLine, Unlink, Release, memory, TypeOK, StateTable
<1>4. \A l \in Lines : mitl[l] \in Links
  BY <1>1 DEF TypeOK, LinkTable
<1>5. \A l \in Lines : Holds(mitl[l], FULL)' => Holds(mitl[l], FULL)
  BY <1>2, <1>3, <1>4 DEF Holds, Links, EMPTY, FULL
<1>6. \A l \in Lines : Walked(l) => Walked(l)'
  BY <1>1, <1>2 DEF Walked
<1>7. CASE FreeLine /\ ~Holds(mitl[line], LOCKED)
  <2>1. pc = "free" /\ pc' \in {"finish", "idle"} /\ UNCHANGED memory
    BY <1>7 DEF FreeLine, Advance
  <2>2. ended = 1
    BY <1>1, <1>7, <2>1 DEF Owned, Holds, Asking, Bit
  <2> QED
    BY <1>1, <2>1, <2>2 DEF Fresh, Holds, BeganAt, Walked, memory
<1>8. CASE FreeLine /\ Holds(mitl[line], LOCKED)
  <2>1. pc = "free" /\ blk' = mitl[line] /\ mitl[line] # NoBlock /\ line' = line
    BY <1>8 DEF FreeLine, Holds
  <2>2. blk # NoBlock
    BY <1>1, <1>4, <1>8 DEF Tidy, Holds, Links
  <2>3. ended = 0
    BY <1>1, <2>1, <2>2 DEF Asking, Bit
  <2>4. p = lrl \/ lrl < linecount
    BY <2>1, <2>2 DEF BeganAt
  <2>5. Fresh'
    BY <1>1, <1>5, <2>3 DEF Fresh
  <2>6. CASE pc' = "unlink"
    BY <1>1, <1>2, <1>6, <2>1, <2>3, <2>4, <2>5, <2>6 DEF BeganAt
  <2>7. CASE pc' = "release" /\ mitl' = [mitl EXCEPT ![line] = NoBlock]
    <3>1. mitl'[lrl] = NoBlock
      BY <1>1, <2>7 DEF TypeOK, LinkTable
    <3>2. p = lrl \/ Walked(lrl)'
      BY <1>1, <2>4, <3>1 DEF Walked
    <3> QED
      BY <1>1, <1>2, <1>6, <2>1, <2>3, <2>5, <2>7, <3>2 DEF BeganAt
  <2> QED
    BY <1>8, <2>6, <2>7 DEF FreeLine
<1>9. CASE Unlink \/ Release
  <2>1. pc \in {"unlink", "release"} /\ pc' \in {"finish", "idle"}
    BY <1>9 DEF Unlink, Release, Advance
  <2>2. ended = 0
    BY <1>1, <2>1 DEF Fresh, Bit
  <2>3. p = lrl \/ Walked(lrl)'
    <3>1. CASE Unlink
      <4>1. p = lrl \/ lrl < linecount
        BY <1>1, <3>1 DEF Unlink, Freeing, BeganAt
      <4>2. mitl'[lrl] = NoBlock
        BY <1>1, <3>1 DEF Unlink, TypeOK, LinkTable
      <4> QED
        BY <1>1, <4>1, <4>2 DEF Walked
    <3>2. CASE Release
      BY <1>1, <1>6, <3>2 DEF Release, BeganAt
    <3> QED
      BY <1>9, <3>1, <3>2
  <2>4. Fresh'
    BY <1>1, <1>5, <2>2 DEF Fresh
  <2> QED
    BY <1>1, <1>2, <1>6, <2>1, <2>2, <2>3, <2>4 DEF BeganAt
<1> QED
  BY <1>7, <1>8, <1>9

\* The steps of the consumer that leave the tables and its line alone.
LEMMA PaceOnTheSpot ==
  ASSUME TypeOK, Asking, Fresh, NEW p \in Lines, BeganAt(p),
         Poll \/ PollAgain \/ Timeout \/ Use \/ UseFails \/ Finish
  PROVE  Fresh' /\ BeganAt(p)'
<1>1. UNCHANGED <<bstate, mitl, linecount, lrl, line>> /\ ended \in Bit
  BY DEF Poll, PollAgain, Timeout, Use, UseFails, Finish, memory, driver, TypeOK
<1>2. CASE Poll \/ PollAgain \/ Timeout \/ UseFails \/ Finish
  BY <1>1, <1>2
  DEF Poll, PollAgain, Timeout, UseFails, Finish, Fresh, Holds, BeganAt, Walked
<1>3. CASE Use
  BY <1>1, <1>3 DEF Use, Fresh, Holds, BeganAt, Walked
<1> QED
  BY <1>2, <1>3

\* The line that is locked was filled in this frame.
LEMMA PaceLock ==
  ASSUME TypeOK, Asking, Fresh, NEW p \in Lines, BeganAt(p), Lock, lockRace' = 0
  PROVE  Fresh' /\ BeganAt(p)'
<1>1. /\ UNCHANGED <<mitl, linecount, lrl, line, blk, ended>>
      /\ pc = "lock" /\ pc' = "use" /\ blk \in Blocks
      /\ bstate' = [bstate EXCEPT ![blk] = LOCKED]
      /\ bstate[blk] = FULL /\ mitl[line] = blk /\ line = lrl /\ line \in Lines
  BY DEF Lock, driver, TypeOK, Asking
<1>2. lrl < linecount
  BY <1>1 DEF Fresh, Holds, Blocks, NoBlock
<1>3. \A l \in Lines : Holds(mitl[l], FULL)' => Holds(mitl[l], FULL)
  BY <1>1 DEF Holds, TypeOK, StateTable, LinkTable, Links, LOCKED, FULL
<1> QED
  BY <1>1, <1>2, <1>3 DEF Fresh, BeganAt, Walked

\* A restart, and a second init_ov7670 that was not disturbed, leave no link.
LEMMA PaceInitMem ==
  ASSUME TypeOK, Asking, StopInitMem \/ NewChannel, Clean',
         NEW p \in Lines, p = 0
  PROVE  Fresh' /\ BeganAt(p)'
<1>1. /\ \A l \in Lines : mitl'[l] = NoBlock
      /\ p = lrl' /\ pc' = "attach_vsync" /\ ended' = ended
  BY DEF StopInitMem, NewChannel, IsEmptied, InitMem, Asking, Clean, InSync, memory
<1>2. Fresh'
  BY <1>1 DEF Fresh, Holds
<1>3. \A l \in Lines : ~Between(p, l, lrl)'
  BY <1>1, BetweenSelf
<1> QED
  BY <1>1, <1>2, <1>3 DEF BeganAt

LEMMA PaceStep ==
  ASSUME IInv, EncodeOrder, Asking, Pace, [Next]_vars
  PROVE  Pace'
<1> SUFFICES ASSUME Clean' PROVE Fresh' /\ \E p \in Lines : BeganAt(p)'
  BY DEF Pace
<1>1. TypeOK
  BY DEF IInv
<1>2. CASE StopInitMem \/ NewChannel
  <2>1. PICK p \in Lines : p = 0
    BY HeightAssumption DEF Lines
  <2> QED
    BY <1>1, <1>2, <2>1, PaceInitMem
<1>3. CASE SecondInit /\ ~NewChannel
  BY <1>3 DEF SecondInit, InitAgain, AgainRequest, AgainBlocks, AgainLinks, DisableHref,
              DisableVsync, Clean, InSync, Restarting
<1>4. CASE ~(StopInitMem \/ SecondInit)
  <2>1. Clean
    BY <1>4 DEF Next, Handler, vsyncrising, Recounts, hrefrising, hreffalling,
       Camera, VsyncFalls, HrefRises, HrefFalls, AtnBegins, AtnEnds, MainStep, Request,
       Poll, PollAgain, Timeout, Lock, Use, UseFails, FreeLine, Unlink, Release, Finish,
       DetachHref, DetachVsync, AttachVsync, Clean, InSync, Restarting,
       consumer, ghosts, vars
  <2>2. PICK p \in Lines : BeganAt(p)
    BY <2>1 DEF Pace
  <2>3. Fresh
    BY <2>1 DEF Pace
  <2>4. CASE Handler
    BY <2>1, <2>4, PaceHandler
  <2>5. CASE Camera \/ AtnBegins \/ AtnEnds \/ UNCHANGED vars
    <3>1. UNCHANGED <<bstate, mitl, linecount, pc, line, blk, ended, lrl>>
      BY <2>5 DEF Camera, VsyncFalls, HrefRises, HrefFalls, AtnBegins, AtnEnds, memory,
         driver, consumer, vars
    <3> QED
      BY <2>2, <2>3, <3>1 DEF Fresh, Holds, BeganAt, Walked
  <2>6. CASE Request
    BY <1>1, <2>2, <2>3, <2>6, PaceRequest
  <2>7. CASE Poll \/ PollAgain \/ Timeout \/ Use \/ UseFails \/ Finish
    BY <1>1, <2>2, <2>3, <2>7, PaceOnTheSpot
  <2>8. CASE Lock
    BY <1>1, <2>2, <2>3, <2>8, PaceLock DEF Clean
  <2>9. CASE FreeLine \/ Unlink \/ Release
    BY <2>1, <2>2, <2>3, <2>9, PaceFreeLine
  <2>10. CASE DetachHref \/ DetachVsync
    BY <2>10 DEF DetachHref, DetachVsync, Clean, InSync, Restarting
  <2>11. CASE AttachVsync
    <3>1. /\ UNCHANGED <<bstate, mitl, linecount, lrl>>
          /\ pc = "attach_vsync" /\ pc' = "idle" /\ lrl = p
      BY <2>2, <2>11 DEF AttachVsync, memory, BeganAt
    <3> QED
      BY <2>2, <2>3, <3>1, BetweenSelf DEF Fresh, Holds, BeganAt, Walked
  <2> QED
    BY <1>4, <2>4, <2>5, <2>6, <2>7, <2>8, <2>9, <2>10, <2>11
    DEF Next, MainStep
<1> QED
  BY <1>2, <1>3, <1>4 DEF SecondInit

---------------------------------------------------------------------------
(* Counting the blocks.                                                    *)

\* Where a line of the window is in it, from the line before the requested one.
Offset(l, r) ==
  IF r + BACK > l /\ r - FRONT < l THEN l - r + 1
  ELSE IF r - FRONT < 0 /\ l > HEIGHT + r - FRONT THEN l - HEIGHT - r + 1
  ELSE l + HEIGHT - r + 1

\* The window is LINEBUFFERSIZE - 1 lines wide; p and Pred(p) come after it.
Place(l, r, p) ==
  IF Wanted(l, r) THEN Offset(l, r)
  ELSE IF l = p THEN LINEBUFFERSIZE - 1 ELSE LINEBUFFERSIZE

LEMMA PlaceRange ==
  ASSUME NEW l \in Lines, NEW r \in Lines, NEW p \in Lines
  PROVE  /\ Place(l, r, p) \in 0 .. LINEBUFFERSIZE
         /\ Wanted(l, r) => Place(l, r, p) < LINEBUFFERSIZE - 1
  BY HeightAssumption, SizeAssumption DEF Place, Offset, Wanted, Lines, BACK, FRONT

LEMMA PlaceDiffers ==
  ASSUME NEW k \in Lines, NEW l \in Lines, NEW r \in Lines, NEW p \in Lines,
         k # l,
         Wanted(k, r) \/ k \in {p, Pred(p)},
         Wanted(l, r) \/ l \in {p, Pred(p)}
  PROVE  Place(k, r, p) # Place(l, r, p)
<1>1. CASE Wanted(k, r) /\ Wanted(l, r)
  BY <1>1, HeightAssumption, SizeAssumption
  DEF Place, Offset, Wanted, Lines, BACK, FRONT
<1>2. CASE ~Wanted(k, r) /\ Wanted(l, r)
  BY <1>2, PlaceRange, SizeAssumption DEF Place
<1>3. CASE Wanted(k, r) /\ ~Wanted(l, r)
  BY <1>3, PlaceRange, SizeAssumption DEF Place
<1>4. CASE ~Wanted(k, r) /\ ~Wanted(l, r)
  BY <1>4, SizeAssumption DEF Place
<1> QED
  BY <1>1, <1>2, <1>3, <1>4

\* Every block that is not EMPTY has a line, or is about to be released.
LEMMA InUse ==
  ASSUME IInv, Clean, NEW b \in Blocks, bstate[b] # EMPTY
  PROVE  (\E l \in Lines : mitl[l] = b) \/ (pc = "release" /\ blk = b)
<1>1. TypeOK /\ Capture /\ Tidy(bstate, mitl) /\ Owned /\ InSync
  BY DEF IInv, Linked, Clean
<1>2. bstate[b] \in BlockStates
  BY <1>1 DEF TypeOK, StateTable
<1>3. CASE bstate[b] = FULL
  BY <1>1, <1>3 DEF Tidy
<1>4. CASE bstate[b] = LOCKED
  BY <1>1, <1>4 DEF Tidy, Owned, TypeOK, Blocks, NoBlock
<1>5. CASE bstate[b] = LOCKED_BY_DRIVER
  BY <1>1, <1>5, HeightAssumption DEF Capture, TypeOK, Lines
<1> QED
  BY <1>2, <1>3, <1>4, <1>5 DEF BlockStates

LEMMA RoomLeft ==
  ASSUME Room, IInv, Asking, Pace, Clean
  PROVE  HasBlock(bstate, EMPTY)
<1> SUFFICES ASSUME \A b \in Blocks : bstate[b] # EMPTY PROVE FALSE
  BY DEF HasBlock
<1>1. PICK p \in Lines : BeganAt(p)
  BY DEF Pace
<1>2. lrl \in Lines /\ \A b \in Blocks : b # NoBlock
  BY DEF IInv, TypeOK, Blocks, NoBlock
<1> DEFINE
     linked(b) == \E l \in Lines : mitl[l] = b
     at(b) == CHOOSE l \in Lines : mitl[l] = b
     places == 0 .. LINEBUFFERSIZE
     place == [b \in Blocks |->
                 IF linked(b) THEN Place(at(b), lrl, p)
                 ELSE IF p = lrl THEN LINEBUFFERSIZE - 1 ELSE Place(lrl, lrl, p)]
<1>3. \A b \in Blocks : linked(b) =>
        /\ at(b) \in Lines /\ mitl[at(b)] = b
        /\ Wanted(at(b), lrl) \/ at(b) \in {p, Pred(p)}
  BY <1>1, <1>2 DEF BeganAt
<1>4. \A b \in Blocks : ~linked(b) => pc = "release" /\ blk = b
  BY InUse
<1>5. place \in [Blocks -> places]
  BY <1>2, <1>3, PlaceRange, SizeAssumption
<1>6. PICK a \in Blocks, b \in Blocks : a # b /\ place[a] = place[b]
  <2>1. IsFiniteSet(Blocks) /\ Cardinality(Blocks) = MAXNUMBER
    BY FS_Interval, SizeAssumption DEF Blocks
  <2>2. IsFiniteSet(places) /\ Cardinality(places) = LINEBUFFERSIZE + 1
    BY FS_Interval, SizeAssumption
  <2>3. Cardinality(places) < Cardinality(Blocks)
    BY <2>1, <2>2, SizeAssumption DEF Room
  <2> HIDE DEF places, place
  <2> QED
    BY <1>5, <2>1, <2>2, <2>3, FS_PigeonHole
\* Two lines of the window and of {p, Pred(p)} have two places.
<1>7. ASSUME linked(a), linked(b) PROVE FALSE
  <2>1. at(a) # at(b)
    BY <1>3, <1>6, <1>7
  <2>2. Place(at(a), lrl, p) = Place(at(b), lrl, p)
    BY <1>6, <1>7
  <2> HIDE DEF at, place
  <2> QED
    BY <1>2, <1>3, <1>7, <2>1, <2>2, PlaceDiffers
\* The block that is to be released has the place of the consumer's line.
<1>8. ASSUME NEW c \in Blocks, NEW d \in Blocks,
             linked(c), ~linked(d), place[c] = place[d]
      PROVE  FALSE
  <2>1. pc = "release"
    BY <1>4, <1>8
  <2>2. at(c) \in Lines /\ Wanted(lrl, lrl) /\ Wanted(Pred(lrl), lrl)
    BY <1>2, <1>3, <1>8, WindowHas
  <2>3. CASE p = lrl
    <3>1. Wanted(at(c), lrl) /\ Place(at(c), lrl, p) = LINEBUFFERSIZE - 1
      BY <1>3, <1>8, <2>2, <2>3
    <3> QED
      BY <1>2, <2>2, <3>1, PlaceRange, SizeAssumption
  <2>4. CASE p # lrl
    <3>1. mitl[lrl] = NoBlock
      BY <1>1, <2>1, <2>4 DEF BeganAt, Walked
    <3>2. at(c) # lrl
      BY <1>2, <1>3, <1>8, <3>1
    <3>3. Place(at(c), lrl, p) = Place(lrl, lrl, p)
      BY <1>8, <2>4
    <3> HIDE DEF at, place
    <3> QED
      BY <1>2, <1>3, <1>8, <2>2, <3>2, <3>3, PlaceDiffers
  <2> QED
    BY <2>3, <2>4
<1>9. ASSUME ~linked(a), ~linked(b) PROVE FALSE
  BY <1>4, <1>6, <1>9
<1> QED
  BY <1>6, <1>7, <1>8, <1>9

---------------------------------------------------------------------------
(* The theorem.                                                            *)

\* encodeimage walks the lines in order: then some block is always EMPTY, and
\* get_a_free_blocknumber never comes to the FULL line of this frame it would drop.
THEOREM NeverDrops ==
  ASSUME Prompt, EncodeOrder, Room
  PROVE  Spec => []NeverDropsALine
<1>1. Init => Asking /\ Pace
  <2> SUFFICES ASSUME Init PROVE Asking /\ Fresh /\ \E p \in Lines : BeganAt(p)
    BY DEF Pace
  <2>1. PICK p \in Lines : p = 0
    BY HeightAssumption DEF Lines
  <2>2. Asking
    BY DEF Init, Asking, EncodeOrder
  <2>3. Fresh /\ BeganAt(p)
    BY <2>1, BetweenSelf DEF Init, Fresh, Holds, BeganAt
  <2> QED
    BY <2>2, <2>3
<1>2. IInv /\ Asking /\ Pace /\ [Next]_vars => Asking' /\ Pace'
  BY AskingStep, PaceStep DEF IInv
<1>3. IInv /\ Asking /\ Pace => NeverDropsALine
  BY RoomLeft DEF NeverDropsALine
<1> QED
  BY <1>1, <1>2, <1>3, Inductive, PTL DEF Spec

=============================================================================
