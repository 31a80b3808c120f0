------------------------- MODULE LineBufferProofs -------------------------
(***************************************************************************)
(* What LineBuffer guarantees for an image and a buffer of any size and a  *)
(* consumer that asks for the lines in any order, as long as the radio's   *)
(* handler does not hold the CPU over an edge of the camera (Prompt).      *)
(*                                                                         *)
(* The invariants of the driver are not inductive by themselves: that the  *)
(* one driver block ends up FULL under the right line depends on where the *)
(* camera, the armed handler and the DMA channel are (Edges, Count,        *)
(* Capture), and that a FULL block has one link depends on what freeline   *)
(* has done so far (Linked).  IInv is their conjunction.                   *)
(*                                                                         *)
(* The last section does without Prompt: what comes right by itself after  *)
(* the radio's handler has hidden edges of the camera, and what a restart  *)
(* of the driver repairs.                                                  *)
(***************************************************************************)
EXTENDS LineBuffer, TLAPS

Prompt == AtnHold = "never"

\* The radio's handler does not hold the CPU, and will not any more.
Undisturbed == atn = 2 \/ (atn = 0 /\ AtnHold = "never")

\* Flags are raised only for the edge that has a handler, one at a time, and
\* served before the next edge.
Edges ==
  /\ Undisturbed
  /\ ~ (pendH = 1 /\ pendV = 1)
  /\ pendH = 1 => \/ href = "rising" /\ high = 1
                  \/ href = "falling" /\ high = 0 /\ sline > 0
  /\ pendV = 1 => sline = 0 /\ high = 0 /\ vsync = "falling"
  /\ pc \in ShortPcs /\ (pendH = 1 \/ pendV = 1) => hit = 1
  /\ href = "rising" /\ pendH = 0 => high = 0
  /\ dma = "on" /\ Transfers => high = 1 /\ pendH = 0 /\ pendV = 0
  /\ pc \notin {"init_mem", "attach_vsync", "camera_setup"} => vsync = "falling"

\* An armed driver counts the lines of the camera.
Count ==
  /\ (Counted /\ href # "none") =>
       /\ pendV = 0 /\ ~ (pendH = 1 /\ href = "falling") => linecount = sline
       /\ pendH = 1 /\ href = "falling" => linecount + 1 = sline
       /\ pendV = 1 => linecount = HEIGHT
  /\ (pc = "attach_vsync" /\ href # "none" /\ desync # 2) =>
       sline = 0 \/ (sline = 1 /\ hit = 1)

\* The block of the driver belongs to the line the camera is at, and when the
\* line ends the DMA channel has copied that line into it.
Capture ==
  /\ dma = "on" => \/ href = "falling"
                   \/ pc \in {"detach_vsync", "init_mem", "again_vsync", "camera_setup"}
  /\ href = "rising" => linecount < HEIGHT
  /\ InSync => \A b \in Blocks : bstate[b] = LOCKED_BY_DRIVER =>
       /\ linecount < HEIGHT /\ mitl[linecount] = b /\ dest = b
       /\ href # "none"
       /\ href = "falling" /\ pendH = 0 => dma = "on"
       /\ href = "falling" /\ pendH = 1 => content[b] = linecount

\* The consumer between two lines, and inside freeline between its stores.
Freeing ==
  /\ pc \in {"finish", "idle", "poll", "wait", "again_request", "again_blocks",
             "again_links", "again_href", "again_vsync", "camera_setup"} => blk = NoBlock
  /\ pc = "unlink" =>
       /\ blk # NoBlock /\ mitl[line] = blk
       /\ bstate[blk] \in {EMPTY, LOCKED_BY_DRIVER}
       /\ hit = 0 \/ pendH = 1 \/ pendV = 1 => bstate[blk] = EMPTY
       /\ InSync /\ bstate[blk] = LOCKED_BY_DRIVER => linecount # line

\* Links and blocks agree: on the tables bs and ml, a block that is locked is
\* the consumer's, one that is linked is in use, and one that is FULL has one
\* link, to the line it holds.
Tidy(bs, ml) ==
  /\ \A b \in Blocks : bs[b] = LOCKED =>
       /\ pc \in {"use", "free", "release", "detach_href"}
       /\ blk = b
  /\ \A l \in Lines : ml[l] # NoBlock =>
       bs[ml[l]] # EMPTY \/ (pc = "unlink" /\ l = line)
  /\ \A k, l \in Lines : ml[k] = ml[l] /\ ml[k] # NoBlock =>
       k = l \/ (pc = "unlink" /\ (k = line \/ l = line))
  /\ \A b \in Blocks : bs[b] = FULL => \E l \in Lines : ml[l] = b
  /\ \A l \in Lines : ml[l] # NoBlock /\ bs[ml[l]] = FULL => content[ml[l]] = l

\* What the consumer has, and that the DMA channel stays off what is in use.
Owned ==
  /\ (href = "rising" \/ dma = "on") /\ dest # NoBlock =>
       bstate[dest] \in {EMPTY, LOCKED_BY_DRIVER}
  /\ pc \in {"use", "free", "detach_href"} /\ blk # NoBlock =>
       bstate[blk] = LOCKED /\ mitl[line] = blk /\ content[blk] = line
  /\ pc = "release" => bstate[blk] = LOCKED /\ \A l \in Lines : mitl[l] # blk

Linked == Clean => Tidy(bstate, mitl) /\ Owned

IInv == TypeOK /\ Edges /\ Count /\ Capture /\ Freeing /\ Linked

---------------------------------------------------------------------------
(* Types.                                                                  *)

LEMMA InitType == Init => TypeOK
  BY SizeAssumption, HeightAssumption, OrderAssumption
  DEF Init, TypeOK, PCs, Lines, Bit, Links, BlockStates, StateTable, LinkTable,
      ContentTable, Blocks

\* startdmaline keeps the tables and the DMA destination in their types.
LEMMA StartDmaLineType ==
  ASSUME NEW lc \in Nat, lrl \in Lines,
         NEW bs \in StateTable, NEW ml \in LinkTable,
         dest \in Links, href \in {"none", "rising", "falling"},
         StartDmaLine(lc, bs, ml)
  PROVE  /\ bstate' \in StateTable
         /\ mitl' \in LinkTable
         /\ dest' \in Links
         /\ href' \in {"none", "rising", "falling"}
         /\ pendH' = 0
<1>1. CASE ~ (Wanted(lc, lrl) /\ ml[lc] = NoBlock)
  BY <1>1 DEF StartDmaLine
<1>2. CASE Wanted(lc, lrl) /\ ml[lc] = NoBlock
  <2>1. PICK b \in Blocks :
          /\ mitl' = [Unlinked(bs, ml, b) EXCEPT ![lc] = b]
          /\ bstate' = [bs EXCEPT ![b] = LOCKED_BY_DRIVER]
          /\ dest' = b
    BY <1>2 DEF StartDmaLine
  <2>2. Unlinked(bs, ml, b) \in LinkTable
    BY DEF Unlinked, Links, LinkTable
  <2>3. lc \in Lines
    BY <1>2, HeightAssumption DEF Wanted, Lines
  <2> QED
    BY <1>2, <2>1, <2>2, <2>3 DEF StartDmaLine, BlockStates, Links, StateTable, LinkTable
<1> QED
  BY <1>1, <1>2

LEMMA CleanedType ==
  ASSUME NEW bs \in StateTable, NEW ml \in LinkTable
  PROVE  /\ CleanedBlocks(bs, ml) \in StateTable
         /\ CleanedLinks(bs, ml) \in LinkTable
  BY DEF CleanedBlocks, CleanedLinks, Links, BlockStates, StateTable, LinkTable

LEMMA PublishedType ==
  ASSUME TypeOK
  PROVE  PublishedBlocks \subseteq StateTable
<1>1. bstate \in StateTable
  BY DEF TypeOK
<1>2. \A b \in Blocks : [bstate EXCEPT ![b] = FULL] \in StateTable
  BY <1>1 DEF BlockStates, StateTable
<1>3. linecount < HEIGHT /\ Holds(mitl[linecount], LOCKED_BY_DRIVER)
        => mitl[linecount] \in Blocks
  BY HeightAssumption DEF TypeOK, Holds, Links, Lines, LinkTable, NoBlock
<1> QED
  BY <1>1, <1>2, <1>3 DEF PublishedBlocks

LEMMA HandlerType == TypeOK /\ Handler => TypeOK'
<1> SUFFICES ASSUME TypeOK, Handler PROVE TypeOK'
  OBVIOUS
<1> USE HeightAssumption DEF Bit
<1>1. CASE vsyncrising
  <2>1. /\ CleanedBlocks(bstate, mitl) \in StateTable
        /\ CleanedLinks(bstate, mitl) \in LinkTable
    BY CleanedType DEF TypeOK
  <2>2. /\ bstate' \in StateTable
        /\ mitl' \in LinkTable
        /\ dest' \in Links
        /\ href' \in {"none", "rising", "falling"}
        /\ pendH' = 0
    BY <1>1, <2>1, StartDmaLineType DEF TypeOK, vsyncrising
  <2> QED
    BY <1>1, <2>2 DEF TypeOK, vsyncrising, Recounts, camera, consumer
<1>2. CASE hrefrising
  <2>1. content' \in ContentTable
    BY <1>2 DEF TypeOK, hrefrising, ContentTable, Links
  <2> QED
    BY <1>2, <2>1 DEF TypeOK, hrefrising, memory, consumer, ghosts
<1>3. CASE hreffalling
  <2> DEFINE lc == (linecount + 1) % 65536
  <2>1. lc \in Nat /\ lc < 65536
    BY DEF TypeOK
  <2>2. PICK bs \in PublishedBlocks : StartDmaLine(lc, bs, mitl)
    BY <1>3 DEF hreffalling
  <2>3. bs \in StateTable
    BY <2>2, PublishedType
  <2> HIDE DEF lc
  <2>4. /\ bstate' \in StateTable
        /\ mitl' \in LinkTable
        /\ dest' \in Links
        /\ href' \in {"none", "rising", "falling"}
        /\ pendH' = 0
    BY <2>1, <2>2, <2>3, StartDmaLineType DEF TypeOK
  <2>5. linecount' = lc
    BY <1>3 DEF hreffalling, lc
  <2> QED
    BY <1>3, <2>1, <2>4, <2>5 DEF TypeOK, hreffalling, camera, consumer, ghosts
<1> QED
  BY <1>1, <1>2, <1>3 DEF Handler

LEMMA CameraType == TypeOK /\ (Camera \/ AtnBegins \/ AtnEnds) => TypeOK'
<1> SUFFICES ASSUME TypeOK, Camera \/ AtnBegins \/ AtnEnds PROVE TypeOK'
  OBVIOUS
<1> USE HeightAssumption DEF TypeOK, HitWindow, Bit, Links, Lines,
    ContentTable
<1>1. CASE VsyncFalls
  BY <1>1 DEF VsyncFalls, memory, driver, consumer, ghosts
<1>2. CASE HrefRises
  BY <1>2 DEF HrefRises, memory, driver, consumer, ghosts
<1>3. CASE HrefFalls
  BY <1>3 DEF HrefFalls, memory, driver, consumer, ghosts
<1>4. CASE AtnBegins
  BY <1>4 DEF AtnBegins, memory, driver, consumer, ghosts, camera, pending
<1>5. CASE AtnEnds
  BY <1>5 DEF AtnEnds, memory, driver, consumer, ghosts, camera, pending
<1> QED
  BY <1>1, <1>2, <1>3, <1>4, <1>5 DEF Camera

LEMMA MainType == TypeOK /\ MainStep => TypeOK'
<1> SUFFICES ASSUME TypeOK, MainStep PROVE TypeOK'
  OBVIOUS
<1> USE OrderAssumption
    DEF TypeOK, PCs, ShortPcs, memory, camera, driver, pending, consumer,
        ghosts, Holds, Bit, Links
<1>1. CASE Request \/ PollAgain \/ Timeout \/ Use \/ UseFails \/ Finish
  BY <1>1 DEF Request, PollAgain, Timeout, Use, UseFails, Finish
<1>2. CASE Poll
  BY <1>2 DEF Poll, LinkTable
<1>3. CASE Lock
  BY <1>3 DEF Lock, BlockStates, StateTable
<1>4. CASE FreeLine
  BY <1>4 DEF FreeLine, Advance, BlockStates, StateTable, LinkTable
<1>5. CASE Unlink \/ Release
  BY <1>5 DEF Unlink, Release, Advance, BlockStates, StateTable, LinkTable
<1>6. CASE DetachHref \/ DetachVsync \/ AttachVsync
  BY <1>6 DEF DetachHref, DetachVsync, AttachVsync
<1>7. CASE StopInitMem \/ SecondInit
  <2>1. /\ [b \in Blocks |-> EMPTY] \in StateTable
        /\ [l \in Lines |-> NoBlock] \in LinkTable
    BY DEF StateTable, LinkTable, BlockStates
  <2>2. 0 \in Lines
    BY HeightAssumption DEF Lines
  <2>3. CASE StopInitMem
    BY <2>1, <2>2, <2>3 DEF StopInitMem, InitMem
  <2>4. CASE InitAgain \/ AgainRequest \/ AgainBlocks \/ AgainLinks
    BY <2>1, <2>2, <2>4 DEF InitAgain, AgainRequest, AgainBlocks, AgainLinks
  <2>5. CASE DisableHref \/ DisableVsync \/ NewChannel
    BY <2>5 DEF DisableHref, DisableVsync, NewChannel
  <2> QED
    BY <1>7, <2>3, <2>4, <2>5 DEF SecondInit
<1> QED
  BY <1>1, <1>2, <1>3, <1>4, <1>5, <1>6, <1>7 DEF MainStep

\* Every variable keeps its type, whatever the radio's handler does.
THEOREM TypeCorrect == Spec => []TypeOK
<1>1. TypeOK /\ UNCHANGED vars => TypeOK'
  BY DEF TypeOK, vars, memory, camera, driver, pending, consumer, ghosts
<1>2. TypeOK /\ [Next]_vars => TypeOK'
  BY <1>1, HandlerType, CameraType, MainType DEF Next
<1> QED
  BY <1>2, InitType, PTL DEF Spec

---------------------------------------------------------------------------
(* Flags and handlers.                                                     *)

LEMMA InitInv == ASSUME Prompt PROVE Init => IInv
<1> SUFFICES ASSUME Init PROVE IInv
  OBVIOUS
<1>1. TypeOK
  BY InitType
<1>2. Edges /\ Count
  BY DEF Init, Edges, Undisturbed, Prompt, Count
<1>3. \A b \in Blocks : bstate[b] = EMPTY
  BY DEF Init
<1>4. \A l \in Lines : mitl[l] = NoBlock
  BY DEF Init
<1>5. Capture
  BY <1>3 DEF Init, Capture, EMPTY, LOCKED_BY_DRIVER
<1>6. Freeing
  BY DEF Init, Freeing
<1>7. Linked
  BY <1>3, <1>4 DEF Init, Linked, Tidy, Owned, EMPTY, FULL, LOCKED
<1> QED
  BY <1>1, <1>2, <1>5, <1>6, <1>7 DEF IInv

\* What the next step of each actor does to the flags and handlers.
LEMMA EdgesStep ==
  ASSUME TypeOK, Edges, Next
  PROVE  Edges'
<1> USE DEF Edges, Transfers, Undisturbed, TypeOK, Bit, camera, driver, pending, consumer,
            ghosts
<1>1. CASE vsyncrising
  BY <1>1 DEF vsyncrising, CanServeV, StartDmaLine, Blocks, NoBlock
<1>2. CASE hrefrising
  BY <1>2 DEF hrefrising, CanServeH
<1>3. CASE hreffalling
  BY <1>3 DEF hreffalling, CanServeH, StartDmaLine, Blocks, NoBlock
<1>4. CASE Camera
  BY <1>4, HeightAssumption
  DEF Camera, VsyncFalls, HrefRises, HrefFalls, CanInterrupt, HitWindow
<1>5. CASE AtnBegins \/ AtnEnds
  BY <1>5 DEF AtnBegins, AtnEnds, Undisturbed
<1>6. CASE Request \/ Poll \/ PollAgain \/ Timeout \/ Lock \/ Use \/ UseFails
  BY <1>6 DEF Request, Poll, PollAgain, Timeout, Lock, Use, UseFails, Main
<1>7. CASE FreeLine \/ Unlink \/ Release \/ Finish
  BY <1>7 DEF FreeLine, Unlink, Release, Finish, Main, Advance
<1>8. CASE DetachHref \/ DetachVsync \/ AttachVsync \/ StopInitMem
  BY <1>8 DEF DetachHref, DetachVsync, AttachVsync, StopInitMem, InitMem, Main
<1>9. CASE SecondInit
  BY <1>9 DEF SecondInit, InitAgain, AgainRequest, AgainBlocks, AgainLinks,
              DisableHref, DisableVsync, NewChannel, Main
<1> QED
  BY <1>1, <1>2, <1>3, <1>4, <1>5, <1>6, <1>7, <1>8, <1>9
  DEF Next, Handler, MainStep

\* The count of the lines stays with the camera.
LEMMA CountStep ==
  ASSUME TypeOK, Edges, Count, Next
  PROVE  Count'
<1> USE HeightAssumption
    DEF Edges, Undisturbed, TypeOK, Bit, camera, driver, pending, consumer, ghosts,
        Count, Counted, Restarting
<1>1. CASE vsyncrising
  BY <1>1 DEF vsyncrising, Recounts, CanServeV, StartDmaLine
<1>2. CASE hrefrising
  BY <1>2 DEF hrefrising, CanServeH
<1>3. CASE hreffalling
  BY <1>3 DEF hreffalling, CanServeH, StartDmaLine
<1>4. CASE Camera
  BY <1>4
  DEF Camera, VsyncFalls, HrefRises, HrefFalls, CanInterrupt, HitWindow, ShortPcs
<1>5. CASE AtnBegins \/ AtnEnds
  BY <1>5 DEF AtnBegins, AtnEnds, Undisturbed
<1>6. CASE Request \/ Poll \/ PollAgain \/ Timeout \/ Lock \/ Use \/ UseFails
  BY <1>6 DEF Request, Poll, PollAgain, Timeout, Lock, Use, UseFails, Main
<1>7. CASE FreeLine \/ Unlink \/ Release \/ Finish
  BY <1>7 DEF FreeLine, Unlink, Release, Finish, Main, Advance
<1>8. CASE DetachHref \/ DetachVsync \/ AttachVsync \/ StopInitMem
  BY <1>8 DEF DetachHref, DetachVsync, AttachVsync, StopInitMem, InitMem, Main
<1>9. CASE SecondInit
  BY <1>9 DEF SecondInit, InitAgain, AgainRequest, AgainBlocks, AgainLinks,
              DisableHref, DisableVsync, NewChannel, Main
<1> QED
  BY <1>1, <1>2, <1>3, <1>4, <1>5, <1>6, <1>7, <1>8, <1>9
  DEF Next, Handler, MainStep

---------------------------------------------------------------------------
(* The block of the driver.                                                *)

\* After startdmaline the only driver block is the one it took, if it took
\* one, provided there was none before.
LEMMA StartDmaLineBlock ==
  ASSUME NEW lc \in Nat, NEW bs \in StateTable, NEW ml \in LinkTable,
         \A b \in Blocks : bs[b] # LOCKED_BY_DRIVER,
         StartDmaLine(lc, bs, ml)
  PROVE  \A b \in Blocks : bstate'[b] = LOCKED_BY_DRIVER =>
           lc < HEIGHT /\ mitl'[lc] = b /\ dest' = b /\ href' = "rising"
<1>1. CASE ~ (Wanted(lc, lrl) /\ ml[lc] = NoBlock)
  BY <1>1 DEF StartDmaLine
<1>2. CASE Wanted(lc, lrl) /\ ml[lc] = NoBlock
  <2>1. PICK b \in Blocks :
          /\ mitl' = [Unlinked(bs, ml, b) EXCEPT ![lc] = b]
          /\ bstate' = [bs EXCEPT ![b] = LOCKED_BY_DRIVER]
          /\ dest' = b
    BY <1>2 DEF StartDmaLine
  <2>2. lc \in Lines /\ lc < HEIGHT
    BY <1>2, HeightAssumption DEF Wanted, Lines
  <2>3. DOMAIN Unlinked(bs, ml, b) = Lines
    BY DEF Unlinked
  <2>4. mitl'[lc] = b
    BY <2>1, <2>2, <2>3 DEF Unlinked
  <2>5. href' = "rising"
    BY <1>2 DEF StartDmaLine
  <2>6. \A a \in Blocks : a # b => bstate'[a] = bs[a]
    BY <2>1 DEF StateTable
  <2> QED
    BY <2>1, <2>2, <2>4, <2>5, <2>6
<1> QED
  BY <1>1, <1>2

\* What a handler that has just run startdmaline leaves behind.
LEMMA StartDmaLineHref ==
  ASSUME NEW lc \in Nat, NEW bs, NEW ml, StartDmaLine(lc, bs, ml)
  PROVE  href' = "rising" => lc < HEIGHT \/ href = "rising"
  BY HeightAssumption DEF StartDmaLine, Wanted

\* The driver has no block when a frame begins, nor when it has published the
\* line that ends.
LEMMA CleanedNoDriver ==
  ASSUME TypeOK, Edges, Count, Capture, InSync, CanServeV
  PROVE  \A b \in Blocks : CleanedBlocks(bstate, mitl)[b] # LOCKED_BY_DRIVER
<1>1. \A b \in Blocks : bstate[b] # LOCKED_BY_DRIVER
  BY HeightAssumption DEF CanServeV, Capture, Count, Counted, InSync, Edges, TypeOK
<1> QED
  BY <1>1 DEF CleanedBlocks, EMPTY, LOCKED_BY_DRIVER

LEMMA PublishedNoDriver ==
  ASSUME TypeOK, Edges, Count, Capture, InSync, CanServeH, href = "falling",
         NEW bs \in PublishedBlocks
  PROVE  /\ linecount < HEIGHT
         /\ \A b \in Blocks : bs[b] # LOCKED_BY_DRIVER
         /\ (linecount + 1) % 65536 = linecount + 1
<1>1. linecount < HEIGHT /\ (linecount + 1) % 65536 = linecount + 1
  BY HeightAssumption DEF CanServeH, Count, Counted, InSync, Edges, TypeOK, Bit
<1>2. CASE Holds(mitl[linecount], LOCKED_BY_DRIVER)
  <2>1. bs = [bstate EXCEPT ![mitl[linecount]] = FULL]
    BY <1>1, <1>2 DEF PublishedBlocks
  <2>2. linecount \in Lines
    BY <1>1, HeightAssumption DEF Lines, TypeOK
  <2>3. mitl[linecount] \in Blocks
    BY <1>2, <2>2 DEF Holds, LinkTable, Links, TypeOK
  <2> QED
    BY <1>1, <2>1, <2>3 DEF Capture, TypeOK, StateTable, FULL, LOCKED_BY_DRIVER
<1>3. CASE ~Holds(mitl[linecount], LOCKED_BY_DRIVER)
  <2>1. bs = bstate
    BY <1>1, <1>3 DEF PublishedBlocks
  <2> QED
    BY <1>1, <1>3, <2>1 DEF Capture, Holds, Blocks, NoBlock
<1> QED
  BY <1>2, <1>3

LEMMA CaptureHandler ==
  ASSUME TypeOK, Edges, Count, Capture, Handler
  PROVE  Capture'
<1> USE HeightAssumption
<1>0. InSync' => InSync
  BY DEF InSync, Restarting, Handler, vsyncrising, Recounts, hrefrising, hreffalling,
         consumer, ghosts
<1>1. CASE vsyncrising
  <2> DEFINE bs == CleanedBlocks(bstate, mitl)
             ml == CleanedLinks(bstate, mitl)
  <2>1. bs \in StateTable /\ ml \in LinkTable
    BY CleanedType DEF TypeOK
  <2>3. InSync => \A b \in Blocks : bs[b] # LOCKED_BY_DRIVER
    BY <1>1, CleanedNoDriver DEF vsyncrising
  <2>4. StartDmaLine(0, bs, ml)
    BY <1>1 DEF vsyncrising
  <2> HIDE DEF bs, ml
  <2>5. InSync => \A b \in Blocks : bstate'[b] = LOCKED_BY_DRIVER =>
          0 < HEIGHT /\ mitl'[0] = b /\ dest' = b /\ href' = "rising"
    BY <2>1, <2>3, <2>4, StartDmaLineBlock
  <2>6. linecount' = 0 /\ dma' = "off"
    BY <1>1 DEF vsyncrising
  <2> QED
    BY <1>0, <2>5, <2>6 DEF Capture
<1>2. CASE hrefrising
  BY <1>0, <1>2
  DEF hrefrising, CanServeH, Capture, Edges, Count, TypeOK, memory, consumer
<1>3. CASE hreffalling
  <2>1. PICK bs \in PublishedBlocks : StartDmaLine((linecount + 1) % 65536, bs, mitl)
    BY <1>3 DEF hreffalling
  <2>2. /\ bs \in StateTable /\ mitl \in LinkTable /\ linecount \in Nat
        /\ linecount' = (linecount + 1) % 65536 /\ linecount' \in Nat
        /\ dma' = "off"
    BY <1>3, <2>1, PublishedType DEF TypeOK, hreffalling
  <2>3. href' = "rising" => linecount' < HEIGHT
    BY <1>3, <2>1, <2>2, StartDmaLineHref DEF hreffalling
  <2>4. ASSUME InSync
        PROVE  \A b \in Blocks : bs[b] # LOCKED_BY_DRIVER
    BY <1>3, <2>1, <2>4, PublishedNoDriver DEF hreffalling
  <2>5. InSync => \A b \in Blocks : bstate'[b] = LOCKED_BY_DRIVER =>
          /\ linecount' < HEIGHT /\ mitl'[linecount'] = b /\ dest' = b
          /\ href' = "rising"
    BY <2>1, <2>2, <2>4, StartDmaLineBlock
  <2> QED
    BY <1>0, <2>2, <2>3, <2>5 DEF Capture
<1> QED
  BY <1>1, <1>2, <1>3 DEF Handler

LEMMA CaptureStep ==
  ASSUME TypeOK, Edges, Count, Capture, Freeing, Next
  PROVE  Capture'
<1> USE DEF InSync, Restarting, pending, driver, consumer, ghosts
<1>1. CASE Handler
  BY <1>1, CaptureHandler
<1>2. CASE VsyncFalls \/ HrefRises
  BY <1>2
  DEF VsyncFalls, HrefRises, Capture, Edges, Undisturbed, TypeOK, Bit, memory,
      CanInterrupt
<1>3. CASE HrefFalls
  <2>1. /\ UNCHANGED <<bstate, mitl, linecount, dest, href, pc, desync>>
        /\ pendH = 0 /\ pendV = 0 /\ high = 1
        /\ dma' = IF Transfers THEN "off" ELSE dma
        /\ href = "falling" => pendH' = 1
        /\ content' = IF dma = "on" /\ dest # NoBlock /\ Transfers
                      THEN [content EXCEPT ![dest] = sline] ELSE content
    BY <1>3 DEF HrefFalls, CanInterrupt, Edges, Undisturbed, memory
  <2>2. href # "rising"
    BY <2>1 DEF Edges
  <2>3. ASSUME InSync, NEW b \in Blocks, bstate[b] = LOCKED_BY_DRIVER
        PROVE  href = "falling" /\ content'[b] = linecount
    <3>1. dest = b /\ href = "falling" /\ dma = "on" /\ Transfers
      BY <2>1, <2>2, <2>3 DEF Capture, TypeOK, Transfers
    <3>2. linecount = sline
      BY <2>1, <2>3, <3>1 DEF Count, Counted
    <3> QED
      BY <2>1, <3>1, <3>2 DEF TypeOK, ContentTable, Blocks, NoBlock
  <2> QED
    BY <2>1, <2>2, <2>3 DEF Capture
<1>4. CASE AtnBegins \/ AtnEnds
  BY <1>4 DEF AtnBegins, AtnEnds, Undisturbed, Edges
<1>5. CASE Request \/ Poll \/ PollAgain \/ Timeout \/ Use \/ UseFails \/ Finish
  BY <1>5 DEF Request, Poll, PollAgain, Timeout, Use, UseFails, Finish, Capture,
              memory, camera
<1>6. CASE Lock \/ Release
  <2>1. /\ UNCHANGED <<mitl, content, linecount, dma, dest, href, pendH, desync>>
        /\ \E s \in {LOCKED, EMPTY} : bstate' = [bstate EXCEPT ![blk] = s]
        /\ InSync' => InSync
        /\ pc \in {"lock", "release"}
    BY <1>6 DEF Lock, Release, camera
  <2>2. \A b \in Blocks : bstate'[b] = LOCKED_BY_DRIVER => bstate[b] = LOCKED_BY_DRIVER
    BY <2>1 DEF TypeOK, StateTable, LOCKED, EMPTY, LOCKED_BY_DRIVER
  <2> QED
    BY <2>1, <2>2 DEF Capture
<1>7. CASE FreeLine
  <2>1. /\ UNCHANGED <<content, linecount, dma, dest, href, pendH>>
        /\ InSync' => InSync
        /\ pc = "free"
    BY <1>7 DEF FreeLine, camera
  <2>2. \A b \in Blocks : bstate'[b] = LOCKED_BY_DRIVER => bstate[b] = LOCKED_BY_DRIVER
    BY <1>7 DEF FreeLine, TypeOK, StateTable, EMPTY, LOCKED_BY_DRIVER, memory
  <2>3. ASSUME NEW b \in Blocks, InSync, bstate[b] = LOCKED_BY_DRIVER
        PROVE  mitl'[linecount] = mitl[linecount]
    <3>1. linecount \in Lines /\ mitl[linecount] = b
      BY <2>3, HeightAssumption DEF Capture, Lines, TypeOK
    <3>2. CASE Holds(mitl[line], LOCKED)
      BY <1>7, <2>3, <3>1, <3>2
      DEF FreeLine, Holds, TypeOK, LinkTable, LOCKED, LOCKED_BY_DRIVER
    <3>3. CASE ~Holds(mitl[line], LOCKED)
      BY <1>7, <3>3 DEF FreeLine, memory
    <3> QED
      BY <3>2, <3>3
  <2> QED
    BY <2>1, <2>2, <2>3 DEF Capture
<1>8. CASE Unlink
  <2>1. /\ UNCHANGED <<bstate, content, linecount, dma, dest, href, pendH>>
        /\ mitl' = [mitl EXCEPT ![line] = NoBlock]
        /\ InSync' => InSync
        /\ pc = "unlink"
    BY <1>8 DEF Unlink, camera
  <2>2. ASSUME NEW b \in Blocks, InSync, bstate[b] = LOCKED_BY_DRIVER
        PROVE  mitl'[linecount] = mitl[linecount]
    <3>1. linecount \in Lines /\ mitl[linecount] = b
      BY <2>2, HeightAssumption DEF Capture, Lines, TypeOK
    <3>2. linecount # line
      BY <2>1, <2>2, <3>1 DEF Freeing
    <3> QED
      BY <2>1, <3>1, <3>2 DEF TypeOK, LinkTable
  <2> QED
    BY <2>1, <2>2 DEF Capture
<1>9. CASE DetachHref \/ DetachVsync \/ AttachVsync
  BY <1>9 DEF DetachHref, DetachVsync, AttachVsync, Capture, memory, camera
<1>10. CASE StopInitMem
  BY <1>10, HeightAssumption DEF StopInitMem, InitMem, Capture, EMPTY, LOCKED_BY_DRIVER
<1>11. CASE SecondInit /\ ~NewChannel
  BY <1>11, HeightAssumption
  DEF SecondInit, InitAgain, AgainRequest, AgainBlocks, AgainLinks, DisableHref,
      DisableVsync, Capture
<1>12. CASE NewChannel
  BY <1>12 DEF NewChannel, IsEmptied, Capture, memory, EMPTY, LOCKED_BY_DRIVER
<1> QED
  BY <1>1, <1>2, <1>3, <1>4, <1>5, <1>6, <1>7, <1>8, <1>9, <1>10, <1>11, <1>12
  DEF Next, MainStep, Camera

---------------------------------------------------------------------------
(* freeline between its two stores.                                        *)

\* startdmaline leaves the link and, unless it takes it, the EMPTY block alone.
LEMMA StartDmaLineKeepsEmpty ==
  ASSUME NEW lc \in Nat, NEW bs \in StateTable, NEW ml \in LinkTable,
         NEW l \in Lines, NEW b \in Blocks, ml[l] = b, bs[b] = EMPTY,
         StartDmaLine(lc, bs, ml)
  PROVE  /\ mitl'[l] = b
         /\ bstate'[b] \in {EMPTY, LOCKED_BY_DRIVER}
         /\ bstate'[b] = LOCKED_BY_DRIVER => lc # l
<1>1. CASE ~ (Wanted(lc, lrl) /\ ml[lc] = NoBlock)
  BY <1>1 DEF StartDmaLine, EMPTY, LOCKED_BY_DRIVER
<1>2. CASE Wanted(lc, lrl) /\ ml[lc] = NoBlock
  <2>1. PICK a \in Blocks :
          /\ mitl' = [Unlinked(bs, ml, a) EXCEPT ![lc] = a]
          /\ bstate' = [bs EXCEPT ![a] = LOCKED_BY_DRIVER]
    BY <1>2 DEF StartDmaLine
  <2>2. lc # l
    BY <1>2 DEF Blocks, NoBlock
  <2>3. Unlinked(bs, ml, a)[l] = b
    BY DEF Unlinked, IsFirstLink, EMPTY, FULL
  <2>4. mitl'[l] = b
    BY <2>1, <2>2, <2>3 DEF Unlinked
  <2> QED
    BY <2>1, <2>2, <2>4 DEF StateTable
<1> QED
  BY <1>1, <1>2

LEMMA FreeingHandler ==
  ASSUME TypeOK, Edges, Freeing, Handler, pc = "unlink"
  PROVE  Freeing'
<1>1. /\ pc' = pc /\ blk' = blk /\ line' = line /\ hit' = hit
      /\ InSync' => InSync
      /\ pendH = 1 \/ pendV = 1
      /\ blk \in Blocks /\ line \in Lines /\ mitl[line] = blk
      /\ bstate[blk] = EMPTY
      /\ hit = 1
  BY DEF Handler, vsyncrising, hrefrising, hreffalling, CanServeH, CanServeV, InSync,
         Restarting, Recounts, consumer, ghosts, Freeing, TypeOK, Links, Edges, ShortPcs
<1>2. CASE vsyncrising
  <2> DEFINE bs == CleanedBlocks(bstate, mitl)
             ml == CleanedLinks(bstate, mitl)
  <2>1. bs \in StateTable /\ ml \in LinkTable
    BY CleanedType DEF TypeOK
  <2>2. bs[blk] = EMPTY /\ ml[line] = blk
    BY <1>1 DEF CleanedBlocks, CleanedLinks, EMPTY, FULL
  <2>3. StartDmaLine(0, bs, ml) /\ linecount' = 0
    BY <1>2 DEF vsyncrising
  <2>4. pendH' = 0 /\ pendV' = 0
    BY <1>2 DEF vsyncrising, StartDmaLine
  <2> HIDE DEF bs, ml
  <2>5. /\ mitl'[line] = blk
        /\ bstate'[blk] \in {EMPTY, LOCKED_BY_DRIVER}
        /\ bstate'[blk] = LOCKED_BY_DRIVER => 0 # line
    BY <1>1, <2>1, <2>2, <2>3, StartDmaLineKeepsEmpty
  <2> QED
    BY <1>1, <2>3, <2>4, <2>5 DEF Freeing, Blocks, NoBlock
<1>3. CASE hrefrising
  BY <1>1, <1>3 DEF hrefrising, Freeing, memory, Blocks, NoBlock, EMPTY,
                    LOCKED_BY_DRIVER
<1>4. CASE hreffalling
  <2> DEFINE lc == (linecount + 1) % 65536
  <2>1. PICK bs \in PublishedBlocks : StartDmaLine(lc, bs, mitl)
    BY <1>4 DEF hreffalling
  <2>2. /\ lc \in Nat /\ bs \in StateTable /\ mitl \in LinkTable
        /\ linecount' = lc
    BY <1>4, <2>1, PublishedType DEF TypeOK, hreffalling
  <2>3. bs[blk] = EMPTY
    BY <1>1, <2>1 DEF PublishedBlocks, Holds, TypeOK, StateTable, EMPTY,
                      LOCKED_BY_DRIVER
  <2>4. pendH' = 0 /\ pendV' = 0
    BY <1>4, <2>1 DEF hreffalling, CanServeH, StartDmaLine, Edges, TypeOK, Bit
  <2> HIDE DEF lc
  <2>5. line \in Lines /\ blk \in Blocks /\ mitl[line] = blk
    BY <1>1
  <2>6. /\ mitl'[line] = blk
        /\ bstate'[blk] \in {EMPTY, LOCKED_BY_DRIVER}
        /\ bstate'[blk] = LOCKED_BY_DRIVER => lc # line
    BY <2>1, <2>2, <2>3, <2>5, StartDmaLineKeepsEmpty
  <2> QED
    BY <1>1, <2>2, <2>4, <2>6 DEF Freeing, Blocks, NoBlock
<1> QED
  BY <1>2, <1>3, <1>4 DEF Handler

LEMMA FreeingStep ==
  ASSUME TypeOK, Edges, Freeing, Next
  PROVE  Freeing'
<1> USE DEF memory, camera, driver, pending, consumer, ghosts
<1>1. CASE Handler /\ pc = "unlink"
  BY <1>1, FreeingHandler
<1>2. CASE Handler /\ pc # "unlink"
  BY <1>2 DEF Handler, vsyncrising, hrefrising, hreffalling, Freeing
<1>3. CASE Camera
  BY <1>3 DEF Camera, VsyncFalls, HrefRises, HrefFalls, CanInterrupt, HitWindow,
              ShortPcs, Edges, Undisturbed, TypeOK, Bit, Freeing, InSync, Restarting,
              EMPTY, LOCKED_BY_DRIVER
<1>4. CASE AtnBegins \/ AtnEnds
  BY <1>4 DEF AtnBegins, AtnEnds, Undisturbed, Edges
<1>5. CASE Request \/ Poll \/ PollAgain \/ Timeout \/ Lock \/ Use \/ UseFails
  BY <1>5 DEF Request, Poll, PollAgain, Timeout, Lock, Use, UseFails, Freeing
<1>6. CASE FreeLine
  BY <1>6 DEF FreeLine, Advance, Holds, Freeing, Main, TypeOK, StateTable,
              Links, LinkTable, NoBlock, EMPTY, LOCKED_BY_DRIVER
<1>7. CASE Unlink \/ Release \/ Finish
  BY <1>7 DEF Unlink, Release, Finish, Advance, Freeing
<1>8. CASE DetachHref \/ DetachVsync \/ AttachVsync \/ StopInitMem
  BY <1>8 DEF DetachHref, DetachVsync, AttachVsync, StopInitMem, Freeing
<1>9. CASE SecondInit
  BY <1>9 DEF SecondInit, InitAgain, AgainRequest, AgainBlocks, AgainLinks,
              DisableHref, DisableVsync, NewChannel, Freeing
<1> QED
  BY <1>1, <1>2, <1>3, <1>4, <1>5, <1>6, <1>7, <1>8, <1>9 DEF Next, MainStep

---------------------------------------------------------------------------
(* Links and blocks.                                                       *)

\* startdmaline never takes a LOCKED block, and keeps the tables tidy.
LEMMA StartDmaLineTidy ==
  ASSUME TypeOK,
         NEW lc \in Nat, NEW bs \in StateTable, NEW ml \in LinkTable,
         Tidy(bs, ml),
         \A b \in Blocks : bs[b] # LOCKED_BY_DRIVER,
         pc = "unlink" => blk \in Blocks /\ ml[line] = blk /\ bs[blk] = EMPTY,
         UNCHANGED <<pc, line, blk, content>>,
         StartDmaLine(lc, bs, ml)
  PROVE  /\ Tidy(bstate, mitl)'
         /\ \A b \in Blocks : bs[b] = LOCKED => bstate'[b] = LOCKED
         /\ \A l \in Lines : ml[l] # NoBlock /\ bs[ml[l]] = LOCKED => mitl'[l] = ml[l]
         /\ \A l \in Lines, b \in Blocks :
              bs[b] = LOCKED /\ ml[l] # b => mitl'[l] # b
<1>1. CASE ~ (Wanted(lc, lrl) /\ ml[lc] = NoBlock)
  BY <1>1 DEF StartDmaLine, Tidy
<1>2. CASE Wanted(lc, lrl) /\ ml[lc] = NoBlock
  <2>1. PICK b \in Blocks :
          /\ IsFreeBlock(bs, b)
          /\ mitl' = [Unlinked(bs, ml, b) EXCEPT ![lc] = b]
          /\ bstate' = [bs EXCEPT ![b] = LOCKED_BY_DRIVER]
    BY <1>2 DEF StartDmaLine
  <2>2. lc \in Lines
    BY <1>2, HeightAssumption DEF Wanted, Lines
  <2>3. bs[b] \in {EMPTY, FULL}
    <3>1. bs[0] # LOCKED \/ bs[1] # LOCKED
      BY SizeAssumption DEF Tidy, Blocks
    <3>2. 0 \in Blocks /\ 1 \in Blocks
      BY SizeAssumption DEF Blocks
    <3>3. HasBlock(bs, EMPTY) \/ HasBlock(bs, FULL)
      BY <3>1, <3>2 DEF HasBlock, StateTable, BlockStates
    <3> QED
      BY <2>1, <3>3 DEF IsFreeBlock, IsLowest
  <2>4. \A l \in Lines : l # lc => mitl'[l] = Unlinked(bs, ml, b)[l]
    BY <2>1, <2>2 DEF Unlinked
  <2>5. mitl'[lc] = b
    BY <2>1, <2>2 DEF Unlinked
  <2>6. /\ bstate'[b] = LOCKED_BY_DRIVER
        /\ \A a \in Blocks : a # b => bstate'[a] = bs[a]
    BY <2>1 DEF StateTable
  <2>7. \A l \in Lines : l # lc => mitl'[l] \in {ml[l], NoBlock}
    BY <2>4 DEF Unlinked
  \* The links of other blocks stay.
  <2>8. \A l \in Lines : ml[l] # NoBlock /\ ml[l] # b => mitl'[l] = ml[l]
    BY <1>2, <2>4 DEF Unlinked, IsFirstLink
  <2>9. ASSUME NEW l \in Lines, l # lc, mitl'[l] = b
        PROVE  pc = "unlink" /\ l = line
    <3>1. ml[l] = b
      BY <2>7, <2>9 DEF Blocks, NoBlock
    <3>2. CASE bs[b] = EMPTY
      BY <3>1, <3>2 DEF Tidy, Blocks, NoBlock
    <3>3. CASE bs[b] = FULL
      <4>1. \A k \in Lines : ml[k] = b => k = l
        BY <3>1, <3>3 DEF Tidy, Blocks, NoBlock, EMPTY, FULL
      <4>2. IsFirstLink(ml, l, b)
        BY <3>1, <4>1 DEF IsFirstLink, Lines
      <4> QED
        BY <2>4, <2>9, <3>3, <4>2 DEF Unlinked, Blocks, NoBlock
    <3> QED
      BY <2>3, <3>2, <3>3
  <2>10. \A a \in Blocks : bstate'[a] # LOCKED_BY_DRIVER => a # b /\ bstate'[a] = bs[a]
    BY <2>6
  <2>11. LOCKED # LOCKED_BY_DRIVER /\ FULL # LOCKED_BY_DRIVER /\ EMPTY # LOCKED_BY_DRIVER
    BY DEF LOCKED, FULL, EMPTY, LOCKED_BY_DRIVER
  <2>12. b # NoBlock /\ \A l \in Lines : ml[l] # NoBlock => ml[l] \in Blocks
    BY DEF LinkTable, Links, Blocks, NoBlock
  <2>13. Tidy(bstate, mitl)'
    <3>1. \A a \in Blocks : bstate'[a] = LOCKED =>
            pc' \in {"use", "free", "release", "detach_href"} /\ blk' = a
      BY <2>10, <2>11 DEF Tidy
    <3>2. ASSUME NEW l \in Lines, mitl'[l] # NoBlock
          PROVE  bstate'[mitl'[l]] # EMPTY \/ (pc' = "unlink" /\ l = line')
      BY <2>5, <2>6, <2>7, <2>11, <2>12, <3>2 DEF Tidy
    <3>3. ASSUME NEW k \in Lines, NEW l \in Lines, mitl'[k] = mitl'[l],
                 mitl'[k] # NoBlock
          PROVE  k = l \/ (pc' = "unlink" /\ (k = line' \/ l = line'))
      BY <2>5, <2>7, <2>9, <3>3 DEF Tidy
    <3>4. ASSUME NEW a \in Blocks, bstate'[a] = FULL
          PROVE  \E l \in Lines : mitl'[l] = a
      <4>1. a # b /\ bs[a] = FULL
        BY <2>10, <2>11, <3>4
      <4>2. PICK l \in Lines : ml[l] = a
        BY <4>1 DEF Tidy
      <4> QED
        BY <2>8, <4>1, <4>2 DEF Blocks, NoBlock
    <3>5. ASSUME NEW l \in Lines, mitl'[l] # NoBlock, bstate'[mitl'[l]] = FULL
          PROVE  content'[mitl'[l]] = l
      BY <2>5, <2>6, <2>7, <2>11, <2>12, <3>5 DEF Tidy
    <3> QED
      BY <3>1, <3>2, <3>3, <3>4, <3>5 DEF Tidy
  <2>14. \A a \in Blocks : bs[a] = LOCKED => a # b /\ bstate'[a] = LOCKED
    BY <2>3, <2>6 DEF LOCKED, EMPTY, FULL
  <2>15. \A l \in Lines : ml[l] # NoBlock /\ bs[ml[l]] = LOCKED => mitl'[l] = ml[l]
    BY <2>8, <2>12, <2>14
  <2>16. \A l \in Lines, a \in Blocks : bs[a] = LOCKED /\ ml[l] # a => mitl'[l] # a
    BY <2>5, <2>7, <2>14 DEF Blocks, NoBlock
  <2> QED
    BY <2>13, <2>14, <2>15, <2>16
<1> QED
  BY <1>1, <1>2

\* What startdmaline leaves of Linked, called by a handler.
LEMMA StartDmaLineLinked ==
  ASSUME TypeOK, Owned,
         NEW lc \in Nat, NEW bs \in StateTable, NEW ml \in LinkTable,
         Tidy(bs, ml),
         \A b \in Blocks : bs[b] # LOCKED_BY_DRIVER,
         \A b \in Blocks : bstate[b] = LOCKED => bs[b] = LOCKED,
         \A l \in Lines : Holds(mitl[l], LOCKED) => ml[l] = mitl[l],
         \A l \in Lines : ml[l] \in {mitl[l], NoBlock},
         href = "rising" /\ dest # NoBlock => bs[dest] \in {EMPTY, LOCKED_BY_DRIVER},
         pc = "unlink" => blk \in Blocks /\ ml[line] = blk /\ bs[blk] = EMPTY,
         UNCHANGED <<pc, line, blk, content>>,
         dma' = "off",
         StartDmaLine(lc, bs, ml)
  PROVE  /\ Tidy(bstate, mitl)' /\ Owned'
         /\ \A b \in Blocks : bstate[b] = LOCKED => bstate'[b] = LOCKED
<1>1. /\ Tidy(bstate, mitl)'
      /\ \A b \in Blocks : bs[b] = LOCKED => bstate'[b] = LOCKED
      /\ \A l \in Lines : ml[l] # NoBlock /\ bs[ml[l]] = LOCKED => mitl'[l] = ml[l]
      /\ \A l \in Lines, b \in Blocks : bs[b] = LOCKED /\ ml[l] # b => mitl'[l] # b
  BY StartDmaLineTidy
<1>2. href' = "rising" /\ dest' # NoBlock =>
        bstate'[dest'] \in {EMPTY, LOCKED_BY_DRIVER}
  BY DEF StartDmaLine, StateTable
<1>3. ASSUME pc \in {"use", "free", "detach_href"}, blk # NoBlock
      PROVE  bstate'[blk] = LOCKED /\ mitl'[line] = blk /\ content[blk] = line
  <2>1. bstate[blk] = LOCKED /\ mitl[line] = blk /\ content[blk] = line
    BY <1>3 DEF Owned
  <2>2. blk \in Blocks /\ line \in Lines
    BY <1>3 DEF TypeOK, Links
  <2> QED
    BY <1>1, <1>3, <2>1, <2>2 DEF Holds
<1>4. ASSUME pc = "release"
      PROVE  bstate'[blk] = LOCKED /\ \A l \in Lines : mitl'[l] # blk
  <2>1. bstate[blk] = LOCKED /\ \A l \in Lines : mitl[l] # blk
    BY <1>4 DEF Owned
  <2>2. blk \in Blocks /\ blk # NoBlock
    BY <1>4 DEF TypeOK, Blocks, NoBlock
  <2> QED
    BY <1>1, <2>1, <2>2
<1> QED
  BY <1>1, <1>2, <1>3, <1>4 DEF Owned

\* cleanup drops every FULL block and all the links to it.
LEMMA CleanedTidy ==
  ASSUME TypeOK, Tidy(bstate, mitl),
         pc = "unlink" => bstate[blk] = EMPTY /\ mitl[line] = blk
  PROVE  Tidy(CleanedBlocks(bstate, mitl), CleanedLinks(bstate, mitl))
<1> DEFINE bs == CleanedBlocks(bstate, mitl)
           ml == CleanedLinks(bstate, mitl)
<1>1. \A b \in Blocks : bs[b] # FULL
  BY DEF CleanedBlocks, Tidy, EMPTY, FULL
<1>2. \A b \in Blocks : bs[b] # EMPTY => bs[b] = bstate[b]
  BY DEF CleanedBlocks
<1>3. \A l \in Lines : mitl[l] # NoBlock => mitl[l] \in Blocks
  BY DEF TypeOK, LinkTable, Links
<1>4. ASSUME NEW l \in Lines, ml[l] # NoBlock
      PROVE  ml[l] = mitl[l] /\ bstate[mitl[l]] # FULL
  <2>1. ml[l] = mitl[l]
    BY <1>4 DEF CleanedLinks
  <2>2. ASSUME bstate[mitl[l]] = FULL PROVE FALSE
    <3>1. \A k \in Lines : mitl[k] = mitl[l] => k = l
      BY <1>3, <1>4, <2>1, <2>2 DEF Tidy, EMPTY, FULL
    <3>2. IsFirstLink(mitl, l, mitl[l])
      BY <3>1 DEF IsFirstLink, Lines
    <3> QED
      BY <1>4, <2>1, <2>2, <3>2 DEF CleanedLinks
  <2> QED
    BY <2>1, <2>2
<1>5. \A l \in Lines : ml[l] # NoBlock => ml[l] \in Blocks /\ bs[ml[l]] = bstate[mitl[l]]
  BY <1>3, <1>4 DEF CleanedBlocks
<1>6. LOCKED # EMPTY /\ FULL # EMPTY
  BY DEF LOCKED, EMPTY, FULL
<1> HIDE DEF bs, ml
<1>7. \A b \in Blocks : bs[b] = LOCKED =>
        pc \in {"use", "free", "release", "detach_href"} /\ blk = b
  BY <1>2, <1>6 DEF Tidy
<1>8. \A l \in Lines : ml[l] # NoBlock =>
        bs[ml[l]] # EMPTY \/ (pc = "unlink" /\ l = line)
  BY <1>4, <1>5 DEF Tidy
<1>9. \A k, l \in Lines : ml[k] = ml[l] /\ ml[k] # NoBlock =>
        k = l \/ (pc = "unlink" /\ (k = line \/ l = line))
  BY <1>4 DEF Tidy
<1>10. Tidy(bs, ml)
  BY <1>1, <1>5, <1>7, <1>8, <1>9 DEF Tidy
<1> QED
  BY <1>10 DEF bs, ml

\* Publishing the line that ends, whose block has just received it.
LEMMA PublishedTidy ==
  ASSUME TypeOK, Edges, Count, Capture, InSync, Tidy(bstate, mitl),
         CanServeH, href = "falling",
         pc = "unlink" => bstate[blk] = EMPTY /\ mitl[line] = blk,
         NEW bs \in PublishedBlocks
  PROVE  /\ Tidy(bs, mitl)
         /\ \A b \in Blocks : bstate[b] # LOCKED_BY_DRIVER => bs[b] = bstate[b]
<1>1. linecount < HEIGHT /\ linecount \in Lines
  BY PublishedNoDriver, HeightAssumption DEF Lines, TypeOK
<1>2. CASE ~Holds(mitl[linecount], LOCKED_BY_DRIVER)
  BY <1>1, <1>2 DEF PublishedBlocks
<1>3. CASE Holds(mitl[linecount], LOCKED_BY_DRIVER)
  <2> DEFINE c == mitl[linecount]
  <2>1. bs = [bstate EXCEPT ![c] = FULL]
    BY <1>1, <1>3 DEF PublishedBlocks
  <2>2. c \in Blocks /\ c # NoBlock /\ bstate[c] = LOCKED_BY_DRIVER
    BY <1>1, <1>3 DEF Holds, LinkTable, Links, TypeOK
  <2>3. content[c] = linecount
    BY <2>2 DEF Capture, CanServeH
  <2>4. LOCKED_BY_DRIVER # EMPTY /\ FULL # EMPTY /\ FULL # LOCKED
    BY DEF LOCKED_BY_DRIVER, EMPTY, FULL, LOCKED
  <2>5. \A l \in Lines : mitl[l] = c => l = linecount
    BY <1>1, <2>2, <2>4 DEF Tidy
  <2>6. bs[c] = FULL /\ \A b \in Blocks : b # c => bs[b] = bstate[b]
    BY <2>1, <2>2 DEF TypeOK, StateTable
  <2>7. mitl[linecount] = c /\ \A l \in Lines : mitl[l] # NoBlock => mitl[l] \in Blocks
    BY DEF TypeOK, LinkTable, Links
  <2> HIDE DEF c
  <2>8. Tidy(bs, mitl)
    BY <1>1, <2>2, <2>3, <2>4, <2>5, <2>6, <2>7 DEF Tidy
  <2> QED
    BY <2>2, <2>6, <2>8
<1> QED
  BY <1>2, <1>3

\* A handler keeps the tables tidy, and every LOCKED block as it is.
LEMMA LinkedHandler ==
  ASSUME TypeOK, Edges, Count, Capture, Freeing, Linked, Clean, Handler
  PROVE  /\ Tidy(bstate, mitl)' /\ Owned'
         /\ \A b \in Blocks : bstate[b] = LOCKED => bstate'[b] = LOCKED
<1>1. Tidy(bstate, mitl) /\ Owned /\ InSync
  BY DEF Linked, Clean
<1>2. /\ UNCHANGED <<pc, line, blk>>
      /\ ~hrefrising => UNCHANGED content
      /\ pc = "unlink" => blk \in Blocks /\ bstate[blk] = EMPTY /\ mitl[line] = blk
  BY DEF Handler, vsyncrising, hrefrising, hreffalling, CanServeH, CanServeV,
         consumer, camera, Freeing, TypeOK, Links
<1>3. CASE vsyncrising
  <2> DEFINE bs == CleanedBlocks(bstate, mitl)
             ml == CleanedLinks(bstate, mitl)
  <2>1. bs \in StateTable /\ ml \in LinkTable
    BY CleanedType DEF TypeOK
  <2>2. Tidy(bs, ml)
    BY <1>1, <1>2, CleanedTidy
  <2>3. \A b \in Blocks : bs[b] # LOCKED_BY_DRIVER
    BY <1>1, <1>3, CleanedNoDriver DEF vsyncrising
  <2>4. \A b \in Blocks : bstate[b] # FULL => bs[b] = bstate[b]
    BY DEF CleanedBlocks
  <2>5. /\ \A l \in Lines : ml[l] \in {mitl[l], NoBlock}
        /\ \A l \in Lines : Holds(mitl[l], LOCKED) => ml[l] = mitl[l]
    BY DEF CleanedLinks, Holds, LOCKED, FULL
  <2>6. href = "rising" /\ dest # NoBlock => dest \in Blocks /\ bstate[dest] # FULL
    BY <1>1 DEF Owned, TypeOK, Links, EMPTY, FULL, LOCKED_BY_DRIVER
  <2>7. StartDmaLine(0, bs, ml) /\ dma' = "off" /\ UNCHANGED content
    BY <1>3 DEF vsyncrising, camera
  <2>8. pc = "unlink" => ml[line] = blk /\ bs[blk] = EMPTY
    BY <1>2 DEF CleanedBlocks, CleanedLinks, EMPTY, FULL, TypeOK
  <2>9. /\ href = "rising" /\ dest # NoBlock => bs[dest] \in {EMPTY, LOCKED_BY_DRIVER}
        /\ \A b \in Blocks : bstate[b] = LOCKED => bs[b] = LOCKED
    BY <1>1, <2>4, <2>6 DEF Owned, LOCKED, FULL
  <2> HIDE DEF bs, ml
  <2> QED
    BY <1>1, <1>2, <2>1, <2>2, <2>3, <2>5, <2>7, <2>8, <2>9, StartDmaLineLinked
<1>4. CASE hrefrising
  <2>1. /\ UNCHANGED <<bstate, mitl, dest>> /\ href = "rising" /\ href' = "falling"
        /\ content' = IF dest # NoBlock THEN [content EXCEPT ![dest] = NoBlock]
                      ELSE content
    BY <1>4 DEF hrefrising, memory
  <2>2. \A b \in Links : bstate[b] \in {FULL, LOCKED} => content'[b] = content[b]
    BY <1>1, <2>1
    DEF Owned, TypeOK, ContentTable, EMPTY, FULL, LOCKED, LOCKED_BY_DRIVER
  <2>3. \A l \in Lines : mitl[l] \in Links
    BY DEF TypeOK, LinkTable
  <2>4. Tidy(bstate, mitl)'
    BY <1>1, <1>2, <2>1, <2>2, <2>3 DEF Tidy
  <2> QED
    BY <1>1, <1>2, <2>1, <2>2, <2>4 DEF Owned, TypeOK
<1>5. CASE hreffalling
  <2> DEFINE lc == (linecount + 1) % 65536
  <2>1. PICK bs \in PublishedBlocks : StartDmaLine(lc, bs, mitl)
    BY <1>5 DEF hreffalling
  <2>2. /\ lc \in Nat /\ bs \in StateTable /\ mitl \in LinkTable
        /\ CanServeH /\ href = "falling" /\ dma' = "off" /\ UNCHANGED content
    BY <1>5, <2>1, PublishedType DEF TypeOK, hreffalling, camera
  <2>3. /\ Tidy(bs, mitl)
        /\ \A b \in Blocks : bstate[b] # LOCKED_BY_DRIVER => bs[b] = bstate[b]
    BY <1>1, <1>2, <2>1, <2>2, PublishedTidy
  <2>4. \A b \in Blocks : bs[b] # LOCKED_BY_DRIVER
    BY <1>1, <2>1, <2>2, PublishedNoDriver
  <2>5. pc = "unlink" => bs[blk] = EMPTY
    BY <1>2, <2>3 DEF EMPTY, LOCKED_BY_DRIVER
  <2>6. \A b \in Blocks : bstate[b] = LOCKED => bs[b] = LOCKED
    BY <2>3 DEF LOCKED, LOCKED_BY_DRIVER
  <2> HIDE DEF lc
  <2> QED
    BY <1>1, <1>2, <2>1, <2>2, <2>3, <2>4, <2>5, <2>6, StartDmaLineLinked
<1> QED
  BY <1>3, <1>4, <1>5 DEF Handler

\* The consumer's steps on the tables.
LEMMA LinkedFreeLine ==
  ASSUME TypeOK, Clean, Tidy(bstate, mitl), Owned, FreeLine
  PROVE  Tidy(bstate, mitl)' /\ Owned'
<1>1. UNCHANGED <<content, href, dma, dest>> /\ line \in Lines /\ pc = "free"
  BY DEF FreeLine, camera, driver, TypeOK
<1>2. CASE ~Holds(mitl[line], LOCKED)
  <2>1. \A b \in Blocks : bstate[b] # LOCKED
    BY <1>1, <1>2 DEF Tidy, Owned, Holds, Blocks, NoBlock
  <2>2. UNCHANGED memory /\ blk' = NoBlock /\ pc' \in {"finish", "idle"}
    BY <1>2 DEF FreeLine, Advance
  <2> QED
    BY <1>1, <2>1, <2>2 DEF Tidy, Owned, memory
<1>3. CASE Holds(mitl[line], LOCKED)
  <2>1. /\ mitl[line] = blk /\ bstate[blk] = LOCKED /\ blk \in Blocks
        /\ blk' = blk /\ line' = line
    BY <1>1, <1>3 DEF FreeLine, Holds, Tidy, TypeOK, LinkTable, Links
  <2>2. \A l \in Lines : mitl[l] = blk => l = line
    BY <1>1, <2>1 DEF Tidy, Blocks, NoBlock
  <2>3. LOCKED # EMPTY /\ FULL # EMPTY /\ FULL # LOCKED /\ LOCKED_BY_DRIVER # LOCKED
    BY DEF LOCKED, EMPTY, FULL, LOCKED_BY_DRIVER
  <2>4. CASE bstate' = [bstate EXCEPT ![blk] = EMPTY] /\ mitl' = mitl /\ pc' = "unlink"
    <3>1. bstate'[blk] = EMPTY /\ \A b \in Blocks : b # blk => bstate'[b] = bstate[b]
      BY <2>1, <2>4 DEF TypeOK, StateTable
    <3>2. \A l \in Lines : mitl[l] # NoBlock => mitl[l] \in Blocks
      BY DEF TypeOK, LinkTable, Links
    <3>3. Tidy(bstate, mitl)'
      BY <1>1, <2>1, <2>2, <2>3, <2>4, <3>1, <3>2 DEF Tidy
    <3> QED
      BY <1>1, <2>1, <2>3, <2>4, <3>3 DEF Owned, TypeOK, StateTable
  <2>5. CASE mitl' = [mitl EXCEPT ![line] = NoBlock] /\ bstate' = bstate /\ pc' = "release"
    <3>1. mitl'[line] = NoBlock /\ \A l \in Lines : l # line => mitl'[l] = mitl[l]
      BY <1>1, <2>5 DEF TypeOK, LinkTable
    <3>2. \A l \in Lines : mitl'[l] # blk
      BY <2>1, <2>2, <3>1 DEF Blocks, NoBlock
    <3>3. ASSUME NEW b \in Blocks, bstate[b] = FULL PROVE \E l \in Lines : mitl'[l] = b
      BY <2>1, <2>3, <3>1, <3>3 DEF Tidy
    <3>4. Tidy(bstate, mitl)'
      BY <1>1, <2>1, <2>2, <2>3, <2>5, <3>1, <3>3 DEF Tidy
    <3> QED
      BY <1>1, <2>1, <2>5, <3>2, <3>4 DEF Owned
  <2> QED
    BY <1>3, <2>1, <2>4, <2>5 DEF FreeLine
<1> QED
  BY <1>2, <1>3

LEMMA LinkedStep ==
  ASSUME TypeOK, Edges, Count, Capture, Freeing, Linked, Next
  PROVE  Linked'
<1> USE DEF InSync, Restarting, pending, driver, consumer, ghosts
<1> SUFFICES ASSUME Clean' PROVE Tidy(bstate, mitl)' /\ Owned'
  BY DEF Linked
<1>1. CASE Handler
  BY <1>1, LinkedHandler
  DEF Clean, Handler, vsyncrising, Recounts, hrefrising, hreffalling
<1>2. CASE VsyncFalls \/ HrefRises
  BY <1>2 DEF VsyncFalls, HrefRises, memory, Linked, Clean, Tidy, Owned
<1>3. CASE HrefFalls
  <2>1. /\ UNCHANGED <<bstate, mitl, dest, href, pc, line, blk>>
        /\ content' = IF dma = "on" /\ dest # NoBlock /\ Transfers
                      THEN [content EXCEPT ![dest] = sline] ELSE content
        /\ dma' = IF Transfers THEN "off" ELSE dma
        /\ Tidy(bstate, mitl) /\ Owned
    BY <1>3 DEF HrefFalls, memory, Linked, Clean
  <2>2. \A b \in Links : bstate[b] \in {FULL, LOCKED} => content'[b] = content[b]
    BY <2>1 DEF Owned, TypeOK, ContentTable, EMPTY, FULL, LOCKED, LOCKED_BY_DRIVER
  <2>3. \A l \in Lines : mitl[l] \in Links
    BY DEF TypeOK, LinkTable
  <2>4. Tidy(bstate, mitl)'
    BY <2>1, <2>2, <2>3 DEF Tidy
  <2> QED
    BY <2>1, <2>2, <2>4 DEF Owned, TypeOK
<1>4. CASE AtnBegins \/ AtnEnds
  BY <1>4 DEF AtnBegins, AtnEnds, Undisturbed, Edges
<1>5. CASE Request \/ PollAgain \/ Timeout \/ Use \/ UseFails \/ Finish
  BY <1>5 DEF Request, PollAgain, Timeout, Use, UseFails, Finish, Linked, Clean,
              Freeing, Tidy, Owned, memory, camera, NoBlock
<1>6. CASE Poll
  BY <1>6 DEF Poll, Freeing, Linked, Clean, Tidy, Owned, memory, camera, Holds,
              TypeOK, LinkTable, Links
<1>7. CASE Lock
  <2>1. /\ UNCHANGED <<mitl, content, href, dma, dest, blk, line>>
        /\ bstate' = [bstate EXCEPT ![blk] = LOCKED]
        /\ bstate[blk] = FULL /\ mitl[line] = blk /\ blk \in Blocks
        /\ pc = "lock" /\ pc' = "use"
        /\ Tidy(bstate, mitl) /\ Owned
    BY <1>7 DEF Lock, Linked, Clean, camera, TypeOK
  <2>2. bstate'[blk] = LOCKED /\ \A b \in Links : b # blk => bstate'[b] = bstate[b]
    BY <2>1 DEF TypeOK, StateTable
  <2>3. LOCKED # EMPTY /\ FULL # EMPTY /\ FULL # LOCKED /\ LOCKED_BY_DRIVER # FULL
    BY DEF LOCKED, EMPTY, FULL, LOCKED_BY_DRIVER
  <2>4. line \in Lines /\ \A l \in Lines : mitl[l] \in Links
    BY DEF TypeOK, LinkTable
  <2>5. Tidy(bstate, mitl)'
    BY <2>1, <2>2, <2>3, <2>4 DEF Tidy
  <2> QED
    BY <2>1, <2>2, <2>3, <2>4, <2>5 DEF Owned, Tidy, Blocks, NoBlock, TypeOK
<1>8. CASE FreeLine
  BY <1>8, LinkedFreeLine DEF Linked, Clean, FreeLine
<1>9. CASE Unlink
  <2>1. /\ UNCHANGED <<bstate, content, href, dma, dest>>
        /\ mitl' = [mitl EXCEPT ![line] = NoBlock]
        /\ pc = "unlink" /\ pc' \in {"finish", "idle"} /\ blk' = NoBlock
        /\ Tidy(bstate, mitl) /\ Owned
    BY <1>9 DEF Unlink, Advance, camera, Linked, Clean
  <2>2. line \in Lines /\ mitl'[line] = NoBlock
        /\ \A l \in Lines : l # line => mitl'[l] = mitl[l]
    BY <2>1 DEF TypeOK, LinkTable
  <2>3. bstate[mitl[line]] # FULL
    BY <2>1 DEF Freeing, EMPTY, FULL, LOCKED_BY_DRIVER
  <2>4. ASSUME NEW b \in Blocks, bstate[b] = FULL PROVE \E l \in Lines : mitl'[l] = b
    BY <2>1, <2>2, <2>3, <2>4 DEF Tidy
  <2>5. Tidy(bstate, mitl)'
    BY <2>1, <2>2, <2>4 DEF Tidy
  <2> QED
    BY <2>1, <2>5 DEF Owned
<1>10. CASE Release
  <2>1. /\ UNCHANGED <<mitl, content, href, dma, dest>>
        /\ bstate' = [bstate EXCEPT ![blk] = EMPTY] /\ blk \in Blocks
        /\ pc = "release" /\ pc' \in {"finish", "idle"} /\ blk' = NoBlock
        /\ Tidy(bstate, mitl) /\ Owned
    BY <1>10 DEF Release, Advance, camera, Linked, Clean, TypeOK
  <2>2. bstate'[blk] = EMPTY /\ \A b \in Links : b # blk => bstate'[b] = bstate[b]
    BY <2>1 DEF TypeOK, StateTable
  <2>3. \A l \in Lines : mitl[l] \in Links /\ mitl[l] # blk
    BY <2>1 DEF Owned, TypeOK, LinkTable
  <2>4. LOCKED # EMPTY /\ FULL # EMPTY
    BY DEF LOCKED, EMPTY, FULL
  <2>5. Tidy(bstate, mitl)'
    BY <2>1, <2>2, <2>3, <2>4 DEF Tidy, Links
  <2> QED
    BY <2>1, <2>2, <2>5 DEF Owned, TypeOK
<1>11. CASE DetachHref \/ DetachVsync
  BY <1>11 DEF DetachHref, DetachVsync, Clean
<1>12. CASE AttachVsync
  BY <1>12 DEF AttachVsync, Linked, Clean, Tidy, Owned, memory, camera
<1>13. CASE StopInitMem
  <2>1. /\ bstate' = [b \in Blocks |-> EMPTY]
        /\ mitl' = [l \in Lines |-> NoBlock]
        /\ dma' = "off" /\ dest' = dest /\ href' = href /\ pc' = "attach_vsync"
    BY <1>13 DEF StopInitMem, InitMem
  <2>2. Tidy(bstate, mitl)'
    BY <2>1 DEF Tidy, EMPTY, FULL, LOCKED
  <2> QED
    BY <2>1, <2>2 DEF Owned, TypeOK, Links
<1>14. CASE SecondInit /\ ~NewChannel
  BY <1>14
  DEF SecondInit, InitAgain, AgainRequest, AgainBlocks, AgainLinks, DisableHref,
      DisableVsync, Clean
<1>15. CASE NewChannel
  <2>1. /\ UNCHANGED <<bstate, mitl, content>> /\ IsEmptied
        /\ dest' = NoBlock /\ pc' = "attach_vsync"
    BY <1>15 DEF NewChannel, Clean, memory, camera
  <2>2. Tidy(bstate, mitl)'
    BY <2>1 DEF Tidy, IsEmptied, EMPTY, FULL, LOCKED
  <2> QED
    BY <2>1, <2>2 DEF Owned
<1> QED
  BY <1>1, <1>2, <1>3, <1>4, <1>5, <1>6, <1>7, <1>8, <1>9, <1>10, <1>11, <1>12,
     <1>13, <1>14, <1>15
  DEF Next, MainStep, Camera

---------------------------------------------------------------------------
(* The theorems.                                                           *)

LEMMA IInvStep == IInv /\ [Next]_vars => IInv'
<1>1. IInv /\ Next => IInv'
  <2> SUFFICES ASSUME IInv, Next PROVE IInv'
    OBVIOUS
  <2>1. TypeOK /\ Edges /\ Count /\ Capture /\ Freeing /\ Linked
    BY DEF IInv
  <2>2. TypeOK'
    BY <2>1, HandlerType, CameraType, MainType DEF Next
  <2>3. Edges' /\ Count' /\ Capture' /\ Freeing' /\ Linked'
    BY <2>1, EdgesStep, CountStep, CaptureStep, FreeingStep, LinkedStep
  <2> QED
    BY <2>2, <2>3 DEF IInv
<1>2. IInv /\ UNCHANGED vars => IInv'
  BY DEF IInv, TypeOK, Edges, Transfers, Undisturbed, Count, Capture, Freeing, Linked,
         Tidy, Owned, Clean, Counted, InSync, Restarting, vars, memory, camera, driver,
         pending, consumer, ghosts
<1> QED
  BY <1>1, <1>2

\* What the invariant says without further ado.
LEMMA IInvMeans ==
  IInv => InStep /\ OneDriverBlock /\ FullBlockHoldsItsLine /\ EncoderBlockIntact
<1>1. IInv => InStep
  BY DEF IInv, Count, InStep
<1>2. IInv => OneDriverBlock
  BY DEF IInv, Capture, OneDriverBlock, DriverBlocks
<1>3. IInv => FullBlockHoldsItsLine
  BY DEF IInv, Linked, Tidy, FullBlockHoldsItsLine, Holds
<1>4. IInv => EncoderBlockIntact
  BY DEF IInv, Linked, Owned, EncoderBlockIntact, EMPTY, LOCKED, LOCKED_BY_DRIVER
<1> QED
  BY <1>1, <1>2, <1>3, <1>4

\* The invariant the other theorems rest on.
THEOREM Inductive == ASSUME Prompt PROVE Spec => []IInv
  BY InitInv, IInvStep, PTL DEF Spec

\* At any moment the driver has at most the one block that the DMA channel
\* writes, and it belongs to the line the camera is at.
THEOREM DriverBlock == ASSUME Prompt PROVE Spec => []OneDriverBlock
  BY IInvMeans, Inductive, PTL

\* linecount never loses the camera.
THEOREM LineCount == ASSUME Prompt PROVE Spec => []InStep
  BY IInvMeans, Inductive, PTL

\* What getline may hand out under a line is that line of the camera.
THEOREM FullBlock == ASSUME Prompt PROVE Spec => []FullBlockHoldsItsLine
  BY IInvMeans, Inductive, PTL

\* The line the encoder works on is the one it asked for and stays so.
THEOREM EncoderBlock == ASSUME Prompt PROVE Spec => []EncoderBlockIntact
  BY IInvMeans, Inductive, PTL

\* No block is ever out of reach of both the consumer and the driver.
THEOREM BlocksKept == ASSUME Prompt PROVE Spec => []NoBlockLost
<1>1. IInv => NoBlockLost
  <2> SUFFICES ASSUME IInv, Clean PROVE NoBlockLost
    BY DEF NoBlockLost
  <2>1. Tidy(bstate, mitl) /\ Freeing
    BY DEF IInv, Linked
  <2>2. ASSUME NEW b \in Blocks, bstate[b] = FULL,
               NEW k \in Lines, NEW l \in Lines, mitl[k] = b, mitl[l] = b
        PROVE  k = l
    BY <2>1, <2>2 DEF Tidy, Freeing, Blocks, NoBlock, EMPTY, FULL, LOCKED_BY_DRIVER
  <2> QED
    BY <2>1, <2>2 DEF Tidy, NoBlockLost
<1> QED
  BY <1>1, Inductive, PTL

\* No handler touches a block the encoder uses.
THEOREM LockedIsSafe == ASSUME Prompt PROVE Spec => HandlersKeepOffLocked
<1> DEFINE Keeps == \A b \in Blocks : bstate[b] = LOCKED => bstate'[b] = LOCKED
<1>1. IInv => [(Clean /\ Handler) => Keeps]_vars
  BY LinkedHandler DEF IInv
<1> QED
  BY <1>1, Inductive, PTL DEF HandlersKeepOffLocked

---------------------------------------------------------------------------
(* After a disturbance.                                                    *)

\* Holds even when edges have been lost: VSYNC has its handler but in a restart.
Armed == pc \notin {"init_mem", "attach_vsync", "camera_setup"} => vsync = "falling"

LEMMA ArmedStep ==
  ASSUME TypeOK, Armed, [Next]_vars
  PROVE  Armed'
<1> USE DEF Armed, camera, driver, pending, consumer, ghosts
<1>1. CASE Handler
  BY <1>1 DEF Handler, vsyncrising, hrefrising, hreffalling
<1>2. CASE Camera \/ AtnBegins \/ AtnEnds
  BY <1>2 DEF Camera, VsyncFalls, HrefRises, HrefFalls, AtnBegins, AtnEnds
<1>3. CASE Request \/ Poll \/ PollAgain \/ Timeout \/ Lock \/ Use \/ UseFails
  BY <1>3 DEF Request, Poll, PollAgain, Timeout, Lock, Use, UseFails
<1>4. CASE FreeLine \/ Unlink \/ Release \/ Finish
  BY <1>4 DEF FreeLine, Unlink, Release, Finish, Advance
<1>5. CASE DetachHref \/ DetachVsync \/ AttachVsync \/ StopInitMem
  BY <1>5 DEF DetachHref, DetachVsync, AttachVsync, StopInitMem
<1>6. CASE SecondInit
  BY <1>6 DEF SecondInit, InitAgain, AgainRequest, AgainBlocks, AgainLinks,
              DisableHref, DisableVsync, NewChannel
<1>7. CASE UNCHANGED vars
  BY <1>7 DEF vars
<1> QED
  BY <1>1, <1>2, <1>3, <1>4, <1>5, <1>6, <1>7 DEF Next, MainStep

\* Flags, handlers and count agree with the camera.
Resynced == Edges /\ Count

LEMMA ResyncedStep ==
  ASSUME TypeOK, Resynced, [Next]_vars
  PROVE  Resynced'
<1>1. CASE Next
  BY <1>1, EdgesStep, CountStep DEF Resynced
<1>2. CASE UNCHANGED vars
  BY <1>2 DEF Resynced, Edges, Transfers, Undisturbed, Count, Counted, Restarting, vars,
              camera, driver, pending, consumer, ghosts
<1> QED
  BY <1>1, <1>2

\* The handler of a frame that has no line yet.
FrameBegins == vsyncrising /\ sline = 0 /\ high = 0

LEMMA FrameResyncs ==
  ASSUME TypeOK, Armed, Undisturbed, FrameBegins
  PROVE  Resynced'
<1>1. /\ UNCHANGED <<sline, high, content, pc, vsync, atn, hit>>
      /\ linecount' = 0 /\ pendV' = 0 /\ pendH' = 0 /\ dma' = "off"
  BY DEF FrameBegins, vsyncrising, camera, consumer, StartDmaLine
<1>2. Edges'
  BY <1>1 DEF Edges, Undisturbed, FrameBegins, Armed
<1>3. Count'
  BY <1>1 DEF Count, FrameBegins
<1> QED
  BY <1>2, <1>3 DEF Resynced

\* However many edges the radio's handler has swallowed, and whatever the flags,
\* handlers and counts were by then: the first frame whose vsyncrising runs
\* before its first line brings linecount back to the camera, and it stays there.
\* In undisturbed behaviours this is LineCount.
THEOREM CountRecovers ==
  Spec => /\ [][Undisturbed /\ FrameBegins => Resynced']_vars
          /\ [](Resynced => [](Resynced /\ InStep))
<1>1. Init => TypeOK /\ Armed
  BY InitType DEF Init, Armed
<1>2. TypeOK /\ Armed /\ [Next]_vars => (TypeOK /\ Armed)'
  <2>1. TypeOK /\ UNCHANGED vars => TypeOK'
    BY DEF TypeOK, vars, memory, camera, driver, pending, consumer, ghosts
  <2> QED
    BY <2>1, HandlerType, CameraType, MainType, ArmedStep DEF Next
<1>3. TypeOK /\ Armed => [Undisturbed /\ FrameBegins => Resynced']_vars
  BY FrameResyncs
<1>4. TypeOK /\ Resynced /\ [Next]_vars => Resynced'
  BY ResyncedStep
<1>5. Resynced => InStep
  BY DEF Resynced, Count, InStep
<1> QED
  BY <1>1, <1>2, <1>3, <1>4, <1>5, PTL DEF Spec

LEMMA RestartRepairs ==
  ASSUME TypeOK, Undisturbed, StopInitMem, href = "none" \/ Resynced
  PROVE  IInv'
<1>1. /\ pc' = "attach_vsync" /\ linecount' = 0 /\ dma' = "off" /\ pendH = 0 /\ pendV = 0
      /\ desync' = IF href # "none" /\ sline # 0 THEN 2 ELSE 0
      /\ UNCHANGED <<sline, high, dest, href, vsync, pendH, pendV, atn, content>>
      /\ \A b \in Blocks : bstate'[b] = EMPTY
      /\ \A l \in Lines : mitl'[l] = NoBlock
  BY DEF StopInitMem, InitMem, Main, camera, pending
<1>2. TypeOK'
  BY MainType DEF MainStep
<1>3. Edges'
  BY <1>1, <1>2 DEF Edges, Undisturbed, Resynced, TypeOK
<1>4. Count'
  BY <1>1, <1>2 DEF Count, Counted, TypeOK, Bit
<1>5. Capture'
  BY <1>1, HeightAssumption DEF Capture, EMPTY, LOCKED_BY_DRIVER
<1>6. Freeing'
  BY <1>1 DEF Freeing
<1>7. href = "rising" /\ dest # NoBlock => dest \in Blocks
  BY DEF TypeOK, Links
<1>8. Linked'
  BY <1>1, <1>7 DEF Linked, Tidy, Owned, EMPTY, FULL, LOCKED
<1> QED
  BY <1>2, <1>3, <1>4, <1>5, <1>6, <1>8 DEF IInv

\* So does a second init_ov7670 that no edge has hit.
LEMMA SetupRepairs ==
  ASSUME TypeOK, Undisturbed, NewChannel, href = "none", IsEmptied
  PROVE  IInv'
<1>1. /\ pc' = "attach_vsync" /\ dma' = "off" /\ dest' = NoBlock /\ href' = "none"
      /\ pendH = 0 /\ pendV = 0
      /\ UNCHANGED <<bstate, mitl, vsync, pendH, pendV, atn>>
  BY DEF NewChannel, Main, memory, pending
<1>2. TypeOK'
  BY MainType DEF MainStep, SecondInit
<1>3. Edges' /\ Count' /\ Freeing'
  BY <1>1 DEF Edges, Undisturbed, Count, Freeing
<1>4. Capture'
  BY <1>1 DEF Capture, IsEmptied, EMPTY, LOCKED_BY_DRIVER
<1>5. Linked'
  BY <1>1 DEF Linked, Tidy, Owned, IsEmptied, EMPTY, FULL, LOCKED
<1> QED
  BY <1>2, <1>3, <1>4, <1>5 DEF IInv

\* A restart of the driver repairs the tables whatever they held: encodeimage
\* restarts it on any failure (jpeg.cpp 915 and 930), and unless a frame began between its
\* two detachInterrupt the count need not even be right.  A second init_ov7670 (264-324) does
\* the same, when no edge falls between its init_mem and its second pinMode.
THEOREM RestartHelps ==
  Spec => [][Undisturbed =>
              /\ StopInitMem /\ (href = "none" \/ Resynced) => IInv'
              /\ NewChannel /\ href = "none" /\ IsEmptied => IInv']_vars
<1> DEFINE Repairs ==
      Undisturbed => /\ StopInitMem /\ (href = "none" \/ Resynced) => IInv'
                     /\ NewChannel /\ href = "none" /\ IsEmptied => IInv'
<1>1. TypeOK => [Repairs]_vars
  BY RestartRepairs, SetupRepairs
<1> QED
  BY <1>1, TypeCorrect, PTL

\* Once the tables are right as well, they stay so, but for what InSync and Clean except:
\* the second half of Recovers.  That they come right is liveness.
THEOREM StaysRight ==
  Spec => [](IInv => [](InStep /\ OneDriverBlock /\ FullBlockHoldsItsLine))
  BY IInvMeans, IInvStep, PTL DEF Spec

=============================================================================
