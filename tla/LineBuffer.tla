---------------------------- MODULE LineBuffer ----------------------------
(***************************************************************************)
(* The line buffer of the camera driver (code/src/ov7670.cpp) with its     *)
(* three kinds of actors:                                                  *)
(*                                                                         *)
(*   - the camera, which raises VSYNC and HREF edges at its own pace and   *)
(*     whose pixels the DMA channel copies into one block of the buffer;   *)
(*   - the interrupt handlers vsyncrising, hrefrising and hreffalling,     *)
(*     which run to completion as soon as the CPU lets them;               *)
(*   - the consumer in the main program, encodeimage (jpeg.cpp) or         *)
(*     dummyprocessor, which calls getline and freeline and is preempted   *)
(*     between any two of the memory accesses that matter.                 *)
(*                                                                         *)
(* A fourth actor only takes the CPU away: the handler of the radio's      *)
(* attention pin has the priority of HREF and runs for as long as a frame  *)
(* takes to arrive (AtnHold).                                              *)
(***************************************************************************)
EXTENDS Integers, FiniteSets

CONSTANTS
  LINEBUFFERSIZE,  \* the width of the window around the requested line
  MAXNUMBER,       \* blocks of the buffer, 2 * LINEBUFFERSIZE in the build
  HEIGHT,          \* lines of an image
  FirstLine,       \* first line the consumer asks for
  NextLine,        \* the line it asks for after a given one
  Encodes,         \* TRUE: the consumer is encodeimage, FALSE: dummyprocessor
  Reconfigure,     \* TRUE: init_ov7670 may be called again
  AtnHold,         \* bound: how often the radio's handler may hold the CPU
                   \*   over edges of the camera: "any", "once" or "never"
  Races            \* bound: how often getline may lose its race: "any", at
                   \*   most "once" between two init_mem, or "never"

BACK      == LINEBUFFERSIZE - 2
FRONT     == 2

Lines   == 0 .. HEIGHT - 1
Blocks  == 0 .. MAXNUMBER - 1
NoBlock == -1
Bit     == {0, 1}
Links   == Blocks \cup {NoBlock}

\* Block numbers are int8_t ("should not be bigger than 120").  With three
\* blocks one is free of both the encoder and the DMA channel.
ASSUME SizeAssumption   == /\ LINEBUFFERSIZE \in Nat /\ LINEBUFFERSIZE >= 3
                           /\ MAXNUMBER \in Nat /\ 3 <= MAXNUMBER
                           /\ MAXNUMBER <= 120
ASSUME HeightAssumption == HEIGHT \in Nat /\ 2 <= HEIGHT /\ HEIGHT < 65535
ASSUME OrderAssumption  == FirstLine \in Lines /\ NextLine \in [Lines -> Lines]
ASSUME FlagAssumption   == {Encodes, Reconfigure} \subseteq BOOLEAN
ASSUME BoundAssumption  == {AtnHold, Races} \subseteq {"any", "once", "never"}

EMPTY            == "empty"
FULL             == "full"
LOCKED           == "locked"
LOCKED_BY_DRIVER == "locked_by_driver"
BlockStates      == {EMPTY, FULL, LOCKED, LOCKED_BY_DRIVER}

VARIABLES
  bstate,     \* memmory_state
  mitl,       \* memmory_index_to_linenumber
  content,    \* ghost: the camera line each block holds, whole
  linecount,  \* the driver's idea of the line the camera is at
  lrl,        \* lastrequestetline
  dma, dest,  \* is the DMA channel "on" or "off", and the block it writes
  href,       \* the edge of HREF that has a handler, or "none"
  vsync,      \* the edge of VSYNC that has a handler, or "none"
  pendH, pendV, \* the interrupt flags of the two pins
  sline, high,  \* the camera: lines sent of this frame, level of HREF
  atn,        \* 1: the radio's handler has the CPU, 2: it had it its one time
  pc, line, blk, \* the consumer: where it is, its line, its local index
  ended,      \* the encoder was given NULL and has closed the image
  hit,        \* bound: the running short window has been interrupted
  lockRace,   \* ghost: getline locked a block it no longer owned
  desync      \* ghost: a restart or a second init_ov7670 was hit by an edge and
              \*   has left 1: a block in the tables, 2: a live HREF handler, too

memory   == <<bstate, mitl>>
camera   == <<sline, high, content>>
driver   == <<linecount, dma, dest, href, vsync>>
pending  == <<pendH, pendV>>
consumer == <<pc, line, blk, ended>>
ghosts   == <<lockRace, desync>>
vars     == <<memory, camera, driver, pending, consumer, ghosts, lrl, atn, hit>>

---------------------------------------------------------------------------
(* The memory of the driver: operators on the two tables.                  *)

\* Is line l in the window around the requested line r (with wrap-around)?
Wanted(l, r) ==
  /\ l < HEIGHT
  /\ \/ r + BACK > l /\ r - FRONT < l
     \/ r - FRONT < 0 /\ l > HEIGHT + r - FRONT
     \/ r + BACK > HEIGHT /\ l < BACK + r - HEIGHT

\* Is l the first line linked to block b?
IsFirstLink(ml, l, b) == ml[l] = b /\ \A k \in Lines : k < l => ml[k] # b

\* Mutants of cleanup: no block is dropped, or the links to it are left.
CleanedNothing(bs, ml) == bs
CleanedLinksKept(bs, ml) == ml

\* cleanup: every FULL block that has a link is dropped, with its first link.
CleanedBlocks(bs, ml) ==
  [b \in Blocks |-> IF bs[b] = FULL /\ \E l \in Lines : ml[l] = b
                    THEN EMPTY ELSE bs[b]]
CleanedLinks(bs, ml) ==
  [l \in Lines |-> IF /\ ml[l] # NoBlock
                      /\ bs[ml[l]] = FULL
                      /\ IsFirstLink(ml, l, ml[l])
                   THEN NoBlock ELSE ml[l]]

HasBlock(bs, s) == \E b \in Blocks : bs[b] = s

\* b is the lowest block in state s.
IsLowest(bs, b, s) == bs[b] = s /\ \A a \in Blocks : bs[a] = s => b <= a

\* Mutant: any block the driver does not hold is free.
IsFreeOfDriver(bs, b) ==
  /\ bs[b] # LOCKED_BY_DRIVER
  /\ \A a \in Blocks : bs[a] # LOCKED_BY_DRIVER => b <= a

\* get_a_free_blocknumber: an EMPTY block, else a FULL one, else block 0.
IsFreeBlock(bs, b) ==
  \/ IsLowest(bs, b, EMPTY)
  \/ ~HasBlock(bs, EMPTY) /\ IsLowest(bs, b, FULL)
  \/ ~HasBlock(bs, EMPTY) /\ ~HasBlock(bs, FULL) /\ b = 0

\* A FULL block that is taken loses its first link.
Unlinked(bs, ml, b) ==
  [l \in Lines |-> IF bs[b] = FULL /\ IsFirstLink(ml, l, b)
                   THEN NoBlock ELSE ml[l]]

---------------------------------------------------------------------------
(* The interrupt handlers.                                                 *)

\* b is a link to a block in state s.
Holds(b, s) == b # NoBlock /\ bstate[b] = s

\* startdmaline, called at line lc with the tables bs and ml.  Attaching a
\* handler clears the flag of its pin.
StartDmaLine(lc, bs, ml) ==
  /\ pendH' = 0
  /\ \/ /\ Wanted(lc, lrl) /\ ml[lc] = NoBlock
        /\ \E b \in Blocks :
             /\ IsFreeBlock(bs, b)
             /\ mitl' = [Unlinked(bs, ml, b) EXCEPT ![lc] = b]
             /\ bstate' = [bs EXCEPT ![b] = LOCKED_BY_DRIVER]
             /\ dest' = b
        /\ href' = "rising"
     \/ /\ ~ (Wanted(lc, lrl) /\ ml[lc] = NoBlock)
        /\ bstate' = bs /\ mitl' = ml
        /\ UNCHANGED <<dest, href>>

\* A handler can start: HREF goes before VSYNC, and neither preempts the
\* handler of the radio.
CanServeH == atn # 1 /\ pendH = 1
CanServeV == atn # 1 /\ pendH = 0 /\ pendV = 1

\* A new frame: the count is right again.
Recounts == desync' = IF desync = 2 THEN 1 ELSE desync

\* Mutant: the count goes on in the next frame.
vsyncrisingKeepsCount ==
  /\ CanServeV
  /\ pendV' = 0
  /\ dma' = "off"
  /\ StartDmaLine(0, CleanedBlocks(bstate, mitl), CleanedLinks(bstate, mitl))
  /\ Recounts
  /\ UNCHANGED <<camera, consumer, lockRace, linecount, vsync, lrl, atn, hit>>

vsyncrising ==
  /\ CanServeV
  /\ pendV' = 0
  /\ dma' = "off"
  /\ linecount' = 0
  /\ StartDmaLine(0, CleanedBlocks(bstate, mitl), CleanedLinks(bstate, mitl))
  /\ Recounts
  /\ UNCHANGED <<camera, consumer, lockRace, vsync, lrl, atn, hit>>

\* The block holds no whole line from here on, until the channel is through.
hrefrising ==
  /\ CanServeH /\ href = "rising"
  /\ pendH' = 0
  /\ dma' = "on"
  /\ href' = "falling"
  /\ content' = IF dest # NoBlock THEN [content EXCEPT ![dest] = NoBlock]
                ELSE content
  /\ UNCHANGED <<memory, sline, high, consumer, ghosts, linecount, dest, vsync,
                 pendV, lrl, atn, hit>>

\* Mutant: the line that ends is never published.
NothingPublished == {bstate}

\* The block of the line that ends becomes FULL if the driver still has it.
\* Past the last line the table is read out of bounds: any driver block or
\* none may be published.
PublishedBlocks ==
  LET full(b) == [bstate EXCEPT ![b] = FULL]
      mine(b) == bstate[b] = LOCKED_BY_DRIVER
  IN IF linecount < HEIGHT
     THEN IF Holds(mitl[linecount], LOCKED_BY_DRIVER)
          THEN {full(mitl[linecount])} ELSE {bstate}
     ELSE {bstate} \cup {full(b) : b \in {c \in Blocks : mine(c)}}

hreffalling ==
  /\ CanServeH /\ href = "falling"
  /\ dma' = "off"
  /\ linecount' = (linecount + 1) % 65536
  /\ \E bs \in PublishedBlocks : StartDmaLine((linecount + 1) % 65536, bs, mitl)
  /\ UNCHANGED <<camera, consumer, ghosts, vsync, pendV, lrl, atn, hit>>

Handler == vsyncrising \/ hrefrising \/ hreffalling

---------------------------------------------------------------------------
(* The camera.  A handler that can run does so before the next edge, and   *)
(* at most one edge falls into a window of a few instructions (ShortPcs).  *)
(* Bound: HREF handlers that are left without a VSYNC handler for the time *)
(* of a camera setup count no further than one line past the image.        *)

ShortPcs == {"lock", "unlink", "release", "detach_vsync", "init_mem",
             "attach_vsync", "again_request", "again_blocks", "again_links",
             "again_href", "again_vsync"}

CanInterrupt ==
  \/ atn = 1
  \/ /\ pendH = 0 /\ pendV = 0
     /\ pc \in ShortPcs => hit = 0
     /\ pc = "lock" => Races = "any" \/ (Races = "once" /\ lockRace = 0)
     /\ pc = "camera_setup" /\ href # "none" => linecount <= HEIGHT

HitWindow == hit' = IF pc \in ShortPcs /\ atn # 1 THEN 1 ELSE hit

VsyncFalls ==
  /\ CanInterrupt /\ HitWindow
  /\ sline = HEIGHT
  /\ sline' = 0
  /\ pendV' = IF vsync = "falling" THEN 1 ELSE pendV
  /\ UNCHANGED <<memory, driver, consumer, ghosts, high, content, pendH, lrl,
                 atn>>

HrefRises ==
  /\ CanInterrupt /\ HitWindow
  /\ sline < HEIGHT /\ high = 0
  /\ high' = 1
  /\ pendH' = IF href = "rising" THEN 1 ELSE pendH
  /\ UNCHANGED <<memory, driver, consumer, ghosts, sline, content, pendV, lrl,
                 atn>>

\* During a camera setup the pixel clock triggers no transfer: pinMode has
\* turned the DMA requests of its pin off.
Transfers == pc # "camera_setup"

\* The channel has moved DMA_DATALENGTH bytes at the end of the line and
\* disables itself (disableOnCompletion).
HrefFalls ==
  /\ CanInterrupt /\ HitWindow
  /\ high = 1
  /\ high' = 0
  /\ sline' = sline + 1
  /\ content' = IF dma = "on" /\ dest # NoBlock /\ Transfers
                THEN [content EXCEPT ![dest] = sline] ELSE content
  /\ dma' = IF Transfers THEN "off" ELSE dma
  /\ pendH' = IF href = "falling" THEN 1 ELSE pendH
  /\ UNCHANGED <<memory, linecount, dest, href, vsync, consumer, ghosts,
                 pendV, lrl, atn>>

Camera == VsyncFalls \/ HrefRises \/ HrefFalls

\* The radio's handler takes the CPU and gives it back.  It does not start
\* in the few cycles between its own end and a waiting vsyncrising.
AtnBegins ==
  /\ AtnHold # "never" /\ CanInterrupt /\ atn = 0 /\ HitWindow
  /\ atn' = 1
  /\ UNCHANGED <<memory, camera, driver, pending, consumer, ghosts, lrl>>

AtnEnds ==
  /\ atn = 1
  /\ atn' = IF AtnHold = "once" THEN 2 ELSE 0
  /\ UNCHANGED <<memory, camera, driver, pending, consumer, ghosts, lrl, hit>>

---------------------------------------------------------------------------
(* The consumer, one action per memory access that an interrupt can see.   *)

\* The main program runs when no handler does.
Main == atn # 1 /\ pendH = 0 /\ pendV = 0

\* getline stores the request ...
Request ==
  /\ Main /\ pc = "idle"
  /\ lrl' = line
  /\ pc' = "poll"
  /\ hit' = 0
  /\ UNCHANGED <<memory, camera, driver, pending, line, blk, ended, ghosts, atn>>

\* Mutant: getline locks whatever its line is linked to.
PollUnchecked ==
  /\ Main /\ pc = "poll"
  /\ pc' = "lock" /\ blk' = mitl[line]
  /\ hit' = 0
  /\ UNCHANGED <<memory, camera, driver, pending, line, ended, ghosts, lrl, atn>>

\* ... looks its line up, and finds it full, locked, or neither.
Poll ==
  /\ Main /\ pc = "poll"
  /\ LET b == mitl[line]
     IN \/ /\ Holds(b, FULL)
           /\ pc' = "lock" /\ blk' = b
        \/ /\ Holds(b, LOCKED)
           /\ pc' = "use" /\ blk' = NoBlock
        \/ /\ ~Holds(b, FULL) /\ ~Holds(b, LOCKED)
           /\ pc' = "wait" /\ UNCHANGED blk
  /\ hit' = 0
  /\ UNCHANGED <<memory, camera, driver, pending, line, ended, ghosts, lrl, atn>>

\* delay(1), and then another look ...
PollAgain ==
  /\ Main /\ pc = "wait"
  /\ pc' = "poll"
  /\ hit' = 0
  /\ UNCHANGED <<memory, camera, driver, pending, line, blk, ended, ghosts, lrl,
                 atn>>

\* ... or NULL, when OV7670_TIMEOUT has passed.
Timeout ==
  /\ Main /\ pc = "wait"
  /\ pc' = "use" /\ blk' = NoBlock
  /\ hit' = 0
  /\ UNCHANGED <<memory, camera, driver, pending, line, ended, ghosts, lrl, atn>>

\* The store that locks the block, after the test that allowed it.
Lock ==
  /\ Main /\ pc = "lock"
  /\ bstate' = [bstate EXCEPT ![blk] = LOCKED]
  /\ lockRace' = IF bstate[blk] = FULL /\ mitl[line] = blk THEN lockRace ELSE 1
  /\ pc' = "use"
  /\ hit' = 0
  /\ UNCHANGED <<mitl, camera, driver, pending, line, blk, ended, desync, lrl,
                 atn>>

\* process_scanline, or delay(1) and printdebug in dummyprocessor.  NULL
\* closes the image and makes the next call fail.
Use ==
  /\ Main /\ pc = "use" /\ ended = 0
  /\ pc' = "free"
  /\ ended' = IF Encodes /\ blk = NoBlock THEN 1 ELSE 0
  /\ hit' = 0
  /\ UNCHANGED <<memory, camera, driver, pending, line, blk, ghosts, lrl, atn>>

\* A write of the stream failed or the image was closed: restart the driver.
UseFails ==
  /\ Main /\ Encodes /\ pc \in {"use", "finish"}
  /\ pc' = "detach_href"
  /\ hit' = 0
  /\ UNCHANGED <<memory, camera, driver, pending, line, blk, ended, ghosts, lrl,
                 atn>>

\* The end of the body of the loop: the next line, or the end of the image.
Advance == /\ pc' = IF Encodes /\ NextLine[line] = FirstLine
                    THEN "finish" ELSE "idle"
           /\ line' = NextLine[line]
           /\ blk' = NoBlock

\* freeline: a line without a block, or whose block is not LOCKED, is left
\* alone.  Else the block is emptied and the link cut, in this order or, as
\* neither table is volatile, in the other.
FreeLine ==
  /\ Main /\ pc = "free"
  /\ LET b == mitl[line] IN
       \/ /\ ~Holds(b, LOCKED)
          /\ Advance
          /\ UNCHANGED memory
       \/ /\ Holds(b, LOCKED)
          /\ blk' = b
          /\ UNCHANGED line
          /\ \/ /\ bstate' = [bstate EXCEPT ![b] = EMPTY]
                /\ pc' = "unlink"
                /\ UNCHANGED mitl
             \/ /\ mitl' = [mitl EXCEPT ![line] = NoBlock]
                /\ pc' = "release"
                /\ UNCHANGED bstate
  /\ hit' = 0
  /\ UNCHANGED <<camera, driver, pending, ended, ghosts, lrl, atn>>

Unlink ==
  /\ Main /\ pc = "unlink"
  /\ mitl' = [mitl EXCEPT ![line] = NoBlock]
  /\ Advance
  /\ hit' = 0
  /\ UNCHANGED <<bstate, camera, driver, pending, ended, ghosts, lrl, atn>>

Release ==
  /\ Main /\ pc = "release"
  /\ bstate' = [bstate EXCEPT ![blk] = EMPTY]
  /\ Advance
  /\ hit' = 0
  /\ UNCHANGED <<mitl, camera, driver, pending, ended, ghosts, lrl, atn>>

\* The last process_scanline(NULL) of an image.
Finish ==
  /\ Main /\ pc = "finish" /\ ended = 0
  /\ pc' = "idle"
  /\ hit' = 0
  /\ UNCHANGED <<memory, camera, driver, pending, line, blk, ended, ghosts, lrl,
                 atn>>

---------------------------------------------------------------------------
(* Restarting the driver.                                                  *)

\* Mutants: init_mem leaves one of the tables as it is.
InitMemKeepsLinks ==
  /\ bstate' = [b \in Blocks |-> EMPTY]
  /\ linecount' = 0 /\ lrl' = 0 /\ lockRace' = 0
  /\ desync' = IF href # "none" /\ sline # 0 THEN 2 ELSE 0
  /\ UNCHANGED mitl
InitMemKeepsBlocks ==
  /\ mitl' = [l \in Lines |-> NoBlock]
  /\ linecount' = 0 /\ lrl' = 0 /\ lockRace' = 0
  /\ desync' = IF href # "none" /\ sline # 0 THEN 2 ELSE 0
  /\ UNCHANGED bstate

\* init_mem empties both tables and counts from 0.  It is one step of a restart,
\* whose handlers are detached; a frame that began between the two
\* detachInterrupt has no line yet.
InitMem ==
  /\ bstate' = [b \in Blocks |-> EMPTY]
  /\ mitl' = [l \in Lines |-> NoBlock]
  /\ linecount' = 0
  /\ lrl' = 0
  /\ lockRace' = 0
  /\ desync' = IF href # "none" /\ sline # 0 THEN 2 ELSE 0

\* startimageandfreeram, which first is stopimageandfreeram.
DetachHref ==
  /\ Main /\ pc = "detach_href"
  /\ href' = "none" /\ pc' = "detach_vsync"
  /\ hit' = 0
  /\ UNCHANGED <<memory, camera, linecount, dma, dest, vsync, pending, line, blk,
                 ended, ghosts, lrl, atn>>

DetachVsync ==
  /\ Main /\ pc = "detach_vsync"
  /\ vsync' = "none" /\ pc' = "init_mem"
  /\ hit' = 0
  /\ UNCHANGED <<memory, camera, linecount, dma, dest, href, pending, line, blk,
                 ended, ghosts, lrl, atn>>

StopInitMem ==
  /\ Main /\ pc = "init_mem"
  /\ InitMem
  /\ dma' = "off"
  /\ pc' = "attach_vsync"
  /\ hit' = 0
  /\ UNCHANGED <<camera, dest, href, vsync, pending, line, blk, ended, atn>>

AttachVsync ==
  /\ Main /\ pc = "attach_vsync"
  /\ vsync' = "falling" /\ pc' = "idle"
  /\ line' = FirstLine /\ blk' = NoBlock /\ ended' = 0
  /\ hit' = 0
  /\ UNCHANGED <<memory, camera, linecount, dma, dest, href, pending, ghosts,
                 lrl, atn>>

\* Between two images the operator may send the robot to config(), whose camera test
\* calls init_ov7670 each time; and afterwards it comes to KAMERAINIT again.  The
\* handlers are live there: a frame or a line may come between any two loops of
\* init_mem, or before the pinMode that takes the handler from its pin.
InitAgain ==
  /\ Main /\ Reconfigure /\ pc = "idle" /\ line = FirstLine
  /\ linecount' = 0
  /\ pc' = "again_request"
  /\ hit' = 0
  /\ UNCHANGED <<memory, camera, dma, dest, href, vsync, pending, line, blk, ended,
                 ghosts, lrl, atn>>

AgainRequest ==
  /\ Main /\ pc = "again_request"
  /\ lrl' = 0
  /\ pc' = "again_blocks"
  /\ UNCHANGED <<memory, camera, driver, pending, line, blk, ended, ghosts, atn, hit>>

AgainBlocks ==
  /\ Main /\ pc = "again_blocks"
  /\ bstate' = [b \in Blocks |-> EMPTY]
  /\ pc' = "again_links"
  /\ UNCHANGED <<mitl, camera, driver, pending, line, blk, ended, ghosts, lrl, atn, hit>>

AgainLinks ==
  /\ Main /\ pc = "again_links"
  /\ mitl' = [l \in Lines |-> NoBlock]
  /\ lockRace' = 0
  /\ pc' = "again_href"
  /\ UNCHANGED <<bstate, camera, driver, pending, line, blk, ended, desync, lrl, atn,
                 hit>>

\* pinMode writes the whole control register of the pin and so clears its interrupt
\* configuration: what detachInterrupt does.
DisableHref ==
  /\ Main /\ pc = "again_href"
  /\ href' = "none"
  /\ pc' = "again_vsync"
  /\ UNCHANGED <<memory, camera, linecount, dma, dest, vsync, pending, line, blk, ended,
                 ghosts, lrl, atn, hit>>

\* A frame that begins just before attaches the HREF handler again, for the whole of
\* the camera setup.
DisableVsync ==
  /\ Main /\ pc = "again_vsync"
  /\ vsync' = "none"
  /\ pc' = "camera_setup"
  /\ hit' = 0
  /\ UNCHANGED <<memory, camera, linecount, dma, dest, href, pending, line, blk, ended,
                 ghosts, lrl, atn>>

IsEmptied ==
  /\ \A b \in Blocks : bstate[b] = EMPTY
  /\ \A l \in Lines : mitl[l] = NoBlock

\* Half a second later the object dma gets another channel: disabled, and without a
\* destination.  Whatever a handler has put into the tables since they were emptied
\* stays there, and a HREF handler left on its pin has lost the camera.
NewChannel ==
  /\ Main /\ pc = "camera_setup"
  /\ dma' = "off" /\ dest' = NoBlock
  /\ pc' = "attach_vsync"
  /\ desync' = IF href # "none" THEN 2 ELSE IF IsEmptied THEN 0 ELSE 1
  /\ hit' = 0
  /\ UNCHANGED <<memory, camera, linecount, href, vsync, pending, line, blk, ended,
                 lockRace, lrl, atn>>

SecondInit == \/ InitAgain \/ AgainRequest \/ AgainBlocks \/ AgainLinks
              \/ DisableHref \/ DisableVsync \/ NewChannel

MainStep == \/ Request \/ Poll \/ PollAgain \/ Timeout \/ Lock
            \/ Use \/ UseFails \/ FreeLine \/ Unlink \/ Release \/ Finish
            \/ DetachHref \/ DetachVsync \/ StopInitMem \/ AttachVsync
            \/ SecondInit

---------------------------------------------------------------------------
\* init_ov7670 has just returned; the camera is anywhere in a frame.
Init ==
  /\ bstate = [b \in Blocks |-> EMPTY]
  /\ mitl = [l \in Lines |-> NoBlock]
  /\ content = [b \in Blocks |-> NoBlock]
  /\ linecount = 0 /\ lrl = 0
  /\ dma = "off" /\ dest = NoBlock
  /\ href = "none" /\ vsync = "falling"
  /\ pendH = 0 /\ pendV = 0
  /\ sline \in 0 .. HEIGHT /\ high \in Bit /\ (high = 1 => sline < HEIGHT)
  /\ atn = 0
  /\ pc = "idle" /\ line = FirstLine /\ blk = NoBlock /\ ended = 0
  /\ hit = 0 /\ lockRace = 0 /\ desync = 0

Next == Handler \/ Camera \/ AtnBegins \/ AtnEnds \/ MainStep

Spec == Init /\ [][Next]_vars

\* The camera never stops and a handler that can run does.  The main program
\* gets the CPU between handlers again and again, as a handler takes less than
\* a line: strong fairness, for every handler takes the CPU away from it.
\* Nothing is assumed about how a poll falls against the camera.
FairSpec == /\ Spec
            /\ WF_vars(Camera)
            /\ WF_vars(Handler)
            /\ SF_vars(MainStep)

---------------------------------------------------------------------------
(* Properties.                                                             *)

PCs == ShortPcs \cup {"idle", "poll", "wait", "use", "free", "finish",
                      "detach_href", "camera_setup"}

StateTable   == [Blocks -> BlockStates]
LinkTable    == [Lines -> Links]
ContentTable == [Blocks -> Lines \cup {NoBlock}]

\* Every variable has its type.
TypeOK ==
  /\ bstate \in StateTable
  /\ mitl \in LinkTable
  /\ content \in ContentTable
  /\ linecount \in Nat /\ linecount < 65536
  /\ lrl \in Lines
  /\ dma \in {"off", "on"} /\ dest \in Links
  /\ href \in {"none", "rising", "falling"} /\ vsync \in {"none", "falling"}
  /\ pendH \in Bit /\ pendV \in Bit
  /\ sline \in 0 .. HEIGHT /\ high \in Bit /\ (high = 1 => sline < HEIGHT)
  /\ atn \in {0, 1, 2}
  /\ pc \in PCs /\ line \in Lines /\ blk \in Links /\ ended \in Bit
  /\ (pc \in {"lock", "release"} => blk \in Blocks)
  /\ hit \in Bit /\ lockRace \in Bit /\ desync \in {0, 1, 2}

\* Inside a restart or a second init_ov7670, until the tables and the channel are
\* what they are to be.
Restarting == pc \in {"detach_vsync", "init_mem", "again_request", "again_blocks",
                      "again_links", "again_href", "again_vsync", "camera_setup"}

\* No restart or second init_ov7670 was hit by an edge in such a way that the count is
\* out of step with the camera in this frame, or that a block is left over that the
\* driver has no channel for (until the tables are emptied again).
Counted == desync # 2 /\ ~Restarting
InSync  == desync = 0 /\ ~Restarting

Clean == lockRace = 0 /\ InSync

DriverBlocks == {b \in Blocks : bstate[b] = LOCKED_BY_DRIVER}

\* "just one block can be locked by the driver" (ov7670.cpp:147): it is the
\* block of the line the camera is at, and the one the DMA channel writes.
\* Holds, whatever getline races do, unless an edge hit a second init_ov7670 between its
\* init_mem and the pinMode that takes the handlers away: the block taken there stays
\* with the driver, whose new DMA channel does not know it.
OneDriverBlock ==
  InSync => \A b \in DriverBlocks :
               /\ linecount < HEIGHT /\ mitl[linecount] = b
               /\ dest = b

\* linecount is the "realtime count" of the camera's lines (ov7670.cpp:149):
\* once a frame has begun under the driver, no edge is lost or counted twice
\* and the count never leaves the table, unless that frame began in the middle of a
\* restart or of a second init_ov7670.
InStep ==
  (Counted /\ href # "none" /\ pendH = 0 /\ pendV = 0) => linecount = sline

\* A FULL block that getline may hand out under a line holds that very line
\* of the camera (ov7670.cpp:358-362, hreffalling 501-514).
FullBlockHoldsItsLine ==
  Clean => \A l \in Lines :
    Holds(mitl[l], FULL) => content[mitl[l]] = l

\* While the encoder works on the pointer getline returned, its block holds
\* the line asked for, stays LOCKED and linked, and is never under the DMA
\* channel (getline 337-402, jpeg.cpp:910-924).
EncoderBlockIntact ==
  (Clean /\ pc = "use" /\ blk # NoBlock) =>
    /\ bstate[blk] = LOCKED /\ mitl[line] = blk
    /\ content[blk] = line
    /\ ~ (dma = "on" /\ dest = blk)

\* No block is lost: a LOCKED block is the one the consumer is about to free,
\* and a FULL block has exactly one link, so that it can be found or dropped
\* (cleanup 215-226, get_a_free_blocknumber 229-252, freeline 404-430).
NoBlockLost ==
  Clean =>
    /\ \A b \in Blocks : bstate[b] = LOCKED =>
         /\ pc \in {"use", "free", "release", "detach_href", "detach_vsync",
                    "init_mem"}
         /\ blk = b
    /\ \A b \in Blocks : bstate[b] = FULL =>
         /\ \E l \in Lines : mitl[l] = b
         /\ \A k, l \in Lines : mitl[k] = b /\ mitl[l] = b => k = l

\* encodeimage walks the lines in order, and then the window never holds so
\* many lines that the driver must drop a FULL line of this frame to start
\* the next one (get_a_free_blocknumber 237-248 is not reached).
NeverDropsALine == Clean => HasBlock(bstate, EMPTY)

\* Only the main program takes a block away from the encoder: no handler ever
\* changes a LOCKED block ("block is used by encoder", ov7670.cpp:146).
HandlersKeepOffLocked ==
  [][(Clean /\ Handler) =>
       \A b \in Blocks : bstate[b] = LOCKED => bstate'[b] = LOCKED]_vars

\* The window and the HREF handlers bring every line that is asked for into
\* the buffer ("getline returns a pointer to the line index"): getline does not
\* wait for a line that never comes, unless the radio's handler comes between.
\* The camera test refutes it.
RequestedLineComes ==
  pc = "poll" ~> \/ pc \notin {"poll", "wait"}
                 \/ Holds(mitl[line], FULL)
                 \/ atn = 1

\* After the radio's handler has let edges pass, the driver may be out of step
\* with blocks and lines mislabelled; but each vsyncrising counts from 0 and
\* drops what it can, and some frames later all is well again, for good.
Recovers == atn = 2 ~> [](InStep /\ OneDriverBlock /\ FullBlockHoldsItsLine)

=============================================================================
