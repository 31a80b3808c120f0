# Verification project for the soccer robot

The repository holds the firmware of a small robot that plays soccer by remote
control (`src/code`, for a Teensy 3.1) and the program of the operator's PC
(`src/testserver`). The robot films, compresses the picture line by line while
it films, sends it over a WiFi module, and obeys the driving commands that come
back over the same module. There is no operating system: a main loop and a
handful of interrupt handlers share plain global variables.

This directory states what that code promises and checks it, with TLC on small
instances and with the TLA+ proof system for every size.

Contents: 1 inventory, 2 the modules, 3 the line buffer, 4 the stream, 5 the
radio, 6 the robot, 7 configuration and sensor, 8 the operator's program, 9 what
the runs show, 10 what is proved, 11 what is not modelled.

## 1 Inventory

### 1.1 Components

**Camera driver** (`ov7670.cpp`). A line buffer of `MAXNUMBER` blocks,
each `EMPTY`, `FULL`, `LOCKED` (the consumer reads it) or `LOCKED_BY_DRIVER`
(the DMA channel writes it), and a table that links image lines to blocks.
Three interrupt handlers (`vsyncrising`, `hrefrising`, `hreffalling`) count
lines, start the DMA channel for lines in a window around the last requested
one, and publish finished lines. `getline` and `freeline` run in the main
program, unmasked. *Hard*: the consumer tests and stores without a lock; one
handler slot alternates between the two edges of HREF; restarts in the middle
of a frame; the buffer runs full. *Correct when*: the DMA channel never writes
what the encoder reads, a published block holds the line it is linked to, the
count follows the camera, no block leaks, a requested line comes.

**JPEG encoder** (`jpeg.cpp`, adapted from a public-domain encoder).
`encodeimage` asks for one line after the other, feeds `process_scanline`,
frees the line. Every 16 lines become one row of MCUs; compressed bytes go
through a buffer of `JPGE_OUT_BUF_SIZE` to the stream; a failed write is
latched in `m_all_stream_writes_succeeded`. `encodeimage` restarts the camera and
gives up when `process_scanline` fails. *Hard*: the error latch, the end of
image after a missing line, what has been sent of an image that fails.
*Correct when*: what is on the wire is a sequence of images none of which has
a hole.

**Output stream** (`wifistream.cpp`). A datagram buffer of 1400 bytes
whose first 12 are a packed status header; `put_buf` appends, and on overflow
fills up, sends, starts the next datagram and calls itself for the rest.
*Hard*: a failure in each of those steps, a retry loop without a bound, a
recursion whose result is dropped.

**Radio operations** (`wifi.cpp`). Initialisation, joining, the handlers
of incoming datagrams (`inbound_ip`, a command of the operator) and of modem
status, `wifi_senddata` with its retry, `attn_interrupt`. *Hard*: the
handler of the attention pin runs at the camera's priority and calls into the
same driver as the main program; answers of the radio that come late or not.

**XBee driver** (`XBee.cpp`). Frames over SPI, `tx_frame` with
received bytes interleaved, `rx_frame` as a byte-wise state machine, AT
commands and transmissions matched to their answers by an 8-bit id, with
timeouts. *Hard*: the bus shared by main program and handler (`spiLocked`),
late answers, wrap-around of the id.

**Robot state machine** (`soccerrobot.cpp`, `main.cpp`). `robot_state`
runs PREINIT, MOTORINIT, SENSORINIT, KAMERAINIT, WIFIINIT, MAINLOOP, ERROR,
USBCONFIG; `serialEvent` (from `yield`) and the handlers change what the loop
reads. *Hard*: stale state after a delay, commands that arrive while motors
are being stopped, re-initialisation. *Correct when*: the wheels obey the newest
command, stop when the link is lost, and use the stored configuration; a key
leads to the menu.

**Actuators** (`aktuators.cpp`): motors, kicker, mounting direction. *Hard*:
`motors` is called by the main program and by the handler, in the middle of each
other; arithmetic in eight bits. *Correct when*: no bridge has both sides on.
**Sensors** (`sensors.cpp`): pulse width of the ball sensor measured by
two edges of an interrupt, battery average. *Hard*: `read_ir` re-arms the
handler in the middle of a pulse and leaves its `static i`. *Correct when*: the
measurement finds back by itself.
**Configuration** (`config.cpp`): EEPROM image written byte by byte, the
status message, the camera flag shared with a handler. *Hard*: power cut in
the middle of a save. *Correct when*: no setting but the one being changed is
touched.
**LEDs** (`led.cpp`): blinking by a timer interrupt.
**SCCB** (`sccb.h`): bit-banged register writes to the camera.
**Console** (`serialutils.cpp`): blocking terminal input.
**Test server** (`testserver.py`): one thread takes datagrams and cuts
the images out of them, another sends the last command again and again.
*Hard*: datagrams lost, repeated or out of step with image boundaries; a lock
held across a system call that may fail. *Correct when*: what is decoded is an
image, the robot stops when no key is pressed, the window stays alive.
**Third party**: `SPI.cpp`, the Teensy core, `tools`.

### 1.2 How they interact

    camera pins --edges--> vsyncrising/hrefrising/hreffalling --\
    DMA channel --bytes--> line buffer <--getline/freeline-- encodeimage
                                                                  |
         XBee driver <--wifi_senddata-- put_buf <--flush_output_buffer
              |  ^                                                
    attention pin: attn_interrupt --dispatch--> inbound_ip --> motors, kick,
              |                                 inbound_status    activate_camera
              v                                      
       test server  --commands-->              robot_state <--> loop, serialEvent

Everything on the robot is shared memory; the only messages are frames to the
radio module and datagrams to the server.

### 1.3 What is hard to test

Every hazard is listed in `PROJECT.json`, at its line, with the properties that
would catch it going wrong. In short: the interleavings of the camera's handlers
with `getline` and `freeline`; restarts; the shared priority of
camera and radio; partial failure of a write; retries and late answers of the
radio; stale `robot_state`; a power cut during a save; the re-armed pulse
handler.

## 2 The modules

| # | modules | what | proofs |
|---|---|---|---|
| 1 | `LineBuffer`, `MCLineBuffer` | the camera driver with its consumers, the camera, the DMA channel and the CPU taken by the radio's handler | `LineBufferProofs`, `WindowProofs` |
| 2 | `ImageWire`, `Stream` | `put_buf`, the latch of failed writes, the outcomes of `wifi_senddata`; `ImageWire` is the promise to the listener that `Stream` implements | `StreamProofs` |
| 3 | `Delivery`, `Radio` | the bus, AT commands and transmissions against the attention handler and an answering, late or silent module, in the order in which the main program calls them; `Delivery` is the promise of `wifi_senddata` that `Radio` implements | `RadioProofs`, `DeliveryProofs` |
| 4 | `Motors`, `Robot`, `MCRobot` | `robot_state`, `loop`, `serialEvent`, the menu, and what a command does to wheels, kicker and camera, in the main program and in the handler; `Motors` is the arithmetic | `RobotProofs` |
| 5 | `Eeprom`, `IrSensor`, `Board`, `MCBoard` | the configuration store and the pulse sensor; `Board` composes them with the main program and with power cuts | `BoardProofs` |
| 6 | `Server` | the operator's program and the network | `ServerProofs` |

The modules meet at the interfaces of the code. `Stream` takes the answers of
`wifi_senddata` as open, and `Radio` shows what they mean (`Delivery`); what
`Stream` puts on the wire is an `ImageWire`, and `Server` takes datagrams of that
kind through a network. `LineBuffer` takes the time the attention handler needs
as open; `Radio` has the same handler with the frames it reads, and `Robot` with the
commands in them. Composing two of them whole would multiply their states
without a step that one of them does not already leave open.

They are written for both tools: parameters are CONSTANTS with named
assumptions, one action per operation, invariants are conjunctions of named
parts, no RECURSIVE operator. `MC` modules hold the values of an instance.

## 3 The line buffer

### 3.1 Correspondence

| model | code |
|---|---|
| `bstate`, `mitl` | `memmory_state`, `memmory_index_to_linenumber` |
| `linecount`, `lrl` | `linecount`, `lastrequestetline` |
| `dma`, `dest` | the DMA channel, enabled or not, and its destination |
| `href`, `vsync` | which edge `attachInterrupt` has a handler for |
| `pendH`, `pendV` | the interrupt flags of the pins |
| `sline`, `high`, `content` | the camera: line, level of HREF; which line was copied into each block |
| `pc`, `line`, `blk`, `ended` | the consumer: where `getline`, `freeline` or `encodeimage` is, its locals |
| `vsyncrising`, `hrefrising`, `hreffalling` | the handlers, each one step: HREF (port A) has priority 42, VSYNC (port B) the default, and two edges are far apart, so none of them interrupts another in practice; when both wait, HREF goes first |
| `StartDmaLine`, `IsFreeBlock`, `Unlinked`, `CleanedBlocks`, `CleanedLinks`, `Wanted` | `startdmaline`, `get_a_free_blocknumber`, `cleanup` and the window test |
| `Request` .. `Timeout`, `FreeLine` .. `Release` | `getline`, `freeline`, split at every access a handler can see |
| `Use`, `UseFails`, `Finish` | `process_scanline` in `encodeimage`, its two error paths and the end of an image |
| `DetachHref` .. `AttachVsync` | `startimageandfreeram`, which calls `stopimageandfreeram` first |
| `InitAgain` .. `AgainLinks` | `config()`, PREINIT, KAMERAINIT: `init_ov7670` for the second time, first the parts of `init_mem`, with the handlers live |
| `DisableHref`, `DisableVsync` | `pinMode` of the two pins: it writes the whole pin control register (`teensy3/pins_teensy.c:778`), and so clears the interrupt configuration that `attachInterrupt` has made there, as `detachInterrupt` does |
| `camera_setup`, `Transfers`, `NewChannel` | the half second of delays and register writes with the DMA requests of PCLK turned off, in the same way, by `pinMode(PCLK_PIN)`; then another channel for `dma`, disabled and cleared; then `AttachVsync` |

The consumer is `encodeimage` (`Encodes`: every line in order, restart on
failure) or `dummyprocessor` (the camera test of the menu: lines with a stride,
no error path). TLC runs the first; the proofs are for both.

### 3.2 What is abstracted

- A line is its number. `content[b]` is the line that was last copied whole into
  `b`; that the DMA channel is inside a block is told by `dma` and
  `dest`, and `EncoderBlockIntact` speaks about both.
- `cleanup` and `get_a_free_blocknumber` drop the *first* link to a block they
  find, and so does the model. That links are unique is a property
  (`NoBlockLost`), not a shape of the state.
- In `getline` the table lookup and the lookup of the block's state are one
  step. They are adjacent loads; one edge at most falls between them and the
  store that follows, which is the window `lock`.
- The two stores of `freeline` are made in either order: the tables are not
  volatile and the compiler may swap them.
- Past the last line `hreffalling` reads beyond `memmory_index_to_linenumber`.
  What it finds there is unknown: any driver block or none is published.
- The block the DMA channel is copying into holds no line (`hrefrising` takes it
  away) until the channel is through; a line cut off by `vsyncrising`, by a restart or by
  a new channel is not a line.
- `init_mem` is split at its loops where the handlers are live, in a second
  `init_ov7670`. In `stopimageandfreeram` it is one step: VSYNC is detached
  there, and a frame that began between the two `detachInterrupt` has no line for the
  time these loops take.
- `dma = DMAChannel()` is one step with `dma.disable()`; that the pointer of the object
  is null for some instructions in between is not modelled. It could only meet
  the HREF handler of a frame that began between the two `pinMode`.
- The registers written during a camera setup may reset the camera. With both handlers
  off the driver cannot tell where the camera is; with one that a frame has attached again
  its count is taken to be wrong in any case (`desync`).
- `delay(1)` in the wait loop lets any number of edges pass, and the timeout
  may strike at any poll that found nothing.

### 3.3 Bounds

| bound | meaning | why enough |
|---|---|---|
| `LINEBUFFERSIZE` | 8 in the build, 3 here | the window is then the requested line and the one before it, the least there is; more lines of look-ahead give the driver more time, and the proofs are for every size |
| `MAXNUMBER`, `HEIGHT` | 16 and 288 in the build (format CIF); 3 to 6 and 3 to 6 here | 5 blocks are too few for a whole image of 6 lines, so that the driver must choose blocks; with 4 blocks `NeverDropsALine` fails, and 5, two more than the window is said to be wide, are what `WindowProofs` needs: the run is on the edge where it matters |
| `hit` | one edge at most falls into a window of a few instructions of the main program | two edges of HREF are thousands of cycles apart, the windows are some ten. A second `init_mem`, with the two `pinMode`, is one window too: two loops over some 300 bytes, in which there is time for one edge and its handler |
| one line in a camera setup | HREF handlers left without VSYNC for half a second count up to one line past the image | no line is wanted from there on, so more lines only count; whatever they count, the driver is taken to be out of step then |
| `Races` | how often `getline` may lose its race between test and store | every loss leaks one block until the next `init_mem`; once shows it, the proofs are for any number |
| `AtnHold` | how often the attention handler may hold the CPU over edges: never, once (over any number of edges), any | the properties about an undisturbed driver assume never; the run `live` says what comes after |

`linecount` wraps at 65536 as in the code; with fewer lines it does not get
there in a run, but the proofs cover it.

### 3.4 Fairness

`FairSpec` has weak fairness of the camera (it is free-running hardware) and of
the handlers (an enabled interrupt is served), and strong fairness of the main
program: a handler takes less time than a line lasts, so the main program gets
the CPU again and again, but each handler disables its step for a while, which
is what strong fairness is about. No assumption is made on how polls fall
against edges, on timeouts, or on the radio's handler, which may keep the CPU
for ever: `Recovers` speaks only of the time after it has given it back, and
`RequestedLineComes` excuses the driver while it has the CPU.

## 4 The stream

### 4.1 Correspondence

| model | code |
|---|---|
| `buf`, `usage` | `stream_buffer` behind the header, `buffer_usage` less the header |
| `lo`, `hi`, `nested`, `ret` | the frame of `put_buf`: its argument, whether `put_buf` itself is the caller, where the encoder goes on |
| `size` | `buf_ofs` |
| `out`, `latch` | `m_out_buf_left`, `m_all_stream_writes_succeeded` |
| `img`, `pos`, `left` | the running image, its bytes so far, the bytes of the running marker |
| `wire`, `torn`, `failed`, `whole` | history: bytes sent, images with a dropped failure, images given up, lengths reported |
| `PutFits`, `PutOverflows`, `PutNotReady`, `Sent`, `SendAgain`, `SendFails` | the paths through `put_buf`, with what `wifi_isready` and `wifi_senddata` may answer |
| `EmitByte`, `HeaderDone`, `InitFails` | `emit_byte` under `init`; "jpeg error 1" |
| `Code`, `EndImage` | `put_bits` with `flush_output_buffer`, `process_end_of_image` |
| `GiveUp`, `Report` | "jpeg error" 2 and 3; `encodeimage` returns the size |
| `StartImage`, `CameraOff` | MAINLOOP with the camera on or off |

A byte is an image and a position. The encoder produces the bytes of an image
in order, so what `put_buf` is given is always an interval of positions, and a
buffer is a set with a fill level: the order inside it is the order of the
pairs. An image that ends early (a line did not come) is closed and then given
up, which is one of the ways to `GiveUp`. The datagrams that `sendstatus` sends
while the camera is off carry no payload and touch no variable.

What the radio answers is open at every step: not ready, 0, 3 or another code,
and with each code but 0 the datagram may be out or not, for `wifi_senddata`
itself repeats a transmission whose answer did not come (0xEE). What a
listener makes of a datagram that comes twice is module `Server`'s question.

`ImageWire` is what a listener may rely on: pictures grow byte by byte from the
first byte on, without a hole, one after the other. `Stream` implements it
(`KeepsPromise`), with `picture` mapped to the positions of each image on `wire`.
In the build a full output buffer of the encoder does not fit into a datagram
(2048 against 1388), a flush may take two datagrams, and `put_buf` ignores the
failure of the second (finding `dropped`). The image then has a hole, and
`Picture` shows it up to there; `torn` is the set of images to which this has
happened, and the other properties name it where they need to.

### 4.2 Bounds

| bound | meaning | why enough |
|---|---|---|
| `PAYLOAD` 3, `OUT` 5 | 1388 and 2048 in the build | the same shape: a flush is more than one datagram and less than two |
| `HEAD` 2 | some 600 bytes | the header is the part written byte by byte; 2 leaves the datagram boundary at every place of the next image |
| `IMAGES` 3 | unbounded | one whose tail waits, one that fails, one that follows |
| `MAXPOS` 15 | an image of some 10000 bytes | two full flushes and a partial one |

Fairness: `put_buf` and the encoder go on (they are the main program, no one
else waits for them). None of the radio: `SendAgain` may repeat for ever.

## 5 The radio

### 5.1 Correspondence

Three actors: the main program, `attn_interrupt`, and the XBee module, which is
modelled from how the driver uses it.

| model | code |
|---|---|
| `inq` | the frames the module has for the robot; ATN is low as long as there is one |
| `owed` | frames of the robot the module has taken and not answered yet |
| `joined`, `booting`, `wrong` | the module: in the network, in a reset, settings it does not have |
| `attached`, `edge`, `isr` | `attachInterrupt`/`detachInterrupt` of ATN, its interrupt flag, the handler running |
| `spiRunning`, `spiLocked` | the members of `XbeeWifi`; CS is asserted while `spiRunning` |
| `pc`, `op`, `stage`, `ex` | where the main program is, in which operation of `wifi.cpp`, in which exchange of it |
| `try`, `res` | attempts of `transmit` and the result of the operation |
| `held` | the frame whose callback the main program runs |
| `modemstatus` | `modemstatus` |
| `fresh`, `newest`, `aired`, `wasJoined` | history |
| `AttnBegins` .. `AttnEnds` | the handler: `process` until ATN is high |
| `LoopTop` .. `PollDone` | MAINLOOP looks at ATN and calls `attn_interrupt` itself, with the handler attached |
| `ChecksReady`, `Works`, `SendReturns`, `FaultReturns`, `GivesUp` | `wifi_isready` and `wifi_senddata` as `sendstatus` and `put_buf` call them, with what they do after a failure; the failure of a nested `put_buf` is not looked at (`wifistream.cpp:117`) and the encoder goes on |
| `PulsesReset`, `ResetReturns`, `SetupReturns`, `IsReady`, `ReadyReturns` | `errormessage`, ERROR, WIFIINIT with `setupwifi` |
| `Begins`, `DrainReads`, `DrainEnds`, `Attach` | the frame every operation of `wifi.cpp` has: `nointerrupt`, then `process` and `interrupt` at its end |
| `Lock`, `LockReads`, `Unlock`, `Write` | `tx_frame`, and `transmit` up to its `spiEnd` |
| `WaitReads`, `AtAnswered`, `AtTimesOut`, `AtReturns` | `at_cmd` waiting for its answer, and what `atbyte`, `atshort`, `atstring`, `write_AT_config` and `betterstatus` make of it |
| `TxAnswered`, `TxFails`, `FlushSpins`, `FlushEnds` | `transmit` waiting for its answer, `flush_spi`, the second attempt |

### 5.2 What is abstracted

- A frame is read in one step. Its bytes cannot be interleaved with the
  handler: ATN is low while the module has something to say, and the handler
  needs a falling edge. Only the callback of a frame, which runs with CS still
  asserted and possibly ATN high again, is a step of its own where the handler
  is attached.
- A frame that is written while the module has frames drops what is clocked out
  meanwhile: all of it, or the first ones with a rest that starts with garbage
  (`Clobbered`).
- The id of a frame is whether it is the newest. It is a byte that skips 0; for
  an old answer to carry a new id, 255 further frames would have to be sent
  while the module keeps it.
- Of a setting only matters whether it is made; `wrong` has one for each of the
  three functions, and each function makes one query and at most one setting. A
  query without an answer leaves the caller's buffer unwritten, so that either
  branch is possible.
- `delay`s are places where the module and the handler take any number of
  steps; timeouts may strike whenever no frame is there, however early.
- A resetting module loses its frames and debts, and tells that it was reset.

`Faults` says what may go wrong: the module ignores a frame (`deaf`), there is
noise on the bus or an answer with a wrong checksum (`noise`), its own watchdog
resets it (`crash`).

`HoldsBack` says whether the module queues no frame while it is selected. The
driver counts on it: "This way we (hopefully) stop the Xbee from queuing up any
inbound frames" (`XBee.cpp:966`). `NothingClobbered` and `StatusIsNewest` need
it (without it a frame between the last `process` and the write is lost, and a
status that comes in during the main program's own callback is overwritten by
the older one); the others are checked or proved without.

`Delivery` is what the callers of `wifi_senddata` rely on: 0 only if the
datagram was sent, and sent twice at most. Twice does happen: a lost answer makes
`wifi_senddata` repeat the datagram, and the listener cannot tell.

### 5.3 Bounds and fairness

| bound | meaning | why enough |
|---|---|---|
| `QLEN` 2 | frames that wait for the robot | one to be taken for the answer and the answer behind it; a status behind a command |
| `OWED` 2 | frames of the robot that are not answered | the datagram's first attempt is still open when the second is written; a further frame is ignored |
| `BUDGET` 2 or 1 | commands, noise, losses of the network and crashes | each of them twice, or any two in either order; joins and answers are not counted |

The proofs are for every value of these bounds.

`FairSpec` has weak fairness of the handler and of the main program: nothing but the
handler holds the main program up, every wait has a timeout, and the module can
keep the handler busy only with frames, of which it has finitely many on its
own (`BUDGET`). None of the module: it need not answer.

## 6 The robot

### 6.1 Correspondence

Two actors run the same code on the same globals: the main program, and
`attn_interrupt`, as the handler of the attention pin.

| model | code |
|---|---|
| `robot_state`, `input` | `robot_state`; `Serial.available()` |
| `pc`, `back`, `menu` | where the main program is, where the call returns, whether it is inside `config()` |
| `step`, `speed`, `held` | the pin write of `motors` it is at; the speeds and the command of the call |
| `isr`, `icmd`, `attached`, `edge` | the handler, its command; `attachInterrupt` and the flag of ATN |
| `frame`, `link` | the command that waits in the module; whether it is joined |
| `pins`, `kickpin` | the duties of the four motor pins, the kicker's coil |
| `camerastate`, `tmp` | the two variables of `activate_camera` |
| `dir`, `minspeed`, `c` | `motor_*_direction`, `motor_*_minspeed`, and the stored configuration |
| `asked`, `overtaken`, `crossed` | history |
| `SerialEvent` | `yield` in every `delay`, that of `kick` in the handler included |
| `AttnBegins` .. `AttnEnds` | the handler: `process` until no frame waits, `inbound_ip` with `motors`, `kick`, `activate_camera` |
| `MotorsWrite`, `KickBegins`, `KickEnds`, `Compares`, `Stores` | the same functions in the main program, one access at a time: the handler may come between any two |
| `Operates`, `RadioObeys`, `RadioEnds` | an operation of `wifi.cpp`: the handler is detached and the main program runs the callbacks; one that fails in a nested `put_buf` comes back as if nothing had happened |
| `Fails`, `Resets` | `errormessage`: ERROR, `motors(0, 0)`, `wifi_reset` |
| `Advances` .. `MenuOpens` | the cases of `loop` |
| `MenuExits`, `MenuRadio`, `MenuTests`, `MenuMeasures` | the items of `config()` that move wheels, change the configuration of the motors or use the radio |

The radio is reduced to what matters here; module `Radio` has the rest. An image
or a status takes one datagram at least, so that a turn of the loop without a
confirmed datagram ends in `errormessage`. `kick` under `RadioObeys` is left in one
step: the handler is detached and nobody else touches the coil. `Motors` keeps
the eight bits of a speed and the seven of a duty, the order of negation and
minimal speed, and the saturation of `analogWrite`.

### 6.2 What the properties had to be told

- `NewestCommandDrives` excuses `overtaken`: if the handler calls `motors` within a
  call of the main program, the main program goes on with its own writes, and a
  wheel then obeys the one, the other, or stands. The next call ends that. In
  any case no bridge has both sides on outside `motors` (`NoShortCircuit`).
- `CameraSwitchable` excuses two commands obeyed by the handler within the few
  instructions of one call of `activate_camera`: flag and copy may then differ,
  and the command to switch is ignored until the other one has come.
- `Configured` holds although the menu may be called in the middle of the
  initialisation, because `config()` returns to PREINIT.
- `LinkLossStops` is what the code has for a lost operator. A command that was
  already waiting in the module may start the wheels again behind `motors(0, 0)`,
  and then the next failure stops them. An operator who falls silent while the link
  is up is not noticed: the test for old messages is commented out
  (`soccerrobot.cpp:559`). And the wheels keep turning while the menu opens.
- A minimal speed of 128 or more, which the menu accepts, turns the direction of a
  slow wheel round, as it is negative in eight bits; `WheelObeys` (section 10)
  has the range in which a wheel obeys.

### 6.3 Bounds and fairness

| bound | meaning | why enough |
|---|---|---|
| `Commands` 2 | one with a wheel faster than the pin can go, one that kicks, drives back and switches the camera off | the newest command and another one; both values of each field |
| `Configs` 2 | motors turned or not, minimal speed 60 | an old and a new configuration, and speeds on both sides of the minimal speed |
| `OPS` 1 | operations on the radio in one image or setup | one datagram per turn can succeed or fail |
| `BURST` 2 | commands in one turn of the loop | one for the handler in the middle of the main program's; two are what breaks `activate_camera` |

`FairSpec` has weak fairness of the handler and of the main program. The operator's
choices in the menu are not forced. `OPS` and `BURST` bound what the code leaves
unbounded: a send that answers 3 for ever and a stream of commands that never
lets the loop go on are hazards of their own (section 1.3), and the hang in
`flush_spi` is finding `flush`.

## 7 Configuration and sensor

### 7.1 Correspondence

| model | code |
|---|---|
| `c`, `eep`, `valid` | the struct in RAM, its bytes in the EEPROM, the flag 0x42 |
| `cell`, `during`, `old` | the byte `saveeeprom` is at; the setting being changed and the configuration before (history) |
| `Loaded`, `Load` | `loadeeprom` with its defaults, which leave the directions of the motors as they were read |
| `Change`, `SaveCell` | a menu item changes a setting; one turn of the loop of `saveeeprom` |
| `level`, `mode`, `pending` | the pin of the sensor, the edge its interrupt is attached to, its flag |
| `i`, `stamp`, `pulsewidth` | the two statics of `pulseinterrupt`, and its result |
| `debt`, `calm` | history: disturbances not yet paid for by a wrong width; quiet pulses since the last |
| `PulseInterrupt`, `ReadIr`, `InitSensors` | the functions of `sensors.cpp` |
| `Near`, `IrClass`, `GoalValue` | `generatestatusmessage`'s comparison, and the value item 14 stores |
| `Board` | PREINIT, SENSORINIT, status, the menu's items, and `PowerCut` at any point |

Of a pulse only matters whether the measured width is that of one pulse: `stamp`
is "now" if the time was taken in the pulse that is running. The handler is one
step; how late it comes only matters if the next edge comes first. Bytes of
the struct that belong together are cells with the same `Setting`; padding is left
out.

On the very first boot the EEPROM is erased, and every cell but the directions
gets its default; the directions stay erased until they are entered. A save that
is cut before the flag leaves the defaults, which is why `CutKeepsSettings` holds
there too.

`read_ir` attaches the falling edge without resetting `static i`. In the middle of
a pulse that turns the meaning of the next two edges round: one width is wrong,
and the handler is then in step again. `OneWrongPerDisturbance` says it is never more than
one. Item 14 sums up a hundred widths without a look at them; `CalmCalibration`
says what it takes for the result to be right.

It is then still not what the status needs. `conf->irtorwert-irwert` is unsigned, so
the macro `abs` (`teensy3/wiring.h:70`) never negates it, and only widths up to 149
*below* a multiple of the goal value are recognised. Item 14 subtracts 100 from the
mean, and the robot before its goal is 100 above: `GoalIsMissed`. A key pressed
while item 14 samples stores a hundredth of the sum so far, less 100, which may
wrap around below 0.

### 7.2 Bounds

Four cells: a setting of two bytes, the directions, the goal value; two values per
byte. Two samples instead of a hundred, so that one can be right and one wrong.
`debt` counts to 2 and `calm` to 3, the most the properties ask for. The proofs
are for any layout and number of samples. No fairness: all properties are safety.

## 8 The operator's program

### 8.1 Correspondence

| model | code |
|---|---|
| `net`, `dups`, `talked` | datagrams on their way, which may be lost, come twice, or overtake each other |
| `image_buffer`, `shown`, `frames` | `server.image_buffer`; what was last given to the decoder, and how often |
| `gui` | the thread of the window: in the main loop, in `recvfrom`, at the lock, with the lock |
| `sender` | the command thread: at the test of `stop`, at the lock, sending, releasing; ended, or dead of an exception |
| `lock`, `queue` | `queueLock`, `befehlQueue`, of whose ten places `keydown` uses one |
| `commands`, `wheels` | commands on their way, which may be lost, repeated and reordered; what the robot does |
| `Cuts`, `Receives`, `ReceivesFirst` | `server`; the datagram by which the program learns the address, which is not shown |
| `KeyDown`, `GuiLocks`, `Puts`, `Closes` | `keydown`, and the end of `mainloop` |
| `Checks` .. `Releases` | `befehl.run` |

A byte of the robot's stream is its number, `StartsImage` the numbers at which the
marker FF D8 stands; datagrams have `PAYLOAD` of them. Commands are "go" and "stand".

`ShownIsWholeImages` says what a stream in order gives. Usually one image each; two
joined ones if the marker is split over two datagrams, or if a datagram holds
the beginnings of two images, as only the first is looked for. `BeginsWithMarker`
holds whatever the network does. After a loss, what is decoded begins with a
marker and may have anything behind it; the decoder's exception is caught.

### 8.2 Bounds and fairness

| bound | meaning | why enough |
|---|---|---|
| `PAYLOAD` 5, `LENGTH` 3 | 1388 bytes, images of some thousands | image boundaries fall on every place of a datagram: whole images, a split marker and two markers in a datagram all occur |
| `DATAGRAMS` 4 | the first, which is not shown, and three | two images are decoded, one of which was joined |
| `DUPS` 1, `KEYS` 2 | datagrams that come again; keys | one repetition; a key while the command of another is queued |

`FairSpec`: the command thread goes on (the operating system schedules it); a lock
that is free for 0.1 s again and again is got, by both threads; a command to stand
still, sent again and again, arrives. Nothing is assumed of the robot's
datagrams: with a silent robot the window's thread waits in `recvfrom` for ever, and
`WheelsStop` holds all the same. Two things it has to excuse: `sendto` raises an
exception, the command thread dies with the lock and the next key freezes the
window (`testserver.py:63`); or the window is closed right after a key and no
command to stand still follows. Either way the robot keeps moving, as it has no
failsafe of its own (section 6.2).

## 9 What the runs show

| run | question | outcome |
|---|---|---|
| `encode` | the encoder takes an image of 6 lines through 5 blocks, with failures and timeouts at any point | types; the count follows the camera; no handler touches a LOCKED block; an EMPTY block is always left |
| `config` | restarts after failures, `init_ov7670` again by way of `config()` with the camera coming between its steps, fewer blocks than lines, and one lost race of `getline` | the driver block, the content of FULL blocks, the encoder's block and the absence of leaks survive wherever they can (the premises `InSync` and `Clean`), also when `get_a_free_blocknumber` takes FULL blocks back |
| `live` | every request of the encoder is answered; the attention handler hides any edges, one time | a requested line comes, or `getline` has given up; from some frame on the driver is in step again, for good |
| `chunk` | three images through datagrams as in the build, every answer of the radio | no buffer overflows; no image has a hole unless a nested write failed; the tail of a reported image is lost only with a later failure; the size is right; a stub is never continued; a failed write ends the image; the stream implements `ImageWire` |
| `held` | a module that holds back, is deaf at times, garbles and shakes | types; the robot writes to an empty bus; the bus is free outside the driver; the handler stays out of the operations; no status is overwritten by an older one |
| `free` | a module that queues frames at any moment, is deaf, garbles and resets itself | 0 still means sent; `Radio` implements `Delivery`; every operation ends, except in `flush_spi` |
| `robot` | main loop, menu and handler share wheels, kicker, camera flag and state | types and duties; no bridge is shorted; the wheels do what the newest call says unless the handler overtook one; the camera can be switched; directions and minimal speeds are the stored ones; a key reaches the menu, a lost link stops the wheels, the coil is released |
| `board` | power cuts at every byte of a save; a sensor read in the middle of its pulses | of a cut change each byte is old or new and no other setting suffers; each wrong width has a disturbance of its own; a calm calibration is right |
| `server` | datagrams lost, repeated, reordered; a command thread that may die | what is decoded begins with a marker; in order and without loss it is whole images; the robot stops after a key; a key does not freeze the window unless the thread died with the lock |
| `flush` | finding | `flush_spi` after CS was released: the main program hangs |
| `setup` | finding, two causes | `setupwifi` succeeds, no setting was made and the module has not joined |
| `dropped` | finding | a nested `put_buf` fails and the image, with a hole, is reported as a success |

The findings are disagreements between a comment and the code: `dropped` costs
an image, `flush` stops the robot until power is cut, and `setup` shows that an
unanswered `AI` query counts as JOINED, that the robot then sends into the
void until the first failure, and that the module must have been configured by other
means.

Met while modelling, and not the subject of a run: the camera test of the menu
starts its requests outside the window of line 0, so that right after power-up
HREF is never armed and every request times out (`ov7670.cpp:457`; the proofs of
`LineBuffer` cover that consumer). On the yellow robot the answer 0, "normal", to
item 7 gives `~0`, which is not 0 either: the left motor is inverted whatever is
entered (`aktuators.cpp:87`). And a robot calibrated by item 14 reports no goal
when it stands before it (section 7).

Three more weaknesses of the driver appear as premises of the properties, and
everything else is shown without them. `Clean` excludes that `vsyncrising` falls
between the test and the store of `getline`: the block then stays LOCKED until
the next `init_mem`, as `freeline` finds no link to it. `InSync` excludes that an edge
of the camera hits a second `init_ov7670` in the few instructions between its
`init_mem` and its second `pinMode`. A handler may then take a block whose line
or state the next loop forgets: it stays with the driver, beside the block of the
line, until the next `init_mem`. Or the frame begins between the two `pinMode`: its
`vsyncrising` attaches HREF again, and the HREF handlers go on through the half second
of the camera setup, without VSYNC, publishing blocks into which no pixel comes, and
are still there when the channel is replaced under them. The rest of that half
second does no harm, though nothing detaches the handlers by name, because `pinMode` does
(3.1); the model keeps each step, and `desync` is set at the end (`NewChannel`) only
if a handler is live or the tables are not empty. And `AtnHold` says whether the
attention handler
may hide edges of the camera; then the encoder may be given another line than it
asked for, until the driver has found back (`Recovers`).

## 10 What is proved

Every module of section 2 has its proofs, for every value of the constants that
its named ASSUMEs allow; the runs check the same formulas on small instances first.

`LineBufferProofs` proves, for every size of image and buffer, every order of
requests, any number of restarts and any number of lost races:

| theorem | statement |
|---|---|
| `TypeCorrect` | `Spec => []TypeOK`, whatever the radio does |
| `Inductive` | the invariant below is one, if no edge of the camera is held back |
| `DriverBlock`, `LineCount`, `FullBlock`, `EncoderBlock`, `BlocksKept`, `LockedIsSafe` | the safety properties of the runs `encode` and `config`, from the same invariant |
| `CountRecovers` | however many edges the attention handler has hidden: the first frame whose `vsyncrising` runs before its first line brings `linecount` back to the camera, for good, but for what `Counted` excepts |
| `RestartHelps` | a restart of the driver gives back the whole invariant, whatever the tables held; the count need not be right unless a frame began between its two `detachInterrupt`. A second `init_ov7670` that no edge hits in its first steps does the same |
| `StaysRight` | with the invariant back, the second half of `Recovers` holds: count, driver block and FULL blocks stay right for good, but for what `InSync` and `Clean` except |

Assumptions: the named ASSUMEs of `LineBuffer` (a window of at least 3 lines,
at least 3 blocks and at most 120, an image of at least 2 and less than 65535
lines) and `Prompt`, which says that the attention handler does not hold the
CPU over edges of the camera. Without `Prompt` the properties are false (the
encoder is given another line). `TypeCorrect` and the last three theorems do not need
it: the invariant has, in place of `Prompt`, that the handler does not hold the CPU now
and will not again (`Undisturbed`), and so can be reached after a disturbance as well.

None of the properties is inductive. That a finished line is published under
the right number needs that the armed handler, the level of HREF and the flags
agree (`Edges`), that the count is the camera's (`Count`) and that the driver's
block is the one the DMA channel fills (`Capture`). That two handlers' worth of
stores between the two stores of `freeline` do no harm needs to know what state
the half-freed block can be in (`Freeing`). And that blocks do not leak needs
that links are unique, with the one exception in the middle of `freeline`
(`Tidy`, `Owned`). `IInv` is the conjunction; each part has a lemma that it is
preserved by every action, and `IInvStep` puts them together.

`WindowProofs` proves one more property of the driver:

| theorem | statement |
|---|---|
| `NeverDrops` | `NeverDropsALine`: an encoder that walks the lines in order always leaves an EMPTY block, so that the driver never takes back a line of the running frame |

Assumptions: `Prompt`, `EncodeOrder` (the consumer is `encodeimage`) and `Room`, that is
`MAXNUMBER >= LINEBUFFERSIZE + 2`: 16 and 8 in the build, and twice in every format of
`ov7670.h`. One block fewer is too few:
TLC finds a counterexample for a window of 3, 4 blocks and 6 lines. The camera takes
only lines of the window, `LINEBUFFERSIZE - 1` at most; lines behind the window keep
their blocks until the next frame begins, and the question is how many there can be.
`Pace` says: two, the line `p` at which the encoder was when the frame began and the one
before. For a line that the encoder has walked over since is free, and the camera has
passed it (`Walked`), as a line is FULL only after the camera was there (`Fresh`); the
exceptions are the places of the consumer where it has asked and not yet been given
(`BeganAt` has a conjunct for each). A place in `0 .. LINEBUFFERSIZE` for each line and a
pigeonhole argument do the rest (`RoomLeft`).

`StreamProofs` proves the same way, for datagrams, output buffers and images of
any size and whatever the radio answers:

| theorem | statement |
|---|---|
| `Inductive`, `TypeCorrect` | the invariant; no buffer is overfilled however a write is split |
| `WireHasNoHole`, `ReportedComes`, `SizeIsRight`, `StubStays` | the properties of run `chunk` |
| `PromiseKept` | `Stream` implements `ImageWire`, an image torn by a dropped failure being shown up to its hole |
| `FailureIsReported` | under `OneDatagram`, that is `OUT <= PAYLOAD`: `WriteFailureIsReported`, the property of run `dropped` |
| `ImageEnds` | every step of `encodeimage` and `put_buf` lowers a measure (`ToGo`), except the repeat of a datagram that the radio answers with 3; and after a failed write nothing is sent |

`OneDatagram` is not true of the build (finding `dropped`); the last theorem says
that a smaller `JPGE_OUT_BUF_SIZE` is enough of a remedy. `NoHole` alone is not
inductive: it needs that the buffer and the wire together have no hole and
reach up to the byte the encoder writes next (`Held`), where that byte is at
every point of `put_buf` (`Place`), and that the bytes waiting in the buffer
are older than none on the wire but sent ones (`Past`). `ToGo` counts the parts and
blocks of the image still to come, the bytes not yet in a datagram, and the calls of
`put_buf` for the running write. It stays bounded because `put_buf` calls itself only with
an empty datagram (`Emptied`): a write sends at most one datagram without taking a byte.
So on the way from the encoder to the radio only the repeat at `wifistream.cpp:99` can
keep an image from ending; that the lines come is the driver's part (`RequestedLineComes`).

`RadioProofs` proves for queues of any length, any budget and any faults:

| theorem | statement |
|---|---|
| `TypeCorrect`, `BusIsReleased`, `HandlerIsKeptOut`, `ConfirmedSent` | the properties of the runs `held` and `free` that need nothing of the module |
| `NothingIsClobbered`, `StatusNewest` | under `HoldsBack`, the other two |

That success means sent is not inductive. It needs that while `transmit` waits,
each success with its id that is on its way, and each debt that could become
one, belongs to the running call (`Answered`): a frame that is written makes
every older one old (`Older`), and the module answers only what it owes. Which
part of the driver holds the bus (`Bus`) and that the handler is detached in
every operation (`Kept`) are inductive together with the types. `HeldBus` adds
what a module that holds back gives: while the driver holds CS the queue does
not grow and no edge comes, so that the handler cannot get in between.

`DeliveryProofs` goes on from there, with the same generality and no assumption:

| theorem | statement |
|---|---|
| `PromiseKept` | `Radio` implements `Delivery`: `wifi_senddata` sends a datagram twice at most, and reports success only if it sent it |
| `CallsAdvance` | the part of `EveryCallReturns` that is not liveness: outside `flush_spi` each step of an operation reads a frame, or lowers a measure (`Rank`, at most 37) that nothing the module does raises |

That a datagram is sent twice at most is an argument by counting: how often it was sent,
how many attempts `transmit` still has (`Left`), and how many debts of the module carry
it are two together at most (`Counted`): a bound and not a sum, as datagrams and debts
are lost.

`RobotProofs` proves for any commands, configurations and bounds:

| theorem | statement |
|---|---|
| `TypeCorrect` | every speed stays in eight bits and every duty in the range of its pin |
| `NoShort`, `NewestDrives`, `CameraStays`, `ConfigApplied` | the safety properties of run `robot` |
| `WheelObeys` | a lemma of the arithmetic with a reader of its own: a wheel told a speed of -125 to 125 turns that way, at least at its minimal speed, as long as that is below 128 |
| `CoilIsWatched` | the coil is on only while a `kick()` waits that switches it off, in the main program or in the handler |

The wheels need the invariant that after each of the four writes the pins already
written show the running call's speeds (`MotorsWriteSteps` has the four cases), that a
call the handler overtook leaves one of the two sides released, and what `asked` is
while the call runs. That configuration and motors agree needs to know in which
states and places of the menu they may not.

`BoardProofs` proves for a configuration of any size and layout, any values, any
number of samples:

| theorem | statement |
|---|---|
| `CutKeeps`, `WrongHasCause`, `CalmIsRight` | the properties of run `board` |
| `TypeCorrect` | its types, which are part of the invariant and left to the proof |
| `GoalIsMissed` | the goal value of item 14 for a mean width from 350 on makes `generatestatusmessage` report 0 for that width |

`CutKeepsSettings` needs that a save has written exactly the cells before `cell`
(and, without a valid flag, that RAM still is what the defaults give, apart from the
setting being changed). `OneWrongPerDisturbance` is about a sum: what
is inductive is `debt` minus what the present state of edge, flag and `i` can still
cost.

`ServerProofs` proves for images and datagrams of any length and any faults of the
network:

| theorem | statement |
|---|---|
| `TypeCorrect` | types, among them that no datagram arrives that was not sent |
| `MarkerFirst`, `WholeImages` | the safety properties of run `server` |
| `LockIsReturned` | whoever has the lock of the command queue is about to release it, unless it is a command thread that died with it |

The buffer begins with a marker once one image has been shown, as a marker found in a
datagram has both bytes there, and appending keeps the beginning (`BufferBegins`). While
the datagrams come in order, buffer and image are runs of the stream, the buffer up to
the end of the last datagram (`InOrder`, with lemmas on how runs are cut and joined); that
only the first marker of a datagram is found is what lets a second image in. That the
lock is returned is inductive only with the fact that there is no command thread before
the first datagram: the thread started there would otherwise forget a lock it has.

Every invariant and action property of the passing runs is proved, and so are both
refinements. Only model-checked are the liveness properties, as the prover has neither
fairness nor ENABLED. Of five of them the halves without fairness are proved: that each
step gets nearer, or that what must happen is still to come.

| liveness, model-checked | its half that is proved |
|---|---|
| `EveryCallReturns` | `CallsAdvance` |
| `Recovers` | `StaysRight`, with `CountRecovers` and `RestartHelps` |
| `FailureEndsImage` | `ImageEnds` |
| `KickReleased` | `CoilIsWatched` |
| `KeyReturns` | `LockIsReturned` |
| `RequestedLineComes`, `KeyServed`, `LinkLossStops`, `WheelsStop` | none |

## 11 What is not modelled

- The pure data of the picture: DCT, quantisation, Huffman coding.
- Registers of camera, timers and pins; terminal output; frame rate statistics.
- Torn lines: when the attention handler delays a handler beyond the end of a
  line, the DMA channel moves on into the next one; the model keeps whole
  lines. Properties about contents are not claimed under `AtnHold`.
- The fields of the status header but the class of the sensor: constants, a
  counter, and the battery averages, which are arithmetic on analog readings.
- The images on the robot's side of the network: `wire` and `aired` are what left
  the robot; `Server` starts from datagrams of a stream without a hole.
- Bytes inside a frame of the radio, the wrap-around of frame ids, scans and
  remote commands of the driver (compiled out or never called), the menu's
  exercises of radio and camera registers (`dns_lookup`, `speedtest`,
  `print_xbee_config`, items 9 to 12).
- LEDs (`led.cpp`): every function stops the timer before it writes flags and pin,
  and the timer's handler has the lowest priority and changes nothing that others
  read. There is no order of steps in which something could go wrong.
- SCCB (`sccb.h`): one writer, a fixed sequence of pin writes, and no look at the
  acknowledge.
- Console (`serialutils.cpp`): blocking input and escape sequences; what the user may
  enter is open in `Robot` and `Board`.
- The watchdog and the variant `ROBOTERSCHWARZ`, both compiled out; `#define alternate`
  of the sensor.
- Third-party code: the Teensy core, the SPI library, compiler and headers, which are
  nearly all lines of the repository. Where the firmware's behaviour rests on them
  (`attachInterrupt` drops a pending edge, `delay` calls `yield`, `analogWrite`
  saturates, the EEPROM takes single bytes) the models have it.
