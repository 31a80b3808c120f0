------------------------------- MODULE Stream -------------------------------
(***************************************************************************)
(* The way of an image from the encoder to the radio: the output buffer of *)
(* jpeg_encoder and its latch of failed writes (code/src/jpeg.cpp), the    *)
(* datagram buffer and put_buf (wifistream.cpp), and what wifi_senddata    *)
(* (wifi.cpp) makes of a datagram.  All of it runs in the main program;    *)
(* what is open at every step is what the radio answers.                   *)
(*                                                                         *)
(* A byte is <<image, position>>.  The encoder produces the bytes of an    *)
(* image in order, so that the argument of put_buf is an interval of       *)
(* positions and the two buffers are sets with a fill level.               *)
(***************************************************************************)
EXTENDS Integers

CONSTANTS
  PAYLOAD,  \* BUFFER_SIZE - sizeof(struct status)
  OUT,      \* JPGE_OUT_BUF_SIZE
  HEAD,     \* bytes of the markers in front of an image
  IMAGES,   \* bound: number of images
  MAXPOS    \* bound: bytes of the largest image

EOI == 2    \* bytes of the marker that ends an image

ASSUME SizeAssumption ==
  /\ PAYLOAD \in Nat /\ PAYLOAD >= 1
  /\ OUT \in Nat /\ OUT >= 1
  /\ HEAD \in Nat /\ HEAD >= 1
ASSUME ImageAssumption == IMAGES \in Nat /\ MAXPOS \in Nat /\ HEAD + EOI <= MAXPOS

Images    == 1 .. IMAGES
Positions == 1 .. MAXPOS
Bytes     == Images \X Positions

VARIABLES
  pc,      \* where encodeimage or put_buf is
  ret,     \* pc of the caller of put_buf
  img,     \* the image encodeimage works on, 0 before the first
  pos,     \* bytes produced of it
  left,    \* bytes of the running marker that are still to come
  out,     \* fill level of m_out_buf
  latch,   \* m_all_stream_writes_succeeded
  lo, hi,  \* argument of the running put_buf: positions lo .. hi
  nested,  \* 1: put_buf has been called by put_buf
  buf, usage, \* payload in stream_buffer, and buffer_usage without header
  size,    \* buf_ofs
  wire,    \* ghost: all bytes that have been sent
  torn,    \* ghost: images with a write whose failure was dropped
  failed,  \* ghost: images given up with init_buffer
  whole    \* ghost: length of the images whose success was reported, else 0

encoder == <<img, pos, left, out>>
call    == <<lo, hi, nested, ret>>
buffer  == <<buf, usage>>
record  == <<wire, torn, failed, whole>>
vars    == <<pc, encoder, latch, call, buffer, size, record>>

Init ==
  /\ pc = "idle" /\ ret = "idle"
  /\ img = 0 /\ pos = 0 /\ left = 0 /\ out = 0 /\ latch = 1
  /\ lo = 1 /\ hi = 0 /\ nested = 0
  /\ buf = {} /\ usage = 0 /\ size = 0
  /\ wire = {} /\ torn = {} /\ failed = {}
  /\ whole = [k \in Images |-> 0]

\* The bytes a to b of the running image.
Piece(a, b) == {<<img, i>> : i \in a .. b}

---------------------------------------------------------------------------
(* put_buf.                                                                *)

\* A write of positions a to b by the encoder, unless one has failed.
Write(a, b, back) ==
  IF latch = 1
  THEN /\ pc' = "put" /\ lo' = a /\ hi' = b /\ nested' = 0 /\ ret' = back
  ELSE /\ pc' = back /\ UNCHANGED call

\* Mutant: a failed write is not remembered.
ReturnsUnlatched(ok) ==
  /\ pc' = ret
  /\ lo' = 1 /\ hi' = 0 /\ nested' = 0 /\ ret' = "idle"
  /\ torn' = IF ~ok /\ nested = 1 THEN torn \cup {img} ELSE torn
  /\ UNCHANGED latch

\* Mutant: a failed write is tried again, until the radio is ready.
ReturnsWaits(ok) ==
  /\ pc' = IF ok THEN ret ELSE "put"
  /\ latch' = IF ok THEN latch ELSE 0
  /\ UNCHANGED <<call, torn>>

\* put_buf returns ok to the encoder: a call from itself has its result
\* dropped, and the outer call returns true.
Returns(ok) ==
  /\ pc' = ret
  /\ lo' = 1 /\ hi' = 0 /\ nested' = 0 /\ ret' = "idle"
  /\ latch' = IF ok \/ nested = 1 THEN latch ELSE 0
  /\ torn' = IF ~ok /\ nested = 1 THEN torn \cup {img} ELSE torn

Rest == PAYLOAD - usage           \* restlength

\* Mutant: one byte too many fits.
FitsOneMore == hi - lo + 1 <= Rest + 1

Fits == hi - lo + 1 <= Rest

PutFits ==
  /\ pc = "put" /\ Fits
  /\ buf' = buf \cup Piece(lo, hi)
  /\ usage' = usage + (hi - lo + 1)
  /\ size' = size + (hi - lo + 1)
  /\ Returns(TRUE)
  /\ UNCHANGED <<encoder, wire, failed, whole>>

\* Mutant: the whole argument is counted, and what is left of it again.
PutOverflowsCountsTwice ==
  /\ pc = "put" /\ ~Fits
  /\ size' = size + (hi - lo + 1)
  /\ pc' = "send"
  /\ UNCHANGED <<encoder, latch, call, buffer, record>>

\* The datagram is filled up and goes to the radio, if that is ready.
PutOverflows ==
  /\ pc = "put" /\ ~Fits
  /\ size' = size + Rest
  /\ pc' = "send"
  /\ UNCHANGED <<encoder, latch, call, buffer, record>>

PutNotReady ==
  /\ pc = "put" /\ ~Fits
  /\ size' = size + Rest
  /\ Returns(FALSE)
  /\ UNCHANGED <<encoder, buffer, wire, failed, whole>>

Datagram == buf \cup Piece(lo, lo + Rest - 1)

\* wifi_senddata returns 0: the next datagram is begun with what is left.
Sent ==
  /\ pc = "send"
  /\ wire' = wire \cup Datagram
  /\ buf' = {} /\ usage' = 0
  /\ lo' = lo + Rest /\ nested' = 1
  /\ pc' = "put"
  /\ UNCHANGED <<encoder, latch, hi, ret, size, torn, failed, whole>>

\* It returns 3, out of buffers, and is called again.  The datagram may be
\* out all the same, as wifi_senddata itself has repeated a transmission
\* whose answer was late.
SendAgain ==
  /\ pc = "send"
  /\ wire' \in {wire, wire \cup Datagram}
  /\ UNCHANGED <<pc, encoder, latch, call, buffer, size, torn, failed, whole>>

\* It returns anything else: what the buffer held before is kept.
SendFails ==
  /\ pc = "send"
  /\ wire' \in {wire, wire \cup Datagram}
  /\ Returns(FALSE)
  /\ UNCHANGED <<encoder, buffer, size, failed, whole>>

---------------------------------------------------------------------------
(* The encoder.                                                            *)

\* Mutant: a new image begins with an empty buffer.
StartImageDropsTail ==
  /\ pc = "idle" /\ img < IMAGES
  /\ img' = img + 1
  /\ pos' = 0 /\ left' = HEAD /\ out' = 0 /\ latch' = 1 /\ size' = 0
  /\ pc' = "header"
  /\ buf' = {} /\ usage' = 0
  /\ UNCHANGED <<call, record>>

\* encodeimage with the camera on: reset_size, init.
StartImage ==
  /\ pc = "idle" /\ img < IMAGES
  /\ img' = img + 1
  /\ pos' = 0 /\ left' = HEAD /\ out' = 0 /\ latch' = 1 /\ size' = 0
  /\ pc' = "header"
  /\ UNCHANGED <<call, buffer, record>>

\* With the camera off the main loop sends a datagram of its own, with a
\* status and no payload.
CameraOff == pc = "idle" /\ UNCHANGED vars

\* emit_byte: the markers go to the stream byte by byte.
EmitByte ==
  /\ pc \in {"header", "eoi"} /\ left > 0
  /\ left' = left - 1
  /\ pos' = pos + 1
  /\ Write(pos + 1, pos + 1, pc)
  /\ UNCHANGED <<img, out, latch, buffer, size, record>>

HeaderDone ==
  /\ pc = "header" /\ left = 0 /\ latch = 1
  /\ pc' = "coding"
  /\ UNCHANGED <<encoder, latch, call, buffer, size, record>>

\* init fails, for want of memory or as a write has failed ("jpeg error 1");
\* the buffer is left as it is.
InitFails ==
  /\ pc = "header"
  /\ left = HEAD \/ (left = 0 /\ latch = 0)
  /\ pc' = "idle"
  /\ UNCHANGED <<encoder, latch, call, buffer, size, record>>

\* A byte of compressed data; a full m_out_buf is flushed, or thrown away
\* when a write has failed.
Code ==
  /\ pc = "coding" /\ pos + 1 + EOI <= MAXPOS
  /\ pos' = pos + 1
  /\ IF out + 1 = OUT
     THEN out' = 0 /\ Write(pos + 2 - OUT, pos + 1, "coding")
     ELSE out' = out + 1 /\ UNCHANGED <<pc, call>>
  /\ UNCHANGED <<img, left, latch, buffer, size, record>>

\* process_end_of_image, at the last line or when getline had none to give.
EndImage ==
  /\ pc = "coding" /\ latch = 1
  /\ left' = EOI /\ out' = 0
  /\ IF out > 0 THEN Write(pos + 1 - out, pos, "eoi")
                ELSE pc' = "eoi" /\ UNCHANGED call
  /\ UNCHANGED <<img, pos, latch, buffer, size, record>>

\* Mutant: the image is given up but what is buffered of it is kept.
GiveUpKeepsBuffer ==
  /\ \/ pc = "coding" /\ latch = 0
     \/ pc = "eoi" /\ left = 0
  /\ failed' = failed \cup {img}
  /\ pc' = "idle"
  /\ UNCHANGED <<encoder, latch, call, size, wire, torn, whole, buffer>>

\* process_scanline returns false ("jpeg error 2" and 3), after a failed
\* write or because the image was closed before its last line.
GiveUp ==
  /\ \/ pc = "coding" /\ latch = 0
     \/ pc = "eoi" /\ left = 0
  /\ buf' = {} /\ usage' = 0
  /\ failed' = failed \cup {img}
  /\ pc' = "idle"
  /\ UNCHANGED <<encoder, latch, call, size, wire, torn, whole>>

\* encodeimage returns the size of the image.
Report ==
  /\ pc = "eoi" /\ left = 0 /\ latch = 1
  /\ whole' = [whole EXCEPT ![img] = pos]
  /\ pc' = "idle"
  /\ UNCHANGED <<encoder, latch, call, buffer, size, wire, torn, failed>>

PutBuf == PutFits \/ PutOverflows \/ PutNotReady \/ Sent \/ SendAgain \/ SendFails
Encode == \/ EmitByte \/ HeaderDone \/ InitFails \/ Code \/ EndImage
          \/ GiveUp \/ Report
Next   == PutBuf \/ Encode \/ StartImage \/ CameraOff

Spec == Init /\ [][Next]_vars

\* The main program does not stop.  Nothing is assumed about the radio.
FairSpec == Spec /\ WF_vars(PutBuf \/ Encode)

---------------------------------------------------------------------------
(* Properties.                                                             *)

PCs == {"idle", "header", "coding", "eoi", "put", "send"}

\* Every variable has its type, no buffer is overfilled, and a put_buf under
\* way has something to write.
TypeOK ==
  /\ pc \in PCs /\ ret \in PCs
  /\ img \in 0 .. IMAGES /\ pos \in 0 .. MAXPOS
  /\ left \in Nat /\ out \in 0 .. OUT - 1 /\ latch \in {0, 1}
  /\ lo \in Nat /\ hi \in Nat /\ nested \in {0, 1}
  /\ pc \in {"put", "send"} => lo >= 1 /\ lo <= hi /\ hi <= pos
  /\ buf \subseteq Bytes /\ usage \in 0 .. PAYLOAD /\ size \in Nat
  /\ wire \subseteq Bytes
  /\ torn \subseteq Images /\ failed \subseteq Images
  /\ whole \in [Images -> 0 .. MAXPOS]

\* Every byte before one that is in S is in T.
Gapless(S, T) ==
  \A k \in Images \ torn : \A i, j \in Positions :
    <<k, i>> \in S /\ j < i => <<k, j>> \in T

\* What is sent of an image begins with its first byte and has no hole,
\* whatever fails, unless a nested put_buf failed (put_buf 70-133,
\* flush_output_buffer 584-590, encodeimage 913-939).
NoHole == Gapless(wire, wire)

\* "Returns false on out of memory or if a stream write fails" (jpeg.h:101):
\* an image whose success is reported had no failed write.
WriteFailureIsReported == \A k \in torn : whole[k] = 0

\* An image whose success is reported is on its way to the last byte: sent,
\* or in the buffer and sent with the next image, unless a later image was
\* given up in between and took the tail with it.
ReportedIsOnItsWay ==
  \A k \in Images \ torn :
    whole[k] > 0 =>
      \/ \A i \in 1 .. whole[k] : <<k, i>> \in wire \cup buf
      \/ \E j \in failed : j > k

\* The size encodeimage returns is the length of the image, however often
\* put_buf has split it.
SizeIsLength ==
  (pc = "idle" /\ img > 0 /\ img \notin torn) =>
    (whole[img] > 0 => size = whole[img])

\* A stub stays a stub: no byte of an image that was given up is sent after
\* that (init_buffer in encodeimage 916 and 929).
StubStaysStub ==
  [][\A k \in failed : \A i \in Positions :
       <<k, i>> \in wire' => <<k, i>> \in wire]_vars

\* A failed write ends the image, whatever the radio does.
FailureEndsImage == latch = 0 ~> pc = "idle"

---------------------------------------------------------------------------
(* The promise to the listener.                                            *)

\* What the listener has of an image up to the first hole.
Unbroken(k) == {i \in Positions : \A j \in 1 .. i : <<k, j>> \in wire}

\* picture of the abstract specification: the positions sent of each image; of
\* one a nested put_buf has torn, what comes before the hole.
Picture == [k \in Images |-> IF k \in torn THEN Unbroken(k)
                             ELSE {i \in Positions : <<k, i>> \in wire}]

Wire == INSTANCE ImageWire WITH picture <- Picture

\* The stream keeps its promise to the listener whatever fails: images come one
\* after the other and grow from their first byte on, and an image of which no
\* nested put_buf has failed has no hole.
KeepsPromise == Wire!Spec

=============================================================================
