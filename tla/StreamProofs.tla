---------------------------- MODULE StreamProofs ----------------------------
(***************************************************************************)
(* What Stream guarantees for datagrams, output buffers and images of any  *)
(* size, whatever the radio answers.  FailureIsReported is about a build   *)
(* whose output buffer fits into a datagram (OneDatagram); in the          *)
(* repository's it does not.                                               *)
(***************************************************************************)
EXTENDS Stream, TLAPS

OneDatagram == OUT <= PAYLOAD

Writing == pc \in {"put", "send"}

\* The bytes of the image up to here are in the datagram buffer or sent.
Written == IF Writing THEN lo - 1 ELSE pos - out

\* The encoder is at p, perhaps inside put_buf.
At(p) == pc = p \/ (Writing /\ ret = p)

\* What the encoder and put_buf know of each other.
Place ==
  /\ ret \in {"idle", "header", "coding", "eoi"}
  /\ pc # "idle" => img \in Images
  /\ out <= pos
  /\ Writing => latch = 1 /\ out = 0 /\ hi = pos /\ ret # "idle"
  /\ At("header") => out = 0 /\ pos + left + EOI <= MAXPOS
  /\ At("coding") => pos + EOI <= MAXPOS
  /\ At("eoi") => out = 0 /\ pos + left <= MAXPOS
  /\ pc = "send" => ~Fits

\* Of every image the stream holds a beginning, of the running one all that
\* the encoder has written.
Held ==
  /\ Gapless(wire, wire)
  /\ Gapless(wire \cup buf, wire \cup buf)
  /\ (latch = 1 /\ pc # "idle" /\ img \notin torn) =>
       /\ \A i \in 1 .. Written : <<img, i>> \in wire \cup buf
       /\ size = Written + (IF pc = "send" THEN Rest ELSE 0)

\* Images come one after the other, and what is over is over.
Past ==
  /\ \A k \in Images, i \in Positions :
       <<k, i>> \in wire \cup buf => k <= img
  /\ \A k \in Images : whole[k] > 0 => k <= img /\ (k = img => pc = "idle")
  /\ \A k \in failed :
       /\ k <= img /\ (k = img => pc = "idle")
       /\ \A i \in Positions : <<k, i>> \notin buf
  /\ \A j, k \in Images : \A m, i \in Positions :
       j < k /\ <<k, i>> \in wire /\ <<j, m>> \in buf => <<j, m>> \in wire

IInv == /\ TypeOK /\ Place /\ Held /\ Past
        /\ ReportedIsOnItsWay /\ SizeIsLength

\* A nested put_buf finds an empty buffer and all it has to write fits.
Untorn ==
  /\ torn = {}
  /\ Writing => hi - lo + 1 <= PAYLOAD
  /\ nested = 1 => usage = 0 /\ pc = "put"

---------------------------------------------------------------------------
(* Types.                                                                  *)

LEMMA InitInv == Init => IInv /\ Untorn
<1> SUFFICES ASSUME Init PROVE IInv /\ Untorn
  OBVIOUS
<1>1. TypeOK /\ Place
  BY SizeAssumption, ImageAssumption DEF Init, TypeOK, Place, PCs, Writing, At, Fits
<1>2. Held /\ Past
  BY DEF Init, Held, Past, Gapless, Images
<1>3. ReportedIsOnItsWay /\ SizeIsLength /\ Untorn
  BY DEF Init, ReportedIsOnItsWay, SizeIsLength, Untorn, Writing
<1> QED
  BY <1>1, <1>2, <1>3 DEF IInv

\* A piece of the running image consists of bytes.
LEMMA PieceType ==
  ASSUME TypeOK, Place, NEW a \in Nat, NEW b \in Int,
         a >= 1, b <= MAXPOS, img \in Images
  PROVE  Piece(a, b) \subseteq Bytes
  BY ImageAssumption DEF Piece, Bytes, Positions

\* The datagram under way consists of bytes, and its piece lies before hi.
LEMMA DatagramType ==
  ASSUME TypeOK, Place, pc = "send"
  PROVE  /\ Rest \in Nat /\ lo + Rest <= hi
         /\ Datagram \subseteq Bytes
<1>1. Rest \in Nat /\ lo + Rest <= hi
  BY SizeAssumption DEF TypeOK, Place, Fits, Rest
<1>2. lo + Rest - 1 \in Int /\ lo + Rest - 1 <= MAXPOS /\ img \in Images
  BY <1>1, ImageAssumption DEF TypeOK, Place
<1>3. Piece(lo, lo + Rest - 1) \subseteq Bytes
  BY <1>2, PieceType DEF TypeOK
<1> QED
  BY <1>1, <1>3 DEF Datagram, TypeOK

LEMMA TypeStep == TypeOK /\ Place /\ Next => TypeOK' /\ Place'
<1> SUFFICES ASSUME TypeOK, Place, Next PROVE TypeOK' /\ Place'
  OBVIOUS
<1> USE SizeAssumption, ImageAssumption
<1>1. CASE PutFits
  <2>1. Piece(lo, hi) \subseteq Bytes
    BY <1>1, PieceType DEF PutFits, TypeOK, Place, Writing, At
  <2>2. TypeOK'
    BY <1>1, <2>1 DEF PutFits, Returns, TypeOK, Place, PCs, Fits, Rest, encoder,
       Writing, At
  <2>3. Place'
    BY <1>1 DEF PutFits, Returns, TypeOK, Place, encoder, Writing, At, EOI
  <2> QED
    BY <2>2, <2>3
<1>2. CASE PutOverflows
  <2>1. TypeOK'
    BY <1>2 DEF PutOverflows, TypeOK, PCs, Rest, encoder, call, buffer, record
  <2>2. Place'
    BY <1>2 DEF PutOverflows, TypeOK, Place, Fits, Rest, encoder, call, buffer,
       Writing, At
  <2> QED
    BY <2>1, <2>2
<1>3. CASE PutNotReady
  <2>1. TypeOK'
    BY <1>3 DEF PutNotReady, Returns, TypeOK, Place, PCs, Rest, encoder, buffer,
       Writing, At
  <2>2. Place'
    BY <1>3 DEF PutNotReady, Returns, TypeOK, Place, encoder, Writing, At
  <2> QED
    BY <2>1, <2>2
<1>4. CASE Sent
  <2>1. Rest \in Nat /\ lo + Rest <= hi /\ Datagram \subseteq Bytes
    BY <1>4, DatagramType DEF Sent
  <2>2. TypeOK'
    BY <1>4, <2>1 DEF Sent, TypeOK, PCs, encoder
  <2>3. Place'
    BY <1>4 DEF Sent, TypeOK, Place, encoder, Writing, At
  <2> QED
    BY <2>2, <2>3
<1>5. CASE SendAgain
  <2>1. Datagram \subseteq Bytes
    BY <1>5, DatagramType DEF SendAgain
  <2>2. TypeOK'
    BY <1>5, <2>1 DEF SendAgain, TypeOK, encoder, call, buffer
  <2>3. Place'
    BY <1>5 DEF SendAgain, Place, Fits, Rest, encoder, call, buffer, Writing, At
  <2> QED
    BY <2>2, <2>3
<1>6. CASE SendFails
  <2>1. Datagram \subseteq Bytes
    BY <1>6, DatagramType DEF SendFails
  <2>2. TypeOK'
    BY <1>6, <2>1 DEF SendFails, Returns, TypeOK, Place, PCs, encoder, buffer,
       Writing, At
  <2>3. Place'
    BY <1>6 DEF SendFails, Returns, TypeOK, Place, encoder, Writing, At
  <2> QED
    BY <2>2, <2>3
<1>7. CASE EmitByte
  BY <1>7 DEF EmitByte, Write, TypeOK, Place, PCs, call, buffer, record, Writing, At,
     EOI
<1>8. CASE HeaderDone
  BY <1>8 DEF HeaderDone, TypeOK, Place, PCs, encoder, call, buffer, record,
     Writing, At, EOI
<1>9. CASE InitFails
  BY <1>9 DEF InitFails, TypeOK, Place, PCs, encoder, call, buffer, record,
     Writing, At
<1>10. CASE Code
  BY <1>10 DEF Code, Write, TypeOK, Place, PCs, call, buffer, record, Writing, At, EOI
<1>11. CASE EndImage
  BY <1>11 DEF EndImage, Write, TypeOK, Place, PCs, call, buffer, record, Writing, At,
     EOI
<1>12. CASE GiveUp
  BY <1>12 DEF GiveUp, TypeOK, Place, PCs, encoder, call, Writing, At
<1>13. CASE Report
  BY <1>13 DEF Report, TypeOK, Place, PCs, encoder, call, buffer, Writing, At
<1>14. CASE StartImage
  BY <1>14 DEF StartImage, TypeOK, Place, PCs, call, buffer, record, Writing, At,
     Images, EOI
<1>15. CASE CameraOff
  BY <1>15 DEF CameraOff, TypeOK, Place, vars, encoder, call, buffer, record,
     Writing, At, Fits, Rest
<1> QED
  BY <1>1, <1>2, <1>3, <1>4, <1>5, <1>6, <1>7, <1>8, <1>9, <1>10, <1>11, <1>12,
     <1>13, <1>14, <1>15 DEF Next, PutBuf, Encode

---------------------------------------------------------------------------
(* The images on the wire.                                                 *)

\* With more of the running argument, what the stream holds stays gapless.
LEMMA MoreIsGapless ==
  ASSUME TypeOK, Place, Held, Writing, NEW b \in Int, b <= MAXPOS,
         NEW S, S = wire \cup buf \cup Piece(lo, b)
  PROVE  Gapless(S, S)
<1> SUFFICES ASSUME NEW k \in Images, k \notin torn,
                    NEW i \in Positions, NEW j \in Positions,
                    <<k, i>> \in S, j < i
             PROVE  <<k, j>> \in S
  BY DEF Gapless
<1>1. CASE <<k, i>> \in wire \cup buf
  BY <1>1 DEF Held, Gapless
<1>2. CASE <<k, i>> \in Piece(lo, b)
  <2>1. k = img /\ lo <= i /\ i <= b
    BY <1>2 DEF Piece, TypeOK, Writing
  <2>2. CASE j >= lo
    BY <2>1, <2>2 DEF Piece, Positions, TypeOK, Writing
  <2>3. CASE j < lo
    <3>1. j \in 1 .. Written
      BY <2>3 DEF Written, Positions, TypeOK, Writing
    <3>2. latch = 1 /\ pc # "idle"
      BY DEF Place, Writing
    <3> QED
      BY <2>1, <3>1, <3>2 DEF Held
  <2> QED
    BY <2>2, <2>3 DEF Positions, TypeOK, Writing
<1> QED
  BY <1>1, <1>2

LEMMA HeldStep == TypeOK /\ Place /\ Held /\ Next => Held'
<1> SUFFICES ASSUME TypeOK, Place, Held, Next PROVE Held'
  OBVIOUS
<1> USE SizeAssumption, ImageAssumption
\* Steps that leave what is held alone.
<1>a. ASSUME UNCHANGED <<wire, buf, torn>>
      PROVE  Gapless(wire, wire)' /\ Gapless(wire \cup buf, wire \cup buf)'
  BY <1>a DEF Held, Gapless
<1>1. CASE PutFits
  <2>1. Writing /\ hi <= MAXPOS /\ hi \in Int /\ hi = pos /\ latch = 1 /\ out = 0
    BY <1>1 DEF PutFits, TypeOK, Place, Writing
  <2>2. wire' = wire /\ torn' = torn /\ latch' = latch /\ pc' = ret
        /\ buf' = buf \cup Piece(lo, hi) /\ pos' = pos /\ out' = out /\ img' = img
        /\ size' = size + (hi - lo + 1)
    BY <1>1 DEF PutFits, Returns, encoder
  <2>3. Gapless(wire \cup buf, wire \cup buf)'
    <3>1. Gapless(wire \cup buf', wire \cup buf')
      BY <2>1, <2>2, MoreIsGapless
    <3> QED
      BY <3>1, <2>2 DEF Gapless
  <2>4. Gapless(wire, wire)'
    BY <2>2 DEF Held, Gapless
  <2>5. ASSUME latch' = 1, pc' # "idle", img' \notin torn'
        PROVE  /\ \A i \in 1 .. Written' : <<img', i>> \in wire' \cup buf'
               /\ size' = Written' + (IF pc' = "send" THEN Rest' ELSE 0)
    <3>1. Written = lo - 1 /\ pc = "put" /\ lo \in Nat /\ size = lo - 1
      BY <1>1, <2>1, <2>2, <2>5 DEF PutFits, Written, TypeOK, Held, Writing
    <3>2. Written' = hi /\ pc' # "send"
      BY <2>1, <2>2, <2>5 DEF Written, Place, Writing
    <3>3. \A i \in lo .. hi : <<img, i>> \in Piece(lo, hi)
      BY DEF Piece
    <3>4. \A i \in 1 .. lo - 1 : <<img, i>> \in wire \cup buf
      BY <3>1, <2>1, <2>2, <2>5 DEF Held, Writing
    <3>5. \A i \in 1 .. hi : i \in 1 .. lo - 1 \/ i \in lo .. hi
      BY <3>1, <2>1
    <3> QED
      BY <2>1, <2>2, <3>1, <3>2, <3>3, <3>4, <3>5
  <2> QED
    BY <2>3, <2>4, <2>5 DEF Held
<1>2. CASE PutOverflows
  <2>1. UNCHANGED <<wire, buf, torn, latch, pos, out, img, lo, usage>>
    BY <1>2 DEF PutOverflows, encoder, call, buffer, record
  <2>2. Written' = Written /\ pc # "idle" /\ pc # "send" /\ pc' = "send"
        /\ size' = size + Rest /\ Rest' = Rest
    BY <1>2, <2>1 DEF PutOverflows, Written, Writing, Rest
  <2>3. Rest \in Int /\ size \in Int /\ Written \in Int
    BY DEF Rest, TypeOK, Written
  <2> QED
    BY <1>a, <2>1, <2>2, <2>3 DEF Held
<1>3. CASE PutNotReady
  <2>1. UNCHANGED <<wire, buf, img>> /\ torn \subseteq torn' /\ pc' = ret
        /\ (img \notin torn' => latch' = 0)
    BY <1>3 DEF PutNotReady, Returns, encoder, buffer, TypeOK
  <2>2. Gapless(wire, wire)' /\ Gapless(wire \cup buf, wire \cup buf)'
    BY <2>1 DEF Held, Gapless
  <2> QED
    BY <2>1, <2>2 DEF Held
<1>4. CASE Sent
  <2>1. /\ Writing /\ Rest \in Nat /\ lo \in Nat /\ lo >= 1
        /\ lo + Rest - 1 \in Int /\ lo + Rest - 1 <= MAXPOS
    BY <1>4, DatagramType DEF Sent, Writing, TypeOK
  <2>2. /\ wire' = wire \cup buf \cup Piece(lo, lo + Rest - 1)
        /\ buf' = {} /\ torn' = torn /\ latch' = latch /\ pc' = "put"
        /\ lo' = lo + Rest /\ img' = img /\ size' = size /\ pc = "send"
    BY <1>4 DEF Sent, Datagram, encoder
  <2>3. Gapless(wire', wire')
    BY <2>1, <2>2, MoreIsGapless
  <2>4. wire' \cup buf' = wire'
    BY <2>2
  <2>5. Gapless(wire, wire)' /\ Gapless(wire \cup buf, wire \cup buf)'
    BY <2>2, <2>3, <2>4 DEF Gapless
  <2>6. ASSUME latch' = 1, img' \notin torn'
        PROVE  /\ \A i \in 1 .. Written' : <<img', i>> \in wire' \cup buf'
               /\ size' = Written' + (IF pc' = "send" THEN Rest' ELSE 0)
    <3>1. Written = lo - 1 /\ Written' = lo + Rest - 1
      BY <2>1, <2>2 DEF Written, Writing
    <3>2. /\ \A i \in 1 .. lo - 1 : <<img, i>> \in wire \cup buf
          /\ size = lo - 1 + Rest
      BY <3>1, <2>2, <2>6 DEF Held
    <3>3. \A i \in lo .. lo + Rest - 1 : <<img, i>> \in Piece(lo, lo + Rest - 1)
      BY DEF Piece
    <3>4. \A i \in 1 .. lo + Rest - 1 :
            i \in 1 .. lo - 1 \/ i \in lo .. lo + Rest - 1
      BY <2>1
    <3> QED
      BY <2>1, <2>2, <3>1, <3>2, <3>3, <3>4
  <2> QED
    BY <2>2, <2>5, <2>6 DEF Held
<1>5. CASE SendAgain
  <2>1. /\ Writing /\ lo + Rest - 1 \in Int /\ lo + Rest - 1 <= MAXPOS
    BY <1>5, DatagramType DEF SendAgain, Writing, TypeOK
  <2>2. /\ UNCHANGED <<buf, torn, latch, pc, lo, pos, out, img, size, usage>>
        /\ wire' = wire \/ wire' = wire \cup buf \cup Piece(lo, lo + Rest - 1)
    BY <1>5 DEF SendAgain, Datagram, encoder, call, buffer
  <2>3. CASE wire' = wire
    BY <1>a, <2>2, <2>3 DEF Held, Written, Writing, Rest
  <2>4. CASE wire' = wire \cup buf \cup Piece(lo, lo + Rest - 1)
    <3>1. Gapless(wire', wire')
      BY <2>1, <2>4, MoreIsGapless
    <3>2. wire' \cup buf' = wire' /\ wire \cup buf \subseteq wire'
      BY <2>2, <2>4
    <3>3. Gapless(wire, wire)' /\ Gapless(wire \cup buf, wire \cup buf)'
      BY <2>2, <3>1, <3>2 DEF Gapless
    <3>4. Written' = Written /\ Rest' = Rest
      BY <2>2 DEF Written, Writing, Rest
    <3> QED
      BY <2>2, <3>2, <3>3, <3>4 DEF Held
  <2> QED
    BY <2>2, <2>3, <2>4
<1>6. CASE SendFails
  <2>1. /\ Writing /\ lo + Rest - 1 \in Int /\ lo + Rest - 1 <= MAXPOS
    BY <1>6, DatagramType DEF SendFails, Writing, TypeOK
  <2>2. /\ buf' = buf /\ img' = img /\ torn \subseteq torn'
        /\ wire' = wire \/ wire' = wire \cup buf \cup Piece(lo, lo + Rest - 1)
        /\ img \notin torn' => latch' = 0
    BY <1>6 DEF SendFails, Returns, Datagram, encoder, buffer, TypeOK
  <2>3. Gapless(wire', wire') /\ Gapless(wire' \cup buf', wire' \cup buf')
    <3>1. CASE wire' = wire
      BY <3>1, <2>2 DEF Held
    <3>2. CASE wire' = wire \cup buf \cup Piece(lo, lo + Rest - 1)
      <4>1. Gapless(wire', wire')
        BY <2>1, <3>2, MoreIsGapless
      <4>2. wire' \cup buf' = wire'
        BY <3>2, <2>2
      <4> QED
        BY <4>1, <4>2
    <3> QED
      BY <2>2, <3>1, <3>2
  <2>4. Gapless(wire, wire)' /\ Gapless(wire \cup buf, wire \cup buf)'
    BY <2>2, <2>3 DEF Gapless
  <2> QED
    BY <2>2, <2>4 DEF Held
<1>7. CASE EmitByte
  <2>1. UNCHANGED <<wire, buf, torn, latch, img, out, size>>
    BY <1>7 DEF EmitByte, buffer, record
  <2>2. latch = 1 => Written' = Written /\ pc' # "send" /\ pc # "idle" /\ pc # "send"
    BY <1>7 DEF EmitByte, Write, Written, Writing, Place, TypeOK, At
  <2> QED
    BY <1>a, <2>1, <2>2 DEF Held
<1>8. CASE HeaderDone \/ InitFails
  <2>1. UNCHANGED <<wire, buf, torn, latch, img, out, pos, size>>
    BY <1>8 DEF HeaderDone, InitFails, encoder, buffer, record
  <2>2. Written' = Written /\ pc' # "send" /\ pc # "idle" /\ pc # "send"
    BY <1>8, <2>1 DEF HeaderDone, InitFails, Written, Writing
  <2> QED
    BY <1>a, <2>1, <2>2 DEF Held
<1>9. CASE Code
  <2>1. UNCHANGED <<wire, buf, torn, latch, img, size>>
    BY <1>9 DEF Code, buffer, record
  <2>2. latch = 1 => Written' = Written /\ pc' # "send" /\ pc # "idle" /\ pc # "send"
    BY <1>9 DEF Code, Write, Written, Writing, Place, TypeOK, At
  <2> QED
    BY <1>a, <2>1, <2>2 DEF Held
<1>10. CASE EndImage
  <2>1. UNCHANGED <<wire, buf, torn, latch, img, pos, size>>
    BY <1>10 DEF EndImage, buffer, record
  <2>2. Written' = Written /\ pc' # "send" /\ pc # "idle" /\ pc # "send"
    BY <1>10 DEF EndImage, Write, Written, Writing, Place, TypeOK, At
  <2> QED
    BY <1>a, <2>1, <2>2 DEF Held
<1>11. CASE GiveUp
  <2>1. UNCHANGED <<wire, torn>> /\ buf' = {} /\ pc' = "idle"
    BY <1>11 DEF GiveUp
  <2>2. wire' \cup buf' = wire'
    BY <2>1
  <2>3. Gapless(wire, wire)' /\ Gapless(wire \cup buf, wire \cup buf)'
    BY <2>1, <2>2 DEF Held, Gapless
  <2> QED
    BY <2>1, <2>3 DEF Held
<1>12. CASE Report
  <2>1. UNCHANGED <<wire, buf, torn>> /\ pc' = "idle"
    BY <1>12 DEF Report, buffer
  <2> QED
    BY <1>a, <2>1 DEF Held
<1>13. CASE StartImage
  <2>1. UNCHANGED <<wire, buf, torn>> /\ Written' = 0 /\ size' = 0 /\ pc' = "header"
    BY <1>13 DEF StartImage, buffer, record, Written, Writing
  <2> QED
    BY <1>a, <2>1 DEF Held
<1>14. CASE CameraOff
  <2>1. UNCHANGED <<wire, buf, torn>> /\ pc' = "idle"
    BY <1>14 DEF CameraOff, vars, record, buffer
  <2> QED
    BY <1>a, <2>1 DEF Held
<1> QED
  BY <1>1, <1>2, <1>3, <1>4, <1>5, <1>6, <1>7, <1>8, <1>9, <1>10, <1>11, <1>12,
     <1>13, <1>14 DEF Next, PutBuf, Encode

\* What has been sent and what is buffered are beginnings of images up to the
\* running one, and all older than it are over.
LEMMA PastStep == TypeOK /\ Place /\ Past /\ Next => Past'
<1> SUFFICES ASSUME TypeOK, Place, Past, Next PROVE Past'
  OBVIOUS
<1>1. CASE PutFits
  <2>1. /\ img \in Images /\ pc # "idle" /\ img' = img /\ UNCHANGED <<wire, failed, whole>>
        /\ buf' = buf \cup Piece(lo, hi)
    BY <1>1 DEF PutFits, Place, encoder
  <2>2. \A k \in Images, i \in Positions : <<k, i>> \in Piece(lo, hi) => k = img
    BY DEF Piece
  <2> QED
    BY <2>1, <2>2 DEF Past, TypeOK, Images
<1>2. CASE PutOverflows \/ PutNotReady
  <2>1. UNCHANGED <<wire, buf, failed, whole, img>> /\ pc # "idle"
    BY <1>2 DEF PutOverflows, PutNotReady, encoder, buffer, record
  <2> QED
    BY <2>1 DEF Past
<1>3. CASE Sent \/ SendAgain \/ SendFails
  <2>1. /\ img \in Images /\ pc # "idle" /\ UNCHANGED <<img, failed, whole>>
        /\ wire' = wire \/ wire' = wire \cup buf \cup Piece(lo, lo + Rest - 1)
        /\ buf' = buf \/ buf' = {}
    BY <1>3 DEF Sent, SendAgain, SendFails, Place, Datagram, encoder, buffer
  <2>2. \A k \in Images, i \in Positions :
          <<k, i>> \in Piece(lo, lo + Rest - 1) => k = img
    BY DEF Piece
  <2> QED
    BY <2>1, <2>2 DEF Past, TypeOK, Images
<1>4. CASE EmitByte \/ HeaderDone \/ InitFails \/ Code \/ EndImage
  <2>1. UNCHANGED <<wire, buf, failed, whole, img>> /\ pc # "idle"
    BY <1>4 DEF EmitByte, HeaderDone, InitFails, Code, EndImage, encoder, buffer,
       record
  <2> QED
    BY <2>1 DEF Past
<1>5. CASE GiveUp
  <2>1. /\ UNCHANGED <<wire, whole, img>> /\ buf' = {} /\ pc' = "idle"
        /\ failed' = failed \cup {img} /\ img \in Images
    BY <1>5 DEF GiveUp, encoder, Place
  <2> QED
    BY <2>1 DEF Past, Images
<1>6. CASE Report
  <2>1. /\ UNCHANGED <<wire, buf, failed, img>> /\ pc' = "idle" /\ img \in Images
        /\ whole' = [whole EXCEPT ![img] = pos]
    BY <1>6 DEF Report, encoder, buffer, Place
  <2> QED
    BY <2>1 DEF Past, TypeOK, Images
<1>7. CASE StartImage
  <2>1. UNCHANGED <<wire, buf, failed, whole>> /\ img' = img + 1 /\ img \in Int
    BY <1>7 DEF StartImage, buffer, record, TypeOK
  <2> QED
    BY <2>1 DEF Past, TypeOK, Images
<1>8. CASE CameraOff
  <2>1. UNCHANGED <<wire, buf, failed, whole, img>> /\ pc' = "idle"
    BY <1>8 DEF CameraOff, vars, encoder, buffer, record
  <2> QED
    BY <2>1 DEF Past
<1> QED
  BY <1>1, <1>2, <1>3, <1>4, <1>5, <1>6, <1>7, <1>8 DEF Next, PutBuf, Encode

\* A reported image stays sent or buffered until a later one is given up.
LEMMA ReportedStep == IInv /\ Next => ReportedIsOnItsWay'
<1> SUFFICES ASSUME IInv, Next PROVE ReportedIsOnItsWay'
  OBVIOUS
<1>1. CASE GiveUp
  <2>1. /\ UNCHANGED <<wire, whole, torn>> /\ failed' = failed \cup {img}
        /\ pc # "idle"
    BY <1>1 DEF GiveUp
  <2>2. \A k \in Images : whole'[k] > 0 => k < img
    BY <2>1 DEF IInv, Past, TypeOK, Images
  <2> QED
    BY <2>1, <2>2 DEF ReportedIsOnItsWay
<1>2. CASE Report
  <2>1. /\ UNCHANGED <<wire, buf, torn, failed>> /\ whole' = [whole EXCEPT ![img] = pos]
        /\ pc = "eoi" /\ latch = 1 /\ out = 0 /\ img \in Images
    BY <1>2 DEF Report, buffer, IInv, Place, At
  <2>2. Written = pos
    BY <2>1 DEF Written, Writing, IInv, TypeOK
  <2>3. img \notin torn => \A i \in 1 .. pos : <<img, i>> \in wire \cup buf
    BY <2>1, <2>2 DEF IInv, Held
  <2>4. ASSUME NEW k \in Images \ torn, k # img
        PROVE  whole'[k] = whole[k]
    BY <2>1, <2>4 DEF IInv, TypeOK
  <2>5. whole'[img] = pos
    BY <2>1 DEF IInv, TypeOK
  <2> QED
    BY <2>1, <2>3, <2>4, <2>5 DEF IInv, ReportedIsOnItsWay
<1>3. CASE ~ GiveUp /\ ~ Report
  <2>1. /\ wire \cup buf \subseteq wire' \cup buf'
        /\ UNCHANGED <<failed, whole>>
    BY <1>3 DEF Next, PutBuf, Encode, PutFits, PutOverflows, PutNotReady, Sent,
       SendAgain, SendFails, EmitByte, HeaderDone, InitFails, Code, EndImage,
       StartImage, CameraOff, Datagram, vars, buffer, record
  <2>2. torn \subseteq torn'
    BY <1>3 DEF Next, PutBuf, Encode, PutFits, PutOverflows, PutNotReady, Sent,
       SendAgain, SendFails, EmitByte, HeaderDone, InitFails, Code, EndImage,
       StartImage, CameraOff, Returns, vars, record
  <2> QED
    BY <2>1, <2>2 DEF IInv, ReportedIsOnItsWay
<1> QED
  BY <1>1, <1>2, <1>3

\* The length of the last image is settled when it is reported.
LEMMA SizeStep == IInv /\ Next => SizeIsLength'
<1> SUFFICES ASSUME IInv, Next, pc' = "idle", img' > 0, img' \notin torn',
                    whole'[img'] > 0
             PROVE  size' = whole'[img']
  BY DEF SizeIsLength
<1>1. CASE Report
  <2>1. /\ size' = size /\ whole' = [whole EXCEPT ![img] = pos] /\ img' = img
        /\ torn' = torn /\ pc = "eoi" /\ latch = 1 /\ out = 0 /\ img \in Images
    BY <1>1 DEF Report, encoder, IInv, Place, At
  <2>2. Written = pos /\ pos \in Int
    BY <2>1 DEF Written, Writing, IInv, TypeOK
  <2>3. size = pos
    BY <2>1, <2>2 DEF IInv, Held
  <2> QED
    BY <2>1, <2>3 DEF IInv, TypeOK
<1>2. CASE CameraOff
  BY <1>2 DEF CameraOff, vars, encoder, record, IInv, SizeIsLength
<1>3. CASE ~ Report /\ ~ CameraOff
  <2>1. pc # "idle" /\ img \in Images /\ img' = img /\ whole' = whole
    BY <1>3 DEF Next, PutBuf, Encode, PutFits, PutOverflows, PutNotReady, Sent,
       SendAgain, SendFails, EmitByte, HeaderDone, InitFails, Code, EndImage,
       GiveUp, StartImage, encoder, record, IInv, Place
  <2> QED
    BY <2>1 DEF IInv, Past
<1> QED
  BY <1>1, <1>2, <1>3

---------------------------------------------------------------------------
(* The theorems.                                                           *)

LEMMA IInvStep == IInv /\ [Next]_vars => IInv'
<1>1. IInv /\ Next => IInv'
  BY TypeStep, HeldStep, PastStep, ReportedStep, SizeStep DEF IInv
<1>2. IInv /\ UNCHANGED vars => IInv'
  <2> SUFFICES ASSUME IInv, UNCHANGED vars PROVE IInv'
    OBVIOUS
  <2> USE DEF vars, encoder, call, buffer, record
  <2>1. TypeOK' /\ Place'
    BY DEF IInv, TypeOK, Place, Writing, At, Fits, Rest
  <2>2. Held' /\ Past'
    BY DEF IInv, Held, Past, Gapless, Written, Writing, Rest
  <2>3. ReportedIsOnItsWay' /\ SizeIsLength'
    BY DEF IInv, ReportedIsOnItsWay, SizeIsLength
  <2> QED
    BY <2>1, <2>2, <2>3 DEF IInv
<1> QED
  BY <1>1, <1>2

\* The invariant of encoder, datagram buffer and wire holds whatever the radio
\* answers (put_buf 70-133, encodeimage 884-943).
THEOREM Inductive == Spec => []IInv
<1>1. Init => IInv
  BY InitInv
<1> QED
  BY <1>1, IInvStep, PTL DEF Spec

\* Every variable keeps its type and no buffer overflows: the datagram buffer
\* stays within BUFFER_SIZE however put_buf splits a write (wifistream.cpp:74-131).
THEOREM TypeCorrect == Spec => []TypeOK
<1>1. IInv => TypeOK
  BY DEF IInv
<1> QED
  BY <1>1, Inductive, PTL

\* No image on the wire has a hole, except where put_buf has dropped the
\* failure of its nested call (wifistream.cpp:117).
THEOREM WireHasNoHole == Spec => []NoHole
<1>1. IInv => NoHole
  BY DEF IInv, Held, NoHole
<1> QED
  BY <1>1, Inductive, PTL

\* The tail of a reported image that waits in the buffer is lost only with a
\* later image that is given up (jpeg.cpp:916, 929).
THEOREM ReportedComes == Spec => []ReportedIsOnItsWay
<1>1. IInv => ReportedIsOnItsWay
  BY DEF IInv
<1> QED
  BY <1>1, Inductive, PTL

\* buf_ofs counts every byte of a reported image once (wifistream.cpp:86, 127).
THEOREM SizeIsRight == Spec => []SizeIsLength
<1>1. IInv => SizeIsLength
  BY DEF IInv
<1> QED
  BY <1>1, Inductive, PTL

\* Nothing of an image that was given up is sent later (jpeg.cpp:916, 929).
THEOREM StubStays == Spec => StubStaysStub
<1> DEFINE Frozen == \A k \in failed : \A i \in Positions :
                       <<k, i>> \in wire' => <<k, i>> \in wire
<1>1. IInv /\ [Next]_vars => [Frozen]_vars
  <2> SUFFICES ASSUME IInv, Next PROVE Frozen
    OBVIOUS
  <2>1. CASE Sent \/ SendAgain \/ SendFails
    <3>1. /\ pc # "idle" /\ img \in Images
          /\ wire' = wire \/ wire' = wire \cup buf \cup Piece(lo, lo + Rest - 1)
      BY <2>1 DEF Sent, SendAgain, SendFails, Datagram, IInv, Place
    <3>2. \A k \in failed : k # img /\ \A i \in Positions : <<k, i>> \notin buf
      BY <3>1 DEF IInv, Past
    <3>3. \A k \in failed, i \in Positions : <<k, i>> \notin Piece(lo, lo + Rest - 1)
      BY <3>2 DEF Piece
    <3> QED
      BY <3>1, <3>2, <3>3
  <2>2. CASE ~ (Sent \/ SendAgain \/ SendFails)
    <3>1. wire' = wire
      BY <2>2 DEF Next, PutBuf, Encode, PutFits, PutOverflows, PutNotReady,
         EmitByte, HeaderDone, InitFails, Code, EndImage, GiveUp, Report,
         StartImage, CameraOff, vars, record
    <3> QED
      BY <3>1
  <2> QED
    BY <2>1, <2>2
<1> QED
  BY <1>1, Inductive, PTL DEF Spec, StubStaysStub

\* With an output buffer that fits into one datagram no failure is dropped.
LEMMA UntornStep ==
  ASSUME OneDatagram
  PROVE  IInv /\ Untorn /\ [Next]_vars => Untorn'
<1> SUFFICES ASSUME IInv, Untorn, [Next]_vars PROVE Untorn'
  OBVIOUS
<1> USE SizeAssumption DEF IInv
<1>1. CASE PutFits
  BY <1>1 DEF PutFits, Returns, Untorn, Writing, Place
<1>2. CASE PutOverflows
  BY <1>2 DEF PutOverflows, Untorn, Writing, Fits, Rest, TypeOK, call, buffer, record
<1>3. CASE PutNotReady
  BY <1>3 DEF PutNotReady, Returns, Untorn, Writing, Fits, Rest, TypeOK, Place
<1>4. CASE Sent
  <2>1. Rest \in Nat
    BY <1>4, DatagramType DEF Sent
  <2> QED
    BY <1>4, <2>1 DEF Sent, Untorn, Writing, TypeOK
<1>5. CASE SendAgain
  BY <1>5 DEF SendAgain, Untorn, Writing, call, buffer
<1>6. CASE SendFails
  BY <1>6 DEF SendFails, Returns, Untorn, Writing, Place
<1>7. CASE EmitByte
  BY <1>7 DEF EmitByte, Write, Untorn, Writing, TypeOK, call, buffer, record
<1>8. CASE Code
  BY <1>8 DEF Code, Write, Untorn, Writing, TypeOK, OneDatagram, call, buffer, record
<1>9. CASE EndImage
  BY <1>9 DEF EndImage, Write, Untorn, Writing, TypeOK, OneDatagram, call, buffer,
     record
<1>10. CASE HeaderDone \/ InitFails \/ GiveUp \/ Report \/ StartImage
  BY <1>10 DEF HeaderDone, InitFails, GiveUp, Report, StartImage, Untorn, Writing,
     call, buffer, record
<1>11. CASE CameraOff \/ UNCHANGED vars
  BY <1>11 DEF CameraOff, Untorn, Writing, vars, call, buffer, record
<1> QED
  BY <1>1, <1>2, <1>3, <1>4, <1>5, <1>6, <1>7, <1>8, <1>9, <1>10, <1>11
  DEF Next, PutBuf, Encode

\* What jpeg.h:101 says of process_scanline then holds: no image with a failed
\* write is reported as a success.
THEOREM FailureIsReported ==
  ASSUME OneDatagram PROVE Spec => []WriteFailureIsReported
<1>1. Init => Untorn
  BY InitInv
<1>2. Untorn => WriteFailureIsReported
  BY DEF Untorn, WriteFailureIsReported
<1>3. IInv /\ Untorn /\ [Next]_vars => Untorn'
  BY UntornStep
<1> QED
  BY <1>1, <1>2, <1>3, Inductive, PTL DEF Spec

\* And the stream implements the promise to the listener, without any premise:
\* pictures grow one after the other, without a hole unless they are torn, and
\* a torn one grows no further than to its hole.
THEOREM PromiseKept == Spec => KeepsPromise
<1>1. Init => Wire!Init
  BY DEF Init, Wire!Init, Picture, Wire!Images, Images
<1>2. IInv /\ IInv' /\ [Next]_vars => [Wire!Next]_Picture
  <2> SUFFICES ASSUME IInv, IInv', [Next]_vars, Picture' # Picture
               PROVE  Wire!Next
    OBVIOUS
  <2>1. ~UNCHANGED <<wire, torn>>
    BY DEF Picture, Unbroken
  <2>2. /\ img \in Images
        /\ \/ wire' = wire
           \/ wire' = wire \cup buf \cup Piece(lo, lo + Rest - 1)
        /\ torn' \in {torn, torn \cup {img}}
    BY <2>1 DEF Next, PutBuf, Encode, PutFits, PutOverflows, PutNotReady, Sent,
       SendAgain, SendFails, EmitByte, HeaderDone, InitFails, Code, EndImage,
       GiveUp, Report, StartImage, CameraOff, Returns, Datagram, IInv, Place,
       vars, record
  <2>3. Picture' \in [Wire!Images -> SUBSET (1 .. MAXPOS)]
    BY DEF Picture, Unbroken, Wire!Images, Images, Positions
  <2>4. ASSUME NEW k \in Images
        PROVE  Picture[k] \subseteq Picture'[k] /\ Wire!Beginning(Picture'[k])
    <3>1. ASSUME NEW i \in Picture[k]
          PROVE  /\ i \in Positions /\ <<k, i>> \in wire'
                 /\ k \in torn' => \A j \in 1 .. i : <<k, j>> \in wire'
      <4>1. i \in Positions /\ <<k, i>> \in wire
        BY ImageAssumption DEF Picture, Unbroken, Positions
      <4>2. ASSUME NEW j \in 1 .. i PROVE <<k, j>> \in wire
        <5>1. CASE k \in torn
          BY <5>1 DEF Picture, Unbroken
        <5>2. CASE k \notin torn
          <6>1. j \in Positions /\ (j = i \/ j < i)
            BY <4>1, ImageAssumption DEF Positions
          <6> QED
            BY <4>1, <5>2, <6>1 DEF IInv, Held, Gapless
        <5> QED
          BY <5>1, <5>2
      <4> QED
        BY <2>2, <4>1, <4>2
    <3>2. Picture[k] \subseteq Picture'[k]
      BY <3>1 DEF Picture, Unbroken
    <3>3. ASSUME NEW i \in Picture'[k], NEW j \in 1 .. i
          PROVE  j \in Picture'[k]
      <4>1. i \in Positions /\ j \in Positions /\ (j = i \/ j < i)
        BY ImageAssumption DEF Picture, Unbroken, Positions
      <4>2. CASE k \in torn'
        <5>1. \A m \in 1 .. i : <<k, m>> \in wire'
          BY <4>2 DEF Picture, Unbroken
        <5>2. \A m \in 1 .. j : m \in 1 .. i
          BY <4>1 DEF Positions
        <5> QED
          BY <4>1, <4>2, <5>1, <5>2 DEF Picture, Unbroken
      <4>3. CASE k \notin torn'
        <5>1. <<k, i>> \in wire'
          BY <4>3 DEF Picture
        <5>2. <<k, j>> \in wire'
          BY <4>1, <4>3, <5>1 DEF IInv, Held, Gapless
        <5> QED
          BY <4>1, <4>3, <5>2 DEF Picture
      <4> QED
        BY <4>2, <4>3
    <3> QED
      BY <3>2, <3>3 DEF Wire!Beginning
  <2>5. ASSUME NEW j \in Images, NEW k \in Images, j < k, Picture[k] # {}
        PROVE  Picture'[j] = Picture[j]
    <3>1. PICK i \in Positions : <<k, i>> \in wire
      <4>1. PICK i : i \in Picture[k]
        BY <2>5
      <4>2. i \in Positions /\ <<k, i>> \in wire
        BY <4>1, ImageAssumption DEF Picture, Unbroken, Positions
      <4> QED
        BY <4>2
    <3>2. k <= img
      BY <3>1 DEF IInv, Past
    <3>3. \A m \in Positions : <<j, m>> \notin Piece(lo, lo + Rest - 1)
      BY <2>2, <2>5, <3>2 DEF Piece, Images
    <3>4. \A m \in Positions : <<j, m>> \in buf => <<j, m>> \in wire
      BY <2>5, <3>1 DEF IInv, Past
    <3>5. \A m \in Positions : <<j, m>> \in wire' <=> <<j, m>> \in wire
      BY <2>2, <3>3, <3>4
    <3>6. j \in torn' <=> j \in torn
      BY <2>2, <2>5, <3>2 DEF Images
    <3>7. \A m \in Positions : \A n \in 1 .. m : n \in Positions
      BY ImageAssumption DEF Positions
    <3>8. Unbroken(j)' = Unbroken(j)
      BY <3>5, <3>7 DEF Unbroken
    <3>9. {m \in Positions : <<j, m>> \in wire'} = {m \in Positions : <<j, m>> \in wire}
      BY <3>5
    <3> QED
      BY <3>6, <3>8, <3>9 DEF Picture
  <2> QED
    BY <2>3, <2>4, <2>5 DEF Wire!Next, Wire!Grow, Wire!Images, Images
<1> QED
  BY <1>1, <1>2, Inductive, PTL DEF Spec, KeepsPromise, Wire!Spec

---------------------------------------------------------------------------
(* The way to the end of an image.                                         *)

\* The parts of the image that are still to come, and the bytes that are
\* produced but not yet in a datagram.
Parts   == IF At("header") THEN 3 ELSE IF At("coding") THEN 2 ELSE 1
Pending == IF Writing THEN hi - lo + 1 ELSE out

\* The calls of put_buf for the running write: at most one sends a full datagram
\* without taking a byte, and that is the first.
Calls ==
  IF Writing THEN (IF pc = "put" THEN 2 ELSE 1) + 2 * (1 - nested) ELSE 0

\* A bound on the steps of encodeimage that are still to come.
ToGo == 7 * (Parts + (MAXPOS - pos)) + 2 * Pending + Calls

\* put_buf calls itself with an empty datagram.
Emptied == Writing /\ nested = 1 => usage = 0

\* With SendAgain the step gets nowhere; every other one gets nearer.
Nearer == pc' = "idle" \/ ToGo' < ToGo

LEMMA EmptiedStep == Emptied /\ [Next]_vars => Emptied'
<1> SUFFICES ASSUME Emptied, [Next]_vars PROVE Emptied'
  OBVIOUS
<1> USE DEF Emptied, Writing, encoder, call, buffer, record
<1>1. CASE PutBuf
  BY <1>1 DEF PutBuf, PutFits, PutOverflows, PutNotReady, Sent, SendAgain, SendFails,
              Returns
<1>2. CASE Encode
  BY <1>2 DEF Encode, EmitByte, HeaderDone, InitFails, Code, EndImage, GiveUp, Report,
              Write
<1>3. CASE StartImage \/ CameraOff \/ UNCHANGED vars
  BY <1>3 DEF StartImage, CameraOff, vars
<1> QED
  BY <1>1, <1>2, <1>3 DEF Next

LEMMA PutBufWrites == PutBuf => Writing
  BY DEF PutBuf, PutFits, PutOverflows, PutNotReady, Sent, SendAgain, SendFails, Writing

LEMMA NearerPut ==
  ASSUME TypeOK, Place, Emptied, PutBuf, ~SendAgain
  PROVE  Nearer
<1> USE SizeAssumption, ImageAssumption
    DEF encoder, call, buffer, record, Nearer, ToGo, Parts, Pending, Calls, At, Writing
<1>1. /\ pc \in {"put", "send"} /\ lo \in Nat /\ hi \in Nat /\ lo <= hi /\ out = 0
      /\ ret \in {"header", "coding", "eoi"} /\ pos \in Nat /\ pos <= MAXPOS
      /\ nested \in {0, 1} /\ usage \in 0 .. PAYLOAD
      /\ Emptied
  BY PutBufWrites DEF TypeOK, Place
<1>2. CASE PutFits \/ PutNotReady \/ SendFails
  <2>1. pc' = ret /\ UNCHANGED <<pos, out>>
    BY <1>2 DEF PutFits, PutNotReady, SendFails, Returns
  <2> QED
    BY <1>1, <2>1
<1>3. CASE PutOverflows
  <2>1. pc = "put" /\ pc' = "send" /\ UNCHANGED <<pos, out, lo, hi, ret, nested>>
    BY <1>3 DEF PutOverflows
  <2> QED
    BY <1>1, <2>1
<1>4. CASE Sent
  <2>1. /\ pc = "send" /\ pc' = "put" /\ UNCHANGED <<pos, out, hi, ret>>
        /\ lo' = lo + (PAYLOAD - usage) /\ nested' = 1
    BY <1>4 DEF Sent, Rest
  <2> QED
    BY <1>1, <2>1 DEF Emptied
<1> QED
  BY <1>2, <1>3, <1>4 DEF PutBuf

LEMMA NearerEncode ==
  ASSUME TypeOK, Place, Encode
  PROVE  Nearer
<1> USE SizeAssumption, ImageAssumption
    DEF encoder, call, buffer, record, Nearer, ToGo, Parts, Pending, Calls, At, Writing
<1>1. /\ lo \in Nat /\ hi \in Nat /\ out \in Nat /\ left \in Nat
      /\ pos \in Nat /\ pos <= MAXPOS
  BY DEF TypeOK
<1>2. CASE InitFails \/ GiveUp \/ Report
  BY <1>2 DEF InitFails, GiveUp, Report
<1>3. CASE HeaderDone
  BY <1>1, <1>3 DEF HeaderDone
<1>4. CASE EmitByte
  <2>1. out = 0
    BY <1>4 DEF EmitByte, Place
  <2> QED
    BY <1>1, <1>4, <2>1 DEF EmitByte, Write
<1>5. CASE Code
  BY <1>1, <1>5 DEF Code, Write
<1>6. CASE EndImage
  BY <1>1, <1>6 DEF EndImage, Write
<1> QED
  BY <1>2, <1>3, <1>4, <1>5, <1>6 DEF Encode

\* What FailureEndsImage rests on besides fairness, and more: every step of
\* encodeimage and put_buf gets nearer to the end of the image, by a measure that
\* is never negative, but for the repeat of a datagram that the radio answers
\* with 3 (wifistream.cpp 99); and after a failed write nothing is sent.
THEOREM ImageEnds ==
  Spec => /\ [](pc # "idle" => ToGo \in Nat)
          /\ [][pc # "idle" /\ ~SendAgain => Nearer]_vars
          /\ [][latch = 0 /\ pc # "idle" => wire' = wire /\ latch' = 0]_vars
<1>1. Init => Emptied
  BY DEF Init, Emptied, Writing
<1>2. IInv => (pc # "idle" => ToGo \in Nat)
  BY SizeAssumption, ImageAssumption
  DEF IInv, TypeOK, Place, ToGo, Parts, Pending, Calls, Writing
<1>3. IInv /\ Emptied /\ [Next]_vars => [pc # "idle" /\ ~SendAgain => Nearer]_vars
  <2>1. pc # "idle" /\ Next => PutBuf \/ Encode
    BY DEF Next, StartImage, CameraOff
  <2> QED
    BY <2>1, NearerPut, NearerEncode DEF IInv
<1>4. IInv /\ [Next]_vars => [latch = 0 /\ pc # "idle" => wire' = wire /\ latch' = 0]_vars
  <2> SUFFICES ASSUME IInv, Next, latch = 0, pc # "idle"
               PROVE  wire' = wire /\ latch' = 0
    OBVIOUS
  <2>1. Encode
    BY PutBufWrites DEF Next, StartImage, CameraOff, IInv, Place
  <2> QED
    BY <2>1 DEF Encode, EmitByte, HeaderDone, InitFails, Code, EndImage, GiveUp, Report,
                record
<1> QED
  BY <1>1, <1>2, <1>3, <1>4, EmptiedStep, Inductive, PTL DEF Spec

=============================================================================
