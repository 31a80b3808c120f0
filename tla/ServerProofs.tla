---------------------------- MODULE ServerProofs ----------------------------
(***************************************************************************)
(* Proofs about Server, for any sizes and bounds: types, how what is       *)
(* decoded begins, and that it is one whole image if none is overtaken.    *)
(***************************************************************************)
EXTENDS Server, WellFoundedInduction, TLAPS

\* It begins with the beginning of an image.
Begins(s) == Len(s) >= 2 /\ StartsImage(s[1]) /\ s[2] = s[1] + 1

BufferBegins ==
  /\ frames >= 1 => Begins(image_buffer)
  /\ frames = 2 => Begins(shown)

\* Sequence s has the bytes of the stream up to e.
IsRun(s, e) == \A k \in 1 .. Len(s) : s[k] = e - Len(s) + k

\* As long as the datagrams come in order, the buffer reaches up to the last one, and
\* what was shown reaches up to the beginning of an image.
InOrder ==
  /\ gui = "first" => image_buffer = <<>>
  /\ orderly = 1 =>
       /\ IsRun(image_buffer, last * PAYLOAD) /\ Joined(image_buffer)
       /\ Joined(shown)
       /\ shown # <<>> => \E e \in Nat : IsRun(shown, e) /\ StartsImage(e + 1)

IInv == TypeOK /\ BufferBegins /\ InOrder

---------------------------------------------------------------------------
(* Datagrams and sequences of bytes.                                       *)

LEMMA DatagramType ==
  ASSUME NEW n \in 1 .. DATAGRAMS
  PROVE  Datagram(n) \in Seq(Byte) /\ Len(Datagram(n)) = PAYLOAD
<1>1. \A j \in 1 .. PAYLOAD : (n - 1) * PAYLOAD + j \in Byte
  <2> SUFFICES ASSUME NEW j \in 1 .. PAYLOAD
               PROVE  (n - 1) * PAYLOAD + j \in 1 .. DATAGRAMS * PAYLOAD
    BY DEF Byte
  <2>1. n \in Nat /\ DATAGRAMS \in Nat /\ PAYLOAD \in Nat /\ n >= 1 /\ n <= DATAGRAMS
    BY SizeAssumption, BoundAssumption
  <2>2. (n - 1) * PAYLOAD \in Nat /\ n * PAYLOAD <= DATAGRAMS * PAYLOAD
    BY <2>1
  <2>3. (n - 1) * PAYLOAD + PAYLOAD = n * PAYLOAD
    BY <2>1
  <2>4. n * PAYLOAD \in Int /\ DATAGRAMS * PAYLOAD \in Int
    BY <2>1
  <2> QED
    BY <2>1, <2>2, <2>3, <2>4
<1>2. PAYLOAD \in Nat
  BY SizeAssumption
<1>3. Datagram(n) \in [1 .. PAYLOAD -> Byte]
  BY <1>1 DEF Datagram
<1> QED
  BY <1>2, <1>3

LEMMA SubSeqType ==
  ASSUME NEW s \in Seq(Byte), NEW a \in Int, NEW b \in Int, 1 <= a, b <= Len(s),
         a <= b + 1
  PROVE  /\ SubSeq(s, a, b) \in Seq(Byte) /\ Len(SubSeq(s, a, b)) = b - a + 1
         /\ \A k \in 1 .. b - a + 1 : SubSeq(s, a, b)[k] = s[a + k - 1]
  BY SMT

LEMMA ConcatBegins ==
  ASSUME NEW s \in Seq(Byte), NEW t \in Seq(Byte), Begins(s)
  PROVE  Begins(s \o t)
<1>1. /\ Len(s \o t) = Len(s) + Len(t) /\ Len(s) >= 2 /\ Len(t) \in Nat
      /\ (s \o t)[1] = s[1] /\ (s \o t)[2] = s[2]
  BY DEF Begins
<1> QED
  BY <1>1 DEF Begins

\* A nonempty set of numbers has a least one.
LEMMA Least ==
  ASSUME NEW S \in SUBSET Nat, S # {}
  PROVE  \E j \in S : \A k \in S : j <= k
<1> DEFINE R == {ss \in Nat \X Nat : ss[1] < ss[2]}
<1>1. IsWellFoundedOn(R, Nat)
  BY NatLessThanWellFounded DEF OpToRel
<1>2. \A j, k \in Nat : <<k, j>> \notin R => j <= k
  OBVIOUS
<1> HIDE DEF R
<1>3. \E j \in S : \A k \in S : <<k, j>> \notin R
  BY <1>1, WFMin
<1> QED
  BY <1>2, <1>3

\* The marker that is found has both bytes in the datagram.
LEMMA FoundType ==
  ASSUME NEW n \in 1 .. DATAGRAMS, Markers(n) # {}
  PROVE  Found(n) \in 1 .. PAYLOAD - 1 /\ StartsImage(Datagram(n)[Found(n)])
<1> DEFINE M == Markers(n)
<1>1. M \subseteq 1 .. PAYLOAD - 1 /\ PAYLOAD \in Nat /\ M # {}
  BY SizeAssumption DEF Markers
<1>2. M \in SUBSET Nat
  BY <1>1
<1>3. Found(n) = CHOOSE j \in M : \A k \in M : j <= k
  BY DEF Found
<1> HIDE DEF M
<1>4. \E j \in M : \A k \in M : j <= k
  BY <1>1, <1>2, Least
<1>5. Found(n) \in M
  BY <1>3, <1>4
<1> QED
  BY <1>1, <1>5 DEF M, Markers

\* The datagram from the marker on begins an image.
LEMMA TailBegins ==
  ASSUME NEW n \in 1 .. DATAGRAMS, Markers(n) # {}
  PROVE  /\ SubSeq(Datagram(n), Found(n), PAYLOAD) \in Seq(Byte)
         /\ Begins(SubSeq(Datagram(n), Found(n), PAYLOAD))
<1> DEFINE D == Datagram(n)
           j == Found(n)
<1>1. D \in Seq(Byte) /\ Len(D) = PAYLOAD /\ PAYLOAD \in Nat
  BY DatagramType, SizeAssumption
<1>2. j \in 1 .. PAYLOAD - 1 /\ StartsImage(D[j])
  BY FoundType
<1>3. D[j + 1] = D[j] + 1
  <2>1. D[j] = (n - 1) * PAYLOAD + j /\ D[j + 1] = (n - 1) * PAYLOAD + (j + 1)
    BY <1>1, <1>2 DEF Datagram
  <2>2. (n - 1) * PAYLOAD \in Int
    BY <1>1
  <2> QED
    BY <1>1, <1>2, <2>1, <2>2
<1> HIDE DEF D, j
<1> DEFINE t == SubSeq(D, j, PAYLOAD)
<1>4. t \in Seq(Byte) /\ Len(t) = PAYLOAD - j + 1
      /\ \A k \in 1 .. PAYLOAD - j + 1 : t[k] = D[j + k - 1]
  BY <1>1, <1>2, SubSeqType
<1>5. t[1] = D[j] /\ t[2] = D[j + 1] /\ Len(t) >= 2
  <2>1. 1 \in 1 .. PAYLOAD - j + 1 /\ 2 \in 1 .. PAYLOAD - j + 1
    BY <1>1, <1>2
  <2>2. j + 1 - 1 = j /\ j + 2 - 1 = j + 1
    BY <1>2
  <2> HIDE DEF t
  <2> QED
    BY <1>1, <1>2, <1>4, <2>1, <2>2
<1> HIDE DEF t
<1>6. Begins(t) /\ t \in Seq(Byte)
  BY <1>2, <1>3, <1>4, <1>5 DEF Begins
<1> QED
  BY <1>6 DEF t, D, j

LEMMA HeadType ==
  ASSUME NEW n \in 1 .. DATAGRAMS, Markers(n) # {}
  PROVE  SubSeq(Datagram(n), 1, Found(n) - 1) \in Seq(Byte)
<1>1. /\ Datagram(n) \in Seq(Byte) /\ Len(Datagram(n)) = PAYLOAD /\ PAYLOAD \in Nat
      /\ Found(n) \in 1 .. PAYLOAD - 1
  BY DatagramType, FoundType, SizeAssumption
<1> QED
  BY <1>1, SubSeqType

\* No marker is before the one that is found.
LEMMA FoundFirst ==
  ASSUME NEW n \in 1 .. DATAGRAMS, Markers(n) # {}
  PROVE  \A i \in 1 .. Found(n) - 1 : ~ StartsImage(Datagram(n)[i])
<1> DEFINE M == Markers(n)
<1>1. M \in SUBSET Nat /\ M # {} /\ PAYLOAD \in Nat
  BY SizeAssumption DEF Markers
<1>2. Found(n) = CHOOSE j \in M : \A k \in M : j <= k
  BY DEF Found
<1>3. \E j \in M : \A k \in M : j <= k
  <2> HIDE DEF M
  <2> QED
    BY <1>1, Least
<1>4. \A k \in M : Found(n) <= k
  <2> HIDE DEF M
  <2> QED
    BY <1>2, <1>3
<1>5. \A i \in 1 .. Found(n) - 1 : i \in 1 .. PAYLOAD - 1 /\ i \notin M
  BY <1>1, <1>4, FoundType
<1> QED
  BY <1>5 DEF M, Markers

---------------------------------------------------------------------------
(* Runs of the stream.                                                     *)

LEMMA DatagramIsRun ==
  ASSUME NEW n \in 1 .. DATAGRAMS
  PROVE  IsRun(Datagram(n), n * PAYLOAD)
<1>1. Len(Datagram(n)) = PAYLOAD /\ PAYLOAD \in Nat /\ n \in Nat
  BY DatagramType, SizeAssumption, BoundAssumption
<1>2. (n - 1) * PAYLOAD = n * PAYLOAD - PAYLOAD /\ n * PAYLOAD \in Int
  BY <1>1
<1>3. \A k \in 1 .. PAYLOAD : Datagram(n)[k] = (n - 1) * PAYLOAD + k
  BY DEF Datagram
<1> QED
  BY <1>1, <1>2, <1>3 DEF IsRun

LEMMA ConcatIsRun ==
  ASSUME NEW s \in Seq(Byte), NEW t \in Seq(Byte), NEW e \in Int,
         IsRun(s, e), IsRun(t, e + Len(t))
  PROVE  IsRun(s \o t, e + Len(t))
<1>1. /\ Len(s) \in Nat /\ Len(t) \in Nat /\ Len(s \o t) = Len(s) + Len(t)
      /\ \A k \in 1 .. Len(s) + Len(t) :
           (s \o t)[k] = IF k <= Len(s) THEN s[k] ELSE t[k - Len(s)]
  OBVIOUS
<1> SUFFICES ASSUME NEW k \in 1 .. Len(s) + Len(t)
             PROVE  (s \o t)[k] = e + Len(t) - (Len(s) + Len(t)) + k
  BY <1>1 DEF IsRun
<1>2. CASE k <= Len(s)
  <2>1. k \in 1 .. Len(s) /\ s[k] = e - Len(s) + k
    BY <1>1, <1>2 DEF IsRun
  <2> QED
    BY <1>1, <1>2, <2>1
<1>3. CASE k > Len(s)
  <2>1. k - Len(s) \in 1 .. Len(t)
    BY <1>1, <1>3
  <2>2. t[k - Len(s)] = e + Len(t) - Len(t) + (k - Len(s))
    BY <2>1 DEF IsRun
  <2> QED
    BY <1>1, <1>3, <2>2
<1> QED
  BY <1>1, <1>2, <1>3

LEMMA SubSeqIsRun ==
  ASSUME NEW s \in Seq(Byte), NEW e \in Int, IsRun(s, e),
         NEW a \in Int, NEW b \in Int, 1 <= a, b <= Len(s), a <= b + 1
  PROVE  IsRun(SubSeq(s, a, b), e - Len(s) + b)
<1> DEFINE t == SubSeq(s, a, b)
<1>1. Len(t) = b - a + 1 /\ \A k \in 1 .. b - a + 1 : t[k] = s[a + k - 1]
  BY SubSeqType
<1>2. Len(s) \in Nat
  OBVIOUS
<1> HIDE DEF t
<1>3. \A k \in 1 .. b - a + 1 : s[a + k - 1] = e - Len(s) + (a + k - 1)
  BY <1>2 DEF IsRun
<1>4. IsRun(t, e - Len(s) + b)
  BY <1>1, <1>2, <1>3 DEF IsRun
<1> QED
  BY <1>4 DEF t

---------------------------------------------------------------------------
(* Where images are joined.                                                *)

\* Behind a joined sequence may come what has no beginning of an image but in the
\* last byte of a datagram.
LEMMA ConcatJoined ==
  ASSUME NEW s \in Seq(Byte), NEW t \in Seq(Byte), Joined(s),
         \A i \in 1 .. Len(t) : StartsImage(t[i]) => LastByte(t[i])
  PROVE  Joined(s \o t)
<1>1. /\ Len(s) \in Nat /\ Len(t) \in Nat /\ Len(s \o t) = Len(s) + Len(t)
      /\ \A k \in 1 .. Len(s) + Len(t) :
           (s \o t)[k] = IF k <= Len(s) THEN s[k] ELSE t[k - Len(s)]
  OBVIOUS
<1> DEFINE u == s \o t
<1> HIDE DEF u
<1> SUFFICES ASSUME NEW k \in 2 .. Len(u), StartsImage(u[k])
             PROVE  \/ LastByte(u[k])
                    \/ \E b \in 1 .. u[k] - 1 : StartsImage(b) /\ SameDatagram(b, u[k])
  BY DEF Joined, u
<1>2. CASE k <= Len(s)
  <2>1. k \in 2 .. Len(s) /\ u[k] = s[k]
    BY <1>1, <1>2 DEF u
  <2> QED
    BY <2>1 DEF Joined
<1>3. CASE k > Len(s)
  <2>1. k - Len(s) \in 1 .. Len(t) /\ u[k] = t[k - Len(s)]
    BY <1>1, <1>3 DEF u
  <2> QED
    BY <2>1
<1> QED
  BY <1>1, <1>2, <1>3 DEF u

\* What comes before the marker, or a datagram without one.
LEMMA HeadJoined ==
  ASSUME NEW n \in 1 .. DATAGRAMS, Markers(n) # {}
  PROVE  LET h == SubSeq(Datagram(n), 1, Found(n) - 1)
         IN \A i \in 1 .. Len(h) : StartsImage(h[i]) => LastByte(h[i])
<1> DEFINE D == Datagram(n)
           j == Found(n)
           h == SubSeq(D, 1, j - 1)
<1>1. D \in Seq(Byte) /\ Len(D) = PAYLOAD /\ PAYLOAD \in Nat /\ j \in 1 .. PAYLOAD - 1
  BY DatagramType, FoundType, SizeAssumption
<1>2. \A i \in 1 .. j - 1 : ~ StartsImage(D[i])
  BY FoundFirst
<1> HIDE DEF D, j
<1>3. Len(h) = j - 1 /\ \A i \in 1 .. j - 1 : h[i] = D[i]
  <2>1. Len(h) = j - 1 - 1 + 1 /\ \A k \in 1 .. j - 1 - 1 + 1 : h[k] = D[1 + k - 1]
    BY <1>1, SubSeqType
  <2>2. \A k \in 1 .. j - 1 : k \in 1 .. j - 1 - 1 + 1 /\ 1 + k - 1 = k
    BY <1>1
  <2> HIDE DEF h
  <2> QED
    BY <1>1, <2>1, <2>2
<1> HIDE DEF h
<1>4. \A i \in 1 .. Len(h) : ~ StartsImage(h[i])
  BY <1>2, <1>3
<1> QED
  BY <1>4 DEF D, j, h

LEMMA UnmarkedJoined ==
  ASSUME NEW n \in 1 .. DATAGRAMS, Markers(n) = {}
  PROVE  \A i \in 1 .. Len(Datagram(n)) :
           StartsImage(Datagram(n)[i]) => LastByte(Datagram(n)[i])
<1>1. Len(Datagram(n)) = PAYLOAD /\ PAYLOAD \in Nat /\ n \in Nat
  BY DatagramType, SizeAssumption, BoundAssumption
<1> SUFFICES ASSUME NEW i \in 1 .. PAYLOAD, StartsImage(Datagram(n)[i])
             PROVE  LastByte(Datagram(n)[i])
  BY <1>1
<1>2. i \notin 1 .. PAYLOAD - 1
  BY DEF Markers
<1>3. i = PAYLOAD
  BY <1>1, <1>2
<1>4. Datagram(n)[i] = (n - 1) * PAYLOAD + PAYLOAD
  BY <1>3 DEF Datagram
<1>5. (n - 1) * PAYLOAD + PAYLOAD = n * PAYLOAD
  BY <1>1
<1> QED
  BY <1>4, <1>5 DEF LastByte

\* From the marker on, every further one is in the same datagram.
LEMMA TailJoined ==
  ASSUME NEW n \in 1 .. DATAGRAMS, Markers(n) # {}
  PROVE  Joined(SubSeq(Datagram(n), Found(n), PAYLOAD))
<1> DEFINE D == Datagram(n)
           j == Found(n)
           t == SubSeq(D, j, PAYLOAD)
           m == (n - 1) * PAYLOAD
<1>1. /\ D \in Seq(Byte) /\ Len(D) = PAYLOAD /\ PAYLOAD \in Nat /\ n \in Nat
      /\ j \in 1 .. PAYLOAD - 1 /\ StartsImage(D[j])
  BY DatagramType, FoundType, SizeAssumption, BoundAssumption
<1>2. m \in Int /\ m + PAYLOAD = n * PAYLOAD /\ m >= 0
  <2>1. n - 1 \in Nat
    BY <1>1
  <2> QED
    BY <1>1, <2>1
<1>3. \A i \in 1 .. PAYLOAD : D[i] = m + i
  BY DEF Datagram
<1> HIDE DEF D, j
<1>5. Len(t) = PAYLOAD - j + 1 /\ \A k \in 1 .. PAYLOAD - j + 1 : t[k] = D[j + k - 1]
  BY <1>1, SubSeqType
<1> HIDE DEF t
<1> SUFFICES ASSUME NEW k \in 2 .. Len(t)
             PROVE  \E b \in 1 .. t[k] - 1 : StartsImage(b) /\ SameDatagram(b, t[k])
  BY DEF Joined, t, D, j
<1> DEFINE i == j + k - 1
<1>6. i \in 1 .. PAYLOAD /\ j < i /\ t[k] = D[i] /\ j \in 1 .. PAYLOAD
  <2>1. k \in 1 .. PAYLOAD - j + 1 /\ k >= 2
    BY <1>1, <1>5
  <2>2. t[k] = D[i]
    BY <1>5, <2>1
  <2> QED
    BY <1>1, <2>1, <2>2
<1> HIDE DEF i
<1>7. t[k] = m + i /\ D[j] = m + j
  BY <1>3, <1>6
<1>8. SameDatagram(m + j, m + i)
  <2>1. m + j \in m + 1 .. n * PAYLOAD /\ m + i \in m + 1 .. n * PAYLOAD
    <3> HIDE DEF m
    <3> QED
      BY <1>1, <1>2, <1>6
  <2> QED
    BY <2>1 DEF SameDatagram
<1>9. m + j \in 1 .. (m + i) - 1
  <2> HIDE DEF m
  <2> QED
    BY <1>1, <1>2, <1>6
<1> HIDE DEF m
<1> QED
  BY <1>1, <1>7, <1>8, <1>9

---------------------------------------------------------------------------
(* The invariant.                                                          *)

\* Cutting a datagram keeps the types, and how the buffer and the image begin.
LEMMA CutsKeep ==
  ASSUME NEW n \in 1 .. DATAGRAMS, Cuts(n), BufferBegins,
         image_buffer \in Seq(Byte), shown \in Seq(Byte), frames \in 0 .. 2
  PROVE  /\ image_buffer' \in Seq(Byte) /\ shown' \in Seq(Byte) /\ frames' \in 0 .. 2
         /\ BufferBegins'
<1>1. CASE Markers(n) # {}
  <2> DEFINE h == SubSeq(Datagram(n), 1, Found(n) - 1)
             t == SubSeq(Datagram(n), Found(n), PAYLOAD)
  <2>1. /\ shown' = image_buffer \o h /\ image_buffer' = t
        /\ frames' = IF frames < 2 THEN frames + 1 ELSE 2
    BY <1>1 DEF Cuts
  <2>2. h \in Seq(Byte) /\ t \in Seq(Byte) /\ Begins(t)
    BY <1>1, HeadType, TailBegins
  <2> HIDE DEF h, t
  <2>3. Begins(image_buffer) => Begins(image_buffer \o h)
    BY <2>2, ConcatBegins
  <2>4. frames' \in 0 .. 2 /\ (frames' = 2 => frames >= 1)
    BY <2>1
  <2> QED
    BY <2>1, <2>2, <2>3, <2>4 DEF BufferBegins
<1>2. CASE Markers(n) = {}
  <2> DEFINE D == Datagram(n)
  <2>1. image_buffer' = image_buffer \o D /\ shown' = shown /\ frames' = frames
    BY <1>2 DEF Cuts
  <2>2. D \in Seq(Byte)
    BY DatagramType
  <2> HIDE DEF D
  <2>3. Begins(image_buffer) => Begins(image_buffer \o D)
    BY <2>2, ConcatBegins
  <2> QED
    BY <2>1, <2>2, <2>3 DEF BufferBegins
<1> QED
  BY <1>1, <1>2

\* What a datagram in order does to the buffer and to the image.
LEMMA CutsInOrder ==
  ASSUME NEW n \in 1 .. DATAGRAMS, Cuts(n), n = last + 1, last' = n, last \in Int,
         image_buffer \in Seq(Byte), shown \in Seq(Byte),
         IsRun(image_buffer, last * PAYLOAD), Joined(image_buffer), Joined(shown),
         shown # <<>> => \E e \in Nat : IsRun(shown, e) /\ StartsImage(e + 1)
  PROVE  /\ IsRun(image_buffer', last' * PAYLOAD) /\ Joined(image_buffer')
         /\ Joined(shown')
         /\ shown' # <<>> => \E e \in Nat : IsRun(shown', e) /\ StartsImage(e + 1)
<1> DEFINE D == Datagram(n)
           j == Found(n)
           h == SubSeq(D, 1, j - 1)
           t == SubSeq(D, j, PAYLOAD)
           m == last * PAYLOAD
<1>1. /\ D \in Seq(Byte) /\ Len(D) = PAYLOAD /\ PAYLOAD \in Nat
      /\ m \in Nat /\ m + PAYLOAD = n * PAYLOAD
  <2>1. last \in Nat /\ PAYLOAD \in Nat /\ n \in Nat
    BY SizeAssumption, BoundAssumption
  <2>2. m \in Nat /\ m + PAYLOAD = (last + 1) * PAYLOAD
    BY <2>1
  <2> QED
    BY <2>1, <2>2, DatagramType
<1>2. IsRun(D, m + PAYLOAD)
  BY <1>1, DatagramIsRun
<1>3. CASE Markers(n) # {}
  <2>1. shown' = image_buffer \o h /\ image_buffer' = t
    BY <1>3 DEF Cuts
  <2>2. j \in 1 .. PAYLOAD - 1 /\ StartsImage(D[j])
    BY <1>3, FoundType
  <2>3. h \in Seq(Byte) /\ t \in Seq(Byte) /\ Len(h) = j - 1
    <3> HIDE DEF D, j
    <3>1. h \in Seq(Byte) /\ Len(h) = j - 1 - 1 + 1
      BY <1>1, <2>2, SubSeqType
    <3>2. t \in Seq(Byte)
      BY <1>1, <2>2, SubSeqType
    <3> HIDE DEF h
    <3> QED
      BY <2>2, <3>1, <3>2
  <2>4. IsRun(h, m + (j - 1)) /\ IsRun(t, m + PAYLOAD)
    <3> HIDE DEF D, j, m
    <3> DEFINE e == m + PAYLOAD
               i == j - 1
    <3>1. /\ D \in Seq(Byte) /\ e \in Int /\ IsRun(D, e)
          /\ i \in Int /\ i <= Len(D) /\ 1 <= i + 1 /\ 1 <= 1
          /\ j \in Int /\ PAYLOAD \in Int /\ 1 <= j /\ PAYLOAD <= Len(D)
          /\ j <= PAYLOAD + 1 /\ 1 \in Int
      BY <1>1, <1>2, <2>2
    <3>2. e - Len(D) + i = m + (j - 1) /\ e - Len(D) + PAYLOAD = m + PAYLOAD
      BY <1>1, <2>2
    <3> HIDE DEF e, i
    <3>3. IsRun(SubSeq(D, 1, i), e - Len(D) + i)
      BY <3>1, SubSeqIsRun
    <3>4. IsRun(t, e - Len(D) + PAYLOAD)
      BY <3>1, SubSeqIsRun
    <3>5. h = SubSeq(D, 1, i)
      BY DEF i
    <3> HIDE DEF h, t
    <3> QED
      BY <3>2, <3>3, <3>4, <3>5
  <2>5. Joined(t) /\ Joined(image_buffer \o h)
    <3>1. Joined(t)
      BY <1>3, TailJoined
    <3>2. \A i \in 1 .. Len(h) : StartsImage(h[i]) => LastByte(h[i])
      BY <1>3, HeadJoined
    <3> HIDE DEF h, t
    <3> QED
      BY <2>3, <3>1, <3>2, ConcatJoined
  <2>6. IsRun(image_buffer \o h, m + (j - 1))
    <3> HIDE DEF D, j, h, m
    <3>1. IsRun(image_buffer, m)
      BY DEF m
    <3> QED
      BY <1>1, <2>3, <2>4, <3>1, ConcatIsRun
  <2>7. StartsImage(m + (j - 1) + 1) /\ m + (j - 1) \in Nat
    <3>1. D[j] = m + PAYLOAD - PAYLOAD + j
      <4> HIDE DEF D, j, m
      <4>1. j \in 1 .. Len(D)
        BY <1>1, <2>2
      <4> QED
        BY <1>1, <1>2, <4>1 DEF IsRun
    <3> HIDE DEF D, j, m
    <3>2. m + PAYLOAD - PAYLOAD + j = m + (j - 1) + 1 /\ m + (j - 1) \in Nat
      BY <1>1, <2>2
    <3> QED
      BY <2>2, <3>1, <3>2
  <2>8. last' * PAYLOAD = m + PAYLOAD
    BY <1>1
  <2> HIDE DEF D, j, h, t, m
  <2> QED
    BY <2>1, <2>4, <2>5, <2>6, <2>7, <2>8
<1>4. CASE Markers(n) = {}
  <2>1. image_buffer' = image_buffer \o D /\ shown' = shown
    BY <1>4 DEF Cuts
  <2>2. Joined(image_buffer \o D)
    <3>1. \A i \in 1 .. Len(D) : StartsImage(D[i]) => LastByte(D[i])
      BY <1>4, UnmarkedJoined
    <3> HIDE DEF D
    <3> QED
      BY <1>1, <3>1, ConcatJoined
  <2>3. IsRun(image_buffer \o D, m + PAYLOAD)
    <3>1. IsRun(image_buffer, m)
      OBVIOUS
    <3> HIDE DEF D, m
    <3>2. IsRun(D, m + Len(D)) /\ m \in Int
      BY <1>1, <1>2
    <3>3. IsRun(image_buffer \o D, m + Len(D))
      BY <1>1, <3>1, <3>2, ConcatIsRun
    <3> QED
      BY <1>1, <3>3
  <2>4. last' * PAYLOAD = m + PAYLOAD
    BY <1>1
  <2> HIDE DEF D, m
  <2> QED
    BY <2>1, <2>2, <2>3, <2>4
<1> QED
  BY <1>3, <1>4

\* Who leaves buffer and image alone keeps what is said of them.
LEMMA Untouched ==
  ASSUME BufferBegins, InOrder, UNCHANGED image, gui' = "first" => gui = "first"
  PROVE  BufferBegins' /\ InOrder'
<1>1. UNCHANGED <<image_buffer, frames, shown, last, orderly>>
  BY DEF image
<1>2. BufferBegins'
  BY <1>1 DEF BufferBegins
<1>3. InOrder'
  BY <1>1 DEF InOrder
<1> QED
  BY <1>2, <1>3

LEMMA NetworkKeeps ==
  ASSUME IInv, Network
  PROVE  IInv'
<1>1. BufferBegins' /\ InOrder' /\ UNCHANGED image
  <2>1. UNCHANGED image /\ UNCHANGED gui
    BY DEF Network, RobotTalks, Loses, RobotObeys, Obeys, threads
  <2> QED
    BY <2>1, Untouched DEF IInv
<1>2. CASE RobotTalks
  BY <1>1, <1>2, BoundAssumption DEF IInv, TypeOK, Bit, Orders, RobotTalks, image, threads, robot
<1>3. CASE Loses
  BY <1>1, <1>3 DEF IInv, TypeOK, Bit, Orders, Loses, image, threads
<1>4. CASE RobotObeys
  BY <1>1, <1>4 DEF IInv, TypeOK, Bit, Orders, RobotObeys, Obeys, image, air, threads
<1> QED
  BY <1>2, <1>3, <1>4 DEF Network

LEMMA GuiKeeps ==
  ASSUME IInv, Gui
  PROVE  IInv'
<1> USE DEF IInv
<1>1. ASSUME NEW n, Arrives(n)
      PROVE  /\ n \in 1 .. DATAGRAMS /\ talked' \in 0 .. DATAGRAMS
             /\ net' \subseteq 1 .. talked' /\ dups' \in 0 .. DUPS /\ last' \in 0 .. DATAGRAMS
  <2>1. /\ talked \in 0 .. DATAGRAMS /\ net \subseteq 1 .. talked /\ dups \in 0 .. DUPS
        /\ DATAGRAMS \in Nat /\ DUPS \in Nat
    BY BoundAssumption DEF TypeOK
  <2>2. n \in net /\ last' = n /\ talked' = talked /\ net' \subseteq net
        /\ (dups' = dups \/ (dups < DUPS /\ dups' = dups + 1))
    BY <1>1 DEF Arrives
  <2>3. n \in 1 .. DATAGRAMS
    BY <2>1, <2>2
  <2>4. dups' \in 0 .. DUPS
    BY <2>1, <2>2
  <2>5. net' \subseteq 1 .. talked'
    BY <2>1, <2>2
  <2> QED
    BY <2>1, <2>2, <2>3, <2>4, <2>5
<1>2. CASE ReceivesFirst
  <2>1. PICK n \in net : Arrives(n)
    BY <1>2 DEF ReceivesFirst
  <2>2. /\ UNCHANGED <<image_buffer, frames, shown, orderly>> /\ image_buffer = <<>>
        /\ gui' = "loop" /\ last' \in Int
    BY <1>1, <1>2, <2>1 DEF ReceivesFirst, InOrder
  <2>3. BufferBegins' /\ TypeOK'
    BY <1>1, <1>2, <2>1, <2>2 DEF ReceivesFirst, TypeOK, BufferBegins, robot
  <2>4. IsRun(image_buffer, last' * PAYLOAD)
    BY <2>2 DEF IsRun
  <2> QED
    BY <2>2, <2>3, <2>4 DEF InOrder
<1>3. CASE Receives
  <2>1. PICK n \in net : Arrives(n) /\ Cuts(n)
                         /\ orderly' = IF n = last + 1 THEN orderly ELSE 0
    BY <1>3 DEF Receives
  <2>2. n \in 1 .. DATAGRAMS
    BY <1>1, <2>1
  <2>3. /\ image_buffer' \in Seq(Byte) /\ shown' \in Seq(Byte) /\ frames' \in 0 .. 2
        /\ BufferBegins'
    BY <2>1, <2>2, CutsKeep DEF TypeOK
  <2>4. orderly' \in Bit
    BY <2>1 DEF TypeOK, Bit
  <2>5. TypeOK'
    BY <1>1, <1>3, <2>1, <2>3, <2>4 DEF Receives, TypeOK, robot
  <2>6. InOrder'
    <3>1. gui' = "loop" /\ last' = n
      BY <1>3, <2>1 DEF Receives, Arrives
    <3>2. ASSUME orderly' = 1
          PROVE  /\ IsRun(image_buffer', last' * PAYLOAD) /\ Joined(image_buffer')
                 /\ Joined(shown')
                 /\ shown' # <<>> =>
                      \E e \in Nat : IsRun(shown', e) /\ StartsImage(e + 1)
      <4>1. orderly = 1 /\ n = last + 1
        BY <2>1, <3>2 DEF TypeOK, Bit
      <4>2. last \in Int /\ image_buffer \in Seq(Byte) /\ shown \in Seq(Byte)
        BY DEF TypeOK
      <4>3. /\ IsRun(image_buffer, last * PAYLOAD) /\ Joined(image_buffer)
            /\ Joined(shown)
            /\ shown # <<>> => \E e \in Nat : IsRun(shown, e) /\ StartsImage(e + 1)
        BY <4>1 DEF InOrder
      <4> QED
        BY <2>1, <2>2, <3>1, <4>1, <4>2, <4>3, CutsInOrder
    <3> QED
      BY <3>1, <3>2 DEF InOrder
  <2> QED
    BY <2>3, <2>5, <2>6
<1>4. CASE CallsServer \/ KeyDown \/ GuiLocks \/ Puts \/ Closes
  <2>1. UNCHANGED image /\ UNCHANGED air /\ UNCHANGED robot
    BY <1>4 DEF CallsServer, KeyDown, GuiLocks, Puts, Closes
  <2>2. gui # "first" /\ gui' # "first"
    BY <1>4 DEF CallsServer, KeyDown, GuiLocks, Puts, Closes
  <2>3. BufferBegins' /\ InOrder'
    BY <2>1, <2>2, Untouched
  <2> QED
    BY <1>4, <2>1, <2>3, BoundAssumption
    DEF CallsServer, KeyDown, GuiLocks, Puts, Closes, TypeOK, Orders, image, air, robot
<1> QED
  BY <1>2, <1>3, <1>4 DEF Gui

LEMMA SenderKeeps ==
  ASSUME IInv, Sender
  PROVE  IInv'
<1> USE DEF IInv
<1>1. UNCHANGED image /\ UNCHANGED air /\ UNCHANGED gui
  BY DEF Sender, Checks, SenderLocks, Sends, SendFails, Releases
<1>2. BufferBegins' /\ InOrder'
  BY <1>1, Untouched
<1> QED
  BY <1>1, <1>2
  DEF Sender, Checks, SenderLocks, Sends, SendFails, Releases, TypeOK, Orders, image, air, robot

\* Whatever the network loses, repeats or reorders, and whatever the two threads do.
THEOREM Inductive == Spec => []IInv
<1>1. Init => IInv
  BY BoundAssumption DEF Init, IInv, TypeOK, BufferBegins, InOrder, IsRun, Joined, Bit, Orders
<1>2. IInv /\ [Next]_vars => IInv'
  <2> SUFFICES ASSUME IInv, [Next]_vars
               PROVE  IInv'
    OBVIOUS
  <2>1. CASE Next
    BY <2>1, NetworkKeeps, GuiKeeps, SenderKeeps DEF Next
  <2>2. CASE UNCHANGED vars
    <3>1. UNCHANGED image /\ UNCHANGED gui
      BY <2>2 DEF vars, threads
    <3>2. BufferBegins' /\ InOrder'
      BY <3>1, Untouched DEF IInv
    <3> QED
      BY <2>2, <3>2 DEF IInv, TypeOK, vars, image, air, threads, robot
  <2> QED
    BY <2>1, <2>2
<1> QED
  BY <1>1, <1>2, PTL DEF Spec

\* Types: no datagram number beyond what the robot has sent, no other place of a thread.
THEOREM TypeCorrect == Spec => []TypeOK
<1>1. IInv => TypeOK
  BY DEF IInv
<1> QED
  BY <1>1, Inductive, PTL

\* What is decoded begins with the beginning of an image, from the second on, for
\* every length of image and datagram (testserver.py 22-36).
THEOREM MarkerFirst == Spec => []BeginsWithMarker
<1>1. IInv => BeginsWithMarker
  BY DEF IInv, BufferBegins, Begins, BeginsWithMarker
<1> QED
  BY <1>1, Inductive, PTL

\* Of a stream in order and without loss whole images are decoded, one at a time but
\* where a marker is not looked for (testserver.py 22-36).
THEOREM WholeImages == Spec => []ShownIsWholeImages
<1>1. IInv => ShownIsWholeImages
  <2> SUFFICES ASSUME IInv, orderly = 1, shown # <<>>
               PROVE  /\ Consecutive(shown) /\ StartsImage(shown[Len(shown)] + 1)
                      /\ frames = 2 => StartsImage(shown[1])
                      /\ Joined(shown)
    BY DEF ShownIsWholeImages
  <2>1. PICK e \in Nat : IsRun(shown, e) /\ StartsImage(e + 1)
    BY DEF IInv, InOrder
  <2>2. shown \in Seq(Byte) /\ Len(shown) \in Nat /\ Len(shown) >= 1
    BY DEF IInv, TypeOK
  <2>3. Consecutive(shown)
    <3> SUFFICES ASSUME NEW k \in 1 .. Len(shown) - 1
                 PROVE  shown[k + 1] = shown[k] + 1
      BY DEF Consecutive
    <3>1. k \in 1 .. Len(shown) /\ k + 1 \in 1 .. Len(shown)
      BY <2>2
    <3> QED
      BY <2>1, <2>2, <3>1 DEF IsRun
  <2>4. shown[Len(shown)] = e
    <3>1. Len(shown) \in 1 .. Len(shown)
      BY <2>2
    <3> QED
      BY <2>1, <2>2, <3>1 DEF IsRun
  <2>5. frames = 2 => StartsImage(shown[1])
    BY DEF IInv, BufferBegins, Begins
  <2> QED
    BY <2>1, <2>3, <2>4, <2>5 DEF IInv, InOrder
<1> QED
  BY <1>1, Inductive, PTL

---------------------------------------------------------------------------
(* The lock of the command queue.                                          *)

\* Who has the lock is where it is released, or dead; and before the first datagram
\* there is no command thread to have it.
Locked ==
  /\ lock = "gui" <=> gui = "put"
  /\ lock = "sender" <=> sender \in {"send", "release", "dead"}
  /\ gui = "first" => sender = "none"

LEMMA LockedStep == Locked /\ [Next]_vars => Locked'
<1> SUFFICES ASSUME Locked, [Next]_vars PROVE Locked'
  OBVIOUS
<1> USE DEF Locked, image, air, threads, robot
<1>1. CASE Network
  <2>1. UNCHANGED threads
    <3>1. CASE RobotTalks
      BY <3>1 DEF RobotTalks
    <3>2. CASE Loses
      BY <3>2 DEF Loses
    <3>3. CASE RobotObeys
      BY <3>3 DEF RobotObeys, Obeys
    <3> QED
      BY <1>1, <3>1, <3>2, <3>3 DEF Network
  <2> QED
    BY <2>1
<1>2. CASE Gui
  BY <1>2 DEF Gui, ReceivesFirst, CallsServer, Receives, KeyDown, GuiLocks, Puts, Closes
<1>3. CASE Sender
  BY <1>3 DEF Sender, Checks, SenderLocks, Sends, SendFails, Releases
<1>4. CASE UNCHANGED vars
  BY <1>4 DEF vars
<1> QED
  BY <1>1, <1>2, <1>3, <1>4 DEF Next

\* The two threads are never both inside the lock, the window is not closed with it,
\* and it is lost for good only to a command thread that died: the half of
\* KeyReturns that is safety.
THEOREM LockIsReturned == Spec => []Locked
<1>1. Init => Locked
  BY DEF Init, Locked
<1> QED
  BY <1>1, LockedStep, PTL DEF Spec

=============================================================================
