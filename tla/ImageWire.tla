----------------------------- MODULE ImageWire -----------------------------
(***************************************************************************)
(* What the output stream promises to whoever listens to the robot: the    *)
(* picture of each image grows from its first byte on and without a hole,  *)
(* and once bytes of a later image have been sent it grows no more.        *)
(* Nothing is promised about how far a picture gets.                       *)
(***************************************************************************)
EXTENDS Integers

CONSTANTS IMAGES,  \* number of images
          MAXPOS   \* bytes of the largest image

VARIABLE picture   \* the positions of the bytes sent of each image

Images == 1 .. IMAGES

\* What is sent of one image has no hole: with a byte all that come before it.
Beginning(s) == \A i \in s : 1 .. i \subseteq s

Init == picture = [k \in Images |-> {}]

\* A datagram carries on with the newest image that has been begun, or begins
\* later ones.
Grow ==
  /\ picture' \in [Images -> SUBSET (1 .. MAXPOS)]
  /\ \A k \in Images :
       /\ picture[k] \subseteq picture'[k]
       /\ Beginning(picture'[k])
  /\ \A j, k \in Images :
       j < k /\ picture[k] # {} => picture'[j] = picture[j]

Next == Grow
Spec == Init /\ [][Next]_picture

=============================================================================
