--------------------------- MODULE MCLineBuffer ---------------------------
(***************************************************************************)
(* Instances of LineBuffer for TLC: a small image, and the two orders in   *)
(* which the program's consumers ask for its lines.                        *)
(***************************************************************************)
EXTENDS LineBuffer

CONSTANT STRIDE  \* 1: encodeimage; more: dummyprocessor, whose stride is 100

MCNextLine  == [l \in 0 .. HEIGHT - 1 |-> (l + STRIDE) % HEIGHT]
MCFirstLine == IF STRIDE = 1 THEN 0 ELSE STRIDE % HEIGHT

=============================================================================
