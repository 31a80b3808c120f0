------------------------------- MODULE Delivery -------------------------------
(***************************************************************************)
(* What wifi_senddata promises to its callers: a datagram is on the air at *)
(* most as often as transmit is tried, and has been there if the call      *)
(* reports success.  A datagram whose call reported a failure may have     *)
(* been sent as well, or still be.                                         *)
(***************************************************************************)
EXTENDS Integers

VARIABLES phase,   \* of the newest call
          copies   \* times its datagram has been on the air

Init == phase = "none" /\ copies = 0

Call == phase # "busy" /\ phase' = "busy" /\ copies' = 0

Air == copies < 2 /\ copies' = copies + 1 /\ UNCHANGED phase

Succeed == phase = "busy" /\ copies >= 1 /\ phase' = "ok" /\ UNCHANGED copies

Fail == phase = "busy" /\ phase' = "failed" /\ UNCHANGED copies

\* The caller goes on to something else.
Forget == phase \in {"ok", "failed"} /\ phase' = "none" /\ UNCHANGED copies

Next == Call \/ Air \/ Succeed \/ Fail \/ Forget
Spec == Init /\ [][Next]_<<phase, copies>>

=============================================================================
