------------------------------- MODULE Server -------------------------------
(***************************************************************************)
(* The operator's program, testserver/testserver.py, and the network       *)
(* between it and the robot.  The GUI's thread receives the datagrams of   *)
(* the robot's stream and cuts it into images, and puts the command of a   *)
(* key into a queue; a second thread sends a command every 0.1 s: the      *)
(* queued one, or to stand still.  A lock guards the queue.                *)
(*                                                                         *)
(* A byte of the stream is its number; every image has LENGTH bytes, the   *)
(* first two of which are the marker FF D8.                                *)
(***************************************************************************)
EXTENDS Integers, Sequences

CONSTANTS
  PAYLOAD,    \* bytes of the stream in a datagram
  LENGTH,     \* bytes of an image
  DATAGRAMS,  \* bound: datagrams of the robot
  DUPS,       \* bound: datagrams that arrive again
  KEYS        \* bound: keys that are pressed

ASSUME SizeAssumption  == PAYLOAD \in Nat \ {0} /\ LENGTH \in Nat /\ LENGTH >= 2
ASSUME BoundAssumption == DATAGRAMS \in Nat /\ DUPS \in Nat /\ KEYS \in Nat

Bit == {0, 1}
Orders == {"go", "stand"}
Byte == 1 .. DATAGRAMS * PAYLOAD

VARIABLES
  talked,        \* datagrams the robot has sent
  net, dups,     \* those on their way; how many have arrived again
  image_buffer,
  frames,        \* 0, 1, or more images have been shown
  shown,         \* the last
  gui,           \* where the GUI's thread is
  sender,        \* where the command thread is
  lock, queue,
  keys,
  commands,      \* on their way to the robot
  wheels,        \* what they do
  last, orderly  \* ghosts: newest datagram; all since the first came in order

image   == <<image_buffer, frames, shown, last, orderly>>
air     == <<talked, net, dups>>
threads == <<gui, sender, lock, queue, keys>>
robot   == <<commands, wheels>>
vars    == <<image, air, threads, robot>>

Init ==
  /\ talked = 0 /\ net = {} /\ dups = 0
  /\ image_buffer = <<>> /\ frames = 0 /\ shown = <<>>
  /\ gui = "first" /\ sender = "none" /\ lock = "free" /\ queue = "empty" /\ keys = 0
  /\ commands = {} /\ wheels = "stand"
  /\ last = 0 /\ orderly = 1

---------------------------------------------------------------------------
(* The network: it loses, repeats and reorders.                            *)

RobotTalks ==
  /\ talked < DATAGRAMS /\ talked' = talked + 1 /\ net' = net \cup {talked'}
  /\ UNCHANGED <<dups, image, threads, robot>>

Loses ==
  /\ \/ \E n \in net : net' = net \ {n} /\ UNCHANGED commands
     \/ \E m \in commands : commands' = commands \ {m} /\ UNCHANGED net
  /\ UNCHANGED <<talked, dups, wheels, image, threads>>

\* recvfrom returns datagram n.
Arrives(n) ==
  /\ n \in net
  /\ \/ net' = net \ {n} /\ UNCHANGED dups
     \/ dups < DUPS /\ dups' = dups + 1 /\ UNCHANGED net
  /\ last' = n /\ UNCHANGED talked

\* inbound_ip in the robot.
Obeys(m) ==
  /\ m \in commands
  /\ wheels' = m
  /\ commands' \in {commands, commands \ {m}}
  /\ UNCHANGED <<image, air, threads>>

RobotObeys == Obeys("go") \/ Obeys("stand")

---------------------------------------------------------------------------
(* The images.                                                             *)

\* What follows the status of 12 bytes.
Datagram(n) == [j \in 1 .. PAYLOAD |-> (n - 1) * PAYLOAD + j]

StartsImage(b) == b % LENGTH = 1 % LENGTH

\* payload.find of the marker: the places before which it is, if any.
Markers(n) == {j \in 1 .. PAYLOAD - 1 : StartsImage(Datagram(n)[j])}
Found(n)   == CHOOSE j \in Markers(n) : \A k \in Markers(n) : j <= k

\* Mutant: the marker is cut off.
CutsMarkerOff(n) ==
  IF Markers(n) # {}
  THEN /\ shown' = image_buffer \o SubSeq(Datagram(n), 1, Found(n) - 1)
       /\ image_buffer' = SubSeq(Datagram(n), Found(n) + 1, PAYLOAD)
       /\ frames' = IF frames < 2 THEN frames + 1 ELSE 2
  ELSE /\ image_buffer' = image_buffer \o Datagram(n)
       /\ UNCHANGED <<shown, frames>>

\* Mutant: what comes before the marker is dropped.
CutsTail(n) ==
  IF Markers(n) # {}
  THEN /\ shown' = image_buffer
       /\ image_buffer' = SubSeq(Datagram(n), Found(n), PAYLOAD)
       /\ frames' = IF frames < 2 THEN frames + 1 ELSE 2
  ELSE /\ image_buffer' = image_buffer \o Datagram(n)
       /\ UNCHANGED <<shown, frames>>

Cuts(n) ==
  IF Markers(n) # {}
  THEN /\ shown' = image_buffer \o SubSeq(Datagram(n), 1, Found(n) - 1)
       /\ image_buffer' = SubSeq(Datagram(n), Found(n), PAYLOAD)
       /\ frames' = IF frames < 2 THEN frames + 1 ELSE 2
  ELSE /\ image_buffer' = image_buffer \o Datagram(n)
       /\ UNCHANGED <<shown, frames>>

\* The datagram by which the program learns the robot's address; it is not shown.
ReceivesFirst ==
  /\ gui = "first" /\ \E n \in net : Arrives(n)
  /\ gui' = "loop" /\ sender' = "check"
  /\ UNCHANGED <<image_buffer, frames, shown, orderly, lock, queue, keys, robot>>

\* root.after calls server(), which waits for a datagram in the GUI's thread.
CallsServer ==
  /\ gui = "loop" /\ gui' = "recv"
  /\ UNCHANGED <<image, air, sender, lock, queue, keys, robot>>

Receives ==
  /\ gui = "recv" /\ gui' = "loop"
  /\ \E n \in net : /\ Arrives(n) /\ Cuts(n)
                    /\ orderly' = IF n = last + 1 THEN orderly ELSE 0
  /\ UNCHANGED <<sender, lock, queue, keys, robot>>

---------------------------------------------------------------------------
(* The commands.                                                           *)

\* keydown.
KeyDown ==
  /\ gui = "loop" /\ keys < KEYS
  /\ keys' = keys + 1 /\ gui' = "acquire"
  /\ UNCHANGED <<image, air, sender, lock, queue, robot>>

GuiLocks ==
  /\ gui = "acquire" /\ lock = "free"
  /\ lock' = "gui" /\ gui' = "put"
  /\ UNCHANGED <<image, air, sender, queue, keys, robot>>

\* A key puts "go", or "stand" if it is none of w, a, s and d; but only into an empty
\* queue, although it has room for ten.
Puts ==
  /\ gui = "put" /\ lock' = "free" /\ gui' = "loop"
  /\ \E m \in Orders : queue' = IF queue = "empty" THEN m ELSE queue
  /\ UNCHANGED <<image, air, sender, keys, robot>>

\* The window is closed, and thread_stop set.
Closes ==
  /\ gui = "loop" /\ gui' = "closed"
  /\ UNCHANGED <<image, air, sender, lock, queue, keys, robot>>

Checks ==
  /\ sender = "check"
  /\ sender' = IF gui = "closed" THEN "ended" ELSE "acquire"
  /\ UNCHANGED <<image, air, gui, lock, queue, keys, robot>>

SenderLocks ==
  /\ sender = "acquire" /\ lock = "free"
  /\ lock' = "sender" /\ sender' = "send"
  /\ UNCHANGED <<image, air, gui, queue, keys, robot>>

\* Mutant: without a key nothing is sent.
SendsKeysOnly ==
  /\ sender = "send" /\ sender' = "release" /\ queue' = "empty"
  /\ commands' = commands \cup ({queue} \ {"empty"})
  /\ UNCHANGED <<image, air, gui, lock, keys, wheels>>

Sends ==
  /\ sender = "send" /\ sender' = "release" /\ queue' = "empty"
  /\ commands' = commands \cup {IF queue = "empty" THEN "stand" ELSE queue}
  /\ UNCHANGED <<image, air, gui, lock, keys, wheels>>

\* sendto raises: the thread ends, and the lock stays taken.
SendFails ==
  /\ sender = "send" /\ sender' = "dead" /\ queue' = "empty"
  /\ UNCHANGED <<image, air, gui, lock, keys, robot>>

\* Mutant: the lock is kept.
ReleasesNot ==
  /\ sender = "release" /\ sender' = "check"
  /\ UNCHANGED <<image, air, gui, lock, queue, keys, robot>>

\* And sleeps for 0.1 s.
Releases ==
  /\ sender = "release" /\ sender' = "check" /\ lock' = "free"
  /\ UNCHANGED <<image, air, gui, queue, keys, robot>>

Network == RobotTalks \/ Loses \/ RobotObeys
Gui     == ReceivesFirst \/ CallsServer \/ Receives \/ KeyDown \/ GuiLocks \/ Puts
           \/ Closes
Sender  == Checks \/ SenderLocks \/ Sends \/ SendFails \/ Releases

Next == Network \/ Gui \/ Sender
Spec == Init /\ [][Next]_vars

\* The command thread runs.  A lock that is free again and again, for 0.1 s each
\* time, is got; a command that is sent again and again arrives.
FairSpec ==
  /\ Spec
  /\ WF_vars(Sender) /\ SF_vars(SenderLocks)
  /\ SF_vars(GuiLocks) /\ WF_vars(Puts)
  /\ SF_vars(Obeys("stand"))

---------------------------------------------------------------------------
(* Properties.                                                             *)

TypeOK ==
  /\ talked \in 0 .. DATAGRAMS /\ net \subseteq 1 .. talked /\ dups \in 0 .. DUPS
  /\ image_buffer \in Seq(Byte) /\ shown \in Seq(Byte) /\ frames \in 0 .. 2
  /\ gui \in {"first", "loop", "recv", "acquire", "put", "closed"}
  /\ sender \in {"none", "check", "acquire", "send", "release", "dead", "ended"}
  /\ lock \in {"free", "gui", "sender"} /\ queue \in Orders \cup {"empty"} /\ keys \in 0 .. KEYS
  /\ commands \subseteq Orders /\ wheels \in Orders
  /\ last \in 0 .. DATAGRAMS /\ orderly \in Bit

\* Whatever the network loses, repeats or reorders: from the second on, what is
\* decoded begins with the beginning of an image (testserver.py 22-36).
BeginsWithMarker ==
  frames = 2 => /\ Len(shown) >= 2 /\ StartsImage(shown[1])
                /\ shown[2] = shown[1] + 1

Consecutive(s) == \A k \in 1 .. Len(s) - 1 : s[k + 1] = s[k] + 1

LastByte(b)        == \E n \in 1 .. DATAGRAMS : b = n * PAYLOAD
SameDatagram(a, b) == \E n \in 1 .. DATAGRAMS :
                        {a, b} \subseteq (n - 1) * PAYLOAD + 1 .. n * PAYLOAD

\* Where another image begins inside s, its marker is split over two datagrams, or
\* is not the first in its datagram.
Joined(s) ==
  \A k \in 2 .. Len(s) : StartsImage(s[k]) =>
    \/ LastByte(s[k])
    \/ \E b \in 1 .. s[k] - 1 : StartsImage(b) /\ SameDatagram(b, s[k])

\* If the datagrams come in order and none is missing, what is decoded ends with
\* the end of an image, and from the second on it is one whole image; several only
\* where a marker is not looked for.
ShownIsWholeImages ==
  orderly = 1 /\ shown # <<>> =>
    /\ Consecutive(shown) /\ StartsImage(shown[Len(shown)] + 1)
    /\ frames = 2 => StartsImage(shown[1])
    /\ Joined(shown)

\* The robot comes to a stand after a key, even if the GUI waits for a datagram for
\* ever: the command thread goes on; unless that has ended or died of a failed
\* sendto with the robot in motion.
WheelsStop == (wheels = "go") ~> (wheels = "stand" \/ sender \in {"dead", "ended"})

\* A key does not freeze the GUI, unless the command thread died with the lock.
KeyReturns == (gui = "acquire") ~> (gui = "loop" \/ sender = "dead")

=============================================================================
