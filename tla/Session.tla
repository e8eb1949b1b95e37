------------------------------ MODULE Session ------------------------------
(***************************************************************************)
(* How bl_listen of src/bl.c turns bytes into commands: get_byte of         *)
(* src/usb.c with its timeout, the framing of every command, the two       *)
(* timers of src/timer.c that run meanwhile, and the replies.              *)
(*                                                                         *)
(* A byte is known by the frame it was sent in and its place there.  What  *)
(* the CRC8 of a frame protects is whether the bytes read are, in order,   *)
(* those of one frame; collisions of the CRC are left out.  What a command *)
(* does once it is read is the "work" of this module, and takes any time;  *)
(* Bootloader says what it is.  BOOT, which leaves the loop, is not here.  *)
(***************************************************************************)
EXTENDS Integers, Sequences

CONSTANTS
  Plain,          \* the commands that __read_and_check reads whole, less EOS
  FrameLength,    \* the bytes of a frame of each command
  PayloadSize,    \* the payloads a byte read as the size of FLASH_DATA can mean
  RingSize,       \* the bytes the receive ring holds
  IO_TIMEOUT,     \* the 1000 ms that every get_byte waits
  BL_TIMEOUT      \* the inactivity timeout, 15000 ms

Command == Plain \cup {"HANDSHAKE", "EOS", "FLASH_DATA"}
Byte == {b \in [cmd : Command, at : Nat] : b.at \in 1 .. FrameLength[b.cmd]}
FrameOf(c) == [k \in 1 .. FrameLength[c] |-> [cmd |-> c, at |-> k]]

ASSUME SessionAssumption ==
  /\ FrameLength \in [Command -> Nat \ {0, 1}]
  /\ FrameLength["FLASH_DATA"] - 4 \in PayloadSize
  /\ PayloadSize \subseteq Nat \ {0}
  /\ RingSize \in Nat \ {0}
  /\ IO_TIMEOUT \in Nat \ {0} /\ BL_TIMEOUT \in Nat
  /\ 2 * IO_TIMEOUT <= BL_TIMEOUT

VARIABLES
  ring,       \* the bytes in __usb_rx
  timer,      \* TIMER_IO and TIMER_BL
  polled,     \* how much of get_byte's loop the program did since the last tick
  quiet,      \* observed: the ticks since a byte arrived or the program was busy
  pc,         \* where the program is, see PC
  phase,      \* what it reads, see Phase
  need,       \* the bytes it has yet to read of that
  cmd,        \* the command it reads or carries out
  whole,      \* whether the bytes read are those of one frame of cmd
  state,      \* state of bl_listen
  endpoint,   \* the reply the host has not taken yet
  message     \* the reply being sent

clock == <<timer, polled, quiet>>
reading == <<phase, need, cmd, whole>>
vars == <<ring, clock, pc, reading, state, endpoint, message>>

\* "poll" and "check" are the two reads of get_byte's loop, "inactive" the
\* test of TIMER_BL once it gave up.
PC == {"poll", "check", "inactive", "work", "send"}
Phase == {"command", "body", "size", "payload", "tail"}

NoReply == [to |-> "NONE", status |-> "OK"]
Reply(status) == [to |-> cmd, status |-> status]

\* The quiet that is told apart; more counts as this much.
QuietMax == BL_TIMEOUT + IO_TIMEOUT + 2

Init ==
  /\ ring = <<>>
  /\ timer = [IO |-> IO_TIMEOUT, BL |-> 0]
  /\ polled = 0
  /\ quiet = 0
  /\ pc = "poll"
  /\ phase = "command" /\ need = 1 /\ cmd = "NONE" /\ whole = FALSE
  /\ state = "NONE"
  /\ endpoint = NoReply /\ message = NoReply

-----------------------------------------------------------------------------
\* The interrupts: a packet arrives, a millisecond passes, the host takes a reply

\* buf_put, once per byte: what the ring has no room for is dropped.
Arrive(bytes) ==
  /\ bytes # <<>>
  /\ LET room == RingSize - Len(ring)
     IN  ring' = ring \o SubSeq(bytes, 1, IF Len(bytes) < room THEN Len(bytes) ELSE room)
  /\ quiet' = 0
  /\ UNCHANGED <<timer, polled, pc, reading, state, endpoint, message>>

Busy == pc \in {"work", "send"}

\* A wrong sys_tick_handler that does not test for zero.
Tick_NoTest ==
  /\ Busy \/ polled = 2
  /\ polled' = 0
  /\ timer' = [t \in DOMAIN timer |-> timer[t] - 1]
  /\ quiet' = IF Busy THEN 0 ELSE IF quiet < QuietMax THEN quiet + 1 ELSE quiet
  /\ UNCHANGED <<ring, pc, reading, state, endpoint, message>>

\* sys_tick_handler.  The program is far faster than the clock: between two
\* ticks it is busy or goes at least once round the loop of get_byte, the two
\* steps of which polled counts.
Tick ==
  /\ Busy \/ polled = 2
  /\ polled' = 0
  /\ timer' = [t \in DOMAIN timer |-> IF timer[t] > 0 THEN timer[t] - 1 ELSE 0]
  /\ quiet' = IF Busy THEN 0 ELSE IF quiet < QuietMax THEN quiet + 1 ELSE quiet
  /\ UNCHANGED <<ring, pc, reading, state, endpoint, message>>

Take ==
  /\ endpoint # NoReply
  /\ endpoint' = NoReply
  /\ UNCHANGED <<ring, clock, pc, reading, state, message>>

-----------------------------------------------------------------------------
\* get_byte

\* The next byte is waited for, as one of count of what is being read.
Await(what, count) ==
  /\ pc' = "poll"
  /\ phase' = what /\ need' = count
  /\ timer' = [timer EXCEPT !.IO = IO_TIMEOUT]

\* The top of the loop of bl_listen.
Resume == Await("command", 1) /\ cmd' = "NONE" /\ whole' = FALSE

Answer(status) ==
  /\ pc' = "send" /\ message' = Reply(status)
  /\ whole' = FALSE
  /\ UNCHANGED <<timer, phase, need, cmd>>

\* A frame that does not arrive or check is answered, but a HANDSHAKE is passed over.
Refuse(status) ==
  IF cmd = "HANDSHAKE" THEN Resume /\ UNCHANGED message ELSE Answer(status)

\* The command is carried out.
Accept == pc' = "work" /\ whole' = TRUE /\ UNCHANGED <<timer, phase, need, cmd, message>>

\* What a byte means where a command is expected.  A byte from inside a frame
\* can mean anything, but not those of HANDSHAKE and EOS: they are constant.
Meaning(byte) ==
  IF byte.at = 1 THEN {byte.cmd}
  ELSE IF byte.cmd \in {"HANDSHAKE", "EOS"} THEN {"NONE"}
  ELSE Command \cup {"NONE"}

\* Outside a session only HANDSHAKE is read on; inside one it means nothing.
Expected == IF state = "NONE" THEN {"HANDSHAKE"} ELSE Command \ {"HANDSHAKE"}

ReadCommand(byte) ==
  /\ pc' = "poll"
  /\ timer' = [IO |-> IO_TIMEOUT, BL |-> BL_TIMEOUT]
  /\ \/ /\ Meaning(byte) \ Expected # {}
        /\ phase' = "command" /\ need' = 1 /\ cmd' = "NONE" /\ whole' = FALSE
     \/ \E c \in Meaning(byte) \cap Expected :
          /\ cmd' = c /\ whole' = (byte.at = 1)
          /\ \/ c = "FLASH_DATA" /\ phase' = "size" /\ need' = 1
             \/ c # "FLASH_DATA" /\ phase' = "body" /\ need' = FrameLength[c] - 1
  /\ UNCHANGED message

\* Whether the bytes read are those of one frame, with byte as the k-th.
Continues(byte, k) == whole /\ byte = [cmd |-> cmd, at |-> k]

\* One more byte of those whose CRC8 is checked once the last is read:
\* __read_and_check, and the EOM and CRC8 of FLASH_DATA.
ReadChecked(byte) ==
  LET good == Continues(byte, FrameLength[cmd] - need + 1)
  IN  \/ /\ need > 1
         /\ Await(phase, need - 1) /\ whole' = good /\ UNCHANGED <<cmd, message>>
      \/ /\ need = 1
         /\ IF good THEN Accept ELSE Refuse("CRCERR")

\* The size of FLASH_DATA.
ReadSize(byte) ==
  LET good == Continues(byte, 2)
  IN  \/ /\ \E n \in IF good THEN {FrameLength[cmd] - 4} ELSE PayloadSize :
              Await("payload", n)
         /\ whole' = good /\ UNCHANGED <<cmd, message>>
      \/ ~good /\ Answer("ARGERR")

\* Its payload, which no CRC of the frame covers.
ReadPayload ==
  /\ IF need > 1 THEN Await("payload", need - 1) ELSE Await("tail", 2)
  /\ UNCHANGED <<cmd, whole, message>>

\* buf_get finds a byte.
GetByte ==
  /\ pc = "poll" /\ ring # <<>>
  /\ ring' = Tail(ring)
  /\ LET byte == Head(ring)
     IN \/ phase = "command" /\ ReadCommand(byte)
        \/ phase = "size" /\ ReadSize(byte)
        \/ phase = "payload" /\ ReadPayload
        \/ phase \in {"body", "tail"} /\ ReadChecked(byte)
  /\ UNCHANGED <<polled, quiet, state, endpoint>>

\* buf_get finds none, and the timer is looked at next.
GetNothing ==
  /\ pc = "poll" /\ ring = <<>>
  /\ pc' = "check"
  /\ polled' = IF polled = 0 THEN 1 ELSE polled
  /\ UNCHANGED <<ring, timer, quiet, reading, state, endpoint, message>>

\* A wrong __read_data that waits for every byte of a payload in turn.
GiveUp_EachByte ==
  \/ /\ phase = "command"
     /\ pc' = "inactive"
     /\ UNCHANGED <<timer, reading, message>>
  \/ phase = "body" /\ Refuse("IOERR")
  \/ phase = "size" /\ Refuse("READERR")
  \/ /\ phase = "payload"
     /\ IF need > 1 THEN Await("payload", need - 1) ELSE Await("tail", 2)
     /\ UNCHANGED <<cmd, whole, message>>
  \/ phase = "tail" /\ Refuse("CRCERR")

\* A get_byte that gave up.  That of the payload is not looked at, and the two
\* bytes behind the payload are waited for in their turn.
GiveUp ==
  \/ /\ phase = "command"
     /\ pc' = "inactive"
     /\ UNCHANGED <<timer, reading, message>>
  \/ phase = "body" /\ Refuse("IOERR")
  \/ phase = "size" /\ Refuse("READERR")
  \/ phase = "payload" /\ Await("tail", 2) /\ UNCHANGED <<cmd, whole, message>>
  \/ phase = "tail" /\ Refuse("CRCERR")

CheckTimer ==
  /\ pc = "check"
  /\ \/ /\ timer.IO > 0
        /\ pc' = "poll" /\ polled' = IF polled = 0 THEN 0 ELSE 2
        /\ UNCHANGED <<timer, reading, message>>
     \/ /\ timer.IO = 0
        /\ GiveUp /\ UNCHANGED polled
  /\ UNCHANGED <<ring, quiet, state, endpoint>>

-----------------------------------------------------------------------------
\* The rest of the loop of bl_listen

\* A wrong loop that resets the inactivity timer whatever get_byte returned.
Inactive_Rearms ==
  /\ pc = "inactive"
  /\ state' = IF timer.BL = 0 THEN "NONE" ELSE state
  /\ pc' = "poll"
  /\ timer' = [IO |-> IO_TIMEOUT, BL |-> BL_TIMEOUT]
  /\ phase' = "command" /\ need' = 1 /\ cmd' = "NONE" /\ whole' = FALSE
  /\ UNCHANGED <<ring, polled, quiet, endpoint, message>>

\* The inactivity timer kills the session.
Inactive ==
  /\ pc = "inactive"
  /\ state' = IF timer.BL = 0 THEN "NONE" ELSE state
  /\ Resume
  /\ UNCHANGED <<ring, polled, quiet, endpoint, message>>

\* The command has been carried out.
Work ==
  /\ pc = "work"
  /\ Answer("OK")
  /\ UNCHANGED <<ring, polled, quiet, state, endpoint>>

\* usb_msgsend tries until the endpoint is free.  The handshake and the reply to
\* EOS go out before the state changes.
Send ==
  /\ pc = "send" /\ endpoint = NoReply
  /\ endpoint' = message /\ message' = NoReply
  /\ state' = CASE message = [to |-> "HANDSHAKE", status |-> "OK"] -> "SESSION"
                [] message = [to |-> "EOS", status |-> "OK"] -> "NONE"
                [] OTHER -> state
  /\ Resume
  /\ UNCHANGED <<ring, polled, quiet>>

Listen == GetByte \/ GetNothing \/ CheckTimer \/ Inactive \/ Work \/ Send

-----------------------------------------------------------------------------
TypeOK ==
  /\ ring \in Seq(Byte) /\ Len(ring) <= RingSize
  /\ timer \in [{"IO", "BL"} -> Nat]
  /\ polled \in 0 .. 2 /\ quiet \in 0 .. QuietMax
  /\ pc \in PC /\ phase \in Phase /\ need \in Nat \ {0}
  /\ cmd \in Command \cup {"NONE"} /\ whole \in BOOLEAN
  /\ state \in {"NONE", "SESSION"}
  /\ endpoint.to \in Command \cup {"NONE"} /\ message.to \in Command \cup {"NONE"}

\* Whatever bytes came before, two timeouts of silence bring the program back to
\* where it reads a command, with nothing left of them: the next frame is read
\* as a frame.  The tick more is the one under way.  One timeout is not enough:
\* that of a payload is ignored, and the two bytes behind it are waited for
\* again (bl.c:170-178).
SilenceRealigns == quiet > 2 * IO_TIMEOUT + 1 => phase = "command" /\ ring = <<>>

\* A host that has gone leaves no session behind: it ends at the latest one
\* get_byte after the inactivity timeout (bl.c:83-88).
SilenceEndsSession == quiet > BL_TIMEOUT + IO_TIMEOUT + 1 => state = "NONE"

=============================================================================
