------------------------------ MODULE AnyHost ------------------------------
(***************************************************************************)
(* The command loop of Bootloader under a host that sends any command at    *)
(* any time, in and out of order, and a supply that can fail at any step.   *)
(***************************************************************************)
EXTENDS Bootloader

CONSTANTS
  HostAddress,    \* the addresses commands carry
  HostSize,       \* the sizes commands carry
  HostSector      \* the sector numbers ERASE carries

ASSUME CommandAssumption ==
  /\ HostAddress \subseteq Address
  /\ HostSize \subseteq Address
  /\ HostSector \subseteq Nat

Payload == UNION {[1 .. n -> Value] : n \in 1 .. MaxPayload}

Session == Handshake \/ KillSession \/ Eos
Refusal ==
  \/ \E command \in Command, status \in Status : Refused(command, status)
  \/ \E status \in Status : BootRefused(status)
Request ==
  \/ \E sector \in HostSector : Erase(sector)
  \/ \E address \in HostAddress, size \in HostSize : Flash(address, size)
  \/ \E payload \in Payload : FlashData(payload)
  \/ \E address \in HostAddress, size \in HostSize : DataCrc(address, size)
  \/ \E address \in HostAddress : Boot(address)

Next == Session \/ Refusal \/ Request \/ Work \/ Reset

Spec == Init /\ [][Next]_vars

-----------------------------------------------------------------------------
TypeOK ==
  /\ flash \in [Word -> Value]
  /\ locked \in BOOLEAN
  /\ pc \in PC
  /\ state \in {"NONE", "SESSION"}
  /\ daddr \in Address /\ dsz \in Address /\ addr \in Address
  /\ cmd \in Command \cup {NoCommand}
  /\ i \in Nat /\ last \in Nat
  /\ dbuf \in {<<>>} \cup Payload
  /\ reply.to \in Command \cup {NoCommand} /\ reply.status \in Status

\* A session starts from scratch: whatever ended the one before, its addresses
\* and sizes are gone before the next handshake is answered, so that the first
\* FLASH of a session or-s into zeros (bl.c:79-81, 87-88, 250-257).
SessionStartsClean == state = "NONE" => daddr = 0 /\ dsz = 0 /\ addr = 0

\* The flash controller is unlocked only while a loop writes: it is locked
\* whenever a command is awaited and when an application is started, however
\* the loop was left (bl.c:113-115, 142-146, 180-192).
UnlockedOnlyWhileWriting == ~locked => pc \in {"erase", "program", "astray"}

\* The sectors from BL_FLASH_SECTORS on are never erased, although images are
\* accepted into them: a bit cleared there stays cleared (flash.c:64, bl.c:136).
BeyondIsWriteOnce ==
  [][\A s \in FlashSectors .. ChipSectors - 1 :
       \A w \in WordsOf(s) : flash'[w] \subseteq flash[w]]_vars

=============================================================================
