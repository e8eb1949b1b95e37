----------------------------- MODULE HostUpdate -----------------------------
(***************************************************************************)
(* A whole update: a host that follows the protocol of include/protocol.h  *)
(* sends an image to the command loop of Bootloader, compares the CRC the  *)
(* loop computes with that of the image and boots it.                      *)
(*                                                                         *)
(* The host is not part of this repository: it is the weakest one that the *)
(* protocol describes.  It sends one command at a time and waits for the   *)
(* reply.  When a reply is an error, does not come, or has the wrong CRC,   *)
(* it stays silent until the inactivity timer has closed the session and   *)
(* starts again from the handshake.  Disturbances, that is power failures, *)
(* commands damaged on the way, payloads that lose their end, words that   *)
(* do not program and replies the host does not wait for, are bounded by   *)
(* MaxDisturbances.                                                        *)
(***************************************************************************)
EXTENDS Bootloader

CONSTANTS
  Image,            \* the words of the application
  ImageAddress,     \* where it goes, an absolute address
  ChunkWords,       \* the words of one FLASH_DATA
  MaxDisturbances

ASSUME HostAssumption ==
  /\ Image \in Seq(Value) /\ Len(Image) > 0 /\ Image[1] # Erased
  /\ ImageAddress \in Address
  /\ ChunkWords \in 1 .. MaxPayload
  /\ MaxDisturbances \in Nat

ImageSize == Len(Image) * WordSize
ImageOffset == ImageAddress - Base

\* The image goes to whole words of the flash, and its size fits the command.
ASSUME ImageAssumption ==
  /\ ImageOffset \in Nat /\ Aligned(ImageOffset)
  /\ ImageOffset + ImageSize <= SectorBase[ChipSectors]

VARIABLES
  stage,            \* the command the host is at, "silent" or "done"
  waiting,          \* whether it waits for the reply to that command
  sent,             \* how many words of the image have been acknowledged
  sound,            \* whether every word of this session has arrived and programmed
  disturbances      \* how many disturbances there have been

host == <<stage, waiting, sent, sound>>
allvars == <<vars, host, disturbances>>

Stage == {"HANDSHAKE", "FLASH", "FLASH_DATA", "DATA_CRC", "BOOT", "silent", "done"}

ImageWord(k) == WordAt(ImageOffset) + k - 1      \* where word k of the image goes
InPlace(k) == flash[ImageWord(k)] = Image[k]
ImageInPlace == \A k \in DOMAIN Image : InPlace(k)

HostInit ==
  /\ Init
  /\ stage = "HANDSHAKE" /\ waiting = FALSE /\ sent = 0 /\ sound = TRUE
  /\ disturbances = 0

Disturb ==
  /\ disturbances < MaxDisturbances
  /\ disturbances' = disturbances + 1

-----------------------------------------------------------------------------
\* The host sends

Sends(command) ==
  /\ stage = command /\ ~waiting
  /\ waiting' = TRUE
  /\ UNCHANGED <<stage, sent, sound>>

\* The words of the next chunk, and what dbuf holds when the end of a payload
\* does not arrive: dbuf is cleared before it is read into.
Chunk == SubSeq(Image, sent + 1,
                IF sent + ChunkWords < Len(Image) THEN sent + ChunkWords ELSE Len(Image))
Cut(chunk, n) == [k \in DOMAIN chunk |-> IF k <= n THEN chunk[k] ELSE {}]

SendHandshake == Sends("HANDSHAKE") /\ Handshake /\ UNCHANGED disturbances
SendFlash == Sends("FLASH") /\ Flash(ImageAddress, ImageSize) /\ UNCHANGED disturbances
SendData == Sends("FLASH_DATA") /\ FlashData(Chunk) /\ UNCHANGED disturbances
SendCrc == Sends("DATA_CRC") /\ DataCrc(ImageAddress, ImageSize) /\ UNCHANGED disturbances
SendBoot == Sends("BOOT") /\ Boot(ImageAddress) /\ UNCHANGED disturbances

\* The end of the payload is lost, and the loop does not look (bl.c:169).
SendCutData ==
  /\ stage = "FLASH_DATA" /\ ~waiting
  /\ waiting' = TRUE /\ sound' = FALSE
  /\ UNCHANGED <<stage, sent>>
  /\ \E n \in 0 .. Len(Chunk) - 1 : FlashData(Cut(Chunk, n))
  /\ Disturb

\* The command is damaged on the way.
SendDamaged ==
  /\ Sends(stage)
  /\ \E status \in Status : Refused(stage, status) \/ (stage = "BOOT" /\ BootRefused(status))
  /\ Disturb

\* The session has been closed in the meantime, and the loop ignores what is
\* not a handshake.
SendUnheard ==
  /\ stage \in Command \ {"HANDSHAKE"}
  /\ Sends(stage)
  /\ Listening /\ state = "NONE"
  /\ UNCHANGED <<vars, disturbances>>

HostSend ==
  \/ SendHandshake \/ SendFlash \/ SendData \/ SendCrc \/ SendBoot
  \/ SendCutData \/ SendDamaged \/ SendUnheard

-----------------------------------------------------------------------------
\* The host receives, or gives up

\* What the host makes of the reply to the command it has sent.
Good ==
  /\ reply.to = stage /\ reply.status = "OK"
  /\ stage = "DATA_CRC" => reply.crc = Image

NextStage ==
  CASE stage = "HANDSHAKE"  -> "FLASH"
    [] stage = "FLASH"      -> "FLASH_DATA"
    [] stage = "FLASH_DATA" -> IF sent' < Len(Image) THEN "FLASH_DATA" ELSE "DATA_CRC"
    [] stage = "DATA_CRC"   -> "BOOT"
    [] stage = "BOOT"       -> "done"

GoSilent == stage' = "silent" /\ waiting' = FALSE /\ sent' = 0 /\ UNCHANGED sound

HostReceive ==
  /\ waiting /\ reply # NoReply
  /\ reply' = NoReply
  /\ \/ /\ Good
        /\ sent' = IF stage = "FLASH_DATA" THEN sent + Len(Chunk) ELSE sent
        /\ stage' = NextStage
        /\ waiting' = FALSE
        /\ UNCHANGED sound
     \/ ~Good /\ GoSilent
  /\ UNCHANGED <<device, pc, state, registers, loop, disturbances>>

\* No reply will come: the loop waits for a command.
HostTimeout ==
  /\ waiting /\ Listening /\ reply = NoReply
  /\ GoSilent
  /\ UNCHANGED <<vars, disturbances>>

\* The host gives up although the loop is still at work; the reply goes
\* nowhere when it comes.
HostGiveUp ==
  /\ waiting /\ ~Listening
  /\ GoSilent
  /\ Disturb
  /\ UNCHANGED vars

\* The silence has lasted: the loop has finished and closed the session, and
\* the host discards what it received meanwhile.
HostRestart ==
  /\ stage = "silent" /\ Listening /\ state = "NONE"
  /\ stage' = "HANDSHAKE"
  /\ reply' = NoReply
  /\ sound' = TRUE
  /\ UNCHANGED <<device, pc, state, registers, loop, waiting, sent, disturbances>>

\* The inactivity timer, 15 seconds of silence: the host is silent or slow.
Inactivity ==
  /\ ~waiting
  /\ KillSession
  /\ stage # "silent" => Disturb
  /\ stage = "silent" => UNCHANGED disturbances
  /\ UNCHANGED host

PowerFailure ==
  /\ Reset
  /\ Disturb
  /\ UNCHANGED host

HostStep == HostSend \/ HostReceive \/ HostTimeout \/ HostRestart

\* The word at daddr does not become what the flash should have made of it.
WordRefuses ==
  /\ pc = "program" /\ i < Len(dbuf) /\ Aligned(daddr) /\ InFlash(daddr)
  /\ flash'[WordAt(daddr)] # flash[WordAt(daddr)] \cap dbuf[i + 1]

LoopStep ==
  /\ Work
  /\ \/ ~WordRefuses /\ UNCHANGED <<sound, disturbances>>
     \/ WordRefuses /\ sound' = FALSE /\ Disturb
  /\ UNCHANGED <<stage, waiting, sent>>

HostNext == HostStep \/ HostGiveUp \/ LoopStep \/ Inactivity \/ PowerFailure

HostSpec == HostInit /\ [][HostNext]_allvars

\* The host goes on, the loop runs whenever it can, and the timer runs: each
\* is a program or a counter that nothing else can keep from its next step.
Fairness ==
  /\ WF_allvars(SendHandshake \/ SendFlash \/ SendData \/ SendCrc \/ SendBoot \/ SendUnheard)
  /\ WF_allvars(HostReceive \/ HostTimeout \/ HostRestart)
  /\ WF_allvars(LoopStep)
  /\ WF_allvars(Inactivity /\ stage = "silent")

FairHostSpec == HostSpec /\ Fairness

-----------------------------------------------------------------------------
\* Properties

\* What the host boots is the image, word for word: neither power failures in
\* the middle of an erase or a write, nor sessions that ended early, nor lost
\* payload, nor words that did not program and are acknowledged all the same
\* (bl.c:195) get past DATA_CRC (bl.c:202-229).
BootedIsImage == stage \in {"BOOT", "done"} \/ pc = "jumped" => ImageInPlace

\* Every acknowledged word of a session that has lost none is in place: the
\* chunks of one session follow each other in daddr, whatever earlier sessions,
\* lost payload and power failures left in the flash and in the registers
\* (bl.c:159-201).
AcknowledgedIsInPlace ==
  sound /\ stage \in {"FLASH_DATA", "DATA_CRC"} => \A k \in 1 .. sent : InPlace(k)

\* An update changes no word outside the sectors its image lies in, and of
\* those sectors the words outside the image only by erasing; power failures
\* included (bl.c:120-201).
ImageWords == {ImageWord(k) : k \in DOMAIN Image}
ImageSectors == {s \in 0 .. ChipSectors - 1 : WordsOf(s) \cap ImageWords # {}}
OnlyImageChanges ==
  [][\A w \in Word \ ImageWords :
       flash'[w] # flash[w] => pc = "erase" /\ \E s \in ImageSectors : w \in WordsOf(s)]_allvars

\* An update that is disturbed a bounded number of times, anywhere, ends with
\* the image booted: no state a disturbance leaves keeps the loop from a fresh
\* session or the flash from being erased and written again (bl.c:68-260).
UpdateCompletes == <>(pc = "jumped")

\* The update keeps the promise of Updater: between the moment the host takes
\* the CRC for good and the jump nothing writes the image, and the only thing
\* that jumps is the BOOT of a verified image (bl.c:202-252).
Board == INSTANCE Updater WITH
  area <- [k \in DOMAIN Image |-> flash[ImageWord(k)]],
  phase <- IF pc = "jumped" THEN "running" ELSE IF stage \in {"BOOT", "done"} THEN "verified" ELSE "open"

ImplementsUpdater == Board!UpdaterSpec

=============================================================================
