------------------------------- MODULE At45db -------------------------------
(***************************************************************************)
(* The driver of the external flash, src/at45db.c, over the SPI exchange   *)
(* of SpiDma, with the chip on the other end.                              *)
(*                                                                         *)
(* The driver is made of parts, each with a script of what it does on the  *)
(* bus; where a script ends the code goes on with another part or returns. *)
(* The chip is not in the repository: it does what the driver takes it to   *)
(* do.  It begins a command when it is deselected, is busy for some time   *)
(* and answers nothing but the status meanwhile.                           *)
(***************************************************************************)
EXTENDS SpiDma

CONSTANTS
  Pages,      \* pg_num
  Block,      \* block_sz, 1 << pg_shifts
  Contents,   \* what the chip can hold at first
  Call        \* what the callers ask for

ByteSpace == 256    \* the values of a byte
Blank == 255
Page == [1 .. Block -> 0 .. Blank]
Erased == [k \in 1 .. Block |-> Blank]

\* A read names bytes of the chip, no more than a stream can count; an erase and
\* a write name pages of it and what these are to hold.
Reads(c) ==
  /\ c \in [fn : {"read"}, blocks : BOOLEAN, off : 0 .. Pages * Block - 1, n : 0 .. CountSpace]
  /\ c.off + c.n <= Pages * Block
Erases(c) ==
  /\ c \in [fn : {"erase"}, whole : BOOLEAN, page : Nat, n : Nat, content : {Erased}]
  /\ c.page + c.n <= Pages
  /\ c.whole => c.page = 0 /\ c.n = Pages
Writes(c) ==
  /\ c \in [fn : {"write"}, page : Nat, n : Nat, content : Page]
  /\ c.page + c.n <= Pages

ASSUME CallAssumption ==
  \A c \in Call : c = [fn |-> "start"] \/ Reads(c) \/ Erases(c) \/ Writes(c)

\* An address has three bytes, and a page and a command of five bytes are less
\* than a stream can count.
ASSUME ChipAssumption ==
  /\ Pages \in Nat \ {0} /\ Block \in Nat \ {0} /\ Pages * Block <= ByteSpace * ByteSpace * ByteSpace
  /\ Block < CountSpace /\ 5 < CountSpace
  /\ Contents \subseteq [0 .. Pages - 1 -> Page]

VARIABLES
  fitted,     \* whether the chip is the one the driver knows
  mem,        \* its pages
  binary,     \* whether its pages have a power of two of bytes
  job,        \* what the command in progress makes of mem and binary, or NoJob
  selected,   \* the level of NSS, low or high
  got,        \* the bytes the chip has got since it was selected
  part,       \* the part of the driver that runs, or "none"
  step,       \* the step of its script that comes next
  page,       \* the page the loop of at45db_bwrite and at45db_erase is at, sblock
  left,       \* how many it has still to begin, pgs
  call,       \* the call in progress, or the last one
  answer,     \* what it has read
  status,     \* the status register as last read
  ret,        \* what the last call returned
  sure        \* observed: whether the chip was ready when the call came

chip == <<fitted, mem, binary, job, selected, got>>
control == <<part, step, page, left>>
driver == <<control, call, answer, status, ret, sure>>
vars == <<spi, chip, driver>>

RESUME == \hAB
RDDEVID == \h9F
RDSR == \hD7
RDARRAYHF == \h0B
PGERASE == \h81
MNTHRUBF1 == \h82
PGSIZE == << \h3D, \h2A, \h80, \hA6 >>
CHIPERASE == << \hC7, \h94, \h80, \h9A >>
DevId == << \h1F, \h28, 0 >>

NoJob == <<>>
Noise == 256        \* what a chip that does not answer seems to say
Busy == job # NoJob

-----------------------------------------------------------------------------
\* The chip

\* The address behind the first byte.
Addressed == (got[2] * ByteSpace + got[3]) * ByteSpace + got[4]

\* What it answers to the next byte.
Answer ==
  LET n == Len(got)
  IN  IF n = 0 THEN Noise
      ELSE IF got[1] = RDSR THEN <<~Busy, binary>>
      ELSE IF Busy THEN Noise
      ELSE IF got[1] = RDDEVID THEN IF fitted /\ n <= 3 THEN DevId[n] ELSE Noise
      ELSE IF got[1] = RDARRAYHF /\ n >= 5 /\ binary
           THEN LET byte == (Addressed + n - 5) % (Pages * Block)
                IN  mem[byte \div Block][1 + (byte % Block)]
      ELSE Noise

\* The command it has got, as a job.
Ordered ==
  IF got = PGSIZE THEN [mem |-> mem, binary |-> TRUE]
  ELSE IF got = CHIPERASE
       THEN [mem |-> [p \in DOMAIN mem |-> Erased], binary |-> binary]
  ELSE IF Len(got) = 4 /\ got[1] = PGERASE
       THEN [mem |-> [mem EXCEPT ![Addressed \div Block] = Erased], binary |-> binary]
  ELSE IF Len(got) = 4 + Block /\ got[1] = MNTHRUBF1
       THEN [mem |-> [mem EXCEPT ![Addressed \div Block] = SubSeq(got, 5, 4 + Block)],
             binary |-> binary]
  ELSE NoJob

ChipReady ==
  /\ Busy
  /\ mem' = job.mem /\ binary' = job.binary /\ job' = NoJob
  /\ UNCHANGED <<spi, fitted, selected, got, driver>>

-----------------------------------------------------------------------------
\* Scripts

Select == [op |-> "select"]
Deselect == [op |-> "deselect"]
Xfer(byte) == [op |-> "xfer", byte |-> byte]
Send(bytes) == [op |-> "exchange", bytes |-> bytes, into |-> "nothing"]
Receive(n) == [op |-> "exchange", bytes |-> [k \in 1 .. n |-> 255], into |-> "answer"]

\* The bytes of an address, as at45db_read, __at45db_page_write and
\* __at45db_page_erase take it apart.
High(off) == (off \div (ByteSpace * ByteSpace)) % ByteSpace
Middle(off) == (off \div ByteSpace) % ByteSpace
Low(off) == off % ByteSpace

AtPage(code, pg) == <<code, High(pg * Block), Middle(pg * Block), Low(pg * Block)>>
AtByte(code, off) == <<code, High(off), Middle(off), Low(off), 0>>

\* at45db_start up to the test of the identification
Identify ==
  <<Deselect, Select, Xfer(RESUME), Deselect, Select, Xfer(RDDEVID), Receive(3), Deselect>>

\* __at45db_rdsr
Rdsr == <<Select, Xfer(RDSR), Xfer(255), Deselect>>

Reprogram == <<Select, Send(PGSIZE), Deselect>>

ChipErase == <<Select, Send(CHIPERASE), Deselect>>

PageErase(pg) == <<Select, Send(AtPage(PGERASE, pg)), Deselect>>

PageWrite(pg, content) == <<Select, Send(AtPage(MNTHRUBF1, pg)), Send(content), Deselect>>

Read(off, n) == <<Select, Send(AtByte(RDARRAYHF, off)), Receive(n), Deselect>>

Commands == {"chip erase", "page erase", "page write"}
Parts == Commands \cup {"none", "identify", "bsy", "reprogram", "read", "rounds"}

\* at45db_bwrite gives the same block to every page, because buf is not
\* advanced.
ScriptOf(p, c, pg) ==
  CASE p = "identify" -> Identify
    [] p = "bsy" -> Rdsr
    [] p = "reprogram" -> Reprogram
    [] p = "read" -> Read(c.off, c.n)
    [] p = "chip erase" -> ChipErase
    [] p = "page erase" -> PageErase(pg)
    [] p = "page write" -> PageWrite(pg, c.content)
    [] OTHER -> <<>>

Script == ScriptOf(part, call, page)

-----------------------------------------------------------------------------
\* The thread on the bus

Init ==
  /\ SpiInit
  /\ fitted \in BOOLEAN
  /\ mem \in Contents /\ binary \in BOOLEAN /\ job = NoJob
  /\ selected = FALSE /\ got = <<>>
  /\ part = "none" /\ step = 1 /\ page = 0 /\ left = 0
  /\ call = [fn |-> "start"] /\ answer = <<>>
  /\ status = <<TRUE, FALSE>> /\ ret = -1 /\ sure = TRUE

Does(name) ==
  /\ Thread /\ at = "out"
  /\ step \in DOMAIN Script /\ Script[step].op = name

Advance == step' = step + 1 /\ UNCHANGED <<part, page, left>>

\* spi_select
DoSelect ==
  /\ Does("select")
  /\ selected' = TRUE /\ got' = <<>>
  /\ Advance
  /\ UNCHANGED <<spi, fitted, mem, binary, job, call, answer, status, ret, sure>>

\* Deselected, the chip begins what it has got, unless it is at work.
DoDeselect ==
  /\ Does("deselect")
  /\ selected' = FALSE /\ got' = <<>>
  /\ job' = IF selected /\ ~Busy /\ fitted THEN Ordered ELSE job
  /\ Advance
  /\ UNCHANGED <<spi, fitted, mem, binary, call, answer, status, ret, sure>>

\* spi_xfer of libopencm3 waits for the answer to its byte.
DoXfer ==
  /\ Does("xfer")
  /\ got' = Append(got, Script[step].byte)
  /\ status' = Answer
  /\ Advance
  /\ UNCHANGED <<spi, fitted, mem, binary, job, selected, call, answer, ret, sure>>

DoExchange ==
  /\ Does("exchange")
  /\ Exchange(Script[step].bytes)
  /\ UNCHANGED <<chip, driver>>

\* The exchange is over and spi_exchange_dma returns.
DoReturnExchange ==
  /\ RxClear
  /\ Advance
  /\ answer' = IF Script[step].into = "answer" THEN received ELSE answer
  /\ UNCHANGED <<chip, call, status, ret, sure>>

DoRest(a) == a /\ UNCHANGED <<chip, driver>>

\* The stream hands the chip its byte.
Shift ==
  /\ TxMove(Answer)
  /\ got' = Append(got, Head(sending))
  /\ UNCHANGED <<fitted, mem, binary, job, selected, driver>>

-----------------------------------------------------------------------------
\* The thread between the scripts

To(p) == part' = p /\ step' = 1
GoTo(p) == To(p) /\ UNCHANGED <<page, left, ret>>
Returns(value) == To("none") /\ ret' = value /\ UNCHANGED <<page, left>>

\* The code goes on where the script of a part ends.
Leaves(p) ==
  /\ Thread /\ at = "out" /\ part = p /\ step \notin DOMAIN Script
  /\ UNCHANGED <<spi, chip, call, answer, status, sure>>

Looped(c) == c.fn = "write" \/ (c.fn = "erase" /\ ~c.whole)

\* A caller asks for something: nothing but the start before the driver has been
\* started.
Ask(c) ==
  /\ Thread /\ part = "none"
  /\ c.fn # "start" => ret # -1
  /\ call' = c /\ sure' = ~Busy
  /\ To(CASE c.fn = "start" -> "identify"
          [] c.fn = "read" -> "read"
          [] Looped(c) -> "rounds"
          [] OTHER -> "chip erase")
  /\ page' = (IF Looped(c) THEN c.page ELSE 0)
  /\ left' = (IF Looped(c) THEN c.n ELSE 0)
  /\ UNCHANGED <<spi, chip, answer, status, ret>>

\* at45db_start goes on only with the chip it knows.
IsKnown == Leaves("identify") /\ IF answer = DevId THEN GoTo("bsy") ELSE Returns(-1)

\* __at45db_bsy: while the chip is busy, 10 ms and the status once more.
IsBusy == Leaves("bsy") /\ ~status[1] /\ GoTo("bsy")

\* A wrong one that reads the status once and takes the chip for ready.
IsReady_Once == Leaves("bsy")

IsReady == Leaves("bsy") /\ status[1]

\* at45db_start has the page size changed where it is not a power of two and does
\* not wait for it.
IsBinary == IsReady /\ call.fn = "start" /\ IF status[2] THEN Returns(0) ELSE GoTo("reprogram")
StartReturns == Leaves("reprogram") /\ Returns(0)

\* A wrong at45db_chip_erase, at45db_page_erase and at45db_page_write that do not
\* wait for the chip.
Commanded_NoWait ==
  /\ \E p \in Commands : Leaves(p)
  /\ IF Looped(call) THEN To("rounds") /\ page' = page + 1 /\ UNCHANGED <<left, ret>> ELSE Returns(0)

Commanded == (\E p \in Commands : Leaves(p)) /\ GoTo("bsy")
ChipEraseReturns == IsReady /\ call.fn = "erase" /\ call.whole /\ Returns(0)

\* The loops of at45db_bwrite and at45db_erase
PageDone ==
  /\ IsReady /\ Looped(call)
  /\ To("rounds") /\ page' = page + 1 /\ UNCHANGED <<left, ret>>

NextPage ==
  /\ Leaves("rounds") /\ left > 0
  /\ To(IF call.fn = "write" THEN "page write" ELSE "page erase")
  /\ left' = left - 1 /\ UNCHANGED <<page, ret>>

LoopReturns == Leaves("rounds") /\ left = 0 /\ Returns(call.n)

\* at45db_bread is a read of whole pages.
ReadReturns == Leaves("read") /\ Returns(IF call.blocks THEN call.n \div Block ELSE call.n)

InExchange == SetsUp \/ TxWait \/ TxClear \/ RxWait

OnTheBus ==
  \/ DoSelect \/ DoDeselect \/ DoXfer \/ DoExchange \/ DoReturnExchange \/ DoRest(InExchange)

Between ==
  \/ IsKnown \/ IsBusy \/ IsBinary \/ StartReturns
  \/ Commanded \/ ChipEraseReturns \/ PageDone \/ NextPage \/ LoopReturns \/ ReadReturns

ThreadStep == OnTheBus \/ Between

Streams == Shift \/ DoRest(RxMove) \/ DoRest(Overrun)
Isr == DoRest(RxIsr) \/ DoRest(TxIsr)

Next ==
  \/ \E c \in Call : Ask(c)
  \/ ThreadStep \/ Streams \/ Isr \/ ChipReady
  \/ DoRest(TransferError)

Spec == Init /\ [][Next]_vars

\* The thread and the streams go on, the handlers run when they are called for,
\* and every command of the chip takes an end.
Fairness ==
  /\ WF_vars(ThreadStep) /\ WF_vars(Streams) /\ WF_vars(Isr) /\ WF_vars(ChipReady)

FairSpec == Spec /\ Fairness

-----------------------------------------------------------------------------
\* Properties

TypeOK ==
  /\ SpiTypeOK
  /\ mem \in [0 .. Pages - 1 -> Page]
  /\ fitted \in BOOLEAN /\ binary \in BOOLEAN /\ selected \in BOOLEAN /\ sure \in BOOLEAN
  /\ part \in Parts /\ step \in 1 .. Len(Script) + 1 /\ page \in 0 .. Pages /\ left \in 0 .. Pages

\* The whole of the driver, over the streams and the interrupts, is a store of
\* pages: reads deliver what is stored, erases and writes are done when they
\* return, whatever came before (at45db.c:100-172, 196-233).  Where the chip was
\* still busy when the call came nothing is promised: OnlyReprogrammingGoesOn
\* says when that can be.
Store == INSTANCE BlockStore WITH store <- mem, open <- part # "none"

ImplementsBlockStore == Store!StoreSpec

\* Nothing a call has begun in the chip is still under way when it returns, but
\* the reprogramming of the page size, which at45db_start does not wait for
\* (at45db.c:80-85, 113, 213, 232).
OnlyReprogrammingGoesOn == part = "none" /\ Busy => job.binary # binary

\* A call returns, unless a transfer fails or it is a read of no byte or of a
\* multiple of 2^16: a stream with a count of zero moves nothing (spi.c:208) and
\* __dma_rx_wait waits for it for ever (spi.c:187-191).
Hopeless == call.fn = "read" /\ call.n % CountSpace = 0
CallsReturn == (part # "none" /\ ~Hopeless) ~> (part = "none" \/ errors > 0)

=============================================================================
