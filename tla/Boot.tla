-------------------------------- MODULE Boot --------------------------------
(***************************************************************************)
(* From reset to the command loop and from there, or at once, to the        *)
(* application: main of src/main.c with bl_init, and jump_to_app of         *)
(* src/bl.c, call by call, under the interrupts that can come in between.   *)
(*                                                                         *)
(* An interrupt that is pending and enabled is handled before the thread    *)
(* takes another step.  Which command makes the loop leave is said in       *)
(* Bootloader; what arrives in it, in Session and RxRing.  The DMA          *)
(* interrupts are enabled, but nothing that main calls starts an exchange.  *)
(***************************************************************************)
EXTENDS Integers

CONSTANTS
  Delay,        \* the two waits of spi_start, 10 ms each
  LedPeriod,    \* the time between two toggles of a blinking LED
  MaxEvents     \* bound: the interrupts the USB device raises

ASSUME BootAssumption == Delay \in Nat /\ LedPeriod \in Nat /\ MaxEvents \in Nat

VARIABLES
  pc,         \* the call that the thread makes next, see PC
  board,      \* what the thread has set up, see TypeOK
  pending,    \* the interrupts that are pending
  vbus,       \* the level of the pin that says a host is attached
  timer,      \* TIMER_DELAY and TIMER_LED
  events      \* how many interrupts the USB device has raised

vars == <<pc, board, pending, vbus, timer, events>>

Peripheral == {"SPI", "USART", "GPIO", "OTGFS", "DMA"}
Irq == {"OTGFS", "DMA RX", "DMA TX"}

\* In the order of main, then in that of jump_to_app.
Start == {"nvic_enable", "clock_setup", "rcc_enable", "gpio_init", "timers_init",
          "usart_start", "spi_start", "chip in reset", "chip released",
          "usbd_start", "usb_connect"}
Jump == {"nvic_disable", "usbd_stop", "spi_stop", "usart_stop", "rcc_disable",
         "interrupt_disable", "counter_disable", "led_blink", "vectors"}
PC == Start \cup {"listen", "halt"} \cup Jump \cup {"application"}

Board ==
  [ clocks : SUBSET Peripheral,   \* the peripherals that have a clock
    on : SUBSET Peripheral,       \* the peripherals that are started
    irqs : SUBSET Irq,            \* the interrupts enabled in the NVIC
    counts : BOOLEAN,             \* SysTick counts ...
    ticks : BOOLEAN,              \* ... and interrupts
    usbd : BOOLEAN,               \* the pointer usbd has been assigned
    blink : {"NOBLINK", "RAPID"} ]    \* __state of led.c

\* Reset.
Init ==
  /\ pc = "nvic_enable"
  /\ board = [clocks |-> {}, on |-> {}, irqs |-> {}, counts |-> FALSE, ticks |-> FALSE,
              usbd |-> FALSE, blink |-> "NOBLINK"]
  /\ pending = {}
  /\ vbus \in BOOLEAN
  /\ timer = [DELAY |-> 0, LED |-> 0]
  /\ events = 0

-----------------------------------------------------------------------------
\* Interrupts

\* What can be handled: SysTick is not under the NVIC.
Taken == pending \cap (board.irqs \cup {"SYSTICK"})

Tick ==
  /\ board.counts /\ board.ticks
  /\ pending' = pending \cup {"SYSTICK"}
  /\ UNCHANGED <<pc, board, vbus, timer, events>>

\* The bus raises an interrupt of the device, connected or not, while its core
\* is started.  The host takes 100 ms to reset a device that has just come up,
\* so that none comes between the start of the core and usbd_init's return.
UsbEvent ==
  /\ events < MaxEvents
  /\ "OTGFS" \in board.on \cap board.clocks
  /\ pending' = pending \cup {"OTGFS"}
  /\ events' = events + 1
  /\ UNCHANGED <<pc, board, vbus, timer>>

\* The cable.
Plug ==
  /\ vbus' = ~vbus
  /\ UNCHANGED <<pc, board, pending, timer, events>>

\* A wrong countdown that does not test for zero.
Minus1_NoTest(n) == n - 1

Minus1(n) == IF n > 0 THEN n - 1 ELSE 0
Toggles == board.blink # "NOBLINK" /\ Minus1(timer.LED) = 0

SysTickHandler ==
  /\ "SYSTICK" \in Taken
  /\ pending' = pending \ {"SYSTICK"}
  /\ timer' = [DELAY |-> Minus1(timer.DELAY),
               LED |-> IF Toggles THEN LedPeriod ELSE Minus1(timer.LED)]
  /\ UNCHANGED <<pc, board, vbus, events>>

\* otg_fs_isr polls the device usbd points to.
OtgFsIsr ==
  /\ "OTGFS" \in Taken
  /\ pending' = pending \ {"OTGFS"}
  /\ UNCHANGED <<pc, board, vbus, timer, events>>

Handler == SysTickHandler \/ OtgFsIsr

-----------------------------------------------------------------------------
\* The thread

\* The thread makes the call from, which leaves the board as b, and goes on with
\* the call to.
Call(from, to, b) ==
  /\ Taken = {}
  /\ pc = from /\ pc' = to
  /\ board' = b
  /\ UNCHANGED <<pending, vbus, events>>

Calls(from, to, b) == Call(from, to, b) /\ UNCHANGED timer

NvicEnable == Calls("nvic_enable", "clock_setup", [board EXCEPT !.irqs = Irq])

\* The oscillator and the PLL, each waited for; no clock of a peripheral.
ClockSetup == Calls("clock_setup", "rcc_enable", board)

RccEnable == Calls("rcc_enable", "gpio_init", [board EXCEPT !.clocks = Peripheral])

GpioInit == Calls("gpio_init", "timers_init", [board EXCEPT !.on = @ \cup {"GPIO"}])

\* A wrong timers_init that does not enable the interrupt.
TimersInit_NoInterrupt ==
  Calls("timers_init", "usart_start", [board EXCEPT !.counts = TRUE])

TimersInit ==
  Calls("timers_init", "usart_start", [board EXCEPT !.counts = TRUE, !.ticks = TRUE])

UsartStart == Calls("usart_start", "spi_start", [board EXCEPT !.on = @ \cup {"USART"}])

\* spi_start resets the chip and releases it, each time waiting for a time that
\* SysTick counts, and enables the SPI.
ResetChip ==
  /\ Call("spi_start", "chip in reset", board)
  /\ timer' = [timer EXCEPT !.DELAY = Delay]

ReleaseChip ==
  /\ timer.DELAY = 0
  /\ Call("chip in reset", "chip released", board)
  /\ timer' = [timer EXCEPT !.DELAY = Delay]

SpiEnable ==
  /\ timer.DELAY = 0
  /\ Calls("chip released", "usbd_start", [board EXCEPT !.on = @ \cup {"SPI"}])

\* A wrong main that goes on when there is no device.
UsbdStart_GoesOn ==
  \/ Calls("usbd_start", "usb_connect",
           [board EXCEPT !.usbd = TRUE, !.on = @ \cup {"OTGFS"}])
  \/ Calls("usbd_start", "nvic_disable", [board EXCEPT !.blink = "RAPID"])

\* usbd_init gives a device, or none: then main blinks for ever.
UsbdStart ==
  \/ Calls("usbd_start", "usb_connect",
           [board EXCEPT !.usbd = TRUE, !.on = @ \cup {"OTGFS"}])
  \/ Calls("usbd_start", "halt", [board EXCEPT !.blink = "RAPID"])

\* The pin is looked at once.  With no host the application is started as it
\* is, blank or not.
UsbConnect == Calls("usb_connect", IF vbus THEN "listen" ELSE "nvic_disable", board)

\* bl_listen leaves its loop: BOOT has been accepted.
Leave == Calls("listen", "nvic_disable", board)

-----------------------------------------------------------------------------
\* jump_to_app

\* A wrong nvic_disable that forgets the USB device.
NvicDisable_DmaOnly ==
  Calls("nvic_disable", "usbd_stop", [board EXCEPT !.irqs = @ \ {"DMA RX", "DMA TX"}])

\* What is pending stays pending.
NvicDisable == Calls("nvic_disable", "usbd_stop", [board EXCEPT !.irqs = {}])

\* Disconnected from the bus; the core stays started, and what it still raises
\* stays pending.
UsbdStop == Calls("usbd_stop", "spi_stop", board)

SpiStop == Calls("spi_stop", "usart_stop", [board EXCEPT !.on = @ \ {"SPI"}])

UsartStop == Calls("usart_stop", "rcc_disable", [board EXCEPT !.on = @ \ {"USART"}])

RccDisable == Calls("rcc_disable", "interrupt_disable", [board EXCEPT !.clocks = {}])

InterruptDisable ==
  Calls("interrupt_disable", "counter_disable", [board EXCEPT !.ticks = FALSE])

CounterDisable == Calls("counter_disable", "led_blink", [board EXCEPT !.counts = FALSE])

\* The two arguments are the wrong way round: the mode becomes LED_AVAILABLE,
\* which is LED_STATE_NOBLINK.
LedBlink == Calls("led_blink", "vectors", [board EXCEPT !.blink = "NOBLINK"])

\* From here on interrupts are the application's.
SetVectors == Calls("vectors", "application", board)

-----------------------------------------------------------------------------
BlInit == NvicEnable \/ ClockSetup \/ RccEnable \/ GpioInit \/ TimersInit
SpiStart == ResetChip \/ ReleaseChip \/ SpiEnable
Main == BlInit \/ UsartStart \/ SpiStart \/ UsbdStart \/ UsbConnect
JumpToApp == \/ NvicDisable \/ UsbdStop \/ SpiStop \/ UsartStop \/ RccDisable
             \/ InterruptDisable \/ CounterDisable \/ LedBlink \/ SetVectors

Next == Main \/ Leave \/ JumpToApp \/ Handler \/ Tick \/ UsbEvent \/ Plug

\* SysTick counts, a handler runs as soon as it can, and since it is shorter
\* than the time to the next interrupt the thread comes to run again and again.
\* Whether BOOT ever comes is the host's business.
Fairness == WF_vars(Tick) /\ WF_vars(SysTickHandler) /\ WF_vars(OtgFsIsr)
           /\ SF_vars(Main) /\ SF_vars(JumpToApp)

Spec == Init /\ [][Next]_vars /\ Fairness

-----------------------------------------------------------------------------
TypeOK ==
  /\ pc \in PC
  /\ board \in Board
  /\ pending \subseteq {"SYSTICK", "OTGFS"}
  /\ vbus \in BOOLEAN
  /\ timer \in [DELAY : Nat, LED : Nat]
  /\ events \in Nat

\* No handler works on what is not there: the interrupt of the USB device, which
\* is enabled long before the device is, finds usbd assigned (init.c:23,
\* usb.c:190, 267), and SysTick, which runs on while jump_to_app takes the clocks
\* away, has no LED to toggle then (bl.c:56-61, timer.c:22-25).
HandlersFindTheirDevice ==
  /\ "OTGFS" \in Taken => board.usbd
  /\ "SYSTICK" \in Taken /\ Toggles => "GPIO" \in board.clocks

\* Once the vectors are those of the application nothing interrupts it but what
\* it enables itself (bl.c:50-65).
QuietHandover ==
  pc \in {"vectors", "application"} => Taken = {} /\ board.irqs = {} /\ ~board.ticks

\* Start-up does not hang: its waits end, and the program comes to listen, to an
\* application or to the blinking LED (main.c:90-119, spi.c:47-51).
StartsUp == <>(pc \in {"listen", "application", "halt"})

=============================================================================
