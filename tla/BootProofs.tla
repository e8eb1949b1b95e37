----------------------------- MODULE BootProofs -----------------------------
(***************************************************************************)
(* Start-up and hand-over, for every length of the waits and every number   *)
(* of interrupts.                                                           *)
(*                                                                         *)
(* The invariant says, for the stretch of main that a step lies in, what     *)
(* has been started and what has been turned off by then.  Neither property *)
(* is inductive without it: what a handler finds depends on what the thread *)
(* has done before.                                                         *)
(***************************************************************************)
EXTENDS Boot, TLAPS

\* The stretches: with clocks, behind nvic_disable, behind interrupt_disable.
Clocked == (Start \ {"nvic_enable", "clock_setup", "rcc_enable"})
             \cup {"halt", "listen"} \cup {"nvic_disable", "usbd_stop"}
Disabled == (Jump \ {"nvic_disable"}) \cup {"application"}
Ticked == {"counter_disable", "led_blink", "vectors", "application"}

\* The device raises interrupts only once usbd points to it.
DeviceInv == "OTGFS" \in board.on \cup pending => board.usbd

\* The LED blinks only where the program has stopped for want of a device.
LedInv ==
  /\ board.blink = "RAPID" => pc = "halt"
  /\ pc \in Clocked => "GPIO" \in board.clocks

\* What has been turned off stays off.
QuietInv ==
  /\ pc \in Disabled => board.irqs = {}
  /\ pc \in Ticked => ~board.ticks /\ "SYSTICK" \notin pending

IInv == TypeOK /\ DeviceInv /\ LedInv /\ QuietInv

\* Reset establishes the invariant.
LEMMA InitIInv == Init => IInv
<1> SUFFICES ASSUME Init PROVE IInv
  OBVIOUS
<1>1. TypeOK
  BY DEF Init, TypeOK, Board, Peripheral, Irq, PC, Start
<1>2. DeviceInv
  BY DEF Init, DeviceInv
<1>3. LedInv /\ QuietInv
  BY DEF Init, LedInv, QuietInv, Jump, Start, Clocked, Disabled, Ticked
<1> QED BY <1>1, <1>2, <1>3 DEF IInv

\* A tick can be counted down.
LEMMA Minus1Nat == \A n \in Nat : Minus1(n) \in Nat
BY DEF Minus1

\* Every call of main and of jump_to_app, and bl_listen's leaving, keeps it.
LEMMA ThreadIInv ==
  ASSUME IInv, Main \/ Leave \/ JumpToApp
  PROVE  IInv'
<1> USE DEF IInv, TypeOK, DeviceInv, LedInv, QuietInv, PC, Start, Jump, Clocked,
            Disabled, Ticked, Peripheral, Irq, Board, Call, Calls, Taken
<1>1. CASE NvicEnable BY <1>1 DEF NvicEnable
<1>2. CASE ClockSetup BY <1>2 DEF ClockSetup
<1>3. CASE RccEnable BY <1>3 DEF RccEnable
<1>4. CASE GpioInit BY <1>4 DEF GpioInit
<1>5. CASE TimersInit BY <1>5 DEF TimersInit
<1>6. CASE UsartStart BY <1>6 DEF UsartStart
<1>7. CASE ResetChip BY <1>7, BootAssumption DEF ResetChip
<1>8. CASE ReleaseChip BY <1>8, BootAssumption DEF ReleaseChip
<1>9. CASE SpiEnable BY <1>9 DEF SpiEnable
<1>10. CASE UsbdStart
  <2>1. CASE Calls("usbd_start", "usb_connect",
                   [board EXCEPT !.usbd = TRUE, !.on = @ \cup {"OTGFS"}])
    <3>1. /\ board' \in Board /\ board'.usbd = TRUE
          /\ board'.blink = board.blink /\ board'.clocks = board.clocks
      BY <2>1
    <3> QED BY <2>1, <3>1
  <2>2. CASE Calls("usbd_start", "halt", [board EXCEPT !.blink = "RAPID"])
    BY <2>2
  <2> QED BY <1>10, <2>1, <2>2 DEF UsbdStart
<1>11. CASE UsbConnect BY <1>11 DEF UsbConnect
<1>12. CASE Leave BY <1>12 DEF Leave
<1>13. CASE NvicDisable BY <1>13 DEF NvicDisable
<1>14. CASE UsbdStop BY <1>14 DEF UsbdStop
<1>15. CASE SpiStop BY <1>15 DEF SpiStop
<1>16. CASE UsartStop BY <1>16 DEF UsartStop
<1>17. CASE RccDisable BY <1>17 DEF RccDisable
<1>18. CASE InterruptDisable BY <1>18 DEF InterruptDisable
<1>19. CASE CounterDisable BY <1>19 DEF CounterDisable
<1>20. CASE LedBlink BY <1>20 DEF LedBlink
<1>21. CASE SetVectors BY <1>21 DEF SetVectors
<1> QED
  BY <1>1, <1>2, <1>3, <1>4, <1>5, <1>6, <1>7, <1>8, <1>9, <1>10, <1>11, <1>12,
     <1>13, <1>14, <1>15, <1>16, <1>17, <1>18, <1>19, <1>20, <1>21
  DEF Main, BlInit, SpiStart, JumpToApp

\* So does what happens beside the thread.
LEMMA InterruptIInv ==
  ASSUME IInv, Handler \/ Tick \/ UsbEvent \/ Plug
  PROVE  IInv'
<1> USE DEF IInv, TypeOK, DeviceInv, LedInv, QuietInv
<1>1. CASE SysTickHandler
  <2>1. timer' \in [DELAY : Nat, LED : Nat]
    BY <1>1, Minus1Nat, BootAssumption DEF SysTickHandler
  <2> QED BY <1>1, <2>1 DEF SysTickHandler
<1>2. CASE OtgFsIsr BY <1>2 DEF OtgFsIsr
<1>3. CASE Tick BY <1>3 DEF Tick
<1>4. CASE UsbEvent BY <1>4 DEF UsbEvent
<1>5. CASE Plug BY <1>5 DEF Plug
<1> QED BY <1>1, <1>2, <1>3, <1>4, <1>5 DEF Handler

\* Whatever comes in between, the invariant holds from reset on.
THEOREM BootInvariance == Spec => []IInv
<1>1. IInv /\ [Next]_vars => IInv'
  <2> SUFFICES ASSUME IInv, [Next]_vars PROVE IInv'
    OBVIOUS
  <2>1. CASE UNCHANGED vars
    BY <2>1 DEF vars, IInv, TypeOK, DeviceInv, LedInv, QuietInv
  <2>2. CASE Next
    BY <2>2, ThreadIInv, InterruptIInv DEF Next
  <2> QED BY <2>1, <2>2
<1> QED BY InitIInv, <1>1, PTL DEF Spec

\* The type invariant of Boot.
THEOREM BootTypeCorrect == Spec => []TypeOK
<1>1. IInv => TypeOK
  BY DEF IInv
<1> QED BY <1>1, BootInvariance, PTL

\* No handler that runs between reset and the application works on a device that
\* is not there (init.c:23, usb.c:190, 267, timer.c:22, bl.c:56-61).
THEOREM HandlersAlwaysFindTheirDevice == Spec => []HandlersFindTheirDevice
<1>1. IInv => HandlersFindTheirDevice
  BY DEF IInv, TypeOK, Board, DeviceInv, LedInv, HandlersFindTheirDevice, Taken, Toggles, Clocked
<1> QED BY <1>1, BootInvariance, PTL

\* The application is entered with every interrupt of the bootloader off, however
\* late one has come (bl.c:50-65).
THEOREM HandoverAlwaysQuiet == Spec => []QuietHandover
<1>1. IInv => QuietHandover
  BY DEF IInv, QuietInv, QuietHandover, Taken, Disabled, Ticked, Jump
<1> QED BY <1>1, BootInvariance, PTL

=============================================================================
