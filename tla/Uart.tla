-------------------------------- MODULE Uart --------------------------------
(***************************************************************************)
(* The interrupt-driven console driver (software/libbase/uart.c): two ring *)
(* buffers between the program and the UART's own FIFOs.  The program      *)
(* calls uart_write, uart_read and uart_sync; uart_isr interrupts it       *)
(* between any two steps at which the interrupt is enabled, and the        *)
(* hardware receives and shifts out characters all the time, within the    *)
(* interrupt handler too.                                                  *)
(*                                                                         *)
(* The UART itself is not part of the repository; it is modelled by what   *)
(* the driver relies on: an event becomes pending when the receive FIFO    *)
(* becomes non-empty and when the transmit FIFO stops being full, writing  *)
(* an event clears it, and clearing the receive event removes the          *)
(* character that has been read.                                           *)
(***************************************************************************)
EXTENDS Naturals, Sequences

CONSTANTS
  RxChar, TxChar,             \* the characters received and written
  NoChar,                     \* what is in a cell that holds no character: the
                              \* code leaves the old one there, which the
                              \* model never takes for one
  UART_RINGBUFFER_SIZE_RX, UART_RINGBUFFER_SIZE_TX,
  HwSize,                     \* depth of either FIFO of the UART
  IeValues                    \* the values the program gives to the global
                              \* interrupt enable

ASSUME UartAssumption ==
  /\ NoChar \notin RxChar \cup TxChar
  /\ UART_RINGBUFFER_SIZE_RX \in Nat /\ UART_RINGBUFFER_SIZE_RX >= 2
  /\ UART_RINGBUFFER_SIZE_TX \in Nat /\ UART_RINGBUFFER_SIZE_TX >= 2
  /\ HwSize \in Nat /\ HwSize >= 1
  /\ TRUE \in IeValues /\ IeValues \subseteq BOOLEAN

VARIABLES
  rx_buf, rx_produce, rx_consume,
  tx_buf, tx_produce, tx_consume,
  rxFifo, txFifo,             \* the FIFOs of the UART
  pending,                    \* pending events, a subset of {"rx", "tx"}
  ie, masked,                 \* global enable; UART bit of the mask cleared
  isr, stat,                  \* where uart_isr is; the events it has read
  pc, ch                      \* where the program is; the argument c

rxRing  == <<rx_buf, rx_produce, rx_consume>>
txRing  == <<tx_buf, tx_produce, tx_consume>>
hw      == <<rxFifo, txFifo, pending>>
handler == <<isr, stat>>
program == <<ie, masked, pc, ch>>
uartVars == <<rxRing, txRing, hw, handler, program>>

NextRx(i) == (i + 1) % UART_RINGBUFFER_SIZE_RX      \* & UART_RINGBUFFER_MASK_RX
NextTx(i) == (i + 1) % UART_RINGBUFFER_SIZE_TX

RxEmpty == rx_consume = rx_produce
TxEmpty == tx_consume = tx_produce
TxFull  == NextTx(tx_produce) = tx_consume
txfull  == Len(txFifo) = HwSize

UartInit ==
  /\ rx_produce = 0 /\ rx_consume = 0 /\ tx_produce = 0 /\ tx_consume = 0
  /\ rx_buf = [i \in 0 .. UART_RINGBUFFER_SIZE_RX - 1 |-> NoChar]
  /\ tx_buf = [i \in 0 .. UART_RINGBUFFER_SIZE_TX - 1 |-> NoChar]
  /\ rxFifo = << >> /\ txFifo = << >> /\ pending = {}
  /\ ie = TRUE /\ masked = FALSE
  /\ isr = "off" /\ stat = {}
  /\ pc = "idle" /\ ch = NoChar

-----------------------------------------------------------------------------
(* The hardware.                                                           *)
Receive(c) ==
  /\ Len(rxFifo) < HwSize
  /\ rxFifo' = Append(rxFifo, c)
  /\ pending' = IF rxFifo = << >> THEN pending \cup {"rx"} ELSE pending
  /\ UNCHANGED <<txFifo, rxRing, txRing, handler, program>>

ShiftOut ==
  /\ txFifo # << >>
  /\ txFifo' = Tail(txFifo)
  /\ pending' = IF txfull THEN pending \cup {"tx"} ELSE pending
  /\ UNCHANGED <<rxFifo, rxRing, txRing, handler, program>>

-----------------------------------------------------------------------------
(* uart_isr.  The processor enters it with the events that are pending.    *)
IsrEnter_one ==                       \* serves one of the two events
  /\ isr = "off" /\ ie /\ ~ masked /\ pending # {}
  /\ stat' = pending
  /\ isr' = IF "tx" \in pending THEN "tx_clear" ELSE "rx"
  /\ UNCHANGED <<rxRing, txRing, hw, program>>

IsrEnter ==
  /\ isr = "off" /\ ie /\ ~ masked /\ pending # {}
  /\ stat' = pending
  /\ isr' = IF "rx" \in pending THEN "rx" ELSE "tx_clear"
  /\ UNCHANGED <<rxRing, txRing, hw, program>>

(* One round of the receive loop: a full ring drops the character, which   *)
(* leaves the FIFO all the same.                                           *)
IsrReceive_overwrite ==
  /\ isr = "rx" /\ rxFifo # << >>
  /\ rx_buf' = [rx_buf EXCEPT ![rx_produce] = Head(rxFifo)]
  /\ rx_produce' = NextRx(rx_produce)
  /\ rxFifo' = Tail(rxFifo)
  /\ pending' = pending \ {"rx"}
  /\ UNCHANGED <<rx_consume, txFifo, txRing, handler, program>>

IsrReceive ==
  /\ isr = "rx" /\ rxFifo # << >>
  /\ IF NextRx(rx_produce) # rx_consume
     THEN /\ rx_buf' = [rx_buf EXCEPT ![rx_produce] = Head(rxFifo)]
          /\ rx_produce' = NextRx(rx_produce)
     ELSE UNCHANGED <<rx_buf, rx_produce>>
  /\ rxFifo' = Tail(rxFifo)
  /\ pending' = pending \ {"rx"}
  /\ UNCHANGED <<rx_consume, txFifo, txRing, handler, program>>

IsrReceived ==
  /\ isr = "rx" /\ rxFifo = << >>
  /\ isr' = (IF "tx" \in stat THEN "tx_clear" ELSE "off") /\ stat' = stat \cap {"tx"}
  /\ UNCHANGED <<rxRing, txRing, hw, program>>


IsrClearTx ==
  /\ isr = "tx_clear"
  /\ pending' = pending \ {"tx"}
  /\ isr' = "tx"
  /\ UNCHANGED <<rxFifo, txFifo, rxRing, txRing, stat, program>>

(* One round of the transmit loop, and its end.                            *)
IsrTransmit ==
  /\ isr = "tx" /\ ~ TxEmpty /\ ~ txfull
  /\ txFifo' = Append(txFifo, tx_buf[tx_consume])
  /\ tx_buf' = [tx_buf EXCEPT ![tx_consume] = NoChar]
  /\ tx_consume' = NextTx(tx_consume)
  /\ UNCHANGED <<tx_produce, rxFifo, pending, rxRing, handler, program>>

IsrTransmitted ==
  /\ isr = "tx" /\ (TxEmpty \/ txfull)
  /\ isr' = "off" /\ stat' = {}
  /\ UNCHANGED <<rxRing, txRing, hw, program>>

Isr == IsrEnter \/ IsrReceive \/ IsrReceived \/ IsrClearTx \/ IsrTransmit \/ IsrTransmitted

-----------------------------------------------------------------------------
(* The program; it runs while the handler does not.                        *)
At(label) == isr = "off" /\ pc = label

irq_setie(v) ==
  /\ At("idle")
  /\ ie' = v
  /\ UNCHANGED <<masked, pc, ch, rxRing, txRing, hw, handler>>

Call(label, c) ==
  /\ At("idle")
  /\ pc' = label /\ ch' = c
  /\ UNCHANGED <<ie, masked, rxRing, txRing, hw, handler>>

(* uart_write: wait for space, or give up without interrupts ...           *)
WriteWait ==
  /\ At("write")
  /\ \/ ~ TxFull /\ pc' = "mask" /\ UNCHANGED ch
     \/ TxFull /\ ~ ie /\ pc' = "idle" /\ ch' = NoChar
  /\ UNCHANGED <<ie, masked, rxRing, txRing, hw, handler>>

(* ... then, with the interrupt of the UART masked, ...                    *)
WriteMask_skip ==
  /\ At("mask")
  /\ pc' = "test"
  /\ UNCHANGED <<ie, masked, ch, rxRing, txRing, hw, handler>>

WriteMask ==
  /\ At("mask")
  /\ masked' = TRUE /\ pc' = "test"
  /\ UNCHANGED <<ie, ch, rxRing, txRing, hw, handler>>

(* ... decide between the ring and the FIFO ...                            *)
WriteTest_fifo ==                     \* only looks at the FIFO
  /\ At("test")
  /\ pc' = IF txfull THEN "enqueue" ELSE "direct"
  /\ UNCHANGED <<ie, masked, ch, rxRing, txRing, hw, handler>>

WriteTest ==
  /\ At("test")
  /\ pc' = IF ~ TxEmpty \/ txfull THEN "enqueue" ELSE "direct"
  /\ UNCHANGED <<ie, masked, ch, rxRing, txRing, hw, handler>>

WriteEnqueue ==
  /\ At("enqueue")
  /\ tx_buf' = [tx_buf EXCEPT ![tx_produce] = ch]
  /\ tx_produce' = NextTx(tx_produce)
  /\ pc' = "unmask"
  /\ UNCHANGED <<ie, masked, ch, tx_consume, rxRing, hw, handler>>

WriteDirect ==
  /\ At("direct")
  /\ txFifo' = Append(txFifo, ch)
  /\ pc' = "unmask"
  /\ UNCHANGED <<ie, masked, ch, rxFifo, pending, rxRing, txRing, handler>>

WriteUnmask ==
  /\ At("unmask")
  /\ masked' = FALSE /\ pc' = "idle" /\ ch' = NoChar
  /\ UNCHANGED <<ie, rxRing, txRing, hw, handler>>

(* uart_read: blocks with interrupts, returns 0 from an empty ring without.*)
Read ==
  /\ At("read")
  /\ \/ ~ RxEmpty /\ rx_consume' = NextRx(rx_consume) /\ rx_buf' = [rx_buf EXCEPT ![rx_consume] = NoChar]
     \/ RxEmpty /\ ~ ie /\ UNCHANGED <<rx_buf, rx_consume>>
  /\ pc' = "idle"
  /\ UNCHANGED <<rx_produce, ie, masked, ch, txRing, hw, handler>>

(* uart_sync: until the ring, not the FIFO, is empty.                      *)
Sync ==
  /\ At("sync") /\ TxEmpty
  /\ pc' = "idle"
  /\ UNCHANGED <<ie, masked, ch, rxRing, txRing, hw, handler>>

(* boot.c, the only caller of uart_sync, calls it before irq_setie(0).      *)
Calls ==
  \/ \E c \in TxChar : Call("write", c)
  \/ Call("read", NoChar)
  \/ ie /\ Call("sync", NoChar)
  \/ \E v \in IeValues : irq_setie(v)

Program ==
  WriteWait \/ WriteMask \/ WriteTest \/ WriteEnqueue \/ WriteDirect \/ WriteUnmask \/ Read \/ Sync

UartNext ==
  \/ \E c \in RxChar : Receive(c)
  \/ ShiftOut
  \/ Isr
  \/ Calls
  \/ Program

UartSpec == UartInit /\ [][UartNext]_uartVars

(* The line shifts characters out; the processor takes an interrupt as     *)
(* soon as it is enabled, and goes on with the program afterwards.         *)
UartFairSpec ==
  /\ UartSpec
  /\ WF_uartVars(ShiftOut) /\ SF_uartVars(Isr) /\ SF_uartVars(Program)

-----------------------------------------------------------------------------

(* The contents of a ring, oldest first.                                   *)
Ring(buf, produce, consume, size) ==
  [i \in 1 .. (produce + size - consume) % size |-> buf[(consume + i - 1) % size]]
RingRx == Ring(rx_buf, rx_produce, rx_consume, UART_RINGBUFFER_SIZE_RX)
RingTx == Ring(tx_buf, tx_produce, tx_consume, UART_RINGBUFFER_SIZE_TX)

(* Output is a lossless channel through ring and FIFO: no character        *)
(* overtakes another one, whatever the handler does meanwhile.             *)
Output == INSTANCE Channel WITH
  Char <- TxChar, Capacity <- 0, Lossless <- TRUE, queue <- txFifo \o RingTx
OutputIsChannel == Output!ChannelSpec

(* Input is a channel through FIFO and ring that loses characters only     *)
(* when the ring is full.                                                  *)
Input == INSTANCE Channel WITH
  Char <- RxChar, Capacity <- UART_RINGBUFFER_SIZE_RX - 1, Lossless <- FALSE,
  queue <- RingRx \o rxFifo
InputIsChannel == Input!ChannelSpec

(* uart_write and uart_sync return; with them the console never hangs.     *)
(* Only input that arrives as fast as the handler takes it, so that its    *)
(* loop never ends, can keep them from it.                                 *)
WriteReturns ==
  []<>(isr = "off") => ((pc \in {"write", "sync"} /\ ie) ~> pc = "idle")

(* With interrupts enabled, the handler always empties the FIFO or at      *)
(* least goes on taking characters from it: reception never stops.         *)
InputIsServed ==
  []<>(rxFifo = << >> \/ ~ ie) \/ []<><<Len(rxFifo') < Len(rxFifo)>>_uartVars
=============================================================================
