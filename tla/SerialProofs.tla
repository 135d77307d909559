---------------------------- MODULE SerialProofs ----------------------------
(***************************************************************************)
(* What goes over the serial line: proofs about Uart, the console driver,  *)
(* and about ScoreUplink, the way of a result from there to the database.  *)
(***************************************************************************)
EXTENDS Uart, ScoreUplink, SequencesExt, TLAPS

(***************************************************************************)
(* The console driver is a channel in both directions, for every size of   *)
(* its rings and of the FIFOs of the UART: proofs about Uart.              *)
(*                                                                         *)
(* The abstract queue is a FIFO and a ring end to end, so that a character *)
(* on its way from the one to the other does not move in it.  The order    *)
(* survives the shortcut of uart_write, which puts a character into the    *)
(* FIFO directly, because between its test and that write the handler is   *)
(* shut out and the ring is empty: that is what WriteInv records.          *)
(***************************************************************************)

SizeTx == UART_RINGBUFFER_SIZE_TX
SizeRx == UART_RINGBUFFER_SIZE_RX

(* A ring of at least two cells whose characters are in S.                 *)
IsRing(buf, produce, consume, size, S) ==
  /\ produce \in 0 .. size - 1 /\ consume \in 0 .. size - 1
  /\ buf \in [0 .. size - 1 -> S \cup {NoChar}]
  /\ Ring(buf, produce, consume, size) \in Seq(S)

Masking == {"test", "enqueue", "direct", "unmask"}

(* What uart_write relies on from its test to its last step: the place for *)
(* the character stays free while the interrupt of the UART is masked, and *)
(* a ring found empty stays empty.                                         *)
WriteInv ==
  /\ isr \in {"off", "rx", "tx_clear", "tx"}
  /\ pc \in {"mask", "enqueue", "direct", "test"} => ch \in TxChar
  /\ pc = "write" => ch \in TxChar
  /\ pc \in {"mask", "test", "enqueue"} => ~ TxFull
  /\ pc \in Masking => masked /\ isr = "off"
  /\ pc = "direct" => TxEmpty

TxInv ==
  /\ IsRing(tx_buf, tx_produce, tx_consume, SizeTx, TxChar)
  /\ txFifo \in Seq(TxChar)
  /\ WriteInv

RxInv ==
  /\ IsRing(rx_buf, rx_produce, rx_consume, SizeRx, RxChar)
  /\ rxFifo \in Seq(RxChar)

-----------------------------------------------------------------------------
(* How many characters a ring holds: none when the indices are equal, and  *)
(* all but one of its cells when the next one to write is the one to read. *)
LEMMA RingLength ==
  ASSUME NEW N \in Nat, N >= 2, NEW S, NEW buf, NEW p, NEW c, IsRing(buf, p, c, N, S)
  PROVE  /\ Ring(buf, p, c, N) \in Seq(S)
         /\ Len(Ring(buf, p, c, N)) = (IF p < c THEN p + N - c ELSE p - c)
         /\ Ring(buf, p, c, N) = << >> <=> p = c
         /\ (p + 1) % N = c <=> Len(Ring(buf, p, c, N)) = N - 1
<1>1. p \in 0 .. N - 1 /\ c \in 0 .. N - 1 /\ Ring(buf, p, c, N) \in Seq(S)
  BY DEF IsRing
<1>2. (p + N - c) % N = IF p < c THEN p + N - c ELSE p - c
  BY <1>1
<1>3. Len(Ring(buf, p, c, N)) = (IF p < c THEN p + N - c ELSE p - c)
  BY <1>1, <1>2 DEF Ring
<1>4. (p + 1) % N = IF p + 1 < N THEN p + 1 ELSE 0
  BY <1>1
<1>5. QED
  BY <1>1, <1>3, <1>4

(* Writing the cell at `produce` and advancing it appends a character.     *)
LEMMA RingPush ==
  ASSUME NEW N \in Nat, N >= 2, NEW S, NEW buf, NEW p, NEW c, IsRing(buf, p, c, N, S),
         NEW x \in S, (p + 1) % N # c
  PROVE  /\ Ring([buf EXCEPT ![p] = x], (p + 1) % N, c, N) = Append(Ring(buf, p, c, N), x)
         /\ IsRing([buf EXCEPT ![p] = x], (p + 1) % N, c, N, S)
<1> DEFINE q == (p + 1) % N
           n == (p + N - c) % N
           nbuf == [buf EXCEPT ![p] = x]
<1>1. p \in 0 .. N - 1 /\ c \in 0 .. N - 1 /\ buf \in [0 .. N - 1 -> S \cup {NoChar}]
  BY DEF IsRing
<1>2. /\ q = IF p + 1 < N THEN p + 1 ELSE 0
      /\ n = IF p < c THEN p + N - c ELSE p - c
  BY <1>1
<1> HIDE DEF q, n
<1>3. q \in 0 .. N - 1 /\ n \in 0 .. N - 2 /\ (q + N - c) % N = n + 1
  <2>1. q \in 0 .. N - 1 /\ n \in 0 .. N - 2
    BY <1>1, <1>2 DEF q
  <2>2. (q + N - c) % N = IF q < c THEN q + N - c ELSE q - c
    BY <1>1, <2>1
  <2>3. QED
    BY <1>1, <1>2, <2>1, <2>2, SMTT(20) DEF q
<1>4. /\ (c + (n + 1) - 1) % N = p
      /\ \A i \in 1 .. n : (c + i - 1) % N \in 0 .. N - 1 /\ (c + i - 1) % N # p
  <2>1. c + (n + 1) - 1 = c + n
    BY <1>1, <1>3
  <2>2. (c + n) % N = IF c + n < N THEN c + n ELSE c + n - N
    BY <1>1, <1>3
  <2>3. (c + (n + 1) - 1) % N = p
    BY <1>1, <1>2, <1>3, <2>1, <2>2
  <2>4. ASSUME NEW i \in 1 .. n
        PROVE  (c + i - 1) % N \in 0 .. N - 1 /\ (c + i - 1) % N # p
    <3>1. (c + i - 1) % N = IF c + i - 1 < N THEN c + i - 1 ELSE c + i - 1 - N
      BY <1>1, <1>3
    <3>2. QED
      BY <1>1, <1>2, <1>3, <3>1
  <2>5. QED
    BY <2>3, <2>4
<1>5. nbuf \in [0 .. N - 1 -> S \cup {NoChar}] /\ nbuf[p] = x
  BY <1>1
<1>6. \A i \in 1 .. n : nbuf[(c + i - 1) % N] = buf[(c + i - 1) % N]
  BY <1>1, <1>4
<1>7. /\ Ring(buf, p, c, N) = [i \in 1 .. n |-> buf[(c + i - 1) % N]]
      /\ Ring(nbuf, q, c, N) = [i \in 1 .. n + 1 |-> nbuf[(c + i - 1) % N]]
  BY <1>3 DEF Ring, n
<1>8. Ring(buf, p, c, N) \in Seq(S) /\ Len(Ring(buf, p, c, N)) = n
  BY <1>2, <1>1, RingLength DEF n
<1> HIDE DEF q, n, nbuf
<1>9. Ring(nbuf, q, c, N) = Append(Ring(buf, p, c, N), x)
  BY <1>3, <1>4, <1>5, <1>6, <1>7, <1>8
<1>10. IsRing(nbuf, q, c, N, S)
  BY <1>1, <1>3, <1>5, <1>8, <1>9 DEF IsRing
<1>11. QED
  BY <1>9, <1>10 DEF q, nbuf

(* The tail of a sequence, told by its characters.                         *)
LEMMA TailByCharacter ==
  ASSUME NEW S, NEW n \in Nat, n >= 1, NEW s \in Seq(S), Len(s) = n,
         NEW t \in Seq(S), Len(t) = n - 1, \A i \in 1 .. n - 1 : t[i] = s[i + 1]
  PROVE  t = Tail(s)
<1>1. /\ Tail(s) \in Seq(S) /\ Len(Tail(s)) = n - 1
      /\ \A i \in 1 .. n - 1 : Tail(s)[i] = s[i + 1]
  OBVIOUS
<1>2. QED
  BY <1>1

(* Advancing `consume` takes the oldest character out.                     *)
LEMMA RingPop ==
  ASSUME NEW N \in Nat, N >= 2, NEW S, NEW buf, NEW p, NEW c, IsRing(buf, p, c, N, S),
         p # c
  PROVE  /\ Ring(buf, p, c, N) # << >> /\ Head(Ring(buf, p, c, N)) = buf[c]
         /\ Ring([buf EXCEPT ![c] = NoChar], p, (c + 1) % N, N) = Tail(Ring(buf, p, c, N))
         /\ IsRing([buf EXCEPT ![c] = NoChar], p, (c + 1) % N, N, S)
<1> DEFINE d == (c + 1) % N
           n == (p + N - c) % N
           nbuf == [buf EXCEPT ![c] = NoChar]
<1>1. p \in 0 .. N - 1 /\ c \in 0 .. N - 1 /\ buf \in [0 .. N - 1 -> S \cup {NoChar}]
  BY DEF IsRing
<1>2. /\ d = IF c + 1 < N THEN c + 1 ELSE 0
      /\ n = IF p < c THEN p + N - c ELSE p - c
  BY <1>1
<1> HIDE DEF d, n
<1>3. d \in 0 .. N - 1 /\ n \in 1 .. N - 1 /\ (p + N - d) % N = n - 1
  <2>1. d \in 0 .. N - 1 /\ n \in 1 .. N - 1
    BY <1>1, <1>2
  <2>2. (p + N - d) % N = IF p < d THEN p + N - d ELSE p - d
    BY <1>1, <2>1
  <2>3. QED
    BY <1>1, <1>2, <2>1, <2>2
<1>4. /\ (c + 1 - 1) % N = c
      /\ \A i \in 1 .. n - 1 : /\ (d + i - 1) % N = (c + (i + 1) - 1) % N
                               /\ (d + i - 1) % N \in 0 .. N - 1 /\ (d + i - 1) % N # c
  <2>1. (c + 1 - 1) % N = IF c + 1 - 1 < N THEN c + 1 - 1 ELSE c + 1 - 1 - N
    BY <1>1
  <2>2. ASSUME NEW i \in 1 .. n - 1
        PROVE  /\ (d + i - 1) % N = (c + (i + 1) - 1) % N
               /\ (d + i - 1) % N \in 0 .. N - 1 /\ (d + i - 1) % N # c
    <3>1. i \in 1 .. N /\ i + 1 \in 1 .. N
      BY <1>3
    <3>2. (d + i - 1) % N = IF d + i - 1 < N THEN d + i - 1 ELSE d + i - 1 - N
      BY <1>3, <3>1
    <3>3. (c + (i + 1) - 1) % N = IF c + (i + 1) - 1 < N THEN c + (i + 1) - 1 ELSE c + (i + 1) - 1 - N
      BY <1>1, <3>1
    <3>4. QED
      BY <1>1, <1>2, <1>3, <3>1, <3>2, <3>3
  <2>3. QED
    BY <1>1, <2>1, <2>2
<1>5. nbuf \in [0 .. N - 1 -> S \cup {NoChar}]
  BY <1>1
<1>6. \A i \in 1 .. n - 1 : nbuf[(d + i - 1) % N] = buf[(c + (i + 1) - 1) % N]
  BY <1>1, <1>4
<1>7. /\ Ring(buf, p, c, N) = [i \in 1 .. n |-> buf[(c + i - 1) % N]]
      /\ Ring(nbuf, p, d, N) = [i \in 1 .. n - 1 |-> nbuf[(d + i - 1) % N]]
  BY <1>3 DEF Ring, n
<1>8. Ring(buf, p, c, N) \in Seq(S) /\ Len(Ring(buf, p, c, N)) = n
  BY <1>2, <1>1, RingLength DEF n
<1> HIDE DEF d, n, nbuf
<1>9. Ring(buf, p, c, N) # << >> /\ Head(Ring(buf, p, c, N)) = buf[c]
  BY <1>3, <1>4, <1>7, <1>8
<1>10. Ring(nbuf, p, d, N) = Tail(Ring(buf, p, c, N))
  <2> DEFINE s == Ring(buf, p, c, N)
             t == Ring(nbuf, p, d, N)
  <2>1. \A i \in 1 .. n - 1 : t[i] = s[i + 1]
    <3>1. ASSUME NEW i \in 1 .. n - 1 PROVE t[i] = s[i + 1]
      <4>1. t[i] = nbuf[(d + i - 1) % N]
        BY <1>7
      <4>2. i + 1 \in 1 .. n /\ s[i + 1] = buf[(c + (i + 1) - 1) % N]
        BY <1>3, <1>7
      <4>3. QED
        BY <4>1, <4>2, <1>6
    <3>2. QED
      BY <3>1
  <2>2. s \in Seq(S) /\ Len(s) = n /\ t = [i \in 1 .. n - 1 |-> t[i]]
    BY <1>7, <1>8
  <2> HIDE DEF s, t
  <2>3. \A i \in 1 .. n - 1 : t[i] \in S
    BY <2>1, <2>2, <1>3
  <2>4. t \in Seq(S) /\ Len(t) = n - 1
    BY <2>2, <2>3, <1>3
  <2>5. n \in Nat /\ n >= 1
    BY <1>3
  <2>6. t = Tail(s)
    BY <2>1, <2>2, <2>4, <2>5, TailByCharacter, Zenon
  <2>7. QED
    BY <2>6 DEF s, t
<1>11. IsRing(nbuf, p, d, N, S)
  BY <1>1, <1>3, <1>5, <1>8, <1>9, <1>10 DEF IsRing
<1>12. QED
  BY <1>9, <1>10, <1>11 DEF d, nbuf

-----------------------------------------------------------------------------
(* Both rings have the sizes that the assumption asks for.                 *)
LEMMA Sizes ==
  /\ SizeTx \in Nat /\ SizeTx >= 2
  /\ SizeRx \in Nat /\ SizeRx >= 2
BY UartAssumption DEF SizeTx, SizeRx

(* A ring with equal indices is empty.                                     *)
LEMMA NewRing ==
  ASSUME NEW N \in Nat, N >= 2, NEW S
  PROVE  LET buf == [i \in 0 .. N - 1 |-> NoChar]
         IN  IsRing(buf, 0, 0, N, S) /\ Ring(buf, 0, 0, N) = << >>
<1> DEFINE buf == [i \in 0 .. N - 1 |-> NoChar]
<1>1. (0 + N - 0) % N = 0
  OBVIOUS
<1>2. Ring(buf, 0, 0, N) = << >>
  BY <1>1 DEF Ring
<1>3. 0 \in 0 .. N - 1 /\ buf \in [0 .. N - 1 -> S \cup {NoChar}]
  OBVIOUS
<1> HIDE DEF buf
<1>4. IsRing(buf, 0, 0, N, S)
  BY <1>2, <1>3 DEF IsRing
<1>5. QED
  BY <1>2, <1>4 DEF buf

(* At the start the invariants hold, and both channels are empty.          *)
LEMMA UartStart ==
  ASSUME UartInit
  PROVE  TxInv /\ RxInv /\ txFifo \o RingTx = << >> /\ RingRx \o rxFifo = << >>
<1>1. /\ IsRing(tx_buf, tx_produce, tx_consume, SizeTx, TxChar)
      /\ RingTx = << >>
  BY Sizes, NewRing DEF UartInit, RingTx, SizeTx
<1>2. /\ IsRing(rx_buf, rx_produce, rx_consume, SizeRx, RxChar)
      /\ RingRx = << >>
  BY Sizes, NewRing DEF UartInit, RingRx, SizeRx
<1>3. WriteInv
  BY DEF UartInit, WriteInv, Masking
<1>4. QED
  BY <1>1, <1>2, <1>3 DEF UartInit, TxInv, RxInv

-----------------------------------------------------------------------------
(* What a step does to the path of the output.                             *)
Untouched == UNCHANGED <<txRing, txFifo>>

PutsInRing ==
  /\ pc = "enqueue"
  /\ tx_buf' = [tx_buf EXCEPT ![tx_produce] = ch]
  /\ tx_produce' = NextTx(tx_produce)
  /\ UNCHANGED <<tx_consume, txFifo>>

PutsInFifo ==
  /\ pc = "direct"
  /\ txFifo' = Append(txFifo, ch)
  /\ UNCHANGED txRing

Shifts == txFifo # << >> /\ txFifo' = Tail(txFifo) /\ UNCHANGED txRing

Moves ==
  /\ ~ TxEmpty
  /\ txFifo' = Append(txFifo, tx_buf[tx_consume])
  /\ tx_buf' = [tx_buf EXCEPT ![tx_consume] = NoChar]
  /\ tx_consume' = NextTx(tx_consume)
  /\ UNCHANGED tx_produce

(* What a step does to the output: it is one of five things.               *)
LEMMA OutputSteps ==
  ASSUME [UartNext]_uartVars
  PROVE  Untouched \/ PutsInRing \/ PutsInFifo \/ Shifts \/ Moves
<1>1. CASE UNCHANGED uartVars
  BY <1>1 DEF Untouched, uartVars, hw
<1>2. CASE (\E c \in RxChar : Receive(c)) \/ ShiftOut
  BY <1>2 DEF Receive, ShiftOut, Untouched, Shifts
<1>3. CASE Isr
  BY <1>3 DEF Isr, IsrEnter, IsrReceive, IsrReceived, IsrClearTx, IsrTransmit, IsrTransmitted,
              Untouched, Moves, hw
<1>4. CASE Calls
  BY <1>4 DEF Calls, Call, irq_setie, Untouched, hw
<1>5. CASE Program
  BY <1>5 DEF Program, At, WriteWait, WriteMask, WriteTest, WriteEnqueue, WriteDirect,
              WriteUnmask, Read, Sync, Untouched, PutsInRing, PutsInFifo, hw
<1>6. QED
  BY <1>1, <1>2, <1>3, <1>4, <1>5 DEF UartNext

(* Each kind of step keeps the ring, and what it does to the queue: one    *)
(* character more at its end, one less at its front, or nothing.           *)
LEMMA OutputQueue ==
  ASSUME TxInv, [UartNext]_uartVars
  PROVE  /\ IsRing(tx_buf', tx_produce', tx_consume', SizeTx, TxChar)
         /\ txFifo' \in Seq(TxChar)
         /\ \/ \E c \in TxChar : (txFifo \o RingTx)' = Append(txFifo \o RingTx, c)
            \/ txFifo \o RingTx # << >> /\ (txFifo \o RingTx)' = Tail(txFifo \o RingTx)
            \/ (txFifo \o RingTx)' = txFifo \o RingTx
<1>1. /\ IsRing(tx_buf, tx_produce, tx_consume, SizeTx, TxChar)
      /\ txFifo \in Seq(TxChar) /\ WriteInv
      /\ RingTx \in Seq(TxChar)
  BY DEF TxInv, IsRing, RingTx, SizeTx
<1>2. CASE Untouched
  <2>1. /\ tx_buf' = tx_buf /\ tx_produce' = tx_produce /\ tx_consume' = tx_consume
        /\ txFifo' = txFifo
    BY <1>2 DEF Untouched, txRing
  <2>2. RingTx' = RingTx
    BY <2>1 DEF RingTx, SizeTx
  <2>3. QED
    BY <1>1, <2>1, <2>2
<1>3. CASE PutsInRing
  <2>1. ch \in TxChar /\ (tx_produce + 1) % SizeTx # tx_consume
    BY <1>1, <1>3 DEF PutsInRing, WriteInv, TxFull, NextTx, SizeTx
  <2> DEFINE nbuf == [tx_buf EXCEPT ![tx_produce] = ch]
             next == (tx_produce + 1) % SizeTx
  <2>2. /\ Ring(nbuf, next, tx_consume, SizeTx) = Append(RingTx, ch)
        /\ IsRing(nbuf, next, tx_consume, SizeTx, TxChar)
    BY <1>1, <2>1, Sizes, RingPush DEF RingTx, SizeTx
  <2>3. tx_buf' = nbuf /\ tx_produce' = next /\ tx_consume' = tx_consume /\ txFifo' = txFifo
    BY <1>3 DEF PutsInRing, NextTx, SizeTx
  <2> HIDE DEF nbuf, next
  <2>4. RingTx' = Append(RingTx, ch) /\ IsRing(tx_buf', tx_produce', tx_consume', SizeTx, TxChar)
    BY <2>2, <2>3 DEF RingTx, SizeTx
  <2>5. (txFifo \o RingTx)' = Append(txFifo \o RingTx, ch)
    BY <1>1, <2>1, <2>3, <2>4
  <2>6. QED
    BY <1>1, <2>1, <2>3, <2>4, <2>5
<1>4. CASE PutsInFifo
  <2>1. ch \in TxChar /\ TxEmpty
    BY <1>1, <1>4 DEF PutsInFifo, WriteInv
  <2>2. RingTx = << >>
    BY <1>1, <2>1, Sizes, RingLength DEF TxEmpty, RingTx, SizeTx
  <2>3. tx_buf' = tx_buf /\ tx_produce' = tx_produce /\ tx_consume' = tx_consume
    BY <1>4 DEF PutsInFifo, txRing
  <2>4. RingTx' = << >>
    BY <2>2, <2>3 DEF RingTx, SizeTx
  <2>5. (txFifo \o RingTx)' = Append(txFifo \o RingTx, ch)
    BY <1>1, <1>4, <2>1, <2>2, <2>4 DEF PutsInFifo
  <2>6. txFifo' \in Seq(TxChar)
    BY <1>1, <1>4, <2>1 DEF PutsInFifo
  <2>7. QED
    BY <1>1, <2>1, <2>3, <2>5, <2>6
<1>5. CASE Shifts
  <2>1. /\ tx_buf' = tx_buf /\ tx_produce' = tx_produce /\ tx_consume' = tx_consume
        /\ txFifo # << >> /\ txFifo' = Tail(txFifo)
    BY <1>5 DEF Shifts, txRing
  <2>2. RingTx' = RingTx
    BY <2>1 DEF RingTx, SizeTx
  <2>3. /\ txFifo \o RingTx # << >> /\ (txFifo \o RingTx)' = Tail(txFifo \o RingTx)
    BY <1>1, <2>1, <2>2
  <2>4. txFifo' \in Seq(TxChar)
    BY <1>1, <2>1
  <2>5. QED
    BY <1>1, <2>1, <2>3, <2>4
<1>6. CASE Moves
  <2> DEFINE nbuf == [tx_buf EXCEPT ![tx_consume] = NoChar]
             next == (tx_consume + 1) % SizeTx
  <2>1. /\ RingTx # << >> /\ Head(RingTx) = tx_buf[tx_consume]
        /\ Ring(nbuf, tx_produce, next, SizeTx) = Tail(RingTx)
        /\ IsRing(nbuf, tx_produce, next, SizeTx, TxChar)
    <3>1. tx_produce # tx_consume
      BY <1>6 DEF Moves, TxEmpty
    <3>2. QED
      BY <1>1, <3>1, Sizes, RingPop DEF RingTx, SizeTx
  <2>2. tx_buf' = nbuf /\ tx_produce' = tx_produce /\ tx_consume' = next
    BY <1>6 DEF Moves, NextTx, SizeTx
  <2> HIDE DEF nbuf, next
  <2>3. RingTx' = Tail(RingTx) /\ IsRing(tx_buf', tx_produce', tx_consume', SizeTx, TxChar)
    BY <2>1, <2>2 DEF RingTx, SizeTx
  <2>4. txFifo' = Append(txFifo, Head(RingTx)) /\ Head(RingTx) \in TxChar
    BY <1>1, <1>6, <2>1 DEF Moves
  <2>5. txFifo' \in Seq(TxChar)
    BY <1>1, <2>4
  <2>6. (txFifo \o RingTx)' = txFifo \o RingTx
    BY <1>1, <2>1, <2>3, <2>4
  <2>7. QED
    BY <2>3, <2>5, <2>6
<1>7. QED
  BY <1>2, <1>3, <1>4, <1>5, <1>6, OutputSteps

(* Taking a character out of the ring makes it anything but full.          *)
LEMMA MovesFrees ==
  ASSUME TxInv, Moves
  PROVE  ~ TxFull'
<1>1. /\ tx_produce \in 0 .. SizeTx - 1 /\ tx_consume \in 0 .. SizeTx - 1
      /\ tx_produce # tx_consume
  BY DEF TxInv, IsRing, Moves, TxEmpty
<1>2. tx_produce' = tx_produce /\ tx_consume' = (tx_consume + 1) % SizeTx
  BY DEF Moves, NextTx, SizeTx
<1>3. (tx_produce + 1) % SizeTx # (tx_consume + 1) % SizeTx
  BY <1>1, Sizes
<1>4. QED
  BY <1>2, <1>3 DEF TxFull, NextTx, SizeTx

(* What uart_write knows of the ring stays true.                           *)
LEMMA WriteKeeps ==
  ASSUME TxInv, [UartNext]_uartVars
  PROVE  WriteInv'
<1>0. WriteInv
  BY DEF TxInv
<1>1. CASE UNCHANGED uartVars
  BY <1>0, <1>1 DEF WriteInv, uartVars, hw, handler, program, txRing, TxFull, TxEmpty, NextTx
<1>2. CASE (\E c \in RxChar : Receive(c)) \/ ShiftOut
  BY <1>0, <1>2 DEF WriteInv, Receive, ShiftOut, handler, program, txRing, TxFull, TxEmpty, NextTx
<1>3. CASE Isr
  <2>1. UNCHANGED program /\ isr' \in {"off", "rx", "tx_clear", "tx"}
    BY <1>0, <1>3 DEF Isr, IsrEnter, IsrReceive, IsrReceived, IsrClearTx, IsrTransmit,
                      IsrTransmitted, handler, WriteInv
  <2>2. pc \notin Masking
    BY <1>0, <1>3 DEF Isr, IsrEnter, IsrReceive, IsrReceived, IsrClearTx, IsrTransmit,
                      IsrTransmitted, WriteInv
  <2>3. UNCHANGED txRing \/ ~ TxFull'
    <3>1. CASE IsrTransmit
      BY <3>1, MovesFrees DEF IsrTransmit, Moves
    <3>2. CASE ~ IsrTransmit
      BY <1>3, <3>2 DEF Isr, IsrEnter, IsrReceive, IsrReceived, IsrClearTx, IsrTransmitted
    <3>3. QED
      BY <3>1, <3>2
  <2>4. QED
    BY <1>0, <2>1, <2>2, <2>3 DEF WriteInv, Masking, program, txRing, TxFull, NextTx
<1>4. CASE Calls
  BY <1>0, <1>4 DEF WriteInv, Calls, Call, irq_setie, At, handler, Masking
<1>5. CASE Program
  <2>1. CASE WriteWait \/ WriteMask \/ WriteTest
    BY <1>0, <2>1 DEF WriteInv, WriteWait, WriteMask, WriteTest, At, handler, txRing, TxFull,
                      TxEmpty, NextTx, Masking
  <2>2. CASE WriteEnqueue \/ WriteDirect \/ WriteUnmask
    BY <1>0, <2>2 DEF WriteInv, WriteEnqueue, WriteDirect, WriteUnmask, At, handler, Masking
  <2>3. CASE Read \/ Sync
    BY <1>0, <2>3 DEF WriteInv, Read, Sync, At, handler, Masking
  <2>4. QED
    BY <1>5, <2>1, <2>2, <2>3 DEF Program
<1>6. QED
  BY <1>1, <1>2, <1>3, <1>4, <1>5 DEF UartNext

(* Every step keeps the invariant of the output.                           *)
LEMMA TxInvariant ==
  ASSUME TxInv, [UartNext]_uartVars
  PROVE  TxInv'
BY OutputQueue, WriteKeeps DEF TxInv

(* What the program writes leaves the UART in the order in which it was    *)
(* written, nothing lost and nothing twice, although characters go two     *)
(* ways, through the ring or straight into the FIFO, and the handler may   *)
(* interrupt uart_write wherever it is not masked.                         *)
THEOREM OutputIsInOrder == UartSpec => OutputIsChannel
<1>1. UartInit => TxInv /\ txFifo \o RingTx = << >>
  BY UartStart
<1>2. ASSUME TxInv, [UartNext]_uartVars
      PROVE  [Output!Put \/ Output!Take \/ Output!Lose]_(txFifo \o RingTx)
  BY <1>2, OutputQueue DEF Output!Put, Output!Take
<1>3. QED
  BY <1>1, <1>2, TxInvariant, PTL DEF UartSpec, OutputIsChannel, Output!ChannelSpec

-----------------------------------------------------------------------------
(* What a step does to the path of the input.                              *)
Idle == UNCHANGED <<rxRing, rxFifo>>

Arrives == UNCHANGED rxRing /\ \E c \in RxChar : rxFifo' = Append(rxFifo, c)

Stores ==
  /\ rxFifo # << >> /\ NextRx(rx_produce) # rx_consume
  /\ rx_buf' = [rx_buf EXCEPT ![rx_produce] = Head(rxFifo)]
  /\ rx_produce' = NextRx(rx_produce)
  /\ rxFifo' = Tail(rxFifo)
  /\ UNCHANGED rx_consume

Drops ==
  /\ rxFifo # << >> /\ NextRx(rx_produce) = rx_consume
  /\ rxFifo' = Tail(rxFifo)
  /\ UNCHANGED rxRing

Reads ==
  /\ ~ RxEmpty
  /\ rx_consume' = NextRx(rx_consume)
  /\ rx_buf' = [rx_buf EXCEPT ![rx_consume] = NoChar]
  /\ UNCHANGED <<rx_produce, rxFifo>>

(* What a step does to the input: it is one of five things.                *)
LEMMA InputSteps ==
  ASSUME [UartNext]_uartVars
  PROVE  Idle \/ Arrives \/ Stores \/ Drops \/ Reads
<1>1. CASE UNCHANGED uartVars
  BY <1>1 DEF Idle, uartVars, hw
<1>2. CASE (\E c \in RxChar : Receive(c)) \/ ShiftOut
  BY <1>2 DEF Receive, ShiftOut, Idle, Arrives
<1>3. CASE Isr
  <2>1. CASE IsrReceive
    BY <2>1 DEF IsrReceive, Stores, Drops, rxRing
  <2>2. CASE ~ IsrReceive
    BY <1>3, <2>2 DEF Isr, IsrEnter, IsrReceived, IsrClearTx, IsrTransmit, IsrTransmitted, Idle, hw
  <2>3. QED
    BY <2>1, <2>2
<1>4. CASE Calls
  BY <1>4 DEF Calls, Call, irq_setie, Idle, hw
<1>5. CASE Program
  <2>1. CASE Read
    BY <2>1 DEF Read, Reads, Idle, rxRing, hw
  <2>2. CASE ~ Read
    BY <1>5, <2>2 DEF Program, WriteWait, WriteMask, WriteTest, WriteEnqueue, WriteDirect,
                      WriteUnmask, Sync, Idle, hw
  <2>3. QED
    BY <2>1, <2>2
<1>6. QED
  BY <1>1, <1>2, <1>3, <1>4, <1>5 DEF UartNext

(* The element behind the first n of a sequence that is put together of n  *)
(* elements and more is the first of those.                                *)
LEMMA RemoveBehind ==
  ASSUME NEW S, NEW s \in Seq(S), NEW t \in Seq(S), t # << >>
  PROVE  RemoveAt(s \o t, Len(s) + 1) = s \o Tail(t)
<1> DEFINE u == s \o t
           n == Len(s)
<1>1. /\ u \in Seq(S) /\ Len(u) = n + Len(t) /\ n \in Nat /\ Len(t) \in Nat /\ Len(t) >= 1
      /\ \A i \in 1 .. n : u[i] = s[i]
      /\ \A i \in n + 1 .. Len(u) : u[i] = t[i - n]
  OBVIOUS
<1> HIDE DEF u
<1>2. SubSeq(u, 1, n) = s
  BY <1>1
<1>3. SubSeq(u, n + 2, Len(u)) = Tail(t)
  BY <1>1
<1>4. RemoveAt(u, n + 1) = SubSeq(u, 1, (n + 1) - 1) \o SubSeq(u, (n + 1) + 1, Len(u))
  BY DEF RemoveAt
<1>5. (n + 1) - 1 = n /\ (n + 1) + 1 = n + 2
  BY <1>1
<1>6. QED
  BY <1>2, <1>3, <1>4, <1>5 DEF u

(* The queue of the input is the ring and behind it the FIFO.  A character *)
(* is lost only at the seam, when the ring holds all that it can.          *)
LEMMA InputQueue ==
  ASSUME RxInv, [UartNext]_uartVars
  PROVE  /\ RxInv'
         /\ \/ \E c \in RxChar : (RingRx \o rxFifo)' = Append(RingRx \o rxFifo, c)
            \/ RingRx \o rxFifo # << >> /\ (RingRx \o rxFifo)' = Tail(RingRx \o rxFifo)
            \/ \E i \in (SizeRx - 1) + 1 .. Len(RingRx \o rxFifo) :
                 (RingRx \o rxFifo)' = RemoveAt(RingRx \o rxFifo, i)
            \/ (RingRx \o rxFifo)' = RingRx \o rxFifo
<1>1. /\ IsRing(rx_buf, rx_produce, rx_consume, SizeRx, RxChar)
      /\ rxFifo \in Seq(RxChar) /\ RingRx \in Seq(RxChar)
  BY DEF RxInv, IsRing, RingRx, SizeRx
<1>2. CASE Idle
  <2>1. /\ rx_buf' = rx_buf /\ rx_produce' = rx_produce /\ rx_consume' = rx_consume
        /\ rxFifo' = rxFifo
    BY <1>2 DEF Idle, rxRing
  <2>2. RingRx' = RingRx
    BY <2>1 DEF RingRx
  <2>3. QED
    BY <1>1, <2>1, <2>2 DEF RxInv
<1>3. CASE Arrives
  <2>1. PICK c \in RxChar : rxFifo' = Append(rxFifo, c)
    BY <1>3 DEF Arrives
  <2>2. rx_buf' = rx_buf /\ rx_produce' = rx_produce /\ rx_consume' = rx_consume
    BY <1>3 DEF Arrives, rxRing
  <2>3. RingRx' = RingRx
    BY <2>2 DEF RingRx
  <2>4. (RingRx \o rxFifo)' = Append(RingRx \o rxFifo, c) /\ rxFifo' \in Seq(RxChar)
    BY <1>1, <2>1, <2>3
  <2>5. QED
    BY <1>1, <2>2, <2>4 DEF RxInv
<1>4. CASE Stores
  <2> DEFINE nbuf == [rx_buf EXCEPT ![rx_produce] = Head(rxFifo)]
             next == (rx_produce + 1) % SizeRx
  <2>1. rxFifo # << >> /\ rxFifo' = Tail(rxFifo) /\ next # rx_consume
    BY <1>4 DEF Stores, NextRx, SizeRx
  <2>2. Head(rxFifo) \in RxChar /\ Tail(rxFifo) \in Seq(RxChar)
    BY <1>1, <2>1
  <2>3. /\ Ring(nbuf, next, rx_consume, SizeRx) = Append(RingRx, Head(rxFifo))
        /\ IsRing(nbuf, next, rx_consume, SizeRx, RxChar)
    BY <1>1, <2>1, <2>2, Sizes, RingPush DEF RingRx, SizeRx
  <2>4. rx_buf' = nbuf /\ rx_produce' = next /\ rx_consume' = rx_consume
    BY <1>4 DEF Stores, NextRx, SizeRx
  <2> HIDE DEF nbuf, next
  <2>5. /\ RingRx' = Append(RingRx, Head(rxFifo))
        /\ IsRing(rx_buf', rx_produce', rx_consume', SizeRx, RxChar)
    BY <2>3, <2>4 DEF RingRx, SizeRx
  <2>6. (RingRx \o rxFifo)' = RingRx \o rxFifo
    BY <1>1, <2>1, <2>5
  <2>7. QED
    BY <2>1, <2>2, <2>5, <2>6 DEF RxInv
<1>5. CASE Drops
  <2>1. rxFifo # << >> /\ rxFifo' = Tail(rxFifo) /\ (rx_produce + 1) % SizeRx = rx_consume
    BY <1>5 DEF Drops, NextRx, SizeRx
  <2>2. rx_buf' = rx_buf /\ rx_produce' = rx_produce /\ rx_consume' = rx_consume
    BY <1>5 DEF Drops, rxRing
  <2>3. RingRx' = RingRx
    BY <2>2 DEF RingRx
  <2>4. Len(RingRx) = SizeRx - 1
    BY <1>1, <2>1, Sizes, RingLength DEF RingRx, SizeRx
  <2>5. (RingRx \o rxFifo)' = RemoveAt(RingRx \o rxFifo, Len(RingRx) + 1)
    BY <1>1, <2>1, <2>3, RemoveBehind
  <2>6. Len(RingRx) + 1 \in (SizeRx - 1) + 1 .. Len(RingRx \o rxFifo)
    BY <1>1, <2>1, <2>4, Sizes
  <2>7. Tail(rxFifo) \in Seq(RxChar)
    BY <1>1, <2>1
  <2>8. QED
    BY <1>1, <2>1, <2>2, <2>5, <2>6, <2>7 DEF RxInv
<1>6. CASE Reads
  <2> DEFINE nbuf == [rx_buf EXCEPT ![rx_consume] = NoChar]
             next == (rx_consume + 1) % SizeRx
  <2>1. rx_produce # rx_consume /\ rxFifo' = rxFifo
    BY <1>6 DEF Reads, RxEmpty
  <2>2. /\ RingRx # << >> /\ Head(RingRx) = rx_buf[rx_consume]
        /\ Ring(nbuf, rx_produce, next, SizeRx) = Tail(RingRx)
        /\ IsRing(nbuf, rx_produce, next, SizeRx, RxChar)
    <3>1. rx_produce # rx_consume
      BY <2>1
    <3>2. QED
      BY <1>1, <3>1, Sizes, RingPop DEF RingRx, SizeRx
  <2>3. rx_buf' = nbuf /\ rx_produce' = rx_produce /\ rx_consume' = next
    BY <1>6 DEF Reads, NextRx, SizeRx
  <2> HIDE DEF nbuf, next
  <2>4. RingRx' = Tail(RingRx) /\ IsRing(rx_buf', rx_produce', rx_consume', SizeRx, RxChar)
    BY <2>2, <2>3 DEF RingRx, SizeRx
  <2>5. RingRx \o rxFifo # << >> /\ (RingRx \o rxFifo)' = Tail(RingRx \o rxFifo)
    BY <1>1, <2>1, <2>2, <2>4
  <2>6. QED
    BY <1>1, <2>1, <2>4, <2>5 DEF RxInv
<1>7. QED
  BY <1>2, <1>3, <1>4, <1>5, <1>6, InputSteps

(* What arrives reaches the program in order and nothing twice, and a      *)
(* character is dropped only while the ring holds as many as it can.       *)
THEOREM InputIsInOrder == UartSpec => InputIsChannel
<1>1. UartInit => RxInv /\ RingRx \o rxFifo = << >>
  BY UartStart
<1>2. ASSUME RxInv, [UartNext]_uartVars
      PROVE  [Input!Put \/ Input!Take \/ Input!Lose]_(RingRx \o rxFifo)
  <2>1. CASE \E i \in (SizeRx - 1) + 1 .. Len(RingRx \o rxFifo) :
               (RingRx \o rxFifo)' = RemoveAt(RingRx \o rxFifo, i)
    BY <2>1, Zenon DEF Input!Lose, Input!RemoveAt, RemoveAt, SizeRx
  <2>2. QED
    BY <1>2, <2>1, InputQueue, Zenon DEF Input!Put, Input!Take
<1>3. RxInv /\ [UartNext]_uartVars => RxInv'
  BY InputQueue
<1>4. QED
  BY <1>1, <1>2, <1>3, PTL DEF UartSpec, InputIsChannel, Input!ChannelSpec

-----------------------------------------------------------------------------
(***************************************************************************)
(* The database holds every result at most once and in the order of the    *)
(* games, however often the board is reset, wherever a reset cuts a line,  *)
(* and whatever the parser or the database do in between: proofs about     *)
(* ScoreUplink.                                                            *)
(*                                                                         *)
(* The order of the database alone is not inductive.  It follows from the  *)
(* order of the whole way: the games that are stored come before those     *)
(* whose results are under way, and these before the one that is played.   *)
(***************************************************************************)

Line == {Noise, Header} \cup {Result(g) : g \in Nat}

IsResult(l) == l.kind = "result"

UplinkTypeOK ==
  /\ device \in {"reset", "bios", "playing", "over"}
  /\ game \in Nat
  /\ serial \in Seq(Line)
  /\ stored \in Seq(Nat)

(* The first game whose result cannot have been printed yet.               *)
Unplayed == IF device = "over" THEN game + 1 ELSE game

(* Along the way from the database back to the board the games increase.   *)
WayInOrder ==
  /\ \A i, j \in 1 .. Len(serial) :
       i < j /\ IsResult(serial[i]) /\ IsResult(serial[j]) => serial[i].game < serial[j].game
  /\ \A i \in 1 .. Len(stored) : \A j \in 1 .. Len(serial) :
       IsResult(serial[j]) => stored[i] < serial[j].game
  /\ \A j \in 1 .. Len(serial) : IsResult(serial[j]) => serial[j].game < Unplayed
  /\ \A i \in 1 .. Len(stored) : stored[i] < Unplayed

UplinkInv == UplinkTypeOK /\ WayInOrder /\ StoredOnceInOrder

-----------------------------------------------------------------------------
(* The lines of the console, and which are results.                        *)
LEMMA Lines ==
  /\ Noise \in Line /\ Header \in Line /\ ~ IsResult(Noise) /\ ~ IsResult(Header)
  /\ \A g \in Nat : Result(g) \in Line /\ IsResult(Result(g)) /\ Result(g).game = g
  /\ \A l \in Line : IsResult(l) => l.game \in Nat
<1>1. /\ Noise \in Line /\ Header \in Line /\ ~ IsResult(Noise) /\ ~ IsResult(Header)
  BY DEF Line, Noise, Header, Result, IsResult
<1>2. \A g \in Nat : Result(g) \in Line /\ IsResult(Result(g)) /\ Result(g).game = g
  BY DEF Line, Result, IsResult
<1>3. ASSUME NEW l \in Line, IsResult(l) PROVE l.game \in Nat
  <2>1. PICK g \in Nat : l = Result(g)
    BY <1>1, <1>3 DEF Line
  <2>2. QED
    BY <1>2, <2>1
<1>4. QED
  BY <1>1, <1>2, <1>3

(* A line that is not a result leaves the order alone ...                  *)
LEMMA PrintsNoResult ==
  ASSUME UplinkInv, NEW l \in Line, ~ IsResult(l), serial' = Append(serial, l),
         UNCHANGED stored, game' \in Nat, device' \in {"reset", "bios", "playing", "over"},
         Unplayed <= Unplayed'
  PROVE  UplinkInv'
<1>1. /\ serial \in Seq(Line) /\ stored \in Seq(Nat) /\ WayInOrder /\ StoredOnceInOrder
  BY DEF UplinkInv, UplinkTypeOK
<1>2. /\ serial' \in Seq(Line) /\ Len(serial') = Len(serial) + 1
      /\ serial'[Len(serial) + 1] = l
      /\ \A i \in 1 .. Len(serial) : serial'[i] = serial[i] /\ serial[i] \in Line
  BY <1>1
<1>3. \A j \in 1 .. Len(serial') : IsResult(serial'[j]) =>
        j \in 1 .. Len(serial) /\ serial'[j] = serial[j] /\ serial[j].game \in Nat
  BY <1>1, <1>2, Lines
<1>4. \A i \in 1 .. Len(stored) : stored[i] \in Nat
  BY <1>1
<1>5. Unplayed \in Nat /\ Unplayed' \in Nat
  <2>1. game \in Nat /\ game' \in Nat
    BY DEF UplinkInv, UplinkTypeOK
  <2>2. Unplayed = game \/ Unplayed = game + 1
    BY ONLY DEF Unplayed
  <2>3. Unplayed' = game' \/ Unplayed' = game' + 1
    BY ONLY DEF Unplayed
  <2>4. QED
    BY <2>1, <2>2, <2>3
<1>6. WayInOrder'
  <2>1. \A i, j \in 1 .. Len(serial') :
          i < j /\ IsResult(serial'[i]) /\ IsResult(serial'[j]) => serial'[i].game < serial'[j].game
    BY <1>1, <1>3 DEF WayInOrder
  <2>2. ASSUME NEW j \in 1 .. Len(serial'), IsResult(serial'[j])
        PROVE  serial'[j].game < Unplayed' /\ \A i \in 1 .. Len(stored) : stored[i] < serial'[j].game
    <3>1. j \in 1 .. Len(serial) /\ serial'[j] = serial[j] /\ serial[j].game \in Nat
      BY <1>3, <2>2
    <3>2. serial[j].game < Unplayed /\ \A i \in 1 .. Len(stored) : stored[i] < serial[j].game
      BY <1>1, <2>2, <3>1 DEF WayInOrder
    <3>3. QED
      BY <1>5, <3>1, <3>2
  <2>3. \A i \in 1 .. Len(stored) : stored[i] < Unplayed'
    BY <1>1, <1>4, <1>5 DEF WayInOrder
  <2>4. QED
    BY <2>1, <2>2, <2>3 DEF WayInOrder
<1>7. StoredOnceInOrder'
  BY <1>1 DEF StoredOnceInOrder
<1>8. QED
  BY <1>1, <1>2, <1>6, <1>7 DEF UplinkInv, UplinkTypeOK

(* ... and the result of the game that is played is the last one.          *)
LEMMA PrintsResult ==
  ASSUME UplinkInv, device # "over", serial' = Append(serial, Result(game)),
         UNCHANGED stored, game' \in Nat, device' \in {"reset", "bios", "playing", "over"},
         game < Unplayed'
  PROVE  UplinkInv'
<1>1. /\ serial \in Seq(Line) /\ stored \in Seq(Nat) /\ WayInOrder /\ StoredOnceInOrder
      /\ game \in Nat
  BY DEF UplinkInv, UplinkTypeOK
<1>2. Result(game) \in Line /\ IsResult(Result(game)) /\ Result(game).game = game
  BY <1>1, Lines
<1>3. /\ serial' \in Seq(Line) /\ Len(serial') = Len(serial) + 1
      /\ serial'[Len(serial) + 1] = Result(game)
      /\ \A i \in 1 .. Len(serial) : serial'[i] = serial[i] /\ serial[i] \in Line
  BY <1>1, <1>2
<1>4. /\ \A j \in 1 .. Len(serial) : IsResult(serial[j]) =>
           serial[j].game \in Nat /\ serial[j].game < game
      /\ \A i \in 1 .. Len(stored) : stored[i] \in Nat /\ stored[i] < game
  BY <1>1, <1>3, Lines DEF WayInOrder, Unplayed
<1>5. Unplayed' \in Nat
  <2>1. Unplayed' = game' \/ Unplayed' = game' + 1
    BY ONLY DEF Unplayed
  <2>2. QED
    BY <2>1
<1>6. WayInOrder'
  <2>1. \A i, j \in 1 .. Len(serial') :
          i < j /\ IsResult(serial'[i]) /\ IsResult(serial'[j]) => serial'[i].game < serial'[j].game
    <3>1. SUFFICES ASSUME NEW i \in 1 .. Len(serial'), NEW j \in 1 .. Len(serial'),
                          i < j, IsResult(serial'[i]), IsResult(serial'[j])
                   PROVE  serial'[i].game < serial'[j].game
      OBVIOUS
    <3>2. i \in 1 .. Len(serial) /\ serial'[i] = serial[i]
      BY <1>1, <1>3, <3>1
    <3>3. CASE j = Len(serial) + 1
      BY <1>2, <1>3, <1>4, <3>1, <3>2, <3>3
    <3>4. CASE j \in 1 .. Len(serial)
      BY <1>1, <1>3, <3>1, <3>2, <3>4 DEF WayInOrder
    <3>5. QED
      BY <1>1, <1>3, <3>3, <3>4
  <2>2. ASSUME NEW j \in 1 .. Len(serial'), IsResult(serial'[j])
        PROVE  serial'[j].game < Unplayed' /\ \A i \in 1 .. Len(stored) : stored[i] < serial'[j].game
    <3>1. CASE j = Len(serial) + 1
      BY <1>1, <1>2, <1>3, <1>4, <3>1
    <3>2. CASE j \in 1 .. Len(serial)
      <4>1. /\ serial'[j] = serial[j] /\ serial[j].game \in Nat /\ serial[j].game < game
            /\ \A i \in 1 .. Len(stored) : stored[i] < serial[j].game
        BY <1>1, <1>3, <1>4, <2>2, <3>2 DEF WayInOrder
      <4>2. QED
        BY <1>1, <1>5, <4>1
    <3>3. QED
      BY <1>1, <1>3, <3>1, <3>2
  <2>3. \A i \in 1 .. Len(stored) : stored[i] < Unplayed'
    BY <1>1, <1>4, <1>5
  <2>4. QED
    BY <2>1, <2>2, <2>3 DEF WayInOrder
<1>7. StoredOnceInOrder'
  BY <1>1 DEF StoredOnceInOrder
<1>8. QED
  BY <1>1, <1>3, <1>6, <1>7 DEF UplinkInv, UplinkTypeOK

(* A reset between two lines leaves the way alone and starts a new game.   *)
LEMMA QuietReset ==
  ASSUME UplinkInv, UNCHANGED <<serial, stored>>, game' = game + 1, Unplayed <= Unplayed'
  PROVE  WayInOrder' /\ StoredOnceInOrder'
<1>1. /\ serial \in Seq(Line) /\ stored \in Seq(Nat) /\ WayInOrder /\ StoredOnceInOrder
      /\ game \in Nat
  BY DEF UplinkInv, UplinkTypeOK
<1>2. Unplayed \in Nat /\ Unplayed' \in Nat
  <2>1. Unplayed = game \/ Unplayed = game + 1
    BY ONLY DEF Unplayed
  <2>2. Unplayed' = game' \/ Unplayed' = game' + 1
    BY ONLY DEF Unplayed
  <2>3. QED
    BY <1>1, <2>1, <2>2
<1>3. \A i \in 1 .. Len(stored) : stored[i] < Unplayed'
  <2>1. \A i \in 1 .. Len(stored) : stored[i] \in Nat /\ stored[i] < Unplayed
    BY <1>1 DEF WayInOrder
  <2>2. QED
    BY <1>2, <2>1
<1>4. \A j \in 1 .. Len(serial) : IsResult(serial[j]) => serial[j].game < Unplayed'
  <2>1. \A j \in 1 .. Len(serial) :
          IsResult(serial[j]) => serial[j].game \in Nat /\ serial[j].game < Unplayed
    BY <1>1, Lines DEF WayInOrder
  <2>2. QED
    BY <1>2, <2>1
<1>5. WayInOrder'
  BY <1>1, <1>3, <1>4 DEF WayInOrder
<1>6. QED
  BY <1>1, <1>5 DEF StoredOnceInOrder

(* The parser takes a line off the serial line and forgets it ...          *)
LEMMA TakesLine ==
  ASSUME UplinkInv, serial # << >>, serial' = Tail(serial), UNCHANGED <<stored, device, game>>
  PROVE  UplinkInv'
<1>1. /\ serial \in Seq(Line) /\ stored \in Seq(Nat) /\ WayInOrder /\ StoredOnceInOrder
  BY DEF UplinkInv, UplinkTypeOK
<1>2. /\ serial' \in Seq(Line) /\ Len(serial') = Len(serial) - 1 /\ Len(serial) \in Nat
      /\ \A i \in 1 .. Len(serial') : i + 1 \in 1 .. Len(serial) /\ serial'[i] = serial[i + 1]
  BY <1>1
<1>3. WayInOrder'
  <2>1. \A i, j \in 1 .. Len(serial') :
          i < j /\ IsResult(serial'[i]) /\ IsResult(serial'[j]) => serial'[i].game < serial'[j].game
    BY <1>1, <1>2 DEF WayInOrder
  <2>2. \A j \in 1 .. Len(serial') : IsResult(serial'[j]) =>
          serial'[j].game < Unplayed' /\ \A i \in 1 .. Len(stored) : stored[i] < serial'[j].game
    BY <1>1, <1>2 DEF WayInOrder, Unplayed
  <2>3. \A i \in 1 .. Len(stored) : stored[i] < Unplayed'
    BY <1>1 DEF WayInOrder, Unplayed
  <2>4. QED
    BY <2>1, <2>2, <2>3 DEF WayInOrder
<1>4. StoredOnceInOrder'
  BY <1>1 DEF StoredOnceInOrder
<1>5. QED
  BY <1>2, <1>3, <1>4 DEF UplinkInv, UplinkTypeOK

(* ... or puts it behind what is stored, once, for it is gone then.        *)
LEMMA StoresLine ==
  ASSUME UplinkInv, serial # << >>, IsResult(line), serial' = Tail(serial),
         stored' = Append(stored, line.game), UNCHANGED <<device, game>>
  PROVE  UplinkInv'
<1>1. /\ serial \in Seq(Line) /\ stored \in Seq(Nat) /\ WayInOrder /\ StoredOnceInOrder
  BY DEF UplinkInv, UplinkTypeOK
<1>2. /\ serial' \in Seq(Line) /\ Len(serial') = Len(serial) - 1 /\ Len(serial) \in Nat
      /\ 1 \in 1 .. Len(serial) /\ line = serial[1] /\ line \in Line
      /\ \A i \in 1 .. Len(serial') : i + 1 \in 1 .. Len(serial) /\ serial'[i] = serial[i + 1]
  BY <1>1 DEF line
<1>3. line.game \in Nat
  BY <1>2, Lines
<1>4. /\ stored' \in Seq(Nat) /\ Len(stored') = Len(stored) + 1 /\ Len(stored) \in Nat
      /\ stored'[Len(stored) + 1] = line.game
      /\ \A i \in 1 .. Len(stored) : stored'[i] = stored[i]
  BY <1>1, <1>3
<1>5. /\ \A i \in 1 .. Len(stored) : stored[i] < line.game
      /\ line.game < Unplayed
      /\ \A j \in 1 .. Len(serial') : IsResult(serial'[j]) => line.game < serial'[j].game
  BY <1>1, <1>2 DEF WayInOrder
<1>6. WayInOrder'
  <2>1. \A i, j \in 1 .. Len(serial') :
          i < j /\ IsResult(serial'[i]) /\ IsResult(serial'[j]) => serial'[i].game < serial'[j].game
    BY <1>1, <1>2 DEF WayInOrder
  <2>2. ASSUME NEW j \in 1 .. Len(serial'), IsResult(serial'[j])
        PROVE  serial'[j].game < Unplayed' /\ \A i \in 1 .. Len(stored') : stored'[i] < serial'[j].game
    <3>1. serial'[j].game < Unplayed' /\ \A i \in 1 .. Len(stored) : stored[i] < serial'[j].game
      BY <1>1, <1>2, <2>2 DEF WayInOrder, Unplayed
    <3>2. line.game < serial'[j].game
      BY <1>5, <2>2
    <3>3. \A i \in 1 .. Len(stored') : stored'[i] = line.game \/ i \in 1 .. Len(stored)
      BY <1>4
    <3>4. QED
      BY <1>4, <3>1, <3>2, <3>3
  <2>3. \A i \in 1 .. Len(stored') : stored'[i] < Unplayed'
    BY <1>1, <1>4, <1>5 DEF WayInOrder, Unplayed
  <2>4. QED
    BY <2>1, <2>2, <2>3 DEF WayInOrder
<1>7. StoredOnceInOrder'
  BY <1>1, <1>4, <1>5 DEF StoredOnceInOrder
<1>8. QED
  BY <1>2, <1>4, <1>6, <1>7 DEF UplinkInv, UplinkTypeOK

-----------------------------------------------------------------------------
(* Nothing is under way when the board is switched on.                     *)
LEMMA UplinkStart == UplinkInit => UplinkInv
<1>1. SUFFICES ASSUME UplinkInit PROVE UplinkInv
  OBVIOUS
<1>2. /\ device = "reset" /\ game = 1 /\ serial = << >> /\ stored = << >>
      /\ Len(serial) = 0 /\ Len(stored) = 0
  BY <1>1 DEF UplinkInit
<1>3. UplinkTypeOK
  BY <1>2 DEF UplinkTypeOK
<1>4. WayInOrder /\ StoredOnceInOrder
  BY <1>2 DEF WayInOrder, StoredOnceInOrder
<1>5. QED
  BY <1>3, <1>4 DEF UplinkInv

(* The board prints results in the order of its games; a reset that cuts   *)
(* the line of a result ends its game.                                     *)
LEMMA BoardSteps ==
  ASSUME UplinkInv, Greet \/ StartGame \/ EndGame \/ Reset
  PROVE  UplinkInv'
<1>1. game \in Nat /\ device \in {"reset", "bios", "playing", "over"}
  BY DEF UplinkInv, UplinkTypeOK
<1>2. CASE Greet
  <2>1. /\ serial' = Append(serial, Noise) /\ UNCHANGED stored
        /\ device = "reset" /\ device' = "bios" /\ game' = game
    BY <1>2 DEF Greet, PrintLine
  <2>2. Unplayed <= Unplayed'
    BY <1>1, <2>1 DEF Unplayed
  <2>3. QED
    BY <1>1, <2>1, <2>2, Lines, PrintsNoResult
<1>3. CASE StartGame
  <2>1. /\ serial' = Append(serial, Header) /\ UNCHANGED stored
        /\ device = "bios" /\ device' = "playing" /\ game' = game
    BY <1>3 DEF StartGame, PrintLine
  <2>2. Unplayed <= Unplayed'
    BY <1>1, <2>1 DEF Unplayed
  <2>3. QED
    BY <1>1, <2>1, <2>2, Lines, PrintsNoResult
<1>4. CASE EndGame
  <2>1. /\ serial' = Append(serial, Result(game)) /\ UNCHANGED stored
        /\ device = "playing" /\ device' = "over" /\ game' = game
    BY <1>4 DEF EndGame, PrintLine
  <2>2. game < Unplayed'
    BY <1>1, <2>1 DEF Unplayed
  <2>3. QED
    BY <1>1, <2>1, <2>2, PrintsResult
<1>5. CASE Reset
  <2>1. UNCHANGED stored /\ device' = "reset" /\ game' = game + 1
    BY <1>5 DEF Reset
  <2>2. Unplayed <= Unplayed' /\ game < Unplayed'
    BY <1>1, <2>1 DEF Unplayed
  <2>3. CASE UNCHANGED serial
    <3>1. UplinkTypeOK'
      BY <2>1, <2>3, <1>1 DEF UplinkInv, UplinkTypeOK
    <3>2. WayInOrder' /\ StoredOnceInOrder'
      BY <1>1, <2>1, <2>2, <2>3, QuietReset
    <3>3. QED
      BY <3>1, <3>2 DEF UplinkInv
  <2>4. ASSUME NEW cut \in Cut, PrintLine(cut) PROVE UplinkInv'
    <3>1. serial' = Append(serial, cut)
      BY <2>4 DEF PrintLine
    <3>2. cut = Noise \/ (device = "playing" /\ cut = Result(game))
      BY <2>4 DEF Cut
    <3>3. CASE cut = Noise
      BY <1>1, <2>1, <2>2, <3>1, <3>3, Lines, PrintsNoResult
    <3>4. CASE device = "playing" /\ cut = Result(game)
      BY <1>1, <2>1, <2>2, <3>1, <3>4, PrintsResult
    <3>5. QED
      BY <3>2, <3>3, <3>4
  <2>5. QED
    BY <1>5, <2>3, <2>4 DEF Reset
<1>6. QED
  BY <1>2, <1>3, <1>4, <1>5

(* The parser takes lines off the front, and stores a result at most when  *)
(* it takes it.                                                            *)
LEMMA ParserSteps ==
  ASSUME UplinkInv, Start \/ Parser
  PROVE  UplinkInv'
<1>1. CASE Start
  BY <1>1 DEF Start, board, UplinkInv, UplinkTypeOK, WayInOrder, StoredOnceInOrder, Unplayed
<1>2. CASE Vanish \/ WaitForHeader \/ NotJson
  BY <1>2, TakesLine DEF Vanish, WaitForHeader, NotJson, board
<1>3. CASE Store
  <2>1. /\ serial # << >> /\ IsResult(line) /\ serial' = Tail(serial)
        /\ stored' \in {stored, Append(stored, line.game)} /\ UNCHANGED <<device, game>>
    BY <1>3 DEF Store, board, IsResult
  <2>2. CASE stored' = stored
    BY <2>1, <2>2, TakesLine
  <2>3. CASE stored' = Append(stored, line.game)
    BY <2>1, <2>3, StoresLine
  <2>4. QED
    BY <2>1, <2>2, <2>3
<1>4. QED
  BY <1>1, <1>2, <1>3 DEF Parser

(* The games increase all along the way, at all times.                     *)
THEOREM UplinkInvariant == UplinkSpec => []UplinkInv
<1>1. ASSUME UplinkInv, [UplinkNext]_uplinkVars PROVE UplinkInv'
  <2>1. CASE UplinkNext
    BY <1>1, <2>1, BoardSteps, ParserSteps DEF UplinkNext
  <2>2. CASE UNCHANGED uplinkVars
    BY <1>1, <2>2 DEF uplinkVars, UplinkInv, UplinkTypeOK, WayInOrder, StoredOnceInOrder,
                      Unplayed
  <2>3. QED
    BY <1>1, <2>1, <2>2
<1>2. QED
  BY <1>1, UplinkStart, PTL DEF UplinkSpec

(* No result is stored twice and none before an earlier one, for any       *)
(* number of games, resets and lines under way.                            *)
THEOREM ResultsAreStoredOnce == UplinkSpec => []StoredOnceInOrder
<1>1. UplinkInv => StoredOnceInOrder
  BY DEF UplinkInv
<1>2. QED
  BY <1>1, UplinkInvariant, PTL
=============================================================================
