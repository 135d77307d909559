-------------------------------- MODULE I2c --------------------------------
(***************************************************************************)
(* The bit-banged I2C master of libbase/i2c.c with one slave memory.  A    *)
(* step is one i2c_oe_scl_sda, to which the slave reacts at once.  A reset *)
(* of the processor may cut a transfer anywhere, and a read of no bytes    *)
(* ends while the slave sends: it may then hold SDA low.  The user gives   *)
(* i2c_reset to free it, once after such a read and twice after a reset,   *)
(* for the first may turn an address that was cut into one for reading.    *)
(***************************************************************************)
EXTENDS Integers, Sequences

CONSTANTS
  BITS,             \* bits of a byte (8)
  SLAVE,            \* address of the slave, BITS - 1 bits
  ADDR_SIZE, CELLS, \* bytes of an address in its memory, and the cells of that
  Targets, Addresses, Sizes, Writes, Lengths,   \* what the user may ask for
  MaxCalls, MaxResets   \* bounds of the model

I2cByte == 0 .. 2 ^ BITS - 1
Cells == 0 .. CELLS - 1

(* An address, shifted down by j bytes.                                    *)
Shifted(addr, j) ==
  LET down(a) == a \div 2 ^ BITS
  IN CASE j = 0 -> addr [] j = 1 -> down(addr) [] j = 2 -> down(down(addr))
       [] j = 3 -> down(down(down(addr))) [] j = 4 -> down(down(down(down(addr))))

ASSUME I2cAssumption ==
  /\ BITS \in Nat \ {0} /\ {MaxCalls, MaxResets} \subseteq Nat
  /\ Targets \cup {SLAVE} \subseteq 0 .. 2 ^ (BITS - 1) - 1
  /\ ADDR_SIZE \in 1 .. 4 /\ CELLS \in Nat \ {0} /\ \A a \in Cells : Shifted(a, ADDR_SIZE) = 0
  /\ Addresses \subseteq Nat /\ Sizes \subseteq Nat /\ Writes \subseteq Seq(I2cByte) /\ Lengths \subseteq Nat

VARIABLES
  oe, scl, sda,     \* what the master drives
  call,             \* NoCall, or what it is to do, and whether that is ok
  nth, bit, edge,   \* where it is: the operation, its bit, the line state
  data, received,  \* the byte or bit being read; the bytes read
  slave,            \* the memory with its own state machine
  expected,         \* history: its contents after the calls
  owed,             \* calls of i2c_reset before the user relies on the bus again
  budget            \* calls and resets that are left

i2cPlace == <<nth, bit, edge, data>>
i2cVars == <<oe, scl, sda, call, i2cPlace, received, slave, expected, owed, budget>>

NoCall == << >>

-----------------------------------------------------------------------------
(* The line states oe, scl, sda of the primitives; Read is ops.read().     *)
Read == << >>
i2c_start == <<<<1, 1, 1>>, <<1, 1, 0>>, <<1, 0, 0>>>>
i2c_stop  == <<<<1, 0, 0>>, <<1, 1, 0>>, <<1, 1, 1>>, <<0, 1, 1>>>>
i2c_transmit_bit(v) == <<<<1, 0, v>>, <<1, 1, v>>, <<1, 0, v>>, <<0, 0, 0>>>>
i2c_receive_bit == <<<<0, 0, 0>>, <<0, 1, 0>>, Read, <<0, 0, 0>>>>

(* Those of a byte and of the clocks of a reset, bit b from 0 on.          *)
BitOf(byte, n) == (byte \div 2 ^ n) % 2
i2c_transmit_byte(byte, b) ==
  IF b = 0 THEN <<<<0, 0, 0>>>>
  ELSE IF b <= BITS THEN i2c_transmit_bit(BitOf(byte, BITS - b)) ELSE i2c_receive_bit
i2c_receive_byte(ack, b) == IF b < BITS THEN i2c_receive_bit ELSE i2c_transmit_bit(1 - ack)
ResetClocks_short == 2
ResetClocks == BITS + 1
ResetClock(b) ==
  IF b = 0 THEN <<<<1, 1, 1>>>>
  ELSE IF b <= ResetClocks THEN <<<<1, 0, 1>>, <<1, 1, 1>>>> ELSE <<<<0, 0, 1>>>>

Lines(o, b) ==
  CASE o.do = "start" -> i2c_start [] o.do = "stop" -> i2c_stop
    [] o.do = "transmit" -> i2c_transmit_byte(o.arg, b)
    [] o.do = "receive" -> i2c_receive_byte(o.arg, b)
    [] o.do = "clocks" -> ResetClock(b) [] o.do = "release" -> <<<<0, 1, 1>>>>
LastBit(o) ==
  CASE o.do = "transmit" -> BITS + 1 [] o.do = "receive" -> BITS
    [] o.do = "clocks" -> ResetClocks + 1 [] OTHER -> 0

-----------------------------------------------------------------------------
(* The operations of the calls.                                            *)
Operation(what, arg) == <<[do |-> what, arg |-> arg]>>
Start == Operation("start", 0)
Stop == Operation("stop", 0)
Transmit(byte) == Operation("transmit", byte)
I2C_ADDR_WR(c) == 2 * c.to
I2C_ADDR_RD(c) == 2 * c.to + 1

(* Without a size for the address they can use, they do nothing; the bytes *)
(* of the address go from the highest to the lowest.                       *)
Refused(c) == c.op \in {"write", "read"} /\ (c.addr_size < 1 \/ c.addr_size > 4)
AddressByte(c, j) == Shifted(c.at, j) % 2 ^ BITS
AddressBytes(c) == [n \in 1 .. c.addr_size |-> Transmit(AddressByte(c, c.addr_size - n))[1]]

i2c_write(c) ==
  Start \o Transmit(I2C_ADDR_WR(c)) \o AddressBytes(c)
    \o [n \in DOMAIN c.data |-> Transmit(c.data[n])[1]] \o Stop
i2c_read(c) ==
  Start \o Transmit(I2C_ADDR_WR(c)) \o AddressBytes(c) \o (IF c.send_stop THEN Stop ELSE << >>)
    \o Start \o Transmit(I2C_ADDR_RD(c))
    \o [n \in 1 .. c.len |-> Operation("receive", IF n # c.len THEN 1 ELSE 0)[1]] \o Stop
i2c_poll(c) == Start \o Transmit(I2C_ADDR_WR(c)) \o Transmit(I2C_ADDR_RD(c)) \o Stop
i2c_reset == Operation("clocks", 0) \o Stop \o Operation("release", 0)

Body(c) ==
  CASE Refused(c) -> << >>
    [] c.op = "write" /\ ~ Refused(c) -> i2c_write(c) [] c.op = "read" /\ ~ Refused(c) -> i2c_read(c)
    [] c.op = "poll" -> i2c_poll(c) [] c.op = "reset" -> i2c_reset

-----------------------------------------------------------------------------
(* The slave.  It sees the lines, and may pull SDA low.  A byte is counted *)
(* up to BITS, its acknowledge one further.  Of the bytes it hears in state*)
(* "data", the next "left" of them are the address in its memory.          *)
Bus(o, d, out) == IF (o = 1 /\ d = 0) \/ out = 0 THEN 0 ELSE 1

Off(s) == [s EXCEPT !.state = "off", !.out = 1]
Begin(s, state) == [s EXCEPT !.state = state, !.n = 0, !.shift = 0, !.out = 1]
Sending(s, ptr) == [s EXCEPT !.state = "send", !.n = 0, !.ptr = ptr, !.out = BitOf(s.mem[ptr], BITS - 1)]
NextAddress(ptr) == (ptr + 1) % CELLS

Rises(s, level) ==
  IF s.state = "off" THEN s
  ELSE IF s.n < BITS THEN [s EXCEPT !.n = @ + 1, !.shift = IF s.state = "send" THEN 0 ELSE 2 * @ + level]
  ELSE IF s.state = "send" /\ level = 1 THEN Off(s) ELSE [s EXCEPT !.n = @ + 1]

Acknowledges(s) ==
  IF s.state = "address" /\ s.shift \div 2 # SLAVE THEN Off(s)
  ELSE [s EXCEPT !.out = 0, !.mem = IF s.state = "data" /\ s.left = 0 THEN [@ EXCEPT ![s.ptr] = s.shift] ELSE @]
HasAcknowledged(s) ==
  CASE s.state = "address" ->
         IF s.shift % 2 = 1 THEN Sending(s, s.ptr) ELSE Begin([s EXCEPT !.ptr = 0, !.left = ADDR_SIZE], "data")
    [] s.state = "data" ->
         IF s.left > 0 THEN Begin([s EXCEPT !.ptr = (2 ^ BITS * @ + s.shift) % CELLS, !.left = @ - 1], "data")
         ELSE Begin([s EXCEPT !.ptr = NextAddress(@)], "data")
    [] s.state = "send" -> Sending(s, NextAddress(s.ptr))
Falls(s) ==
  IF s.state = "off" THEN s
  ELSE IF s.n = BITS + 1 THEN HasAcknowledged(s)
  ELSE IF s.state = "send" THEN [s EXCEPT !.out = IF s.n = BITS THEN 1 ELSE BitOf(s.mem[s.ptr], BITS - 1 - s.n)]
  ELSE IF s.n = BITS THEN Acknowledges(s) ELSE s

Reaction(o, c, d) ==
  LET old == Bus(oe, sda, slave.out)
      new == Bus(o, d, slave.out)
  IN IF scl = 1 /\ c = 1 THEN IF new < old THEN Begin(slave, "address") ELSE IF new > old THEN Off(slave) ELSE slave
     ELSE IF c > scl THEN Rises(slave, new) ELSE IF c < scl THEN Falls(slave) ELSE slave

-----------------------------------------------------------------------------
EmptyMemory == [a \in Cells |-> 0]
I2cInit ==
  /\ oe = 0 /\ scl = 1 /\ sda = 1
  /\ call = NoCall /\ nth = 1 /\ bit = 0 /\ edge = 1 /\ data = 0 /\ received = << >>
  /\ slave = [state |-> "off", n |-> 0, shift |-> 0, out |-> 1, ptr |-> 0,
              left |-> 0, mem |-> EmptyMemory]
  /\ expected = EmptyMemory /\ owed = 0 /\ budget = [calls |-> MaxCalls, resets |-> MaxResets]

InCall == call # NoCall /\ nth <= Len(Body(call))
Now == Body(call)[nth]
Here == Lines(Now, bit)

i2c_oe_scl_sda ==
  /\ InCall /\ edge <= Len(Here) /\ Here[edge] # Read
  /\ \E l \in {Here[edge]} :
       oe' = l[1] /\ scl' = l[2] /\ sda' = l[3] /\ slave' = Reaction(l[1], l[2], l[3])
  /\ edge' = edge + 1 /\ UNCHANGED <<call, nth, bit, data, received, expected, owed, budget>>

ops_read ==
  /\ InCall /\ edge <= Len(Here) /\ Here[edge] = Read
  /\ data' = (2 * data + Bus(oe, sda, slave.out)) % 2 ^ BITS
  /\ edge' = edge + 1 /\ UNCHANGED <<oe, scl, sda, call, nth, bit, received, slave, expected, owed, budget>>

NextBit ==
  /\ InCall /\ edge > Len(Here) /\ bit < LastBit(Now)
  /\ bit' = bit + 1 /\ edge' = 1
  /\ UNCHANGED <<oe, scl, sda, call, nth, data, received, slave, expected, owed, budget>>

(* A byte without an acknowledge is the last before i2c_stop, except in    *)
(* i2c_poll, which only notes it.                                          *)
Go(n) == nth' = n /\ bit' = 0 /\ edge' = 1 /\ data' = 0
NextOperation ==
  /\ InCall /\ edge > Len(Here) /\ bit = LastBit(Now)
  /\ LET ack == data = 0 IN
     /\ IF Now.do = "transmit" /\ ~ ack /\ call.op # "poll" THEN Go(Len(Body(call))) ELSE Go(nth + 1)
     /\ call' = IF Now.do # "transmit" THEN call
                ELSE [call EXCEPT !.ok = IF call.op = "poll" THEN @ \/ ack ELSE ack]
  /\ received' = IF Now.do = "receive" THEN Append(received, data) ELSE received
  /\ UNCHANGED <<oe, scl, sda, slave, expected, owed, budget>>

Call(c) ==
  /\ call = NoCall
  /\ owed > 0 => c.op = "reset"
  /\ owed = 0 => budget.calls > 0
  /\ budget' = IF owed > 0 THEN budget ELSE [budget EXCEPT !.calls = @ - 1]
  /\ call' = c /\ Go(1)
  /\ UNCHANGED <<oe, scl, sda, received, slave, expected, owed>>

(* The last byte of a read is the one the master does not acknowledge: the *)
(* slave that has sent none goes on sending.                               *)
StillSends == call.op = "read" /\ call.ok /\ call.len = 0
Returned == call # NoCall /\ nth > Len(Body(call))
Return ==
  /\ Returned
  /\ owed' = IF call.op = "reset" /\ owed > 0 THEN owed - 1 ELSE IF StillSends THEN 1 ELSE 0
  /\ call' = NoCall /\ Go(1) /\ received' = << >> /\ expected' = slave.mem
  /\ UNCHANGED <<oe, scl, sda, slave, budget>>

(* The processor and its bus registers are reset, the slave is not.        *)
ProcessorReset ==
  /\ budget.resets > 0
  /\ budget' = [budget EXCEPT !.resets = @ - 1]
  /\ oe' = 0 /\ scl' = 1 /\ sda' = 1 /\ slave' = Reaction(0, 1, 1)
  /\ call' = NoCall /\ Go(1) /\ received' = << >> /\ owed' = 2
  /\ UNCHANGED expected

Calls ==
  [op : {"write"}, to : Targets, at : Addresses, addr_size : Sizes, data : Writes, ok : {FALSE}]
  \cup [op : {"read"}, to : Targets, at : Addresses, addr_size : Sizes, len : Lengths, send_stop : BOOLEAN,
        ok : {FALSE}]
  \cup [op : {"poll"}, to : Targets, ok : {FALSE}] \cup [op : {"reset"}, ok : {TRUE}]

I2cNext ==
  \/ i2c_oe_scl_sda \/ ops_read \/ NextBit \/ NextOperation \/ Return \/ ProcessorReset
  \/ \E c \in Calls : Call(c)

I2cSpec == I2cInit /\ [][I2cNext]_i2cVars

-----------------------------------------------------------------------------
Nth(at, n) == (at + n - 1) % CELLS
Stored(c, k) ==   \* k bytes of the data, where two go to one address the later
  [a \in Cells |->
    LET hits == {n \in 1 .. k : Nth(c.at, n) = a}
    IN IF hits = {} THEN expected[a] ELSE c.data[CHOOSE n \in hits : \A m \in hits : m <= n]]
BusIsFree == scl = 1 /\ Bus(oe, sda, slave.out) = 1 /\ slave.state = "off"

(* The user names a cell of the memory the way the slave takes it.         *)
Fits(c) == c.op = "poll" \/ (c.addr_size = ADDR_SIZE /\ c.at \in Cells)

(* When a call returns, the bus is free: both lines are high and the slave *)
(* waits for a START, also after an address nobody answers to, after the   *)
(* i2c_reset that follows a read of no bytes, and after the second one     *)
(* wherever a reset cut a transfer.  Only such a read leaves it as it is.  *)
(* Through all the bits, a call has done what it says: it has failed if    *)
(* its size of an address is refused or nobody is at its address, and else *)
(* succeeded; the bytes written are in the memory of the slave, from the   *)
(* cell on whose address was sent byte by byte, and nothing else has       *)
(* changed; the bytes read are those in it.                                *)
CallsAreExact ==
  Returned =>
    /\ ~ StillSends /\ (call.op = "reset" => owed < 2) => BusIsFree
    /\ call.op # "reset" =>
         /\ call.ok = (call.to = SLAVE /\ ~ Refused(call))
         /\ ~ call.ok \/ Fits(call) =>
              slave.mem = IF call.op = "write" /\ call.ok THEN Stored(call, Len(call.data)) ELSE expected
         /\ call.op = "read" /\ call.ok /\ Fits(call) =>
              received = [n \in 1 .. call.len |-> expected[Nth(call.at, n)]]
=============================================================================
