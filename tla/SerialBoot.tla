----------------------------- MODULE SerialBoot -----------------------------
(***************************************************************************)
(* Loading a program over the serial line: serialboot of                   *)
(* software/bios/boot.c against a host that sends a frame and waits for    *)
(* the reply.  The line may corrupt or lose bytes.                         *)
(*                                                                         *)
(* The host is not part of the repository.  The protocol has no sequence   *)
(* numbers, so what the host must do is part of the model: unless the      *)
(* reply is success, it lets the line fall silent, for longer than the     *)
(* timeout of the device, before it sends the frame again.                 *)
(*                                                                         *)
(* Data is abstract: a frame is a length, a checksum and a command (one    *)
(* byte each), and a payload of Length(f) bytes; byte number k of frame f  *)
(* is <<f, k>>, and a corrupted byte is Garbage.  The checksum detects     *)
(* every frame that is not the one that was sent.                          *)
(***************************************************************************)
EXTENDS Naturals, Sequences, Functions

CONSTANTS
  Chunks,         \* LOAD frames 1 .. Chunks; frame Chunks + 1 is the JUMP
  LoadLength, JumpLength,     \* payload lengths
  BadLength,      \* what a byte that is no length can be mistaken for
  MAX_FAILURES,
  MaxFaults       \* bound: faults of the line; a frame is never lost as a
                  \* whole, which the device could not notice

ASSUME SerialBootAssumption ==
  /\ {Chunks, LoadLength, JumpLength, MAX_FAILURES} \subseteq Nat \ {0}
  /\ BadLength \subseteq Nat /\ BadLength # {}
  /\ MaxFaults \in Nat /\ MaxFaults < 3 + JumpLength /\ JumpLength <= LoadLength

VARIABLES
  pc,             \* "ack", "frame", "booted", "other", "console"
  frame,          \* the bytes of the frame received so far; its length is i
  payload_length,
  timer,          \* timer0 is running
  failures,
  memory,         \* the chunks that have been copied
  down, up,       \* the serial line, to the device and to the host
  host,           \* "idle", "sending", "waiting", "quiet", "done"
  sending, at,    \* the frame of the host and its next byte
  faults          \* history: faults of the line, by frame of the host

deviceVars == <<pc, frame, payload_length, timer, failures, memory>>
hostVars   == <<host, sending, at>>
bootVars   == <<deviceVars, hostVars, down, up, faults>>

Header    == 3                                \* length, checksum, command
Jump      == Chunks + 1
Length(f) == IF f = Jump THEN JumpLength ELSE LoadLength
LastByte(f)   == Header + Length(f) - 1           \* number of its last byte
Garbage   == <<0, 0>>

BootInit ==
  /\ pc = "ack" /\ frame = << >> /\ payload_length = 0
  /\ timer = TRUE /\ failures = 0 /\ memory = {}
  /\ down = << >> /\ up = << >>
  /\ host = "idle" /\ sending = 1 /\ at = 0
  /\ faults = [f \in 1 .. Jump |-> 0]

-----------------------------------------------------------------------------
(* check_ack: the host answers the request in time, the user cancels, or   *)
(* nobody answers.                                                         *)
check_ack ==
  /\ pc = "ack"
  /\ \/ pc' = "frame" /\ host' = "sending"
     \/ pc' \in {"console", "other"} /\ UNCHANGED host
  /\ UNCHANGED <<frame, payload_length, timer, failures, memory, sending, at, down, up, faults>>

(* The loop that gets one frame.  The first byte is waited for without a   *)
(* timeout; it starts the timer.                                           *)
LengthOf(b) == IF b[2] = 0 /\ b # Garbage THEN {Length(b[1])} ELSE BadLength

GetLength ==
  /\ pc = "frame" /\ frame = << >> /\ down # << >>
  /\ payload_length' \in LengthOf(Head(down))
  /\ frame' = <<Head(down)>> /\ down' = Tail(down)
  /\ timer' = TRUE
  /\ UNCHANGED <<pc, failures, memory, up, hostVars, faults>>

Complete == Len(frame) > Header /\ Len(frame) = payload_length + Header

GetByte ==
  /\ pc = "frame" /\ frame # << >> /\ timer /\ ~ Complete /\ down # << >>
  /\ frame' = Append(frame, Head(down)) /\ down' = Tail(down)
  /\ UNCHANGED <<pc, payload_length, timer, failures, memory, up, hostVars, faults>>

(* A frame takes less time on the line than the timer runs, so that it     *)
(* expires only when no byte is under way.                                 *)
Expire ==
  /\ timer /\ pc = "frame" /\ ~ Complete
  /\ down = << >> /\ host # "sending"
  /\ timer' = FALSE
  /\ UNCHANGED <<pc, frame, payload_length, failures, memory, down, up, hostVars, faults>>

Reply(c) == up' = Append(up, c) /\ frame' = << >>

Timeout_silent ==
  /\ pc = "frame" /\ frame # << >> /\ ~ Complete /\ ~ timer
  /\ frame' = << >>
  /\ UNCHANGED <<pc, payload_length, timer, failures, memory, down, up, hostVars, faults>>

Timeout ==
  /\ pc = "frame" /\ frame # << >> /\ ~ Complete /\ ~ timer
  /\ Reply("E")
  /\ UNCHANGED <<pc, payload_length, timer, failures, memory, down, hostVars, faults>>

Intact(f) ==
  Len(frame) = LastByte(f) + 1 /\ \A k \in 1 .. LastByte(f) : frame[k + 1] = <<f, k>>


CrcError ==
  /\ pc = "frame" /\ Complete /\ \A f \in 1 .. Jump : ~ Intact(f)
  /\ Reply("C")
  /\ failures' = failures + 1
  /\ pc' = IF failures' = MAX_FAILURES THEN "other" ELSE "frame"
  /\ UNCHANGED <<payload_length, timer, memory, down, hostVars, faults>>


Load(f) ==
  /\ pc = "frame" /\ Complete /\ Intact(f) /\ f # Jump
  /\ Reply("K")
  /\ failures' = 0
  /\ memory' = memory \cup {f}
  /\ UNCHANGED <<pc, payload_length, timer, down, hostVars, faults>>

Boot ==
  /\ pc = "frame" /\ Complete /\ Intact(Jump)
  /\ Reply("K")
  /\ failures' = 0 /\ pc' = "booted"
  /\ UNCHANGED <<payload_length, timer, memory, down, hostVars, faults>>

(* In the place of any frame the host may send another command: to abort,  *)
(* or one that the device does not know.                                   *)
Abort ==
  /\ pc = "frame" /\ Complete /\ \E f \in 1 .. Jump : Intact(f)
  /\ Reply("K")
  /\ failures' = 0 /\ pc' = "other"
  /\ UNCHANGED <<payload_length, timer, memory, down, hostVars, faults>>

Unknown ==
  /\ pc = "frame" /\ Complete /\ \E f \in 1 .. Jump : Intact(f)
  /\ Reply("U")
  /\ failures' = failures + 1
  /\ pc' = IF failures' = MAX_FAILURES THEN "other" ELSE "frame"
  /\ UNCHANGED <<payload_length, timer, memory, down, hostVars, faults>>

Device ==
  \/ check_ack \/ GetLength \/ GetByte \/ Expire \/ Timeout \/ CrcError
  \/ (\E f \in 1 .. Chunks : Load(f)) \/ Boot \/ Abort \/ Unknown

-----------------------------------------------------------------------------
(* The host and the line.                                                  *)
Total == FoldFunction(+, 0, faults)

Arrives(b) ==
  \/ down' = Append(down, b) /\ UNCHANGED faults
  \/ /\ Total < MaxFaults
     /\ faults' = [faults EXCEPT ![sending] = @ + 1]
     /\ down' \in {down, Append(down, Garbage)}

Send ==
  /\ host = "sending"
  /\ Arrives(<<sending, at>>)
  /\ \/ at < LastByte(sending) /\ at' = at + 1 /\ UNCHANGED host
     \/ at = LastByte(sending) /\ at' = 0 /\ host' = "waiting"
  /\ UNCHANGED <<sending, up, deviceVars>>

Answered ==
  /\ host = "waiting" /\ up # << >>
  /\ up' = Tail(up)
  /\ \/ /\ Head(up) = "K" /\ sending < Jump
        /\ sending' = sending + 1 /\ host' = "sending"
     \/ /\ Head(up) = "K" /\ sending = Jump
        /\ host' = "done" /\ UNCHANGED sending
     \/ /\ Head(up) # "K"
        /\ host' = "quiet" /\ UNCHANGED sending
  /\ UNCHANGED <<at, down, faults, deviceVars>>

(* Replies to what is left of a broken frame are dropped.                  *)
Drain ==
  /\ host = "quiet" /\ up # << >>
  /\ up' = Tail(up)
  /\ UNCHANGED <<hostVars, down, faults, deviceVars>>

Resend ==
  /\ host = "quiet" /\ up = << >> /\ down = << >> /\ frame = << >> /\ pc = "frame"
  /\ host' = "sending"
  /\ UNCHANGED <<sending, at, up, down, faults, deviceVars>>

Host == Send \/ Answered \/ Drain \/ Resend

BootNext == Device \/ Host

BootSpec == BootInit /\ [][BootNext]_bootVars

-----------------------------------------------------------------------------
(* The device jumps only into a complete program, whatever bytes the line  *)
(* has corrupted or lost and however the rest of a broken frame is taken   *)
(* for other frames.                                                       *)
JumpHasImage == pc = "booted" => memory = 1 .. Chunks

=============================================================================
