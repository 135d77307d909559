----------------------------- MODULE BootProofs -----------------------------
(***************************************************************************)
(* Nothing incomplete is started: proofs about SerialBoot and BootSequence.*)
(***************************************************************************)
EXTENDS BootSequence, SequenceTheorems, TLAPS

(***************************************************************************)
(* The serial loader.  That a jump finds the whole program rests on what a *)
(* reply means to the host: a "K" is the answer to the frame it has sent   *)
(* last, all of it.  The device sends one only for the bytes 1 .. LastByte *)
(* of one frame in a row with one byte before them, and once it has taken  *)
(* any byte of a round for a frame that failed, no such row is left: byte  *)
(* 1 is the first of what still comes, or gone.                            *)
(***************************************************************************)
Byte   == Nat \X Nat
Stream == frame \o down                  \* what the device has not disposed of

SerialTypeOK ==
  /\ pc \in {"ack", "frame", "booted", "other", "console", "after"}
  /\ frame \in Seq(Byte) /\ down \in Seq(Byte) /\ up \in Seq({"E", "C", "U", "K"})
  /\ payload_length \in Nat
  /\ host \in {"idle", "sending", "waiting", "quiet", "done"}
  /\ sending \in 1 .. Jump /\ at \in 0 .. LastByte(sending)
  /\ host # "sending" => at = 0

(* The bytes are of the frame of the host, the last of them at the end.    *)
RoundOK ==
  \A i \in 1 .. Len(Stream) :
    /\ Stream[i] = Garbage \/ Stream[i][1] = sending
    /\ Stream[i][1] = sending /\ host = "sending" => Stream[i][2] < at
    /\ Stream[i] = <<sending, LastByte(sending)>> => i = Len(Stream)

(* An intact frame is still possible only if nothing has been replied.     *)
StartOK ==
  /\ host = "sending" => Len(Stream) + Len(up) <= at
  /\ \A i \in 2 .. Len(Stream) :
       Stream[i] = <<sending, 1>> => i = 2 /\ up = << >> /\ host \in {"sending", "waiting"}

Success == \E i \in 1 .. Len(up) : up[i] = "K"
MemoryOK ==
  IF Success THEN /\ up = <<"K">> /\ Stream = << >> /\ host = "waiting"
                  /\ pc # "other" => memory = (1 .. sending) \ {Jump}
  ELSE pc # "other" => memory = 1 .. sending - 1

(* Nothing is on the line before the host has been asked.                  *)
IdleOK ==
  /\ pc = "ack" => host = "idle"
  /\ host = "idle" => pc # "frame" /\ Stream = << >> /\ up = << >>

SerialInv == SerialTypeOK /\ RoundOK /\ StartOK /\ IdleOK /\ MemoryOK /\ JumpHasImage

(* A frame has a last byte, behind its first four.                         *)
LEMMA FrameLength ==
  /\ Chunks \in Nat \ {0} /\ Jump = Chunks + 1 /\ Garbage \in Byte /\ Garbage[1] = 0
  /\ \A f \in 1 .. Jump : Length(f) \in Nat \ {0} /\ LastByte(f) \in Nat /\ LastByte(f) >= 3
<1>1. {Chunks, LoadLength, JumpLength} \subseteq Nat \ {0}
  BY SerialBootAssumption
<1>2. QED
  BY <1>1 DEF Jump, Garbage, Byte, Length, LastByte, Header

(* A byte that is read stays in the stream, one that is sent comes last.   *)
LEMMA ReadByte ==
  ASSUME NEW f \in Seq(Byte), NEW d \in Seq(Byte), d # << >>
  PROVE  /\ Append(f, Head(d)) \in Seq(Byte) /\ Tail(d) \in Seq(Byte)
         /\ Append(f, Head(d)) \o Tail(d) = f \o d
<1>1. /\ Head(d) \in Byte /\ Tail(d) \in Seq(Byte) /\ Len(Tail(d)) = Len(d) - 1
      /\ \A i \in 1 .. Len(Tail(d)) : Tail(d)[i] = d[i + 1]
  BY HeadTailProperties
<1>2. Append(f, Head(d)) \in Seq(Byte) /\ Len(Append(f, Head(d))) = Len(f) + 1
  BY <1>1, AppendProperties
<1>3. d = <<Head(d)>> \o Tail(d)
  OBVIOUS
<1>4. Append(f, Head(d)) = f \o <<Head(d)>>
  BY <1>1, AppendIsConcat
<1>5. <<Head(d)>> \in Seq(Byte)
  BY <1>1
<1>6. (f \o <<Head(d)>>) \o Tail(d) = f \o (<<Head(d)>> \o Tail(d))
  BY <1>1, <1>5, ConcatAssociative
<1>7. QED
  BY <1>1, <1>2, <1>3, <1>4, <1>6

LEMMA SentByte ==
  ASSUME NEW f \in Seq(Byte), NEW d \in Seq(Byte), NEW b \in Byte
  PROVE  /\ Append(d, b) \in Seq(Byte) /\ f \o Append(d, b) = Append(f \o d, b)
         /\ f \o d \in Seq(Byte) /\ Len(f \o d) = Len(f) + Len(d)
<1>1. /\ f \o d \in Seq(Byte) /\ Append(d, b) = d \o <<b>> /\ Append(f \o d, b) = (f \o d) \o <<b>>
      /\ <<b>> \in Seq(Byte) /\ Append(d, b) \in Seq(Byte)
  BY ConcatProperties, AppendIsConcat, AppendProperties
<1>2. (f \o d) \o <<b>> = f \o (d \o <<b>>)
  BY <1>1, ConcatAssociative
<1>3. QED
  BY <1>1, <1>2, ConcatProperties

(* Without what has been read so far the stream is shorter.                *)
LEMMA DroppedFrame ==
  ASSUME NEW f \in Seq(Byte), NEW d \in Seq(Byte)
  PROVE  /\ << >> \o d = d /\ Len(f \o d) = Len(f) + Len(d) /\ Len(f) \in Nat /\ Len(d) \in Nat
         /\ \A i \in 1 .. Len(d) : (f \o d)[Len(f) + i] = d[i]
         /\ \A i \in 1 .. Len(f) : (f \o d)[i] = f[i]
<1>1. Len(f) \in Nat /\ Len(d) \in Nat /\ Len(f \o d) = Len(f) + Len(d)
  BY ConcatProperties, LenProperties
<1>2. \A i \in 1 .. Len(f) + Len(d) : (f \o d)[i] = IF i <= Len(f) THEN f[i] ELSE d[i - Len(f)]
  BY ConcatProperties
<1>3. \A i \in 1 .. Len(d) : (f \o d)[Len(f) + i] = d[i]
  <2>1. TAKE i \in 1 .. Len(d)
  <2>2. Len(f) + i \in 1 .. Len(f) + Len(d) /\ ~ (Len(f) + i <= Len(f)) /\ Len(f) + i - Len(f) = i
    BY <1>1
  <2>3. QED
    BY <1>2, <2>2
<1>4. \A i \in 1 .. Len(f) : (f \o d)[i] = f[i]
  BY <1>1, <1>2
<1>5. QED
  BY <1>1, <1>3, <1>4, ConcatEmptySeq

(* Reading a byte, and all else that leaves the stream and the host alone. *)
LEMMA SameStream ==
  ASSUME SerialInv, UNCHANGED <<hostVars, up, memory>>, Stream' = Stream,
         frame' \in Seq(Byte), down' \in Seq(Byte), payload_length' \in Nat, pc' = pc
  PROVE  SerialInv'
<1>1. SerialTypeOK'
  BY DEF SerialInv, SerialTypeOK, hostVars
<1>2. RoundOK' /\ StartOK' /\ IdleOK' /\ MemoryOK' /\ JumpHasImage'
  BY Zenon DEF SerialInv, RoundOK, StartOK, IdleOK, MemoryOK, Success, JumpHasImage, hostVars
<1>3. QED
  BY <1>1, <1>2 DEF SerialInv

(* A frame that failed is gone, and there is one more reply.               *)
LEMMA FrameFails ==
  ASSUME SerialInv, frame # << >>, UNCHANGED <<hostVars, down, memory, payload_length>>,
         frame' = << >>, NEW c \in {"E", "C", "U"}, up' = Append(up, c),
         pc = "frame", pc' \in {"frame", "other"}
  PROVE  SerialInv'
<1> USE DEF hostVars
<1>1. SerialTypeOK
  BY DEF SerialInv
<1>2. /\ frame \in Seq(Byte) /\ down \in Seq(Byte) /\ up \in Seq({"E", "C", "U", "K"})
      /\ payload_length \in Nat
  BY <1>1 DEF SerialTypeOK
<1>3. /\ up' \in Seq({"E", "C", "U", "K"}) /\ Len(up') = Len(up) + 1 /\ Len(up) \in Nat
      /\ \A i \in 1 .. Len(up) : up'[i] = up[i]
      /\ up'[Len(up) + 1] = c
  BY <1>2, AppendProperties, LenProperties
<1>4. SerialTypeOK'
  BY <1>1, <1>3 DEF SerialTypeOK
<1>5. /\ Stream' = down /\ Len(Stream) = Len(frame) + Len(down) /\ Len(frame) \in Nat /\ Len(down) \in Nat
      /\ \A i \in 1 .. Len(down) : Stream[Len(frame) + i] = down[i]
  BY <1>2, DroppedFrame DEF Stream
<1>6. Len(frame) >= 1
  BY <1>2
<1>7. \A i \in 1 .. Len(Stream') :
        Len(frame) + i \in 1 .. Len(Stream) /\ Stream'[i] = Stream[Len(frame) + i]
  BY <1>5, <1>6
<1>8. RoundOK'
  <2>1. SUFFICES ASSUME NEW i \in 1 .. Len(Stream')
                 PROVE  /\ Stream'[i] = Garbage \/ Stream'[i][1] = sending
                        /\ Stream'[i][1] = sending /\ host = "sending" => Stream'[i][2] < at
                        /\ Stream'[i] = <<sending, LastByte(sending)>> => i = Len(Stream')
    BY Zenon DEF RoundOK
  <2>2. PICK n : n = Len(frame) + i
    OBVIOUS
  <2>3. n \in 1 .. Len(Stream) /\ Stream'[i] = Stream[n]
    BY <1>7, <2>2
  <2>4. /\ Stream[n] = Garbage \/ Stream[n][1] = sending
        /\ Stream[n][1] = sending /\ host = "sending" => Stream[n][2] < at
        /\ Stream[n] = <<sending, LastByte(sending)>> => n = Len(Stream)
    BY <2>3 DEF SerialInv, RoundOK
  <2>5. n = Len(Stream) => i = Len(Stream')
    BY <1>5, <2>2
  <2>6. QED
    BY Zenon, <2>3, <2>4, <2>5
<1>9. ~ Success /\ ~ Success'
  <2>1. Stream # << >>
    BY <1>5, <1>6
  <2>2. ~ Success
    BY <2>1 DEF SerialInv, MemoryOK
  <2>3. QED
    BY <2>2, <1>3 DEF Success
<1>10. StartOK'
  <2>1. host = "sending" => Len(Stream') + Len(up') <= at
    BY <1>1, <1>3, <1>5, <1>6 DEF SerialInv, StartOK, SerialTypeOK
  <2>2. ASSUME NEW i \in 2 .. Len(Stream'), Stream'[i] = <<sending, 1>>  PROVE FALSE
    <3>1. PICK n : n = Len(frame) + i
      OBVIOUS
    <3>2. n \in 2 .. Len(Stream) /\ n # 2
      BY <3>1, <1>5, <1>6, <2>2
    <3>3. Stream[n] = <<sending, 1>>
      BY <3>1, <1>5, <2>2
    <3>4. QED
      BY <3>2, <3>3 DEF SerialInv, StartOK
  <2>3. QED
    BY <2>1, <2>2 DEF StartOK
<1>11. host # "idle"
  BY DEF SerialInv, IdleOK
<1>12. IdleOK' /\ JumpHasImage'
  BY <1>11 DEF IdleOK, JumpHasImage
<1>13. MemoryOK'
  BY <1>9 DEF SerialInv, MemoryOK
<1>14. QED
  BY <1>4, <1>8, <1>10, <1>12, <1>13 DEF SerialInv

(* A frame that is intact is the one the host has sent, all of it, and     *)
(* nothing else is on the line.                                            *)
LEMMA IntactFrame ==
  ASSUME SerialInv, NEW f \in 1 .. Jump, Intact(f), pc = "frame"
  PROVE  /\ f = sending /\ host = "waiting" /\ up = << >> /\ down = << >> /\ memory = 1 .. sending - 1
         /\ frame # << >>
<1>1. LastByte(f) \in Nat /\ LastByte(f) >= 3 /\ Jump \in Nat /\ Garbage[1] = 0
  BY FrameLength
<1>2. /\ frame \in Seq(Byte) /\ down \in Seq(Byte) /\ at \in 0 .. LastByte(sending) /\ sending \in 1 .. Jump
      /\ LastByte(sending) \in Nat
  BY FrameLength DEF SerialInv, SerialTypeOK
<1>3. /\ Len(frame) = LastByte(f) + 1 /\ frame[2] = <<f, 1>>
      /\ frame[LastByte(f) + 1] = <<f, LastByte(f)>>
  <2>1. 1 \in 1 .. LastByte(f) /\ LastByte(f) \in 1 .. LastByte(f)
    BY <1>1
  <2>2. QED
    BY <2>1, <1>1 DEF Intact
<1>4. /\ Len(Stream) = Len(frame) + Len(down) /\ Len(down) \in Nat
      /\ \A i \in 1 .. Len(frame) : Stream[i] = frame[i]
  BY <1>2, DroppedFrame DEF Stream
<1>5. /\ 2 \in 2 .. Len(Stream) /\ Stream[2] = <<f, 1>>
      /\ Stream[Len(frame)] = <<f, LastByte(f)>> /\ Len(frame) \in 1 .. Len(Stream) /\ 2 \in 1 .. Len(Stream)
  BY <1>1, <1>3, <1>4
<1>6. f = sending
  <2>1. Stream[2] = Garbage \/ Stream[2][1] = sending
    BY <1>5 DEF SerialInv, RoundOK
  <2>2. <<f, 1>>[1] = f /\ f # 0
    OBVIOUS
  <2>3. QED
    BY <2>1, <2>2, <1>5, <1>1
<1>7. up = << >> /\ host \in {"sending", "waiting"}
  BY <1>5, <1>6 DEF SerialInv, StartOK
<1>8. Len(frame) = Len(Stream) /\ (host = "sending" => LastByte(sending) < at)
  BY <1>5, <1>6 DEF SerialInv, RoundOK
<1>9. host = "waiting"
  BY <1>7, <1>8, <1>2
<1>10. down = << >>
  <2>1. Len(down) = 0
    BY <1>3, <1>4, <1>8, <1>1
  <2>2. QED
    BY <2>1, <1>2, EmptySeq
<1>11. ~ Success
  BY <1>7 DEF Success
<1>12. QED
  BY <1>3, <1>1, <1>6, <1>7, <1>9, <1>10, <1>11 DEF SerialInv, MemoryOK

(* A frame that is obeyed empties the line, but for the reply.             *)
LEMMA FrameObeyed ==
  ASSUME SerialInv, NEW f \in 1 .. Jump, Intact(f), pc = "frame",
         UNCHANGED <<hostVars, down, payload_length>>, Reply("K"),
         \/ f # Jump /\ memory' = memory \cup {f} /\ pc' = pc
         \/ f = Jump /\ memory' = memory /\ pc' = "booted"
         \/ memory' = memory /\ pc' = "other"
  PROVE  SerialInv'
<1> USE DEF hostVars
<1>1. /\ f = sending /\ host = "waiting" /\ up = << >> /\ down = << >> /\ memory = 1 .. sending - 1
  BY IntactFrame
<1>2. frame' = << >> /\ up' = <<"K">> /\ Stream' = << >>
  <2>1. frame' = << >> /\ up' = Append(up, "K") /\ down' = << >>
    BY <1>1 DEF Reply
  <2>2. << >> \o << >> = << >> /\ Append(<< >>, "K") = <<"K">>
    OBVIOUS
  <2>3. QED
    BY <2>1, <2>2, <1>1 DEF Stream
<1>3. /\ up' \in Seq({"E", "C", "U", "K"}) /\ Len(up') = 1 /\ up'[1] = "K" /\ Len(Stream') = 0
      /\ frame' \in Seq(Byte)
  BY <1>2
<1>4. SerialTypeOK'
  BY <1>3 DEF SerialInv, SerialTypeOK
<1>5. RoundOK' /\ StartOK' /\ IdleOK'
  BY <1>1, <1>3 DEF RoundOK, StartOK, IdleOK
<1>6. pc' # "other" => memory' = (1 .. sending) \ {Jump}
  BY <1>1, FrameLength
<1>7. Success'
  BY <1>3 DEF Success
<1>8. MemoryOK'
  BY <1>1, <1>2, <1>6, <1>7 DEF MemoryOK
<1>9. JumpHasImage'
  BY <1>1, FrameLength DEF JumpHasImage
<1>10. QED
  BY <1>4, <1>5, <1>8, <1>9 DEF SerialInv

(* The bytes the host puts on the line, or the noise they become.          *)
LEMMA SendKeeps ==
  ASSUME SerialInv, Send
  PROVE  SerialInv'
<1>0. /\ host = "sending" /\ UNCHANGED <<sending, up, pc, frame, payload_length, memory>>
      /\ \/ at < LastByte(sending) /\ at' = at + 1 /\ host' = host
         \/ at = LastByte(sending) /\ at' = 0 /\ host' = "waiting"
      /\ \/ down' = down
         \/ \E b \in {Garbage, <<sending, at>>} : down' = Append(down, b)
  BY DEF Send, Arrives, deviceVars
<1>1. /\ frame \in Seq(Byte) /\ down \in Seq(Byte) /\ at \in 0 .. LastByte(sending) /\ sending \in 1 .. Jump
      /\ LastByte(sending) \in Nat /\ LastByte(sending) >= 3 /\ Jump \in Nat
      /\ Garbage[1] = 0 /\ Garbage \in Byte /\ up \in Seq({"E", "C", "U", "K"}) /\ Len(up) \in Nat
  BY FrameLength, LenProperties DEF SerialInv, SerialTypeOK
<1>2. <<sending, at>> \in Byte
  BY <1>1 DEF Byte
<1>3. /\ down' \in Seq(Byte) /\ Len(Stream) \in Nat /\ Stream \in Seq(Byte)
      /\ \/ Stream' = Stream
         \/ \E b \in {Garbage, <<sending, at>>} : Stream' = Append(Stream, b)
  <2>1. Stream \in Seq(Byte) /\ Len(Stream) \in Nat
    BY <1>1, <1>2, SentByte, LenProperties DEF Stream
  <2>2. CASE down' = down
    BY <2>1, <2>2, <1>0, <1>1 DEF Stream
  <2>3. ASSUME NEW b \in {Garbage, <<sending, at>>}, down' = Append(down, b)
        PROVE  down' \in Seq(Byte) /\ Stream' = Append(Stream, b)
    <3>1. b \in Byte
      BY <1>1, <1>2
    <3>2. Append(down, b) \in Seq(Byte) /\ frame \o Append(down, b) = Append(frame \o down, b)
      BY <3>1, <1>1, SentByte
    <3>3. QED
      BY <3>2, <2>3, <1>0 DEF Stream
  <2>4. QED
    BY <2>1, <2>2, <2>3, <1>0
<1>4. \/ Stream' = Stream
      \/ /\ Len(Stream') = Len(Stream) + 1 /\ \A i \in 1 .. Len(Stream) : Stream'[i] = Stream[i]
         /\ Stream'[Len(Stream) + 1] \in {Garbage, <<sending, at>>}
  <2>1. ASSUME NEW b \in {Garbage, <<sending, at>>}, Stream' = Append(Stream, b)
        PROVE  /\ Len(Stream') = Len(Stream) + 1 /\ \A i \in 1 .. Len(Stream) : Stream'[i] = Stream[i]
               /\ Stream'[Len(Stream) + 1] \in {Garbage, <<sending, at>>}
    <3>1. b \in Byte
      BY <1>1, <1>2
    <3>2. /\ Len(Append(Stream, b)) = Len(Stream) + 1 /\ Append(Stream, b)[Len(Stream) + 1] = b
          /\ \A i \in 1 .. Len(Stream) : Append(Stream, b)[i] = Stream[i]
      BY <3>1, <1>3, AppendProperties
    <3>3. QED
      BY <3>2, <2>1
  <2>2. QED
    BY <2>1, <1>3
<1>5. /\ \A i \in 1 .. Len(Stream) :
           /\ Stream[i] = Garbage \/ Stream[i][1] = sending
           /\ Stream[i][1] = sending => Stream[i][2] < at
           /\ Stream[i] # <<sending, LastByte(sending)>>
           /\ Stream[i] = <<sending, 1>> /\ i >= 2 => i = 2 /\ up = << >>
      /\ Len(Stream) + Len(up) <= at
  <2>1. Len(Stream) + Len(up) <= at
    BY <1>0 DEF SerialInv, StartOK
  <2>2. SUFFICES ASSUME NEW i \in 1 .. Len(Stream)
                 PROVE  /\ Stream[i] = Garbage \/ Stream[i][1] = sending
                        /\ Stream[i][1] = sending => Stream[i][2] < at
                        /\ Stream[i] # <<sending, LastByte(sending)>>
                        /\ Stream[i] = <<sending, 1>> /\ i >= 2 => i = 2 /\ up = << >>
    BY <2>1
  <2>3. /\ Stream[i] = Garbage \/ Stream[i][1] = sending
        /\ Stream[i][1] = sending => Stream[i][2] < at
    BY <1>0 DEF SerialInv, RoundOK
  <2>4. Stream[i] # <<sending, LastByte(sending)>>
    <3>1. SUFFICES ASSUME Stream[i] = <<sending, LastByte(sending)>> PROVE FALSE
      OBVIOUS
    <3>2. Stream[i][1] = sending /\ Stream[i][2] = LastByte(sending)
      BY <3>1
    <3>3. QED
      BY <3>2, <2>3, <1>1
  <2>5. Stream[i] = <<sending, 1>> /\ i >= 2 => i = 2 /\ up = << >>
    BY <1>3 DEF SerialInv, StartOK
  <2>6. QED
    BY <2>3, <2>4, <2>5
<1>6. ASSUME NEW i \in 1 .. Len(Stream')
       PROVE  \/ i \in 1 .. Len(Stream) /\ Stream'[i] = Stream[i]
              \/ i = Len(Stream) + 1 /\ i = Len(Stream') /\ Stream'[i] \in {Garbage, <<sending, at>>}
  <2>1. CASE Stream' = Stream
    BY <2>1
  <2>2. CASE Stream' # Stream
    <3>1. i \in 1 .. Len(Stream) \/ i = Len(Stream) + 1
      BY <2>2, <1>3, <1>4
    <3>2. QED
      BY <3>1, <2>2, <1>4
  <2>3. QED
    BY <2>1, <2>2
<1>7. SerialTypeOK'
  <2>1. at' \in 0 .. LastByte(sending)
    BY <1>0, <1>1
  <2>2. at' \in 0 .. LastByte(sending')
    BY <2>1, <1>0 DEF LastByte, Length
  <2>3. host' # "sending" => at' = 0
    BY <1>0
  <2>4. host' \in {"sending", "waiting"}
    BY <1>0
  <2>5. QED
    BY <2>2, <2>3, <2>4, <1>0, <1>1, <1>3 DEF SerialInv, SerialTypeOK
<1>8. RoundOK'
  <2>1. SUFFICES ASSUME NEW i \in 1 .. Len(Stream')
                 PROVE  /\ Stream'[i] = Garbage \/ Stream'[i][1] = sending
                        /\ Stream'[i][1] = sending /\ host' = "sending" => Stream'[i][2] < at'
                        /\ Stream'[i] = <<sending, LastByte(sending)>> => i = Len(Stream')
    BY <1>0, Zenon DEF RoundOK, LastByte, Length
  <2>2. CASE i \in 1 .. Len(Stream) /\ Stream'[i] = Stream[i]
    <3>1. /\ Stream[i] = Garbage \/ Stream[i][1] = sending
          /\ Stream[i][1] = sending => Stream[i][2] < at
          /\ Stream[i] # <<sending, LastByte(sending)>>
      BY <2>2, <1>5
    <3>2. host' = "sending" => at' = at + 1
      BY <1>0
    <3>3. Stream[i][1] = sending => Stream[i][2] \in Nat
      BY <1>3, <2>2 DEF Byte
    <3>4. QED
      BY <2>2, <3>1, <3>2, <3>3, <1>1
  <2>3. CASE i = Len(Stream) + 1 /\ i = Len(Stream') /\ Stream'[i] \in {Garbage, <<sending, at>>}
    <3>1. /\ Stream'[i] = Garbage \/ Stream'[i][1] = sending
          /\ Stream'[i][1] = sending => Stream'[i][2] = at
      BY <2>3, <1>1
    <3>2. host' = "sending" => at' = at + 1
      BY <1>0
    <3>3. Stream'[i][1] = sending /\ host' = "sending" => Stream'[i][2] < at'
      BY <3>1, <3>2, <1>1
    <3>4. QED
      BY <3>1, <3>3, <2>3
  <2>4. QED
    BY <2>2, <2>3, <1>6
<1>9. StartOK'
  <2>1. host' = "sending" => Len(Stream') + Len(up') <= at'
    <3>1. Len(Stream') <= Len(Stream) + 1 /\ Len(Stream') \in Nat
      BY <1>3, <1>4
    <3>2. host' = "sending" => at' = at + 1
      BY <1>0
    <3>3. up' = up /\ Len(Stream) + Len(up) <= at
      BY <1>0, <1>5
    <3>4. QED
      BY <3>1, <3>2, <3>3, <1>1, <1>3
  <2>2. ASSUME NEW i \in 2 .. Len(Stream'), Stream'[i] = <<sending, 1>>
        PROVE  i = 2 /\ up = << >>
    <3>1. CASE i \in 1 .. Len(Stream) /\ Stream'[i] = Stream[i]
      <4>1. Stream[i] = <<sending, 1>> /\ i >= 2
        BY <3>1, <2>2
      <4>2. QED
        BY <4>1, <3>1, <1>5
    <3>2. CASE i = Len(Stream) + 1 /\ Stream'[i] \in {Garbage, <<sending, at>>}
      <4>1. at = 1
        BY <3>2, <2>2, <1>1 DEF Garbage
      <4>2. i = 2 /\ Len(up) = 0
        BY <4>1, <3>2, <1>1, <1>3, <1>5
      <4>3. QED
        BY <4>2, <1>1, EmptySeq
    <3>3. i \in 1 .. Len(Stream')
      BY <1>1, <1>3, <1>4
    <3>4. QED
      BY <3>1, <3>2, <3>3, <1>6
  <2>3. host' \in {"sending", "waiting"} /\ up' = up /\ sending' = sending
    BY <1>0
  <2>4. QED
    BY <2>1, <2>2, <2>3 DEF StartOK
<1>10. IdleOK' /\ JumpHasImage'
  BY <1>0 DEF SerialInv, IdleOK, JumpHasImage
<1>11. MemoryOK'
  <2>1. ~ Success /\ (pc # "other" => memory = 1 .. sending - 1)
    BY <1>0 DEF SerialInv, MemoryOK
  <2>2. ~ Success'
    BY <2>1, <1>0 DEF Success
  <2>3. QED
    BY <2>1, <2>2, <1>0 DEF MemoryOK
<1>12. QED
  BY <1>7, <1>8, <1>9, <1>10, <1>11 DEF SerialInv

(* The host takes a reply.                                                 *)
LEMMA ReplyTaken ==
  ASSUME SerialInv, Answered \/ Drain
  PROVE  SerialInv'
<1>0. /\ up # << >> /\ up' = Tail(up) /\ UNCHANGED <<at, down, pc, frame, payload_length, memory>>
      /\ \/ /\ host = "waiting" /\ Head(up) = "K" /\ sending < Jump
            /\ sending' = sending + 1 /\ host' = "sending"
         \/ /\ host = "waiting" /\ Head(up) = "K" /\ sending = Jump
            /\ host' = "done" /\ sending' = sending
         \/ /\ (host = "waiting" /\ Head(up) # "K") \/ host = "quiet"
            /\ host' = "quiet" /\ sending' = sending
  BY DEF Answered, Drain, deviceVars, hostVars
<1>1. /\ up \in Seq({"E", "C", "U", "K"}) /\ sending \in 1 .. Jump /\ Jump \in Nat /\ at = 0
      /\ pc \in {"ack", "frame", "booted", "other", "console", "after"}
      /\ frame \in Seq(Byte) /\ down \in Seq(Byte) /\ payload_length \in Nat
  BY <1>0, FrameLength DEF SerialInv, SerialTypeOK
<1>2. /\ up' \in Seq({"E", "C", "U", "K"}) /\ Head(up) = up[1] /\ Len(up') = Len(up) - 1 /\ Len(up) \in Nat
      /\ Len(up) >= 1 /\ \A i \in 1 .. Len(up') : up'[i] = up[i + 1]
  <2>1. /\ Head(up) \in {"E", "C", "U", "K"} /\ Tail(up) \in Seq({"E", "C", "U", "K"}) /\ Len(Tail(up)) = Len(up) - 1
        /\ \A i \in 1 .. Len(Tail(up)) : Tail(up)[i] = up[i + 1]
    BY <1>0, <1>1, HeadTailProperties
  <2>2. Head(up) = up[1] /\ Len(up) \in Nat /\ Len(up) >= 1
    BY <1>0, <1>1
  <2>3. QED
    BY <1>0, <2>1, <2>2
<1>3. Stream' = Stream
  BY <1>0 DEF Stream
<1>4. host # "idle" /\ pc # "ack"
  BY <1>0 DEF SerialInv, IdleOK
<1>5. IdleOK' /\ JumpHasImage'
  BY <1>0, <1>4 DEF SerialInv, IdleOK, JumpHasImage
<1>6. CASE host = "waiting" /\ Head(up) = "K"
  <2>1. Success
    BY <1>6, <1>2 DEF Success
  <2>2. /\ up = <<"K">> /\ Stream = << >>
        /\ pc # "other" => memory = (1 .. sending) \ {Jump}
    BY <2>1 DEF SerialInv, MemoryOK
  <2>3. Len(up) = 1 /\ Len(Stream') = 0 /\ Stream' = << >>
    BY <2>2, <1>3
  <2>4. SerialTypeOK'
    <3>1. sending' \in 1 .. Jump /\ host' \in {"sending", "done"}
      BY <1>0, <1>1, <1>6
    <3>2. at' \in 0 .. LastByte(sending')
      BY <3>1, <1>0, <1>1, FrameLength
    <3>3. QED
      BY <3>1, <3>2, <1>0, <1>1, <1>2 DEF SerialTypeOK, LastByte, Length
  <2>5. ~ Success'
    BY <1>2, <2>3 DEF Success
  <2>6. pc' # "other" => memory' = 1 .. sending' - 1
    <3>1. CASE sending < Jump /\ sending' = sending + 1
      <4>1. (1 .. sending) \ {Jump} = 1 .. sending
        BY <1>1, <3>1
      <4>2. sending' - 1 = sending
        BY <1>1, <3>1
      <4>3. QED
        BY <4>1, <4>2, <2>2, <1>0
    <3>2. CASE sending = Jump /\ sending' = sending
      <4>1. (1 .. sending) \ {Jump} = 1 .. sending - 1
        BY <1>1, <3>2
      <4>2. QED
        BY <4>1, <3>2, <2>2, <1>0
    <3>3. QED
      BY <3>1, <3>2, <1>0, <1>6
  <2>7. RoundOK' /\ StartOK' /\ MemoryOK'
    <3>1. RoundOK'
      BY <2>3 DEF RoundOK
    <3>2. Len(Stream') + Len(up') <= at'
      BY <2>3, <1>2, <1>1, <1>0
    <3>3. StartOK'
      BY <2>3, <3>2 DEF StartOK
    <3>4. QED
      BY <3>1, <3>3, <2>5, <2>6 DEF MemoryOK
  <2>8. QED
    BY <1>5, <2>4, <2>7 DEF SerialInv
<1>7. CASE host = "quiet" \/ Head(up) # "K"
  <2>1. host' = "quiet" /\ sending' = sending /\ host # "sending"
    BY <1>0, <1>7
  <2>2. SerialTypeOK'
    BY <2>1, <1>0, <1>1, <1>2 DEF SerialInv, SerialTypeOK
  <2>3. RoundOK'
    BY <2>1, <1>3, Zenon DEF SerialInv, RoundOK, LastByte, Length
  <2>4. StartOK'
    BY <2>1, <1>0, <1>3 DEF SerialInv, StartOK
  <2>5. ~ Success
    <3>1. SUFFICES ASSUME Success PROVE FALSE
      OBVIOUS
    <3>2. up = <<"K">> /\ host = "waiting"
      BY <3>1 DEF SerialInv, MemoryOK
    <3>3. QED
      BY <3>2, <1>7
  <2>6. ~ Success'
    <3>1. SUFFICES ASSUME NEW i \in 1 .. Len(up'), up'[i] = "K" PROVE FALSE
      BY DEF Success
    <3>2. i + 1 \in 1 .. Len(up) /\ up[i + 1] = "K"
      BY <3>1, <1>2
    <3>3. QED
      BY <3>2, <2>5 DEF Success
  <2>7. MemoryOK'
    BY <2>1, <2>5, <2>6, <1>0 DEF SerialInv, MemoryOK
  <2>8. QED
    BY <1>5, <2>2, <2>3, <2>4, <2>7 DEF SerialInv
<1>8. QED
  BY <1>0, <1>6, <1>7

(* The loader as it starts, and as it is left behind when it gives up.     *)
SerialFresh ==
  /\ frame = << >> /\ down = << >> /\ up = << >> /\ payload_length = 0 /\ memory = {}
  /\ host = "idle" /\ sending = 1 /\ at = 0 /\ pc \in {"ack", "after"}

LEMMA SerialStart == SerialFresh => SerialInv
<1> SUFFICES ASSUME SerialFresh PROVE SerialInv
  OBVIOUS
<1> USE DEF SerialFresh
<1>1. Stream = << >> /\ Len(Stream) = 0 /\ Len(up) = 0
  BY DEF Stream
<1>2. ~ Success
  BY <1>1 DEF Success
<1>3. memory = 1 .. sending - 1
  OBVIOUS
<1>4. SerialTypeOK
  BY FrameLength DEF SerialTypeOK
<1>5. RoundOK /\ StartOK /\ IdleOK
  BY <1>1 DEF RoundOK, StartOK, IdleOK
<1>6. QED
  BY <1>2, <1>3, <1>4, <1>5 DEF SerialInv, MemoryOK, JumpHasImage

LEMMA DeviceKeeps ==
  ASSUME SerialInv, Device
  PROVE  SerialInv'
<1> USE DEF hostVars
<1>1. /\ frame \in Seq(Byte) /\ down \in Seq(Byte) /\ payload_length \in Nat /\ Jump \in Nat
  BY FrameLength DEF SerialInv, SerialTypeOK
<1>2. CASE check_ack
  <2>1. /\ UNCHANGED <<frame, down, up, sending, at, payload_length, memory>> /\ host = "idle" /\ pc = "ack"
        /\ \/ pc' = "frame" /\ host' = "sending"
           \/ pc' \in {"console", "other"} /\ host' = host
    BY <1>2 DEF check_ack, SerialInv, IdleOK
  <2>2. /\ Stream' = Stream /\ Stream = << >> /\ up = << >> /\ at = 0 /\ Len(Stream) = 0 /\ Len(up) = 0
    BY <2>1 DEF SerialInv, IdleOK, SerialTypeOK, Stream
  <2>3. ~ Success /\ ~ Success' /\ memory = 1 .. sending - 1
    BY <2>1, <2>2 DEF Success, SerialInv, MemoryOK
  <2>4. SerialTypeOK'
    BY <2>1, <2>2 DEF SerialInv, SerialTypeOK
  <2>5. RoundOK' /\ StartOK' /\ IdleOK' /\ MemoryOK' /\ JumpHasImage'
    BY <2>1, <2>2, <2>3 DEF RoundOK, StartOK, IdleOK, MemoryOK, JumpHasImage
  <2>6. QED
    BY <2>4, <2>5 DEF SerialInv
<1>3. CASE GetLength
  <2>1. /\ frame = << >> /\ down # << >> /\ frame' = <<Head(down)>> /\ down' = Tail(down)
        /\ UNCHANGED <<pc, hostVars, up, memory>> /\ payload_length' \in LengthOf(Head(down))
    BY <1>3 DEF GetLength
  <2>2. frame' = Append(frame, Head(down))
    BY <2>1
  <2>3. payload_length' \in Nat
    BY <2>1, SerialBootAssumption DEF LengthOf, Length
  <2>4. frame' \in Seq(Byte) /\ down' \in Seq(Byte) /\ Stream' = Stream
    BY <1>1, <2>1, <2>2, ReadByte DEF Stream
  <2>5. QED
    BY <2>1, <2>3, <2>4, SameStream
<1>4. CASE GetByte
  <2>1. /\ down # << >> /\ frame' = Append(frame, Head(down)) /\ down' = Tail(down)
        /\ UNCHANGED <<pc, hostVars, up, memory, payload_length>>
    BY <1>4 DEF GetByte
  <2>2. frame' \in Seq(Byte) /\ down' \in Seq(Byte) /\ Stream' = Stream
    BY <1>1, <2>1, ReadByte DEF Stream
  <2>3. QED
    BY <1>1, <2>1, <2>2, SameStream
<1>5. CASE Expire
  <2>1. UNCHANGED <<pc, hostVars, up, memory, payload_length, frame, down>>
    BY <1>5 DEF Expire
  <2>2. Stream' = Stream
    BY <2>1 DEF Stream
  <2>3. QED
    BY <1>1, <2>1, <2>2, SameStream
<1>6. CASE Timeout
  <2>1. /\ frame # << >> /\ frame' = << >> /\ up' = Append(up, "E") /\ pc = "frame" /\ pc' = pc
        /\ UNCHANGED <<hostVars, down, memory, payload_length>>
    BY <1>6 DEF Timeout, Reply
  <2>2. QED
    BY <2>1, FrameFails
<1>7. CASE CrcError
  <2>1. /\ frame' = << >> /\ up' = Append(up, "C") /\ pc = "frame" /\ pc' \in {"frame", "other"}
        /\ UNCHANGED <<hostVars, down, memory, payload_length>> /\ Complete
    BY <1>7 DEF CrcError, Reply
  <2>2. frame # << >>
    BY <2>1, <1>1 DEF Complete, Header
  <2>3. QED
    BY <2>1, <2>2, FrameFails
<1>8. ASSUME NEW f \in 1 .. Chunks, Load(f)  PROVE SerialInv'
  <2>1. /\ Intact(f) /\ pc = "frame" /\ f # Jump /\ memory' = memory \cup {f} /\ pc' = pc /\ Reply("K")
        /\ UNCHANGED <<hostVars, down, payload_length>>
    BY <1>8 DEF Load
  <2>2. f \in 1 .. Jump
    BY FrameLength
  <2>3. QED
    BY <2>1, <2>2, FrameObeyed
<1>9. CASE Boot
  <2>1. /\ Intact(Jump) /\ pc = "frame" /\ memory' = memory /\ pc' = "booted" /\ Reply("K")
        /\ UNCHANGED <<hostVars, down, payload_length>>
    BY <1>9 DEF Boot
  <2>2. Jump \in 1 .. Jump
    BY FrameLength
  <2>3. QED
    BY <2>1, <2>2, FrameObeyed
<1>10. CASE Abort
  <2>1. PICK f \in 1 .. Jump : Intact(f)
    BY <1>10 DEF Abort
  <2>2. /\ pc = "frame" /\ memory' = memory /\ pc' = "other" /\ Reply("K")
        /\ UNCHANGED <<hostVars, down, payload_length>>
    BY <1>10 DEF Abort
  <2>3. QED
    BY <2>1, <2>2, FrameObeyed
<1>11. CASE Unknown
  <2>1. /\ frame' = << >> /\ up' = Append(up, "U") /\ pc = "frame" /\ pc' \in {"frame", "other"}
        /\ UNCHANGED <<hostVars, down, memory, payload_length>> /\ Complete
    BY <1>11 DEF Unknown, Reply
  <2>2. frame # << >>
    BY <2>1, <1>1 DEF Complete, Header
  <2>3. QED
    BY <2>1, <2>2, FrameFails
<1>12. QED
  BY <1>2, <1>3, <1>4, <1>5, <1>6, <1>7, <1>8, <1>9, <1>10, <1>11 DEF Device

LEMMA HostKeeps ==
  ASSUME SerialInv, Host
  PROVE  SerialInv'
<1>1. CASE Resend
  <2>1. /\ host = "quiet" /\ up = << >> /\ down = << >> /\ frame = << >> /\ pc = "frame" /\ host' = "sending"
        /\ UNCHANGED <<sending, at, up, down, pc, frame, payload_length, memory>>
    BY <1>1 DEF Resend, deviceVars
  <2>2. /\ Stream' = << >> /\ Len(Stream') = 0 /\ Len(up') = 0 /\ at = 0 /\ at' = 0
    BY <2>1 DEF Stream, SerialInv, SerialTypeOK
  <2>3. ~ Success /\ ~ Success'
    BY <2>1, <2>2 DEF Success
  <2>4. SerialTypeOK'
    BY <2>1, <2>2 DEF SerialInv, SerialTypeOK
  <2>5. RoundOK' /\ StartOK' /\ IdleOK' /\ MemoryOK' /\ JumpHasImage'
    BY <2>1, <2>2, <2>3 DEF SerialInv, RoundOK, StartOK, IdleOK, MemoryOK, JumpHasImage
  <2>6. QED
    BY <2>4, <2>5 DEF SerialInv
<1>2. QED
  BY <1>1, SendKeeps, ReplyTaken DEF Host

LEMMA SerialUnchanged ==
  ASSUME SerialInv, UNCHANGED bootVars
  PROVE  SerialInv'
<1>1. UNCHANGED <<hostVars, up, memory, frame, down, payload_length, pc>>
  BY DEF bootVars, deviceVars
<1>2. /\ Stream' = Stream /\ frame' \in Seq(Byte) /\ down' \in Seq(Byte) /\ payload_length' \in Nat
  BY <1>1 DEF Stream, SerialInv, SerialTypeOK
<1>3. QED
  BY <1>1, <1>2, SameStream

LEMMA SerialStep == SerialInv /\ [BootNext]_bootVars => SerialInv'
BY DeviceKeeps, HostKeeps, SerialUnchanged DEF BootNext

(* A program that came over the serial line is complete when it is started *)
(* (serialboot), for every number of frames, every length, and every       *)
(* sequence of bytes the line corrupts or loses.                           *)
THEOREM SerialBootIsWhole == BootSpec => []JumpHasImage
<1>1. BootInit => SerialInv
  <2>1. ASSUME BootInit PROVE SerialInv
    BY <2>1, SerialStart DEF BootInit, SerialFresh
  <2>2. QED
    BY <2>1
<1>2. SerialInv => JumpHasImage
  BY DEF SerialInv
<1>3. QED
  BY <1>1, <1>2, SerialStep, PTL DEF BootSpec

(***************************************************************************)
(* The methods after it.  While the entries of a boot.json are obeyed,     *)
(* what the loop holds is what the members before the next one give.       *)
(***************************************************************************)
J == json                       \* the entries that the loop finds
D == Members(Json)              \* those of the file of the medium at hand
Before(n, S) == {k \in S : k < n}
Given(k) == {n \in DOMAIN J : KeyOf(J[n][1]) = k}
Whole(j) == Images(j) # {} /\ \A n \in Images(j) : j[n][1] \in Files

SequenceTypeOK ==
  /\ method \in Nat /\ failedCopies \in Nat
  /\ stage \in {"start", "entries", "bin", "jumped", "console"}
  /\ DOMAIN ram = Addresses /\ DOMAIN regs = {"r1", "r2", "r3"}
  /\ boot_addr_found \in BOOLEAN /\ image_found \in BOOLEAN
  /\ method > 0 => setup \in Setups
  /\ stage # "start" => method > 0
  /\ stage \in {"entries", "bin", "jumped"} => method <= Len(Present)
  /\ stage \in {"entries", "bin"} => Current \in Media
  /\ stage \in {"start", "bin"} => entry = 1

(* The buffer holds the file or, after a failure, whatever it does.        *)
BufferOK ==
  /\ failedCopies = 0 => ~ garbled
  /\ stage = "entries" => J \in Seq(STRING \X STRING) /\ \A n \in Images(J) : J[n][2] \in Addresses
  /\ stage = "entries" \/ (stage = "jumped" /\ entry # 1) => garbled \/ J = D

(* The members before the next one, taken together.                        *)
ScannedOK ==
  stage = "entries" =>
    /\ entry \in 1 .. Len(J) + 1
    /\ boot_addr_found <=> Before(entry, Given("addr")) # {}
    /\ image_found <=> Before(entry, Images(J)) # {}
    /\ boot_addr = LastOf(Before(entry, Given("addr")), J, LastOf(Before(entry, Images(J)), J, "0"))
    /\ \A r \in DOMAIN regs : regs[r] = LastOf(Before(entry, Given(r)), J, "0")

(* Their images, as they have been copied.                                 *)
CopiedOK ==
  stage = "entries" =>
    \A n \in Before(entry, Images(J)) :
      /\ J[n][1] \in Files
      /\ \/ ram[J[n][2]] = <<Current, J[n][1]>>
         \/ \E o \in Before(entry, Images(J)) : o > n /\ J[o][2] = J[n][2]

JumpedOK ==
  stage = "jumped" /\ Current # "rom" =>
    IF entry = 1 THEN ram[boot_addr] \in {<<Current, "boot.bin">>, <<"flash", "image">>}
    ELSE /\ boot_addr = LastOf(Given("addr"), J, LastOf(Images(J), J, "0"))
         /\ \A r \in DOMAIN regs : regs[r] = LastOf(Given(r), J, "0")
         /\ \A n \in Images(J) :
              \/ ram[J[n][2]] = <<Current, J[n][1]>>
              \/ \E o \in Images(J) : o > n /\ J[o][2] = J[n][2]

(* Unless a copy has failed, what has been passed over has no image.       *)
PassedOK ==
  failedCopies = 0 =>
    /\ \A k \in 1 .. method - 1 : k \in DOMAIN Present => ~ Boots(Present[k])
    /\ stage = "bin" => ~ Whole(D)
    /\ stage = "console" => method > Len(Present)

MethodsInv == SequenceTypeOK /\ BufferOK /\ ScannedOK /\ CopiedOK /\ JumpedOK /\ PassedOK

(* The file of the medium at hand, as the loop over its tokens sees it.    *)
LEMMA Document ==
  ASSUME SequenceTypeOK, method > 0, method <= Len(Present), Current \in Media
  PROVE  /\ Parsed[Json] = D /\ D \in Seq(STRING \X STRING)
         /\ \A n \in Images(D) : D[n][2] \in Addresses
         /\ ~ HasJson => D = << >>
<1>1. setup \in Setups
  BY DEF SequenceTypeOK
<1>2. Present \in Seq({"flash", "rom"} \cup Media) /\ ToSet(Present) \cap Media \subseteq DOMAIN setup
  BY <1>1, BootSequenceAssumption DEF Present
<1>3. method \in 1 .. Len(Present)
  BY <1>2 DEF SequenceTypeOK
<1>4. Current \in ToSet(Present)
  BY <1>2, <1>3 DEF ToSet, Current
<1>5. Current \in Media \cap DOMAIN setup
  BY <1>2, <1>4
<1>6. Json \in Documents
  BY <1>1, <1>5 DEF Documents, Json
<1>7. /\ Parsed[Json] = D /\ D \in Seq(STRING \X STRING)
      /\ \A n \in Images(D) : D[n][2] \in Addresses
  BY <1>6, DocumentAssumption DEF D
<1>8. ~ HasJson => D = << >>
  BY <1>6, <1>7 DEF HasJson, Parsed
<1>9. QED
  BY <1>7, <1>8

(* Entries one behind the other.                                           *)
EntriesOK(j) == j \in Seq(STRING \X STRING) /\ \A n \in Images(j) : j[n][2] \in Addresses
LEMMA Joined ==
  ASSUME NEW a, NEW b, EntriesOK(a), EntriesOK(b)
  PROVE  EntriesOK(a \o b)
<1>1. a \in Seq(STRING \X STRING) /\ b \in Seq(STRING \X STRING)
  BY DEF EntriesOK
<1>2. PICK c : c = a \o b
  OBVIOUS
<1>3. /\ c \in Seq(STRING \X STRING) /\ Len(c) = Len(a) + Len(b)
      /\ \A n \in 1 .. Len(c) : c[n] = IF n <= Len(a) THEN a[n] ELSE b[n - Len(a)]
  BY <1>1, <1>2
<1>4. ASSUME NEW n \in Images(c) PROVE c[n][2] \in Addresses
  <2>1. n \in 1 .. Len(c) /\ KeyOf(c[n][1]) = "image"
    BY <1>3 DEF Images
  <2>2. CASE n <= Len(a)
    <3>1. c[n] = a[n] /\ n \in DOMAIN a
      BY <1>1, <1>3, <2>1, <2>2
    <3>2. n \in Images(a)
      BY <2>1, <3>1 DEF Images
    <3>3. QED
      BY <3>1, <3>2 DEF EntriesOK
  <2>3. CASE ~ (n <= Len(a))
    <3>1. c[n] = b[n - Len(a)] /\ n - Len(a) \in DOMAIN b
      BY <1>1, <1>3, <2>1, <2>3
    <3>2. n - Len(a) \in Images(b)
      BY <2>1, <3>1 DEF Images
    <3>3. QED
      BY <3>1, <3>2 DEF EntriesOK
  <2>4. QED
    BY <2>2, <2>3
<1>5. QED
  BY <1>2, <1>3, <1>4 DEF EntriesOK

(* What a read leaves in the buffer.                                       *)
LEMMA Buffers ==
  ASSUME MethodsInv, NEW m \in Media, Trying(m), NEW es, es = Parsed[Json] \/ es \in Garbled(m)
  PROVE  EntriesOK(es)
<1>1. SequenceTypeOK /\ method > 0 /\ method <= Len(Present) /\ Current \in Media
  BY DEF MethodsInv, Trying, Media
<1>2. EntriesOK(Parsed[Json])
  BY <1>1, Document DEF EntriesOK
<1>3. \A g \in Remains : EntriesOK(g)
  BY BootSequenceAssumption DEF EntriesOK
<1>4. \A g \in Remains : EntriesOK(Parsed[Json] \o g)
  BY <1>2, <1>3, Joined
<1>5. QED
  BY <1>2, <1>3, <1>4, Zenon DEF Garbled

LEMMA Entries ==
  ASSUME MethodsInv, stage = "entries"
  PROVE  /\ J \in Seq(STRING \X STRING) /\ DOMAIN J = 1 .. Len(J) /\ Len(J) \in Nat
         /\ \A n \in Images(J) : J[n][2] \in Addresses
         /\ failedCopies = 0 => J = D
BY DEF MethodsInv, BufferOK

(* One more member: the last of a set of positions.                        *)
LEMMA LastMember ==
  ASSUME NEW S \in SUBSET Nat, NEW n \in Nat
  PROVE  /\ n \in S => /\ Before(n + 1, S) = Before(n, S) \cup {n} /\ Before(n + 1, S) # {}
                       /\ Max(Before(n + 1, S)) = n
         /\ n \notin S => Before(n + 1, S) = Before(n, S)
<1>0. /\ \A k \in S : k \in Nat /\ (k < n + 1 <=> k < n \/ k = n)
      /\ Before(n, S) = {k \in S : k < n} /\ Before(n + 1, S) = {k \in S : k < n + 1}
  BY DEF Before
<1>1. n \notin S => Before(n + 1, S) = Before(n, S)
  BY <1>0, Zenon
<1>2. ASSUME n \in S
      PROVE  /\ Before(n + 1, S) = Before(n, S) \cup {n}
             /\ \A x \in Before(n + 1, S) : x \in Nat /\ n >= x
             /\ n \in Before(n + 1, S)
  <2>1. Before(n + 1, S) = Before(n, S) \cup {n}
    BY <1>0, <1>2, Zenon
  <2>2. \A x \in Before(n, S) : x \in Nat /\ x < n
    BY <1>0
  <2>3. QED
    BY <2>1, <2>2
<1>3. ASSUME n \in S  PROVE Max(Before(n + 1, S)) = n
  <2>1. PICK T : T = Before(n + 1, S)
    OBVIOUS
  <2>2. n \in T /\ \A x \in T : x \in Nat /\ n >= x
    BY <1>2, <1>3, <2>1
  <2>3. PICK c : c = Max(T)
    OBVIOUS
  <2>4. c \in T /\ \A x \in T : c >= x
    BY <2>2, <2>3, Zenon DEF Max
  <2>5. QED
    BY <2>1, <2>2, <2>3, <2>4
<1>4. QED
  BY <1>1, <1>2, <1>3

LEMMA TriedMethod ==
  ASSUME MethodsInv, NEW m, Trying(m)
  PROVE  /\ method \in Nat /\ method > 0 /\ method <= Len(Present) /\ method \in DOMAIN Present /\ Current = m
         /\ stage \in {"start", "entries", "bin"} /\ failedCopies \in Nat /\ DOMAIN ram = Addresses
         /\ SequenceTypeOK /\ Present[method] = Current /\ MAIN_RAM_BASE \in Addresses
<1>1. method > 0 /\ method <= Len(Present) /\ Current = m /\ SequenceTypeOK
      /\ stage \in {"start", "entries", "bin"}
  BY DEF Trying, MethodsInv, SequenceTypeOK
<1>2. setup \in Setups /\ method \in Nat
  BY <1>1 DEF SequenceTypeOK
<1>3. Present \in Seq({"flash", "rom"} \cup Media)
  BY <1>2, BootSequenceAssumption DEF Present
<1>4. method \in DOMAIN Present
  BY <1>1, <1>2, <1>3
<1>5. QED
  BY <1>1, <1>2, <1>4, BootSequenceAssumption DEF SequenceTypeOK, Current

LEMMA SameMedia ==
  ASSUME setup' = setup
  PROVE  Present' = Present /\ \A m : Boots(m)' <=> Boots(m)
BY Zenon DEF Present, Boots

LEMMA MediumBoots ==
  ASSUME Current \in Media
  PROVE  Boots(Current) <=> "boot.bin" \in Files \/ Whole(D)
<1>1. Current # "flash" /\ Current # "rom"
  BY DEF Media
<1>2. QED
  BY <1>1, Zenon DEF Boots, Files, D, Json, Whole

(* A method without an image makes way for the next one.                   *)
LEMMA PassedOver ==
  ASSUME MethodsInv, NEW m, Trying(m), NextMethod, setup' = setup,
         DOMAIN ram' = Addresses, failedCopies' \in Nat,
         failedCopies' = 0 => failedCopies = 0 /\ ~ Boots(Current)
  PROVE  MethodsInv'
<1>1. /\ method \in Nat /\ method > 0 /\ method \in DOMAIN Present /\ Present[method] = Current /\ SequenceTypeOK
  BY TriedMethod
<1>2. /\ method' = method + 1 /\ stage' = "start" /\ entry' = 1 /\ regs' = NoRegs
      /\ boot_addr_found' = FALSE /\ image_found' = FALSE /\ garbled' = FALSE
  BY DEF NextMethod, ClearJson, NoEntryYet, Buffer
<1>3. SequenceTypeOK'
  <2>1. boot_addr_found' \in BOOLEAN /\ image_found' \in BOOLEAN
    BY <1>2
  <2>2. method' \in Nat /\ method' > 0 /\ DOMAIN regs' = {"r1", "r2", "r3"} /\ setup' \in Setups
    BY <1>1, <1>2 DEF SequenceTypeOK, NoRegs
  <2>3. QED
    BY <1>2, <2>1, <2>2 DEF SequenceTypeOK
<1>4. BufferOK' /\ ScannedOK' /\ CopiedOK' /\ JumpedOK'
  BY <1>2 DEF BufferOK, ScannedOK, CopiedOK, JumpedOK
<1>5. ASSUME failedCopies' = 0, NEW k \in 1 .. method' - 1, k \in DOMAIN Present
      PROVE  ~ Boots(Present[k])
  <2>1. k \in 1 .. method - 1 \/ k = method
    BY <1>1, <1>2
  <2>2. ASSUME k \in 1 .. method - 1 PROVE ~ Boots(Present[k])
    BY <1>5, <2>2 DEF MethodsInv, PassedOK
  <2>3. QED
    BY <1>1, <1>5, <2>1, <2>2
<1>6. PassedOK'
  <2>1. SUFFICES ASSUME failedCopies' = 0, NEW k \in 1 .. method' - 1, k \in DOMAIN Present'
                 PROVE  ~ Boots(Present[k])'
    BY <1>2, Zenon DEF PassedOK
  <2>2. ~ Boots(Present[k])
    BY <1>5, <2>1, SameMedia
  <2>3. Present'[k] = Present[k]
    BY SameMedia
  <2>4. Boots(Present[k])' <=> Boots(Present[k])
    BY Zenon DEF Present, Boots
  <2>5. QED
    BY <2>2, <2>4
<1>7. QED
  BY <1>3, <1>4, <1>6 DEF MethodsInv

(* An image that is all there is started.                                  *)
LEMMA ImageStarted ==
  ASSUME MethodsInv, NEW m, Trying(m), stage # "entries", NEW a, boot(a, NoRegs),
         DOMAIN ram' = Addresses, failedCopies' = failedCopies,
         m # "rom" => ram'[a] \in {<<m, "boot.bin">>, <<"flash", "image">>}
  PROVE  MethodsInv'
<1>1. /\ method \in Nat /\ method > 0 /\ method <= Len(Present) /\ SequenceTypeOK /\ Current = m
      /\ stage \in {"start", "bin"}
  BY TriedMethod
<1>2. /\ method' = method /\ setup' = setup /\ stage' = "jumped" /\ entry' = entry /\ entry = 1
      /\ regs' = NoRegs /\ boot_addr' = a /\ boot_addr_found' = boot_addr_found /\ image_found' = image_found
      /\ garbled' = garbled
  BY <1>1 DEF boot, Stay, SequenceTypeOK
<1>3. Present' = Present /\ Current' = Current
  BY <1>2 DEF Present, Current
<1>4. SequenceTypeOK'
  BY <1>1, <1>2, <1>3 DEF SequenceTypeOK, NoRegs
<1>5. BufferOK' /\ ScannedOK' /\ CopiedOK'
  BY <1>2 DEF MethodsInv, BufferOK, ScannedOK, CopiedOK
<1>6. JumpedOK'
  BY <1>1, <1>2, <1>3 DEF JumpedOK
<1>7. PassedOK'
  <2>1. ASSUME NEW k  PROVE Boots(Present[k])' <=> Boots(Present[k])
    BY <1>2, Zenon DEF Present, Boots
  <2>2. QED
    BY <1>2, <1>3, <2>1 DEF MethodsInv, PassedOK
<1>8. QED
  BY <1>4, <1>5, <1>6, <1>7 DEF MethodsInv

(* The file is read, or the binary is next.                                *)
LEMMA FileOpened ==
  ASSUME MethodsInv, NEW m \in Media, Trying(m), NoEntryYet, UNCHANGED <<setup, method>>,
         DOMAIN ram' = DOMAIN ram, garbled' \in BOOLEAN,
         \/ failedCopies' = failedCopies /\ garbled' = FALSE
         \/ failedCopies' = failedCopies + 1,
         \/ stage' = "entries" /\ EntriesOK(J') /\ (garbled' = TRUE \/ J' = D)
         \/ stage' = "bin" /\ (failedCopies' = 0 => ~ Whole(D))
  PROVE  MethodsInv'
<1>1. /\ method \in Nat /\ method > 0 /\ method <= Len(Present) /\ SequenceTypeOK /\ Current = m
      /\ failedCopies \in Nat /\ DOMAIN ram = Addresses
  BY TriedMethod
<1>2. /\ entry' = 1 /\ boot_addr' = "0" /\ boot_addr_found' = FALSE /\ image_found' = FALSE
      /\ regs' = NoRegs /\ stage' \in {"entries", "bin"} /\ failedCopies' \in Nat
      /\ failedCopies' = 0 => failedCopies = 0 /\ ~ garbled'
  BY <1>1 DEF NoEntryYet
<1>3. /\ Present' = Present /\ Current' = Current /\ D' = D /\ Files' = Files
      /\ Whole(D)' <=> Whole(D)
  BY Zenon DEF Present, Current, D, Json, Files, Whole, Images
<1>4. SequenceTypeOK'
  BY <1>1, <1>2, <1>3 DEF SequenceTypeOK, NoRegs
<1>5. ASSUME stage' = "entries"
      PROVE  J' \in Seq(STRING \X STRING) /\ DOMAIN J' = 1 .. Len(J') /\ Len(J') \in Nat
             /\ \A n \in Images(J') : J'[n][2] \in Addresses
  BY <1>5 DEF EntriesOK
<1>6. Images(J)' = Images(J')
  BY Zenon DEF Images, J
<1>7. BufferOK'
  <2>1. garbled' \/ J' = D' \/ stage' = "bin"
    BY <1>3
  <2>2. QED
    BY <1>2, <1>5, <1>6, <2>1 DEF BufferOK
<1>8. ASSUME stage' = "entries"
      PROVE  Before(1, Images(J)') = {} /\ \A k : Before(1, Given(k)') = {}
  <2>1. \A n \in DOMAIN J' : ~ n < 1
    BY <1>5, <1>8
  <2>2. Images(J)' \subseteq DOMAIN J' /\ \A k : Given(k)' \subseteq DOMAIN J'
    BY <1>6 DEF Images, Given
  <2>3. QED
    BY <2>1, <2>2 DEF Before
<1>9. ScannedOK'
  <2>1. SUFFICES ASSUME stage' = "entries" PROVE ScannedOK'
    BY DEF ScannedOK
  <2>2. /\ \A j : \A none : LastOf({}, j, none) = none
        /\ 1 \in 1 .. Len(J') + 1
    BY <1>5, <2>1 DEF LastOf
  <2>3. \A r \in DOMAIN regs' : regs'[r] = "0"
    BY <1>2 DEF NoRegs
  <2>4. Before(1, Images(J)') = {} /\ \A k : Before(1, Given(k)') = {}
    BY <1>8, <2>1
  <2>5. QED
    BY <1>2, <2>2, <2>3, <2>4, Zenon DEF ScannedOK, Before, LastOf
<1>10. CopiedOK' /\ JumpedOK'
  <2>1. JumpedOK'
    BY <1>2 DEF JumpedOK
  <2>2. stage' = "entries" => Before(entry', Images(J)') = {}
    BY <1>2, <1>8
  <2>3. CopiedOK'
    BY <2>2 DEF CopiedOK, Before
  <2>4. QED
    BY <2>1, <2>3
<1>11. PassedOK'
  <2>1. ASSUME NEW k  PROVE Boots(Present[k])' <=> Boots(Present[k])
    BY Zenon DEF Present, Boots
  <2>2. SUFFICES ASSUME failedCopies' = 0 PROVE PassedOK'
    BY DEF PassedOK
  <2>3. failedCopies = 0
    BY <1>2, <2>2
  <2>4. stage' = "bin" => ~ Whole(D)'
    BY <1>2, <1>3, <2>2
  <2>5. \A k \in 1 .. method' - 1 : k \in DOMAIN Present' => ~ Boots(Present[k])'
    BY <1>3, <2>1, <2>3 DEF MethodsInv, PassedOK
  <2>6. QED
    BY <1>2, <2>4, <2>5 DEF PassedOK
<1>12. QED
  BY <1>4, <1>7, <1>9, <1>10, <1>11 DEF MethodsInv

(* One more member is obeyed: an address or a register it gives, an image  *)
(* that has been copied, or none of these.                                 *)
LEMMA NextMember ==
  ASSUME MethodsInv, NEW m \in Media, Trying(m), stage = "entries", entry <= Len(J), Obeyed,
         failedCopies' = failedCopies, boot_addr_found' \in BOOLEAN, image_found' \in BOOLEAN,
         DOMAIN regs' = DOMAIN regs,
         boot_addr_found' <=> boot_addr_found \/ KeyOf(J[entry][1]) = "addr",
         image_found' <=> image_found \/ entry \in Images(J),
         boot_addr' = IF KeyOf(J[entry][1]) = "addr" \/ (entry \in Images(J) /\ ~ boot_addr_found)
                      THEN J[entry][2] ELSE boot_addr,
         \A r \in DOMAIN regs : regs'[r] = IF KeyOf(J[entry][1]) = r THEN J[entry][2] ELSE regs[r],
         ram' = IF entry \in Images(J) THEN [ram EXCEPT ![J[entry][2]] = <<Current, J[entry][1]>>] ELSE ram,
         entry \in Images(J) => J[entry][1] \in Files
  PROVE  MethodsInv'
<1>1. /\ method \in Nat /\ method > 0 /\ method <= Len(Present) /\ SequenceTypeOK /\ Current = m
      /\ DOMAIN ram = Addresses
  BY TriedMethod
<1>2. /\ J \in Seq(STRING \X STRING) /\ DOMAIN J = 1 .. Len(J) /\ Len(J) \in Nat
      /\ \A n \in Images(J) : J[n][2] \in Addresses
  BY Entries
<1>3. /\ method' = method /\ setup' = setup /\ stage' = "entries" /\ entry' = entry + 1
      /\ Present' = Present /\ Current' = Current /\ J' = J /\ Files' = Files
      /\ D' = D /\ garbled' = garbled
  BY DEF Obeyed, Stay, Present, Current, J, Files, D, Json
<1>4. /\ entry \in Nat /\ entry \in DOMAIN J
      /\ boot_addr_found <=> Before(entry, Given("addr")) # {}
      /\ image_found <=> Before(entry, Images(J)) # {}
      /\ boot_addr = LastOf(Before(entry, Given("addr")), J, LastOf(Before(entry, Images(J)), J, "0"))
      /\ \A r \in DOMAIN regs : regs[r] = LastOf(Before(entry, Given(r)), J, "0")
  <2>1. entry \in 1 .. Len(J) + 1
    BY DEF MethodsInv, ScannedOK
  <2>2. entry \in Nat /\ entry \in DOMAIN J
    BY <2>1, <1>2
  <2>3. QED
    BY <2>2 DEF MethodsInv, ScannedOK
<1>5. DOMAIN ram' = Addresses
  BY <1>1
<1>6. SequenceTypeOK'
  BY <1>1, <1>3, <1>5 DEF SequenceTypeOK
<1>7. /\ \A k : Given(k)' = Given(k) /\ Given(k) \in SUBSET Nat /\ (entry \in Given(k) <=> KeyOf(J[entry][1]) = k)
      /\ Images(J)' = Images(J) /\ Images(J) \in SUBSET Nat
  <2>1. Images(J)' = Images(J) /\ \A k : Given(k)' = Given(k)
    BY <1>3 DEF Images, Given
  <2>2. \A k : Given(k) \in SUBSET Nat /\ (entry \in Given(k) <=> KeyOf(J[entry][1]) = k)
    BY <1>2, <1>4 DEF Given
  <2>3. Images(J) \in SUBSET Nat
    BY <1>2 DEF Images
  <2>4. QED
    BY <2>1, <2>2, <2>3
<1>8. ASSUME NEW k, NEW none
      PROVE  /\ KeyOf(J[entry][1]) = k => /\ Before(entry + 1, Given(k)) # {}
                                   /\ LastOf(Before(entry + 1, Given(k)), J, none) = J[entry][2]
             /\ KeyOf(J[entry][1]) # k => Before(entry + 1, Given(k)) = Before(entry, Given(k))
  <2>1. PICK S : S = Given(k)
    OBVIOUS
  <2>2. S \in SUBSET Nat /\ entry \in Nat /\ (entry \in S <=> KeyOf(J[entry][1]) = k)
    BY <2>1, <1>4, <1>7
  <2>3. /\ entry \in S => /\ Before(entry + 1, S) # {}
                          /\ LastOf(Before(entry + 1, S), J, none) = J[entry][2]
        /\ entry \notin S => Before(entry + 1, S) = Before(entry, S)
    BY <2>2, LastMember DEF LastOf
  <2>4. QED
    BY <2>1, <2>2, <2>3
<1>9. ASSUME NEW none
      PROVE  /\ entry \in Images(J) => /\ Before(entry + 1, Images(J)) = Before(entry, Images(J)) \cup {entry}
                                        /\ Before(entry + 1, Images(J)) # {}
                                        /\ LastOf(Before(entry + 1, Images(J)), J, none) = J[entry][2]
             /\ entry \notin Images(J) => Before(entry + 1, Images(J)) = Before(entry, Images(J))
  <2>1. Images(J) \in SUBSET Nat /\ entry \in Nat
    BY <1>4, <1>7
  <2>2. QED
    BY <2>1, LastMember DEF LastOf
<1>10. /\ entry \in Images(J) => KeyOf(J[entry][1]) # "addr"
  BY DEF Images
<1>11. boot_addr_found' <=> Before(entry + 1, Given("addr")) # {}
  BY <1>4, <1>8
<1>12. image_found' <=> Before(entry + 1, Images(J)) # {}
  BY <1>4, <1>9
<1>13. boot_addr' = LastOf(Before(entry + 1, Given("addr")), J, LastOf(Before(entry + 1, Images(J)), J, "0"))
  <2>1. CASE KeyOf(J[entry][1]) = "addr"
    BY <2>1, <1>8, Zenon
  <2>2. CASE KeyOf(J[entry][1]) # "addr" /\ boot_addr_found
    <3>1. /\ boot_addr' = boot_addr /\ Before(entry + 1, Given("addr")) = Before(entry, Given("addr"))
          /\ Before(entry, Given("addr")) # {}
      BY <2>2, <1>4, <1>8
    <3>2. \A a, b : LastOf(Before(entry, Given("addr")), J, a) = LastOf(Before(entry, Given("addr")), J, b)
      BY <3>1 DEF LastOf
    <3>3. QED
      BY <3>1, <3>2, <1>4
  <2>3. CASE KeyOf(J[entry][1]) # "addr" /\ ~ boot_addr_found
    <3>1. Before(entry + 1, Given("addr")) = {} /\ Before(entry, Given("addr")) = {}
      BY <2>3, <1>4, <1>8
    <3>2. \A a : LastOf({}, J, a) = a
      BY DEF LastOf
    <3>3. boot_addr = LastOf(Before(entry, Images(J)), J, "0")
      BY <3>1, <3>2, <1>4
    <3>4. boot_addr' = LastOf(Before(entry + 1, Images(J)), J, "0")
      BY <3>3, <1>9, <2>3
    <3>5. QED
      BY <3>1, <3>2, <3>4
  <2>4. QED
    BY <2>1, <2>2, <2>3
<1>14. ASSUME NEW r \in DOMAIN regs
       PROVE  regs'[r] = LastOf(Before(entry + 1, Given(r)), J, "0")
  BY <1>4, <1>8
<1>15. ScannedOK'
  <2>1. entry' \in 1 .. Len(J') + 1
    BY <1>2, <1>3, <1>4
  <2>2. Given("addr")' = Given("addr") /\ \A r \in DOMAIN regs' : Given(r)' = Given(r)
    BY <1>7
  <2>3. \A r \in DOMAIN regs' : regs'[r] = LastOf(Before(entry + 1, Given(r)), J, "0")
    BY <1>14
  <2>4. \A r \in DOMAIN regs' : regs'[r] = LastOf(Before(entry', Given(r)'), J', "0")
    BY <2>2, <2>3, <1>3
  <2>5. QED
    BY <2>1, <2>2, <2>4, <1>3, <1>7, <1>11, <1>12, <1>13, Zenon DEF ScannedOK, Before, LastOf
<1>16. ASSUME NEW n \in Before(entry + 1, Images(J))
       PROVE  /\ J[n][1] \in Files
              /\ \/ ram'[J[n][2]] = <<Current, J[n][1]>>
                 \/ \E o \in Before(entry + 1, Images(J)) : o > n /\ J[o][2] = J[n][2]
  <2>1. CASE n = entry /\ entry \in Images(J)
    BY <2>1, <1>1, <1>2
  <2>2. CASE n \in Before(entry, Images(J))
    <3>1. n \in Images(J) /\ n \in Nat /\ n < entry
      BY <2>2, <1>7 DEF Before
    <3>2. /\ J[n][1] \in Files
          /\ \/ ram[J[n][2]] = <<Current, J[n][1]>>
             \/ \E o \in Before(entry, Images(J)) : o > n /\ J[o][2] = J[n][2]
      BY <2>2 DEF MethodsInv, CopiedOK
    <3>3. Before(entry, Images(J)) \subseteq Before(entry + 1, Images(J))
      BY <1>9
    <3>4. CASE entry \in Images(J) /\ J[entry][2] = J[n][2]
      <4>1. entry \in Before(entry + 1, Images(J)) /\ entry > n
        BY <3>1, <3>4, <1>4, <1>9
      <4>2. QED
        BY <4>1, <3>2, <3>4
    <3>5. CASE ~ (entry \in Images(J) /\ J[entry][2] = J[n][2])
      <4>1. ram'[J[n][2]] = ram[J[n][2]]
        BY <3>1, <3>5, <1>1, <1>2
      <4>2. QED
        BY <4>1, <3>2, <3>3
    <3>6. QED
      BY <3>4, <3>5
  <2>3. QED
    BY <2>1, <2>2, <1>9
<1>17. CopiedOK'
  <2>1. Images(J)' = Images(J) /\ entry' = entry + 1 /\ J' = J /\ Current' = Current /\ Files' = Files
    BY <1>3, <1>7
  <2>2. Before(entry', Images(J)') = Before(entry + 1, Images(J))
    BY <2>1
  <2>3. QED
    BY <2>1, <2>2, <1>16, Zenon DEF CopiedOK, Before
<1>18. JumpedOK'
  BY <1>3 DEF JumpedOK
<1>19. PassedOK'
  <2>1. ASSUME NEW k  PROVE Boots(Present[k])' <=> Boots(Present[k])
    BY <1>3, Zenon DEF Present, Boots
  <2>2. QED
    BY <1>3, <2>1 DEF MethodsInv, PassedOK
<1>20. BufferOK'
  BY <1>3, <1>7 DEF MethodsInv, BufferOK
<1>21. QED
  BY <1>20, <1>6, <1>15, <1>17, <1>18, <1>19 DEF MethodsInv

(* The end of the file: a jump to what all its members give.               *)
LEMMA MembersDone ==
  ASSUME MethodsInv, NEW m \in Media, JsonEnd(m)
  PROVE  MethodsInv'
<1>1. /\ method \in Nat /\ method > 0 /\ method <= Len(Present) /\ SequenceTypeOK /\ Current = m
      /\ DOMAIN ram = Addresses /\ Trying(m) /\ stage = "entries" /\ failedCopies \in Nat
      /\ entry > Len(J) /\ UNCHANGED <<setup, method, ram, failedCopies>>
  BY TriedMethod DEF JsonEnd, boot, Stay, J
<1>2. /\ J \in Seq(STRING \X STRING) /\ DOMAIN J = 1 .. Len(J) /\ Len(J) \in Nat
  BY <1>1, Entries
<1>3. Present' = Present /\ Current' = Current /\ D' = D /\ Files' = Files
  BY <1>1 DEF Present, Current, D, Json, Files
<1>4. /\ entry = Len(J) + 1
      /\ boot_addr = LastOf(Before(entry, Given("addr")), J, LastOf(Before(entry, Images(J)), J, "0"))
      /\ \A r \in DOMAIN regs : regs[r] = LastOf(Before(entry, Given(r)), J, "0")
      /\ image_found <=> Before(entry, Images(J)) # {}
  <2>1. entry \in 1 .. Len(J) + 1
    BY <1>1 DEF MethodsInv, ScannedOK
  <2>2. entry = Len(J) + 1
    BY <2>1, <1>1, <1>2
  <2>3. QED
    BY <2>2, <1>1 DEF MethodsInv, ScannedOK
<1>5. Before(entry, Images(J)) = Images(J) /\ \A k : Before(entry, Given(k)) = Given(k)
  BY <1>2, <1>4 DEF Before, Images, Given
<1>6. CASE image_found
  <2>1. /\ stage' = "jumped" /\ entry' = entry /\ boot_addr' = boot_addr /\ regs' = regs
        /\ boot_addr_found' = boot_addr_found /\ image_found' = image_found
        /\ J' = J /\ garbled' = garbled
    BY <1>6 DEF JsonEnd, boot, Stay, J
  <2>2. SequenceTypeOK'
    BY <1>1, <1>3, <2>1 DEF SequenceTypeOK
  <2>3. ScannedOK' /\ CopiedOK'
    BY <2>1 DEF ScannedOK, CopiedOK
  <2>4. /\ boot_addr = LastOf(Given("addr"), J, LastOf(Images(J), J, "0"))
        /\ \A r \in DOMAIN regs : regs[r] = LastOf(Given(r), J, "0")
        /\ \A n \in Images(J) :
             \/ ram[J[n][2]] = <<Current, J[n][1]>>
             \/ \E o \in Images(J) : o > n /\ J[o][2] = J[n][2]
    BY <1>1, <1>4, <1>5 DEF MethodsInv, CopiedOK
  <2>5. entry # 1
    <3>1. Images(J) # {}
      BY <1>4, <1>5, <1>6
    <3>2. QED
      BY <3>1, <1>2, <1>4 DEF Images
  <2>6. Images(J)' = Images(J) /\ Given("addr")' = Given("addr") /\ \A r \in DOMAIN regs : Given(r)' = Given(r)
    BY <2>1 DEF Images, Given
  <2>7. JumpedOK'
    BY <1>1, <1>3, <2>1, <2>4, <2>5, <2>6, Zenon DEF JumpedOK, LastOf
  <2>8. PassedOK'
    <3>1. ASSUME NEW k  PROVE Boots(Present[k])' <=> Boots(Present[k])
      BY <1>1, Zenon DEF Present, Boots
    <3>2. QED
      BY <1>1, <1>3, <2>1, <3>1 DEF MethodsInv, PassedOK
  <2>9. BufferOK'
    BY <1>1, <1>3, <2>1 DEF MethodsInv, BufferOK
  <2>10. QED
    BY <2>2, <2>3, <2>7, <2>8, <2>9 DEF MethodsInv
<1>7. CASE ~ image_found
  <2>1. /\ stage' = "bin" /\ NoEntryYet /\ garbled' = FALSE
        /\ UNCHANGED <<setup, method, ram, failedCopies>>
    BY <1>1, <1>7 DEF JsonEnd, Stay, ClearJson, Buffer
  <2>2. Images(J) = {}
    BY <1>4, <1>5, <1>7
  <2>3. failedCopies = 0 => ~ Whole(D)
    BY <1>1, <2>2, Entries DEF Whole
  <2>4. garbled' \in BOOLEAN
    BY <2>1
  <2>5. QED
    BY <1>1, <2>1, <2>3, <2>4, FileOpened
<1>8. QED
  BY <1>6, <1>7

LEMMA MethodsStart ==
  SequenceInit => MethodsInv
<1> SUFFICES ASSUME SequenceInit PROVE MethodsInv
  OBVIOUS
<1>1. SequenceTypeOK
  <2>1. boot_addr_found \in BOOLEAN /\ image_found \in BOOLEAN /\ DOMAIN regs = {"r1", "r2", "r3"}
    BY DEF SequenceInit, NoRegs
  <2>2. QED
    BY <2>1 DEF SequenceInit, SequenceTypeOK
<1>2. BufferOK /\ ScannedOK /\ CopiedOK /\ JumpedOK
  BY DEF SequenceInit, BufferOK, ScannedOK, CopiedOK, JumpedOK
<1>3. PassedOK
  BY DEF SequenceInit, PassedOK
<1>4. QED
  BY <1>1, <1>2, <1>3 DEF MethodsInv

LEMMA MethodsUnchanged ==
  ASSUME MethodsInv, UNCHANGED sequenceVars
  PROVE  MethodsInv'
<1>1. UNCHANGED <<setup, method, stage, entry, boot_addr, boot_addr_found, image_found, regs, ram, failedCopies, json, garbled>>
  BY DEF sequenceVars, jsonVars
<1>2. /\ Present' = Present /\ Current' = Current /\ J' = J /\ Files' = Files /\ D' = D
      /\ \A k : Boots(k)' <=> Boots(k)
  BY <1>1, Zenon DEF Present, Current, J, D, Json, Files, Boots
<1>3. Images(J)' = Images(J) /\ (Whole(D)' <=> Whole(D)) /\ \A k : Given(k)' = Given(k)
  BY <1>2, Zenon DEF Images, Given, Whole
<1>4. SequenceTypeOK'
  BY <1>1, <1>2, Zenon DEF MethodsInv, SequenceTypeOK
<1>5. ScannedOK'
  BY <1>1, <1>2, <1>3, Zenon DEF MethodsInv, ScannedOK, Before, LastOf
<1>6. CopiedOK'
  BY <1>1, <1>2, <1>3, Zenon DEF MethodsInv, CopiedOK, Before
<1>7. JumpedOK'
  BY <1>1, <1>2, <1>3, Zenon DEF MethodsInv, JumpedOK, LastOf
<1>8. PassedOK'
  BY <1>1, <1>2, <1>3, Zenon DEF MethodsInv, PassedOK, Boots
<1>9. BufferOK'
  BY <1>1, <1>2, <1>3, Zenon DEF MethodsInv, BufferOK
<1>10. QED
  BY <1>9, <1>4, <1>5, <1>6, <1>7, <1>8 DEF MethodsInv

LEMMA FlashKeeps ==
  ASSUME MethodsInv, flashboot
  PROVE  MethodsInv'
<1>1. Trying("flash") /\ failedCopies' = failedCopies
  BY DEF flashboot
<1>2. /\ failedCopies \in Nat /\ DOMAIN ram = Addresses /\ MAIN_RAM_BASE \in Addresses /\ Current = "flash"
      /\ SequenceTypeOK
  BY <1>1, TriedMethod
<1>3. CASE check_image_in_flash
  <2>1. /\ ram' = [ram EXCEPT ![MAIN_RAM_BASE] = <<"flash", "image">>]
        /\ boot(MAIN_RAM_BASE, NoRegs)
    BY <1>3 DEF flashboot
  <2>2. DOMAIN ram' = Addresses /\ ram'[MAIN_RAM_BASE] = <<"flash", "image">>
    BY <1>2, <2>1
  <2>3. stage # "entries"
    BY <1>2 DEF SequenceTypeOK, Media
  <2>4. QED
    BY <1>1, <2>1, <2>2, <2>3, ImageStarted
<1>4. CASE ~ check_image_in_flash
  <2>1. NextMethod /\ setup' = setup /\ ram' = ram
    BY <1>4 DEF flashboot
  <2>2. ~ Boots(Current)
    BY <1>2, <1>4 DEF Boots, check_image_in_flash
  <2>3. QED
    BY <1>1, <1>2, <2>1, <2>2, PassedOver
<1>5. QED
  BY <1>3, <1>4

LEMMA RomKeeps ==
  ASSUME MethodsInv, romboot
  PROVE  MethodsInv'
<1>1. /\ Trying("rom") /\ boot("rom", NoRegs) /\ ram' = ram /\ failedCopies' = failedCopies
  BY DEF romboot
<1>2. DOMAIN ram = Addresses /\ Current = "rom" /\ SequenceTypeOK
  BY <1>1, TriedMethod
<1>3. stage # "entries"
  BY <1>2 DEF SequenceTypeOK, Media
<1>4. QED
  BY <1>1, <1>2, <1>3, ImageStarted

LEMMA BinaryKeeps ==
  ASSUME MethodsInv, NEW m \in Media, from_bin(m)
  PROVE  MethodsInv'
<1>1. Trying(m) /\ stage = "bin"
  BY DEF from_bin
<1>2. /\ failedCopies \in Nat /\ DOMAIN ram = Addresses /\ MAIN_RAM_BASE \in Addresses /\ Current = m
  BY <1>1, TriedMethod
<1>3. CASE Copied("boot.bin", MAIN_RAM_BASE) /\ boot(MAIN_RAM_BASE, NoRegs)
  <2>1. ram' = [ram EXCEPT ![MAIN_RAM_BASE] = <<Current, "boot.bin">>] /\ failedCopies' = failedCopies
    BY <1>3 DEF Copied
  <2>2. DOMAIN ram' = Addresses /\ ram'[MAIN_RAM_BASE] = <<m, "boot.bin">>
    BY <1>2, <2>1
  <2>3. QED
    BY <1>1, <1>3, <2>1, <2>2, ImageStarted
<1>4. CASE NotCopied("boot.bin", MAIN_RAM_BASE) /\ NextMethod /\ setup' = setup
  <2>1. DOMAIN ram' = Addresses /\ failedCopies' \in Nat
    BY <1>2, <1>4 DEF NotCopied
  <2>2. ASSUME failedCopies' = 0 PROVE failedCopies = 0 /\ ~ Boots(Current)
    <3>1. "boot.bin" \notin Files /\ failedCopies = 0
      BY <1>2, <1>4, <2>2 DEF NotCopied
    <3>2. ~ Whole(D)
      BY <1>1, <3>1 DEF MethodsInv, PassedOK
    <3>3. QED
      BY <1>2, <3>1, <3>2, MediumBoots
  <2>3. QED
    BY <1>1, <1>4, <2>1, <2>2, PassedOver
<1>5. QED
  BY <1>3, <1>4 DEF from_bin

LEMMA JsonKeeps ==
  ASSUME MethodsInv, NEW m \in Media, from_json(m)
  PROVE  MethodsInv'
<1>1. CASE ReadJson(m)
  <2>1. /\ Trying(m) /\ NoEntryYet /\ UNCHANGED <<setup, method, ram>> /\ garbled' \in BOOLEAN
        /\ \/ failedCopies' = failedCopies /\ garbled' = FALSE
           \/ failedCopies' = failedCopies + 1
        /\ \/ stage' = "entries" /\ json' = Parsed[Json] /\ garbled' = FALSE
           \/ stage' = "entries" /\ json' \in Garbled(m) /\ garbled' = TRUE
           \/ stage' = "bin" /\ failedCopies' = failedCopies /\ ~ HasJson
           \/ stage' = "bin" /\ failedCopies' = failedCopies + 1
    BY <1>1, Zenon DEF ReadJson, Stay, Buffer
  <2>2. /\ SequenceTypeOK /\ method > 0 /\ method <= Len(Present) /\ Current \in Media /\ failedCopies \in Nat
    BY <2>1, TriedMethod
  <2>3. Parsed[Json] = D /\ (~ HasJson => ~ Whole(D))
    BY <2>2, Document DEF Whole, Images
  <2>4. CASE stage' = "bin"
    <3>1. failedCopies' = 0 => ~ Whole(D)
      BY <2>1, <2>2, <2>3, <2>4
    <3>2. QED
      BY <2>1, <2>4, <3>1, FileOpened
  <2>5. CASE stage' = "entries"
    <3>1. J' = D \/ garbled' = TRUE
      BY <2>1, <2>3, <2>5 DEF J
    <3>2. EntriesOK(J')
      BY <2>1, <2>5, Buffers DEF J
    <3>3. QED
      BY <2>1, <2>5, <3>1, <3>2, FileOpened
  <2>6. QED
    BY <2>1, <2>4, <2>5
<1>2. CASE JsonEnd(m)
  BY <1>2, MembersDone
<1>3. ASSUME Trying(m), stage = "entries", entry <= Len(json)
      PROVE  /\ json = J /\ entry <= Len(J) /\ entry \in DOMAIN J /\ DOMAIN regs = {"r1", "r2", "r3"}
             /\ boot_addr_found \in BOOLEAN /\ image_found \in BOOLEAN
  <2>1. SequenceTypeOK
    BY DEF MethodsInv
  <2>2. DOMAIN J = 1 .. Len(J) /\ Len(J) \in Nat
    BY <1>3, Entries
  <2>3. entry \in 1 .. Len(J) + 1
    BY <1>3 DEF MethodsInv, ScannedOK
  <2>4. QED
    BY <1>3, <2>1, <2>2, <2>3 DEF SequenceTypeOK, J
<1>4. CASE Address(m)
  <2>1. /\ Trying(m) /\ stage = "entries" /\ entry <= Len(json) /\ Obeyed /\ KeyOf(json[entry][1]) = "addr"
        /\ boot_addr' = json[entry][2] /\ boot_addr_found' = TRUE
        /\ UNCHANGED <<image_found, regs, ram, failedCopies>>
    BY <1>4 DEF Address, Key, Name, Value
  <2>2. /\ KeyOf(J[entry][1]) = "addr" /\ boot_addr' = J[entry][2] /\ entry <= Len(J) /\ boot_addr_found' \in BOOLEAN
        /\ image_found' \in BOOLEAN /\ DOMAIN regs = {"r1", "r2", "r3"}
    BY <1>3, <2>1
  <2>3. entry \notin Images(J)
    BY <2>2 DEF Images
  <2>4. \A r \in DOMAIN regs : KeyOf(J[entry][1]) # r
    BY <2>2
  <2>5. QED
    BY <2>1, <2>2, <2>3, <2>4, NextMember
<1>5. CASE Register(m)
  <2>1. /\ Trying(m) /\ stage = "entries" /\ entry <= Len(json) /\ Obeyed
        /\ \/ \E r \in DOMAIN regs : KeyOf(json[entry][1]) = r /\ regs' = [regs EXCEPT ![r] = json[entry][2]]
           \/ KeyOf(json[entry][1]) = "bootargs" /\ regs' = regs
        /\ UNCHANGED <<boot_addr, boot_addr_found, image_found, ram, failedCopies>>
    BY <1>5 DEF Register, Key, Name, Value
  <2>2. /\ json = J /\ entry <= Len(J) /\ boot_addr_found' \in BOOLEAN
        /\ image_found' \in BOOLEAN /\ DOMAIN regs = {"r1", "r2", "r3"}
    BY <1>3, <2>1
  <2>3. KeyOf(J[entry][1]) \in {"r1", "r2", "r3", "bootargs"}
    BY <2>1, <2>2
  <2>4. entry \notin Images(J) /\ KeyOf(J[entry][1]) # "addr"
    BY <2>3 DEF Images
  <2>5. /\ DOMAIN regs' = DOMAIN regs
        /\ \A r \in DOMAIN regs : regs'[r] = IF KeyOf(J[entry][1]) = r THEN J[entry][2] ELSE regs[r]
    BY <2>1, <2>2
  <2>6. QED
    BY <2>1, <2>2, <2>4, <2>5, NextMember
<1>6. CASE Image(m)
  <2>1. /\ Key("image") /\ Trying(m)
        /\ \/ /\ Copied(Name, Value) /\ Obeyed /\ image_found' = TRUE
              /\ boot_addr' = (IF boot_addr_found THEN boot_addr ELSE Value)
              /\ UNCHANGED <<boot_addr_found, regs>>
           \/ NotCopied(Name, Value) /\ Stay("bin") /\ ClearJson
    BY <1>6, Zenon DEF Image
  <2>2. /\ json = J /\ entry <= Len(J) /\ entry \in DOMAIN J /\ stage = "entries"
        /\ boot_addr_found \in BOOLEAN /\ DOMAIN regs = {"r1", "r2", "r3"}
        /\ KeyOf(J[entry][1]) = "image" /\ Name = J[entry][1] /\ Value = J[entry][2]
    BY <1>3, <2>1 DEF Key, Name, Value
  <2>3. /\ entry \in Images(J) /\ KeyOf(J[entry][1]) # "addr" /\ \A r \in DOMAIN regs : KeyOf(J[entry][1]) # r
    BY <2>1, <2>2 DEF Images
  <2>4. CASE Copied(Name, Value) /\ Obeyed
    <3>1. /\ J[entry][1] \in Files /\ ram' = [ram EXCEPT ![J[entry][2]] = <<Current, J[entry][1]>>]
          /\ failedCopies' = failedCopies
      BY <2>2, <2>4 DEF Copied
    <3>2. /\ image_found' = TRUE /\ boot_addr' = (IF boot_addr_found THEN boot_addr ELSE J[entry][2])
          /\ boot_addr_found' = boot_addr_found /\ regs' = regs
      <4>1. stage' = "entries"
        BY <2>4 DEF Obeyed, Stay
      <4>2. QED
        BY <4>1, <2>1, <2>2 DEF Stay
    <3>3. image_found' \in BOOLEAN /\ boot_addr_found' \in BOOLEAN
      BY <2>2, <3>2
    <3>4. boot_addr' = IF KeyOf(J[entry][1]) = "addr" \/ (entry \in Images(J) /\ ~ boot_addr_found)
                       THEN J[entry][2] ELSE boot_addr
      BY <2>3, <3>2
    <3>5. QED
      BY <2>1, <2>2, <2>3, <2>4, <3>1, <3>2, <3>3, <3>4, NextMember
  <2>5. CASE NotCopied(Name, Value) /\ Stay("bin") /\ ClearJson
    <3>1. /\ UNCHANGED <<setup, method>> /\ stage' = "bin" /\ NoEntryYet /\ garbled' = FALSE
          /\ garbled' \in BOOLEAN /\ failedCopies \in Nat
      BY <2>1, <2>5, TriedMethod DEF Stay, ClearJson, Buffer
    <3>2. ASSUME J[entry][1] \notin Files, ram' = ram, failedCopies' = failedCopies  PROVE MethodsInv'
      <4>1. ~ Whole(J)
        BY <2>2, <2>3, <3>2 DEF Whole
      <4>2. failedCopies' = 0 => ~ Whole(D)
        BY <2>2, <3>2, <4>1, Entries
      <4>3. QED
        BY <2>1, <3>1, <3>2, <4>2, FileOpened
    <3>3. ASSUME failedCopies' = failedCopies + 1, ram' \in {ram, [ram EXCEPT ![J[entry][2]] = Junk]}
          PROVE  MethodsInv'
      <4>1. DOMAIN ram' = DOMAIN ram /\ failedCopies' # 0
        BY <3>1, <3>3
      <4>2. QED
        BY <2>1, <3>1, <3>3, <4>1, FileOpened
    <3>4. QED
      BY <2>2, <2>5, <3>2, <3>3 DEF NotCopied
  <2>6. QED
    BY <2>1, <2>4, <2>5
<1>7. QED
  BY <1>1, <1>2, <1>4, <1>5, <1>6 DEF from_json

LEMMA SequenceKeeps ==
  ASSUME MethodsInv, boot_sequence
  PROVE  MethodsInv'
<1>1. CASE SerialFailed
  <2>1. /\ method' = 1 /\ stage' = "start" /\ setup' \in Setups /\ UNCHANGED <<ram, failedCopies>>
        /\ entry' = 1 /\ boot_addr_found' = FALSE /\ image_found' = FALSE /\ regs' = NoRegs /\ garbled' = FALSE
    BY <1>1 DEF SerialFailed, NextMethod, ClearJson, NoEntryYet, Buffer
  <2>2. boot_addr_found' \in BOOLEAN /\ image_found' \in BOOLEAN /\ DOMAIN regs' = {"r1", "r2", "r3"}
    BY <2>1 DEF NoRegs
  <2>3. SequenceTypeOK'
    BY <2>1, <2>2 DEF MethodsInv, SequenceTypeOK
  <2>4. BufferOK' /\ ScannedOK' /\ CopiedOK' /\ JumpedOK' /\ PassedOK'
    BY <2>1 DEF BufferOK, ScannedOK, CopiedOK, JumpedOK, PassedOK
  <2>5. QED
    BY <2>3, <2>4 DEF MethodsInv
<1>2. CASE NoMedium
  <2>1. /\ method > 0 /\ method > Len(Present) /\ stage' = "console" /\ entry' = entry
        /\ UNCHANGED <<setup, method, ram, failedCopies, regs, boot_addr_found, image_found, garbled>>
    BY <1>2 DEF NoMedium, jsonVars
  <2>2. SequenceTypeOK' /\ BufferOK' /\ ScannedOK' /\ CopiedOK' /\ JumpedOK'
    BY <2>1 DEF MethodsInv, SequenceTypeOK, BufferOK, ScannedOK, CopiedOK, JumpedOK
  <2>3. Present' = Present
    BY <2>1 DEF Present
  <2>4. ASSUME NEW k  PROVE Boots(Present[k])' <=> Boots(Present[k])
    BY <2>1, Zenon DEF Present, Boots
  <2>5. PassedOK'
    BY <2>1, <2>3, <2>4 DEF MethodsInv, PassedOK
  <2>6. QED
    BY <2>2, <2>5 DEF MethodsInv
<1>3. CASE netboot \/ sdcardboot \/ sataboot
  <2>1. {"net", "sdcard", "sata"} \subseteq Media
    BY DEF Media
  <2>2. QED
    BY <1>3, <2>1, JsonKeeps, BinaryKeeps DEF netboot, sdcardboot, sataboot
<1>4. QED
  BY <1>1, <1>2, <1>3, FlashKeeps, RomKeeps DEF boot_sequence

SequenceInv == SerialInv /\ MethodsInv

LEMMA SequenceStep == SequenceInv /\ [SequenceNext]_<<bootVars, sequenceVars>> => SequenceInv'
<1> SUFFICES ASSUME SequenceInv, [SequenceNext]_<<bootVars, sequenceVars>>
             PROVE  SequenceInv'
  OBVIOUS
<1>1. MethodsInv'
  <2>1. CASE boot_sequence
    BY <2>1, SequenceKeeps DEF SequenceInv
  <2>2. CASE UNCHANGED sequenceVars
    BY <2>2, MethodsUnchanged DEF SequenceInv
  <2>3. QED
    BY <2>1, <2>2 DEF SequenceNext
<1>2. SerialInv'
  <2>1. CASE SerialFailed
    <3>1. SerialFresh'
      BY <2>1 DEF SerialFailed, SerialFresh
    <3>2. SerialFresh' => SerialInv'
      BY SerialStart, PTL
    <3>3. QED
      BY <3>1, <3>2
  <2>2. CASE BootNext
    BY <2>2, SerialStep DEF SequenceInv
  <2>3. CASE UNCHANGED bootVars
    BY <2>3, SerialUnchanged DEF SequenceInv
  <2>4. QED
    BY <2>1, <2>2, <2>3 DEF SequenceNext, boot_sequence
<1>3. QED
  BY <1>1, <1>2 DEF SequenceInv

LEMMA SequenceStart == SequenceInit => SequenceInv
<1> SUFFICES ASSUME SequenceInit PROVE SequenceInv
  OBVIOUS
<1>1. SerialInv
  BY SerialStart DEF SequenceInit, BootInit, SerialFresh
<1>2. QED
  BY <1>1, MethodsStart DEF SequenceInv

(* What the document names up to the entry that the scan is at, and which  *)
(* of the files are in memory by then (netboot_from_json,                  *)
(* copy_file_from_*_to_ram), hold in every method that is tried.           *)
THEOREM SequenceInvariant == SequenceSpec => []SequenceInv
BY SequenceStart, SequenceStep, PTL DEF SequenceSpec

(* No jump goes to an image that is not all there (boot_from_json,         *)
(* copy_image_from_*_to_ram, flashboot, serialboot), for every list of     *)
(* entries, the file's or garbage, whatever the media hold and whichever   *)
(* copies fail.                                                            *)
THEOREM OnlyWholeImagesStart == SequenceSpec => []JumpsToImages
<1>1. ASSUME SequenceInv PROVE JumpsToImages
  <2>1. JumpHasImage
    BY <1>1 DEF SequenceInv, SerialInv
  <2>2. ASSUME stage = "jumped", Current # "rom", entry # 1
        PROVE  LET j == IF garbled THEN json ELSE Members(Json)
                   given(k) == {n \in DOMAIN j : KeyOf(j[n][1]) = k}
               IN /\ boot_addr = LastOf(given("addr"), j, LastOf(Images(j), j, "0"))
                  /\ \A r \in DOMAIN regs : regs[r] = LastOf(given(r), j, "0")
                  /\ \A n \in Images(j) :
                       \/ ram[j[n][2]] = <<Current, j[n][1]>>
                       \/ \E o \in Images(j) : o > n /\ j[o][2] = j[n][2]
    <3>1. J = IF garbled THEN json ELSE Members(Json)
      BY <1>1, <2>2 DEF SequenceInv, MethodsInv, BufferOK, J, D
    <3>2. /\ boot_addr = LastOf(Given("addr"), J, LastOf(Images(J), J, "0"))
          /\ \A r \in DOMAIN regs : regs[r] = LastOf(Given(r), J, "0")
          /\ \A n \in Images(J) :
               \/ ram[J[n][2]] = <<Current, J[n][1]>>
               \/ \E o \in Images(J) : o > n /\ J[o][2] = J[n][2]
      BY <1>1, <2>2, Zenon DEF SequenceInv, MethodsInv, JumpedOK
    <3>3. QED
      BY <3>1, <3>2, Zenon DEF Given
  <2>3. ASSUME stage = "jumped", Current # "rom", entry = 1
        PROVE  ram[boot_addr] \in {<<Current, "boot.bin">>, <<"flash", "image">>}
    BY <1>1, <2>3 DEF SequenceInv, MethodsInv, JumpedOK
  <2>4. QED
    BY <2>1, <2>2, <2>3, Zenon DEF JumpsToImages
<1>2. SequenceInv => JumpsToImages
  BY <1>1
<1>3. QED
  BY <1>2, SequenceInvariant, PTL

(* Unless a copy fails half way, the first method of boot_sequence that    *)
(* has an image boots it, for every order of methods and every content of  *)
(* the media; the console comes up only when none has one.                 *)
THEOREM FirstImageStarts == SequenceSpec => []FirstMediumBoots
<1>1. ASSUME SequenceInv PROVE FirstMediumBoots
  <2>1. SUFFICES ASSUME failedCopies = 0, stage \in {"jumped", "console"},
                        NEW k \in DOMAIN Present, Boots(Present[k])
                 PROVE  stage = "jumped" /\ method <= k
    BY Zenon DEF FirstMediumBoots
  <2>2. method \in Nat /\ setup \in Setups
    BY <1>1, <2>1 DEF SequenceInv, MethodsInv, SequenceTypeOK
  <2>3. k \in 1 .. Len(Present) /\ Len(Present) \in Nat
    <3>1. Present \in Seq({"flash", "rom"} \cup Media)
      BY <2>2, BootSequenceAssumption DEF Present
    <3>2. QED
      BY <2>1, <3>1
  <2>4. k \notin 1 .. method - 1
    BY <1>1, <2>1 DEF SequenceInv, MethodsInv, PassedOK
  <2>5. stage = "console" => method > Len(Present)
    BY <1>1, <2>1 DEF SequenceInv, MethodsInv, PassedOK
  <2>6. QED
    BY <2>1, <2>2, <2>3, <2>4, <2>5
<1>2. SequenceInv => FirstMediumBoots
  BY <1>1
<1>3. QED
  BY <1>2, SequenceInvariant, PTL
=============================================================================
