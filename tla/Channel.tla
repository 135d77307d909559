------------------------------- MODULE Channel -------------------------------
(***************************************************************************)
(* What a serial driver promises in one direction: the characters come out *)
(* in the order in which they went in, none twice, none invented.  Unless  *)
(* the channel is Lossless, a character may be lost, but only behind at    *)
(* least Capacity others that are still waiting.                           *)
(***************************************************************************)
EXTENDS Sequences, SequencesExt, Naturals

CONSTANTS Char, Capacity, Lossless

VARIABLE queue

Put  == \E c \in Char : queue' = Append(queue, c)

Take == queue # << >> /\ queue' = Tail(queue)

Lose ==
  /\ ~ Lossless
  /\ \E i \in Capacity + 1 .. Len(queue) : queue' = RemoveAt(queue, i)

ChannelSpec == queue = << >> /\ [][Put \/ Take \/ Lose]_queue
=============================================================================
