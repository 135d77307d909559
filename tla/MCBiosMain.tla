----------------------------- MODULE MCBiosMain -----------------------------
(* One module, whose eye at one of three bitslips is a window or all but   *)
(* one; five words of four bits, with an address line that does not matter *)
(* or one stuck bit anywhere, or neither; two letters and three commands,  *)
(* of which two fit into the list of the completion.                       *)
EXTENDS BiosMain

Edges == {d \in Delays : d % 8 \in {0, 1}}
Windows == UNION {{a .. b, Delays \ (a .. b)} : a \in Edges, b \in Edges}
MCEyes == {[b \in Bitslips |-> IF b = 1 THEN e ELSE IF b = 2 THEN {4} ELSE {}] : e \in Windows}
MCPhys == [skew : [Modules -> 0 .. TckTaps - 1], latency : [Modules -> {0, 1}], eye : [Modules -> MCEyes]]

Same == [i \in Array |-> i]
Line(n) == [i \in Array |-> IF (i \div n) % 2 = 1 THEN i - n ELSE i]
NoBits == [i \in Array |-> {}]
Bit(i, b) == [NoBits EXCEPT ![i] = {b}]
MCRams ==
  {[cell |-> c, ones |-> NoBits, zeros |-> NoBits] : c \in {Same, Line(1), Line(2), Line(4)}}
    \cup UNION {{[cell |-> Same, ones |-> Bit(i, b), zeros |-> NoBits],
                 [cell |-> Same, ones |-> NoBits, zeros |-> Bit(i, b)]} : i \in Array, b \in Bits}
MCModuleBits(m) == Bits
MCTaps == {2, 3}
MCCommands == <<<<"b", "b">>, <<"b", "a">>, <<"a", "b">>>>
=============================================================================
