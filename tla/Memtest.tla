------------------------------ MODULE Memtest ------------------------------
(***************************************************************************)
(* memtest of libbase/memtest.c on a RAM that may be at fault: address     *)
(* lines that do not matter, and bits of a cell that are stuck.  A pass    *)
(* over the array is one step.                                             *)
(*                                                                         *)
(* A word is the set of its bits that are 1.                               *)
(***************************************************************************)
EXTENDS Integers, FiniteSetsExt

CONSTANTS
  Width, Taps,              \* bits of a word; lfsr_taps[Width], as a set of bits
  Words, BusWords,          \* words that are tested, and by memtest_bus
  Rams                      \* the RAMs: cell of an address, stuck bits of a cell

Bits  == 0 .. Width - 1
Array == 0 .. Words - 1

ASSUME MemtestAssumption ==
  /\ Width \in Nat \ {0} /\ Taps \subseteq Bits
  /\ Words \in Nat \ {0} /\ BusWords \in 1 .. Words
  /\ Rams \subseteq [cell : [Array -> Array], ones : [Array -> SUBSET Bits],
                     zeros : [Array -> SUBSET Bits]]

VARIABLES
  memory,           \* the RAM and what it holds
  cache,            \* what the caches hold of the array, write-through
  pass,             \* position in Passes
  errors

memtestVars == <<memory, cache, pass, errors>>

ONEZERO == {b \in Bits : b % 2 = 1}
ZEROONE == {b \in Bits : b % 2 = 0}

lfsr(prev) ==
  LET shifted == {b - 1 : b \in prev \ {0}}
  IN IF 0 \in prev THEN (shifted \cup Taps) \ (shifted \cap Taps) ELSE shifted
Data[i \in Array] == lfsr(IF i = 0 THEN {0} ELSE Data[i - 1])

Tested(test) == IF test = "data" THEN Array ELSE 0 .. BusWords - 1
Pattern(test, i) ==
  CASE test = "onezero" -> ONEZERO [] test = "zeroone" -> ZEROONE [] OTHER -> Data[i]

(* memtest_addr is left out: it returns at once for less than 64 KiB, and  *)
(* memtest gives it at most MEMTEST_ADDR_SIZE, 32 KiB.                     *)
Passes ==
  <<<<"onezero", "write">>, <<"onezero", "read">>, <<"zeroone", "write">>,
    <<"zeroone", "read">>, <<"data", "write">>, <<"data", "read">>>>
Test == Passes[pass][1]
Done == pass = 7

MemtestInit(m) ==
  /\ memory = m
  /\ cache = << >> /\ pass = 1 /\ errors = 0

-----------------------------------------------------------------------------
Stuck(ram, c, word) == (word \cup ram.ones[c]) \ ram.zeros[c]
Written(c) == {i \in Tested(Test) : memory.ram.cell[i] = c}

WritePass ==
  /\ Passes[pass][2] = "write" /\ pass' = pass + 1
  /\ memory' = [memory EXCEPT !.holds =
       [c \in Array |-> IF Written(c) = {} THEN @[c]
                        ELSE Stuck(memory.ram, c, Pattern(Test, Max(Written(c))))]]
  /\ cache' = [i \in Tested(Test) |-> Pattern(Test, i)]
  /\ UNCHANGED errors

(* The caches are flushed before anything is read back.                    *)
Flushed_not == cache
Flushed == << >>
ReadPass ==
  LET Read(i) == IF i \in DOMAIN Flushed THEN Flushed[i] ELSE memory.holds[memory.ram.cell[i]]
  IN /\ Passes[pass][2] = "read" /\ pass' = pass + 1
     /\ errors' = errors + Cardinality({i \in Tested(Test) : Read(i) # Pattern(Test, i)})
     /\ cache' = Flushed /\ UNCHANGED memory

memtest == ~ Done /\ (WritePass \/ ReadPass)
=============================================================================
