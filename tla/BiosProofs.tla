----------------------------- MODULE BiosProofs -----------------------------
(***************************************************************************)
(* Proofs about the start of the BIOS: the training of the SDRAM, its test *)
(* and what is booted from it, and about its console.                      *)
(***************************************************************************)
EXTENDS BiosMain, FiniteSetTheorems, WellFoundedInduction, SequenceTheorems, TLAPS

-----------------------------------------------------------------------------
(***************************************************************************)
(* Nothing is booted from a memory with a fault that the test can show.    *)
(*                                                                         *)
(* What the test has shown of the RAM after each pass, unless it has       *)
(* counted an error: a pattern that was written is in the words of the bus *)
(* as far as the stuck bits let it; one that was read back got through     *)
(* them; and both together leave no bit that is stuck.                     *)
(***************************************************************************)
Bus == 0 .. BusWords - 1
Cell(i) == memory.ram.cell[i]
Wrote(word) == \A i \in Bus : memory.holds[Cell(i)] = Stuck(memory.ram, Cell(i), word)
Passed(word) == errors = 0 => \A i \in Bus : Stuck(memory.ram, Cell(i), word) = word

MemoryTypeOK ==
  /\ memory.ram \in [cell : [Array -> Array], ones : [Array -> SUBSET Bits],
                     zeros : [Array -> SUBSET Bits]]
  /\ memory = [ram |-> memory.ram, holds |-> memory.holds]

Tests ==
  /\ MemoryTypeOK /\ errors \in Nat /\ pass \in 1 .. 7
  /\ pass = 2 => Wrote(ONEZERO)
  /\ pass > 2 => Passed(ONEZERO)
  /\ pass = 4 => Wrote(ZEROONE)
  /\ pass > 4 => Passed(ZEROONE)
  /\ pass = 7 /\ errors = 0 => \A i \in Array : memory.holds[Cell(i)] = Data[i]

BootInv ==
  /\ stage \in {"train", "trained", "test", "boot", "booted", "console"}
  /\ stage \in {"train", "trained"} => memory \subseteq Bits /\ errors = 0 /\ pass = 1
  /\ stage = "test" => Tests
  /\ BootsOnSoundMemory

-----------------------------------------------------------------------------
(* Bits that let both patterns through are not stuck.                      *)
LEMMA NothingStuck ==
  ASSUME NEW ones \in SUBSET Bits, NEW zeros \in SUBSET Bits,
         (ONEZERO \cup ones) \ zeros = ONEZERO, (ZEROONE \cup ones) \ zeros = ZEROONE
  PROVE  ones = {} /\ zeros = {}
<1>1. \A b \in Bits : b % 2 = 0 \/ b % 2 = 1
  BY MemtestAssumption DEF Bits
<1>2. \A b \in Bits : b \in ONEZERO \/ b \in ZEROONE
  BY <1>1 DEF ONEZERO, ZEROONE
<1>3. ONEZERO \cap ZEROONE = {}
  BY DEF ONEZERO, ZEROONE
<1>4. zeros = {}
  BY <1>2
<1>5. QED
  BY <1>3, <1>4

(* A pass that counts no new error has read what it expected everywhere.   *)
LEMMA CountsErrors ==
  ASSUME NEW n \in Nat, NEW W \in SUBSET Array
  PROVE  /\ n + Cardinality(W) \in Nat
         /\ n + Cardinality(W) = 0 => n = 0 /\ W = {}
<1>1. IsFiniteSet(Array)
  BY FS_Interval, MemtestAssumption DEF Array
<1>2. IsFiniteSet(W) /\ Cardinality(W) \in Nat
  BY <1>1, FS_Subset, FS_CardinalityType
<1>3. Cardinality(W) = 0 <=> W = {}
  BY <1>2, FS_EmptySet
<1>4. QED
  BY <1>2, <1>3
(* Each pattern is written in one pass and read in the next.               *)
LEMMA PassNames ==
  ASSUME pass \in 1 .. 7
  PROVE  /\ ~ Done /\ Passes[pass][2] = "write" => pass \in {1, 3, 5}
         /\ ~ Done /\ Passes[pass][2] = "read" => pass \in {2, 4, 6}
         /\ pass \in {1, 2} => Test = "onezero"
         /\ pass \in {3, 4} => Test = "zeroone"
         /\ pass \in {5, 6} => Test = "data"
<1>1. pass = 1 \/ pass = 2 \/ pass = 3 \/ pass = 4 \/ pass = 5 \/ pass = 6 \/ pass = 7
  OBVIOUS
<1>2. /\ Passes[1] = <<"onezero", "write">> /\ Passes[2] = <<"onezero", "read">>
      /\ Passes[3] = <<"zeroone", "write">> /\ Passes[4] = <<"zeroone", "read">>
      /\ Passes[5] = <<"data", "write">> /\ Passes[6] = <<"data", "read">>
  BY DEF Passes
<1>3. QED
  BY <1>1, <1>2 DEF Done, Test

(* What a pass of the memory test writes, pattern by pattern.              *)
LEMMA PatternNames ==
  ASSUME NEW i
  PROVE  /\ Pattern("onezero", i) = ONEZERO
         /\ Pattern("zeroone", i) = ZEROONE
         /\ Pattern("data", i) = Data[i]
BY DEF Pattern

(* Which words each pass tests: the first ones, or the whole array.        *)
LEMMA WordsOfTheBus ==
  /\ Bus \subseteq Array
  /\ Tested("onezero") = Bus /\ Tested("zeroone") = Bus /\ Tested("data") = Array
BY MemtestAssumption DEF Tested, Bus, Array

(* A pattern that is written to some words goes into their cells, however  *)
(* many addresses a cell has.                                              *)
LEMMA WriteStep ==
  ASSUME Tests, ~ Done, WritePass
  PROVE  Tests'
<1>1. /\ pass \in 1 .. 7 /\ pass' = pass + 1 /\ errors' = errors /\ errors \in Nat
      /\ Passes[pass][2] = "write"
  BY DEF Tests, WritePass
<1>2. pass \in {1, 3, 5}
  BY <1>1, PassNames
<1>3. PICK h : memory' = [ram |-> memory.ram, holds |-> h]
               /\ h = [c \in Array |-> IF Written(c) = {} THEN memory.holds[c]
                        ELSE Stuck(memory.ram, c, Pattern(Test, Max(Written(c))))]
  BY DEF WritePass, Tests, MemoryTypeOK
<1>4. memory'.ram = memory.ram /\ memory'.holds = h
  BY <1>3
<1>5. MemoryTypeOK'
  BY <1>3, <1>4 DEF Tests, MemoryTypeOK
<1>6. ASSUME NEW word, pass \in {1, 3}, \A i : Pattern(Test, i) = word
      PROVE  Wrote(word)'
  <2>1. SUFFICES ASSUME NEW i \in Bus
                 PROVE  h[memory.ram.cell[i]] = Stuck(memory.ram, memory.ram.cell[i], word)
    BY <1>4 DEF Wrote, Cell, Stuck
  <2>2. PICK c \in Array : c = memory.ram.cell[i]
    BY WordsOfTheBus DEF Tests, MemoryTypeOK
  <2>3. Tested(Test) = Bus
    BY <1>6, <1>1, PassNames, WordsOfTheBus
  <2>4. i \in Written(c)
    BY <2>2, <2>3 DEF Written
  <2>5. h[c] = Stuck(memory.ram, c, Pattern(Test, Max(Written(c))))
    BY <2>4, <1>3
  <2>6. QED
    BY <2>2, <2>5, <1>6
<1>7. CASE pass = 1
  <2>1. Wrote(ONEZERO)'
    BY <1>7, <1>1, <1>6, PassNames, PatternNames
  <2>2. QED
    BY <1>7, <1>1, <1>5, <2>1 DEF Tests
<1>8. CASE pass = 3
  <2>1. Wrote(ZEROONE)'
    BY <1>8, <1>1, <1>6, PassNames, PatternNames
  <2>2. Passed(ONEZERO)'
    BY <1>8, <1>1, <1>4 DEF Tests, Passed, Cell, Stuck
  <2>3. QED
    BY <1>8, <1>1, <1>5, <2>1, <2>2 DEF Tests
<1>9. CASE pass = 5
  <2>1. Passed(ONEZERO)' /\ Passed(ZEROONE)'
    BY <1>9, <1>1, <1>4 DEF Tests, Passed, Cell, Stuck
  <2>2. QED
    BY <1>9, <1>1, <1>5, <2>1 DEF Tests
<1>10. QED
  BY <1>2, <1>7, <1>8, <1>9

(* Reading compares the cells and not the caches, which are flushed.       *)
LEMMA ReadStep ==
  ASSUME Tests, ~ Done, ReadPass
  PROVE  Tests'
<1>1. /\ pass \in 1 .. 7 /\ pass' = pass + 1 /\ memory' = memory /\ errors \in Nat
      /\ Passes[pass][2] = "read"
  BY DEF Tests, ReadPass
<1>2. pass \in {2, 4, 6}
  BY <1>1, PassNames
<1>3. PICK W : /\ errors' = errors + Cardinality(W)
               /\ W = {i \in Tested(Test) : memory.holds[Cell(i)] # Pattern(Test, i)}
  <2>1. DOMAIN Flushed = {}
    BY DEF Flushed
  <2>2. QED
    BY <2>1 DEF ReadPass, Cell
<1>4. Tested(Test) \subseteq Array
  BY <1>1, <1>2, PassNames, WordsOfTheBus
<1>5. W \in SUBSET Array
  BY <1>3, <1>4
<1>6. errors' \in Nat /\ (errors' = 0 => errors = 0 /\ W = {})
  BY <1>1, <1>3, <1>5, CountsErrors
<1>7. errors' = 0 => \A i \in Tested(Test) : memory.holds[Cell(i)] = Pattern(Test, i)
  BY <1>6, <1>3
<1>8. MemoryTypeOK'
  BY <1>1 DEF Tests, MemoryTypeOK
<1>9. ASSUME NEW word, Passed(word) PROVE Passed(word)'
  BY <1>9, <1>1, <1>6 DEF Passed, Cell, Stuck
<1>10. CASE pass = 2
  <2>1. Passed(ONEZERO)'
    <3>1. errors' = 0 => \A i \in Bus : memory.holds[Cell(i)] = ONEZERO
      BY <1>10, <1>1, <1>7, PassNames, PatternNames, WordsOfTheBus
    <3>2. QED
      BY <3>1, <1>1, <1>10 DEF Tests, Passed, Wrote, Cell, Stuck
  <2>2. QED
    BY <1>10, <1>1, <1>6, <1>8, <2>1 DEF Tests
<1>11. CASE pass = 4
  <2>1. Passed(ZEROONE)'
    <3>1. errors' = 0 => \A i \in Bus : memory.holds[Cell(i)] = ZEROONE
      BY <1>11, <1>1, <1>7, PassNames, PatternNames, WordsOfTheBus
    <3>2. QED
      BY <3>1, <1>1, <1>11 DEF Tests, Passed, Wrote, Cell, Stuck
  <2>2. Passed(ONEZERO)'
    BY <1>9, <1>11 DEF Tests
  <2>3. QED
    BY <1>11, <1>1, <1>6, <1>8, <2>1, <2>2 DEF Tests
<1>12. CASE pass = 6
  <2>1. errors' = 0 => \A i \in Array : memory.holds[Cell(i)] = Data[i]
    BY <1>12, <1>1, <1>7, PassNames, PatternNames, WordsOfTheBus
  <2>2. Passed(ONEZERO)' /\ Passed(ZEROONE)'
    BY <1>9, <1>12 DEF Tests
  <2>3. QED
    BY <1>12, <1>1, <1>6, <1>8, <2>1, <2>2 DEF Tests, Cell
<1>13. QED
  BY <1>2, <1>10, <1>11, <1>12
(* A test that ends without an error has been shown a sound memory.        *)
LEMMA TestTells ==
  ASSUME Tests, Done, errors = 0
  PROVE  Sound
<1>1. pass = 7
  BY DEF Done
<1>2. ASSUME NEW i \in Bus PROVE memory.ram.ones[Cell(i)] = {} /\ memory.ram.zeros[Cell(i)] = {}
  <2>1. Cell(i) \in Array
    BY WordsOfTheBus DEF Tests, MemoryTypeOK, Cell
  <2>2. memory.ram.ones[Cell(i)] \in SUBSET Bits /\ memory.ram.zeros[Cell(i)] \in SUBSET Bits
    BY <2>1 DEF Tests, MemoryTypeOK
  <2>3. Passed(ONEZERO) /\ Passed(ZEROONE)
    BY <1>1 DEF Tests
  <2>4. /\ Stuck(memory.ram, Cell(i), ONEZERO) = ONEZERO
        /\ Stuck(memory.ram, Cell(i), ZEROONE) = ZEROONE
    BY <2>3 DEF Passed
  <2>5. QED
    BY <2>2, <2>4, NothingStuck DEF Stuck
<1>3. \A i \in Array : memory.holds[Cell(i)] = Data[i]
  BY <1>1 DEF Tests
<1>4. QED
  BY <1>2, <1>3 DEF Sound, Cell, Bus

(* The test begins on a RAM whose bits are bits, the dead ones included.   *)
LEMMA TestBegins ==
  ASSUME BootInv, memtest_begins
  PROVE  BootInv'
<1>1. /\ stage = "trained" /\ stage' = "test" /\ pass' = pass /\ errors' = errors
      /\ pass = 1 /\ errors = 0 /\ memory \subseteq Bits
  BY DEF memtest_begins, BootInv
<1>2. PICK r \in Rams, garbage \in {{}, memory} :
        memory' = [ram |-> [cell |-> r.cell, ones |-> [c \in Array |-> r.ones[c] \cup garbage],
                            zeros |-> [c \in Array |-> r.zeros[c] \cup (memory \ garbage)]],
                   holds |-> [c \in Array |-> {}]]
  BY DEF memtest_begins
<1>3. r \in [cell : [Array -> Array], ones : [Array -> SUBSET Bits], zeros : [Array -> SUBSET Bits]]
  BY MemtestAssumption
<1>4. garbage \subseteq Bits /\ memory \ garbage \subseteq Bits
  BY <1>1, <1>2
<1>5. PICK one, zero : /\ one = [c \in Array |-> r.ones[c] \cup garbage]
                       /\ zero = [c \in Array |-> r.zeros[c] \cup (memory \ garbage)]
  OBVIOUS
<1>6. one \in [Array -> SUBSET Bits] /\ zero \in [Array -> SUBSET Bits]
  BY <1>3, <1>4, <1>5
<1>7. PICK h : memory' = [ram |-> [cell |-> r.cell, ones |-> one, zeros |-> zero], holds |-> h]
  BY <1>2, <1>5
<1>8. MemoryTypeOK'
  BY <1>3, <1>6, <1>7 DEF MemoryTypeOK
<1>9. Tests'
  BY <1>1, <1>8 DEF Tests
<1>10. QED
  BY <1>1, <1>9 DEF BootInv, BootsOnSoundMemory

(* The rest of the start.                                                  *)
LEMMA BootStep ==
  ASSUME BootInv, BiosNext
  PROVE  BootInv'
<1>1. CASE stage = "train" /\ sdram_leveling /\ UNCHANGED <<memtestVars, consoleVars, mainVars>>
  BY <1>1 DEF BootInv, BootsOnSoundMemory, memtestVars, mainVars
<1>2. CASE sdram_leveling_returns
  <2>1. memory' \subseteq Bits
    BY <1>2, BiosAssumption DEF sdram_leveling_returns
  <2>2. QED
    BY <1>2, <2>1 DEF sdram_leveling_returns, BootInv, BootsOnSoundMemory
<1>3. CASE memtest_begins
  BY <1>3, TestBegins
<1>4. CASE stage = "test" /\ memtest /\ UNCHANGED <<trainingVars, consoleVars, mainVars>>
  <2>1. Tests'
    BY <1>4, WriteStep, ReadStep DEF BootInv, memtest
  <2>2. QED
    BY <1>4, <2>1 DEF BootInv, BootsOnSoundMemory, mainVars
<1>5. CASE sdram_init_returns
  <2>1. CASE errors = 0
    BY <1>5, <2>1, TestTells DEF sdram_init_returns, BootInv, BootsOnSoundMemory
  <2>2. CASE errors # 0
    BY <1>5, <2>2 DEF sdram_init_returns, BootInv, BootsOnSoundMemory
  <2>3. QED
    BY <2>1, <2>2
<1>6. CASE boot_sequence
  BY <1>6 DEF boot_sequence, BootInv, BootsOnSoundMemory
<1>7. CASE stage = "console" /\ readline /\ UNCHANGED <<trainingVars, memtestVars, mainVars>>
  BY <1>7 DEF BootInv, BootsOnSoundMemory, mainVars
<1>8. QED
  BY <1>1, <1>2, <1>3, <1>4, <1>5, <1>6, <1>7 DEF BiosNext

(* What the boot rests on holds in every state of the BIOS: bios/main.c    *)
(* with sdram_init and memtest.                                            *)
THEOREM BootInvariant == BiosSpec => []BootInv
<1>1. BiosInit => BootInv
  BY DEF BiosInit, MemtestInit, BootInv, BootsOnSoundMemory
<1>2. BootInv /\ [BiosNext]_biosVars => BootInv'
  <2>1. CASE UNCHANGED biosVars
    BY <2>1 DEF biosVars, memtestVars, mainVars, BootInv, BootsOnSoundMemory, Tests, MemoryTypeOK,
                Wrote, Passed, Cell, Stuck
  <2>2. QED
    BY <2>1, BootStep
<1>3. QED
  BY <1>1, <1>2, PTL DEF BiosSpec

(* The boot sequence is tried only on a memory in which the words of the   *)
(* bus test have no stuck bit and every word of the array has kept its own *)
(* data, for every RAM, mapping of its addresses and number of dead        *)
(* modules.                                                                *)
THEOREM MemoryIsSound == BiosSpec => []BootsOnSoundMemory
<1>1. BootInv => BootsOnSoundMemory
  BY DEF BootInv
<1>2. QED
  BY <1>1, BootInvariant, PTL
-----------------------------------------------------------------------------
(***************************************************************************)
(* Lemmas on numbers.                                                      *)
(***************************************************************************)
(* A set of natural numbers has a least one: of the intervals from 0 up to *)
(* before each of them, one holds no other.                                *)
LEMMA LeastNumber ==
  ASSUME NEW S \in SUBSET Nat, S # {}
  PROVE  Min(S) \in S /\ \A k \in S : Min(S) <= k
<1> DEFINE R == StrictSubsetOrdering(Nat)
           T == {0 .. n - 1 : n \in S}
<1>1. IsWellFoundedOn(R, FiniteSubsetsOf(Nat))
  BY FS_StrictSubsetOrderingWellFounded
<1>2. T \subseteq FiniteSubsetsOf(Nat)
  <2>1. \A n \in S : IsFiniteSet(0 .. n - 1) /\ 0 .. n - 1 \in SUBSET Nat
    BY FS_Interval
  <2>2. QED
    BY <2>1 DEF FiniteSubsetsOf
<1>3. T # {}
  OBVIOUS
<1>4. PICK n \in S : \A k \in S : ~ (<<0 .. k - 1, 0 .. n - 1>> \in R)
  <2>. HIDE DEF R
  <2>1. PICK x \in T : \A y \in T : ~ (<<y, x>> \in R)
    BY <1>1, <1>2, <1>3, WFMin
  <2>2. QED
    BY <2>1
<1>5. \A k \in S : n <= k
  <2>1. SUFFICES ASSUME NEW k \in S, k < n PROVE FALSE
    OBVIOUS
  <2>2. 0 .. k - 1 \in SUBSET Nat /\ 0 .. n - 1 \in SUBSET Nat
    OBVIOUS
  <2>3. 0 .. k - 1 \subseteq 0 .. n - 1
    BY <2>1
  <2>4. k \in 0 .. n - 1 /\ k \notin 0 .. k - 1
    BY <2>1
  <2>5. 0 .. k - 1 # 0 .. n - 1
    BY <2>4
  <2>6. <<0 .. k - 1, 0 .. n - 1>> \in R
    BY <2>2, <2>3, <2>5 DEF StrictSubsetOrdering
  <2>7. QED
    BY <1>4, <2>6
<1>6. QED
  BY <1>5 DEF Min

(* A bounded one has a greatest.                                           *)
LEMMA GreatestNumber ==
  ASSUME NEW S \in SUBSET Nat, S # {}, NEW n \in Nat, \A k \in S : k <= n
  PROVE  Max(S) \in S /\ \A k \in S : Max(S) >= k
<1> DEFINE T == {n - k : k \in S}
<1>1. T \in SUBSET Nat /\ T # {}
  <2>1. \A k \in S : n - k \in Nat
    OBVIOUS
  <2>2. QED
    BY <2>1
<1>2. PICK t \in T : \A u \in T : t <= u
  <2>. HIDE DEF T
  <2>1. QED
    BY <1>1, LeastNumber
<1>3. PICK k \in S : t = n - k
  OBVIOUS
<1>4. \A j \in S : n - j \in T
  OBVIOUS
<1>5. \A j \in S : k >= j
  <2>1. TAKE j \in S
  <2>2. t <= n - j
    BY <1>2, <1>4
  <2>3. QED
    BY <2>2, <1>3
<1>6. QED
  BY <1>5 DEF Max

(* A set of naturals that is not empty has its least member.               *)
LEMMA LeastOfSome ==
  ASSUME NEW S \in SUBSET Nat, S # {}, NEW none
  PROVE  Least(S, none) \in S /\ \A k \in S : Least(S, none) <= k
BY LeastNumber DEF Least

(* The remainder moves with its number, until it wraps around.             *)
LEMMA Remainder ==
  ASSUME NEW p \in Int, NEW k \in Int, NEW t \in Nat \ {0}
  PROVE  /\ p % t \in 0 .. t - 1
         /\ (p % t) + k \in 0 .. t - 1 => (p + k) % t = (p % t) + k
<1>1. PICK q \in Int, r \in 0 .. t - 1 : p = t * q + r /\ r = p % t
  OBVIOUS
<1>2. PICK u \in Int, v \in 0 .. t - 1 : p + k = t * u + v /\ v = (p + k) % t
  OBVIOUS
<1>3. ASSUME r + k \in 0 .. t - 1 PROVE v = r + k
  <2>1. t * (u - q) = (r + k) - v
    <3>1. t * (u - q) = t * u - t * q
      OBVIOUS
    <3>2. PICK x \in Int, y \in Int : x = t * u /\ y = t * q
      OBVIOUS
    <3>3. p = y + r /\ p + k = x + v
      BY <1>1, <1>2, <3>2
    <3>4. x - y = (r + k) - v
      BY <3>3
    <3>5. QED
      BY <3>1, <3>2, <3>4
  <2>2. u - q >= 1 => t * (u - q) >= t
    OBVIOUS
  <2>3. u - q <= -1 => t * (u - q) <= - t
    OBVIOUS
  <2>4. u - q = 0
    BY <2>1, <2>2, <2>3, <1>3
  <2>5. t * (u - q) = 0
    BY <2>4
  <2>6. QED
    BY <2>1, <2>5, <1>3
<1>4. QED
  BY <1>1, <1>2, <1>3
-----------------------------------------------------------------------------
(***************************************************************************)
(* Write leveling puts each strobe within a quarter of a clock after the   *)
(* edge of the clock.                                                      *)
(***************************************************************************)
Quarter == TckTaps \div 4
LastTap == SDRAM_PHY_DELAYS - Quarter - 1        \* the last tap of a scan

(* A quarter of the delays of a clock, and the delays that are scanned.    *)
LEMMA SdramNumbers ==
  /\ SDRAM_PHY_DELAYS \in Nat \ {0} /\ Quarter \in Nat \ {0} /\ TckTaps = 4 * Quarter
  /\ TckTaps \in Nat \ {0}
  /\ LastTap \in Nat /\ Scanned = 0 .. LastTap /\ Max(Scanned) = LastTap
<1>1. /\ TckTaps \in Nat \ {0} /\ TckTaps % 4 = 0 /\ SDRAM_PHY_DELAYS > TckTaps \div 4
      /\ SDRAM_PHY_DELAYS \in Nat \ {0}
  BY SdramAssumption
<1>2. Quarter \in Nat \ {0} /\ TckTaps = 4 * Quarter
  BY <1>1 DEF Quarter
<1>3. LastTap \in Nat /\ Scanned = 0 .. LastTap
  BY <1>1, <1>2 DEF LastTap, Scanned, Quarter
<1>4. Max(0 .. LastTap) \in 0 .. LastTap /\ \A k \in 0 .. LastTap : Max(0 .. LastTap) >= k
  <2>1. 0 .. LastTap \in SUBSET Nat /\ 0 .. LastTap # {} /\ \A k \in 0 .. LastTap : k <= LastTap
    BY <1>3
  <2>2. QED
    BY <2>1, <1>3, GreatestNumber
<1>5. QED
  BY <1>1, <1>2, <1>3, <1>4

(* What a module samples at a tap, once the command delay is set: the      *)
(* phase moves along with the taps.                                        *)
LEMMA PhaseMoves ==
  ASSUME phy \in Phys, NEW m \in Modules, NEW cdly \in Int, NEW tap \in Int, NEW k \in Int
  PROVE  /\ Phase(m, cdly, tap) \in 0 .. TckTaps - 1
         /\ Phase(m, cdly, tap) + k \in 0 .. TckTaps - 1 =>
              Phase(m, cdly, tap + k) = Phase(m, cdly, tap) + k
<1>1. phy.skew[m] \in Int /\ TckTaps \in Nat \ {0}
  BY SdramAssumption
<1>2. PICK w \in Int, p \in Int : w = phy.skew[m] /\ p = tap - w - cdly
  BY <1>1
<1>3. Phase(m, cdly, tap) = p % TckTaps /\ Phase(m, cdly, tap + k) = (p + k) % TckTaps
  <2>1. Phase(m, cdly, tap) = (tap - w - cdly) % TckTaps
    BY <1>2 DEF Phase
  <2>2. Phase(m, cdly, tap + k) = (tap + k - w - cdly) % TckTaps
    BY <1>2 DEF Phase
  <2>3. tap + k - w - cdly = p + k
    BY <1>2
  <2>4. QED
    BY <1>1, <1>2, <2>1, <2>2, <2>3
<1>4. /\ p % TckTaps \in 0 .. TckTaps - 1
      /\ (p % TckTaps) + k \in 0 .. TckTaps - 1 => (p + k) % TckTaps = (p % TckTaps) + k
  BY <1>1, Remainder
<1>5. PICK a, b : a = p % TckTaps /\ b = (p + k) % TckTaps
  OBVIOUS
<1>6. /\ a \in 0 .. TckTaps - 1
      /\ a + k \in 0 .. TckTaps - 1 => b = a + k
  BY ONLY <1>4, <1>5
<1>7. QED
  BY <1>3, <1>5, <1>6

(* A delay that a scan finds: a window of ones that begins there begins    *)
(* with the edge, and one that begins before the scan is taken only if     *)
(* more than a quarter of a clock is left of it.                           *)
LEMMA ScanFindsTheEdge ==
  ASSUME phy \in Phys, NEW m \in Modules, NEW cdly \in Int, scan(m, cdly) # -1
  PROVE  4 * Phase(m, cdly, scan(m, cdly)) < TckTaps
<1>1. PICK ones, longest, s :
        /\ ones = Ones(m, cdly) /\ s = Least(longest, -1)
        /\ longest = {t \in Starts(ones) : \A o \in Starts(ones) : Count(ones, o) <= Count(ones, t)}
  OBVIOUS
<1>2. scan(m, cdly) = IF longest # {} /\ Count(ones, s) > (IF s = 0 THEN TckTaps \div 4 ELSE 0)
                      THEN s ELSE -1
  BY <1>1 DEF scan
<1>3. longest # {} /\ scan(m, cdly) = s /\ (s = 0 => Count(ones, s) > Quarter)
  BY <1>2 DEF Quarter
<1>4. ones \subseteq 0 .. LastTap
  BY <1>1, SdramNumbers DEF Ones
<1>5. longest \in SUBSET Nat
  BY <1>1, <1>4 DEF Starts
<1>6. s \in longest
  <2>1. Least(longest, -1) \in longest
    BY <1>3, <1>5, LeastOfSome
  <2>2. QED
    BY <1>1, <2>1
<1>7. s \in ones /\ s - 1 \notin ones /\ s \in 0 .. LastTap
  BY <1>1, <1>4, <1>6 DEF Starts
<1>8. \A j \in 0 .. LastTap : j \in ones <=> 2 * Phase(m, cdly, j) < TckTaps
  BY <1>1, SdramNumbers DEF Ones
<1>9. PICK a \in 0 .. TckTaps - 1 : a = Phase(m, cdly, s) /\ 2 * a < TckTaps
  BY <1>7, <1>8, PhaseMoves, SdramNumbers
<1>10. CASE s # 0
  <2>1. s - 1 \in 0 .. LastTap /\ s + -1 = s - 1
    BY <1>7, <1>10, SdramNumbers
  <2>2. ~ (2 * Phase(m, cdly, s - 1) < TckTaps)
    BY <1>7, <1>8, <2>1
  <2>3. a + -1 \in 0 .. TckTaps - 1 => Phase(m, cdly, s + -1) = a + -1
    BY <1>7, <1>9, PhaseMoves
  <2>4. a = 0
    BY <2>1, <2>2, <2>3, <1>9, SdramNumbers
  <2>5. QED
    BY <2>4, <1>3, <1>9, SdramNumbers
<1>11. CASE s = 0
  <2>1. PICK later : later = {j \in Scanned \ ones : j > s}
    OBVIOUS
  <2>2. later \in SUBSET Nat /\ later \subseteq 0 .. LastTap
    BY <2>1, SdramNumbers
  <2>3. Count(ones, s) = Least(later, LastTap) - 0
    BY <2>1, <1>11, SdramNumbers DEF Count
  <2>4. Least(later, LastTap) \in 0 .. LastTap /\ \A k \in later : Least(later, LastTap) <= k
    <3>1. CASE later = {}
      BY <3>1, SdramNumbers DEF Least
    <3>2. CASE later # {}
      BY <3>2, <2>2, LeastOfSome, Zenon
    <3>3. QED
      BY <3>1, <3>2
  <2>5. Quarter < Least(later, LastTap)
    BY <2>3, <2>4, <1>3, <1>11
  <2>6. Quarter \in 0 .. LastTap /\ Quarter \notin later
    BY <2>2, <2>4, <2>5, SdramNumbers
  <2>7. Quarter \in ones
    BY <2>1, <2>6, <1>11, SdramNumbers
  <2>8. 2 * Phase(m, cdly, Quarter) < TckTaps
    BY <2>6, <2>7, <1>8
  <2>9. Phase(m, cdly, 0 + Quarter) = a + Quarter
    <3>1. a + Quarter \in 0 .. TckTaps - 1
      BY <1>9, SdramNumbers
    <3>2. a = Phase(m, cdly, 0)
      BY <1>9, <1>11
    <3>3. Phase(m, cdly, 0) + Quarter \in 0 .. TckTaps - 1 =>
            Phase(m, cdly, 0 + Quarter) = Phase(m, cdly, 0) + Quarter
      BY PhaseMoves, SdramNumbers
    <3>4. QED
      BY <3>1, <3>2, <3>3, Zenon
  <2>10. 2 * (a + Quarter) < TckTaps
    BY <2>8, <2>9, SdramNumbers
  <2>11. QED
    BY <2>10, <1>3, <1>9, SdramNumbers
<1>12. QED
  BY <1>10, <1>11

-----------------------------------------------------------------------------
(* The strobes are aligned, and what the training goes on with is of its   *)
(* type.  The registers are forgotten after the training.                  *)
TrainingTypeOK ==
  /\ phy \in Phys
  /\ training \in {"command", "data", "latency", "read", "trained"}
  /\ training = "command" => range \in [start : Int, end : Int, next : Int, step : Int]
  /\ best.cdly \in Int
  /\ training \in {"command", "data"} => wdelay = None

StrobeInv ==
  /\ stage = "train" => TrainingTypeOK
  /\ stage # "train" => wdelay = None
  /\ StrobesAreAligned

(* A register that was not found is not looked at.                         *)
LEMMA NoneIsAligned ==
  wdelay = None => StrobesAreAligned
BY DEF None, StrobesAreAligned

(* The larger of 0 and a number.                                           *)
LEMMA MaxWithZero ==
  ASSUME NEW a \in Int
  PROVE  Max({0, a}) \in Int
<1>1. \E x \in {0, a} : \A y \in {0, a} : x >= y
  BY DEF Max
<1>2. QED
  BY <1>1 DEF Max

(* A step of the search for the command delay keeps the types.             *)
LEMMA CommandStep ==
  ASSUME TrainingTypeOK, find_cmd_delay
  PROVE  TrainingTypeOK' /\ wdelay' = None
<1>1. /\ phy' = phy /\ wdelay' = wdelay /\ wdelay = None /\ training = "command"
      /\ range \in [start : Int, end : Int, next : Int, step : Int] /\ best.cdly \in Int
  BY DEF find_cmd_delay, TrainingTypeOK
<1>2. CASE TryDelay
  <2>1. range' \in [start : Int, end : Int, next : Int, step : Int]
    <3>1. PICK n \in Int : n = range.next + range.step
      BY <1>1
    <3>2. range' = [range EXCEPT !.next = n]
      BY <1>2, <3>1 DEF TryDelay
    <3>3. QED
      BY <1>1, <3>2
  <2>2. Better(best, range.next).cdly \in {best.cdly, range.next}
    BY DEF Better
  <2>3. best'.cdly \in Int
    BY <1>1, <1>2, <2>2 DEF TryDelay
  <2>4. training' = "command"
    BY <1>1, <1>2 DEF TryDelay
  <2>5. QED
    BY <1>1, <2>1, <2>3, <2>4 DEF TrainingTypeOK, None
<1>3. CASE NarrowRange
  <2>1. best' = best
    BY <1>3 DEF NarrowRange
  <2>2. CASE training' = "data"
    BY <1>1, <2>1, <2>2 DEF TrainingTypeOK, None
  <2>3. CASE training' = training /\ training' # "data"
    <3>1. PICK step, start, end :
            /\ range' = [start |-> start, end |-> end, next |-> start, step |-> step]
            /\ step = range.step \div 4 /\ start = Max({0, best.cdly - range.step})
            /\ end = Min({512, best.cdly + range.step + 1})
      BY <1>3, <2>3 DEF NarrowRange
    <3>2. step \in Int /\ start \in Int
      BY <1>1, <3>1, MaxWithZero
    <3>3. end \in Int
      <4>1. PICK e \in Int : e = best.cdly + range.step + 1
        BY <1>1
      <4>2. \E x \in {512, e} : \A y \in {512, e} : x <= y
        OBVIOUS
      <4>3. Min({512, e}) \in {512, e}
        BY <4>2 DEF Min
      <4>4. QED
        BY <3>1, <4>1, <4>3
    <3>4. range' \in [start : Int, end : Int, next : Int, step : Int]
      BY <3>1, <3>2, <3>3
    <3>5. QED
      BY <1>1, <2>1, <2>3, <3>4 DEF TrainingTypeOK, None
  <2>4. QED
    BY <1>3, <2>2, <2>3 DEF NarrowRange
<1>4. QED
  BY <1>2, <1>3 DEF find_cmd_delay

(* The last scan leaves its delays in the modules.                         *)
LEMMA WriteLevelingStep ==
  ASSUME TrainingTypeOK, write_leveling
  PROVE  TrainingTypeOK' /\ StrobesAreAligned'
<1>1. /\ phy' = phy /\ best' = best /\ training' = "latency" /\ phy \in Phys /\ best.cdly \in Int
      /\ wdelay' = [m \in Modules |-> scan(m, best.cdly)]
  BY DEF TrainingTypeOK, write_leveling, sdram_write_leveling_scan
<1>2. ASSUME NEW m \in Modules, wdelay'[m] # -1
      PROVE  4 * Phase(m, best.cdly, wdelay'[m]) < TckTaps
  BY <1>1, <1>2, ScanFindsTheEdge
<1>3. StrobesAreAligned'
  BY <1>1, <1>2 DEF StrobesAreAligned, Phase
<1>4. QED
  BY <1>1, <1>3 DEF TrainingTypeOK

(* Every step of the BIOS keeps the invariant of the strobes.              *)
LEMMA StrobeStep ==
  ASSUME StrobeInv, BiosNext
  PROVE  StrobeInv'
<1>1. CASE stage = "train" /\ sdram_leveling /\ UNCHANGED <<memtestVars, consoleVars, mainVars>>
  <2>1. TrainingTypeOK /\ stage' = "train"
    BY <1>1 DEF StrobeInv, mainVars
  <2>2. CASE find_cmd_delay
    <3>1. TrainingTypeOK' /\ wdelay' = None
      BY <2>1, <2>2, CommandStep
    <3>2. StrobesAreAligned'
      BY <3>1 DEF None, StrobesAreAligned
    <3>3. QED
      BY <2>1, <3>1, <3>2 DEF StrobeInv
  <2>3. CASE write_leveling
    BY <2>1, <2>3, WriteLevelingStep DEF StrobeInv
  <2>4. CASE sdram_write_latency_calibration \/ sdram_read_leveling
    <3>1. /\ phy' = phy /\ best' = best /\ wdelay' = wdelay
          /\ training' \in {"read", "trained"}
      BY <2>4 DEF sdram_write_latency_calibration, sdram_read_leveling
    <3>2. StrobesAreAligned'
      BY <3>1 DEF StrobeInv, StrobesAreAligned, Phase
    <3>3. QED
      BY <2>1, <3>1, <3>2 DEF StrobeInv, TrainingTypeOK
  <2>5. QED
    BY <1>1, <2>2, <2>3, <2>4 DEF sdram_leveling
<1>2. CASE sdram_leveling_returns
  <2>1. wdelay' = None /\ stage' # "train"
    BY <1>2 DEF sdram_leveling_returns
  <2>2. StrobesAreAligned'
    BY <2>1 DEF None, StrobesAreAligned
  <2>3. QED
    BY <2>1, <2>2 DEF StrobeInv, None
<1>3. CASE /\ stage # "train" /\ stage' # "train" /\ UNCHANGED trainingVars
  <2>1. wdelay' = None
    BY <1>3 DEF StrobeInv, trainingVars
  <2>2. StrobesAreAligned'
    BY <2>1 DEF None, StrobesAreAligned
  <2>3. QED
    BY <1>3, <2>1, <2>2 DEF StrobeInv, None
<1>4. QED
  <2>1. memtest_begins \/ sdram_init_returns \/ boot_sequence =>
          stage # "train" /\ stage' # "train" /\ UNCHANGED trainingVars
    BY DEF memtest_begins, sdram_init_returns, boot_sequence
  <2>2. ASSUME \/ stage = "test" /\ memtest /\ UNCHANGED <<trainingVars, consoleVars, mainVars>>
               \/ stage = "console" /\ readline /\ UNCHANGED <<trainingVars, memtestVars, mainVars>>
        PROVE  stage # "train" /\ stage' # "train" /\ UNCHANGED trainingVars
    BY <2>2 DEF mainVars
  <2>3. QED
    BY <1>1, <1>2, <1>3, <2>1, <2>2 DEF BiosNext

(* What the training keeps, in every state of the BIOS: sdram_leveling up  *)
(* to the delays of the strobes.                                           *)
THEOREM StrobeInvariant == BiosSpec => []StrobeInv
<1>1. BiosInit => StrobeInv
  <2>1. SUFFICES ASSUME SdramInit, stage = "train" PROVE StrobeInv
    BY DEF BiosInit
  <2>2. wdelay = None /\ training = "command" /\ phy \in Phys
    BY <2>1 DEF SdramInit
  <2>3. best.cdly \in Int
    BY <2>1 DEF SdramInit
  <2>4. range \in [start : Int, end : Int, next : Int, step : Int]
    <3>1. PICK step : /\ step = IF SDRAM_PHY_DELAYS > 32 THEN SDRAM_PHY_DELAYS \div 8 ELSE 1
                      /\ range = [start |-> 0, end |-> TckTaps \div 2, next |-> 0, step |-> step]
      BY <2>1 DEF SdramInit
    <3>2. step \in Int /\ TckTaps \div 2 \in Int
      BY <3>1, SdramNumbers
    <3>3. QED
      BY <3>1, <3>2
  <2>5. QED
    BY <2>1, <2>2, <2>3, <2>4, NoneIsAligned DEF StrobeInv, TrainingTypeOK
<1>2. StrobeInv /\ [BiosNext]_biosVars => StrobeInv'
  <2>1. CASE UNCHANGED biosVars
    BY <2>1 DEF biosVars, trainingVars, mainVars, StrobeInv, TrainingTypeOK, StrobesAreAligned,
                Phase, None
  <2>2. QED
    BY <2>1, StrobeStep
<1>3. QED
  BY <1>1, <1>2, PTL DEF BiosSpec

(* In every state of the training, a write delay that was found puts the   *)
(* strobe of its module at most a quarter of a clock after the edge, for   *)
(* every skew and every number of taps: sdram_write_leveling_scan.         *)
THEOREM StrobesStayAligned == BiosSpec => []StrobesAreAligned
<1>1. StrobeInv => StrobesAreAligned
  BY DEF StrobeInv
<1>2. QED
  BY <1>1, StrobeInvariant, PTL
-----------------------------------------------------------------------------
(***************************************************************************)
(* A module that can be trained is.                                        *)
(***************************************************************************)
Lo(E) == Min(E)
Hi(E) == Max(E)

(* An eye that is a window is an interval.                                 *)
LEMMA WindowIsInterval ==
  ASSUME NEW E \in SUBSET Delays, E # {}, Window(E)
  PROVE  /\ Lo(E) \in Delays /\ Hi(E) \in Delays /\ Lo(E) <= Hi(E)
         /\ E = Lo(E) .. Hi(E) /\ Cardinality(E) = Hi(E) - Lo(E) + 1
<1>1. E \in SUBSET Nat /\ \A k \in E : k <= SDRAM_PHY_DELAYS /\ SDRAM_PHY_DELAYS \in Nat
  BY SdramNumbers DEF Delays
<1>2. Lo(E) \in E /\ \A k \in E : Lo(E) <= k
  BY <1>1, LeastNumber DEF Lo
<1>3. Hi(E) \in E /\ \A k \in E : Hi(E) >= k
  BY <1>1, GreatestNumber DEF Hi
<1>4. Lo(E) \in Nat /\ Hi(E) \in Nat /\ Lo(E) <= Hi(E)
  BY <1>1, <1>2, <1>3
<1>5. E = Lo(E) .. Hi(E)
  <2>1. \A d \in Lo(E) .. Hi(E) : d \in E
    BY DEF Window, Lo, Hi
  <2>2. \A d \in E : d \in Lo(E) .. Hi(E)
    BY <1>1, <1>2, <1>3, <1>4
  <2>3. QED
    BY <2>1, <2>2
<1>6. Cardinality(Lo(E) .. Hi(E)) = Hi(E) - Lo(E) + 1
  BY <1>4, FS_Interval
<1>7. QED
  BY <1>2, <1>3, <1>4, <1>5, <1>6

(* The center of a window that is wider than half the jump is inside it,   *)
(* though the jump may lead past its end, or around the end of the delays. *)
LEMMA CenterIsInside ==
  ASSUME NEW E \in SUBSET Delays, E # {}, Window(E), 2 * Cardinality(E) > Jump
  PROVE  center(E) \in E
<1>1. PICK D \in Nat \ {0} : D = SDRAM_PHY_DELAYS
  BY SdramNumbers
<1>2. PICK lo \in 0 .. D - 1, hi \in 0 .. D - 1 :
        lo = Min(E) /\ lo <= hi /\ E = lo .. hi /\ Cardinality(E) = hi - lo + 1
  BY <1>1, WindowIsInterval DEF Delays, Lo
<1>3. PICK jump \in Nat : jump = Jump /\ (jump < D \/ (jump = 1 /\ D = 1)) /\ jump >= 1
  <2>1. CASE D > 32
    BY <1>1, <2>1 DEF Jump
  <2>2. CASE D <= 32 /\ D > 8
    BY <1>1, <2>2 DEF Jump
  <2>3. CASE D <= 8
    BY <1>1, <2>3 DEF Jump
  <2>4. QED
    BY <1>1, <2>1, <2>2, <2>3
<1>4. 2 * (hi - lo + 1) > jump
  BY <1>2, <1>3
<1>5. PICK from, last, out, end :
        /\ from = lo + jump /\ last = Max({from, D - 1})
        /\ out = {d \in from .. last : d % D \notin E} /\ end = Least(out, last + 1)
  OBVIOUS
<1>6. center(E) = ((lo + end) \div 2) % D
  <2>1. Least(E, SDRAM_PHY_DELAYS) = lo
    BY <1>2 DEF Least
  <2>2. QED
    BY <1>1, <1>3, <1>5, <2>1 DEF center
<1>7. from \in Nat /\ last \in Nat /\ last = IF from >= D - 1 THEN from ELSE D - 1
  <2>1. from \in Nat
    BY <1>3, <1>5
  <2>2. \A x \in {from, D - 1} : (\A y \in {from, D - 1} : x >= y)
                                 => x = IF from >= D - 1 THEN from ELSE D - 1
    BY <2>1
  <2>3. \E x \in {from, D - 1} : \A y \in {from, D - 1} : x >= y
    BY <2>1
  <2>4. QED
    BY <1>5, <2>1, <2>2, <2>3, SMTT(40) DEF Max
<1>8. \A d \in 0 .. D - 1 : d % D = d
  BY <1>1
<1>9. out \in SUBSET Nat
  BY <1>5, <1>7
<1>10. (lo + end) \div 2 \in lo .. hi => center(E) \in E
  <2>1. SUFFICES ASSUME NEW c \in lo .. hi, c = (lo + end) \div 2 PROVE c % D \in E
    BY <1>6
  <2>2. c \in 0 .. D - 1
    BY <1>2
  <2>3. QED
    BY <1>2, <1>8, <2>2
<1>11. CASE from <= hi
  <2>1. last = D - 1
    BY <1>2, <1>7, <1>11
  <2>2. out = {d \in from .. D - 1 : d > hi}
    <3>1. from = lo + jump /\ out = {d \in from .. D - 1 : d % D \notin E}
      BY <1>5, <2>1, Zenon
    <3>2. ASSUME NEW d \in from .. D - 1 PROVE d % D \notin E <=> d > hi
      <4>1. d \in 0 .. D - 1 /\ d >= lo
        BY <3>1, <1>7
      <4>2. d % D = d
        BY <4>1, <1>8, Zenon
      <4>3. d \notin lo .. hi <=> d > hi
        BY <4>1
      <4>4. QED
        BY <4>2, <4>3, <1>2, Zenon
    <3>3. QED
      BY <3>1, <3>2, Zenon
  <2>3. end = hi + 1
    <3>1. CASE hi = D - 1
      <4>1. out = {}
        BY <2>2, <3>1
      <4>2. QED
        BY <4>1, <3>1, <2>1, <1>5 DEF Least
    <3>2. CASE hi < D - 1
      <4>1. hi + 1 \in out
        BY <2>2, <3>2, <1>11, <1>7, <1>2
      <4>2. end \in out /\ end <= hi + 1
        BY <4>1, <1>5, <1>9, LeastOfSome
      <4>3. QED
        BY <4>2, <2>2, <1>2, <1>7
    <3>3. QED
      BY <3>1, <3>2, <1>2
  <2>4. (lo + end) \div 2 \in lo .. hi
    BY <2>3, <1>2
  <2>5. QED
    BY <2>4, <1>10, Zenon
<1>12. CASE from > hi /\ jump < D
  <2>1. from \in from .. last
    BY <1>7
  <2>2. from % D \notin E
    <3>1. CASE from < D
      <4>1. from \in 0 .. D - 1 /\ from \notin lo .. hi
        BY <3>1, <1>2, <1>7, <1>12
      <4>2. QED
        BY <4>1, <1>2, <1>8
    <3>2. CASE from >= D
      <4>1. from - D \in 0 .. D - 1 /\ from - D < lo
        <5>1. from = lo + jump
          BY <1>5
        <5>2. QED
          BY <5>1, <1>12, <3>2
      <4>2. from % D = from - D
        BY <4>1, <1>7, <1>1, <3>2
      <4>3. from - D \notin lo .. hi
        BY <4>1, <1>2
      <4>4. QED
        BY <4>2, <4>3, <1>2
    <3>3. QED
      BY <3>1, <3>2, <1>7, <1>1
  <2>3. from \in out
    BY <2>1, <2>2, <1>5
  <2>4. end \in out /\ end <= from
    BY <2>3, <1>5, <1>9, LeastOfSome
  <2>5. end = from
    BY <2>4, <1>5, <1>7
  <2>6. (lo + end) \div 2 \in lo .. hi
    <3>1. end = lo + jump
      BY <2>5, <1>5
    <3>2. (lo + (lo + jump)) \div 2 \in lo .. hi
      BY <1>1, <1>2, <1>3, <1>4, SMTT(40)
    <3>3. QED
      BY <3>1, <3>2
  <2>7. QED
    BY <2>6, <1>10, Zenon
<1>13. CASE jump = 1 /\ D = 1
  <2>1. lo = 0 /\ hi = 0 /\ E = {0}
    <3>1. lo = 0 /\ hi = 0
      BY <1>2, <1>13
    <3>2. 0 .. 0 = {0}
      OBVIOUS
    <3>3. QED
      BY <3>1, <3>2, <1>2
  <2>2. from = 1 /\ last = 1
    BY <2>1, <1>5, <1>7, <1>13
  <2>3. out = {}
    <3>1. \A d \in 1 .. 1 : d % 1 = 0
      OBVIOUS
    <3>2. QED
      BY <2>1, <2>2, <1>5, <1>13, <3>1
  <2>4. end = 1 + 1
    BY <2>2, <2>3, <1>5 DEF Least
  <2>5. QED
    BY <2>1, <2>4, <1>6, <1>13
<1>14. QED
  BY <1>3, <1>7, <1>2, <1>11, <1>12, <1>13
(* How much of an eye a scan of a module finds: all of it at the right     *)
(* latency, and nothing at another.                                        *)
LEMMA ScanSees ==
  ASSUME phy \in Phys, NEW m \in Modules, NEW wb \in Bitslips, NEW rb \in Bitslips
  PROVE  /\ phy.latency[m] \in Bitslips /\ phy.eye[m][rb] \in SUBSET Delays
         /\ scan_module(m, wb, rb) \in 0 .. SDRAM_PHY_DELAYS
         /\ wdelay[m] # -1 /\ wb = phy.latency[m]
              => /\ {d \in Delays : Works(m, wb, rb, d)} = phy.eye[m][rb]
                 /\ scan_module(m, wb, rb) = Cardinality(phy.eye[m][rb])
         /\ wb # phy.latency[m] => scan_module(m, wb, rb) = 0
         /\ phy.eye[m][rb] # {} => Cardinality(phy.eye[m][rb]) >= 1
<1>1. phy.latency[m] \in Bitslips /\ phy.eye[m][rb] \in SUBSET Delays
  <2>1. /\ phy.latency \in [Modules -> Bitslips]
        /\ phy.eye \in [Modules -> [Bitslips -> SUBSET Delays]]
    BY SdramAssumption
  <2>2. QED
    BY <2>1
<1>2. IsFiniteSet(Delays) /\ Cardinality(Delays) = SDRAM_PHY_DELAYS
  <2>1. PICK e \in Int : e = SDRAM_PHY_DELAYS - 1 /\ e >= 0
    BY SdramNumbers
  <2>2. IsFiniteSet(0 .. e) /\ Cardinality(0 .. e) = e + 1
    BY <2>1, FS_Interval
  <2>3. e + 1 = SDRAM_PHY_DELAYS
    BY <2>1, SdramNumbers
  <2>4. QED
    BY <2>1, <2>2, <2>3 DEF Delays
<1>3. ASSUME NEW W \in SUBSET Delays
      PROVE  Cardinality(W) \in 0 .. SDRAM_PHY_DELAYS /\ (W # {} => Cardinality(W) >= 1)
  <2>1. IsFiniteSet(W) /\ Cardinality(W) <= SDRAM_PHY_DELAYS
    BY <1>2, FS_Subset
  <2>2. Cardinality(W) \in Nat /\ (Cardinality(W) = 0 <=> W = {})
    BY <2>1, FS_CardinalityType, FS_EmptySet
  <2>3. QED
    BY <2>1, <2>2, SdramNumbers
<1>4. ASSUME wdelay[m] # -1, wb = phy.latency[m]
      PROVE  {d \in Delays : Works(m, wb, rb, d)} = phy.eye[m][rb]
  BY <1>1, <1>4 DEF Works
<1>5. ASSUME wb # phy.latency[m]
      PROVE  {d \in Delays : Works(m, wb, rb, d)} = {}
  BY <1>5 DEF Works
<1>6. {d \in Delays : Works(m, wb, rb, d)} \in SUBSET Delays
  OBVIOUS
<1>7. QED
  BY <1>1, <1>3, <1>4, <1>5, <1>6, FS_EmptySet DEF scan_module

(* Of a module whose strobe is aligned, whose latency is tried and which   *)
(* answers at some delay, the calibration finds the latency.               *)
LEMMA CalibrationFindsTheLatency ==
  ASSUME phy \in Phys, NEW m \in Modules, wdelay[m] # -1, phy.latency[m] % 2 = 0,
         NEW b \in Bitslips, phy.eye[m][b] # {}, NEW wb \in calibrate(m)
  PROVE  wb = phy.latency[m]
<1> DEFINE scores(w) == {scan_module(m, w, rb) : rb \in Bitslips}
<1>1. PICK l \in Bitslips : l = phy.latency[m]
  BY ScanSees
<1>2. wb \in Bitslips /\ \A c \in Bitslips : c % 2 = 0 => Max(scores(c)) <= Max(scores(wb))
  BY DEF calibrate, BestOf
<1>3. \A w \in Bitslips : scores(w) \in SUBSET (0 .. SDRAM_PHY_DELAYS) /\ scores(w) # {}
  BY ScanSees
<1>4. SDRAM_PHY_DELAYS \in Nat
  BY SdramNumbers
<1>. HIDE DEF scores
<1>5. \A w \in Bitslips : Max(scores(w)) \in scores(w) /\ \A k \in scores(w) : Max(scores(w)) >= k
  <2>1. TAKE w \in Bitslips
  <2>2. scores(w) \in SUBSET Nat /\ \A k \in scores(w) : k <= SDRAM_PHY_DELAYS
    BY <1>3, <1>4
  <2>3. QED
    BY <1>3, <1>4, <2>2, GreatestNumber
<1>6. scan_module(m, l, b) \in scores(l)
  BY DEF scores
<1>7. scan_module(m, l, b) >= 1
  BY <1>1, ScanSees
<1>8. Max(scores(l)) >= 1
  BY <1>1, <1>3, <1>4, <1>5, <1>6, <1>7
<1>9. Max(scores(wb)) >= 1
  BY <1>1, <1>2, <1>3, <1>4, <1>5, <1>8
<1>10. SUFFICES ASSUME wb # l PROVE FALSE
  BY <1>1
<1>11. \A k \in scores(wb) : k = 0
  BY <1>1, <1>2, <1>10, ScanSees DEF scores
<1>12. QED
  BY <1>2, <1>5, <1>9, <1>11
(* The latency of the modules that can be found has been found.            *)
LatencyFound ==
  /\ wbitslip \in [Modules -> Bitslips]
  /\ \A m \in Modules :
       wdelay[m] # -1 /\ phy.latency[m] % 2 = 0 /\ (\E b \in Bitslips : phy.eye[m][b] # {})
         => wbitslip[m] = phy.latency[m]

TrainInv ==
  /\ stage # "train" => training = "command"
  /\ training \in {"read", "trained"} => LatencyFound
  /\ TrainedModulesWork

(* After the calibration every module of which the eye is inside the scan  *)
(* has a bitslip at which it works.                                        *)
LEMMA LatencyStep ==
  ASSUME phy \in Phys, sdram_write_latency_calibration
  PROVE  LatencyFound' /\ training' = "read"
<1>1. /\ training' = "read" /\ phy' = phy /\ wdelay' = wdelay
      /\ wbitslip' \in [Modules -> Bitslips] /\ \A m \in Modules : wbitslip'[m] \in calibrate(m)
  BY DEF sdram_write_latency_calibration
<1>2. ASSUME NEW m \in Modules, wdelay[m] # -1, phy.latency[m] % 2 = 0,
             NEW b \in Bitslips, phy.eye[m][b] # {}
      PROVE  wbitslip'[m] = phy.latency[m]
  BY <1>1, <1>2, CalibrationFindsTheLatency
<1>3. QED
  BY <1>1, <1>2 DEF LatencyFound

(* The read leveling takes one of the widest eyes, and its center.         *)
LEMMA ReadLevelingStep ==
  ASSUME phy \in Phys, LatencyFound, sdram_read_leveling
  PROVE  LatencyFound' /\ TrainedModulesWork'
<1>1. /\ training' = "trained" /\ phy' = phy /\ wdelay' = wdelay /\ wbitslip' = wbitslip
      /\ rbitslip' \in [Modules -> Bitslips] /\ \A m \in Modules : rbitslip'[m] \in read_level(m)
      /\ rdelay' = [m \in Modules |->
                      center({d \in Delays : Works(m, wbitslip[m], rbitslip'[m], d)})]
  BY DEF sdram_read_leveling
<1>2. LatencyFound'
  BY <1>1 DEF LatencyFound
<1>3. ASSUME NEW m \in Modules, Trainable(m)
      PROVE  Works(m, wbitslip[m], rbitslip'[m], rdelay'[m])
  <2>1. PICK best_rb \in Bitslips : 2 * Cardinality(phy.eye[m][best_rb]) > Jump
    BY <1>3 DEF Trainable
  <2>2. PICK rb \in Bitslips : rb = rbitslip'[m] /\ rb \in read_level(m)
    BY <1>1
  <2>3. /\ wdelay[m] # -1 /\ phy.latency[m] % 2 = 0
        /\ \A b \in Bitslips : phy.eye[m][b] # {} => Window(phy.eye[m][b])
    BY <1>3 DEF Trainable
  <2>4. Jump \in Nat
    BY DEF Jump
  <2>5. phy.eye[m][best_rb] # {}
    BY <2>1, <2>4, FS_EmptySet
  <2>6. wbitslip[m] \in Bitslips /\ wbitslip[m] = phy.latency[m]
    BY <2>3, <2>5 DEF LatencyFound
  <2>7. scan_module(m, wbitslip[m], best_rb) <= scan_module(m, wbitslip[m], rb)
    BY <2>2 DEF read_level, BestOf
  <2>8. /\ scan_module(m, wbitslip[m], best_rb) = Cardinality(phy.eye[m][best_rb])
        /\ scan_module(m, wbitslip[m], rb) = Cardinality(phy.eye[m][rb])
        /\ {d \in Delays : Works(m, wbitslip[m], rb, d)} = phy.eye[m][rb]
    BY <2>3, <2>6, ScanSees
  <2>9. /\ Cardinality(phy.eye[m][best_rb]) \in 0 .. SDRAM_PHY_DELAYS
        /\ Cardinality(phy.eye[m][rb]) \in 0 .. SDRAM_PHY_DELAYS
        /\ phy.eye[m][rb] \in SUBSET Delays
    BY <2>6, <2>8, ScanSees
  <2>10. 2 * Cardinality(phy.eye[m][rb]) > Jump
    BY <2>1, <2>4, <2>7, <2>8, <2>9, SdramNumbers
  <2>11. phy.eye[m][rb] # {}
    BY <2>10, <2>4, FS_EmptySet
  <2>12. center(phy.eye[m][rb]) \in phy.eye[m][rb]
    BY <2>3, <2>9, <2>10, <2>11, CenterIsInside
  <2>13. rdelay'[m] = center(phy.eye[m][rb])
    BY <1>1, <2>2, <2>8
  <2>14. QED
    BY <2>2, <2>3, <2>6, <2>12, <2>13 DEF Works
<1>4. TrainedModulesWork'
  <2>1. \A m \in Modules : Trainable(m)' => Trainable(m)
    BY <1>1 DEF Trainable
  <2>2. \A m \in Modules : Works(m, wbitslip[m], rbitslip'[m], rdelay'[m])
                            => Works(m, wbitslip[m], rbitslip[m], rdelay[m])'
    BY <1>1 DEF Works
  <2>3. QED
    BY <1>3, <2>1, <2>2 DEF TrainedModulesWork
<1>5. QED
  BY <1>2, <1>4

(* Every step of the BIOS keeps the invariant of the training.             *)
LEMMA TrainStep ==
  ASSUME StrobeInv, TrainInv, BiosNext
  PROVE  TrainInv'
<1>1. CASE stage = "train" /\ sdram_leveling /\ UNCHANGED <<memtestVars, consoleVars, mainVars>>
  <2>1. /\ phy \in Phys /\ stage' = "train"
        /\ training \in {"command", "data", "latency", "read", "trained"}
    BY <1>1 DEF StrobeInv, TrainingTypeOK, mainVars
  <2>2. CASE find_cmd_delay \/ write_leveling
    <3>1. training' \notin {"read", "trained"}
      BY <2>1, <2>2 DEF find_cmd_delay, TryDelay, NarrowRange, write_leveling
    <3>2. QED
      BY <2>1, <3>1 DEF TrainInv, TrainedModulesWork
  <2>3. CASE sdram_write_latency_calibration
    BY <2>1, <2>3, LatencyStep DEF TrainInv, TrainedModulesWork
  <2>4. CASE sdram_read_leveling
    <3>1. LatencyFound
      BY <2>4 DEF TrainInv, sdram_read_leveling
    <3>2. QED
      BY <2>1, <2>4, <3>1, ReadLevelingStep DEF TrainInv
  <2>5. QED
    BY <1>1, <2>2, <2>3, <2>4 DEF sdram_leveling
<1>2. CASE sdram_leveling_returns
  BY <1>2 DEF sdram_leveling_returns, TrainInv, TrainedModulesWork
<1>3. CASE /\ stage # "train" /\ stage' # "train" /\ UNCHANGED trainingVars
  BY <1>3 DEF TrainInv, TrainedModulesWork, trainingVars
<1>4. QED
  <2>1. memtest_begins \/ sdram_init_returns \/ boot_sequence =>
          stage # "train" /\ stage' # "train" /\ UNCHANGED trainingVars
    BY DEF memtest_begins, sdram_init_returns, boot_sequence
  <2>2. ASSUME \/ stage = "test" /\ memtest /\ UNCHANGED <<trainingVars, consoleVars, mainVars>>
               \/ stage = "console" /\ readline /\ UNCHANGED <<trainingVars, memtestVars, mainVars>>
        PROVE  stage # "train" /\ stage' # "train" /\ UNCHANGED trainingVars
    BY <2>2 DEF mainVars
  <2>3. QED
    BY <1>1, <1>2, <1>3, <2>1, <2>2 DEF BiosNext

(* After the training, every module that can be trained works, for every   *)
(* number of delays and bitslips: whatever even latency, widest eye and    *)
(* jump it has, sdram_leveling_center_module ends inside the eye.          *)
THEOREM TrainingSucceeds == BiosSpec => []TrainedModulesWork
<1>1. BiosInit => TrainInv
  BY DEF BiosInit, SdramInit, TrainInv, TrainedModulesWork
<1>2. StrobeInv /\ TrainInv /\ [BiosNext]_biosVars => TrainInv'
  <2>1. CASE UNCHANGED biosVars
    BY <2>1 DEF biosVars, trainingVars, mainVars, TrainInv, LatencyFound, TrainedModulesWork,
                Trainable, Works
  <2>2. QED
    BY <2>1, TrainStep
<1>3. TrainInv => TrainedModulesWork
  BY DEF TrainInv
<1>4. QED
  BY <1>1, <1>2, <1>3, StrobeInvariant, PTL DEF BiosSpec

-----------------------------------------------------------------------------
(***************************************************************************)
(* The terminal shows the line (bios/readline.c).  What an echo paints is  *)
(* compared with the line cell by cell; a row looks like a line that it    *)
(* continues only with blanks.                                             *)
(***************************************************************************)
Glyph == Chars \cup {"blank"}

Painted(row, p, q) ==
  [i \in 1 .. (IF p + Len(q) >= Len(row) THEN p + Len(q) ELSE Len(row)) |->
     IF i \in p + 1 .. p + Len(q) THEN q[i - p] ELSE row[i]]

LooksLike(row, str) ==
  /\ Len(str) <= Len(row)
  /\ \A i \in 1 .. Len(row) : row[i] = IF i <= Len(str) THEN str[i] ELSE "blank"

LineOK == buf \in Seq(Chars) /\ num \in 0 .. Len(buf) /\ insert \in BOOLEAN
HistoryOK ==
  /\ hist_lines \in [0 .. HIST_MAX - 1 -> Seq(Chars)]
  /\ hist_max \in 0 .. HIST_MAX - 1 /\ hist_add_idx \in 0 .. hist_max /\ hist_cur \in -1 .. hist_max
ConsoleInv == LineOK /\ HistoryOK /\ ShowsTheLine

(* The larger of two numbers.                                              *)
LEMMA MaxOfTwo ==
  ASSUME NEW x \in Int, NEW y \in Int
  PROVE  Max({x, y}) = IF x >= y THEN x ELSE y
<1>1. PICK m \in {x, y} : m = (IF x >= y THEN x ELSE y) /\ m \in Int /\ \A z \in {x, y} : m >= z
  OBVIOUS
<1>2. \A n \in {x, y} : (\A z \in {x, y} : n >= z) => n = m
  BY <1>1
<1>3. QED
  BY <1>1, <1>2 DEF Max

(* What putnstr does to a row.                                             *)
LEMMA Paints ==
  ASSUME NEW row \in Seq(Glyph), NEW p \in 0 .. Len(row), NEW q \in Seq(Glyph)
  PROVE  /\ putnstr(Screen(row, p), q) = Screen(Painted(row, p, q), p + Len(q))
         /\ Painted(row, p, q) \in Seq(Glyph)
         /\ Len(Painted(row, p, q)) = IF p + Len(q) >= Len(row) THEN p + Len(q) ELSE Len(row)
         /\ \A i \in 1 .. Len(Painted(row, p, q)) :
              Painted(row, p, q)[i] = IF i \in p + 1 .. p + Len(q) THEN q[i - p] ELSE row[i]
<1>1. Screen(row, p).text = row /\ Screen(row, p).col = p
  BY DEF Screen
<1>2. PICK m \in Nat, e \in Nat, n \in Nat :
        e = p + Len(q) /\ n = Len(row) /\ m = (IF e >= n THEN e ELSE n)
  <2>1. p + Len(q) \in Nat /\ Len(row) \in Nat
    OBVIOUS
  <2>2. QED
    BY <2>1
<1>3. Max({e, n}) = m
  BY <1>2, MaxOfTwo
<1>4. Painted(row, p, q) = [i \in 1 .. m |-> IF i \in p + 1 .. e THEN q[i - p] ELSE row[i]]
  BY <1>2, Zenon DEF Painted
<1>5. putnstr(Screen(row, p), q) = Screen(Painted(row, p, q), e)
  BY <1>1, <1>2, <1>3, <1>4 DEF putnstr
<1>6. ASSUME NEW i \in 1 .. m
      PROVE  (IF i \in p + 1 .. e THEN q[i - p] ELSE row[i]) \in Glyph
  <2>1. CASE i \in p + 1 .. e
    <3>1. i - p \in 1 .. Len(q)
      BY <1>2, <2>1
    <3>2. QED
      BY <2>1, <3>1
  <2>2. CASE i \notin p + 1 .. e
    <3>1. i \in 1 .. Len(row)
      BY <1>2, <2>2
    <3>2. QED
      BY <2>2, <3>1
  <2>3. QED
    BY <2>1, <2>2
<1>7. Painted(row, p, q) \in Seq(Glyph) /\ Len(Painted(row, p, q)) = m
  BY <1>4, <1>6
<1>8. \A i \in 1 .. m : Painted(row, p, q)[i] = IF i \in p + 1 .. e THEN q[i - p] ELSE row[i]
  BY <1>4
<1>9. QED
  BY <1>2, <1>5, <1>7, <1>8

(* A row that looks like a line shows it.                                  *)
LEMMA Trimmed ==
  ASSUME NEW row \in Seq(Glyph), NEW c, NEW str \in Seq(Chars), LooksLike(row, str), Shows(Screen(row, c))
  PROVE  text' = str /\ col' = c
<1>1. Screen(row, c).text = row /\ Screen(row, c).col = c
  BY DEF Screen
<1>2. PICK n \in Nat, m \in Nat : n = Len(str) /\ m = Len(row) /\ n <= m
  BY DEF LooksLike
<1>3. PICK last : last = {i \in DOMAIN row : row[i] # "blank"}
  OBVIOUS
<1>4. last = 1 .. n
  <2>1. DOMAIN row = 1 .. m
    BY <1>2
  <2>2. \A i \in 1 .. n : str[i] \in Chars
    BY <1>2
  <2>3. \A i \in 1 .. n : row[i] # "blank"
    BY SMTT(20), <1>2, <2>2, ConsoleAssumption DEF LooksLike
  <2>4. \A i \in n + 1 .. m : row[i] = "blank"
    BY <1>2 DEF LooksLike
  <2>5. QED
    BY <1>2, <1>3, <2>1, <2>3, <2>4
<1>5. (IF last = {} THEN 0 ELSE Max(last)) = n
  <2>1. CASE n = 0
    BY <1>4, <2>1
  <2>2. CASE n # 0
    <3>1. n \in 1 .. n /\ \A i \in 1 .. n : n >= i
      BY <2>2
    <3>2. \A k \in 1 .. n : (\A i \in 1 .. n : k >= i) => k = n
      BY <3>1
    <3>3. Max(1 .. n) = n
      BY <3>1, <3>2 DEF Max
    <3>4. QED
      BY <1>4, <3>1, <3>3
  <2>3. QED
    BY <2>1, <2>2
<1>6. text' = SubSeq(row, 1, n) /\ col' = c
  BY <1>1, <1>3, <1>5 DEF Shows
<1>7. SubSeq(row, 1, n) = str
  <2>1. PICK u \in Seq(Glyph) : u = SubSeq(row, 1, n) /\ Len(u) = n /\ \A i \in 1 .. n : u[i] = row[i]
    <3>1. SubSeq(row, 1, n) \in Seq(Glyph) /\ Len(SubSeq(row, 1, n)) = n
      BY <1>2
    <3>2. \A i \in 1 .. n : SubSeq(row, 1, n)[i] = row[i]
      BY <1>2
    <3>3. QED
      BY <3>1, <3>2
  <2>2. PICK v \in Seq(Glyph) : v = str /\ Len(v) = n
    BY <1>2 DEF Glyph
  <2>3. \A i \in 1 .. n : u[i] = v[i]
    BY <1>2, <2>1, <2>2 DEF LooksLike
  <2>4. u = v
    BY <2>1, <2>2, <2>3, SeqEqual
  <2>5. QED
    BY <2>1, <2>2, <2>4
<1>8. QED
  BY <1>6, <1>7

(* An echo and the way back: what is shown then, and where.                *)
LEMMA Repaint ==
  ASSUME NEW row \in Seq(Glyph), NEW p \in 0 .. Len(row), NEW q \in Seq(Glyph), NEW n \in Int,
         NEW str \in Seq(Chars), LooksLike(Painted(row, p, q), str),
         Shows(Backspace(putnstr(Screen(row, p), q), n))
  PROVE  text' = str /\ col' = p + Len(q) - n
<1>1. PICK paint \in Seq(Glyph) : paint = Painted(row, p, q)
  BY Paints
<1>2. putnstr(Screen(row, p), q) = Screen(paint, p + Len(q))
  BY <1>1, Paints
<1>3. Backspace(Screen(paint, p + Len(q)), n) = Screen(paint, p + Len(q) - n)
  BY DEF Backspace, Screen
<1>4. QED
  BY <1>1, <1>2, <1>3, Trimmed

(* Nothing is to be padded as long as the cursor is on the line.           *)
LEMMA NowShown ==
  ASSUME LineOK, ShowsTheLine
  PROVE  Now = Screen(buf, num) /\ buf \in Seq(Glyph) /\ eol_num = Len(buf) /\ Len(buf) \in Nat
<1>1. text = buf /\ col = num /\ buf \in Seq(Chars) /\ num \in 0 .. Len(buf)
  BY DEF LineOK, ShowsTheLine
<1>2. buf \in Seq(Glyph)
  BY <1>1 DEF Glyph
<1>3. Blanks(0) = << >>
  BY DEF Blanks
<1>4. (IF col > Len(text) THEN col - Len(text) ELSE 0) = 0
  BY <1>1
<1>5. buf \o << >> = buf
  BY <1>1
<1>6. Now = Screen(buf, num)
  BY <1>1, <1>3, <1>4, <1>5 DEF Now
<1>7. QED
  BY <1>1, <1>2, <1>6 DEF eol_num

LEMMA BackspaceMoves ==
  ASSUME NEW row, NEW c, NEW n
  PROVE  Backspace(Screen(row, c), n) = Screen(row, c - n)
BY DEF Backspace, Screen

(* A line looks like itself.                                               *)
LEMMA LooksSame ==
  ASSUME NEW str \in Seq(Chars)
  PROVE  LooksLike(str, str)
BY DEF LooksLike

(* Blanks as a sequence.                                                   *)
LEMMA BlankCells ==
  ASSUME NEW n \in Nat
  PROVE  Blanks(n) \in Seq(Glyph) /\ Len(Blanks(n)) = n /\ \A i \in 1 .. n : Blanks(n)[i] = "blank"
BY DEF Blanks, Glyph

(* Removing the character after the first k moves the others one back.     *)
LEMMA Removed ==
  ASSUME NEW s \in Seq(Chars), NEW k \in 0 .. Len(s) - 1
  PROVE  /\ RemoveAt(s, k + 1) \in Seq(Chars) /\ Len(RemoveAt(s, k + 1)) = Len(s) - 1
         /\ \A i \in 1 .. Len(s) - 1 : RemoveAt(s, k + 1)[i] = IF i <= k THEN s[i] ELSE s[i + 1]
<1>1. PICK m \in Nat, n \in Nat : m = k + 1 /\ n = Len(s) /\ k < n /\ k \in Nat
  OBVIOUS
<1>2. PICK u \in Seq(Chars) : u = SubSeq(s, 1, m - 1) /\ Len(u) = k /\ \A i \in 1 .. k : u[i] = s[i]
  <2>1. SubSeq(s, 1, k) \in Seq(Chars) /\ Len(SubSeq(s, 1, k)) = k
    BY <1>1
  <2>2. \A i \in 1 .. k : SubSeq(s, 1, k)[i] = s[i]
    BY <1>1
  <2>3. m - 1 = k
    BY <1>1
  <2>4. QED
    BY <2>1, <2>2, <2>3
<1>3. PICK v \in Seq(Chars) : /\ v = SubSeq(s, m + 1, Len(s)) /\ Len(v) = n - k - 1
                              /\ \A i \in 1 .. n - k - 1 : v[i] = s[i + k + 1]
  <2>1. SubSeq(s, m + 1, n) \in Seq(Chars) /\ Len(SubSeq(s, m + 1, n)) = n - k - 1
    BY <1>1
  <2>2. ASSUME NEW i \in 1 .. n - k - 1 PROVE SubSeq(s, m + 1, n)[i] = s[i + k + 1]
    <3>1. SubSeq(s, m + 1, n)[i] = s[m + 1 + i - 1]
      BY <1>1
    <3>2. m + 1 + i - 1 = i + k + 1
      BY <1>1
    <3>3. QED
      BY <3>1, <3>2
  <2>3. QED
    BY <1>1, <2>1, <2>2
<1>4. PICK w \in Seq(Chars) : /\ w = u \o v /\ Len(w) = n - 1
                              /\ \A i \in 1 .. n - 1 : w[i] = IF i <= k THEN u[i] ELSE v[i - k]
  <2>1. u \o v \in Seq(Chars) /\ Len(u \o v) = Len(u) + Len(v)
    BY ConcatProperties
  <2>2. Len(u) + Len(v) = n - 1
    <3>1. Len(u) = k /\ Len(v) = n - k - 1
      BY <1>2, <1>3
    <3>2. k + (n - k - 1) = n - 1
      BY <1>1
    <3>3. QED
      BY <3>1, <3>2
  <2>3. \A i \in 1 .. Len(u) + Len(v) : (u \o v)[i] = IF i <= Len(u) THEN u[i] ELSE v[i - Len(u)]
    BY ConcatProperties
  <2>4. QED
    BY <1>2, <2>1, <2>2, <2>3
<1>5. RemoveAt(s, k + 1) = w
  BY <1>1, <1>2, <1>3, <1>4, Zenon DEF RemoveAt
<1>6. ASSUME NEW i \in 1 .. n - 1 PROVE w[i] = IF i <= k THEN s[i] ELSE s[i + 1]
  <2>1. CASE i <= k
    BY <1>2, <1>4, <2>1
  <2>2. CASE ~ (i <= k)
    <3>1. PICK j \in 1 .. n - k - 1 : j = i - k /\ j + k + 1 = i + 1
      BY <1>1, <2>2
    <3>2. QED
      BY <1>3, <1>4, <2>2, <3>1
  <2>3. QED
    BY <2>1, <2>2
<1>7. QED
  BY <1>1, <1>4, <1>5, <1>6

(* To delete, the rest of the line is painted one further left, and one    *)
(* blank behind it.                                                        *)
LEMMA DeletePaints ==
  ASSUME LineOK, NEW k \in 0 .. Len(buf) - 1
  PROVE  /\ Sub(k + 1, Len(buf)) \o Blanks(1) \in Seq(Glyph)
         /\ Len(Sub(k + 1, Len(buf)) \o Blanks(1)) = Len(buf) - k
         /\ LooksLike(Painted(buf, k, Sub(k + 1, Len(buf)) \o Blanks(1)), RemoveAt(buf, k + 1))
         /\ RemoveAt(buf, k + 1) \in Seq(Chars) /\ Len(RemoveAt(buf, k + 1)) = Len(buf) - 1
<1>1. buf \in Seq(Chars) /\ buf \in Seq(Glyph)
  BY DEF LineOK, Glyph
<1>2. PICK n \in Nat : n = Len(buf) /\ k < n /\ k \in Nat
  BY <1>1
<1>3. PICK v \in Seq(Glyph) : /\ v = Sub(k + 1, Len(buf)) /\ Len(v) = n - k - 1
                              /\ \A i \in 1 .. n - k - 1 : v[i] = buf[i + k + 1]
  <2>1. PICK m \in Nat : m = k + 1 + 1 /\ m = k + 2
    OBVIOUS
  <2>2. SubSeq(buf, m, n) \in Seq(Glyph) /\ Len(SubSeq(buf, m, n)) = n - k - 1
    BY <1>1, <1>2, <2>1
  <2>3. ASSUME NEW i \in 1 .. n - k - 1 PROVE SubSeq(buf, m, n)[i] = buf[i + k + 1]
    <3>1. SubSeq(buf, m, n)[i] = buf[m + i - 1]
      BY <1>1, <1>2, <2>1
    <3>2. m + i - 1 = i + k + 1
      BY <2>1
    <3>3. QED
      BY <3>1, <3>2
  <2>4. Sub(k + 1, Len(buf)) = SubSeq(buf, m, n)
    BY <1>2, <2>1, Zenon DEF Sub
  <2>5. QED
    BY <2>2, <2>3, <2>4, Zenon
<1>4. PICK b \in Seq(Glyph) : b = Blanks(1) /\ Len(b) = 1 /\ b[1] = "blank"
  <2>1. PICK m \in Nat : m = 1
    OBVIOUS
  <2>2. Blanks(m) \in Seq(Glyph) /\ Len(Blanks(m)) = m /\ Blanks(m)[1] = "blank"
    <3>1. 1 \in 1 .. m
      BY <2>1
    <3>2. QED
      BY <3>1, BlankCells
  <2>3. QED
    BY <2>1, <2>2
<1>5. PICK w \in Seq(Glyph) : /\ w = v \o b /\ Len(w) = n - k
                              /\ \A i \in 1 .. n - k - 1 : w[i] = buf[i + k + 1]
                              /\ w[n - k] = "blank"
  <2>1. v \o b \in Seq(Glyph) /\ Len(v \o b) = Len(v) + Len(b)
    BY ConcatProperties
  <2>2. Len(v) + Len(b) = n - k
    <3>1. Len(v) = n - k - 1 /\ Len(b) = 1
      BY <1>3, <1>4
    <3>2. (n - k - 1) + 1 = n - k
      BY <1>2
    <3>3. QED
      BY <3>1, <3>2
  <2>3. \A i \in 1 .. Len(v) + Len(b) : (v \o b)[i] = IF i <= Len(v) THEN v[i] ELSE b[i - Len(v)]
    BY ConcatProperties
  <2>4. \A i \in 1 .. n - k - 1 : (v \o b)[i] = buf[i + k + 1]
    BY <1>2, <1>3, <2>2, <2>3
  <2>5. (v \o b)[n - k] = "blank"
    <3>1. PICK j \in 1 .. n - k : j = n - k /\ ~ (j <= Len(v)) /\ j - Len(v) = 1
      <4>1. Len(v) = n - k - 1
        BY <1>3
      <4>2. n - k \in 1 .. n - k /\ ~ (n - k <= n - k - 1) /\ n - k - (n - k - 1) = 1
        BY <1>2
      <4>3. QED
        BY <4>1, <4>2
    <3>2. QED
      BY <1>4, <2>2, <2>3, <3>1
  <2>6. QED
    BY <2>1, <2>2, <2>4, <2>5
<1>6. PICK r \in Seq(Chars) : /\ r = RemoveAt(buf, k + 1) /\ Len(r) = n - 1
                              /\ \A i \in 1 .. n - 1 : r[i] = IF i <= k THEN buf[i] ELSE buf[i + 1]
  BY <1>1, <1>2, Removed
<1>7. PICK row \in Seq(Glyph) : /\ row = Painted(buf, k, w) /\ Len(row) = n
                                /\ \A i \in 1 .. n : row[i] = IF i \in k + 1 .. n THEN w[i - k] ELSE buf[i]
  <2>1. k + Len(w) = n /\ k \in 0 .. Len(buf)
    BY <1>2, <1>5
  <2>2. QED
    BY <1>1, <1>2, <2>1, Paints
<1>8. LooksLike(row, r)
  <2>1. ASSUME NEW i \in 1 .. n PROVE row[i] = IF i <= n - 1 THEN r[i] ELSE "blank"
    <3>1. CASE i <= k
      BY <1>2, <1>6, <1>7, <3>1
    <3>2. CASE i \in k + 1 .. n - 1
      <4>1. PICK j \in 1 .. n - k - 1 : j = i - k /\ j + k + 1 = i + 1
        BY <1>2, <3>2
      <4>2. i \in k + 1 .. n /\ i \in 1 .. n - 1 /\ ~ (i <= k)
        BY <1>2, <3>2
      <4>3. row[i] = w[j]
        BY <1>7, <4>1, <4>2
      <4>4. r[i] = buf[i + 1]
        BY <1>6, <4>2
      <4>5. w[j] = buf[i + 1]
        BY <1>5, <4>1
      <4>6. QED
        BY <4>2, <4>3, <4>4, <4>5
    <3>3. CASE i = n
      <4>1. i \in k + 1 .. n /\ ~ (i <= n - 1)
        BY <1>2, <3>3
      <4>2. row[i] = w[n - k]
        BY <1>7, <3>3, <4>1
      <4>3. QED
        BY <1>5, <4>1, <4>2
    <3>4. QED
      BY <1>2, <3>1, <3>2, <3>3
  <2>2. QED
    BY <1>6, <1>7, <2>1 DEF LooksLike
<1>9. QED
  BY <1>2, <1>3, <1>4, <1>5, <1>6, <1>7, <1>8

(* To erase from a place on, as many blanks are painted.                   *)
LEMMA ErasePaints ==
  ASSUME LineOK, NEW k \in 0 .. Len(buf)
  PROVE  /\ Blanks(Len(buf) - k) \in Seq(Glyph) /\ Len(Blanks(Len(buf) - k)) = Len(buf) - k
         /\ LooksLike(Painted(buf, k, Blanks(Len(buf) - k)), SubSeq(buf, 1, k))
         /\ SubSeq(buf, 1, k) \in Seq(Chars) /\ Len(SubSeq(buf, 1, k)) = k
<1>1. buf \in Seq(Chars) /\ buf \in Seq(Glyph)
  BY DEF LineOK, Glyph
<1>2. PICK n \in Nat : n = Len(buf) /\ k <= n /\ k \in Nat
  BY <1>1
<1>3. PICK w \in Seq(Glyph) : w = Blanks(Len(buf) - k) /\ Len(w) = n - k /\ \A i \in 1 .. n - k : w[i] = "blank"
  <2>1. n - k \in Nat
    BY <1>2
  <2>2. QED
    BY <1>2, <2>1, BlankCells
<1>4. PICK r \in Seq(Chars) : r = SubSeq(buf, 1, k) /\ Len(r) = k /\ \A i \in 1 .. k : r[i] = buf[i]
  <2>1. SubSeq(buf, 1, k) \in Seq(Chars) /\ Len(SubSeq(buf, 1, k)) = k
    BY <1>1, <1>2
  <2>2. \A i \in 1 .. k : SubSeq(buf, 1, k)[i] = buf[i]
    BY <1>1, <1>2
  <2>3. QED
    BY <2>1, <2>2
<1>5. PICK row \in Seq(Glyph) : /\ row = Painted(buf, k, w) /\ Len(row) = n
                                /\ \A i \in 1 .. n : row[i] = IF i \in k + 1 .. n THEN w[i - k] ELSE buf[i]
  <2>1. k + Len(w) = n /\ k \in 0 .. Len(buf)
    <3>1. Len(w) = n - k
      BY <1>3
    <3>2. k + (n - k) = n
      BY <1>2
    <3>3. QED
      BY <3>1, <3>2
  <2>2. QED
    BY <1>1, <1>2, <2>1, Paints
<1>6. LooksLike(row, r)
  <2>1. ASSUME NEW i \in 1 .. n PROVE row[i] = IF i <= k THEN r[i] ELSE "blank"
    <3>1. CASE i <= k
      BY <1>2, <1>4, <1>5, <3>1
    <3>2. CASE ~ (i <= k)
      <4>1. PICK j \in 1 .. n - k : j = i - k
        BY <1>2, <3>2
      <4>2. row[i] = w[j]
        BY <1>2, <1>5, <3>2, <4>1
      <4>3. QED
        BY <1>3, <3>2, <4>2
    <3>3. QED
      BY <3>1, <3>2
  <2>2. QED
    BY <1>2, <1>4, <1>5, <2>1 DEF LooksLike
<1>7. QED
  BY <1>2, <1>3, <1>4, <1>5, <1>6

(* Moving to the right paints what is there.                               *)
LEMMA MovePaints ==
  ASSUME LineOK, NEW c \in 0 .. Len(buf), num <= c
  PROVE  /\ Sub(num, c) \in Seq(Glyph) /\ Len(Sub(num, c)) = c - num
         /\ LooksLike(Painted(buf, num, Sub(num, c)), buf)
<1>1. buf \in Seq(Chars) /\ buf \in Seq(Glyph) /\ num \in 0 .. Len(buf)
  BY DEF LineOK, Glyph
<1>2. PICK n \in Nat, k \in Nat : n = Len(buf) /\ k = num /\ k <= c /\ c <= n /\ c \in Nat
  BY <1>1
<1>3. PICK w \in Seq(Glyph) : w = Sub(num, c) /\ Len(w) = c - k /\ \A i \in 1 .. c - k : w[i] = buf[i + k]
  <2>1. PICK m \in Nat : m = k + 1
    OBVIOUS
  <2>2. SubSeq(buf, m, c) \in Seq(Glyph) /\ Len(SubSeq(buf, m, c)) = c - k
    BY <1>1, <1>2, <2>1
  <2>3. ASSUME NEW i \in 1 .. c - k PROVE SubSeq(buf, m, c)[i] = buf[i + k]
    <3>1. SubSeq(buf, m, c)[i] = buf[m + i - 1]
      BY <1>1, <1>2, <2>1
    <3>2. m + i - 1 = i + k
      BY <2>1
    <3>3. QED
      BY <3>1, <3>2
  <2>4. Sub(num, c) = SubSeq(buf, m, c)
    BY <1>2, <2>1, Zenon DEF Sub
  <2>5. QED
    BY <2>2, <2>3, <2>4, Zenon
<1>4. PICK row \in Seq(Glyph) : /\ row = Painted(buf, num, w) /\ Len(row) = n
                                /\ \A i \in 1 .. n : row[i] = IF i \in k + 1 .. c THEN w[i - k] ELSE buf[i]
  <2>1. num + Len(w) = c /\ num \in 0 .. Len(buf)
    <3>1. Len(w) = c - k
      BY <1>3
    <3>2. k + (c - k) = c
      BY <1>2
    <3>3. QED
      BY <1>1, <1>2, <3>1, <3>2
  <2>2. (IF c >= n THEN c ELSE n) = n
    BY <1>2
  <2>3. Painted(buf, num, w) \in Seq(Glyph) /\ Len(Painted(buf, num, w)) = n
    BY <1>1, <1>2, <2>1, <2>2, Paints
  <2>4. \A i \in 1 .. n : Painted(buf, num, w)[i] = IF i \in k + 1 .. c THEN w[i - k] ELSE buf[i]
    BY <1>1, <1>2, <2>1, <2>3, Paints
  <2>5. QED
    BY <2>3, <2>4, Zenon
<1>5. LooksLike(row, buf)
  <2>1. ASSUME NEW i \in 1 .. n PROVE row[i] = buf[i]
    <3>1. CASE i \in k + 1 .. c
      <4>1. PICK j \in 1 .. c - k : j = i - k /\ j + k = i
        BY <1>2, <3>1
      <4>2. QED
        BY <1>3, <1>4, <3>1, <4>1
    <3>2. CASE i \notin k + 1 .. c
      BY <1>4, <3>2
    <3>3. QED
      BY <3>1, <3>2
  <2>2. QED
    BY <1>2, <1>4, <2>1 DEF LooksLike
<1>6. QED
  BY <1>2, <1>3, <1>4, <1>5

(* On an empty row a line is painted as it is, and over blanks.            *)
LEMMA FreshPaints ==
  ASSUME NEW str \in Seq(Chars), NEW row \in Seq(Glyph), \A i \in 1 .. Len(row) : row[i] = "blank"
  PROVE  str \in Seq(Glyph) /\ LooksLike(Painted(row, 0, str), str)
<1>1. str \in Seq(Glyph)
  BY DEF Glyph
<1>2. PICK n \in Nat, m \in Nat : n = Len(str) /\ m = Len(row)
  OBVIOUS
<1>3. PICK paint \in Seq(Glyph) : /\ paint = Painted(row, 0, str) /\ Len(paint) = (IF n >= m THEN n ELSE m)
                                  /\ \A i \in 1 .. Len(paint) : paint[i] = IF i \in 1 .. n THEN str[i] ELSE row[i]
  <2>1. PICK p \in 0 .. Len(row) : p = 0 /\ p + n = n /\ p + 1 = 1 /\ \A i \in Int : i - p = i
    BY <1>2
  <2>2. Painted(row, p, str) \in Seq(Glyph) /\ Len(Painted(row, p, str)) = (IF n >= m THEN n ELSE m)
    BY <1>1, <1>2, <2>1, Paints
  <2>3. ASSUME NEW i \in 1 .. Len(Painted(row, p, str))
        PROVE  Painted(row, p, str)[i] = IF i \in 1 .. n THEN str[i] ELSE row[i]
    <3>1. Painted(row, p, str)[i] = IF i \in p + 1 .. p + n THEN str[i - p] ELSE row[i]
      BY <1>1, <1>2, Paints
    <3>2. i - p = i
      BY <2>1
    <3>3. QED
      BY <2>1, <3>1, <3>2
  <2>4. QED
    BY <2>1, <2>2, <2>3
<1>4. ASSUME NEW i \in 1 .. Len(paint) PROVE paint[i] = IF i <= n THEN str[i] ELSE "blank"
  <2>1. CASE i <= n
    BY <1>3, <2>1
  <2>2. CASE ~ (i <= n)
    <3>1. i \in 1 .. m /\ i \notin 1 .. n
      BY <1>2, <1>3, <2>2
    <3>2. QED
      BY <1>2, <1>3, <2>2, <3>1
  <2>3. QED
    BY <2>1, <2>2
<1>5. QED
  BY <1>1, <1>2, <1>3, <1>4 DEF LooksLike

(* Deleting, erasing and moving show the line that results.                *)
LEMMA EditedShows ==
  ASSUME LineOK, ShowsTheLine, Edited
  PROVE  LineOK' /\ ShowsTheLine'
<1>1. /\ Now = Screen(buf, num) /\ buf \in Seq(Glyph) /\ eol_num = Len(buf) /\ buf \in Seq(Chars)
      /\ num \in 0 .. Len(buf) /\ insert \in BOOLEAN /\ insert' = insert
  BY NowShown DEF LineOK, Edited
<1>2. PICK n \in Nat : n = Len(buf) /\ num \in 0 .. n
  BY <1>1
<1>3. CASE DeleteUnder
  <2>1. /\ num < n /\ buf' = RemoveAt(buf, num + 1) /\ num' = num
        /\ Shows(Backspace(putnstr(Screen(buf, num), Sub(num + 1, Len(buf)) \o Blanks(1)), n - num))
    BY <1>1, <1>2, <1>3 DEF DeleteUnder
  <2>2. num \in 0 .. Len(buf) - 1 /\ n - num \in Int
    BY <1>2, <2>1
  <2>3. PICK q \in Seq(Glyph) : /\ q = Sub(num + 1, Len(buf)) \o Blanks(1) /\ Len(q) = n - num
                                /\ LooksLike(Painted(buf, num, q), RemoveAt(buf, num + 1))
                                /\ RemoveAt(buf, num + 1) \in Seq(Chars) /\ Len(RemoveAt(buf, num + 1)) = n - 1
    BY <1>2, <2>2, DeletePaints
  <2>4. text' = RemoveAt(buf, num + 1) /\ col' = num + Len(q) - (n - num)
    BY <1>1, <2>1, <2>2, <2>3, Repaint
  <2>5. num + Len(q) - (n - num) = num
    <3>1. num + (n - num) - (n - num) = num
      BY <1>2
    <3>2. QED
      BY <2>3, <3>1
  <2>6. num \in 0 .. n - 1
    BY <1>2, <2>1
  <2>7. QED
    BY <1>1, <2>1, <2>3, <2>4, <2>5, <2>6 DEF LineOK, ShowsTheLine
<1>4. CASE DeleteBefore
  <2>1. /\ num > 0 /\ buf' = RemoveAt(buf, num) /\ num' = num - 1
        /\ Shows(Backspace(putnstr(Backspace(Screen(buf, num), 1), Sub(num, Len(buf)) \o Blanks(1)), n - num + 1))
    BY <1>1, <1>2, <1>4 DEF DeleteBefore
  <2>2. PICK k \in 0 .. Len(buf) - 1 : k = num - 1 /\ k + 1 = num
    BY <1>2, <2>1
  <2>3. PICK q \in Seq(Glyph) : /\ q = Sub(num, Len(buf)) \o Blanks(1) /\ Len(q) = n - k
                                /\ LooksLike(Painted(buf, k, q), RemoveAt(buf, num))
                                /\ RemoveAt(buf, num) \in Seq(Chars) /\ Len(RemoveAt(buf, num)) = n - 1
    BY <1>2, <2>2, DeletePaints
  <2>4. Backspace(Screen(buf, num), 1) = Screen(buf, k)
    BY <2>2, BackspaceMoves
  <2>5. k \in 0 .. Len(buf) /\ n - num + 1 \in Int /\ n - num + 1 = n - k
    BY <1>2, <2>2
  <2>6. text' = RemoveAt(buf, num) /\ col' = k + Len(q) - (n - num + 1)
    BY <1>1, <2>1, <2>3, <2>4, <2>5, Repaint
  <2>7. k + Len(q) - (n - num + 1) = k
    <3>1. k + (n - k) - (n - k) = k
      BY <1>2, <2>2
    <3>2. QED
      BY <2>3, <2>5, <3>1
  <2>8. k \in 0 .. n - 1
    BY <1>2, <2>2
  <2>9. QED
    BY <1>1, <2>1, <2>2, <2>3, <2>6, <2>7, <2>8 DEF LineOK, ShowsTheLine
<1>5. ASSUME NEW k \in 0 .. Len(buf), Shows(Erased(Screen(buf, k), k)), buf' = Sub(0, k), num' = k
      PROVE  LineOK' /\ ShowsTheLine'
  <2>1. PICK q \in Seq(Glyph) : /\ q = Blanks(Len(buf) - k) /\ Len(q) = Len(buf) - k
                                /\ LooksLike(Painted(buf, k, q), SubSeq(buf, 1, k))
                                /\ SubSeq(buf, 1, k) \in Seq(Chars) /\ Len(SubSeq(buf, 1, k)) = k
    BY ErasePaints
  <2>2. Shows(Backspace(putnstr(Screen(buf, k), q), n - k)) /\ n - k \in Int
    BY <1>1, <1>2, <1>5, <2>1 DEF Erased
  <2>3. text' = SubSeq(buf, 1, k) /\ col' = k + Len(q) - (n - k)
    BY <1>1, <2>1, <2>2, Repaint
  <2>4. k + Len(q) - (n - k) = k /\ k \in 0 .. k
    <3>1. k + (n - k) - (n - k) = k /\ k \in Nat
      BY <1>2
    <3>2. QED
      BY <1>2, <2>1, <3>1
  <2>5. buf' = SubSeq(buf, 1, k)
    <3>1. Sub(0, k) = SubSeq(buf, 0 + 1, k) /\ 0 + 1 = 1
      BY DEF Sub
    <3>2. QED
      BY <1>5, <3>1
  <2>6. QED
    BY <1>1, <1>5, <2>1, <2>3, <2>4, <2>5 DEF LineOK, ShowsTheLine
<1>6. CASE ERASE_TO_EOL
  BY <1>1, <1>5, <1>6 DEF ERASE_TO_EOL
<1>7. CASE ERASE_LINE
  <2>1. Backspace(Screen(buf, num), num) = Screen(buf, 0)
    <3>1. num - num = 0
      BY <1>2
    <3>2. QED
      BY <3>1, BackspaceMoves
  <2>2. Sub(0, 0) = << >>
    BY <1>1 DEF Sub
  <2>3. QED
    BY <1>1, <1>2, <1>5, <1>7, <2>1, <2>2 DEF ERASE_LINE
<1>8. CASE Move
  <2>1. buf' = buf
    BY <1>8 DEF Move
  <2>2. CASE num' \in {0, num - 1} /\ num > 0 /\ Shows(Backspace(Now, num - num'))
    <3>1. num' \in 0 .. n /\ num - (num - num') = num'
      <4>1. PICK k \in Int, m \in Nat : k = num' /\ m = num /\ k \in {0, m - 1} /\ m > 0 /\ m <= n
        BY <1>2, <2>2
      <4>2. k \in 0 .. n
        BY <4>1
      <4>3. m - (m - k) = k
        OBVIOUS
      <4>4. QED
        BY <4>1, <4>2, <4>3
    <3>2. Shows(Screen(buf, num'))
      BY <1>1, <2>2, <3>1, BackspaceMoves
    <3>3. PICK c : c = num'
      OBVIOUS
    <3>4. text' = buf /\ col' = c
      BY <1>1, <3>2, <3>3, LooksSame, Trimmed
    <3>5. QED
      BY <1>1, <1>2, <2>1, <3>1, <3>3, <3>4 DEF LineOK, ShowsTheLine
  <2>3. CASE num' \in {num + 1, eol_num} /\ num < eol_num /\ Shows(putnstr(Now, Sub(num, num')))
    <3>1. PICK c \in 0 .. Len(buf) : c = num' /\ num <= c
      BY <1>1, <1>2, <2>3
    <3>2. PICK q \in Seq(Glyph) : q = Sub(num, c) /\ Len(q) = c - num /\ LooksLike(Painted(buf, num, q), buf)
      BY <3>1, MovePaints
    <3>3. PICK row \in Seq(Glyph) : row = Painted(buf, num, q)
      BY <1>1, Paints
    <3>4. putnstr(Screen(buf, num), q) = Screen(row, num + Len(q))
      BY <1>1, <3>3, Paints
    <3>5. num + Len(q) = c
      <4>1. PICK k \in Int, m \in Int : k = c /\ m = num
        BY <1>2, <3>1
      <4>2. m + (k - m) = k
        OBVIOUS
      <4>3. QED
        BY <3>2, <4>1, <4>2
    <3>6. Shows(Screen(row, c))
      BY <1>1, <2>3, <3>1, <3>2, <3>4, <3>5
    <3>7. text' = buf /\ col' = c
      BY <1>1, <3>2, <3>3, <3>6, Trimmed
    <3>8. QED
      BY <1>1, <2>1, <3>1, <3>7 DEF LineOK, ShowsTheLine
  <2>4. QED
    BY <1>8, <2>2, <2>3 DEF Move
<1>9. QED
  BY <1>3, <1>4, <1>6, <1>7, <1>8 DEF Edited

(* The line after n characters of a string have gone to the cursor.        *)
LineAfter(b, k, string, n) ==
  [i \in 1 .. (IF insert THEN Len(b) + n ELSE IF k + n >= Len(b) THEN k + n ELSE Len(b)) |->
     IF i <= k THEN b[i]
     ELSE IF i <= k + n THEN string[i - k]
     ELSE IF insert THEN b[i - n] ELSE b[i]]

StateAfter(b, k, string, n) ==
  [buf |-> LineAfter(b, k, string, n), num |-> k + n,
   screen |-> Screen(LineAfter(b, k, string, n), k + n)]

LEMMA LineAfterType ==
  ASSUME insert \in BOOLEAN, NEW b \in Seq(Chars), NEW k \in 0 .. Len(b), NEW string \in Seq(Chars),
         NEW n \in 0 .. Len(string)
  PROVE  /\ LineAfter(b, k, string, n) \in Seq(Chars)
         /\ Len(LineAfter(b, k, string, n)) =
              (IF insert THEN Len(b) + n ELSE IF k + n >= Len(b) THEN k + n ELSE Len(b))
         /\ k + n \in 0 .. Len(LineAfter(b, k, string, n))
         /\ \A i \in 1 .. Len(LineAfter(b, k, string, n)) :
              LineAfter(b, k, string, n)[i] =
                IF i <= k THEN b[i]
                ELSE IF i <= k + n THEN string[i - k]
                ELSE IF insert THEN b[i - n] ELSE b[i]
<1>1. PICK l \in Nat, x \in Nat, m \in Nat, a \in Nat :
        /\ l = Len(b) /\ x = k /\ m = n /\ x <= l /\ m <= Len(string)
        /\ a = (IF insert THEN l + m ELSE IF x + m >= l THEN x + m ELSE l)
  OBVIOUS
<1>2. LineAfter(b, k, string, n) =
        [i \in 1 .. a |-> IF i <= x THEN b[i]
                          ELSE IF i <= x + m THEN string[i - x]
                          ELSE IF insert THEN b[i - m] ELSE b[i]]
  BY <1>1, Zenon DEF LineAfter
<1>3. ASSUME NEW i \in 1 .. a
      PROVE  (IF i <= x THEN b[i]
              ELSE IF i <= x + m THEN string[i - x]
              ELSE IF insert THEN b[i - m] ELSE b[i]) \in Chars
  <2>1. CASE i <= x
    <3>1. i \in 1 .. l
      BY <1>1, <2>1
    <3>2. QED
      BY <1>1, <2>1, <3>1
  <2>2. CASE ~ (i <= x) /\ i <= x + m
    <3>1. i - x \in 1 .. Len(string)
      BY <1>1, <2>2
    <3>2. QED
      BY <2>2, <3>1
  <2>3. CASE ~ (i <= x) /\ ~ (i <= x + m)
    <3>1. insert => i - m \in 1 .. l
      BY <1>1, <2>3
    <3>2. ~ insert => i \in 1 .. l
      BY <1>1, <2>3
    <3>3. QED
      BY <1>1, <2>3, <3>1, <3>2
  <2>4. QED
    BY <2>1, <2>2, <2>3
<1>4. LineAfter(b, k, string, n) \in Seq(Chars) /\ Len(LineAfter(b, k, string, n)) = a
  BY <1>2, <1>3
<1>5. x + m \in 0 .. a
  BY <1>1
<1>6. \A i \in 1 .. a :
        LineAfter(b, k, string, n)[i] = IF i <= x THEN b[i]
                                        ELSE IF i <= x + m THEN string[i - x]
                                        ELSE IF insert THEN b[i - m] ELSE b[i]
  BY <1>2
<1>7. QED
  BY <1>1, <1>4, <1>5, <1>6

(* Inserting at a place moves the rest on.                                 *)
LEMMA Inserted ==
  ASSUME NEW s \in Seq(Chars), NEW k \in 0 .. Len(s), NEW c \in Chars
  PROVE  /\ InsertAt(s, k + 1, c) \in Seq(Chars) /\ Len(InsertAt(s, k + 1, c)) = Len(s) + 1
         /\ \A i \in 1 .. Len(s) + 1 :
              InsertAt(s, k + 1, c)[i] = IF i <= k THEN s[i] ELSE IF i = k + 1 THEN c ELSE s[i - 1]
<1>1. PICK m \in Nat, n \in Nat : m = k + 1 /\ n = Len(s) /\ k <= n /\ k \in Nat
  OBVIOUS
<1>2. PICK u \in Seq(Chars) : u = SubSeq(s, 1, m - 1) /\ Len(u) = k /\ \A i \in 1 .. k : u[i] = s[i]
  <2>1. SubSeq(s, 1, k) \in Seq(Chars) /\ Len(SubSeq(s, 1, k)) = k
    BY <1>1
  <2>2. \A i \in 1 .. k : SubSeq(s, 1, k)[i] = s[i]
    BY <1>1
  <2>3. m - 1 = k
    BY <1>1
  <2>4. QED
    BY <2>1, <2>2, <2>3
<1>3. PICK v \in Seq(Chars) : /\ v = SubSeq(s, m, Len(s)) /\ Len(v) = n - k
                              /\ \A i \in 1 .. n - k : v[i] = s[i + k]
  <2>1. SubSeq(s, m, n) \in Seq(Chars) /\ Len(SubSeq(s, m, n)) = n - k
    BY <1>1
  <2>2. ASSUME NEW i \in 1 .. n - k PROVE SubSeq(s, m, n)[i] = s[i + k]
    <3>1. SubSeq(s, m, n)[i] = s[m + i - 1]
      BY <1>1
    <3>2. m + i - 1 = i + k
      BY <1>1
    <3>3. QED
      BY <3>1, <3>2
  <2>3. QED
    BY <1>1, <2>1, <2>2
<1>4. PICK h \in Seq(Chars) : h = <<c>> /\ Len(h) = 1 /\ h[1] = c
  <2>1. <<c>> \in Seq(Chars) /\ Len(<<c>>) = 1 /\ <<c>>[1] = c
    OBVIOUS
  <2>2. QED
    BY <2>1
<1>5. PICK w \in Seq(Chars) : /\ w = u \o h /\ Len(w) = k + 1
                              /\ \A i \in 1 .. k : w[i] = s[i]
                              /\ w[k + 1] = c
  <2>1. u \o h \in Seq(Chars) /\ Len(u \o h) = Len(u) + Len(h)
    BY ConcatProperties
  <2>2. Len(u) + Len(h) = k + 1
    BY <1>2, <1>4
  <2>3. \A i \in 1 .. Len(u) + Len(h) : (u \o h)[i] = IF i <= Len(u) THEN u[i] ELSE h[i - Len(u)]
    BY ConcatProperties
  <2>4. \A i \in 1 .. k : (u \o h)[i] = s[i]
    BY <1>1, <1>2, <2>2, <2>3
  <2>5. (u \o h)[k + 1] = c
    <3>1. k + 1 \in 1 .. k + 1 /\ ~ (k + 1 <= k) /\ k + 1 - k = 1
      BY <1>1
    <3>2. (u \o h)[k + 1] = h[k + 1 - k]
      BY <1>2, <2>2, <2>3, <3>1
    <3>3. QED
      BY <1>4, <3>1, <3>2
  <2>6. QED
    BY <2>1, <2>2, <2>4, <2>5
<1>6. PICK z \in Seq(Chars) : /\ z = w \o v /\ Len(z) = n + 1
                              /\ \A i \in 1 .. n + 1 : z[i] = IF i <= k + 1 THEN w[i] ELSE v[i - (k + 1)]
  <2>1. w \o v \in Seq(Chars) /\ Len(w \o v) = Len(w) + Len(v)
    BY ConcatProperties
  <2>2. Len(w) + Len(v) = n + 1
    <3>1. Len(w) = k + 1 /\ Len(v) = n - k
      BY <1>3, <1>5
    <3>2. (k + 1) + (n - k) = n + 1
      BY <1>1
    <3>3. QED
      BY <3>1, <3>2
  <2>3. \A i \in 1 .. Len(w) + Len(v) : (w \o v)[i] = IF i <= Len(w) THEN w[i] ELSE v[i - Len(w)]
    BY ConcatProperties
  <2>4. \A i \in 1 .. n + 1 : (w \o v)[i] = IF i <= k + 1 THEN w[i] ELSE v[i - (k + 1)]
    BY <1>5, <2>2, <2>3
  <2>5. QED
    BY <2>1, <2>2, <2>4
<1>7. InsertAt(s, k + 1, c) = z
  BY <1>1, <1>2, <1>3, <1>4, <1>5, <1>6, Zenon DEF InsertAt
<1>8. ASSUME NEW i \in 1 .. n + 1
      PROVE  z[i] = IF i <= k THEN s[i] ELSE IF i = k + 1 THEN c ELSE s[i - 1]
  <2>1. CASE i <= k
    <3>1. i <= k + 1 /\ i \in 1 .. k
      BY <1>1, <2>1
    <3>2. QED
      BY <1>5, <1>6, <2>1, <3>1
  <2>2. CASE i = k + 1
    <3>1. i <= k + 1 /\ ~ (i <= k)
      BY <1>1, <2>2
    <3>2. QED
      BY <1>5, <1>6, <2>2, <3>1
  <2>3. CASE ~ (i <= k) /\ i # k + 1
    <3>1. PICK j \in 1 .. n - k : j = i - (k + 1) /\ j + k = i - 1 /\ ~ (i <= k + 1)
      BY <1>1, <2>3
    <3>2. QED
      BY <1>3, <1>6, <2>3, <3>1
  <2>4. QED
    BY <2>1, <2>2, <2>3
<1>9. \A i \in 1 .. Len(s) + 1 : z[i] = IF i <= k THEN s[i] ELSE IF i = k + 1 THEN c ELSE s[i - 1]
  BY <1>1, <1>8
<1>10. z \in Seq(Chars) /\ Len(z) = Len(s) + 1
  BY <1>1, <1>6
<1>11. QED
  BY <1>7, <1>9, <1>10, Zenon

(* A character goes to the cursor, and the screen follows: what comes      *)
(* behind it is painted again, and the cursor goes back over it.           *)
LEMMA AddCharShows ==
  ASSUME insert \in BOOLEAN, NEW b \in Seq(Chars), NEW k \in 0 .. Len(b), NEW c \in Chars
  PROVE  \E new \in Seq(Chars) :
           /\ add_char([buf |-> b, num |-> k, screen |-> Screen(b, k)], c)
                = [buf |-> new, num |-> k + 1, screen |-> Screen(new, k + 1)]
           /\ Len(new) = IF insert \/ k = Len(b) THEN Len(b) + 1 ELSE Len(b)
           /\ \A i \in 1 .. Len(new) :
                new[i] = IF i <= k THEN b[i] ELSE IF i = k + 1 THEN c ELSE IF insert THEN b[i - 1] ELSE b[i]
<1>1. PICK n \in Nat, m \in Nat : n = Len(b) /\ m = k + 1 /\ k <= n /\ k \in Nat
  OBVIOUS
<1>2. PICK l : l = [buf |-> b, num |-> k, screen |-> Screen(b, k)]
  OBVIOUS
<1>3. l.buf = b /\ l.num = k /\ l.screen = Screen(b, k)
  BY <1>2
<1>4. PICK new \in Seq(Chars) :
        /\ new = (IF insert \/ k = Len(b) THEN InsertAt(b, k + 1, c) ELSE [b EXCEPT ![k + 1] = c])
        /\ Len(new) = (IF insert \/ k = Len(b) THEN n + 1 ELSE n)
        /\ \A i \in 1 .. Len(new) :
             new[i] = IF i <= k THEN b[i] ELSE IF i = k + 1 THEN c ELSE IF insert THEN b[i - 1] ELSE b[i]
  <2>1. CASE insert \/ k = Len(b)
    <3>1. PICK new \in Seq(Chars) :
            /\ new = InsertAt(b, k + 1, c) /\ Len(new) = n + 1
            /\ \A i \in 1 .. n + 1 : new[i] = IF i <= k THEN b[i] ELSE IF i = k + 1 THEN c ELSE b[i - 1]
      <4>1. PICK new : new = InsertAt(b, k + 1, c)
        OBVIOUS
      <4>2. new \in Seq(Chars) /\ Len(new) = n + 1
        BY <1>1, <4>1, Inserted
      <4>3. \A i \in 1 .. n + 1 : new[i] = IF i <= k THEN b[i] ELSE IF i = k + 1 THEN c ELSE b[i - 1]
        <5>1. \A i \in 1 .. Len(b) + 1 :
                InsertAt(b, k + 1, c)[i] = IF i <= k THEN b[i] ELSE IF i = k + 1 THEN c ELSE b[i - 1]
          BY Inserted
        <5>2. QED
          BY <1>1, <4>1, <5>1
      <4>4. QED
        BY <4>1, <4>2, <4>3
    <3>2. CASE insert
      BY <3>1, <3>2
    <3>3. CASE k = Len(b)
      <4>1. \A i \in 1 .. n + 1 : i <= k \/ i = k + 1
        BY <1>1, <3>3
      <4>2. \A i \in 1 .. n + 1 :
              new[i] = IF i <= k THEN b[i] ELSE IF i = k + 1 THEN c ELSE IF insert THEN b[i - 1] ELSE b[i]
        BY <3>1, <4>1
      <4>3. QED
        BY <2>1, <3>1, <4>2
    <3>4. QED
      BY <2>1, <3>2, <3>3
  <2>2. CASE ~ (insert \/ k = Len(b))
    <3>1. m \in 1 .. n
      BY <1>1, <2>2
    <3>2. PICK new \in Seq(Chars) : new = [b EXCEPT ![m] = c]
      <4>1. b \in [1 .. n -> Chars]
        BY <1>1
      <4>2. [b EXCEPT ![m] = c] \in [1 .. n -> Chars]
        BY <3>1, <4>1
      <4>3. [b EXCEPT ![m] = c] \in Seq(Chars)
        BY <1>1, <4>2
      <4>4. QED
        BY <4>3
    <3>3. Len(new) = n /\ \A i \in 1 .. n : new[i] = IF i = m THEN c ELSE b[i]
      BY <1>1, <3>1, <3>2
    <3>4. ASSUME NEW i \in 1 .. n
          PROVE  new[i] = IF i <= k THEN b[i] ELSE IF i = k + 1 THEN c ELSE IF insert THEN b[i - 1] ELSE b[i]
      <4>1. i <= k => i # m
        BY <1>1
      <4>2. QED
        BY <1>1, <2>2, <3>3, <4>1
    <3>5. QED
      BY <1>1, <2>2, <3>2, <3>3, <3>4
  <2>3. QED
    BY <2>1, <2>2
<1>5. PICK wlen \in Nat : wlen = (IF insert THEN n - k + 1 ELSE 1) /\ wlen >= 1 /\ k + wlen <= Len(new)
  BY <1>1, <1>4
<1>6. add_char(l, c) =
        [buf |-> new, num |-> k + 1,
         screen |-> Backspace(putnstr(Screen(b, k), SubSeq(new, k + 1, k + wlen)), wlen - 1)]
  BY <1>1, <1>3, <1>4, <1>5, Zenon DEF add_char
<1>7. PICK q \in Seq(Glyph) : q = SubSeq(new, k + 1, k + wlen) /\ Len(q) = wlen /\ \A i \in 1 .. wlen : q[i] = new[i + k]
  <2>1. new \in Seq(Glyph)
    BY DEF Glyph
  <2>2. PICK e \in Nat : e = k + wlen /\ m <= e + 1 /\ e - m + 1 = wlen /\ e <= Len(new)
    BY <1>1, <1>5
  <2>3. SubSeq(new, m, e) \in Seq(Glyph) /\ Len(SubSeq(new, m, e)) = wlen
    BY <1>1, <1>5, <2>1, <2>2
  <2>4. ASSUME NEW i \in 1 .. wlen PROVE SubSeq(new, m, e)[i] = new[i + k]
    <3>1. SubSeq(new, m, e)[i] = new[m + i - 1]
      BY <1>1, <1>5, <2>1, <2>2
    <3>2. m + i - 1 = i + k
      BY <1>1
    <3>3. QED
      BY <3>1, <3>2
  <2>5. QED
    BY <1>1, <2>2, <2>3, <2>4, Zenon
<1>8. b \in Seq(Glyph) /\ new \in Seq(Glyph)
  BY DEF Glyph
<1>9. PICK paint \in Seq(Glyph) :
        /\ paint = Painted(b, k, q) /\ putnstr(Screen(b, k), q) = Screen(paint, k + wlen)
        /\ Len(paint) = (IF k + wlen >= n THEN k + wlen ELSE n)
        /\ \A i \in 1 .. Len(paint) : paint[i] = IF i \in k + 1 .. k + wlen THEN q[i - k] ELSE b[i]
  <2>1. PICK p \in 0 .. Len(b) : p = k
    OBVIOUS
  <2>2. /\ putnstr(Screen(b, p), q) = Screen(Painted(b, p, q), p + Len(q)) /\ Painted(b, p, q) \in Seq(Glyph)
        /\ Len(Painted(b, p, q)) = IF p + Len(q) >= Len(b) THEN p + Len(q) ELSE Len(b)
    BY <1>8, Paints
  <2>3. \A i \in 1 .. Len(Painted(b, p, q)) :
          Painted(b, p, q)[i] = IF i \in p + 1 .. p + Len(q) THEN q[i - p] ELSE b[i]
    BY <1>8, Paints
  <2>4. QED
    BY <1>1, <1>7, <2>1, <2>2, <2>3
<1>10. Len(paint) = Len(new)
  <2>1. CASE insert
    <3>1. wlen = n - k + 1 /\ Len(new) = n + 1 /\ k + (n - k + 1) = n + 1 /\ n + 1 >= n
      BY <1>1, <1>4, <1>5, <2>1
    <3>2. QED
      BY <1>9, <3>1
  <2>2. CASE ~ insert
    BY <1>1, <1>4, <1>5, <1>9, <2>2
  <2>3. QED
    BY <2>1, <2>2
<1>11. ASSUME NEW i \in 1 .. Len(new) PROVE paint[i] = new[i]
  <2>1. CASE i \in k + 1 .. k + wlen
    <3>1. PICK j \in 1 .. wlen : j = i - k /\ j + k = i
      BY <1>1, <1>5, <2>1
    <3>2. QED
      BY <1>7, <1>9, <1>10, <2>1, <3>1
  <2>2. CASE i <= k
    <3>1. i \notin k + 1 .. k + wlen
      BY <1>1, <2>2
    <3>2. QED
      BY <1>4, <1>9, <1>10, <2>2, <3>1
  <2>3. CASE i > k + wlen
    <3>1. i \notin k + 1 .. k + wlen /\ ~ (i <= k) /\ i # k + 1 /\ ~ insert
      <4>1. insert => k + wlen = Len(new)
        BY <1>1, <1>4, <1>5, SMTT(20)
      <4>2. QED
        BY <1>1, <1>5, <2>3, <4>1
    <3>2. QED
      BY <1>4, <1>9, <1>10, <3>1
  <2>4. QED
    BY <1>1, <1>5, <2>1, <2>2, <2>3
<1>12. paint = new
  BY <1>8, <1>10, <1>11, SeqEqual
<1>13. Backspace(Screen(new, k + wlen), wlen - 1) = Screen(new, k + 1)
  <2>1. k + wlen - (wlen - 1) = k + 1
    BY <1>1, <1>5
  <2>2. QED
    BY <2>1, BackspaceMoves
<1>14. add_char(l, c) = [buf |-> new, num |-> k + 1, screen |-> Screen(new, k + 1)]
  BY <1>6, <1>7, <1>9, <1>12, <1>13, Zenon
<1>15. QED
  BY <1>1, <1>2, <1>4, <1>14

(* A string goes to the cursor character by character.  That the states of *)
(* the loop exist, and that each is what it should be, is shown for the    *)
(* least number of characters for which it could fail.                     *)
LEMMA StringShows ==
  ASSUME insert \in BOOLEAN, NEW b \in Seq(Chars), NEW k \in 0 .. Len(b), NEW string \in Seq(Chars)
  PROVE  AddEach([buf |-> b, num |-> k, screen |-> Screen(b, k)], string) = StateAfter(b, k, string, Len(string))
<1> DEFINE first == [buf |-> b, num |-> k, screen |-> Screen(b, k)]
           Good(n) == StateAfter(b, k, string, n)
<1>1. PICK z \in Nat : z = Len(string)
  OBVIOUS
<1>2. Good(0) = first
  <2>1. PICK n \in 0 .. Len(string) : n = 0 /\ k + n = k /\ Len(b) + n = Len(b)
    BY <1>1
  <2>2. PICK line \in Seq(Chars) :
          /\ line = LineAfter(b, k, string, n) /\ Len(line) = Len(b)
          /\ \A i \in 1 .. Len(line) :
               line[i] = IF i <= k THEN b[i] ELSE IF i <= k + n THEN string[i - k]
                         ELSE IF insert THEN b[i - n] ELSE b[i]
    <3>1. (IF insert THEN Len(b) + n ELSE IF k + n >= Len(b) THEN k + n ELSE Len(b)) = Len(b)
      <4>1. k >= Len(b) => k = Len(b)
        OBVIOUS
      <4>2. QED
        BY <2>1, <4>1
    <3>2. LineAfter(b, k, string, n) \in Seq(Chars) /\ Len(LineAfter(b, k, string, n)) = Len(b)
      BY <3>1, LineAfterType
    <3>3. \A i \in 1 .. Len(LineAfter(b, k, string, n)) :
            LineAfter(b, k, string, n)[i] =
              IF i <= k THEN b[i] ELSE IF i <= k + n THEN string[i - k]
              ELSE IF insert THEN b[i - n] ELSE b[i]
      BY LineAfterType
    <3>4. QED
      BY <3>2, <3>3
  <2>3. ASSUME NEW i \in 1 .. Len(line) PROVE line[i] = b[i]
    <3>1. i - n = i
      BY <2>1
    <3>2. QED
      BY <2>1, <2>2, <3>1
  <2>4. line = b
    BY <2>2, <2>3, SeqEqual
  <2>5. QED
    BY <2>1, <2>2, <2>4 DEF StateAfter
<1>3. ASSUME NEW n \in 0 .. z, n # z
      PROVE  string[n + 1] \in Chars /\ add_char(Good(n), string[n + 1]) = Good(n + 1)
  <2>1. PICK m \in 0 .. Len(string) : m = n + 1 /\ n \in Nat /\ m \in 1 .. Len(string)
    BY <1>1, <1>3
  <2>2. PICK c \in Chars : c = string[m]
    BY <2>1
  <2>3. PICK x \in Nat, l \in Nat : x = k /\ l = Len(b) /\ x <= l
    OBVIOUS
  <2>4. PICK old \in Seq(Chars) :
          /\ old = LineAfter(b, k, string, n)
          /\ Len(old) = (IF insert THEN l + n ELSE IF x + n >= l THEN x + n ELSE l)
          /\ k + n \in 0 .. Len(old)
          /\ \A i \in 1 .. Len(old) :
               old[i] = IF i <= x THEN b[i] ELSE IF i <= x + n THEN string[i - x]
                        ELSE IF insert THEN b[i - n] ELSE b[i]
    <3>1. PICK u \in 0 .. Len(string) : u = n
      BY <1>1
    <3>2. PICK line \in Seq(Chars) : line = LineAfter(b, k, string, u)
      BY LineAfterType
    <3>3. /\ Len(line) = (IF insert THEN Len(b) + u ELSE IF k + u >= Len(b) THEN k + u ELSE Len(b))
          /\ k + u \in 0 .. Len(line)
      BY <3>2, LineAfterType
    <3>4. \A i \in 1 .. Len(line) :
            line[i] = IF i <= k THEN b[i] ELSE IF i <= k + u THEN string[i - k]
                      ELSE IF insert THEN b[i - u] ELSE b[i]
      BY <3>2, LineAfterType
    <3>5. QED
      BY <2>3, <3>1, <3>2, <3>3, <3>4, Zenon
  <2>5. PICK line \in Seq(Chars) :
          /\ line = LineAfter(b, k, string, m)
          /\ Len(line) = (IF insert THEN l + m ELSE IF x + m >= l THEN x + m ELSE l)
          /\ \A i \in 1 .. Len(line) :
               line[i] = IF i <= x THEN b[i] ELSE IF i <= x + m THEN string[i - x]
                         ELSE IF insert THEN b[i - m] ELSE b[i]
    <3>1. PICK new \in Seq(Chars) : new = LineAfter(b, k, string, m)
      BY LineAfterType
    <3>2. Len(new) = (IF insert THEN Len(b) + m ELSE IF k + m >= Len(b) THEN k + m ELSE Len(b))
      BY <3>1, LineAfterType
    <3>3. \A i \in 1 .. Len(new) :
            new[i] = IF i <= k THEN b[i] ELSE IF i <= k + m THEN string[i - k]
                     ELSE IF insert THEN b[i - m] ELSE b[i]
      BY <3>1, LineAfterType
    <3>4. QED
      BY <2>3, <3>1, <3>2, <3>3, Zenon
  <2>6. PICK w \in 0 .. Len(old) : w = k + n /\ w = x + n /\ w \in Nat /\ w + 1 = x + m
    BY <2>1, <2>3, <2>4
  <2>7. PICK new \in Seq(Chars) :
          /\ add_char([buf |-> old, num |-> w, screen |-> Screen(old, w)], c)
               = [buf |-> new, num |-> w + 1, screen |-> Screen(new, w + 1)]
          /\ Len(new) = (IF insert \/ w = Len(old) THEN Len(old) + 1 ELSE Len(old))
          /\ \A i \in 1 .. Len(new) :
               new[i] = IF i <= w THEN old[i] ELSE IF i = w + 1 THEN c ELSE IF insert THEN old[i - 1] ELSE old[i]
    BY AddCharShows
  <2>8. Len(new) = Len(line)
    <3>1. CASE insert
      BY <2>1, <2>4, <2>5, <2>7, <3>1
    <3>2. CASE ~ insert /\ x + n >= l
      BY <2>1, <2>3, <2>4, <2>5, <2>6, <2>7, <3>2
    <3>3. CASE ~ insert /\ ~ (x + n >= l)
      BY <2>1, <2>3, <2>4, <2>5, <2>6, <2>7, <3>3
    <3>4. QED
      BY <3>1, <3>2, <3>3
  <2>9. ASSUME NEW i \in 1 .. Len(new) PROVE new[i] = line[i]
    <3>1. CASE i <= w
      <4>1. i \in 1 .. Len(old) /\ i <= x + n /\ i <= x + m
        BY <2>1, <2>4, <2>6, <3>1, SMTT(20)
      <4>2. QED
        BY <2>4, <2>5, <2>7, <2>8, <3>1, <4>1
    <3>2. CASE i = w + 1
      <4>1. ~ (i <= w) /\ ~ (i <= x) /\ i <= x + m /\ i - x = m
        BY <2>1, <2>3, <2>6, <3>2
      <4>2. new[i] = c /\ line[i] = string[m]
        BY <2>5, <2>7, <2>8, <3>2, <4>1
      <4>3. QED
        BY <2>2, <4>2
    <3>3. CASE i > w + 1 /\ insert
      <4>1. PICK j \in 1 .. Len(old) : j = i - 1 /\ ~ (j <= x) /\ ~ (j <= x + n) /\ j - n = i - m
        BY <2>1, <2>3, <2>4, <2>6, <2>7, <3>3
      <4>2. new[i] = old[j] /\ old[j] = b[j - n]
        BY <2>4, <2>6, <2>7, <3>3, <4>1
      <4>3. ~ (i <= x) /\ ~ (i <= x + m)
        BY <2>3, <2>6, <3>3
      <4>4. line[i] = b[i - m]
        BY <2>5, <2>8, <3>3, <4>3
      <4>5. QED
        BY <4>1, <4>2, <4>4
    <3>4. CASE i > w + 1 /\ ~ insert
      <4>1. i \in 1 .. Len(old) /\ ~ (i <= x) /\ ~ (i <= x + n) /\ ~ (i <= x + m) /\ ~ (i <= w) /\ i # w + 1
        <5>1. i \in Nat /\ i > w + 1 /\ w = x + n /\ w + 1 = x + m /\ x \in Nat /\ n \in Nat /\ w \in Nat
          BY <2>1, <2>3, <2>6, <3>4
        <5>2. ~ (i <= x) /\ ~ (i <= x + n) /\ ~ (i <= x + m) /\ ~ (i <= w) /\ i # w + 1
          BY <5>1
        <5>3. i <= Len(old)
          <6>1. w = Len(old) => Len(new) = w + 1
            BY <2>7
          <6>2. w # Len(old) => Len(new) = Len(old)
            BY <2>7, <3>4
          <6>3. QED
            BY <5>1, <6>1, <6>2
        <5>4. QED
          BY <5>1, <5>2, <5>3
      <4>2. new[i] = old[i] /\ old[i] = b[i]
        BY <2>4, <2>7, <3>4, <4>1
      <4>3. line[i] = b[i]
        BY <2>5, <2>8, <3>4, <4>1
      <4>4. QED
        BY <4>2, <4>3
    <3>5. QED
      BY <2>6, <3>1, <3>2, <3>3, <3>4
  <2>10. new = line
    BY <2>8, <2>9, SeqEqual
  <2>11. Good(n) = [buf |-> old, num |-> w, screen |-> Screen(old, w)]
    BY <2>4, <2>6, Zenon DEF StateAfter
  <2>12. k + m = w + 1
    BY <2>3, <2>6
  <2>13. Good(m) = [buf |-> new, num |-> w + 1, screen |-> Screen(new, w + 1)]
    BY <2>5, <2>10, <2>12, Zenon DEF StateAfter
  <2>14. QED
    BY <2>1, <2>2, <2>7, <2>11, <2>13
<1> HIDE DEF Good, first
<1> DEFINE Loop(l) == l = [n \in 0 .. Len(string) |-> IF n = 0 THEN first ELSE add_char(l[n - 1], string[n])]
<1>4. PICK l : Loop(l) /\ AddEach(first, string) = l[Len(string)]
  <2>1. Loop([n \in 0 .. Len(string) |-> Good(n)])
    <3>1. PICK g : g = [n \in 0 .. z |-> Good(n)]
      OBVIOUS
    <3>2. ASSUME NEW n \in 0 .. z
          PROVE  Good(n) = IF n = 0 THEN first ELSE add_char(g[n - 1], string[n])
      <4>1. CASE n = 0
        BY <1>2, <4>1
      <4>2. CASE n # 0
        <5>1. PICK m \in 0 .. z : m = n - 1 /\ m + 1 = n /\ m # z
          BY <4>2
        <5>2. g[m] = Good(m)
          BY <3>1
        <5>3. add_char(Good(m), string[m + 1]) = Good(m + 1)
          BY <1>3, <5>1
        <5>4. QED
          BY <4>2, <5>1, <5>2, <5>3
      <4>3. QED
        BY <4>1, <4>2
    <3>3. g = [n \in 0 .. z |-> IF n = 0 THEN first ELSE add_char(g[n - 1], string[n])]
      BY <3>1, <3>2
    <3>4. QED
      BY <1>1, <3>1, <3>3
  <2>2. Loop(CHOOSE l : Loop(l))
    BY <2>1
  <2>3. AddEach(first, string) = (CHOOSE l : Loop(l))[Len(string)]
    BY DEF AddEach
  <2>4. QED
    BY <2>2, <2>3
<1>5. \A n \in 0 .. z : l[n] = IF n = 0 THEN first ELSE add_char(l[n - 1], string[n])
  BY <1>1, <1>4
<1>6. \A n \in 0 .. z : l[n] = Good(n)
  <2> DEFINE Bad == {n \in 0 .. z : l[n] # Good(n)}
  <2>1. SUFFICES ASSUME Bad # {} PROVE FALSE
    OBVIOUS
  <2>2. PICK n \in Bad : \A j \in Bad : n <= j
    <3>1. Bad \in SUBSET Nat
      OBVIOUS
    <3>2. QED
      BY <2>1, <3>1, LeastNumber
  <2>3. n # 0
    BY <1>2, <1>5
  <2>4. PICK m \in 0 .. z : m = n - 1 /\ m + 1 = n /\ m # z
    BY <2>3
  <2>5. l[m] = Good(m)
    BY <2>2, <2>4
  <2>6. l[n] = add_char(Good(m), string[m + 1])
    BY <1>5, <2>3, <2>4, <2>5
  <2>7. QED
    BY <1>3, <2>4, <2>6
<1>7. QED
  BY <1>1, <1>4, <1>6 DEF Good, first

(* Adding at the cursor shows the line that results.                       *)
LEMMA AddShows ==
  ASSUME LineOK, NEW string \in Seq(Chars), cread_add_char(Screen(buf, num), string), insert' = insert
  PROVE  LineOK' /\ ShowsTheLine'
<1>1. buf \in Seq(Chars) /\ num \in 0 .. Len(buf) /\ insert \in BOOLEAN
  BY DEF LineOK
<1>2. PICK n \in 0 .. Len(string) : n = Len(string)
  OBVIOUS
<1>3. PICK line \in Seq(Chars) : line = LineAfter(buf, num, string, n) /\ num + n \in 0 .. Len(line)
  BY <1>1, LineAfterType
<1>4. PICK l : l = StateAfter(buf, num, string, n)
  OBVIOUS
<1>5. AddEach([buf |-> buf, num |-> num, screen |-> Screen(buf, num)], string) = l
  BY <1>1, <1>2, <1>4, StringShows
<1>6. buf' = l.buf /\ num' = l.num /\ Shows(l.screen)
  BY <1>5 DEF cread_add_char
<1>7. l.buf = line /\ l.num = num + n /\ l.screen = Screen(line, num + n)
  BY <1>3, <1>4 DEF StateAfter
<1>8. line \in Seq(Glyph) /\ Shows(Screen(line, num + n))
  BY <1>6, <1>7 DEF Glyph
<1>9. text' = line /\ col' = num + n
  BY <1>8, LooksSame, Trimmed
<1>10. QED
  BY <1>1, <1>3, <1>6, <1>7, <1>9 DEF LineOK, ShowsTheLine

(* A single key.                                                           *)
LEMMA TypedShows ==
  ASSUME LineOK, ShowsTheLine, Typed
  PROVE  LineOK' /\ ShowsTheLine'
<1>1. PICK c \in Chars : cread_add_char(Now, <<c>>)
  BY DEF Typed
<1>2. <<c>> \in Seq(Chars) /\ insert' = insert
  BY DEF Typed
<1>3. QED
  BY <1>1, <1>2, NowShown, AddShows

(* What completion adds is of the characters that names have.              *)
LEMMA CompletionIsText ==
  ASSUME LineOK
  PROVE  completestr \in Seq(Chars)
<1>1. CASE sl = {}
  BY <1>1 DEF completestr
<1>2. CASE sl # {}
  <2>1. PICK n \in Nat : n = Len(Commands) /\ sl \subseteq 1 .. n /\ Commands \in Seq(Seq(Chars) \ {<< >>})
    BY ConsoleAssumption DEF sl
  <2>2. PICK k \in 1 .. n : k = Min(sl) /\ k \in sl
    <3>1. sl \in SUBSET Nat
      BY <2>1
    <3>2. Min(sl) \in sl
      BY <1>2, <3>1, LeastNumber
    <3>3. QED
      BY <2>1, <3>2
  <2>3. PICK f \in Seq(Chars) : f = first_entry
    <3>1. Commands[k] \in Seq(Chars)
      BY <2>1, <2>2
    <3>2. first_entry = Commands[k]
      BY <2>2, Zenon DEF first_entry
    <3>3. QED
      BY <3>1, <3>2
  <2>4. PICK m \in Nat, z \in Nat : m = num /\ z = Len(f)
    <3>1. num \in Nat /\ Len(f) \in Nat
      BY DEF LineOK
    <3>2. QED
      BY <3>1
  <2>5. m <= z
    <3>1. IsPrefix(Sub(0, num), Commands[k])
      BY <2>2 DEF sl
    <3>2. Len(Sub(0, num)) <= Len(f)
      BY <2>2, <2>3, <3>1 DEF IsPrefix, first_entry
    <3>3. Len(Sub(0, num)) = m
      <4>1. Sub(0, num) = SubSeq(buf, 1, m)
        BY <2>4 DEF Sub
      <4>2. m <= Len(buf) /\ buf \in Seq(Chars)
        BY <2>4 DEF LineOK
      <4>3. QED
        BY <2>4, <4>1, <4>2
    <3>4. QED
      BY <2>4, <3>2, <3>3
  <2>6. PICK T : T = {p \in m .. z : ~ Agree(p)}
    OBVIOUS
  <2>7. z \in T /\ T \in SUBSET Nat
    BY <2>3, <2>4, <2>5, <2>6 DEF Agree
  <2>8. PICK p \in m .. z : p = Min(T)
    BY <2>6, <2>7, LeastNumber
  <2>9. completestr = SubSeq(f, m + 1, p)
    BY <1>2, <2>3, <2>4, <2>6, <2>8, Zenon DEF completestr
  <2>10. SubSeq(f, m + 1, p) \in Seq(Chars)
    BY <2>3, <2>4, <2>8
  <2>11. QED
    BY <2>9, <2>10
<1>3. QED
  BY <1>1, <1>2

(* A line that is painted on an empty row with the cursor sent back is the *)
(* screen as it was before the list.                                       *)
LEMMA CompleteAdds ==
  ASSUME LineOK, ShowsTheLine, complete
  PROVE  cread_add_char(Screen(buf, num), completestr)
<1>1. /\ Now = Screen(buf, num) /\ buf \in Seq(Glyph) /\ eol_num = Len(buf) /\ buf \in Seq(Chars)
      /\ num \in 0 .. Len(buf) /\ insert' = insert
  BY NowShown DEF LineOK, complete
<1>2. PICK listed \in BOOLEAN :
        cread_add_char(IF listed THEN Backspace(putnstr(Screen(<< >>, 0), buf), Len(buf) - num) ELSE Now, completestr)
  BY <1>1 DEF complete
<1>3. Backspace(putnstr(Screen(<< >>, 0), buf), Len(buf) - num) = Screen(buf, num)
  <2>1. PICK e \in Seq(Glyph) : e = << >> /\ Len(e) = 0
    <3>1. << >> \in Seq(Glyph) /\ Len(<< >>) = 0
      OBVIOUS
    <3>2. QED
      BY <3>1
  <2>2. PICK p \in 0 .. Len(e) : p = 0
    BY <2>1
  <2>3. putnstr(Screen(e, p), buf) = Screen(Painted(e, p, buf), p + Len(buf))
    BY <1>1, Paints
  <2>4. Painted(e, p, buf) = buf
    <3>1. Painted(e, p, buf) = [i \in 1 .. Len(buf) |-> IF i \in 1 .. Len(buf) THEN buf[i - 0] ELSE e[i]]
      BY <1>1, <2>1, <2>2 DEF Painted
    <3>2. \A i \in 1 .. Len(buf) : buf[i - 0] = buf[i]
      OBVIOUS
    <3>3. buf = [i \in 1 .. Len(buf) |-> buf[i]]
      BY <1>1
    <3>4. QED
      BY <3>1, <3>2, <3>3
  <2>5. p + Len(buf) - (Len(buf) - num) = num
    BY <1>1, <2>2
  <2>6. Backspace(putnstr(Screen(e, p), buf), Len(buf) - num) = Screen(buf, num)
    <3>1. PICK at, n : at = p + Len(buf) /\ n = Len(buf) - num
      OBVIOUS
    <3>2. Backspace(Screen(buf, at), n) = Screen(buf, at - n)
      BY BackspaceMoves
    <3>3. at - n = num
      BY <2>5, <3>1
    <3>4. putnstr(Screen(e, p), buf) = Screen(buf, at)
      BY <2>3, <2>4, <3>1
    <3>5. QED
      BY <3>1, <3>2, <3>3, <3>4
  <2>7. QED
    BY <2>1, <2>2, <2>6, Zenon
<1>4. QED
  BY <1>1, <1>2, <1>3

(* What is completed is added to what was there.                           *)
LEMMA CompleteShows ==
  ASSUME LineOK, ShowsTheLine, complete
  PROVE  LineOK' /\ ShowsTheLine'
<1>1. cread_add_char(Screen(buf, num), completestr)
  BY CompleteAdds
<1>2. insert' = insert
  BY DEF complete
<1>3. QED
  BY <1>1, <1>2, AddShows, CompletionIsText

(* A line of the history takes the place of the one that was there.        *)
LEMMA RecallShows ==
  ASSUME LineOK, ShowsTheLine, NEW hline \in Seq(Chars), ShowRecalled(hline), insert' = insert
  PROVE  LineOK' /\ ShowsTheLine'
<1>1. /\ Now = Screen(buf, num) /\ buf \in Seq(Glyph) /\ eol_num = Len(buf) /\ buf \in Seq(Chars)
      /\ num \in 0 .. Len(buf) /\ insert \in BOOLEAN
  BY NowShown DEF LineOK
<1>2. PICK n \in Nat, k \in 0 .. Len(buf) : n = Len(buf) /\ k = 0
  BY <1>1
<1>3. Backspace(Now, num) = Screen(buf, k)
  <2>1. num - num = k
    BY <1>1, <1>2
  <2>2. QED
    BY <1>1, <2>1, BackspaceMoves
<1>4. PICK q \in Seq(Glyph) : /\ q = Blanks(Len(buf) - k) /\ Len(q) = n - k
                              /\ LooksLike(Painted(buf, k, q), SubSeq(buf, 1, k))
                              /\ SubSeq(buf, 1, k) \in Seq(Chars) /\ Len(SubSeq(buf, 1, k)) = k
  BY <1>2, ErasePaints
<1>5. PICK row \in Seq(Glyph) : row = Painted(buf, k, q) /\ putnstr(Screen(buf, k), q) = Screen(row, k + Len(q))
  BY <1>1, Paints
<1>6. Erased(Screen(buf, k), 0) = Screen(row, 0)
  <2>1. Len(buf) - k = eol_num - 0 /\ k + Len(q) - (eol_num - 0) = 0
    BY <1>1, <1>2, <1>4
  <2>2. QED
    BY <1>4, <1>5, <2>1, BackspaceMoves DEF Erased
<1>7. \A i \in 1 .. Len(row) : row[i] = "blank"
  <2>1. \A i \in 1 .. Len(row) : row[i] = IF i <= Len(SubSeq(buf, 1, k)) THEN SubSeq(buf, 1, k)[i] ELSE "blank"
    BY <1>4, <1>5, Zenon DEF LooksLike
  <2>2. QED
    BY <1>2, <1>4, <2>1
<1>8. hline \in Seq(Glyph) /\ LooksLike(Painted(row, 0, hline), hline)
  BY <1>7, FreshPaints
<1>9. PICK paint \in Seq(Glyph), p \in 0 .. Len(row) :
        p = 0 /\ paint = Painted(row, p, hline) /\ putnstr(Screen(row, p), hline) = Screen(paint, p + Len(hline))
  <2>1. 0 \in 0 .. Len(row)
    OBVIOUS
  <2>2. QED
    BY <1>8, <2>1, Paints
<1>10. Shows(Screen(paint, Len(hline))) /\ buf' = hline /\ num' = Len(hline)
  <2>1. Shows(putnstr(Erased(Backspace(Now, num), 0), hline)) /\ buf' = hline /\ num' = Len(hline)
    BY DEF ShowRecalled
  <2>2. p + Len(hline) = Len(hline)
    BY <1>9
  <2>3. QED
    BY <1>3, <1>6, <1>9, <2>1, <2>2
<1>11. text' = hline /\ col' = Len(hline)
  BY <1>8, <1>9, <1>10, Trimmed
<1>12. QED
  BY <1>1, <1>10, <1>11 DEF LineOK, ShowsTheLine

(* The history is walked within the lines it has.                          *)
LEMMA UpOrDownShows ==
  ASSUME ConsoleInv, UpOrDown
  PROVE  ConsoleInv'
<1>1. /\ LineOK /\ ShowsTheLine /\ hist_lines \in [0 .. HIST_MAX - 1 -> Seq(Chars)]
      /\ hist_max \in 0 .. HIST_MAX - 1 /\ hist_add_idx \in 0 .. hist_max /\ hist_cur \in -1 .. hist_max
      /\ HIST_MAX \in Nat
  BY ConsoleAssumption DEF ConsoleInv, HistoryOK
<1>2. insert' = insert /\ hist_lines' = hist_lines /\ hist_max' = hist_max /\ hist_add_idx' = hist_add_idx
  BY DEF UpOrDown
<1>3. hist_cur' \in 0 .. hist_max /\ \E hline \in Seq(Chars) : ShowRecalled(hline)
  <2>1. CASE hist_prev
    <3>1. hist_cur' \in 0 .. hist_max
      BY <1>1, <2>1 DEF hist_prev, Previous
    <3>2. hist_lines[hist_cur'] \in Seq(Chars) /\ ShowRecalled(hist_lines[hist_cur'])
      BY <1>1, <2>1, <3>1 DEF hist_prev
    <3>3. QED
      BY <3>1, <3>2
  <2>2. CASE hist_next
    <3>1. hist_cur' \in 0 .. hist_max
      BY <1>1, <2>2 DEF hist_next, Following
    <3>2. PICK hline \in Seq(Chars) : hline = (IF hist_cur' = hist_add_idx THEN << >> ELSE hist_lines[hist_cur'])
      <4>1. hist_lines[hist_cur'] \in Seq(Chars) /\ << >> \in Seq(Chars)
        BY <1>1, <3>1
      <4>2. QED
        BY <4>1
    <3>3. ShowRecalled(hline)
      BY <2>2, <3>2 DEF hist_next
    <3>4. QED
      BY <3>1, <3>3
  <2>3. QED
    BY <2>1, <2>2 DEF UpOrDown
<1>4. LineOK' /\ ShowsTheLine'
  BY <1>1, <1>2, <1>3, RecallShows
<1>5. QED
  BY <1>1, <1>2, <1>3, <1>4 DEF ConsoleInv, HistoryOK

(* A line that is entered goes into the ring.                              *)
LEMMA ReturnShows ==
  ASSUME ConsoleInv, Return
  PROVE  ConsoleInv'
<1>1. /\ LineOK /\ hist_lines \in [0 .. HIST_MAX - 1 -> Seq(Chars)]
      /\ hist_max \in 0 .. HIST_MAX - 1 /\ hist_add_idx \in 0 .. hist_max /\ hist_cur \in -1 .. hist_max
      /\ HIST_MAX \in Nat \ {0} /\ buf \in Seq(Chars)
  BY ConsoleAssumption DEF ConsoleInv, HistoryOK, LineOK
<1>2. buf' = << >> /\ num' = 0 /\ insert' = TRUE /\ text' = << >> /\ col' = 0 /\ hist_cur' = hist_add_idx'
  BY DEF Return, EndOfLine, NewPrompt
<1>3. LineOK' /\ ShowsTheLine'
  BY <1>2 DEF LineOK, ShowsTheLine
<1>4. /\ hist_lines' \in [0 .. HIST_MAX - 1 -> Seq(Chars)]
      /\ hist_max' \in 0 .. HIST_MAX - 1 /\ hist_add_idx' \in 0 .. hist_max'
  <2>1. CASE cread_add_to_hist
    <3>1. hist_lines' \in [0 .. HIST_MAX - 1 -> Seq(Chars)]
      BY <1>1, <2>1 DEF cread_add_to_hist
    <3>2. PICK a : a = hist_add_idx'
      OBVIOUS
    <3>3. a \in 0 .. HIST_MAX - 1
      <4>1. PICK n \in Nat \ {0}, i \in Nat : n = HIST_MAX /\ i = hist_add_idx + 1
        BY <1>1
      <4>2. a = i % n
        BY <2>1, <3>2, <4>1 DEF cread_add_to_hist
      <4>3. QED
        BY <4>1, <4>2
    <3>4. hist_max' = IF a > hist_max THEN a ELSE hist_max
      BY <2>1, <3>2 DEF cread_add_to_hist, Newest
    <3>5. QED
      BY <1>1, <3>1, <3>2, <3>3, <3>4
  <2>2. CASE UNCHANGED <<hist_lines, hist_add_idx, hist_max>>
    BY <1>1, <2>2
  <2>3. QED
    BY <2>1, <2>2 DEF Return
<1>5. QED
  BY <1>2, <1>3, <1>4 DEF ConsoleInv, HistoryOK

(* Every key of the console keeps the invariant.                           *)
LEMMA ConsoleStep ==
  ConsoleInv /\ [readline]_consoleVars => ConsoleInv'
<1>1. SUFFICES ASSUME ConsoleInv, [readline]_consoleVars PROVE ConsoleInv'
  OBVIOUS
<1>2. LineOK /\ HistoryOK /\ ShowsTheLine
  BY <1>1 DEF ConsoleInv
<1>3. ASSUME UNCHANGED histVars, LineOK' /\ ShowsTheLine' PROVE ConsoleInv'
  BY <1>2, <1>3 DEF ConsoleInv, HistoryOK, histVars
<1>4. CASE Typed
  BY <1>2, <1>3, <1>4, TypedShows DEF Typed
<1>5. CASE Edited
  BY <1>2, <1>3, <1>5, EditedShows DEF Edited
<1>6. CASE KEY_INSERT
  BY <1>2, <1>3, <1>6 DEF KEY_INSERT, LineOK, ShowsTheLine
<1>7. CASE complete
  BY <1>2, <1>3, <1>7, CompleteShows DEF complete
<1>8. CASE UpOrDown
  BY <1>1, <1>8, UpOrDownShows
<1>9. CASE Return
  BY <1>1, <1>9, ReturnShows
<1>10. CASE Break
  BY <1>2, <1>3, <1>10 DEF Break, EndOfLine, NewPrompt, LineOK, ShowsTheLine
<1>11. CASE UNCHANGED consoleVars
  BY <1>2, <1>3, <1>11 DEF consoleVars, LineOK, ShowsTheLine
<1>12. QED
  BY <1>1, <1>4, <1>5, <1>6, <1>7, <1>8, <1>9, <1>10, <1>11 DEF readline

(* It holds at the first prompt.                                           *)
LEMMA ConsoleStarts ==
  ConsoleInit => ConsoleInv
<1>1. HIST_MAX \in Nat \ {0} /\ << >> \in Seq(Chars)
  BY ConsoleAssumption
<1>2. QED
  BY <1>1 DEF ConsoleInit, hist_init, ConsoleInv, LineOK, HistoryOK, ShowsTheLine

(* The training, the test and the boot do not touch the console.           *)
LEMMA ConsoleInBios ==
  (BiosInit => ConsoleInit) /\ ([BiosNext]_biosVars => [readline]_consoleVars)
BY DEF BiosInit, BiosNext, biosVars, sdram_leveling_returns, memtest_begins, sdram_init_returns, boot_sequence

(* What the line in the buffer is, and the place of the cursor in it, is   *)
(* what stands on the terminal after every key.                            *)
THEOREM TerminalShowsTheLine == BiosSpec => []ShowsTheLine
<1>1. BiosInit => ConsoleInv
  BY ConsoleInBios, ConsoleStarts
<1>2. ConsoleInv /\ [BiosNext]_biosVars => ConsoleInv'
  BY ConsoleInBios, ConsoleStep
<1>3. ConsoleInv => ShowsTheLine
  BY DEF ConsoleInv
<1>4. QED
  BY <1>1, <1>2, <1>3, PTL DEF BiosSpec

-----------------------------------------------------------------------------
(***************************************************************************)
(* The console is the abstract editor.  Each edit is compared with that of *)
(* the abstract line cell by cell; the ring of the history is unrolled.    *)
(***************************************************************************)

(* The cells of a part of a sequence.                                      *)
LEMMA PartOf ==
  ASSUME NEW s \in Seq(Chars), NEW m \in Nat \ {0}, NEW n \in Nat, n <= Len(s), m <= n + 1
  PROVE  /\ SubSeq(s, m, n) \in Seq(Chars) /\ Len(SubSeq(s, m, n)) = n - m + 1
         /\ \A i \in 1 .. n - m + 1 : SubSeq(s, m, n)[i] = s[m + i - 1]
OBVIOUS

Joined(u, v, w) == u \o v \o w
CellOf(u, v, w, a, b, i) == IF i <= a THEN u[i] ELSE IF i <= a + b THEN v[i - a] ELSE w[i - (a + b)]

(* The cells of three sequences one behind the other.                      *)
LEMMA ThreeParts ==
  ASSUME NEW u \in Seq(Chars), NEW v \in Seq(Chars), NEW w \in Seq(Chars),
         NEW a \in Nat, NEW b \in Nat, NEW c \in Nat, a = Len(u), b = Len(v), c = Len(w)
  PROVE  /\ Joined(u, v, w) \in Seq(Chars) /\ Len(Joined(u, v, w)) = a + b + c
         /\ \A i \in 1 .. a + b + c : Joined(u, v, w)[i] = CellOf(u, v, w, a, b, i)
<1>1. PICK x \in Seq(Chars) : /\ x = u \o v /\ Len(x) = a + b
                              /\ \A i \in 1 .. a + b : x[i] = IF i <= a THEN u[i] ELSE v[i - a]
  <2>1. u \o v \in Seq(Chars) /\ Len(u \o v) = Len(u) + Len(v)
    BY ConcatProperties
  <2>2. \A i \in 1 .. Len(u) + Len(v) : (u \o v)[i] = IF i <= Len(u) THEN u[i] ELSE v[i - Len(u)]
    BY ConcatProperties
  <2>3. QED
    BY <2>1, <2>2
<1>2. PICK y \in Seq(Chars) : /\ y = x \o w /\ Len(y) = a + b + c
                              /\ \A i \in 1 .. a + b + c : y[i] = IF i <= a + b THEN x[i] ELSE w[i - (a + b)]
  <2>1. x \o w \in Seq(Chars) /\ Len(x \o w) = Len(x) + Len(w)
    BY ConcatProperties
  <2>2. \A i \in 1 .. Len(x) + Len(w) : (x \o w)[i] = IF i <= Len(x) THEN x[i] ELSE w[i - Len(x)]
    BY ConcatProperties
  <2>3. Len(x) + Len(w) = a + b + c
    BY <1>1
  <2>4. \A i \in 1 .. a + b + c : (x \o w)[i] = IF i <= a + b THEN x[i] ELSE w[i - (a + b)]
    BY <1>1, <2>2, <2>3
  <2>5. QED
    BY <2>1, <2>3, <2>4
<1>3. ASSUME NEW i \in 1 .. a + b + c
      PROVE  y[i] = IF i <= a THEN u[i] ELSE IF i <= a + b THEN v[i - a] ELSE w[i - (a + b)]
  <2>1. CASE i <= a + b
    <3>1. i \in 1 .. a + b
      BY <2>1
    <3>2. i <= a \/ ~ (i <= a)
      OBVIOUS
    <3>3. QED
      BY <1>1, <1>2, <2>1, <3>1, <3>2
  <2>2. CASE ~ (i <= a + b)
    <3>1. ~ (i <= a)
      BY <2>2
    <3>2. QED
      BY <1>2, <2>2, <3>1
  <2>3. QED
    BY <2>1, <2>2
<1>4. QED
  BY <1>1, <1>2, <1>3, Zenon DEF Joined, CellOf

Rest(right, n) == IF insert THEN right ELSE SubSeq(right, n + 1, Len(right))

(* What is added stands between what is left and what is right of the      *)
(* cursor, or over that.                                                   *)
LEMMA PutLine ==
  ASSUME insert \in BOOLEAN, NEW b \in Seq(Chars), NEW k \in 0 .. Len(b), NEW s \in Seq(Chars)
  PROVE  LineAfter(b, k, s, Len(s)) = Joined(SubSeq(b, 1, k), s, Rest(SubSeq(b, k + 1, Len(b)), Len(s)))
<1> DEFINE left == SubSeq(b, 1, k)
           right == SubSeq(b, k + 1, Len(b))
<1>1. PICK n \in Nat, z \in Nat : n = Len(b) /\ z = Len(s) /\ k <= n /\ k \in Nat
  OBVIOUS
<1>2. PICK u \in Seq(Chars) : u = left /\ Len(u) = k /\ \A i \in 1 .. k : u[i] = b[i]
  <2>1. SubSeq(b, 1, k) \in Seq(Chars) /\ Len(SubSeq(b, 1, k)) = k
    BY <1>1
  <2>2. \A i \in 1 .. k : SubSeq(b, 1, k)[i] = b[i]
    BY <1>1
  <2>3. QED
    BY <2>1, <2>2
<1>3. PICK m \in Nat \ {0} : m = k + 1 /\ m <= n + 1
  BY <1>1
<1>4. PICK d \in Nat : d = n - k /\ n - m + 1 = d
  <2>1. n - k \in Nat /\ n - m + 1 = n - k
    BY <1>1, <1>3
  <2>2. QED
    BY <2>1
<1>5. PICK r \in Seq(Chars) : r = right /\ Len(r) = d /\ \A i \in 1 .. d : r[i] = b[i + k]
  <2>1. PICK r : r = SubSeq(b, m, n)
    OBVIOUS
  <2>2. r \in Seq(Chars) /\ Len(r) = d /\ \A i \in 1 .. d : r[i] = b[m + i - 1]
    BY <1>1, <1>3, <1>4, <2>1, PartOf
  <2>3. \A i \in 1 .. d : m + i - 1 = i + k
    BY <1>1, <1>3
  <2>4. \A i \in 1 .. d : r[i] = b[i + k]
    BY <2>2, <2>3
  <2>5. r = right
    BY <1>1, <1>3, <2>1
  <2>6. QED
    BY <2>2, <2>4, <2>5
<1>6. PICK e \in Seq(Chars), c \in Nat :
        /\ e = (IF insert THEN right ELSE SubSeq(right, z + 1, Len(right)))
        /\ c = Len(e)
        /\ c = (IF insert THEN d ELSE IF z <= d THEN d - z ELSE 0)
        /\ \A i \in 1 .. c : e[i] = IF insert THEN b[i + k] ELSE b[i + z + k]
  <2>1. CASE insert
    BY <1>5, <2>1
  <2>2. CASE ~ insert /\ z <= d
    <3>1. PICK o \in Nat \ {0} : o = z + 1 /\ o <= d + 1 /\ d - o + 1 = d - z /\ d - z \in Nat
      BY <1>1, <2>2
    <3>2. PICK e : e = SubSeq(r, o, d)
      OBVIOUS
    <3>3. e \in Seq(Chars) /\ Len(e) = d - z /\ \A i \in 1 .. d - z : e[i] = r[o + i - 1]
      <4>1. e \in Seq(Chars) /\ Len(e) = d - o + 1 /\ \A i \in 1 .. d - o + 1 : e[i] = r[o + i - 1]
        <5>1. d <= Len(r) /\ o <= d + 1
          BY <1>5, <3>1
        <5>2. /\ SubSeq(r, o, d) \in Seq(Chars) /\ Len(SubSeq(r, o, d)) = d - o + 1
              /\ \A i \in 1 .. d - o + 1 : SubSeq(r, o, d)[i] = r[o + i - 1]
          BY <5>1, PartOf
        <5>3. QED
          BY <3>2, <5>2
      <4>2. QED
        BY <3>1, <4>1
    <3>4. ASSUME NEW i \in 1 .. d - z PROVE e[i] = b[i + z + k]
      <4>1. PICK j \in 1 .. d : j = o + i - 1 /\ j + k = i + z + k
        <5>1. o + i - 1 \in 1 .. d
          BY <1>1, <2>2, <3>1
        <5>2. o + i - 1 + k = i + z + k
          BY <1>1, <3>1
        <5>3. QED
          BY <5>1, <5>2
      <4>2. QED
        BY <1>5, <3>3, <4>1
    <3>5. e = SubSeq(right, z + 1, Len(right))
      BY <1>5, <3>1, <3>2, Zenon
    <3>6. QED
      BY <2>2, <3>1, <3>3, <3>4, <3>5
  <2>3. CASE ~ insert /\ ~ (z <= d)
    <3>1. SubSeq(r, z + 1, d) = << >>
      BY <1>1, <1>5, <2>3
    <3>2. << >> \in Seq(Chars) /\ Len(<< >>) = 0
      OBVIOUS
    <3>3. PICK e \in Seq(Chars) : e = SubSeq(r, z + 1, d) /\ Len(e) = 0
      BY <3>1, <3>2
    <3>4. e = SubSeq(right, z + 1, Len(right))
      BY <1>5, <3>3, Zenon
    <3>5. (IF insert THEN d ELSE IF z <= d THEN d - z ELSE 0) = 0
      BY <2>3
    <3>6. \A i \in 1 .. 0 : e[i] = IF insert THEN b[i + k] ELSE b[i + z + k]
      OBVIOUS
    <3>7. QED
      BY <2>3, <3>3, <3>4, <3>5, <3>6
  <2>4. QED
    BY <2>1, <2>2, <2>3
<1>7. PICK w : w = Joined(u, s, e)
  OBVIOUS
<1>8. /\ w \in Seq(Chars) /\ Len(w) = k + z + c
      /\ \A i \in 1 .. k + z + c : w[i] = IF i <= k THEN u[i] ELSE IF i <= k + z THEN s[i - k] ELSE e[i - (k + z)]
  <2>1. k = Len(u) /\ z = Len(s) /\ c = Len(e) /\ k \in Nat
    BY <1>1, <1>2, <1>6
  <2>2. PICK x \in Nat, y \in Nat : x = k /\ y = z
    BY <2>1
  <2>3. x = Len(u) /\ y = Len(s) /\ c = Len(e)
    BY <2>1, <2>2
  <2>4. /\ Joined(u, s, e) \in Seq(Chars) /\ Len(Joined(u, s, e)) = x + y + c
        /\ \A i \in 1 .. x + y + c : Joined(u, s, e)[i] = CellOf(u, s, e, x, y, i)
    <3>1. Joined(u, s, e) \in Seq(Chars)
      BY <2>3, ThreeParts
    <3>2. Len(Joined(u, s, e)) = x + y + c
      BY <2>3, ThreeParts
    <3>3. \A i \in 1 .. x + y + c : Joined(u, s, e)[i] = CellOf(u, s, e, x, y, i)
      BY <2>3, ThreeParts
    <3>4. QED
      BY <3>1, <3>2, <3>3
  <2>5. QED
    BY <1>7, <2>2, <2>4, Zenon DEF CellOf
<1>9. PICK line \in Seq(Chars) :
        /\ line = LineAfter(b, k, s, z)
        /\ Len(line) = (IF insert THEN n + z ELSE IF k + z >= n THEN k + z ELSE n)
        /\ \A i \in 1 .. Len(line) :
             line[i] = IF i <= k THEN b[i] ELSE IF i <= k + z THEN s[i - k] ELSE IF insert THEN b[i - z] ELSE b[i]
  <2>1. PICK y \in 0 .. Len(s) : y = z
    BY <1>1
  <2>2. PICK line : line = LineAfter(b, k, s, y)
    OBVIOUS
  <2>3. line \in Seq(Chars) /\ Len(line) = (IF insert THEN Len(b) + y ELSE IF k + y >= Len(b) THEN k + y ELSE Len(b))
    BY <2>2, LineAfterType
  <2>4. \A i \in 1 .. Len(line) :
          line[i] = IF i <= k THEN b[i] ELSE IF i <= k + y THEN s[i - k] ELSE IF insert THEN b[i - y] ELSE b[i]
    BY <2>2, LineAfterType, SMTT(20)
  <2>5. QED
    BY <1>1, <2>1, <2>2, <2>3, <2>4, Zenon
<1>10. Len(line) = k + z + c
  <2>1. CASE insert
    <3>1. Len(line) = n + z /\ c = n - k
      BY <1>4, <1>6, <1>9, <2>1
    <3>2. k + z + (n - k) = n + z
      BY <1>1
    <3>3. QED
      BY <3>1, <3>2
  <2>2. CASE ~ insert /\ z <= d
    <3>1. Len(line) = n /\ c = (n - k) - z
      <4>1. c = d - z
        BY <1>6, <2>2
      <4>2. k + z >= n => k + z = n
        BY <1>1, <1>4, <2>2
      <4>3. Len(line) = n
        BY <1>9, <2>2, <4>2
      <4>4. QED
        BY <1>4, <4>1, <4>3
    <3>2. k + z + ((n - k) - z) = n
      BY <1>1
    <3>3. QED
      BY <3>1, <3>2
  <2>3. CASE ~ insert /\ ~ (z <= d)
    <3>1. Len(line) = k + z /\ c = 0
      BY <1>1, <1>4, <1>6, <1>9, <2>3
    <3>2. QED
      BY <1>1, <3>1
  <2>4. QED
    BY <2>1, <2>2, <2>3
<1>11. ASSUME NEW i \in 1 .. Len(line) PROVE line[i] = w[i]
  <2>1. i \in 1 .. k + z + c
    BY <1>10
  <2>2. CASE i <= k
    <3>1. i \in 1 .. k
      BY <2>2
    <3>2. QED
      BY <1>2, <1>8, <1>9, <2>1, <2>2, <3>1
  <2>3. CASE ~ (i <= k) /\ i <= k + z
    BY <1>8, <1>9, <2>1, <2>3
  <2>4. CASE ~ (i <= k) /\ ~ (i <= k + z)
    <3>1. PICK j \in 1 .. c : j = i - (k + z) /\ j + k = i - z /\ j + z + k = i
      <4>1. i - (k + z) \in 1 .. c
        <5>1. PICK x \in Nat : x = k + z /\ i \in 1 .. x + c /\ ~ (i <= x)
          BY <1>1, <2>1, <2>4
        <5>2. i - x \in 1 .. c
          BY <5>1
        <5>3. QED
          BY <5>1, <5>2
      <4>2. i - (k + z) + k = i - z /\ i - (k + z) + z + k = i
        BY <1>1
      <4>3. QED
        BY <4>1, <4>2
    <3>2. w[i] = e[j]
      BY <1>8, <2>1, <2>4, <3>1
    <3>3. QED
      BY <1>6, <1>9, <2>4, <3>1, <3>2
  <2>5. QED
    BY <2>2, <2>3, <2>4
<1>12. line = w
  BY <1>8, <1>9, <1>10, <1>11, SeqEqual
<1>13. QED
  BY <1>1, <1>2, <1>6, <1>7, <1>9, <1>12, Zenon DEF Rest

(* Deleting is taking the head of what is right of the cursor ...          *)
LEMMA RemoveUnder ==
  ASSUME NEW b \in Seq(Chars), NEW k \in 0 .. Len(b) - 1
  PROVE  /\ RemoveAt(b, k + 1) = SubSeq(b, 1, k) \o Tail(SubSeq(b, k + 1, Len(b)))
         /\ SubSeq(b, k + 1, Len(b)) # << >>
<1>1. PICK n \in Nat, m \in Nat \ {0}, d \in Nat \ {0} :
        n = Len(b) /\ m = k + 1 /\ m <= n /\ d = n - m + 1 /\ k \in Nat /\ m - 1 = k
  OBVIOUS
<1>2. PICK r \in Seq(Chars) : r = SubSeq(b, m, n) /\ Len(r) = d /\ \A i \in 1 .. d : r[i] = b[m + i - 1]
  <2>1. PICK r : r = SubSeq(b, m, n)
    OBVIOUS
  <2>2. r \in Seq(Chars) /\ Len(r) = d /\ \A i \in 1 .. d : r[i] = b[m + i - 1]
    BY <1>1, <2>1, PartOf
  <2>3. QED
    BY <2>1, <2>2
<1>3. PICK t \in Seq(Chars) : t = SubSeq(b, m + 1, n) /\ Len(t) = d - 1 /\ \A i \in 1 .. d - 1 : t[i] = b[m + i]
  <2>1. PICK o \in Nat \ {0} : o = m + 1 /\ o <= n + 1 /\ n - o + 1 = d - 1
    BY <1>1
  <2>2. PICK t : t = SubSeq(b, o, n)
    OBVIOUS
  <2>3. t \in Seq(Chars) /\ Len(t) = d - 1 /\ \A i \in 1 .. d - 1 : t[i] = b[o + i - 1]
    BY <1>1, <2>1, <2>2, PartOf
  <2>4. \A i \in 1 .. d - 1 : o + i - 1 = m + i
    BY <1>1, <2>1
  <2>5. Len(t) = d - 1 /\ t = SubSeq(b, m + 1, n)
    BY <2>1, <2>2, <2>3, Zenon
  <2>6. ASSUME NEW i \in 1 .. d - 1 PROVE t[i] = b[m + i]
    BY <2>3, <2>4, Zenon
  <2>7. QED
    BY <2>3, <2>5, <2>6, Zenon
<1>4. PICK v \in Seq(Chars) : v = Tail(r) /\ Len(v) = d - 1 /\ \A i \in 1 .. d - 1 : v[i] = r[i + 1]
  <2>1. r # << >>
    BY <1>1, <1>2
  <2>2. Tail(r) \in Seq(Chars) /\ Len(Tail(r)) = Len(r) - 1
    BY <2>1
  <2>3. \A i \in 1 .. Len(r) - 1 : Tail(r)[i] = r[i + 1]
    BY <2>1
  <2>4. QED
    BY <1>2, <2>2, <2>3
<1>5. ASSUME NEW i \in 1 .. d - 1 PROVE v[i] = t[i]
  <2>1. PICK j \in 1 .. d : j = i + 1 /\ m + j - 1 = m + i
    BY <1>1
  <2>2. v[i] = r[j] /\ t[i] = b[m + i]
    BY <1>3, <1>4, <2>1, Zenon
  <2>3. r[j] = b[m + j - 1]
    BY <1>2, <2>1, Zenon
  <2>4. QED
    BY <2>1, <2>2, <2>3, Zenon
<1>6. v = t
  BY <1>3, <1>4, <1>5, SeqEqual
<1>7. RemoveAt(b, m) = SubSeq(b, 1, k) \o t
  BY <1>1, <1>3, Zenon DEF RemoveAt
<1>8. r # << >>
  BY <1>1, <1>2
<1>9. QED
  BY <1>1, <1>2, <1>4, <1>6, <1>7, <1>8, Zenon

(* ... or the last of what is left of it.                                  *)
LEMMA RemoveLast ==
  ASSUME NEW b \in Seq(Chars), NEW k \in 1 .. Len(b)
  PROVE  /\ RemoveAt(b, k) = Front(SubSeq(b, 1, k)) \o SubSeq(b, k + 1, Len(b))
         /\ SubSeq(b, 1, k) # << >>
<1>1. PICK n \in Nat, m \in Nat : n = Len(b) /\ m = k - 1 /\ k <= n /\ k \in Nat
  OBVIOUS
<1>2. PICK u \in Seq(Chars) : u = SubSeq(b, 1, k) /\ Len(u) = k /\ \A i \in 1 .. k : u[i] = b[i]
  <2>1. SubSeq(b, 1, k) \in Seq(Chars) /\ Len(SubSeq(b, 1, k)) = k
    BY <1>1
  <2>2. \A i \in 1 .. k : SubSeq(b, 1, k)[i] = b[i]
    BY <1>1
  <2>3. QED
    BY <2>1, <2>2
<1>3. Front(u) = SubSeq(u, 1, m)
  BY <1>1, <1>2 DEF Front
<1>4. PICK v \in Seq(Chars) : v = SubSeq(u, 1, m) /\ Len(v) = m /\ \A i \in 1 .. m : v[i] = u[i]
  <2>1. SubSeq(u, 1, m) \in Seq(Chars) /\ Len(SubSeq(u, 1, m)) = m
    BY <1>1, <1>2
  <2>2. \A i \in 1 .. m : SubSeq(u, 1, m)[i] = u[i]
    BY <1>1, <1>2
  <2>3. QED
    BY <2>1, <2>2
<1>5. PICK w \in Seq(Chars) : w = SubSeq(b, 1, m) /\ Len(w) = m /\ \A i \in 1 .. m : w[i] = b[i]
  <2>1. SubSeq(b, 1, m) \in Seq(Chars) /\ Len(SubSeq(b, 1, m)) = m
    BY <1>1
  <2>2. \A i \in 1 .. m : SubSeq(b, 1, m)[i] = b[i]
    BY <1>1
  <2>3. QED
    BY <2>1, <2>2
<1>6. \A i \in 1 .. m : v[i] = w[i]
  BY <1>1, <1>2, <1>4, <1>5
<1>7. v = w
  BY <1>4, <1>5, <1>6, SeqEqual
<1>8. RemoveAt(b, k) = w \o SubSeq(b, k + 1, Len(b))
  BY <1>1, <1>5, Zenon DEF RemoveAt
<1>9. u # << >>
  BY <1>1, <1>2, SMTT(20)
<1>10. QED
  BY <1>2, <1>3, <1>4, <1>7, <1>8, <1>9, Zenon

(* The place of the cursor splits the line.                                *)
LEMMA SplitLine ==
  ASSUME LineOK
  PROVE  /\ Editor!Left = SubSeq(buf, 1, num) /\ Editor!Right = SubSeq(buf, num + 1, Len(buf))
         /\ buf \in Seq(Chars) /\ num \in 0 .. Len(buf) /\ insert \in BOOLEAN
BY DEF LineOK, Editor!Left, Editor!Right

(* What is added is put at the cursor.                                     *)
LEMMA AddPuts ==
  ASSUME LineOK, NEW screen, screen = Screen(buf, num), NEW string \in Seq(Chars), cread_add_char(screen, string)
  PROVE  Editor!Put(string)
<1>1. PICK n \in 0 .. Len(string) : n = Len(string)
  OBVIOUS
<1>2. PICK l : l = StateAfter(buf, num, string, n)
  OBVIOUS
<1>3. AddEach([buf |-> buf, num |-> num, screen |-> Screen(buf, num)], string) = l
  BY <1>1, <1>2, SplitLine, StringShows
<1>4. buf' = l.buf /\ num' = l.num
  BY <1>3 DEF cread_add_char
<1>5. l.buf = LineAfter(buf, num, string, Len(string)) /\ l.num = num + Len(string)
  BY <1>1, <1>2 DEF StateAfter
<1>6. LineAfter(buf, num, string, Len(string))
        = Joined(SubSeq(buf, 1, num), string, Rest(SubSeq(buf, num + 1, Len(buf)), Len(string)))
  <2>1. PICK b \in Seq(Chars), k \in 0 .. Len(buf) : b = buf /\ k = num
    BY SplitLine
  <2>2. k \in 0 .. Len(b) /\ insert \in BOOLEAN
    BY <2>1, SplitLine
  <2>3. LineAfter(b, k, string, Len(string)) = Joined(SubSeq(b, 1, k), string, Rest(SubSeq(b, k + 1, Len(b)), Len(string)))
    BY <2>2, PutLine
  <2>4. QED
    BY <2>1, <2>3, Zenon
<1>7. QED
  BY <1>4, <1>5, <1>6, SplitLine, Zenon DEF Editor!Put, Editor!From, Joined, Rest

(* The sequences that the abstract editor speaks of are the same.          *)
LEMMA SameOperators ==
  /\ \A s : Editor!Front(s) = Front(s)
  /\ \A s, t : Editor!IsPrefix(s, t) <=> IsPrefix(s, t)
  /\ \A S : Editor!Cardinality(S) = Cardinality(S)
  /\ \A S : Editor!CommonPrefixes(S) = CommonPrefixes(S)
  /\ \A S : Editor!LongestCommonPrefix(S)
             = CHOOSE l \in CommonPrefixes(S) : \A y \in CommonPrefixes(S) : Len(y) <= Len(l)
<1>1. \A s : Editor!Front(s) = Front(s)
  BY Zenon DEF Front, Editor!Front
<1>2. \A s, t : Editor!IsPrefix(s, t) <=> IsPrefix(s, t)
  BY Zenon DEF IsPrefix, Editor!IsPrefix
<1>3. \A s : Editor!Prefixes(s) = Prefixes(s)
  BY Zenon DEF Prefixes, Editor!Prefixes
<1>4. ASSUME NEW S PROVE Editor!CommonPrefixes(S) = CommonPrefixes(S)
  BY <1>2, <1>3 DEF CommonPrefixes, Editor!CommonPrefixes
<1>5. ASSUME NEW S
      PROVE  Editor!LongestCommonPrefix(S)
               = CHOOSE l \in CommonPrefixes(S) : \A y \in CommonPrefixes(S) : Len(y) <= Len(l)
  BY <1>4 DEF Editor!LongestCommonPrefix
<1>6. \A S : Editor!Cardinality(S) = Cardinality(S)
  BY Zenon DEF Cardinality, Editor!Cardinality
<1>7. QED
  BY <1>1, <1>2, <1>4, <1>5, <1>6

(* Deleting, erasing and moving are edits of the abstract line.            *)
LEMMA EditedEdits ==
  ASSUME LineOK, Edited
  PROVE  Editor!Edit
<1>1. /\ Editor!Left = SubSeq(buf, 1, num) /\ Editor!Right = SubSeq(buf, num + 1, Len(buf))
      /\ buf \in Seq(Chars) /\ num \in 0 .. Len(buf) /\ eol_num = Len(buf)
  BY SplitLine DEF eol_num
<1>2. CASE DeleteUnder
  <2>1. num \in 0 .. Len(buf) - 1 /\ buf' = RemoveAt(buf, num + 1) /\ num' = num
    BY <1>1, <1>2 DEF DeleteUnder
  <2>2. Editor!Right # << >> /\ buf' = Editor!Left \o Tail(Editor!Right)
    BY <1>1, <2>1, RemoveUnder, Zenon
  <2>3. QED
    BY <2>1, <2>2 DEF Editor!Edit
<1>3. CASE DeleteBefore
  <2>1. num \in 1 .. Len(buf) /\ buf' = RemoveAt(buf, num) /\ num' = num - 1
    BY <1>1, <1>3 DEF DeleteBefore
  <2>2. Editor!Left # << >> /\ buf' = Front(Editor!Left) \o Editor!Right
    BY <1>1, <2>1, RemoveLast, Zenon
  <2>3. Editor!Left # << >> /\ buf' = Editor!Front(Editor!Left) \o Editor!Right /\ num' = num - 1
    BY <2>1, <2>2, SameOperators, Zenon
  <2>4. QED
    BY <2>3, Zenon DEF Editor!Edit
<1>4. CASE ERASE_TO_EOL
  <2>1. 0 + 1 = 1
    OBVIOUS
  <2>2. buf' = Editor!Left /\ num' = num
    BY <1>1, <1>4, <2>1 DEF ERASE_TO_EOL, Sub
  <2>3. QED
    BY <2>2 DEF Editor!Edit
<1>5. CASE ERASE_LINE
  BY <1>5 DEF ERASE_LINE, Editor!Edit
<1>6. CASE Move
  <2>1. buf' = buf
    BY <1>6 DEF Move
  <2>2. num' \in {0, num - 1, num + 1, Len(buf)} \cap 0 .. Len(buf)
    <3>1. CASE num' \in {0, num - 1} /\ num > 0
      BY <1>1, <3>1
    <3>2. CASE num' \in {num + 1, eol_num} /\ num < eol_num
      BY <1>1, <3>2
    <3>3. QED
      BY <1>6, <3>1, <3>2 DEF Move
  <2>3. QED
    BY <2>1, <2>2 DEF Editor!Edit
<1>7. QED
  BY <1>2, <1>3, <1>4, <1>5, <1>6 DEF Edited

(* What the candidates agree on is their longest common prefix: as no name *)
(* begins another, none has ended before they differ.                      *)
LEMMA CompletionAgrees ==
  ASSUME LineOK
  PROVE  completestr = Editor!Completion
<1>1. 0 + 1 = 1 /\ Sub(0, num) = Editor!Left /\ num \in 0 .. Len(buf)
  <2>1. 0 + 1 = 1
    OBVIOUS
  <2>2. QED
    BY <2>1, SplitLine DEF Sub
<1>2. Editor!Candidates = {Commands[i] : i \in sl}
  <2>1. PICK starts : /\ starts = {i \in DOMAIN Commands : Editor!IsPrefix(Editor!Left, Commands[i])}
                       /\ starts = {i \in DOMAIN Commands : IsPrefix(Editor!Left, Commands[i])}
    BY SameOperators
  <2>2. sl = {i \in starts : Cardinality({j \in starts : j <= i}) <= HIST_DEPTH}
    BY <1>1, <2>1 DEF sl
  <2>3. Editor!Candidates
          = {Commands[i] : i \in {k \in starts : Editor!Cardinality({j \in starts : j <= k}) <= HIST_DEPTH}}
    BY <2>1, Zenon DEF Editor!Candidates
  <2>4. QED
    BY <2>2, <2>3, SameOperators
<1>3. CASE sl = {}
  BY <1>2, <1>3 DEF completestr, Editor!Completion
<1>4. CASE sl # {}
  <2>1. PICK a \in Nat : a = Len(Commands) /\ sl \subseteq 1 .. a /\ Commands \in Seq(Seq(Chars) \ {<< >>})
    BY ConsoleAssumption DEF sl
  <2>2. PICK e \in 1 .. a : e = Min(sl) /\ e \in sl
    <3>1. sl \in SUBSET Nat
      BY <2>1
    <3>2. Min(sl) \in sl
      BY <1>4, <3>1, LeastNumber
    <3>3. QED
      BY <2>1, <3>2
  <2>3. \A i \in sl : Commands[i] \in Seq(Chars)
    BY <2>1
  <2>4. PICK f \in Seq(Chars) : f = first_entry /\ f = Commands[e]
    <3>1. first_entry = Commands[e]
      BY <2>2, Zenon DEF first_entry
    <3>2. QED
      BY <2>2, <2>3, <3>1
  <2>5. PICK m \in Nat, z \in Nat, n \in Nat : m = num /\ z = Len(f) /\ n = Len(buf) /\ m <= n
    <3>1. num \in Nat /\ Len(f) \in Nat /\ Len(buf) \in Nat /\ num <= Len(buf)
      BY SplitLine
    <3>2. QED
      BY <3>1
  <2>6. PICK left \in Seq(Chars) : left = Editor!Left /\ Len(left) = m
    <3>1. SubSeq(buf, 1, m) \in Seq(Chars) /\ Len(SubSeq(buf, 1, m)) = m
      BY <2>5, SplitLine
    <3>2. QED
      BY <2>5, <3>1, SplitLine
  <2>7. ASSUME NEW i \in sl
        PROVE  Len(Commands[i]) >= m /\ \A p \in 1 .. m : Commands[i][p] = left[p]
    <3>1. PICK g \in Seq(Chars), l \in Nat : g = Commands[i] /\ l = Len(g)
      BY <2>3
    <3>2. IsPrefix(left, g)
      BY <1>1, <2>6, <3>1 DEF sl
    <3>3. m <= l /\ SubSeq(left, 1, m) = SubSeq(g, 1, m)
      BY <2>6, <3>1, <3>2 DEF IsPrefix
    <3>4. \A p \in 1 .. m : SubSeq(left, 1, m)[p] = left[p]
      BY <2>6
    <3>5. \A p \in 1 .. m : SubSeq(g, 1, m)[p] = g[p]
      BY <3>1, <3>3
    <3>6. QED
      BY <3>1, <3>3, <3>4, <3>5
  <2>8. m <= z
    BY <2>2, <2>4, <2>5, <2>7
  <2>9. PICK T : T = {p \in m .. z : ~ Agree(p)}
    OBVIOUS
  <2>10. z \in T /\ T \in SUBSET Nat
    <3>1. ~ Agree(z)
      BY <2>4, <2>5 DEF Agree
    <3>2. QED
      BY <2>5, <2>8, <2>9, <3>1
  <2>11. PICK q \in m .. z : q = Min(T) /\ q \in T /\ \A p \in T : q <= p
    BY <2>9, <2>10, LeastNumber
  <2>12. completestr = SubSeq(f, m + 1, q)
    BY <1>4, <2>4, <2>5, <2>9, <2>11, Zenon DEF completestr
  <2>13. ASSUME NEW p \in m .. q - 1, NEW i \in sl, \A j \in sl : Len(Commands[j]) > p
         PROVE  Commands[i][p + 1] = f[p + 1]
    <3>1. Agree(p)
      BY <2>9, <2>11
    <3>2. \A j \in sl : ~ (Len(Commands[j]) <= p)
      BY <2>3, <2>13
    <3>3. QED
      BY <2>4, <3>1, <3>2 DEF Agree
  <2>14. ASSUME NEW o \in m .. q, \A j \in sl : Len(Commands[j]) >= o, NEW i \in sl, NEW p \in 1 .. o
         PROVE  Commands[i][p] = f[p]
    <3>1. CASE p <= m
      <4>1. p \in 1 .. m
        BY <3>1
      <4>2. QED
        BY <2>2, <2>4, <2>7, <4>1
    <3>2. CASE p > m
      <4>1. PICK x \in m .. q - 1 : x = p - 1 /\ x + 1 = p
        BY <3>2
      <4>2. \A j \in sl : Len(Commands[j]) > x
        BY <2>3, <2>14, <4>1
      <4>3. QED
        BY <2>13, <4>1, <4>2
    <3>3. QED
      BY <3>1, <3>2
  <2>15. \A i \in sl : Len(Commands[i]) >= q
    <3> DEFINE Ended == {p \in m .. q - 1 : \E i \in sl : Len(Commands[i]) <= p}
    <3>1. SUFFICES ASSUME Ended # {} PROVE FALSE
      <4>1. SUFFICES ASSUME NEW i \in sl, ~ (Len(Commands[i]) >= q) PROVE FALSE
        OBVIOUS
      <4>2. Len(Commands[i]) \in m .. q - 1
        BY <2>3, <2>7, <4>1
      <4>3. Len(Commands[i]) \in Ended
        BY <4>2
      <4>4. QED
        BY <3>1, <4>3
    <3>2. PICK o \in Ended : \A p \in Ended : o <= p
      <4>1. Ended \in SUBSET Nat
        OBVIOUS
      <4>2. QED
        BY <3>1, <4>1, LeastNumber
    <3>3. PICK i \in sl : Len(Commands[i]) <= o
      OBVIOUS
    <3>4. \A j \in sl : Len(Commands[j]) >= o
      <4>1. SUFFICES ASSUME NEW j \in sl, ~ (Len(Commands[j]) >= o) PROVE FALSE
        OBVIOUS
      <4>2. Len(Commands[j]) \in m .. q - 1 /\ Len(Commands[j]) < o
        BY <2>3, <2>7, <4>1
      <4>3. Len(Commands[j]) \in Ended
        BY <4>2
      <4>4. QED
        BY <3>2, <4>2, <4>3
    <3>5. PICK g \in Seq(Chars) : g = Commands[i] /\ Len(g) = o
      BY <2>3, <3>3, <3>4
    <3>6. o \in m .. q /\ o < z
      OBVIOUS
    <3>7. \A p \in 1 .. o : g[p] = f[p]
      BY <2>14, <3>4, <3>5, <3>6
    <3>8. IsPrefix(g, f)
      <4>1. SubSeq(g, 1, o) \in Seq(Chars) /\ Len(SubSeq(g, 1, o)) = o /\ \A p \in 1 .. o : SubSeq(g, 1, o)[p] = g[p]
        BY <3>5, <3>6
      <4>2. SubSeq(f, 1, o) \in Seq(Chars) /\ Len(SubSeq(f, 1, o)) = o /\ \A p \in 1 .. o : SubSeq(f, 1, o)[p] = f[p]
        BY <2>5, <3>6
      <4>3. SubSeq(g, 1, o) = SubSeq(f, 1, o)
        BY <3>7, <4>1, <4>2, SeqEqual
      <4>4. QED
        BY <2>5, <3>5, <3>6, <4>3 DEF IsPrefix
    <3>9. i = e
      <4>1. i \in DOMAIN Commands /\ e \in DOMAIN Commands
        BY <2>1, <2>2
      <4>2. IsPrefix(Commands[i], Commands[e])
        BY <2>4, <3>5, <3>8
      <4>3. QED
        BY <4>1, <4>2, ConsoleAssumption, Zenon
    <3>10. QED
      BY <2>4, <2>5, <3>5, <3>6, <3>9
  <2>16. PICK x \in Seq(Chars) : x = SubSeq(f, 1, q) /\ Len(x) = q /\ \A p \in 1 .. q : x[p] = f[p]
    <3>1. SubSeq(f, 1, q) \in Seq(Chars) /\ Len(SubSeq(f, 1, q)) = q
      BY <2>5
    <3>2. \A p \in 1 .. q : SubSeq(f, 1, q)[p] = f[p]
      BY <2>5
    <3>3. QED
      BY <3>1, <3>2
  <2>17. ASSUME NEW c \in Editor!Candidates
         PROVE  IsPrefix(x, c)
    <3>1. PICK i \in sl : c = Commands[i]
      BY <1>2
    <3>2. PICK g \in Seq(Chars), l \in Nat : g = c /\ l = Len(g) /\ q <= l /\ \A p \in 1 .. q : g[p] = f[p]
      <4>1. Commands[i] \in Seq(Chars) /\ Len(Commands[i]) >= q
        BY <2>3, <2>15
      <4>2. q \in m .. q
        BY <2>11
      <4>3. \A p \in 1 .. q : Commands[i][p] = f[p]
        BY <2>14, <2>15, <4>2
      <4>4. QED
        BY <3>1, <4>1, <4>3
    <3>3. SubSeq(g, 1, q) \in Seq(Chars) /\ Len(SubSeq(g, 1, q)) = q /\ \A p \in 1 .. q : SubSeq(g, 1, q)[p] = g[p]
      BY <3>2
    <3>4. SubSeq(x, 1, q) \in Seq(Chars) /\ Len(SubSeq(x, 1, q)) = q /\ \A p \in 1 .. q : SubSeq(x, 1, q)[p] = x[p]
      BY <2>16
    <3>5. \A p \in 1 .. q : SubSeq(x, 1, q)[p] = SubSeq(g, 1, q)[p]
      BY <2>16, <3>2, <3>3, <3>4
    <3>6. SubSeq(x, 1, q) = SubSeq(g, 1, q)
      BY <3>3, <3>4, <3>5, SeqEqual
    <3>7. QED
      BY <2>16, <3>2, <3>6 DEF IsPrefix
  <2>18. f \in Editor!Candidates
    BY <1>2, <2>2, <2>4
  <2>19. x \in CommonPrefixes(Editor!Candidates)
    <3>1. x \in Prefixes(f)
      BY <2>5, <2>16 DEF Prefixes
    <3>2. QED
      BY <2>17, <2>18, <3>1 DEF CommonPrefixes
  <2>20. ASSUME NEW y \in CommonPrefixes(Editor!Candidates)
         PROVE  y \in Seq(Chars) /\ Len(y) <= q /\ y = SubSeq(f, 1, Len(y))
    <3>1. PICK c \in Editor!Candidates : y \in Prefixes(c)
      BY DEF CommonPrefixes
    <3>2. c \in Seq(Chars)
      BY <1>2, <2>3
    <3>3. PICK k \in Nat : y = SubSeq(c, 1, k) /\ Len(y) = k /\ y \in Seq(Chars)
      BY SMTT(20), <3>1, <3>2 DEF Prefixes
    <3>4. ASSUME NEW g \in Seq(Chars), IsPrefix(y, g)
          PROVE  k <= Len(g) /\ y = SubSeq(g, 1, k) /\ \A p \in 1 .. k : y[p] = g[p]
      <4>1. k <= Len(g) /\ SubSeq(y, 1, k) = SubSeq(g, 1, k)
        BY <3>3, <3>4 DEF IsPrefix
      <4>2. SubSeq(y, 1, k) = y
        <5>1. SubSeq(y, 1, k) \in Seq(Chars) /\ Len(SubSeq(y, 1, k)) = k /\ \A p \in 1 .. k : SubSeq(y, 1, k)[p] = y[p]
          BY <3>3
        <5>2. QED
          BY <3>3, <5>1, SeqEqual
      <4>3. \A p \in 1 .. k : SubSeq(g, 1, k)[p] = g[p]
        BY <3>3, <4>1
      <4>4. QED
        BY <4>1, <4>2, <4>3
    <3>5. \A d \in Editor!Candidates : IsPrefix(y, d)
      BY DEF CommonPrefixes
    <3>6. k <= z /\ y = SubSeq(f, 1, k) /\ \A p \in 1 .. k : y[p] = f[p]
      BY <2>5, <2>18, <3>4, <3>5
    <3>7. k <= q
      <4>1. SUFFICES ASSUME q < k PROVE FALSE
        BY <3>3
      <4>2. PICK s \in 1 .. k : s = q + 1
        BY <2>8, <4>1
      <4>3. ASSUME NEW i \in sl PROVE Commands[i][s] = f[s]
        <5>1. PICK g \in Seq(Chars) : g = Commands[i]
          BY <2>3
        <5>2. IsPrefix(y, g)
          BY <1>2, <3>5, <5>1
        <5>3. y[s] = g[s]
          BY <3>4, <5>2
        <5>4. QED
          BY <3>6, <5>1, <5>3
      <4>4. Agree(q)
        BY <2>4, <2>5, <3>6, <4>1, <4>2, <4>3 DEF Agree
      <4>5. QED
        BY <2>9, <2>11, <4>4
    <3>8. QED
      BY <3>3, <3>6, <3>7
  <2>21. Editor!LongestCommonPrefix(Editor!Candidates) = x
    <3> DEFINE Longest(l) == l \in CommonPrefixes(Editor!Candidates)
                               /\ \A y \in CommonPrefixes(Editor!Candidates) : Len(y) <= Len(l)
    <3>1. Longest(x)
      BY <2>16, <2>19, <2>20
    <3>2. ASSUME NEW l, Longest(l) PROVE l = x
      <4>1. l \in Seq(Chars) /\ Len(l) <= q /\ l = SubSeq(f, 1, Len(l))
        BY <2>20, <3>2
      <4>2. q <= Len(l)
        BY <2>16, <2>19, <3>2
      <4>3. Len(l) = q
        <5>1. l \in Seq(Chars) /\ Len(l) <= q
          BY <4>1
        <5>2. Len(l) \in Nat /\ q \in Nat
          BY <5>1
        <5>3. QED
          BY <4>2, <5>1, <5>2
      <4>4. QED
        BY <2>16, <4>1, <4>3, Zenon
    <3>3. Editor!LongestCommonPrefix(Editor!Candidates)
            = CHOOSE l \in CommonPrefixes(Editor!Candidates) : \A y \in CommonPrefixes(Editor!Candidates) : Len(y) <= Len(l)
      BY SameOperators
    <3>4. QED
      BY <3>1, <3>2, <3>3
  <2>22. Editor!Completion = SubSeq(x, m + 1, q)
    <3>1. Editor!Candidates # {}
      BY <2>18
    <3>2. Editor!Completion = Editor!From(x, num + 1)
      BY <2>21, <3>1, Zenon DEF Editor!Completion
    <3>3. Editor!From(x, num + 1) = SubSeq(x, num + 1, Len(x))
      BY Zenon DEF Editor!From
    <3>4. QED
      BY <2>5, <2>16, <3>2, <3>3, Zenon
  <2>23. SubSeq(x, m + 1, q) = SubSeq(f, m + 1, q)
    <3>1. PICK o \in Nat \ {0} : o = m + 1 /\ o <= q + 1
      OBVIOUS
    <3>2. q <= Len(x) /\ q <= Len(f) /\ q \in Nat
      BY <2>5, <2>16
    <3>3. PICK u, v : u = SubSeq(x, o, q) /\ v = SubSeq(f, o, q)
      OBVIOUS
    <3>4. /\ u \in Seq(Chars) /\ Len(u) = q - o + 1 /\ \A i \in 1 .. q - o + 1 : u[i] = x[o + i - 1]
          /\ v \in Seq(Chars) /\ Len(v) = q - o + 1 /\ \A i \in 1 .. q - o + 1 : v[i] = f[o + i - 1]
      BY <3>1, <3>2, <3>3, PartOf
    <3>5. ASSUME NEW i \in 1 .. q - o + 1 PROVE u[i] = v[i]
      <4>1. o + i - 1 \in 1 .. q
        BY <3>1, <3>2
      <4>2. QED
        BY <2>16, <3>4, <4>1
    <3>6. u = v
      BY <3>4, <3>5, SeqEqual
    <3>7. QED
      BY <3>1, <3>3, <3>6
  <2>24. QED
    BY <2>12, <2>22, <2>23
<1>5. QED
  BY <1>3, <1>4

(* The ring of the history: hist_add_idx is the place of the line that is  *)
(* edited, those behind it are the lines entered, the oldest first.        *)
Ring(lns, mx, add) == [k \in 1 .. mx |-> lns[(add + k) % (mx + 1)]]
Behind(cur, mx, add) == IF cur < 0 THEN 0 ELSE (add - cur) % (mx + 1)
Wrap(mx, x) == IF x <= mx THEN x ELSE x - (mx + 1)
Place(mx, add, k) == Wrap(mx, add + k)
RingOK == hist_max < HIST_MAX - 1 => hist_add_idx = hist_max

(* Once around, in either direction.                                       *)
LEMMA Around ==
  ASSUME NEW t \in Nat \ {0}, NEW x \in Int, - t <= x, x <= t + t - 1
  PROVE  x % t = IF x < 0 THEN x + t ELSE IF x < t THEN x ELSE x - t
<1>1. PICK q \in Int, r \in 0 .. t - 1 : x = t * q + r /\ r = x % t
  OBVIOUS
<1>2. PICK y \in Int : y = t * q /\ x = y + r
  BY <1>1
<1>3. q >= 2 => y >= t + t
  BY <1>2
<1>4. q <= -2 => y <= - t - t
  BY <1>2
<1>5. q \in {-1, 0, 1}
  BY <1>2, <1>3, <1>4
<1>6. (q = -1 => y = - t) /\ (q = 0 => y = 0) /\ (q = 1 => y = t)
  BY <1>2
<1>7. QED
  BY <1>1, <1>2, <1>5, <1>6

(* The places of the ring.                                                 *)
LEMMA Slots ==
  ASSUME NEW mx \in Nat, NEW add \in 0 .. mx, NEW k \in 0 .. mx + 1
  PROVE  (add + k) % (mx + 1) = IF add + k <= mx THEN add + k ELSE add + k - (mx + 1)
<1>1. PICK t \in Nat \ {0}, x \in Int : t = mx + 1 /\ x = add + k /\ - t <= x /\ x <= t + t - 1 /\ ~ (x < 0)
  <2>1. mx + 1 \in Nat \ {0} /\ add + k \in Int
    OBVIOUS
  <2>2. - (mx + 1) <= add + k /\ add + k <= (mx + 1) + (mx + 1) - 1 /\ ~ (add + k < 0)
    OBVIOUS
  <2>3. QED
    BY <2>1, <2>2
<1>2. x % t = IF x < t THEN x ELSE x - t
  BY <1>1, Around
<1>3. x < t <=> add + k <= mx
  BY <1>1
<1>4. QED
  BY <1>1, <1>2, <1>3

(* How far behind a place is, and what is so far behind.                   *)
LEMMA BehindIt ==
  ASSUME NEW mx \in Nat, NEW add \in 0 .. mx, NEW cur \in 0 .. mx
  PROVE  /\ Behind(cur, mx, add) = IF cur <= add THEN add - cur ELSE add - cur + (mx + 1)
         /\ Behind(cur, mx, add) \in 0 .. mx
         /\ cur # add => (add + (mx - Behind(cur, mx, add) + 1)) % (mx + 1) = cur
<1>1. PICK t \in Nat \ {0}, x \in Int : t = mx + 1 /\ x = add - cur /\ - t <= x /\ x <= t + t - 1 /\ x < t
  <2>1. mx + 1 \in Nat \ {0} /\ add - cur \in Int
    OBVIOUS
  <2>2. - (mx + 1) <= add - cur /\ add - cur <= (mx + 1) + (mx + 1) - 1 /\ add - cur < mx + 1
    OBVIOUS
  <2>3. QED
    BY <2>1, <2>2
<1>2. x % t = IF x < 0 THEN x + t ELSE x
  BY <1>1, Around
<1>3. x < 0 <=> ~ (cur <= add)
  BY <1>1
<1>4. PICK b \in 0 .. mx : b = Behind(cur, mx, add) /\ b = IF cur <= add THEN add - cur ELSE add - cur + (mx + 1)
  <2>1. Behind(cur, mx, add) = x % t
    BY <1>1 DEF Behind
  <2>2. x % t = IF cur <= add THEN add - cur ELSE add - cur + (mx + 1)
    BY <1>1, <1>2, <1>3
  <2>3. (IF cur <= add THEN add - cur ELSE add - cur + (mx + 1)) \in 0 .. mx
    OBVIOUS
  <2>4. QED
    BY <2>1, <2>2, <2>3
<1>5. PICK k \in 0 .. mx + 1 : k = mx - b + 1
  OBVIOUS
<1>6. (add + k) % (mx + 1) = IF add + k <= mx THEN add + k ELSE add + k - (mx + 1)
  BY Slots
<1>7. cur # add => (add + k) % (mx + 1) = cur
  BY <1>4, <1>5, <1>6
<1>8. QED
  BY <1>4, <1>5, <1>7

(* The lines entered, as a sequence.                                       *)
LEMMA RingLines ==
  ASSUME NEW lns \in [0 .. HIST_MAX - 1 -> Seq(Chars)], NEW mx \in 0 .. HIST_MAX - 1, NEW add \in 0 .. mx
  PROVE  /\ Ring(lns, mx, add) \in Seq(Seq(Chars)) /\ Len(Ring(lns, mx, add)) = mx
         /\ \A k \in 1 .. mx : Ring(lns, mx, add)[k] = lns[Place(mx, add, k)]
<1>1. HIST_MAX \in Nat \ {0}
  BY ConsoleAssumption
<1>2. mx \in Nat
  BY <1>1
<1>3. ASSUME NEW k \in 1 .. mx
      PROVE  (add + k) % (mx + 1) = Place(mx, add, k) /\ Place(mx, add, k) \in 0 .. HIST_MAX - 1
  <2>1. k \in 0 .. mx + 1
    BY <1>2
  <2>2. (add + k) % (mx + 1) = IF add + k <= mx THEN add + k ELSE add + k - (mx + 1)
    BY <1>2, <2>1, Slots
  <2>3. (IF add + k <= mx THEN add + k ELSE add + k - (mx + 1)) \in 0 .. HIST_MAX - 1
    BY <1>1, <1>2
  <2>4. QED
    BY <2>2, <2>3 DEF Place, Wrap
<1>4. \A k \in 1 .. mx : lns[Place(mx, add, k)] \in Seq(Chars)
  BY <1>3
<1>5. Ring(lns, mx, add) = [k \in 1 .. mx |-> lns[Place(mx, add, k)]]
  BY <1>3 DEF Ring
<1>6. QED
  BY <1>2, <1>4, <1>5

GoesIn(lns, mx, add, line, lns2, mx2, add2, all) ==
  /\ lns \in [0 .. HIST_MAX - 1 -> Seq(Chars)] /\ mx \in 0 .. HIST_MAX - 1 /\ add \in 0 .. mx
  /\ line \in Seq(Chars) /\ (mx < HIST_MAX - 1 => add = mx)
  /\ lns2 = [lns EXCEPT ![add] = line] /\ add2 = (add + 1) % HIST_MAX
  /\ mx2 = (IF add2 > mx THEN add2 ELSE mx) /\ all = Append(Ring(lns, mx, add), line)

(* A line goes behind the others; when all places are taken, the oldest    *)
(* makes room.                                                             *)
LEMMA RingGrows ==
  ASSUME NEW lns, NEW mx, NEW add, NEW line, NEW lns2, NEW mx2, NEW add2, NEW all,
         GoesIn(lns, mx, add, line, lns2, mx2, add2, all)
  PROVE  /\ Ring(lns2, mx2, add2) = SubSeq(all, Editor!Max({1, Len(all) - (HIST_MAX - 1) + 1}), Len(all))
         /\ mx2 < HIST_MAX - 1 => add2 = mx2
<1> SUFFICES ASSUME lns \in [0 .. HIST_MAX - 1 -> Seq(Chars)], mx \in 0 .. HIST_MAX - 1, add \in 0 .. mx,
                    line \in Seq(Chars), mx < HIST_MAX - 1 => add = mx,
                    lns2 = [lns EXCEPT ![add] = line], add2 = (add + 1) % HIST_MAX,
                      mx2 = IF add2 > mx THEN add2 ELSE mx, all = Append(Ring(lns, mx, add), line)
               PROVE  /\ Ring(lns2, mx2, add2) = SubSeq(all, Editor!Max({1, Len(all) - (HIST_MAX - 1) + 1}), Len(all))
                      /\ mx2 < HIST_MAX - 1 => add2 = mx2
  BY Zenon DEF GoesIn
<1>1. PICK h \in Nat \ {0} : h = HIST_MAX /\ mx \in Nat /\ mx <= h - 1 /\ add \in Nat /\ add <= mx
  <2>1. HIST_MAX \in Nat \ {0}
    BY ConsoleAssumption
  <2>2. QED
    BY <2>1
<1>2. PICK old \in Seq(Seq(Chars)) :
        /\ old = Ring(lns, mx, add) /\ Len(old) = mx
        /\ \A k \in 1 .. mx : old[k] = lns[Place(mx, add, k)]
  BY RingLines
<1>3. PICK al \in Seq(Seq(Chars)) :
        /\ al = all /\ Len(al) = mx + 1 /\ al[mx + 1] = line
        /\ \A k \in 1 .. mx : al[k] = old[k]
  <2>1. Append(old, line) \in Seq(Seq(Chars)) /\ Len(Append(old, line)) = mx + 1
    BY <1>2, AppendProperties
  <2>2. Append(old, line)[mx + 1] = line /\ \A k \in 1 .. mx : Append(old, line)[k] = old[k]
    <3>1. /\ Append(old, line)[Len(old) + 1] = line
          /\ \A k \in 1 .. Len(old) : Append(old, line)[k] = old[k]
      <4>1. old \in Seq(Seq(Chars)) /\ line \in Seq(Chars)
        BY <1>2
      <4>2. QED
        BY <4>1, AppendProperties
    <3>2. QED
      BY <1>2, <3>1, Zenon
  <2>3. all = Append(old, line)
    BY <1>2, Zenon
  <2>4. QED
    BY <2>1, <2>2, <2>3
<1>4. PICK l2 \in [0 .. HIST_MAX - 1 -> Seq(Chars)] :
        /\ l2 = lns2
        /\ \A i \in 0 .. HIST_MAX - 1 : l2[i] = IF i = add THEN line ELSE lns[i]
  <2>1. lns2 \in [0 .. HIST_MAX - 1 -> Seq(Chars)]
    OBVIOUS
  <2>2. \A i \in 0 .. HIST_MAX - 1 : lns2[i] = IF i = add THEN line ELSE lns[i]
    OBVIOUS
  <2>3. QED
    BY <2>1, <2>2, Zenon
<1>5. \A x \in Int, y \in Int : Editor!Max({x, y}) = IF x >= y THEN x ELSE y
  <2>1. SUFFICES ASSUME NEW x \in Int, NEW y \in Int PROVE Editor!Max({x, y}) = IF x >= y THEN x ELSE y
    OBVIOUS
  <2>2. Editor!Max({x, y}) = Max({x, y})
    BY Zenon DEF Max, Editor!Max
  <2>3. QED
    BY <2>2, MaxOfTwo
<1>6. CASE mx < h - 1
  <2>1. add = mx
    BY <1>1, <1>6
  <2>2. add2 = mx + 1
    <3>1. PICK x \in Int : x = add + 1 /\ - h <= x /\ x <= h + h - 1 /\ ~ (x < 0) /\ x < h
      BY <1>1, <1>6, <2>1
    <3>2. x % h = x
      BY <3>1, Around
    <3>3. QED
      BY <1>1, <2>1, <3>1, <3>2
  <2>3. PICK m2 \in 0 .. HIST_MAX - 1 : m2 = mx2 /\ m2 = mx + 1 /\ m2 = add2
    BY <1>1, <1>6, <2>2
  <2>4. PICK a2 \in 0 .. m2 : a2 = add2
    BY <1>1, <2>3
  <2>5. PICK new \in Seq(Seq(Chars)) :
          /\ new = Ring(l2, m2, a2) /\ Len(new) = m2
          /\ \A k \in 1 .. m2 : new[k] = l2[Place(m2, a2, k)]
    BY RingLines
  <2>6. ASSUME NEW k \in 1 .. mx + 1 PROVE new[k] = al[k]
    <3>1. PICK i \in 0 .. HIST_MAX - 1 : i = k - 1 /\ i <= mx /\ k \in 1 .. m2
      BY SMTT(20), <1>1, <1>6, <2>3
    <3>2. Place(m2, a2, k) = i
      BY <1>1, <2>3, <2>4, <3>1 DEF Place, Wrap
    <3>3. new[k] = IF i = add THEN line ELSE lns[i]
      BY <1>4, <2>5, <3>1, <3>2
    <3>4. CASE i = mx
      <4>1. k = mx + 1
        BY <1>1, <3>1, <3>4
      <4>2. QED
        BY <1>3, <2>1, <3>3, <3>4, <4>1
    <3>5. CASE i # mx
      <4>1. k \in 1 .. mx
        BY <1>1, <3>1, <3>5
      <4>2. Place(mx, add, k) = i
        BY <1>1, <2>1, <3>1, <4>1 DEF Place, Wrap
      <4>3. QED
        BY <1>2, <1>3, <2>1, <3>3, <3>5, <4>1, <4>2
    <3>6. QED
      BY <3>4, <3>5
  <2>7. new = al
    <3>1. Len(new) = Len(al) /\ \A k \in 1 .. Len(new) : new[k] = al[k]
      BY <1>3, <2>3, <2>5, <2>6
    <3>2. QED
      BY <3>1, SeqEqual
  <2>8. SubSeq(al, 1, Len(al)) = al
    OBVIOUS
  <2>9. Editor!Max({1, Len(al) - (HIST_MAX - 1) + 1}) = 1
    <3>1. PICK y \in Int : y = Len(al) - (HIST_MAX - 1) + 1 /\ 1 >= y
      BY <1>1, <1>3, <1>6
    <3>2. QED
      BY <1>5, <3>1
  <2>10. Ring(lns2, mx2, add2) = new
    BY <1>4, <2>3, <2>4, <2>5, Zenon
  <2>11. SubSeq(all, Editor!Max({1, Len(all) - (HIST_MAX - 1) + 1}), Len(all)) = al
    BY <1>3, <2>8, <2>9, Zenon
  <2>12. QED
    BY <2>3, <2>7, <2>10, <2>11, Zenon
<1>7. CASE mx = h - 1
  <2>1. PICK a2 \in 0 .. mx : a2 = add2 /\ a2 = IF add = mx THEN 0 ELSE add + 1
    <3>1. PICK x \in Int : x = add + 1 /\ - h <= x /\ x <= h + h - 1 /\ ~ (x < 0)
      BY <1>1, <1>7
    <3>2. x % h = IF x < h THEN x ELSE x - h
      BY <3>1, Around
    <3>3. add2 = x % h
      BY <1>1, <3>1, Zenon
    <3>4. PICK a2 \in 0 .. mx : a2 = IF add = mx THEN 0 ELSE add + 1
      <4>1. (IF add = mx THEN 0 ELSE add + 1) \in 0 .. mx
        BY <1>1
      <4>2. QED
        BY <4>1
    <3>5. (IF x < h THEN x ELSE x - h) = a2
      <4>1. CASE add = mx
        BY <1>1, <1>7, <3>1, <3>4, <4>1
      <4>2. CASE add # mx
        <5>1. x < h /\ a2 = x
          BY <1>1, <1>7, <3>1, <3>4, <4>2
        <5>2. QED
          BY <5>1
      <4>3. QED
        BY <4>1, <4>2
    <3>6. QED
      BY <3>2, <3>3, <3>4, <3>5, Zenon
  <2>2. mx2 = mx
    BY <1>1, <2>1
  <2>3. PICK new \in Seq(Seq(Chars)) :
          /\ new = Ring(l2, mx, a2) /\ Len(new) = mx
          /\ \A k \in 1 .. mx : new[k] = l2[Place(mx, a2, k)]
    BY RingLines
  <2>4. PICK m \in Nat \ {0} : m = 2 /\ m <= (mx + 1) + 1
    BY <1>1
  <2>5. Editor!Max({1, Len(al) - (HIST_MAX - 1) + 1}) = m
    <3>1. PICK y \in Int : y = Len(al) - (HIST_MAX - 1) + 1 /\ y = 2
      BY <1>1, <1>3, <1>7
    <3>2. QED
      BY <1>5, <2>4, <3>1
  <2>6. PICK n \in Nat : n = mx + 1 /\ n = Len(al) /\ m <= n + 1 /\ n - m + 1 = mx
    BY <1>1, <1>3, <2>4
  <2>7. PICK kept \in Seq(Seq(Chars)) :
          /\ kept = SubSeq(al, m, n) /\ Len(kept) = mx
          /\ \A k \in 1 .. mx : kept[k] = al[k + 1]
    <3>1. SubSeq(al, m, n) \in Seq(Seq(Chars)) /\ Len(SubSeq(al, m, n)) = mx
      <4>1. \A i \in m .. n : i \in 1 .. Len(al)
        BY <2>4, <2>6
      <4>2. SubSeq(al, m, n) \in Seq(Seq(Chars))
        BY <2>4, <2>6, <4>1, SubSeqProperties
      <4>3. Len(SubSeq(al, m, n)) = n - m + 1
        BY <2>4, <2>6, <4>1, SubSeqProperties
      <4>4. QED
        BY <2>6, <4>2, <4>3
    <3>2. ASSUME NEW k \in 1 .. mx PROVE SubSeq(al, m, n)[k] = al[k + 1]
      <4>1. k \in 1 .. n - m + 1 /\ m + k - 1 = k + 1
        BY <1>1, <2>4, <2>6
      <4>2. SubSeq(al, m, n)[k] = al[m + k - 1]
        BY <1>1, <2>4, <2>6, <4>1
      <4>3. QED
        BY <4>1, <4>2
    <3>3. QED
      BY <3>1, <3>2
  <2>8. ASSUME NEW k \in 1 .. mx PROVE new[k] = kept[k]
    <3>1. PICK j \in 1 .. mx + 1 : j = k + 1
      BY <1>1
    <3>2. PICK i \in 0 .. HIST_MAX - 1 : i = Place(mx, a2, k)
      <4>1. (IF a2 + k <= mx THEN a2 + k ELSE a2 + k - (mx + 1)) \in 0 .. h - 1
        BY <1>1, <1>7
      <4>2. PICK i \in 0 .. h - 1 : i = IF a2 + k <= mx THEN a2 + k ELSE a2 + k - (mx + 1)
        BY <4>1
      <4>3. i = Place(mx, a2, k)
        <5>1. Place(mx, a2, k) = IF a2 + k <= mx THEN a2 + k ELSE a2 + k - (mx + 1)
          BY DEF Place, Wrap
        <5>2. QED
          BY <4>2, <5>1
      <4>4. QED
        BY <1>1, <4>2, <4>3
    <3>3. new[k] = IF i = add THEN line ELSE lns[i]
      BY <1>4, <2>3, <3>2
    <3>4. kept[k] = al[j]
      BY <2>7, <3>1
    <3>5. CASE k = mx
      <4>1. i = add
        BY SMTT(20), <1>1, <2>1, <3>2, <3>5 DEF Place, Wrap
      <4>2. j = mx + 1
        BY <3>1, <3>5
      <4>3. QED
        BY <1>3, <3>3, <3>4, <4>1, <4>2
    <3>6. CASE k # mx
      <4>1. j \in 1 .. mx
        BY <1>1, <3>1, <3>6
      <4>2. i = Place(mx, add, j) /\ i # add
        <5>1. CASE add = mx
          <6>1. i = k /\ Place(mx, add, j) = k
            <7>1. PICK x \in Nat : x = a2 + k /\ x = k /\ x <= mx
              BY <1>1, <2>1, <3>1, <5>1
            <7>2. PICK y \in Nat : y = add + j /\ ~ (y <= mx) /\ y - (mx + 1) = k
              BY <1>1, <2>1, <3>1, <5>1
            <7>3. i = Wrap(mx, x) /\ Place(mx, add, j) = Wrap(mx, y)
              BY <3>2, <7>1, <7>2, Zenon DEF Place
            <7>4. QED
              BY <7>1, <7>2, <7>3 DEF Wrap
          <6>2. QED
            BY <3>6, <5>1, <6>1
        <5>2. CASE add # mx
          <6>1. PICK x \in Nat : x = a2 + k /\ x = add + j
            BY <1>1, <2>1, <3>1, <5>2
          <6>2. i = Wrap(mx, x) /\ Place(mx, add, j) = Wrap(mx, x)
            BY <3>2, <6>1, Zenon DEF Place
          <6>3. Wrap(mx, x) # add
            <7>1. CASE x <= mx
              BY <4>1, <6>1, <7>1 DEF Wrap
            <7>2. CASE ~ (x <= mx)
              <8>1. x - (mx + 1) # add
                BY <1>1, <4>1, <6>1
              <8>2. QED
                BY <7>2, <8>1 DEF Wrap
            <7>3. QED
              BY <7>1, <7>2
          <6>4. QED
            BY <6>2, <6>3
        <5>3. QED
          BY <5>1, <5>2
      <4>3. QED
        BY <1>2, <1>3, <3>3, <3>4, <4>1, <4>2
    <3>7. QED
      BY <3>5, <3>6
  <2>9. new = kept
    <3>1. Len(new) = Len(kept) /\ \A k \in 1 .. Len(new) : new[k] = kept[k]
      BY <2>3, <2>7, <2>8
    <3>2. QED
      BY <3>1, SeqEqual
  <2>10. Ring(lns2, mx2, add2) = new
    BY <1>4, <2>1, <2>2, <2>3, Zenon
  <2>11. SubSeq(all, Editor!Max({1, Len(all) - (HIST_MAX - 1) + 1}), Len(all)) = kept
    BY <1>3, <2>5, <2>6, <2>7, Zenon
  <2>12. ~ (mx2 < HIST_MAX - 1)
    BY <1>1, <1>7, <2>2
  <2>13. QED
    BY <2>9, <2>10, <2>11, <2>12, Zenon
<1>8. mx < h - 1 \/ mx = h - 1
  BY <1>1
<1>9. QED
  BY <1>6, <1>7, <1>8, Zenon

EditorInv == ConsoleInv /\ RingOK
entered == Ring(hist_lines, hist_max, hist_add_idx)
back == Behind(hist_cur, hist_max, hist_add_idx)

(* The line that is so far back.                                           *)
LEMMA LineBehind ==
  ASSUME NEW lns \in [0 .. HIST_MAX - 1 -> Seq(Chars)], NEW mx \in 0 .. HIST_MAX - 1, NEW add \in 0 .. mx,
         NEW cur \in 0 .. mx, cur # add, NEW b, b = Behind(cur, mx, add)
  PROVE  b \in 1 .. mx /\ Ring(lns, mx, add)[mx - b + 1] = lns[cur]
<1>1. mx \in Nat
  BY ConsoleAssumption
<1>2. /\ b = (IF cur <= add THEN add - cur ELSE add - cur + (mx + 1)) /\ b \in 0 .. mx
      /\ (add + (mx - b + 1)) % (mx + 1) = cur
  BY <1>1, BehindIt
<1>3. b \in 1 .. mx
  BY <1>1, <1>2
<1>4. PICK k \in 1 .. mx : k = mx - b + 1
  <2>1. mx - b + 1 \in 1 .. mx
    BY <1>1, <1>3
  <2>2. QED
    BY <2>1
<1>5. Ring(lns, mx, add)[k] = lns[(add + k) % (mx + 1)]
  BY DEF Ring
<1>6. QED
  BY <1>2, <1>3, <1>4, <1>5, Zenon

(* Return enters the line, and the user is at a new one.                   *)
LEMMA ReturnEnters ==
  ASSUME EditorInv, Return
  PROVE  Editor!Enter /\ RingOK'
<1>1. /\ buf \in Seq(Chars) /\ hist_lines \in [0 .. HIST_MAX - 1 -> Seq(Chars)]
      /\ hist_max \in 0 .. HIST_MAX - 1 /\ hist_add_idx \in 0 .. hist_max
      /\ hist_max < HIST_MAX - 1 => hist_add_idx = hist_max
  BY DEF EditorInv, ConsoleInv, HistoryOK, LineOK, RingOK
<1>2. buf' = << >> /\ num' = 0 /\ insert' = TRUE /\ hist_cur' = hist_add_idx'
  BY DEF Return, EndOfLine
<1>3. PICK l2, mx2, add2 : l2 = hist_lines' /\ mx2 = hist_max' /\ add2 = hist_add_idx'
  OBVIOUS
<1>4. Behind(add2, mx2, add2) = 0
  <2>1. ConsoleInv'
    BY ReturnShows DEF EditorInv
  <2>2. mx2 \in Nat /\ add2 \in 0 .. mx2
    BY <1>3, <2>1, ConsoleAssumption DEF ConsoleInv, HistoryOK
  <2>3. PICK a \in 0 .. mx2 : a = add2
    BY <2>2
  <2>4. Behind(a, mx2, a) = IF a <= a THEN a - a ELSE a - a + (mx2 + 1)
    BY <2>2, BehindIt
  <2>5. a <= a /\ a - a = 0
    BY <2>2
  <2>6. QED
    BY <2>3, <2>4, <2>5, Zenon
<1>5. PICK all : all = Append(entered, buf)
  OBVIOUS
<1>6. CASE buf # << >> /\ Head(buf) # CREAD_HIST_CHAR
  <2>1. /\ l2 = [hist_lines EXCEPT ![hist_add_idx] = buf] /\ add2 = (hist_add_idx + 1) % HIST_MAX
        /\ mx2 = IF add2 > hist_max THEN add2 ELSE hist_max
    BY <1>3, <1>6 DEF Return, cread_add_to_hist, Newest
  <2>2. /\ Ring(l2, mx2, add2) = SubSeq(all, Editor!Max({1, Len(all) - (HIST_MAX - 1) + 1}), Len(all))
        /\ mx2 < HIST_MAX - 1 => add2 = mx2
    <3>1. GoesIn(hist_lines, hist_max, hist_add_idx, buf, l2, mx2, add2, all)
      BY <1>1, <1>5, <2>1, Zenon DEF GoesIn, entered
    <3>2. QED
      BY <3>1, RingGrows
  <2>3. QED
    BY <1>2, <1>3, <1>4, <1>5, <1>6, <2>2, Zenon DEF Editor!Enter, Editor!From, entered, Ring, Behind, RingOK
<1>7. CASE ~ (buf # << >> /\ Head(buf) # CREAD_HIST_CHAR)
  <2>1. l2 = hist_lines /\ mx2 = hist_max /\ add2 = hist_add_idx
    BY <1>3, <1>7 DEF Return
  <2>2. Ring(l2, mx2, add2) = entered
    BY <2>1, Zenon DEF entered
  <2>3. QED
    BY <1>1, <1>2, <1>3, <1>4, <1>7, <2>1, <2>2, Zenon DEF Editor!Enter, entered, Ring, Behind, RingOK
<1>8. QED
  BY <1>6, <1>7

(* Up goes one line back, down one forward, to a new line in the end.      *)
LEMMA UpOrDownRecalls ==
  ASSUME EditorInv, UpOrDown
  PROVE  \E b \in {back - 1, back + 1} : Editor!Recall(b)
<1>0. /\ hist_max \in Nat /\ hist_max \in 0 .. HIST_MAX - 1 /\ hist_add_idx \in 0 .. hist_max
      /\ hist_cur \in -1 .. hist_max /\ hist_lines \in [0 .. HIST_MAX - 1 -> Seq(Chars)]
  BY ConsoleAssumption DEF EditorInv, ConsoleInv, HistoryOK
<1>m. PICK mx \in Nat : mx = hist_max /\ mx \in 0 .. HIST_MAX - 1
  BY <1>0
<1>1. PICK add \in 0 .. mx, at \in -1 .. mx, lns \in [0 .. HIST_MAX - 1 -> Seq(Chars)] :
        mx = hist_max /\ add = hist_add_idx /\ at = hist_cur /\ lns = hist_lines
  BY <1>0, <1>m
<1>2. hist_lines' = hist_lines /\ hist_max' = hist_max /\ hist_add_idx' = hist_add_idx
  BY DEF UpOrDown
<1>3. Ring(lns, mx, add) = entered /\ Len(entered) = mx
  BY <1>1, <1>m, RingLines DEF entered
<1>4. PICK cur \in 0 .. mx : cur = at
  <2>1. hist_cur >= 0
    BY DEF UpOrDown, hist_prev, hist_next
  <2>2. QED
    BY <1>1, <2>1
<1>5. PICK b0 \in 0 .. mx : b0 = back /\ b0 = IF cur <= add THEN add - cur ELSE add - cur + (mx + 1)
  <2>1. /\ Behind(cur, mx, add) = IF cur <= add THEN add - cur ELSE add - cur + (mx + 1)
        /\ Behind(cur, mx, add) \in 0 .. mx
    BY BehindIt
  <2>2. Behind(cur, mx, add) = back
    BY <1>1, <1>4, Zenon DEF back
  <2>3. QED
    BY <2>1, <2>2
<1>6. ASSUME NEW cur2 \in 0 .. mx, cur2 = hist_cur', NEW b \in 0 .. mx, b = Behind(cur2, mx, add),
             b \in {b0 - 1, b0 + 1},
             buf' = (IF cur2 = add THEN << >> ELSE lns[cur2]), num' = Len(buf')
      PROVE  b \in {back - 1, back + 1} /\ Editor!Recall(b)
  <2>1. b = 0 <=> cur2 = add
    <3>1. b = IF cur2 <= add THEN add - cur2 ELSE add - cur2 + (mx + 1)
      BY <1>6, BehindIt
    <3>2. QED
      BY <3>1
  <2>2. buf' = IF b = 0 THEN << >> ELSE entered[Len(entered) - b + 1]
    <3>1. CASE cur2 = add
      BY <1>6, <2>1, <3>1
    <3>2. CASE cur2 # add
      <4>1. Ring(lns, mx, add)[mx - b + 1] = lns[cur2]
        <5>1. PICK c \in 0 .. mx : c = cur2 /\ c # add
          BY <3>2
        <5>2. PICK m \in 0 .. HIST_MAX - 1 : m = mx
          BY <1>m
        <5>3. b = Behind(c, mx, add)
          BY <1>6, <5>1, Zenon
        <5>4. Ring(lns, m, add)[m - b + 1] = lns[c]
          <6>1. PICK a \in 0 .. m : a = add
            BY <5>2
          <6>2. PICK e \in 0 .. m : e = c
            BY <5>2
          <6>3. b = Behind(e, m, a) /\ e # a
            BY <5>1, <5>2, <5>3, <6>1, <6>2, Zenon
          <6>4. Ring(lns, m, a)[m - b + 1] = lns[e]
            BY <6>3, LineBehind, Zenon
          <6>5. QED
            BY <6>1, <6>2, <6>4, Zenon
        <5>5. QED
          BY <5>1, <5>2, <5>4, Zenon
      <4>2. QED
        BY <1>3, <1>6, <2>1, <3>2, <4>1, Zenon
    <3>3. QED
      BY <3>1, <3>2
  <2>3. Behind(hist_cur', hist_max', hist_add_idx') = b
    BY <1>1, <1>2, <1>6, Zenon
  <2>4. b \in 0 .. Len(entered) /\ b \in {back - 1, back + 1}
    BY <1>3, <1>5, <1>6, Zenon
  <2>5. QED
    BY <1>6, <2>2, <2>3, <2>4, Zenon DEF Editor!Recall, entered, back, Ring, Behind
<1>7. CASE hist_prev
  <2>1. hist_cur' = Previous(hist_cur) /\ Previous(hist_cur) # hist_add_idx /\ ShowRecalled(hist_lines[hist_cur'])
    BY <1>7 DEF hist_prev
  <2>2. PICK cur2 \in 0 .. mx : cur2 = hist_cur' /\ cur2 # add /\ cur2 = IF cur - 1 < 0 THEN mx ELSE cur - 1
    <3>1. (IF cur - 1 < 0 THEN mx ELSE cur - 1) \in 0 .. mx
      OBVIOUS
    <3>2. Previous(hist_cur) = IF cur - 1 < 0 THEN mx ELSE cur - 1
      BY <1>1, <1>4, Zenon DEF Previous
    <3>3. QED
      BY <1>1, <2>1, <3>1, <3>2, Zenon
  <2>3. PICK b \in 0 .. mx : b = Behind(cur2, mx, add) /\ b = IF cur2 <= add THEN add - cur2 ELSE add - cur2 + (mx + 1)
    <3>1. /\ Behind(cur2, mx, add) = IF cur2 <= add THEN add - cur2 ELSE add - cur2 + (mx + 1)
          /\ Behind(cur2, mx, add) \in 0 .. mx
      BY BehindIt
    <3>2. QED
      BY <3>1
  <2>4. b = b0 + 1
    BY <1>5, <2>2, <2>3
  <2>5. buf' = lns[cur2] /\ num' = Len(buf')
    BY <1>1, <2>1, <2>2, Zenon DEF ShowRecalled
  <2>6. b \in {back - 1, back + 1} /\ Editor!Recall(b)
    BY <1>6, <2>2, <2>3, <2>4, <2>5
  <2>7. QED
    BY <2>6
<1>8. CASE hist_next
  <2>1. /\ hist_cur' = Following(hist_cur) /\ hist_cur # hist_add_idx
        /\ ShowRecalled(IF hist_cur' = hist_add_idx THEN << >> ELSE hist_lines[hist_cur'])
    BY <1>8 DEF hist_next
  <2>2. PICK cur2 \in 0 .. mx : cur2 = hist_cur' /\ cur2 = IF cur + 1 > mx THEN 0 ELSE cur + 1
    <3>1. (IF cur + 1 > mx THEN 0 ELSE cur + 1) \in 0 .. mx
      OBVIOUS
    <3>2. Following(hist_cur) = IF cur + 1 > mx THEN 0 ELSE cur + 1
      BY <1>1, <1>4, Zenon DEF Following
    <3>3. QED
      BY <1>1, <2>1, <3>1, <3>2, Zenon
  <2>3. PICK b \in 0 .. mx : b = Behind(cur2, mx, add) /\ b = IF cur2 <= add THEN add - cur2 ELSE add - cur2 + (mx + 1)
    <3>1. /\ Behind(cur2, mx, add) = IF cur2 <= add THEN add - cur2 ELSE add - cur2 + (mx + 1)
          /\ Behind(cur2, mx, add) \in 0 .. mx
      BY BehindIt
    <3>2. QED
      BY <3>1
  <2>4. b = b0 - 1
    <3>1. cur # add
      BY <1>1, <1>4, <2>1
    <3>2. QED
      BY <1>5, <2>2, <2>3, <3>1
  <2>5. buf' = (IF cur2 = add THEN << >> ELSE lns[cur2]) /\ num' = Len(buf')
    BY <1>1, <2>1, <2>2, Zenon DEF ShowRecalled
  <2>6. b \in {back - 1, back + 1} /\ Editor!Recall(b)
    BY <1>6, <2>2, <2>3, <2>4, <2>5
  <2>7. QED
    BY <2>6
<1>9. QED
  BY <1>7, <1>8 DEF UpOrDown

(* The history is as it was where the indices and the lines are.           *)
LEMMA SameHistory ==
  ASSUME UNCHANGED histVars
  PROVE  /\ Ring(hist_lines', hist_max', hist_add_idx') = Ring(hist_lines, hist_max, hist_add_idx)
         /\ Behind(hist_cur', hist_max', hist_add_idx') = Behind(hist_cur, hist_max, hist_add_idx)
         /\ RingOK => RingOK'
<1>1. /\ hist_lines' = hist_lines /\ hist_max' = hist_max /\ hist_add_idx' = hist_add_idx
      /\ hist_cur' = hist_cur
  BY DEF histVars
<1>2. QED
  BY <1>1, Zenon DEF RingOK

(* An edit that leaves the mode and the history is one of the editor.      *)
LEMMA EditIsNext ==
  ASSUME RingOK, Editor!Edit, insert' = insert, UNCHANGED histVars
  PROVE  Editor!EditorNext /\ RingOK'
BY SameHistory, Zenon DEF Editor!EditorNext, Ring, Behind

(* Every key is a step of the abstract editor.                             *)
LEMMA KeyEdits ==
  ASSUME EditorInv, [readline]_consoleVars
  PROVE  [Editor!EditorNext]_(Editor!editorVars) /\ RingOK'
<1>1. ConsoleInv /\ RingOK /\ LineOK /\ ShowsTheLine
  BY DEF EditorInv, ConsoleInv
<1>2. Now = Screen(buf, num)
  BY <1>1, NowShown
<1>3. CASE Typed
  <2>1. PICK c \in Chars : cread_add_char(Screen(buf, num), <<c>>)
    BY <1>2, <1>3 DEF Typed
  <2>2. <<c>> \in Seq(Chars)
    OBVIOUS
  <2>3. Editor!Put(<<c>>)
    BY <1>1, <2>1, <2>2, AddPuts
  <2>4. Editor!Edit
    BY <2>3, Zenon DEF Editor!Edit
  <2>5. insert' = insert /\ UNCHANGED histVars
    BY <1>3 DEF Typed
  <2>6. QED
    BY <1>1, <2>4, <2>5, EditIsNext
<1>4. CASE Edited
  <2>1. Editor!Edit
    BY <1>1, <1>4, EditedEdits
  <2>2. insert' = insert /\ UNCHANGED histVars
    BY <1>4 DEF Edited
  <2>3. QED
    BY <1>1, <2>1, <2>2, EditIsNext
<1>5. CASE KEY_INSERT
  <2>1. insert' = ~ insert /\ buf' = buf /\ num' = num /\ UNCHANGED histVars
    BY <1>5, Zenon DEF KEY_INSERT
  <2>2. QED
    BY <1>1, <2>1, SameHistory, Zenon DEF Editor!EditorNext, Ring, Behind
<1>6. CASE complete
  <2>1. cread_add_char(Screen(buf, num), completestr)
    BY <1>1, <1>6, CompleteAdds
  <2>2. Editor!Put(Editor!Completion)
    BY <1>1, <2>1, AddPuts, CompletionAgrees, CompletionIsText
  <2>3. Editor!Edit
    BY <2>2, Zenon DEF Editor!Edit
  <2>4. insert' = insert /\ UNCHANGED histVars
    BY <1>6 DEF complete
  <2>5. QED
    BY <1>1, <2>3, <2>4, EditIsNext
<1>7. CASE UpOrDown
  <2>1. \E b \in {back - 1, back + 1} : Editor!Recall(b)
    BY <1>7, UpOrDownRecalls
  <2>2. /\ insert' = insert /\ hist_lines' = hist_lines /\ hist_max' = hist_max
        /\ hist_add_idx' = hist_add_idx
    BY <1>7 DEF UpOrDown
  <2>3. Ring(hist_lines', hist_max', hist_add_idx') = Ring(hist_lines, hist_max, hist_add_idx) /\ RingOK'
    BY <1>1, <2>2, Zenon DEF RingOK
  <2>4. QED
    BY <2>1, <2>2, <2>3, Zenon DEF Editor!EditorNext, Ring, Behind, back
<1>8. CASE Return
  <2>1. Editor!Enter /\ RingOK'
    BY <1>8, ReturnEnters
  <2>2. QED
    BY <2>1, Zenon DEF Editor!EditorNext
<1>9. CASE Break
  <2>1. buf' = << >> /\ num' = 0 /\ insert' = TRUE /\ UNCHANGED histVars
    BY <1>9 DEF Break, EndOfLine
  <2>2. Editor!Break
    BY <2>1, SameHistory, Zenon DEF Editor!Break, Ring, Behind
  <2>3. QED
    BY <1>1, <2>1, <2>2, SameHistory, Zenon DEF Editor!EditorNext
<1>10. CASE UNCHANGED consoleVars
  <2>1. buf' = buf /\ num' = num /\ insert' = insert /\ UNCHANGED histVars
    BY <1>10 DEF consoleVars
  <2>2. QED
    BY <1>1, <2>1, SameHistory, Zenon DEF Editor!editorVars, Ring, Behind
<1>11. QED
  BY <1>3, <1>4, <1>5, <1>6, <1>7, <1>8, <1>9, <1>10 DEF readline

(* The first prompt is that of the editor.                                 *)
LEMMA FirstPrompt ==
  ConsoleInit => Editor!EditorInit /\ RingOK
<1>1. SUFFICES ASSUME ConsoleInit PROVE Editor!EditorInit /\ RingOK
  OBVIOUS
<1>2. /\ buf = << >> /\ num = 0 /\ insert = TRUE /\ hist_max = 0 /\ hist_add_idx = 0 /\ hist_cur = -1
  BY <1>1 DEF ConsoleInit, hist_init
<1>3. Ring(hist_lines, hist_max, hist_add_idx) = << >>
  BY <1>2 DEF Ring
<1>4. Behind(hist_cur, hist_max, hist_add_idx) = 0 /\ RingOK
  BY <1>2 DEF Behind, RingOK
<1>5. QED
  BY <1>2, <1>3, <1>4, Zenon DEF Editor!EditorInit, Ring, Behind

(* With the ring of the history taken as the list of the lines entered,    *)
(* and its index as a place in that list, the console does what the        *)
(* abstract editor does, key by key.                                       *)
THEOREM ConsoleEdits == BiosSpec => EditsTheLine
<1>1. BiosInit => EditorInv /\ Editor!EditorInit
  BY ConsoleInBios, ConsoleStarts, FirstPrompt DEF EditorInv
<1>2. EditorInv /\ [BiosNext]_biosVars => EditorInv' /\ [Editor!EditorNext]_(Editor!editorVars)
  <2>1. SUFFICES ASSUME EditorInv, [BiosNext]_biosVars
                 PROVE  EditorInv' /\ [Editor!EditorNext]_(Editor!editorVars)
    OBVIOUS
  <2>2. [readline]_consoleVars
    BY <2>1, ConsoleInBios
  <2>3. ConsoleInv'
    BY <2>1, <2>2, ConsoleStep DEF EditorInv
  <2>4. RingOK' /\ [Editor!EditorNext]_(Editor!editorVars)
    BY <2>1, <2>2, KeyEdits
  <2>5. QED
    BY <2>3, <2>4 DEF EditorInv
<1>3. QED
  BY <1>1, <1>2, PTL DEF BiosSpec, EditsTheLine, Editor!EditorSpec

=============================================================================
