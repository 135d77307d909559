------------------------------- MODULE Sdram -------------------------------
(***************************************************************************)
(* Training the SDRAM: sdram_leveling of liblitedram/sdram.c, with write   *)
(* leveling, the calibration of the write latency and read leveling.  A    *)
(* step is one pass over all the modules, which do not affect each other.  *)
(*                                                                         *)
(* What the code scans is the phase of each module against the clock, and  *)
(* the read delays at which it answers (its eye).  A delay works or not:   *)
(* how wrong the others are, by which the code breaks ties, is left out.   *)
(***************************************************************************)
EXTENDS Integers, SequencesExt

CONSTANTS
  SDRAM_PHY_MODULES, SDRAM_PHY_DELAYS, SDRAM_PHY_BITSLIPS,
  TckTaps,          \* taps in a clock, _sdram_tck_taps
  Phys              \* the memories: skew, write latency and eyes of each module

Modules  == 0 .. SDRAM_PHY_MODULES - 1
Delays   == 0 .. SDRAM_PHY_DELAYS - 1
Bitslips == 0 .. SDRAM_PHY_BITSLIPS - 1

ASSUME SdramAssumption ==
  /\ {SDRAM_PHY_MODULES, SDRAM_PHY_DELAYS, SDRAM_PHY_BITSLIPS} \subseteq Nat \ {0}
  /\ TckTaps \in Nat \ {0} /\ TckTaps % 4 = 0 /\ SDRAM_PHY_DELAYS > TckTaps \div 4
  /\ Phys \subseteq [skew : [Modules -> 0 .. TckTaps - 1], latency : [Modules -> Bitslips],
                     eye : [Modules -> [Bitslips -> SUBSET Delays]]]

VARIABLES
  phy,
  training,         \* "command", "data", "latency", "read", "trained"
  range,            \* of the command delays: start, end, step, and the next one
  best,             \* best_cdly, best_error, best_count
  wdelay, wbitslip, rbitslip, rdelay    \* the registers of the modules; -1: not found

trainingVars == <<phy, training, range, best, wdelay, wbitslip, rbitslip, rdelay>>

None == [m \in Modules |-> -1]
Least(s, none) == IF s = {} THEN none ELSE Min(s)

SdramInit ==
  /\ phy \in Phys /\ training = "command"
  /\ range = [start |-> 0, end |-> TckTaps \div 2, next |-> 0,
              step |-> IF SDRAM_PHY_DELAYS > 32 THEN SDRAM_PHY_DELAYS \div 8 ELSE 1]
  /\ best = [cdly |-> -1, error |-> SDRAM_PHY_DELAYS, count |-> 0]     \* for ~0u
  /\ wdelay = None /\ wbitslip = [m \in Modules |-> 0]
  /\ rbitslip = [m \in Modules |-> 0] /\ rdelay = [m \in Modules |-> 0]

-----------------------------------------------------------------------------
(* Write leveling.  The memory samples the clock with its strobe: a tap    *)
(* reads 1 in the half of the clock that follows its rising edge.          *)
Phase(m, cdly, tap) == (tap - phy.skew[m] - cdly) % TckTaps
Scanned == 0 .. SDRAM_PHY_DELAYS - (TckTaps \div 4) - 1
Ones(m, cdly) == {j \in Scanned : 2 * Phase(m, cdly, j) < TckTaps}

(* The longest window of ones, the first of several; the last tap only     *)
(* ends one.                                                               *)
Starts(ones) == {j \in ones \ {Max(Scanned)} : j - 1 \notin ones}
Count(ones, s) == Least({j \in Scanned \ ones : j > s}, Max(Scanned)) - s
scan_fault(m, cdly) ==                 \* takes the end of the window
  LET ones == Ones(m, cdly)
      longest == {s \in Starts(ones) : \A o \in Starts(ones) : Count(ones, o) <= Count(ones, s)}
      s == Least(longest, -1)
  IN IF longest # {} /\ Count(ones, s) > (IF s = 0 THEN TckTaps \div 4 ELSE 0) THEN s + Count(ones, s) ELSE -1
scan(m, cdly) ==
  LET ones == Ones(m, cdly)
      longest == {s \in Starts(ones) : \A o \in Starts(ones) : Count(ones, o) <= Count(ones, s)}
      s == Least(longest, -1)
  IN IF longest # {} /\ Count(ones, s) > (IF s = 0 THEN TckTaps \div 4 ELSE 0) THEN s ELSE -1
sdram_write_leveling_scan(cdly) == [m \in Modules |-> scan(m, cdly)]

(* The search for the command delay: each one of range, then one around    *)
(* the best.                                                               *)
Abs(n) == IF n < 0 THEN - n ELSE n
Better(b, cdly) ==
  LET delays == sdram_write_leveling_scan(cdly)
      found == {m \in Modules : delays[m] # -1}
      mean == IF found = {} THEN 0
              ELSE MapThenSumSet(LAMBDA m : delays[m] + TckTaps \div 4, found) \div Cardinality(found)
      error == Abs((SDRAM_PHY_DELAYS - TckTaps \div 4) \div 2 - mean)
  IN IF Cardinality(found) >= b.count /\ error < b.error
     THEN [cdly |-> cdly, error |-> error, count |-> Cardinality(found)] ELSE b
TryDelay ==
  /\ range.next < range.end
  /\ best' = Better(best, range.next) /\ range' = [range EXCEPT !.next = @ + range.step]
  /\ UNCHANGED training
NarrowRange ==
  /\ range.next >= range.end /\ UNCHANGED best
  /\ LET step == range.step \div 4
         start == Max({0, best.cdly - range.step})
     IN IF best.error = 0 \/ step = 0 THEN training' = "data" /\ UNCHANGED range
        ELSE /\ range' = [start |-> start, end |-> Min({512, best.cdly + range.step + 1}),
                          next |-> start, step |-> step]
             /\ UNCHANGED training
find_cmd_delay ==
  /\ training = "command" /\ (TryDelay \/ NarrowRange)
  /\ UNCHANGED <<phy, wdelay, wbitslip, rbitslip, rdelay>>

(* The last scan leaves its delays in the modules.  That some may have     *)
(* none is not noticed before the memory test.                             *)
write_leveling ==
  /\ training = "data" /\ training' = "latency"
  /\ wdelay' = sdram_write_leveling_scan(best.cdly)
  /\ UNCHANGED <<phy, range, best, wbitslip, rbitslip, rdelay>>

-----------------------------------------------------------------------------
(* sdram_write_read_check_test_pattern finds no errors.                    *)
Works(m, wb, rb, delay) == wdelay[m] # -1 /\ wb = phy.latency[m] /\ delay \in phy.eye[m][rb]
scan_module(m, wb, rb) == Cardinality({d \in Delays : Works(m, wb, rb, d)})
BestOf(s, score(_)) == {b \in s : \A c \in s : score(c) <= score(b)}

calibrate(m) ==
  LET score(wb) == Max({scan_module(m, wb, rb) : rb \in Bitslips})
  IN BestOf({b \in Bitslips : b % 2 = 0}, score)
sdram_write_latency_calibration ==
  /\ training = "latency" /\ training' = "read"
  /\ wbitslip' \in [Modules -> Bitslips] /\ \A m \in Modules : wbitslip'[m] \in calibrate(m)
  /\ UNCHANGED <<phy, range, best, wdelay, rbitslip, rdelay>>

(* sdram_leveling_center_module: from the first delay that works, a jump   *)
(* further, to the next that does not.  The delay of the hardware wraps    *)
(* around; with no delay that works it stays where the scan has left it.   *)
Jump == IF SDRAM_PHY_DELAYS > 32 THEN 16 ELSE IF SDRAM_PHY_DELAYS > 8 THEN 4 ELSE 1
center_fault(working) ==               \* counts the end of the window from its start
  LET min == Least(working, SDRAM_PHY_DELAYS)
      max == Least({d \in Delays \ working : d > min}, SDRAM_PHY_DELAYS)
  IN IF working = {} THEN 0 ELSE (min + (max - min)) % SDRAM_PHY_DELAYS
center(working) ==
  LET tap(d) == d % SDRAM_PHY_DELAYS
      min == Least(working, SDRAM_PHY_DELAYS)
      from == min + Jump
      last == Max({from, SDRAM_PHY_DELAYS - 1})
      max == Least({d \in from .. last : tap(d) \notin working}, last + 1)
  IN IF working = {} THEN tap(SDRAM_PHY_DELAYS - 1 + Jump) ELSE tap((min + max) \div 2)

read_level(m) == BestOf(Bitslips, LAMBDA rb : scan_module(m, wbitslip[m], rb))
sdram_read_leveling ==
  /\ training = "read" /\ training' = "trained"
  /\ rbitslip' \in [Modules -> Bitslips] /\ \A m \in Modules : rbitslip'[m] \in read_level(m)
  /\ rdelay' = [m \in Modules |->
       center({d \in Delays : Works(m, wbitslip[m], rbitslip'[m], d)})]
  /\ UNCHANGED <<phy, range, best, wdelay, wbitslip>>

sdram_leveling ==
  find_cmd_delay \/ write_leveling \/ sdram_write_latency_calibration \/ sdram_read_leveling

-----------------------------------------------------------------------------
(* A write delay puts the edge of the strobe within a quarter of a clock   *)
(* after that of the clock, whether the window of ones begins inside the   *)
(* scan or before it.                                                      *)
StrobesAreAligned ==
  \A m \in Modules : wdelay[m] # -1 => 4 * Phase(m, best.cdly, wdelay[m]) < TckTaps

(* A module that can be trained is: if its write delay was found, its      *)
(* latency is one of those that are tried and its eyes are single windows, *)
(* the widest of them wider than half the jump, it works in the end.       *)
Window(s) == \A d \in Min(s) .. Max(s) : d \in s
Trainable(m) ==
  /\ wdelay[m] # -1 /\ phy.latency[m] % 2 = 0
  /\ \A b \in Bitslips : phy.eye[m][b] # {} => Window(phy.eye[m][b])
  /\ \E b \in Bitslips : 2 * Cardinality(phy.eye[m][b]) > Jump
TrainedModulesWork ==
  training = "trained" =>
    \A m \in Modules : Trainable(m) => Works(m, wbitslip[m], rbitslip[m], rdelay[m])

(* "We want the higher number of valid modules and delay to be centered":  *)
(* no command delay that was tried gives more modules a write delay than   *)
(* the one that is chosen.                                                 *)
Candidates == {c \in range.start .. range.end - 1 : (c - range.start) % range.step = 0}
MostModulesAreValid ==
  training = "data" /\ range.step = 1 =>
    \A c \in Candidates :
      Cardinality({m \in Modules : scan(m, c) # -1}) <= best.count
=============================================================================
