------------------------------ MODULE BiosMain ------------------------------
(***************************************************************************)
(* main of bios/main.c on a SoC with SDRAM: sdram_init trains the memory   *)
(* and tests it, the boot sequence is tried only on a memory that has      *)
(* passed, and the console comes up when nothing was booted.  How the boot *)
(* sequence goes is in BootSequence; here it finds a program or does not.  *)
(***************************************************************************)
EXTENDS Sdram, Memtest, Console

CONSTANT ModuleBits(_)      \* the bits of a word that a module holds

ASSUME BiosAssumption == \A m \in Modules : ModuleBits(m) \subseteq Bits

VARIABLES
  stage,            \* "train", "trained", "test", "boot", "booted", "console"
  sdr_ok,
  sound             \* history: the memory is as good as the test can tell

mainVars == <<stage, sdr_ok, sound>>
biosVars == <<trainingVars, memtestVars, consoleVars, mainVars>>

BiosInit ==
  /\ SdramInit /\ MemtestInit({}) /\ ConsoleInit
  /\ stage = "train" /\ sdr_ok = 1 /\ sound = TRUE

-----------------------------------------------------------------------------
(* The registers of the training are not looked at any more: what counts   *)
(* is which bits belong to modules that work.                              *)
Working == {m \in Modules : Works(m, wbitslip[m], rbitslip[m], rdelay[m])}
sdram_leveling_returns ==
  /\ stage = "train" /\ training = "trained" /\ stage' = "trained"
  /\ memory' = UNION {ModuleBits(m) : m \in Modules \ Working}
  /\ phy' = CHOOSE p \in Phys : TRUE
  /\ training' = "command" /\ range' = << >> /\ best' = << >>
  /\ wdelay' = None /\ wbitslip' = None /\ rbitslip' = None /\ rdelay' = None
  /\ UNCHANGED <<cache, pass, errors, consoleVars, sdr_ok, sound>>

(* A module that does not work reads as the same bits, whatever it is sent. *)
memtest_begins ==
  /\ stage = "trained" /\ stage' = "test"
  /\ \E r \in Rams, garbage \in {{}, memory} :
       LET ones == [c \in Array |-> r.ones[c] \cup garbage]
           zeros == [c \in Array |-> r.zeros[c] \cup (memory \ garbage)]
       IN memory' = [ram |-> [cell |-> r.cell, ones |-> ones, zeros |-> zeros],
                     holds |-> [c \in Array |-> {}]]
  /\ UNCHANGED <<trainingVars, cache, pass, errors, consoleVars, sdr_ok, sound>>

(* The test decides.  Where the RAM is at fault is forgotten.              *)
Sound ==
  /\ \A i \in Array : memory.holds[memory.ram.cell[i]] = Data[i]
  /\ \A i \in 0 .. BusWords - 1 : LET c == memory.ram.cell[i] IN memory.ram.ones[c] = {} /\ memory.ram.zeros[c] = {}
sdram_init_returns ==
  /\ stage = "test" /\ Done
  /\ sdr_ok' = (IF errors = 0 THEN 1 ELSE 0) /\ sound' = Sound
  /\ stage' = (IF errors = 0 THEN "boot" ELSE "console")
  /\ memory' = << >> /\ pass' = 1 /\ errors' = 0
  /\ UNCHANGED <<trainingVars, cache, consoleVars>>

boot_sequence ==
  /\ stage = "boot" /\ stage' \in {"booted", "console"}
  /\ UNCHANGED <<trainingVars, memtestVars, consoleVars, sdr_ok, sound>>

BiosNext ==
  \/ stage = "train" /\ sdram_leveling /\ UNCHANGED <<memtestVars, consoleVars, mainVars>>
  \/ sdram_leveling_returns \/ memtest_begins
  \/ stage = "test" /\ memtest /\ UNCHANGED <<trainingVars, consoleVars, mainVars>>
  \/ sdram_init_returns \/ boot_sequence
  \/ stage = "console" /\ readline /\ UNCHANGED <<trainingVars, memtestVars, mainVars>>

BiosSpec == BiosInit /\ [][BiosNext]_biosVars

-----------------------------------------------------------------------------
(* The boot after a reset goes into no memory with a fault that the three  *)
(* patterns can show: dead modules, cells that do not keep what was        *)
(* written, two addresses of one cell, whatever the caches hide.  The boot *)
(* commands of the console do not ask (cmds/cmd_boot.c).                   *)
BootsOnSoundMemory == stage \in {"boot", "booted"} => sound
=============================================================================
