------------------------------ MODULE SpiFlash ------------------------------
(***************************************************************************)
(* Writing to the SPI flash: libbase/spiflash.c byte by byte, and the      *)
(* search for the fastest clock of liblitespi/spiflash.c.  The chip obeys  *)
(* a command when it is deselected, ignores all but RDSR while it is busy, *)
(* and wraps around within a page.  A byte is a set of bits: programming   *)
(* clears bits, erasing sets them.  The processor may be reset while the   *)
(* chip goes on.                                                           *)
(***************************************************************************)
EXTENDS Integers, SequencesExt

CONSTANTS
  Bits,                                     \* of a byte of the flash
  SPIFLASH_SECTOR_SIZE, SPIFLASH_PAGE_SIZE, Sectors,
  Texts,                                    \* what is written
  Divisors,                                 \* 0 .. the divisor after a reset
  MaxOps, MaxFlashResets                    \* bounds of the model

ASSUME SpiFlashAssumption ==
  /\ {SPIFLASH_PAGE_SIZE, SPIFLASH_SECTOR_SIZE, Sectors} \subseteq Nat \ {0}
  /\ SPIFLASH_SECTOR_SIZE % SPIFLASH_PAGE_SIZE = 0
  /\ Texts \subseteq Seq(SUBSET Bits) \ {<< >>}
  /\ Divisors \subseteq Nat /\ \E d \in Divisors : Divisors = 0 .. d

FlashAddress == 0 .. Sectors * SPIFLASH_SECTOR_SIZE - 1

VARIABLES
  chip,             \* the flash: contents, wel, wip, the bytes since it is selected
  op,               \* "none" or the operation that the user has called
  work,             \* the bytes and deselections that it still has to send
  left,             \* addr and c[0 .. len - 1] of write_to_flash
  promised,         \* history: the contents that it promises
  clock,            \* the divisor, the lowest that works, and spiflash_freq_init
  flashBudget

flashVars == <<chip, op, work, left, promised, clock, flashBudget>>

-----------------------------------------------------------------------------
(* The operations as what they do to the chip.                             *)
wait_for_it == <<<<"wait">>>>
cs_n == <<<<"cs_n">>>>
Send(bytes) == [k \in DOMAIN bytes |-> <<"byte", bytes[k]>>]
Enabled(bytes) == wait_for_it \o Send(<<"WREN">>) \o cs_n \o Send(bytes) \o cs_n \o wait_for_it

erase_flash_sector(addr) ==
  Enabled(<<"SE", SPIFLASH_SECTOR_SIZE * (addr \div SPIFLASH_SECTOR_SIZE)>>)
erase_flash == Enabled(<<"CE">>)
write_to_flash_page(addr, c) == Enabled(<<"PP", addr>> \o c)

(* How far write_to_flash goes in one page, and SpiMin is its min.         *)
ToPageEnd_not(addr) == SPIFLASH_PAGE_SIZE
ToPageEnd(addr) == SPIFLASH_PAGE_SIZE - (addr % SPIFLASH_PAGE_SIZE)
SpiMin(a, b) == IF a > b THEN b ELSE a
NothingLeft == [addr |-> 0, c |-> << >>]

-----------------------------------------------------------------------------
(* The chip.                                                               *)
Erased(contents, addresses) == [a \in FlashAddress |-> IF a \in addresses THEN Bits ELSE contents[a]]
Programmed(contents, addr, c) ==
  LET page == SPIFLASH_PAGE_SIZE * (addr \div SPIFLASH_PAGE_SIZE)
      Cell(k) == page + ((addr + k - 1) % SPIFLASH_PAGE_SIZE)
  IN [a \in FlashAddress |->
        LET hits == {k \in DOMAIN c : Cell(k) = a}
        IN IF hits = {} THEN contents[a] ELSE contents[a] \cap c[CHOOSE k \in hits : \A j \in hits : j <= k]]
Written(contents, addr, c) ==
  [a \in FlashAddress |-> IF a \in addr .. addr + Len(c) - 1
                          THEN contents[a] \cap c[a - addr + 1] ELSE contents[a]]
SectorOf(addr) == {a \in FlashAddress : a \div SPIFLASH_SECTOR_SIZE = addr \div SPIFLASH_SECTOR_SIZE}

Deselected ==
  LET s == chip.selected
      idle == [chip EXCEPT !.selected = << >>]
      Changed(contents) == [idle EXCEPT !.contents = contents, !.wel = FALSE, !.wip = TRUE]
  IN CASE s = << >> \/ chip.wip -> idle
       [] ~ chip.wip /\ s = <<"WREN">> -> [idle EXCEPT !.wel = TRUE]
       [] ~ chip.wip /\ chip.wel /\ s = <<"CE">> -> Changed(Erased(chip.contents, FlashAddress))
       [] ~ chip.wip /\ chip.wel /\ Len(s) = 2 /\ s[1] = "SE" -> Changed(Erased(chip.contents, SectorOf(s[2])))
       [] ~ chip.wip /\ chip.wel /\ Len(s) > 2 /\ s[1] = "PP" ->
            Changed(Programmed(chip.contents, s[2], SubSeq(s, 3, Len(s))))
       [] OTHER -> idle

-----------------------------------------------------------------------------
BlankFlash == [a \in FlashAddress |-> Bits]
Slowest == CHOOSE d \in Divisors : \A e \in Divisors : e <= d
SearchFrom(lowest) ==
  [divisor |-> Slowest, lowest |-> lowest, phase |-> "start", crc |-> "none", test |-> "none", idle |-> TRUE]

FlashInit ==
  /\ chip = [contents |-> BlankFlash, wel |-> FALSE, wip |-> FALSE, selected |-> << >>]
  /\ op = "none" /\ work = << >> /\ left = NothingLeft /\ promised = BlankFlash
  /\ \E lowest \in Divisors : clock = SearchFrom(lowest)
  /\ flashBudget = [ops |-> MaxOps, resets |-> MaxFlashResets]

(* What reading the first block gives; a busy chip leaves the line as it   *)
(* is.  The history variable `idle` notes that it was not busy.            *)
crc32(d) ==
  IF chip.wip THEN {"erased", "stuck"}
  ELSE IF d < clock.lowest THEN {"garbage"}
  ELSE IF \A a \in SectorOf(0) : chip.contents[a] = Bits THEN {"erased"} ELSE {"block"}

(* spiflash_freq_init lowers the divisor as long as the block reads as     *)
(* before, and takes the one before the first that fails.  (At 0 the       *)
(* unsigned counter wraps around and is 0 again after the increment.)      *)
Restored_not(d) == d
Restored(d) == d + 1
spiflash_freq_init ==
  /\ op = "none"
  /\ \/ /\ clock.phase = "start"
        /\ \E crc \in crc32(clock.divisor) :
             clock' = [clock EXCEPT !.crc = crc, !.test = crc, !.idle = ~ chip.wip,
                                    !.phase = IF crc = "erased" THEN "done" ELSE "search"]
     \/ /\ clock.phase = "search" /\ clock.crc = clock.test /\ clock.divisor > 0
        /\ \E crc \in crc32(clock.divisor - 1) :
             clock' = [clock EXCEPT !.divisor = @ - 1, !.test = crc, !.idle = @ /\ ~ chip.wip]
     \/ /\ clock.phase = "search" /\ clock.crc = clock.test /\ clock.divisor = 0
        /\ clock' = [clock EXCEPT !.phase = "done"]
     \/ /\ clock.phase = "search" /\ clock.crc # clock.test
        /\ clock' = [clock EXCEPT !.phase = "done", !.divisor = Restored(@)]
  /\ UNCHANGED <<chip, op, work, left, promised, flashBudget>>

CallFlash(o, bytes, rest, contents) ==
  /\ clock.phase = "done" /\ op = "none" /\ flashBudget.ops > 0
  /\ op' = o /\ work' = bytes /\ left' = rest /\ promised' = contents
  /\ flashBudget' = [flashBudget EXCEPT !.ops = @ - 1]
  /\ UNCHANGED <<chip, clock>>

flash_write_handler ==
  \E addr \in FlashAddress, c \in Texts :
    /\ addr + Len(c) - 1 \in FlashAddress
    /\ CallFlash("write", << >>, [addr |-> addr, c |-> c], Written(chip.contents, addr, c))
flash_erase_handler ==
  CallFlash("erase", erase_flash, NothingLeft, Erased(chip.contents, FlashAddress))
EraseSector ==
  \E addr \in FlashAddress :
    CallFlash("sector", erase_flash_sector(addr), NothingLeft, Erased(chip.contents, SectorOf(addr)))

(* write_to_flash: up to the end of the page, then page by page.           *)
write_to_flash ==
  /\ op # "none" /\ work = << >> /\ left.c # << >>
  /\ \E written \in {SpiMin(ToPageEnd(left.addr), Len(left.c))} :
       /\ work' = write_to_flash_page(left.addr, SubSeq(left.c, 1, written))
       /\ left' = [addr |-> left.addr + written, c |-> SubSeq(left.c, written + 1, Len(left.c))]
  /\ UNCHANGED <<chip, op, promised, clock, flashBudget>>

wait_for_device_ready ==
  /\ work # << >> /\ Head(work)[1] = "wait"
  /\ IF chip.wip THEN UNCHANGED <<chip, work>>
     ELSE chip' = Deselected /\ work' = Tail(work)
  /\ UNCHANGED <<op, left, promised, clock, flashBudget>>

flash_write_byte ==
  /\ work # << >> /\ Head(work)[1] = "byte"
  /\ chip' = [chip EXCEPT !.selected = Append(@, Head(work)[2])]
  /\ work' = Tail(work) /\ UNCHANGED <<op, left, promised, clock, flashBudget>>

Deselect ==
  /\ work # << >> /\ Head(work)[1] = "cs_n"
  /\ chip' = Deselected
  /\ work' = Tail(work) /\ UNCHANGED <<op, left, promised, clock, flashBudget>>

FlashReturns ==
  /\ op # "none" /\ work = << >> /\ left.c = << >> /\ op' = "none"
  /\ UNCHANGED <<chip, work, left, promised, clock, flashBudget>>

ChipReady ==
  /\ chip.wip /\ chip' = [chip EXCEPT !.wip = FALSE]
  /\ UNCHANGED <<op, work, left, promised, clock, flashBudget>>

(* A reset of the processor deselects the chip, wherever a command was; it *)
(* may be busy when the clock is searched for again.                       *)
FlashReset ==
  /\ op # "none" /\ flashBudget.resets > 0
  /\ flashBudget' = [flashBudget EXCEPT !.resets = @ - 1]
  /\ chip' = Deselected /\ op' = "none" /\ work' = << >> /\ left' = NothingLeft
  /\ promised' = Deselected.contents
  /\ clock' = SearchFrom(clock.lowest)

FlashNext ==
  \/ spiflash_freq_init \/ flash_write_handler \/ flash_erase_handler \/ EraseSector \/ write_to_flash
  \/ wait_for_device_ready \/ flash_write_byte \/ Deselect \/ FlashReturns \/ ChipReady \/ FlashReset
FlashSpec == FlashInit /\ [][FlashNext]_flashVars

-----------------------------------------------------------------------------
(* When an operation returns, the flash holds what it was to write or      *)
(* erase, and everything else as before, also if it crosses pages or the   *)
(* chip was still busy with what a reset had interrupted; and the chip is  *)
(* ready for the next one.                                                 *)
FlashHoldsIt ==
  op # "none" /\ work = << >> /\ left.c = << >> =>
    chip.contents = promised /\ ~ chip.wip /\ chip.selected = << >>

(* The clock that spiflash_freq_init ends with is one the flash can be     *)
(* read with, and the fastest, unless the block was erased or the chip     *)
(* busy with what a reset had interrupted.                                 *)
FastestThatReads ==
  clock.phase = "done" /\ clock.idle /\ clock.crc # "erased" => clock.divisor = clock.lowest
=============================================================================
