---------------------------- MODULE BootSequence ----------------------------
(***************************************************************************)
(* boot_sequence of bios/main.c and the methods of bios/boot.c it tries    *)
(* after the serial one: flash, ROM, and a JSON file of images or one      *)
(* binary from an SD card, a SATA disk or the network.  How a medium       *)
(* copies a file is in DiskBoot and Tftp: the whole file is in RAM, or the *)
(* copy has failed, maybe half way.                                        *)
(***************************************************************************)
EXTENDS SerialBoot, Json

CONSTANTS
  Setups,           \* the methods a SoC has, in the order of boot_sequence,
                    \* and what its media hold: files, and the members of
                    \* boot.json, those of bootargs as a sequence in it
  Prefixed,         \* names of files that begin with a key, each with this key
  Remains,          \* entries that a buffer may seem to hold after a failed read,
                    \* or behind the file, which nothing terminates
  Addresses, MAIN_RAM_BASE,
  MaxFailedCopies   \* bound of the model: failed copies, and buffers with garbage

Media == {"sdcard", "sata", "net"}
Keys  == {"addr", "r1", "r2", "r3", "bootargs"}

(* Only the beginning of a name is compared: "r1.bin" is taken for the     *)
(* register r1.  A name with another beginning is the one of an image.     *)
KeyOf(name) ==
  IF name \in Keys THEN name
  ELSE IF name \in DOMAIN Prefixed THEN Prefixed[name] ELSE "image"
Images(j) == {n \in DOMAIN j : KeyOf(j[n][1]) = "image"}

ASSUME BootSequenceAssumption ==
  /\ \A s \in Setups :
       /\ s.methods \in Seq({"flash", "rom"} \cup Media)
       /\ ToSet(s.methods) \cap Media \subseteq DOMAIN s
  /\ MAIN_RAM_BASE \in Addresses /\ MaxFailedCopies \in Nat
  /\ \A n \in DOMAIN Prefixed : Prefixed[n] \in Keys
  /\ \A g \in Remains : /\ g \in Seq(STRING \X STRING)
                       /\ \A n \in Images(g) : g[n][2] \in Addresses

VARIABLES
  setup,            \* << >> until a medium is looked at
  method,           \* position in setup.methods; 0 during serialboot
  stage,            \* of a method: "start", "entries", "bin"; or "jumped", "console"
  json, garbled,    \* the entries in json_buffer; that they are not those of the file
  entry,            \* the next one
  boot_addr, boot_addr_found, image_found, regs,
  ram,              \* what each address holds: <<medium, file>> or Junk
  failedCopies

jsonVars == <<json, garbled, entry, boot_addr, boot_addr_found, image_found, regs>>
sequenceVars == <<setup, method, stage, jsonVars, ram, failedCopies>>

Junk == <<"", "">>                       \* what was there, or a part of a file
NoRegs == [r \in {"r1", "r2", "r3"} |-> "0"]
NoEntryYet ==
  /\ entry' = 1 /\ boot_addr' = "0" /\ boot_addr_found' = FALSE
  /\ image_found' = FALSE /\ regs' = NoRegs
Buffer(es, g) == json' = es /\ garbled' = g
ClearJson == NoEntryYet /\ Buffer(<< >>, FALSE)

SequenceInit ==
  /\ BootInit /\ setup = << >> /\ method = 0 /\ stage = "start"
  /\ json = << >> /\ garbled = FALSE /\ entry = 1 /\ boot_addr = "0" /\ boot_addr_found = FALSE /\ image_found = FALSE
  /\ regs = NoRegs /\ ram = [a \in Addresses |-> Junk] /\ failedCopies = 0

-----------------------------------------------------------------------------
Present == setup.methods
Current == Present[method]
Trying(m) == method > 0 /\ method <= Len(Present) /\ Current = m /\ stage \notin {"jumped", "console"}
NextMethod == method' = method + 1 /\ stage' = "start" /\ ClearJson
Stay(s) == stage' = s /\ UNCHANGED <<setup, method>>
boot(addr, r) ==
  /\ Stay("jumped") /\ boot_addr' = addr /\ regs' = r
  /\ UNCHANGED <<json, garbled, entry, boot_addr_found, image_found>>

(* What the loader leaves behind on the line is not looked at.             *)
SerialFailed ==
  /\ pc = "other" /\ method = 0
  /\ pc' = "after" /\ NextMethod /\ setup' \in Setups
  /\ frame' = << >> /\ payload_length' = 0 /\ timer' = FALSE /\ failures' = 0 /\ memory' = {}
  /\ down' = << >> /\ up' = << >> /\ host' = "idle" /\ sending' = 1 /\ at' = 0
  /\ faults' = [f \in 1 .. Jump |-> 0] /\ UNCHANGED <<ram, failedCopies>>

(* flashboot copies the image when its length and its CRC are right.       *)
check_image_in_flash == setup.flash = "good"
flashboot ==
  /\ Trying("flash")
  /\ IF check_image_in_flash
     THEN /\ ram' = [ram EXCEPT ![MAIN_RAM_BASE] = <<"flash", "image">>]
          /\ boot(MAIN_RAM_BASE, NoRegs)
     ELSE NextMethod /\ UNCHANGED <<setup, ram>>
  /\ UNCHANGED failedCopies

romboot ==
  /\ Trying("rom") /\ boot("rom", NoRegs) /\ UNCHANGED <<ram, failedCopies>>

(* The copy of a file from the medium.  A file that is not there leaves    *)
(* the RAM alone, a failure half way does not.                             *)
Files == setup[Current].files
Copied(f, a) ==
  /\ f \in Files
  /\ ram' = [ram EXCEPT ![a] = <<Current, f>>] /\ UNCHANGED failedCopies
NotCopied(f, a) ==
  \/ f \notin Files /\ UNCHANGED <<ram, failedCopies>>
  \/ /\ f \in Files /\ failedCopies < MaxFailedCopies /\ failedCopies' = failedCopies + 1
     /\ ram' \in {ram, [ram EXCEPT ![a] = Junk]}

(* *_from_json: the file is read, then each of its entries is obeyed.      *)
Text(d) ==
  LET member(m) == <<<<"string", m[1]>>, <<":", "">>, <<"string", m[2]>>>>
      comma(n) == IF n = 1 THEN << >> ELSE <<<<",", "">>>>
      object(ms) == <<<<"{", "">>>> \o FlattenSeq([n \in DOMAIN ms |-> comma(n) \o ms[n]])
                       \o <<<<"}", "">>>>
  IN object([n \in DOMAIN d |->
       IF d[n][1] # "bootargs" THEN member(d[n])
       ELSE <<<<"string", "bootargs">>, <<":", "">>>>
              \o object([k \in DOMAIN d[n][2] |-> member(d[n][2][k])])])
Documents == UNION {{s[m].json : m \in Media \cap DOMAIN s} : s \in Setups}
Parsed == [d \in Documents |-> IF d = << >> THEN << >> ELSE KeysAndValues(jsmn_parse(Text(d)))]

(* The members of a file in their order, those of bootargs behind it.      *)
Members(d) ==
  FlattenSeq([n \in DOMAIN d |->
    IF d[n][1] = "bootargs" THEN <<<<"bootargs", "">>>> \o d[n][2] ELSE <<d[n]>>])

(* The files are ones that jsmn_parse takes apart, as it does with those   *)
(* that are well formed and have no more tokens than it has room for.      *)
ASSUME DocumentAssumption ==
  \A d \in Documents :
    /\ Parsed[d] = Members(d) /\ Members(d) \in Seq(STRING \X STRING)
    /\ \A n \in Images(Members(d)) : Members(d)[n][2] \in Addresses

(* A failed f_read of the file is not noticed: its buffer is parsed as it  *)
(* is.  Nor does a terminator end the file in it.                          *)
Json == setup[Current].json
HasJson == Json # << >>
Garbled(m) ==
  {Parsed[Json] \o g : g \in Remains} \cup (IF m = "net" THEN {} ELSE Remains)
ReadJson(m) ==
  /\ Trying(m) /\ stage = "start" /\ NoEntryYet /\ UNCHANGED ram
  /\ \/ HasJson /\ Stay("entries") /\ Buffer(Parsed[Json], FALSE) /\ UNCHANGED failedCopies
     \/ ~ HasJson /\ Stay("bin") /\ Buffer(<< >>, FALSE) /\ UNCHANGED failedCopies
     \/ /\ HasJson /\ failedCopies < MaxFailedCopies /\ failedCopies' = failedCopies + 1
        /\ \/ Stay("bin") /\ Buffer(<< >>, FALSE)
           \/ Stay("entries") /\ \E es \in Garbled(m) : Buffer(es, TRUE)

Name == json[entry][1]
Value == json[entry][2]
Key(k) == stage = "entries" /\ entry <= Len(json) /\ KeyOf(Name) = k
Obeyed == entry' = entry + 1 /\ Stay("entries") /\ UNCHANGED <<json, garbled>>

Address(m) ==
  /\ Trying(m) /\ Key("addr") /\ Obeyed /\ boot_addr' = Value /\ boot_addr_found' = TRUE
  /\ UNCHANGED <<image_found, regs, ram, failedCopies>>
Register(m) ==
  /\ Trying(m) /\ Obeyed
  /\ \/ \E r \in DOMAIN regs : Key(r) /\ regs' = [regs EXCEPT ![r] = Value]
     \/ Key("bootargs") /\ UNCHANGED regs
  /\ UNCHANGED <<boot_addr, boot_addr_found, image_found, ram, failedCopies>>

Image_fault(m) ==
  /\ Trying(m) /\ Key("image")
  /\ Copied(Name, Value) \/ NotCopied(Name, Value)
  /\ Obeyed /\ image_found' = TRUE
  /\ boot_addr' = IF boot_addr_found THEN boot_addr ELSE Value
  /\ UNCHANGED <<boot_addr_found, regs>>
Image(m) ==
  /\ Trying(m) /\ Key("image")
  /\ \/ /\ Copied(Name, Value) /\ Obeyed /\ image_found' = TRUE
        /\ boot_addr' = (IF boot_addr_found THEN boot_addr ELSE Value)
        /\ UNCHANGED <<boot_addr_found, regs>>
     \/ NotCopied(Name, Value) /\ Stay("bin") /\ ClearJson

JsonEnd_fault(m) ==
  /\ Trying(m) /\ stage = "entries" /\ entry > Len(json)
  /\ IF boot_addr_found THEN boot(boot_addr, regs) ELSE Stay("bin") /\ ClearJson
  /\ UNCHANGED <<ram, failedCopies>>
JsonEnd(m) ==
  /\ Trying(m) /\ stage = "entries" /\ entry > Len(json)
  /\ IF image_found THEN boot(boot_addr, regs) ELSE Stay("bin") /\ ClearJson
  /\ UNCHANGED <<ram, failedCopies>>

from_json(m) == ReadJson(m) \/ Address(m) \/ Register(m) \/ Image(m) \/ JsonEnd(m)

from_bin(m) ==
  /\ Trying(m) /\ stage = "bin"
  /\ \/ Copied("boot.bin", MAIN_RAM_BASE) /\ boot(MAIN_RAM_BASE, NoRegs)
     \/ NotCopied("boot.bin", MAIN_RAM_BASE) /\ NextMethod /\ UNCHANGED setup

netboot == from_json("net") \/ from_bin("net")
sdcardboot == from_json("sdcard") \/ from_bin("sdcard")
sataboot == from_json("sata") \/ from_bin("sata")

NoMedium ==
  /\ method > 0 /\ method > Len(Present) /\ stage = "start"
  /\ stage' = "console" /\ UNCHANGED <<setup, method, jsonVars, ram, failedCopies>>

boot_sequence ==
  \/ SerialFailed
  \/ (flashboot \/ romboot \/ netboot \/ sdcardboot \/ sataboot \/ NoMedium) /\ UNCHANGED bootVars

SequenceNext == boot_sequence \/ (BootNext /\ UNCHANGED sequenceVars)

SequenceSpec ==
  /\ SequenceInit /\ [][SequenceNext]_<<bootVars, sequenceVars>>
  /\ WF_bootVars(Device /\ UNCHANGED sequenceVars) /\ WF_bootVars(Host /\ UNCHANGED sequenceVars)
  /\ WF_<<bootVars, sequenceVars>>(boot_sequence)

-----------------------------------------------------------------------------
(* What a medium offers, read off its boot.json as a whole.                *)
Boots(m) ==
  CASE m = "flash" -> setup.flash = "good"
    [] m = "rom" -> TRUE
    [] OTHER -> \/ "boot.bin" \in setup[m].files
                \/ LET j == Members(setup[m].json) IN
                   Images(j) # {} /\ \A n \in Images(j) : j[n][1] \in setup[m].files

(* No jump goes to an image that is not all there: a program that came     *)
(* over the serial line is complete; all the images that the JSON file of  *)
(* a medium names are in RAM, unless a later one lies over them; the       *)
(* address and the registers are the last ones the file gives, else the    *)
(* address of its last image and 0.  What begins like a key is none of the *)
(* images.  When the buffer holds garbage, all this is true of what the    *)
(* loop finds there: it may jump without the images of the file.           *)
LastOf(s, j, none) == IF s = {} THEN none ELSE j[Max(s)][2]
JumpsToImages ==
  /\ JumpHasImage
  /\ stage = "jumped" /\ Current # "rom" =>
       IF entry = 1 THEN ram[boot_addr] \in {<<Current, "boot.bin">>, <<"flash", "image">>}
       ELSE LET j == IF garbled THEN json ELSE Members(Json)
                given(k) == {n \in DOMAIN j : KeyOf(j[n][1]) = k}
            IN /\ boot_addr = LastOf(given("addr"), j, LastOf(Images(j), j, "0"))
               /\ \A r \in DOMAIN regs : regs[r] = LastOf(given(r), j, "0")
               /\ \A n \in Images(j) :
                    \/ ram[j[n][2]] = <<Current, j[n][1]>>
                    \/ \E o \in Images(j) : o > n /\ j[o][2] = j[n][2]

(* If nothing fails and no buffer holds garbage, the first method that has *)
(* an image boots it, and the console comes up only when none has.         *)
FirstMediumBoots ==
  failedCopies = 0 /\ stage \in {"jumped", "console"} =>
    \A k \in DOMAIN Present :
      Boots(Present[k]) => stage = "jumped" /\ method <= k

(* While the lines and the media fail only so often, the boot ends, in a   *)
(* program or at the console.                                              *)
BootEnds == <>(pc \in {"booted", "console"} \/ stage \in {"jumped", "console"})
=============================================================================
