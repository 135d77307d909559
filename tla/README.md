# Formal models of the Pong SoC

This directory holds a TLA+ verification development of the repository: a Pong game in C
that runs on a LiteX SoC in an FPGA, the hardware around it (distance sensors, servos, video),
the BIOS that starts it with its drivers, network stack and file system, and the script that
carries the results to a database.

* model-check with TLC: `tlc -workers 2 -config Pong.cfg MCPong.tla`
* check the proofs with TLAPS: `tlapm GameProofs.tla`, and likewise `I2cProofs`, `BoardProofs`,
  `SerialProofs`, `BootProofs`, `TftpProofs`, `BiosProofs` and `DiskProofs`

Source paths below are relative to `src/`.

## 1. The system

Two players hold a hand over two ultrasonic sensors. Every 60 ms the hardware measures both
distances into registers; the main loop smooths them to paddle positions, runs the game at a
rate of its own, and writes the positions to the drawer that scans them out to VGA. A won game
raises the winner's servo, blinks the LEDs and prints a JSON line on the console; a script on a
PC reads the console and stores that line in a database that a dashboard shows.

Before the game runs, the LiteX BIOS trains and tests the memory of the SoC, then looks for a
program: over the serial line, in flash or ROM, and in files named by a `boot.json` on an SD
card, a SATA disk or a TFTP server; if there is none its console comes up. Which of these parts
are compiled in depends on the SoC. The Basys 3 board of this repository has the serial line
and block RAM; the others are the same sources for SoCs with SDRAM, Ethernet and disks.

```
 HC-SR04 --echo--> hcsr04.vhd --register--> main.c ==update()==> pong.c, ball.c, paddle.c, table.c
                                              |  |  |
              pong_drawer.v <--registers------+  |  +--printf--> uart.c <-interrupt- UART --line--> usb_parser.py --> database
              vga_driver.v                       +--> servo register --> controle_servo.vhd
                                            time.c: when to sample, when to update

 bios/main.c --> sdram.c --> memtest.c --> boot.c --+-- serialboot ------------------- serial line
      |                                             +-- flashboot, romboot                          --> jumps to the game
      +--> readline.c, complete.c (console)         +-- boot.json (jsmn.h) --+-- tftp.c -- udp.c -- Ethernet
      +--> i2c.c, spiflash.c (commands)                                      +-- ff.c -- sdcard.c, spisdcard.c, sata.c
```

### Components: state, operations, hazards, what makes them correct

| Component | State | Operations | Hard behaviour | Correct when |
|---|---|---|---|---|
| Game rules (`software/app/pong.c`, `ball.c`, `paddle.c`, `table.c`) | struct `game` | `start`, `update` | equality tests on positions; paddles jump between updates | the ball stays in the field and turns only at a contact; one winner |
| Main loop (`software/app/main.c`) | smoothed targets, registers, console | sample, update, `draw`, `showScore`, celebration | sampling and updating interleave; the drawer reads between two register writes; an uninitialized local | it implements the game; sprites on the screen; one report per game |
| Time base (`software/app/time.c`) | time of the last event, free-running timer | `time_init`, `elapsed` | wrap-around between event and poll | no event early, late or lost |
| Distance sensor (`hardware/custom/hcsr04.vhd`) | counter, control units, register | one clock edge | the register is latched from the *previous* period; echo at any time or never; rounding | what is read is always the last whole echo; a reset of the processor cuts no trigger |
| Servo (`hardware/custom/controle_servo.vhd`) | counter, width, output | one clock edge | asynchronous reset from another clock | whole pulses only, of the requested width |
| Video (`hardware/custom/vga_driver.v`, `pong_drawer.v`) | two counters, two sync registers, positions | one pixel clock, a register write | boundaries of counters and windows | a monitor shows the sprites where the registers say |
| Console driver (`software/libbase/uart.c`) | two rings, indices | `uart_isr`, `uart_write`, `uart_read`, `uart_sync` | handler, program and hardware interleave; full rings | a FIFO channel, nothing stranded, no call hangs |
| Score upload (`usb_parser.py`) | which loop, the database | two nested loops with a catch-all | resets in mid-line, uploads that fail half-way | every attended result stored once, in order |
| SDRAM training (`software/liblitedram/sdram.c`) | delays and bitslips per module | the four steps of `sdram_leveling` | windows that wrap or touch an end | strobes aligned, every trainable module works |
| Memory test (`software/libbase/memtest.c`) | - | `memtest` | caches hide a broken memory | the boot after a reset goes into no faulty memory |
| Serial boot (`software/bios/boot.c`, `sfl.h`) | frame under way, failures, memory | `check_ack`, `serialboot` | corrupted and lost bytes, timeouts | only a whole program is started, the load ends |
| Boot order, JSON and images (`bios/main.c`, `bios/boot.c`, `libbase/jsmn.h`) | method, parsed tokens, addresses | `flashboot`, `romboot`, `*boot_from_json`, `*boot_from_bin` | a copy or a read fails half way; a value taken for a key, a name for a register | the first medium with an image boots, and nothing incomplete |
| Network (`libliteeth/udp.c`, `tftp.c`) | ARP cache, callback, transfer | `udp_arp_resolve`, `udp_send`, `udp_service`, `tftp_get`, `tftp_put` | loss, duplication, delay, reordering; tries per phase, counts of polls that data set back | a success means the whole file; calls return unless data arrive for ever |
| File system (`libfatfs/ff.c`) | mounted volume, one sector window, cursors | `f_mount`, `f_open`, `f_read`, `f_close` | broken chains, wrong parameters, left-over long names | the right file is copied; no read leaves the volume |
| Disks (`liblitesdcard/sdcard.c`, `spisdcard.c`, `liblitesata/sata.c`) | status, state of the card | `disk_initialize`, `disk_read` | commands repeated that the card has obeyed, or for ever | every copy ends, unless a repetition fails for ever |
| Console (`bios/readline.c`, `complete.c`) | line, cursor, history ring | every key | ring with three indices; what the terminal still shows | an editor of a line, shown as it is |
| I2C (`libbase/i2c.c`) | driven lines | `i2c_write`, `i2c_read`, `i2c_poll`, `i2c_reset` | a reset in the middle of a byte, a read of no bytes | calls are exact and leave the bus free |
| SPI flash (`libbase/spiflash.c`, `liblitespi/spiflash.c`) | - (the chip has it) | erase, write, clock search | page boundaries, a chip still busy | the flash holds what was written |
| Commands, MDIO, self-test, checksums, C library, other processors, dashboard, demo, integration | - | - | - | not modelled, see section 7 |

`PROJECT.json` lists all components with their files and all hazards with their lines.

## 2. Modules and how they correspond to the code

| Module | Kind | Models |
|---|---|---|
| `Pong` | specification | the game rules |
| `PongMain` | composition, extends `Pong` | the main loop with the registers it writes |
| `EchoCounter` | specification | `contador_cm` of the sensor interface |
| `Sonar` | composition, extends `EchoCounter` | the whole sensor interface and the sensor |
| `GameTimer`, `Servo`, `Vga`, `I2c`, `SpiFlash` | specifications | `elapsed` on the wrapping timer, the PWM generator, the picture, the I2C master, the flash |
| `Board` | union of those five | the devices that share nothing: one of them runs per behaviour |
| `Channel` | abstract specification | a FIFO channel, lossless or dropping when full |
| `Uart` | specification, instantiates `Channel` twice | the console driver with its interrupt handler |
| `ScoreUplink` | specification | console, parser, database |
| `SerialBoot` | specification | loading a program, device and host |
| `Json` | operators | `jsmn_parse`, and the tokens as keys and values |
| `BootSequence` | composition, extends `SerialBoot`, `Json` | all boot methods in their order |
| `FileTransfer` | abstract specification | what a call that moves a file promises |
| `Udp` | actions | ARP and UDP on a shared network |
| `Tftp` | composition, extends `Udp`, instantiates `FileTransfer` | the TFTP client and its servers |
| `DiskOps` | actions | the interface between FatFs and a driver |
| `SdCard`, `Sata` | actions, extend `DiskOps` | the three drivers (SD mode, SPI mode, SATA) with their media |
| `FatFs` | actions, extends `DiskOps` | the file system, and the copy in `boot.c` |
| `DiskBoot` | composition of those four, instantiates `FileTransfer` | copying a file from a disk |
| `Sdram`, `Memtest` | specification, actions | training, memory test |
| `LineEditor` | abstract specification | an editor of one line with history and completion |
| `Console` | specification, instantiates `LineEditor` | `readline` and `complete` with the terminal |
| `BiosMain` | composition of `Sdram`, `Memtest`, `Console` | from reset to the prompt |
| `GameProofs` | proofs | about `Pong` and `PongMain`, `EchoCounter` and `Sonar`; that the second of each pair implements the first |
| `I2cProofs` | proofs | that the calls of `I2c` are exact, alone |
| `BoardProofs` | proofs, extends `I2cProofs` | about `GameTimer`, `Servo`, `Vga` and `SpiFlash`, and all five devices on the `Board` |
| `SerialProofs` | proofs | that `Uart` implements `Channel` in both directions; about `ScoreUplink` |
| `BootProofs` | proofs | about `SerialBoot` and the boot methods of `BootSequence` |
| `TftpProofs` | proofs | about `Udp` and `Tftp`, and that a transfer keeps the promise of `FileTransfer` |
| `BiosProofs` | proofs | about `Memtest`, `Sdram` and `Console` as `BiosMain` composes them, and that `Console` implements `LineEditor` |
| `DiskProofs` | proofs | about `FatFs` over its drivers, as `DiskBoot` composes them |
| `MC...` | instances for TLC | values that a configuration file cannot write |

Definitions keep the names of the source (`updateScore`, `collisionWithPaddle`, `Eprox`,
`uart_isr` as `Isr...`, `rx_callback`, `dir_find` as `DirEntry`). **A definition named like
another with a suffix** (`Extent_fault`, `CrcError_...`, `ResetClocks_short`) stands before it and is
a faulty variant of it (a dropped guard, an off-by-one). No specification uses these; they show
that each property notices the fault, by putting the variant in place of the original.

### The game

**Pong.** The four variables are the struct `game`. `update(command)` is one action with the two
halves of the code, `updateScore` then `updatePosition`, in the order of their assignments: the
ball is served, then tested against the *old* paddles, then against the walls, then moved. Scores
are bytes. The guard `NoWinner` is the test in `main`, the only caller.

**PongMain.** One action per part of an iteration. `SampleSensors` and `Update` have no order,
because they are guarded by two independent `elapsed`; whether enough time has passed is a
nondeterministic choice here and the business of `GameTimer`. `draw` writes four registers in
four steps, because the drawer reads them at any moment. `rightPaddleY` starts at any member of
`Uninitialized`: `int16_t rightPaddleY, leftPaddleY = 0` initializes only the second. Readings
are 16-bit registers read into `int16_t`, so the readings of the instance include one that turns
negative. The text of the result is a record.

**EchoCounter, Sonar.** A step is a clock edge; every register gets its value from the values before
the edge, and asynchronous resets act in the cycle in which they rise. `Sonar` shows what is
surprising in this code: the control unit goes from `envia_trigger` to `armazenamento` without
waiting for the echo, so the register always shows the measurement of the period before. The reset
of the processor comes from another clock and is part of every step (`reset`): it cuts the control
unit and clears the register, while trigger generator, counter, period and sensor go on. `width` and
`measured` are histories: how long the pulse was, and which one the register should tell.

**Uart.** Program, handler and hardware take separate steps. `uart_write` is split where an
interrupt can come between (waiting, masking, testing, enqueuing or writing directly, unmasking).
The UART itself is not in the repository and is modelled by what the driver relies on: an event
is raised when the receive FIFO becomes non-empty or the transmit FIFO stops being full.
`uart_sync` is called only with interrupts on, as by `boot` (`software/bios/boot.c:57`).

**ScoreUplink.** The parser's two loops, with every exception leading back to the first. A reset
of the board may cut a line, and the part that was printed may be the whole result; an upload may
raise its exception before or after the database has stored the record.

### The devices (`Board`)

**GameTimer.** `value` is the counter of the timer and `last` the variable of each event; `age`
and `gap` are histories with the truth. The timer has a cycle of `Reload + 1` clocks while
`elapsed` adds `Reload`, so the code is one clock off after a wrap-around: `DtIsTheAge` says
exactly when, and the properties state this bound instead of hiding it.

**Servo.** A step is an edge of its 10 MHz clock; a reset may also rise and fall between two
edges, because it comes from a faster clock.

**Vga.** A step is a pixel clock, with the registered sync signals one clock behind the counters,
or a write of one of the four position registers between two of them. `monitor` is external: it
knows only the two sync signals and counts pixels and lines from them.

**I2c.** A step is one `i2c_oe_scl_sda`, that is one state of the two lines, to which the slave, a
memory with an address pointer, reacts at once. A call is a sequence of line states and decisions on
what was read: `nth` is the operation of the call (`Body`), `bit` the bit of its byte, `edge` the
line state of that bit. An address in the slave's memory goes out in `addr_size` bytes, the highest
first; a size that is not one of 1 to 4 is refused before the START (`Refused`). A read of 0 bytes,
which the command lets through, ends while the slave still sends (`StillSends`). A reset of the
processor cuts a call anywhere. `i2c_reset` is a call of the user like the others; `owed` counts how
often it must be given before the user relies on the bus again: once after a read of 0 bytes, twice
after a reset of the processor, because a first one may turn an address that was cut into one for
reading, and then ends while the slave sends a 0.

**SpiFlash.** A step is one byte on the wire, or the chip's end of programming. The chip executes a
command when it is deselected, ignores all but the status request while it is busy, and wraps
around within a page; a byte is a set of bits, which programming clears. `write_to_flash` is a step
per page: `work` is what it still has to send of this page, `left` the address and the text behind
it. The processor may be reset anywhere, the chip goes on.

### The BIOS

**Sdram.** What the code scans is external: the phase of the clock against each module's strobe, and
the read delays at which the module answers (its eye), any of them. A step of the search for the
command delay is one delay (`TryDelay`) or the narrowing of the range (`NarrowRange`); the other
steps are one pass of the code over all modules. The searches for windows of ones and of working
delays are pure functions of those. **Memtest**: a pass over the array is one step; a RAM may map
two addresses to one cell or have stuck bits, and the caches may answer in its place until they are
flushed.
**BiosMain** puts them before the boot, which happens only if `sdr_ok`; a module that training has
left broken reads as the same bits whatever is written.

**SerialBoot.** The device takes one byte per step; a frame is a length, a checksum, a command and a
payload, and a corrupted byte is `Garbage`, which as a length may be any of `BadLength`. An intact
frame may also be `CMD_ABORT`, which ends the load, or have a command the device does not know,
which it counts as a failure. The host is external to the repository. **BootSequence** goes on when
no host has answered: each method of `setup.methods` in turn; a JSON file is parsed by `jsmn_parse`
of `Json` and walked entry by entry with the code's rules for `addr`, `r1`..`r3`, `bootargs` and
images, of which only the beginning is compared (`Prefixed`: an image named `r1.bin` is a register);
a copy puts the file into RAM, or fails and leaves `Junk`. Nobody looks at the result of the read of
`boot.json`, and nothing terminates the buffer: the entries obeyed may be those of the file and
more, or, if a disk's read has failed, any that were there (`Garbled`, from `Remains`).

**Udp, Tftp.** Frames stay on the wire for ever: a step of the client is one `udp_service` with any
frame in it, once or again, or with none, so that frames are lost, repeated, delayed and reordered.
The loops count their polls; that the count ends is a step of its own (`Timeout`, `ArpTimeout`).
During the transfer data that arrive set the count back: `length_changed` is that difference between
two polls, and while there is one the count does not end (`SetBack`). Servers are external; each
request starts a transfer with a port of its own.

**DiskOps, the drivers, FatFs.** FatFs sets a request and waits; the driver serves it step by step,
a step being a command with its answer or a block, each of which may fail (`Fault`), any number of times
or always; `Repeats` are the exchanges that the code repeats without counting. The SD card executes a
command only in the states the SD specification allows; in SPI mode it goes on sending after a
read that was given up, until a CMD12 reaches it. A step
of FatFs is the code between two accesses to the medium: boot sector or partition
(`FindVolume`), the entries of a directory with long names (`DirEntry`), the FAT with entries
that straddle two sectors in FAT12 (`FatSecond`), and the parts of a file (`FileData`). Names are
sequences over three letters with two cases, a dot and a blank.

**Console.** A key is one step with all it echoes: `text` and `col` are the row of the terminal, which
`putnstr` overwrites from the cursor on. A string is added character by character (`AddEach`), as the
code does. `LineEditor` is the abstract editor, in which the history is a list and completion adds what
the candidates, the first `HIST_DEPTH` commands with this beginning, agree on.

## 3. The runs and what they show

| Run | Instance | Shows |
|---|---|---|
| `pong` | table of 20 by 12, contact planes at +-6, walls at +-5, two points to win, commands {-9, 0, 3, 9} | the ball stays in the field and turns only at a contact; scores and winners; the ball comes to either end, and to the other one again |
| `pong_main` | table of 12 by 10, readings {2, 4, 65535}, garbage {-12, 5}, commands -12..5 | sprites on the screen between two register writes too; exactly one report; **implements `Pong`** (`PlaysPong`, with its fairness) |
| `sonar` | 4 clocks per centimetre, saturation at 6, period 28, trigger 3, echoes end by clock 22, a reset at and between any clocks | every pulse measured to half a centimetre of `R` clocks and the clocks at which the counter does not tick; a reading is a whole echo, resets of the processor included; each echo is displayed at last; no trigger is cut |
| `uart` | one character in, two out, rings of two and four, FIFOs of two | both directions **implement `Channel`**: output loses nothing, input only into a full ring; calls return; reception goes on |
| `board` | timer with reload 10 and periods 3, 5; servo with period 10, pulses 2 and 4; frame of 12 by 6, sprites of 3 and 4; bytes of 3 bits on I2C, a slave with 9 cells and addresses of 2 bytes, sizes 0, 1, 2, 3 and 5, lengths 0 and 2, two calls; flash of two sectors of two pages of two bytes | no event early or late; whole servo pulses of the requested width; the picture is right; I2C calls are exact, to the slave or to nobody, refused or not, past the end of its memory too; the flash holds what was written; the clock is the fastest that reads |
| `game_timer_stated` | periods 8 and 12 where 6 and 9 are stated | the first disagreement of section 5 |
| `boot` | serial program of two chunks with three line faults; eight contents of a disc, three orders of methods, one failing copy or buffer with garbage | no jump to anything incomplete, of what the buffer names; the first medium with an image boots; the boot ends |
| `score_uplink` | three games, four lines under way | results stored once, in order; every attended result at last, unless its own upload failed |
| `net` | two hosts, two calls out of gets of 3 and 4 and a put of 2 half blocks, block numbers modulo 3, two tries | **implements `FileTransfer`**; requests go to the right machine; every call returns, unless data arrive for ever |
| `disk` | all 64 FATs of three clusters in a partitioned FAT12 volume; FAT16 and FAT32 volumes with good, broken and circular chains; eleven wrong boot sectors; three drivers; any number of faults | **implements `FileTransfer`**; a good file is copied; no read outside the volume; every copy ends, unless an exchange that is repeated fails for ever |
| `bios` | one module with 36 delays, every phase, windows of every position; RAMs with a dead address line or a stuck bit; lines of two of two letters, history of two, three commands of which two fit into the list, four entered lines | strobes aligned; trainable modules work; no boot into a faulty memory after a reset; the terminal shows the line; **implements `LineEditor`** |
| `sdram_stated` | two modules of any two phases | the second disagreement of section 5 |

**Why these bounds are enough.**

* `pong`: the table is large enough for the planes, walls and centre to be distinct, and for the
  ball to meet a paddle that moved since the last update; the commands include one past either
  end (clamped), one at the centre and one off-centre, so that each ball can be hit, missed and
  grazed; two points let both sides be one point short. The proofs cover every other geometry.
* `pong_main`: one reading on either side of the centre and an invalid one; the garbage lies inside
  and outside of the table. The commands are all positions between them, which contains what the
  loop can reach: TLC evaluates `ReachableAssumption`, and `PlaysPong` would fail if the set were
  too small.
* `sonar`: the divisor 4 has a rounding threshold inside the ticks, and an echo
  can start and end at every clock up to the deadline. The counter does not saturate, as it does not in
  the hardware: a period of 600000 clocks is 1020 cm long, and the counter holds 4095.
* `uart`: the rings wrap around many times and are full, empty and in between; two distinct
  characters show reordering, loss and duplication.
* `board`: two periods that share no divisor with the cycle of 11, so every position of the
  wrap-around occurs; sprites at both edges and in the middle; both an address somebody answers to
  and one nobody does, data over the end of the memory, a reset at every line state; 9 cells need
  two bytes of 3 bits, so that the size of an address is right, too small, too large, or refused at
  both ends; texts inside a page and across its end, at every address.
* `boot`: three line faults are one more than the failures allowed in one frame, and may fall on any
  byte; the bad lengths are shorter (0), other (1) and longer (3) than the true ones. The discs name
  the address before, after or not at all, nest arguments, miss a file, put one over another, or
  name one that begins like a register; a buffer with garbage holds nothing, a good image, or an
  address and a missing image, alone or behind the file.
* `score_uplink`: the middle one of three games has a game before it and after it.
* `net`: block numbers wrap after two blocks, so the get of 4 half blocks has one more than there are
  numbers; the put of whole blocks ends with an empty one; a second call meets the frames of the
  first, of the same host or the other.
* `disk`: three clusters allow chains that end, end early, loop, join, or leave the FAT; FAT12
  entries straddle a sector; a file ends inside a sector, at its end, inside a cluster; a name is
  found by short name, long name, in a directory over two clusters, or not for three reasons.
* `bios`: windows begin before the scan, end with it or are split by the wrap-around; every word
  and bit is stuck at 0 and at 1; history shorter and longer than what was entered; commands
  with a common beginning.

**Stopping.** `CHECK_DEADLOCK FALSE` is said where the program really may stop, or the bounds on
what others do are used up: a won game (`pong`, `pong_main`), the last call (`board`, `net`,
`disk`), a program that was started or a console that nobody uses (`boot`, `bios`), a last result
that has been read (`score_uplink`), a module that has been trained (`sdram_stated`).

**Fairness** is only what the machine gives: the processor goes on (`WF` of the program's steps,
`SF` of the interrupted program, which is enabled on and off as interrupts come), an enabled
interrupt is taken (`SF`, because the program masks it from time to time), clocks and shift
registers run (`WF`), the parser reads what is there (`WF`), loops that count their polls come to
the end of the count (`WF` of the timeouts of `Udp` and `Tftp`) whatever arrives, except the one of
a TFTP transfer: data set its count back, so that `Timeout` is enabled only between two arrivals,
and `CallReturns` excepts data that arrive for ever. A driver goes on with a request (`WF` of
`Driver /\ ~ Repeats`), except in an exchange that it repeats without counting: there nothing is
assumed, and `CopyReturns` excepts one that fails for ever. The serial host, a program on a PC, goes
on too. Nothing is assumed of players, sensors, the line, the network, its servers, media, the
operator or the program that calls a driver.

## 4. What is assumed

* `SerialBoot`: the checksum detects every damaged frame; a frame is never lost as a whole
  (the device cannot notice that, and the protocol has no sequence numbers); the host is patient:
  unless the reply is success, it lets the line fall silent before it sends again. Without the
  last, a reply to the remains of a broken frame could be taken for the reply to the next one.
* `Uart`: the FIFOs are empty when `uart_init` runs. Characters that arrive earlier can lose
  their event to its clearing; this is listed as a hazard.
* `Sonar`: an echo ends before `EchoDeadline`, as the sensor gives up after 38 ms of a 60 ms
  period; a pulse rises only while the counter is idle. `SonarAssumption` says that the deadline lies
  between the trigger (100 clocks) and the end of the period, `RangeAssumption` that the counter holds
  an echo of that length: 380000 clocks are 645 cm.
* `GameTimer`: an event is polled again within `MaxGap` clocks, with
  `Period + 1 + MaxGap <= Reload`. For the real numbers this says that an iteration of the loop
  takes less than about two seconds. Nothing in the code enforces it.
* `Pong`: `GeometryAssumption`, which holds of the constants of the code: the planes of contact do not
  meet at the centre, a paddle is no longer than the table is high, coordinates fit an `int16_t`.
* `PongMain`: `MarginAssumption`: a ball behind a paddle is still on the screen (`PADDLE_OFFSET` 20
  against half a `BALL_WIDTH`, 15). `ReachableAssumption`: `Command` contains the first targets and
  is closed under `Smooth`; the set of all that an `int16_t` holds is such a set, so this excludes
  nothing.
* `Vga`: `VgaAssumption`: the blanks are positive, and `CURSOR_HEIGHT` (160) and `BALL_SIDE` (30) are
  even, as the drawer halves them.
* `I2c`: addresses of slaves have seven bits, and the address of the slave's last cell fits into its
  `ADDR_SIZE` bytes, 1 to 4. The user gives `i2c_reset` once after a read of 0 bytes and twice after
  a reset of the processor before he relies on the bus again; nothing is
  promised of the first of those two. What is written or read is
  promised for the slave's own size of an address and a cell that it has; with another size the
  slave takes bytes of the one for the other.
* `SpiFlash`: `Divisors` is 0 to some `d`, the range of the register; a sector is a number of whole
  pages; texts are not empty, and do not run over the end of the flash, which the code does not check.
* `Sdram`, `Memtest`, `BiosMain`: numbers of modules, delays, words and bits are positive, a quarter
  of the clock is a whole number of taps and the delays cover more than it (the code computes with
  the quarter); a module that training has left broken reads as bits of the word. A module without a
  write delay is taken for one that does not work; the code leaves its delay at 0 (`sdram.c:696`),
  where it might.
* `Tftp`: there are at least two block numbers and one try (65536 and 5 in the code), and
  `total_length` is counted up to `MaxLength`, which no file is longer than: repeated DATA could
  count on for ever. A server honours the block size it is asked for and works in lock step. The
  promise of a call is void when a packet of an earlier call arrives in it (`disturbed`), since the
  code compares neither ports nor addresses of what it receives.
* `DiskBoot`: the promise is void once a driver has answered a failed read with `RES_OK` (`wrong`),
  which the SD drivers do. Sectors and sizes are natural numbers, in the code they have 32 bits: a
  volume whose boot sector makes a sum of them wrap around is outside the model. The checksums of
  blocks in SPI mode are discarded, so damaged data counts as such a failure.
* `FatFs`: sizes are positive, an entry (32) divides a sector (512), the limits on clusters of
  FAT12, FAT16 and FAT32 increase. `MediaAssumption` is about the medium: what is read from it is a
  natural number *whatever it is*, and the volume is what the boot sector that `mount_volume`
  accepts says it is (`TotSec` sectors from where it lies). Nothing else is assumed of boot sectors,
  FATs or directories.
* `BootSequence`: the JSON files are well formed and have no more tokens than the buffer: what
  `jsmn_parse` makes of them is their members in order. This is `DocumentAssumption`, which TLC
  evaluates for the files of the run with `jsmn_parse` as `Json` models it; for other texts its
  negative results end up in a `uint8_t`, after which the code reads tokens that do not exist. What
  a buffer with garbage is taken for (`Remains`) is any list of entries whose images have addresses
  of the RAM. `JumpsToImages` then speaks of what the buffer names, not of the file: the code may
  jump without the images of the file, and `FirstMediumBoots` excepts it.
* `Console`: lines are shorter than the buffer. A line that fills it makes the code write the
  closing zero behind it. `ConsoleAssumption`: the names of commands are not empty and none begins
  another (so a command cannot be completed past its end), and a blank is not among the typed characters
  (a row that ends in blanks looks like a shorter one).
* `SpiFlash`: `FastestThatReads` is void if the chip was busy when the search began.

## 5. Disagreements found

**Periods.** `software/app/main.c` computes its periods from `CLOCK_FREQUENCY` 100 MHz, and the SoC is
built for 75 MHz (`hardware/soc.py`). Since the timer counts system clocks, 1/480 s becomes 1/360 s:
updates and samples come a third later than the constants say. The run
`game_timer_stated` shows a poll that finds nothing although the stated time is over. The game
is not wrong in other respects: no property depends on the real rate.

**Command delay.** `sdram_write_leveling_find_cmd_delay` says that it wants the higher number of
valid modules and a centred delay (`sdram.c:786`). It compares the number first, so that a delay
with fewer valid modules is never taken; but one with more is not taken either unless it is also
strictly better centred than the one kept so far. The run `sdram_stated` shows two modules for which
it keeps an earlier delay that leaves one without a write delay, at least as well centred as a later
one that suits both.

Also met, without a run of their own:

* The vertical front porch is said to be one line (`vga_driver.v:10`) and has none: the comparison takes
  one off for a register that is one *clock* behind, not one line.
* `tftp_get` returns the number of bytes that arrived in DATA packets, repeated ones included
  (`tftp.c:123`), so the result is at least the length, not the length; a file of 65536 blocks or
  more ends in -1. An error packet with code 0 is ignored; a write request answered by an OACK never
  starts.
* The number of tokens is a `uint8_t` (`boot.c:461`), keys are compared by their beginning only, so
  that an image named `r1.bin` is taken for a register and never copied (modelled);
  `sdcardboot_from_json` and `sataboot_from_json` ignore the result of their read and parse the
  buffer as it is (`boot.c:749`, `boot.c:930`; modelled); a disk's empty `boot.bin` is booted; the
  `boot` command reads its third register into the second (`cmds/cmd_boot.c:54`).
* `sata_write` waits for the engine that reads (`sata.c:141`); `sdcard.c` and `sata.c:108` repeat
  what has failed for ever.
* The boot commands of the console (`cmds/cmd_boot.c:60`, 86, 106, 116, 126) start a program without
  looking at `sdr_ok`: that only a sound memory is booted into is true of the boot after a reset.
* One `i2c_reset`, of which `cmds/cmd_i2c.c:18` says "Reset I2C line state in case a slave locks the
  line", does not free every slave: its clocks may turn an address that a reset has cut into one for
  reading, and it then ends while the slave sends a 0. A second one does (`CallsAreExact`).
* `hcsr04.vhd:243` gives 588 clocks for a centimetre, and the counter spends one more on each
  (`incrementa_cm`): after 293 cm it is half a centimetre short. The game uses the first 30.
* `i2c_send_init_cmds` calls `i2c_write` with an argument too few, so that it cannot be compiled in.
* In write leveling "Ensure write delay is just before transition" (`sdram.c:716`) has no effect on
  the result; `sdram_bist` forgets the read errors of earlier loops.

## 6. What is proved

The proofs hold for every value of the constants that the named assumptions admit. Seldom is a
property inductive as it stands; each module below has an invariant that is, of named parts, and says
why they are needed. The theorems are listed in `PROJECT.json`.

**`GameProofs`.** *Rules*: `BallInField` is not inductive: whether the ball stops at a wall depends
on where it was heading when it got there. `IInv` adds `Heading`: at a wall the ball heads outwards,
and from a plane of contact on it heads to that paddle. From `Spec => []IInv` follow the bounds of
the ball, the single winner and `TurnsOnlyAtContact`; `PaddlesInside` holds whatever is commanded.
The loop has the invariant `MainIInv`. The drawer's registers are right only once a first frame is
drawn, and that is drawn register by register: `Drawn` says how far it has come, and
`SpritesOnScreen` follows, between two register writes too. `ReportedOnce` needs that the step that
wins starts without a winner. `LoopPlaysByTheRules` proves `MainSpec => Spec`: the bounds of the
rules carry over to the loop.

*Sensor*: `EchoInv` accounts in every state of the counter's control unit for each clock at which
the pulse was high: two before the counting, `R + 1` per centimetre, `tick` under way;
`MeasuresPulse` follows for every divisor and every pulse that fits the counter, against the `R`
clocks that stand for a centimetre: the clocks at which the counter does not tick are part of its
bound (`Lost`). That the interface, which clears the counter and latches its result blindly, never
cuts a measurement off rests on a timetable: `Schedule`, `Trigger` and `EchoTime` say in which
clocks of a period each machine may be in each of its states, and `Settled` what the counter holds
once it rests. With it `SonarSpec => EchoSpec`, so the theorems about the counter hold inside the
interface, and `ReadingIsAnEcho` follows. All of it with resets of the processor in any clock: they
move the control unit to its first state, so the timetable says what it may find there
(`TriggersAreWhole`).

**`BoardProofs`.** *Time base*: `TimerInv` ties the program's arithmetic to the true age
(`DtIsTheAge`, `AgeIsKnown`) and bounds it: a poll that finds nothing leaves at most `Period + 1`,
and the next one comes within `MaxGap`, so no whole cycle is ever missed. `NeverLate`
(`EventsAreNotLate`) needs that the stated periods are the ones in use, which is the first
disagreement's point. *Servo*: `PulseOK` says that while the output is high the counter tells for
how long, and `WidthOK` that a period that began after the last change has the width asked for; so
no pulse is cut or stretched, by an asynchronous reset either. *Video*: `SyncOK` gives the sync
signals as functions of the counters, with the clock by which they lag; `ColumnOK` and `RowOK` tie
what the monitor has counted to them. `FrameIsRight` follows with a lemma that the comparators of
the drawer mean the areas of the sprites. *Flash clock*: while the search is on, the clock is at
most one step below the fastest that reads. *Flash contents*: `FlashInv` says, for each point of a
command (between commands, enabling, half sent, executed), what the chip has seen of it, and that
the contents after this page and what is `left` are the ones that were promised. That pages never
wrap is `ToPageEnd`; that programming a page and writing a text are the same then is a lemma on sets
of cells. `DevicesRunAlone` proves that a behaviour of the board is one of each of these devices,
and `BoardIsRight` collects their properties.

**`I2cProofs`.** The invariant `I2cInv` says at every bit and line state where the slave stands:
`StartAt`, `TransmitAt`, `ReceiveAt` and `StopAt` are its state, what it has shifted in and what it
drives as functions of the operation, the bit and the edge, `Deaf` that one which was not addressed
is off after the acknowledge. The address is received byte by byte: after each one the slave's
pointer is what has been sent of it (`Shifted`), modulo its cells. `Heads` is what of the call has
been written or read by then. A lemma per operation takes one line state to the next
(`TransmitGoes`, `ReceiveGoes`). After a reset nothing is known of the slave but that it is one
(`SlaveOK`, `Stuck`): the clocks of the first `i2c_reset` drain a byte that is being sent
(`Draining`), so that the worst case is a slave stopped while it sends a 0, and from there the
second one ends with a free bus. Bytes are numbers: `TopBits` is the part that has been shifted, and
powers of two come from the library's theorem on the number of subsets. `CallsAreExact` follows for
every width of a byte, every address and size of it, every text and every length, 0 included,
wherever the processor is reset.

**`SerialProofs`.** *Console driver*: `Ring` is the contents of a ring as a sequence; the lemmas
`RingPush` and `RingPop` say that the handler's and the program's index arithmetic appends and takes
the head, for every size. The invariant has `WriteInv`: from its test to its last step `uart_write`
has the interrupt masked, so the free cell stays free and a ring found empty stays empty; without it
the direct write would overtake the ring. Every step then is one of five things to a queue (nothing,
accept, move from ring to FIFO, deliver, drop), each a step of `Channel` or a stutter:
`OutputIsChannel` and `InputIsChannel`.
*Score upload*: `StoredOnceInOrder` speaks of the database only. `WayInOrder` extends it along the
way: stored games come before those on the line, and these before the ones that are still to be
played, whatever is cut, reset or fails; every step moves one result along that way or drops it.

**`BootProofs`.** *Serial*: what a jump finds in memory rests on what a reply means to the host: a
"K" answers the frame it has sent last, all of it. `RoundOK` says which bytes of that frame are
under way, `StartOK` that an intact frame is possible only while nothing has been replied: once a
byte of a round has been taken for a broken frame, no whole one is left. Then memory is what the
host believes it to be (`MemoryOK`), for any number of chunks, any faults and any loss:
`SerialBootIsWhole`. *Methods*: `ScannedOK` ties address, registers and images found to the entries
behind the cursor, `CopiedOK` says that the images up to it are in RAM, and `PassedOK` that no
medium passed over has one that it could have booted, unless a copy has failed. With `SerialInv`
they give `OnlyWholeImagesStart` and `FirstImageStarts` for every content of the media, every set of
names that begin like a key, every order of the methods and any failures. The entries are those in
the buffer: of the file, unless its read has failed unnoticed or what lies behind it has been taken
for more of it, and then what is there (`garbled`).

**`TftpProofs`.** Frames stay on the wire, so an invariant about what is on the wire is one about all
late, repeated and reordered answers. `CacheOK` is what ARP has found out (`RequestsReachTheHost`
follows). `FramesOK` and `SessionsOK` say what each frame proves: a DATA packet of a server, that it
had all earlier blocks acknowledged; an ACK, that the server has the block; a packet of this call, that
its content is of this call. `TransferOK` concludes that an acknowledged block is in the buffer and
a finished put is at the server. Files may have more blocks than
there are block numbers. The safety part of `TransfersFiles` is the theorem
`TransfersAreWhole`, for every length, modulus, number of tries, calls and sessions.

**`BiosProofs`.** *Memory*: after each pass `Tests` says which pattern the RAM holds as far as its
stuck bits let it (`Wrote`), and which got through (`Passed`); two complementary patterns leave no
bit stuck (`NothingStuck`), and the third pass then finds two addresses of one cell, since the data
differ. `BootsOnSoundMemory` follows for every array with any combination of faults; it is about the
boot after a reset, not about the console's boot commands. *Strobes*: `ScanFindsTheEdge` is about
windows that wrap or begin before the scan, in arithmetic modulo a clock; `StrobeInv` adds when the
delays are set at all. *Training*: `LatencyFound` is what the calibration leaves, and
`TrainedModulesWork` follows with lemmas on the window that the read scan sees and its centre. That
a finite set has a least number is proved with the library's well-founded induction, instantiated
where no operator is a parameter (`LeastNumber`). *Console*: the row is right because of what each
echo does to it: `Painted` is a row with a string painted over it from a column on, `LooksLike` that
a row is a line and then blanks, and `ConsoleInv` adds to `ShowsTheLine` that the cursors lie in the
line and the history. A lemma per echo (`putnstr`, `Backspace`, `Shows`), and one by induction on
the number of characters for a string that is added, take them from key to key. For `EditsTheLine`
the ring is unrolled: `Ring` is the list that the indices `hist_add_idx` and `hist_max` stand for,
`Behind` how far back the displayed line is, and `RingOK` that the ring is filled from its start;
the candidates' agreement, a loop over positions in the code, is their longest common beginning.

**`DiskProofs`.** `MountedGeometry` draws from the checks of `mount_volume` alone, with lemmas about
division, that root, FAT and clusters lie in the volume one after another and that the FAT has an
entry for every cluster. `DiskInv` keeps the cursors inside: the directory is at an entry of the
static root or of a cluster (`AtDir`) or at the end of one (`AtEnd`), the file at a cluster of it
with as much left to read as it has (`AtFile`). A chain may lead anywhere: it is the comparison with
`n_fatent` that holds it inside. The drivers only take requests away (`DriversAnswer`). So
`ReadsStayInVolume` holds for every boot sector that is accepted, every FAT, every directory and
every failure of a driver.

**Only model-checked.**

* All liveness, with the fairness it rests on, is out of the prover's reach: `RallyGoesOn`,
  `EchoIsDisplayed`, `WriteReturns`, `InputIsServed`, `BootEnds`, `ResultArrives`, `CallReturns`,
  `CopyReturns`, and the fairness in `PlaysPong`.
* `GoodFilesAreCopied`, `CopiesTheFile`: that the bytes are those of the file needs, on top of
  `DiskInv`, the walk of a path as a function of the medium, with induction over directories, long
  names and chains.
* What `jsmn_parse` does to a text is evaluated, not proved (`DocumentAssumption`).

## 7. What is not modelled

* The crossing of `medida` into the clock of the processor, which has no synchronizer: what a torn
  read returns depends on routing delays per bit. `PongMain` covers any reading the instance names.
* `msleep` reprograms the timer; it is called only after a win, when `elapsed` is not used again.
* `uart_init` with characters in the FIFO (see section 4).
* SD and SATA writing and the choice of the SD clock: FatFs is configured read-only, only debug
  commands write. The larger part of `ff.c` is configured away in the same manner (writing, exFAT,
  formatting), and `ffunicode.c` consists of tables; together they are most of the lines of the
  repository. `f_lseek` and directory listing are compiled and never called.
* DQ-DQS training, built-in self test and debug commands of the SDRAM library; `memtest_addr`, which
  never runs for the sizes in use; `memtest_access` (`memtest.c:52`), which ends the test at once on
  a bus error; the speed measurements.
* The dispatch of console commands, the commands that only parse arguments, MDIO, checksums,
  progress bars, `system.c`: no state, or no decision on it. The console's boot commands are among them.
* A line that fills the buffer of the console, with the beep (`readline.c:156`): lines are shorter
  (section 4).
* The count of `flash_write`, a number of calls of `write_to_flash` (`cmd_spiflash.c:53`), of which
  one is modelled; the clamp of `spiflash.c:114`, which never acts on what `write_to_flash` gives
  it.
* The contents of a buffer that `jsmn_parse` refuses.
* `hardware/custom/contador.v` is not instantiated by the SoC; `soc.py` is wiring.
* Dashboard and demo are pure I/O or stock code; the C library and the compiler runtime are
  third-party and used unchanged; the trap code for other processors is not built.

## 8. Plan

What would add most to this project, in this order:

1. *The disk*: that a good file is copied, for every medium: a fault-free copy as a walk over
   the entries of a directory and the clusters of a chain.
2. *JSON*: that `jsmn_parse` takes a well-formed text apart, with the text as a history and the
   super-token as a stack.
3. *The whole boot*: `Tftp` and `DiskBoot` as the media of `BootSequence`, where it now takes the
   promise of `FileTransfer`.
