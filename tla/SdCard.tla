------------------------------- MODULE SdCard -------------------------------
(***************************************************************************)
(* The two drivers of an SD card.                                          *)
(*                                                                         *)
(* The SD mode driver, liblitesdcard/sdcard.c.  A step is one command and  *)
(* its answer, or the data phase after it.  The card is external: it       *)
(* executes a command in the states the SD specification allows it in, and *)
(* answers; the command or the answer may get lost.                        *)
(***************************************************************************)
EXTENDS DiskOps

(* The states in which the card takes a command, and the state after it.   *)
All == {"off", "idle", "ready", "ident", "stby", "tran", "data"}
Command(from, to) == [from |-> from, to |-> to]
Commands ==
  [GO_IDLE |-> Command(All, "idle"), SEND_EXT_CSD |-> Command({"idle"}, "idle"),
   APP_SEND_OP_COND |-> Command({"idle"}, "ready"),
   ALL_SEND_CID |-> Command({"ready"}, "ident"),
   SET_RELATIVE_ADDRESS |-> Command({"ident"}, "stby"),
   SEND_CID |-> Command({"stby"}, "stby"), SEND_CSD |-> Command({"stby"}, "stby"),
   SELECT_CARD |-> Command({"stby"}, "tran"),
   APP_SET_BUS_WIDTH |-> Command({"tran"}, "tran"), SWITCH |-> Command({"tran"}, "tran"),
   APP_SEND_SCR |-> Command({"tran"}, "tran"), SET_BLOCKLEN |-> Command({"tran"}, "tran"),
   READ_SINGLE_BLOCK |-> Command({"tran"}, "tran"),
   READ_MULTIPLE_BLOCK |-> Command({"tran"}, "data"),
   STOP_TRANSMISSION |-> Command({"data"}, "tran")]
Application == {"APP_SEND_OP_COND", "APP_SET_BUS_WIDTH", "APP_SEND_SCR"}

Legal(c) ==
  IF c = "APP_CMD" THEN card.state \in {"idle", "stby", "tran"}
  ELSE card.state \in Commands[c].from /\ card.app = (c \in Application)

Execute(c) == card' = IF c = "APP_CMD" THEN [card EXCEPT !.app = TRUE]
                      ELSE [state |-> Commands[c].to, app |-> FALSE]

(* sdcard_send_command: answered is SD_OK.                                 *)
sdcard_send_command(c, answered) ==
  \/ Legal(c) /\ answered /\ Execute(c) /\ NoFault
  \/ Legal(c) /\ ~ answered /\ Execute(c) /\ Fault
  \/ Legal(c) /\ ~ answered /\ Fault /\ UNCHANGED card
  \/ ~ Legal(c) /\ ~ answered /\ NoFault /\ UNCHANGED card

(* sdcard_init.  GO_IDLE is repeated, and APP_SEND_OP_COND, after an       *)
(* APP_CMD whose result is not looked at, until the card says it is ready; *)
(* SWITCH and APP_SEND_SCR are repeated for ever, and data follows them.   *)
Sequence ==
  <<"GO_IDLE", "SEND_EXT_CSD", "APP_CMD", "APP_SEND_OP_COND", "ALL_SEND_CID",
    "SET_RELATIVE_ADDRESS", "SEND_CID", "SEND_CSD", "SELECT_CARD", "APP_CMD",
    "APP_SET_BUS_WIDTH", "SWITCH", "APP_CMD", "APP_SEND_SCR", "SET_BLOCKLEN">>
OpCond == 4

Advance ==
  IF step = Len(Sequence) THEN InitEnds(TRUE)
  ELSE InitGoesOn(step + 1, IF step = OpCond - 1 THEN timeout ELSE InitTries)

sdcard_init ==
  /\ Asked("sdcard", "init") /\ step > 0
  /\ LET c == Sequence[step] IN
     \/ sdcard_send_command(c, TRUE) /\ Advance
     \/ /\ c \in {"SWITCH", "APP_SEND_SCR"} /\ Legal(c)       \* the data does not arrive
        /\ Execute(c) /\ Fault /\ InitEnds(FALSE)
     \/ /\ step = OpCond /\ Legal(c)                          \* the card is still busy
        /\ card' = [card EXCEPT !.app = FALSE]
        /\ InitGoesOn(step - 1, timeout - 1) /\ NoFault
     \/ /\ sdcard_send_command(c, FALSE)
        /\ IF step = 1 THEN InitGoesOn(step, timeout - 1)
           ELSE IF step = OpCond THEN InitGoesOn(step - 1, timeout - 1)
           ELSE IF step = OpCond - 1 THEN InitGoesOn(OpCond, timeout)
           ELSE IF c \in {"SWITCH", "APP_SEND_SCR"} THEN InitGoesOn(step, timeout)
           ELSE InitEnds(FALSE)
  /\ UNCHANGED wrong

(* sdcard_read: the command is repeated for ever.  The result of the data  *)
(* phase is not looked at: data with a bad CRC is taken for good, and for  *)
(* data that does not arrive the DMA is waited for (step 3).  Several      *)
(* blocks end with a STOP_TRANSMISSION whose result is not looked at.      *)
Several == req.count > 1
ReadCommand == IF Several THEN "READ_MULTIPLE_BLOCK" ELSE "READ_SINGLE_BLOCK"

sdcard_read ==
  /\ Asked("sdcard", "read") /\ UNCHANGED status
  /\ \/ /\ step = 0
        /\ \/ sdcard_send_command(ReadCommand, TRUE) /\ Continue(1, 0)
           \/ sdcard_send_command(ReadCommand, FALSE) /\ Continue(0, 0)
        /\ UNCHANGED wrong
     \/ /\ step = 1
        /\ \/ /\ IF Several THEN Continue(2, 0) ELSE Answer(TRUE)
              /\ \/ UNCHANGED wrong /\ NoFault
                 \/ wrong' = TRUE /\ Fault
           \/ Continue(3, 0) /\ Fault /\ UNCHANGED wrong
        /\ UNCHANGED card
     \/ /\ step = 2 /\ Answer(TRUE)
        /\ \E answered \in BOOLEAN : sdcard_send_command("STOP_TRANSMISSION", answered)
        /\ UNCHANGED wrong

SdNext == Begin("sdcard") \/ sdcard_init \/ sdcard_read

(***************************************************************************)
(* The SPI mode driver, liblitesdcard/spisdcard.c.  A step is a command    *)
(* and its response, or a block.  CMD55 goes out with the ACMD it          *)
(* announces.  The CRCs of the blocks are not checked.                     *)
(***************************************************************************)

(* spisdcard_init: CMD0 and ACMD41 are repeated until the response is 1,   *)
(* and 0; CMD8 is sent once.                                               *)
spisdcard_init ==
  /\ Asked("spisdcard", "init") /\ step > 0
  /\ \/ /\ card' = [card EXCEPT !.state = IF step = 3 THEN "ready" ELSE "idle"]
        /\ IF step = 3 THEN InitEnds(TRUE) ELSE InitGoesOn(step + 1, InitTries)
        /\ NoFault
     \/ /\ step = 3 /\ InitGoesOn(step, timeout - 1)          \* the card is still busy
        /\ NoFault /\ UNCHANGED card
     \/ /\ IF step = 2 THEN InitEnds(FALSE) ELSE InitGoesOn(step, timeout - 1)
        /\ Fault /\ UNCHANGED card
  /\ UNCHANGED wrong

(* spisd_disk_read.  Steps: 0 CMD17 or CMD18, n + 1 after n blocks, then   *)
(* CMD12 after a CMD18, whether or not all the blocks came, but not when   *)
(* the response to CMD18 is lost.  A card that has not seen CMD12, or not  *)
(* sent its block, goes on sending; the next command may take a byte of    *)
(* its data for the response, and a CMD12 after it may stop the card.      *)
StopReading ==
  /\ Answer(timeout = 0)
  /\ \/ card' = [card EXCEPT !.state = "ready"] /\ NoFault
     \/ card' = [card EXCEPT !.state = "data"] /\ req.count > 1 /\ Fault

spisd_disk_read ==
  /\ Asked("spisdcard", "read") /\ UNCHANGED status
  /\ \/ /\ step = 0 /\ card.state = "ready"
        /\ \/ Continue(1, 0) /\ NoFault /\ UNCHANGED card
           \/ Answer(FALSE) /\ Fault /\ UNCHANGED card
           \/ Answer(FALSE) /\ Fault /\ card' = [card EXCEPT !.state = "data"]
        /\ UNCHANGED wrong
     \/ /\ step = 0 /\ card.state = "data"
        /\ \E taken \in BOOLEAN : Answer(taken) /\ wrong' = (wrong \/ taken)
        /\ \E s \in {"data", "ready"} : card' = [card EXCEPT !.state = s]
        /\ NoFault
     \/ /\ step > 0 /\ step <= req.count /\ Continue(step + 1, 0)
        /\ \/ NoFault /\ UNCHANGED wrong
           \/ wrong' = TRUE /\ Fault
        /\ UNCHANGED card
     \/ /\ step > 0 /\ step <= req.count                      \* no start of block
        /\ Continue(req.count + 1, 1) /\ Fault /\ UNCHANGED <<card, wrong>>
     \/ step = req.count + 1 /\ StopReading /\ UNCHANGED wrong

SpiNext == Begin("spisdcard") \/ spisdcard_init \/ spisd_disk_read
=============================================================================
