------------------------------ MODULE DiskOps -------------------------------
(***************************************************************************)
(* Between FatFs and the driver of the medium: libfatfs/diskio.h.  FatFs   *)
(* asks and waits for the answer; FfDiskOps points to one driver, which    *)
(* serves one request at a time.                                           *)
(***************************************************************************)
EXTENDS Integers, Sequences, FiniteSets

CONSTANTS
  InitTries       \* 1000, and 16 for SATA: attempts to wake the medium

ASSUME DiskOpsAssumption == InitTries \in Nat \ {0}

VARIABLES
  FfDiskOps,      \* the driver: "sdcard", "spisdcard" or "sata"
  req,            \* the request being served, or NoReq
  ok,             \* whether the last one was answered with success
  window,         \* winsect: the sector held in fs->win
  status,         \* the driver's: initialized
  step, timeout,  \* where the driver is in its initialization or in its read
  card,           \* external: the state of the medium
  faulty,         \* history: an exchange with the medium has failed
  failing,        \* history: the last one has
  wrong           \* history: a read that failed was answered with success

driverVars == <<status, step, timeout, card, faulty, failing, wrong>>
diskVars == <<FfDiskOps, req, ok, window, driverVars>>

NoReq == <<>>
NoSector == -1

Drivers == {"sdcard", "spisdcard", "sata"}

DiskInit ==
  /\ req = NoReq /\ ok = TRUE /\ window = NoSector
  /\ status = FALSE /\ step = 0 /\ timeout = 0
  /\ card = [state |-> "off", app |-> FALSE]
  /\ faulty = FALSE /\ failing = FALSE /\ wrong = FALSE

(* The medium is external: any exchange with it may fail, or all may.      *)
Fault == faulty' = TRUE /\ failing' = TRUE
NoFault == UNCHANGED faulty /\ failing' = FALSE

(* disk_initialize, and disk_read into the window or the caller's buffer.  *)
disk_initialize == req' = [op |-> "init"] /\ UNCHANGED <<ok, window>>
disk_read(s, n, w) ==
  req' = [op |-> "read", sect |-> s, count |-> n, win |-> w] /\ UNCHANGED <<ok, window>>

(* Nothing is read when the sector is in the window.                       *)
move_window(s) ==
  IF s = window THEN ok' = TRUE /\ UNCHANGED <<req, window>> ELSE disk_read(s, 1, TRUE)

(* The driver answers.  After a failure nothing is in the window.          *)
Asked(d, op) == FfDiskOps = d /\ req # NoReq /\ req.op = op
Answer(r) ==
  /\ req' = NoReq /\ ok' = r /\ step' = 0 /\ timeout' = 0
  /\ window' = IF req.op = "read" /\ req.win THEN (IF r THEN req.sect ELSE NoSector)
               ELSE window
Continue(s, t) == step' = s /\ timeout' = t /\ UNCHANGED <<req, ok, window>>

(* A drive that is initialized is not initialized again.                   *)
Begin(d) ==
  /\ Asked(d, "init") /\ step = 0
  /\ IF status THEN Answer(TRUE) ELSE Continue(1, InitTries)
  /\ NoFault /\ UNCHANGED <<status, card, wrong>>
InitEnds(r) == Answer(r) /\ status' = r
InitGoesOn_fault(s, t) == Continue(s, InitTries) /\ UNCHANGED status
InitGoesOn(s, t) == IF t = 0 THEN InitEnds(FALSE) ELSE Continue(s, t) /\ UNCHANGED status
=============================================================================
