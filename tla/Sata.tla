-------------------------------- MODULE Sata --------------------------------
(***************************************************************************)
(* The SATA driver, liblitesata/sata.c.  A step is an attempt to bring the *)
(* link up and identify the disk, or an attempt to read a sector.          *)
(***************************************************************************)
EXTENDS DiskOps

sata_init ==
  /\ Asked("sata", "init") /\ step = 1
  /\ \/ InitEnds(TRUE) /\ NoFault
     \/ InitGoesOn(1, timeout - 1) /\ Fault
  /\ UNCHANGED <<card, wrong>>

(* sata_read: step is i.  A sector is read until there is no error.        *)
sata_read ==
  /\ Asked("sata", "read") /\ UNCHANGED <<status, card, wrong>>
  /\ \/ /\ IF step + 1 = req.count THEN Answer(TRUE) ELSE Continue(step + 1, 0)
        /\ NoFault
     \/ Continue(step, 0) /\ Fault

SataNext == Begin("sata") \/ sata_init \/ sata_read
=============================================================================
