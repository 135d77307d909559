---------------------------- MODULE FileTransfer ----------------------------
(***************************************************************************)
(* What the calls that move a file promise: tftp_get and tftp_put of       *)
(* libliteeth/tftp.c, and the copies from a disk of bios/boot.c.  A call   *)
(* ends with -1, or with the whole file: in the caller's buffer, or on the *)
(* server after a put.  Between calls nothing is written.  The promise is  *)
(* void for a call that is disturbed: by a packet of an earlier call, as   *)
(* TFTP's transfer identifiers are not checked, or by a driver that gives  *)
(* bad data for good.                                                      *)
(***************************************************************************)
EXTENDS Integers

VARIABLES
  busy,         \* a call is transferring
  here, there,  \* the whole file of the call is in the buffer, on the server
  buffer,
  length,       \* length of the file
  disturbed,    \* the promise is void
  result

transferVars == <<busy, here, there, buffer, length, disturbed, result>>

TransferInit == ~ busy

Start == ~ busy /\ busy' /\ ~ disturbed' /\ UNCHANGED buffer

Work == busy /\ busy' /\ UNCHANGED <<length, result>> /\ (disturbed => disturbed')

Return ==
  /\ busy /\ ~ busy'
  /\ disturbed => disturbed'
  /\ \/ result' = -1
     \/ disturbed'
     \/ result' >= length /\ (here' \/ there')

Rest == ~ busy /\ ~ busy' /\ UNCHANGED buffer

TransferSpec == TransferInit /\ [][Start \/ Work \/ Return \/ Rest]_transferVars
=============================================================================
