-------------------------------- MODULE Tftp --------------------------------
(***************************************************************************)
(* The TFTP client, libliteeth/tftp.c, over Udp.  A step is one call of    *)
(* udp_service with the test of its result by the loop around it, or the   *)
(* end of the polls of a loop.  Lengths are in units of half a block.  The *)
(* servers are external: each request starts a transfer of its own, on a   *)
(* port of its own, in lock step, with the block size that was asked for.  *)
(***************************************************************************)
EXTENDS Udp

CONSTANTS
  Transfers,    \* <<get or put, host, length>> of the calls
  Wrap,         \* block numbers are 16 bits: 2^16
  Tries,        \* 5
  MaxCalls, MaxSessions,   \* bounds of the model
  MaxLength                \* bound: total_length counts up to here

ASSUME TftpAssumption ==
  /\ Transfers \subseteq {"get", "put"} \X Hosts \X Nat /\ {Wrap, Tries, MaxCalls, MaxSessions, MaxLength} \subseteq Nat
  /\ Wrap > 1 /\ Tries > 0 /\ \A t \in Transfers : t[3] <= MaxLength

VARIABLES
  pc, calls,              \* where the client is, the number of its call
  op, host, length,       \* the arguments of the call
  total_length, transfer_finished, last_ack, data_port, block, tries,
  length_changed,         \* length_before # total_length: i is to be set back
  buffer,                 \* dst_buffer: the content of each of its blocks
  sessions,               \* the transfers the servers have started
  disturbed,              \* history: a packet of an earlier call arrived
  result

arguments == <<calls, op, host, length>>
received == <<total_length, transfer_finished, data_port, buffer, disturbed>>
tftpVars ==
  <<udpVars, arguments, received, length_changed, last_ack, pc, block, tries, sessions, result>>

Blocks(l) == l \div 2 + 1
Counted(n) == IF n < MaxLength THEN n ELSE MaxLength
BlockLength(l, n) == IF n < Blocks(l) THEN 2 ELSE l % 2

TftpInit ==
  /\ UdpInit /\ pc = "idle" /\ calls = 0
  /\ op = "get" /\ host = None /\ length = 0
  /\ total_length = 0 /\ transfer_finished = FALSE /\ last_ack = 0
  /\ data_port = 0 /\ block = 0 /\ tries = 0
  /\ buffer = [k \in 1..Wrap - 1 |-> <<>>] /\ sessions = <<>>
  /\ disturbed = FALSE /\ length_changed = FALSE /\ result = -1

-----------------------------------------------------------------------------
(* Packets carry the session, which is the port of the server's transfer,  *)
(* and the number n of the block before it is cut to 16 bits.              *)
Request ==
  [type |-> "request", dst |-> cached_mac,
   op |-> op, call |-> calls, host |-> host, length |-> length]
Ack(s, b) == [type |-> "ack", dst |-> cached_mac, session |-> s, n |-> b]
Data(s, n) ==
  [type |-> "data", dst |-> cached_mac, session |-> s, n |-> n, content |-> <<calls, n>>]

PacketTypes == {"ack", "oack", "data", "error"}
FromServer == {f \in wire : f.type \in PacketTypes /\ f.dst = MyIp}

(* rx_callback for a packet f.  An error has its code in place of a block  *)
(* number.                                                                 *)
rx_callback_packet(f, seen) ==
  LET b == f.n % Wrap
      s == sessions[f.session]
      taken == f.type = "data" /\ b >= 1
      failed == f.type = "error" /\ b >= 1
      l == BlockLength(s.length, f.n)
  IN /\ last_ack' = IF f.type = "ack" THEN b ELSE seen
     /\ data_port' = IF f.type = "ack" THEN f.session ELSE data_port
     /\ total_length' = IF taken THEN Counted(total_length + l)
                        ELSE IF failed THEN -1 ELSE total_length
     /\ length_changed' = (taken /\ l = 2 /\ pc = "receive")
     /\ transfer_finished' = (transfer_finished \/ failed \/ (taken /\ l < 2))
     /\ buffer' = IF taken THEN [buffer EXCEPT ![b] = <<s.call, f.n>>] ELSE buffer
     /\ wire' = IF taken THEN udp_send(Ack(f.session, b))
                ELSE IF f.type = "oack" THEN udp_send(Ack(f.session, 0)) ELSE wire
     /\ disturbed' = (disturbed \/ s.call # calls)

(* process_ip drops the packet when no callback is set.                    *)
process_ip(f, seen) ==
  IF rx_callback THEN rx_callback_packet(f, seen)
  ELSE last_ack' = seen /\ length_changed' = FALSE /\ UNCHANGED <<wire, received>>

(* udp_service finds one frame.  A poll that finds none changes nothing    *)
(* but length_before.                                                      *)
udp_service(seen) ==
  /\ \/ /\ \E f \in FromServer : process_ip(f, seen)
        /\ UNCHANGED cached_mac
     \/ /\ \E f \in ArpFrames : process_arp(f)
        /\ last_ack' = seen /\ length_changed' = FALSE /\ UNCHANGED received
  /\ UNCHANGED <<cached_ip, arp_tries, arguments, sessions>>

Proceed(p) == pc' = p /\ UNCHANGED <<result, rx_callback, block, tries>>
Finish_fault(r) ==
  /\ pc' = "idle" /\ result' = r /\ UNCHANGED rx_callback
  /\ block' = 0 /\ tries' = 0
Finish(r) ==
  /\ pc' = "idle" /\ result' = r /\ rx_callback' = FALSE
  /\ block' = 0 /\ tries' = 0

-----------------------------------------------------------------------------
(* The BIOS calls tftp_get or tftp_put.  The address is resolved first,    *)
(* with the callback still unset; udp_start may come before.               *)
Call(o, h, l) ==
  /\ pc = "idle" /\ calls < MaxCalls
  /\ calls' = calls + 1 /\ op' = o /\ host' = h /\ length' = l
  /\ pc' = "arp" /\ disturbed' = FALSE /\ result' = -1
  /\ IF Cached(h) THEN UNCHANGED udpVars ELSE AskNetwork(h)
  /\ UNCHANGED <<total_length, transfer_finished, data_port, buffer, length_changed,
                 last_ack, block, tries, sessions>>

Restart ==
  /\ pc = "idle" /\ cached_ip # None /\ udp_start
  /\ UNCHANGED <<arguments, received, length_changed, last_ack, pc, block, tries, sessions,
                 result>>

ArpPoll ==
  /\ pc = "arp" /\ cached_mac = None
  /\ udp_service(last_ack) /\ Proceed("arp")

(* 100000 polls without an answer: the request is sent again, or -1.       *)
ArpTimeout ==
  /\ pc = "arp" /\ cached_mac = None
  /\ arp_tries' = arp_tries - 1
  /\ pc' = IF arp_tries = 1 THEN "idle" ELSE "arp"
  /\ UNCHANGED <<wire, cached_ip, cached_mac, rx_callback, arguments, received,
                 length_changed, last_ack, block, tries, sessions, result>>

Begin ==
  /\ pc = "arp" /\ cached_mac # None
  /\ pc' = "request" /\ rx_callback' = TRUE
  /\ total_length' = 0 /\ transfer_finished' = FALSE
  /\ block' = 0 /\ tries' = Tries /\ arp_tries' = 0
  /\ wire' = udp_send(Request)
  /\ UNCHANGED <<cached_ip, cached_mac, arguments, data_port, buffer,
                 disturbed, length_changed, last_ack, sessions, result>>

(* tftp_get, while the request is out and during the transfer.             *)
GetPoll ==
  /\ op = "get" /\ pc \in {"request", "receive"}
  /\ udp_service(last_ack)
  /\ IF transfer_finished' THEN Finish(total_length')
     ELSE Proceed(IF total_length' > 0 THEN "receive" ELSE pc)

(* During the transfer the count of the polls starts again whenever data   *)
(* have arrived since the last poll.                                       *)
SetBack ==
  /\ pc = "receive" /\ length_changed /\ length_changed' = FALSE
  /\ UNCHANGED <<udpVars, arguments, received, last_ack, pc, block, tries, sessions, result>>

(* tftp_put, while the request is out: last_ack is reset before each poll. *)
PutPoll ==
  /\ op = "put" /\ pc = "request"
  /\ udp_service(-1)
  /\ IF transfer_finished' /\ last_ack' # 0 THEN Finish(-1)
     ELSE Proceed(IF last_ack' = 0 THEN "next" ELSE pc)

(* The next block goes to data_port, unless the last one was short.        *)
NextBlock ==
  /\ pc = "next"
  /\ IF block = Blocks(length)
     THEN Finish(length) /\ UNCHANGED wire
     ELSE /\ block' = block + 1 /\ tries' = Tries
          /\ wire' = udp_send(Data(data_port, block + 1))
          /\ pc' = "send" /\ UNCHANGED <<result, rx_callback>>
  /\ UNCHANGED <<cached_ip, cached_mac, arp_tries, arguments, received, length_changed,
                 last_ack, sessions>>

SendPoll ==
  /\ pc = "send"
  /\ udp_service(last_ack)
  /\ IF transfer_finished' THEN Finish(-1)
     ELSE Proceed(IF last_ack' = block THEN "next" ELSE pc)

Timeout_fault ==
  /\ pc \in {"request", "receive", "send"}
  /\ ~ length_changed
  /\ IF pc = "receive" THEN Finish(-1) ELSE UNCHANGED <<pc, result, rx_callback, block, tries>>
  /\ UNCHANGED <<wire, cached_ip, cached_mac, arp_tries, arguments, received, length_changed,
                 last_ack, sessions>>

(* The polls of a loop run out: the packet is sent again, Tries times.     *)
(* Those of the transfer do so only when no data have set them back.       *)
Timeout ==
  /\ pc \in {"request", "receive", "send"}
  /\ ~ length_changed
  /\ IF tries = 1 \/ pc = "receive"
     THEN Finish(-1) /\ UNCHANGED wire
     ELSE /\ tries' = tries - 1 /\ UNCHANGED <<pc, result, rx_callback, block>>
          /\ wire' = udp_send(IF pc = "send" THEN Data(data_port, block) ELSE Request)
  /\ UNCHANGED <<cached_ip, cached_mac, arp_tries, arguments, received, length_changed,
                 last_ack, sessions>>

-----------------------------------------------------------------------------
(* The servers: a request, which the network may deliver twice, opens a    *)
(* session, unless it is refused with an error, of code 0 or 1.            *)
Emit(type, s, n) == wire' = wire \cup {[type |-> type, session |-> s, n |-> n, dst |-> MyIp]}

Accept ==
  /\ Len(sessions) < MaxSessions
  /\ \E f \in {g \in wire : g.type = "request"} :
       /\ sessions' = Append(sessions, [call |-> f.call, op |-> f.op, host |-> f.dst,
                                        length |-> f.length, pos |-> 0, got |-> <<>>])
       /\ \/ Emit("oack", Len(sessions'), 0)
          \/ f.op = "put" /\ Emit("ack", Len(sessions'), 0)
          \/ \E code \in {0, 1} : Emit("error", Len(sessions'), code)

(* An acknowledgement of block pos, or of the options, lets the next block *)
(* go.  None of 2^16 blocks ago is still on the wire.                      *)
ServeGet(s) ==
  LET x == sessions[s] IN
  /\ x.op = "get" /\ x.pos < Wrap /\ x.pos < Blocks(x.length)
  /\ \E f \in wire : f.type = "ack" /\ f.dst = x.host /\ f.session = s /\ f.n = x.pos
  /\ sessions' = [sessions EXCEPT ![s].pos = @ + 1]
  /\ Emit("data", s, x.pos + 1)

ServePut(s) ==
  LET x == sessions[s] IN
  /\ x.op = "put" /\ x.pos < Blocks(x.length)
  /\ \E f \in {g \in wire : g.type = "data" /\ g.dst = x.host} :
       /\ f.session = s /\ f.n % Wrap = (x.pos + 1) % Wrap
       /\ sessions' = [sessions EXCEPT ![s].pos = @ + 1, ![s].got = Append(@, f.content)]
  /\ Emit("ack", s, x.pos + 1)

Server ==
  \/ Accept
  \/ \E s \in DOMAIN sessions : ServeGet(s) \/ ServePut(s)

Network ==
  /\ Server
  /\ UNCHANGED <<cached_ip, cached_mac, rx_callback, arp_tries, arguments, received,
                 length_changed, last_ack, pc, block, tries, result>>

Client ==
  \/ ArpPoll \/ ArpTimeout \/ Begin
  \/ GetPoll \/ SetBack \/ PutPoll \/ NextBlock \/ SendPoll \/ Timeout

TftpNext ==
  \/ \E t \in Transfers : Call(t[1], t[2], t[3])
  \/ Restart \/ Client \/ Network

(* The loops count their polls: each ends, whatever the network does, but  *)
(* the one of the transfer, which does not while data keep arriving.       *)
TftpSpec ==
  /\ TftpInit /\ [][TftpNext]_tftpVars
  /\ WF_tftpVars(ArpTimeout) /\ WF_tftpVars(Begin) /\ WF_tftpVars(NextBlock)
  /\ WF_tftpVars(SetBack) /\ WF_tftpVars(Timeout)

-----------------------------------------------------------------------------
Content == [k \in 1..Blocks(length) |-> <<calls, k>>]
InBuffer == op = "get" /\ \A k \in DOMAIN Content : k \in DOMAIN buffer /\ buffer[k] = Content[k]
OnServer == op = "put" /\ \E s \in DOMAIN sessions : sessions[s].got = Content

Promise == INSTANCE FileTransfer WITH
  busy <- pc \notin {"idle", "arp"}, here <- InBuffer, there <- OnServer

(* A get that is answered with a length has filled the buffer with the     *)
(* whole file, a put that is has stored it on a server, whatever the       *)
(* network lost, repeated or held back; else they answer -1.  Nothing is   *)
(* written between calls, nor while the next address is being resolved.    *)
TransfersFiles == Promise!TransferSpec

(* A request goes to the machine that owns the address it is for: a late   *)
(* answer for the address asked before does not fill the ARP cache.        *)
RequestsReachTheHost == \A f \in wire : f.type = "request" => f.dst = f.host

(* Every call returns, even when the network delivers nothing, unless data *)
(* arrive for ever: repeated blocks that each set the count of the polls   *)
(* back before it has run out.                                             *)
CallReturns == []<>length_changed \/ (pc # "idle" ~> pc = "idle")
=============================================================================
