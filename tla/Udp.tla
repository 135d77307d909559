-------------------------------- MODULE Udp ---------------------------------
(***************************************************************************)
(* The network stack of the BIOS: libliteeth/udp.c.  One thread polls the  *)
(* MAC; the ARP cache has one entry.  Frames on the wire stay there: the   *)
(* network may lose them, deliver them twice, late and in any order.  The  *)
(* two receive slots of the MAC only delay frames further.                 *)
(***************************************************************************)
EXTENDS Integers, Sequences

CONSTANTS
  Hosts,        \* the addresses of the servers, and the hosts themselves
  None,         \* address 0, MAC address 0
  MyIp,
  Asker,        \* a machine that asks for the address of the board
  ArpTries      \* 100

ASSUME UdpAssumption == None \notin Hosts /\ MyIp \notin Hosts /\ ArpTries \in Nat \ {0}

VARIABLES
  wire,                   \* the frames sent so far, by either side
  cached_ip, cached_mac,
  rx_callback,            \* a callback is set
  arp_tries

udpVars == <<wire, cached_ip, cached_mac, rx_callback, arp_tries>>

ArpRequest(sender, ip) == [type |-> "arp_request", sender |-> sender, target |-> ip]
ArpReply(sender, mac, ip) ==
  [type |-> "arp_reply", sender |-> sender, mac |-> mac, target |-> ip]

UdpInit ==
  /\ wire = {ArpRequest(Asker, MyIp)} /\ arp_tries = 0 /\ rx_callback = FALSE
  /\ cached_ip = None /\ cached_mac = None

udp_start ==
  /\ cached_ip' = None /\ cached_mac' = None /\ rx_callback' = FALSE
  /\ UNCHANGED <<wire, arp_tries>>

send_packet(f) == wire \cup {f}

(* The wire after a packet, made out to cached_mac, or none while that is  *)
(* unknown.                                                                *)
udp_send(f) == IF cached_mac = None THEN wire ELSE send_packet(f)

process_arp_fault(f) ==
  /\ cached_mac' = IF f.type = "arp_reply" THEN f.mac ELSE cached_mac
  /\ wire' = IF f.type = "arp_request" /\ f.target = MyIp
             THEN send_packet(ArpReply(MyIp, MyIp, f.sender)) ELSE wire

process_arp(f) ==
  /\ cached_mac' = IF f.type = "arp_reply" /\ f.sender = cached_ip THEN f.mac ELSE cached_mac
  /\ wire' = IF f.type = "arp_request" /\ f.target = MyIp
             THEN send_packet(ArpReply(MyIp, MyIp, f.sender)) ELSE wire

ArpFrames == {f \in wire : f.type \in {"arp_request", "arp_reply"} /\ f.sender # MyIp}

(* udp_arp_resolve: the cache is asked, then the network.  The answer is   *)
(* on the wire with the question: it may come at any time, or never.       *)
Cached(ip) == cached_ip = ip /\ cached_mac # None
AskNetwork(ip) ==
  /\ cached_ip' = ip /\ cached_mac' = None /\ arp_tries' = ArpTries
  /\ wire' = send_packet(ArpRequest(MyIp, ip)) \cup {ArpReply(ip, ip, MyIp)}
  /\ UNCHANGED rx_callback
=============================================================================
