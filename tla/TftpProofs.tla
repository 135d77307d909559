----------------------------- MODULE TftpProofs -----------------------------
(***************************************************************************)
(* The TFTP client keeps its promise whatever the network loses, repeats   *)
(* or holds back, for any files, block numbers of any width, any number of *)
(* calls and of tries: proofs about Tftp and Udp.                          *)
(*                                                                         *)
(* Frames stay on the wire, and so the invariant is about what they prove. *)
(* A block that a server has sent proves that the client has acknowledged  *)
(* those before it; an acknowledgement of the client, that the block is in *)
(* the buffer and its length in the total; one of a server, that it has    *)
(* the blocks up to there.  Frames of earlier calls prove nothing about    *)
(* this one: what is said of the content is said of its own sessions, and  *)
(* as long as no packet of another one has been taken.                     *)
(***************************************************************************)
EXTENDS Tftp, TLAPS

Busy == pc \notin {"idle", "arp"}
Current(s) == s \in DOMAIN sessions /\ sessions[s].call = calls

Session == [call : Nat, op : {"get", "put"}, host : Hosts, length : Nat, pos : Nat,
            got : Seq(Seq(Nat))]

TftpTypeOK ==
  /\ pc \in {"idle", "arp", "request", "receive", "next", "send"}
  /\ calls \in Nat /\ op \in {"get", "put"} /\ length \in Nat /\ length <= MaxLength
  /\ total_length \in Int /\ transfer_finished \in BOOLEAN /\ disturbed \in BOOLEAN
  /\ last_ack \in Int /\ block \in Nat
  /\ buffer \in [1 .. Wrap - 1 -> Seq(Nat)]
  /\ sessions \in Seq(Session)

(* The ARP cache knows the address it was asked for, or nothing, and a     *)
(* call asks for its own host.                                             *)
CacheOK ==
  /\ cached_mac \in {None, cached_ip} /\ cached_ip \in Hosts \cup {None}
  /\ pc # "idle" => cached_ip = host
  /\ Busy => cached_mac # None

(* Where the client is.                                                    *)
ClientOK ==
  /\ ~ Busy => ~ rx_callback
  /\ pc = "arp" => ~ disturbed
  /\ Busy => ~ transfer_finished /\ total_length >= 0
  /\ pc = "receive" => op = "get"
  /\ pc = "request" => block = 0
  /\ pc \in {"next", "send"} =>
       op = "put" /\ data_port \in DOMAIN sessions /\ block <= Blocks(length)
  /\ pc = "next" => last_ack = block /\ block < Wrap
  /\ pc = "send" => last_ack # block /\ block \in 1 .. Wrap

(* What is on the wire, by who has sent it.                                *)
RequestOK(f) ==
  /\ f.dst = f.host /\ f.dst \in Hosts
  /\ f.op \in {"get", "put"} /\ f.length \in Nat /\ f.call \in Nat /\ f.call <= calls
  /\ f.call = calls => pc # "arp" /\ f.op = op /\ f.length = length

ServerPacketOK(f) ==
  /\ f.session \in DOMAIN sessions /\ f.n \in Nat
  /\ f.type = "ack" => sessions[f.session].op = "put" /\ f.n <= sessions[f.session].pos
  /\ f.type = "data" =>
       /\ sessions[f.session].op = "get"
       /\ f.n \in 1 .. sessions[f.session].pos /\ f.n <= Wrap

ClientPacketOK(f) ==
  /\ f.session \in DOMAIN sessions /\ f.n \in Nat
  /\ f.type = "data" =>
       /\ f.n \in 1 .. Wrap
       /\ f.content \in Seq(Nat)
       /\ Current(f.session) => f.content = <<calls, f.n>>

FrameOK(f) ==
  /\ f.type = "request" => RequestOK(f)
  /\ f.type = "arp_reply" => f.mac = f.sender
  /\ f.type \in PacketTypes => IF f.dst = MyIp THEN ServerPacketOK(f) ELSE ClientPacketOK(f)

FramesOK == \A f \in wire : FrameOK(f)

(* The client has acknowledged block k of session s.                       *)
Acked(s, k) == \E f \in wire : f.type = "ack" /\ f.dst # MyIp /\ f.session = s /\ f.n = k

SessionOK(s) ==
  /\ sessions[s].call <= calls /\ sessions[s].pos <= Blocks(sessions[s].length)
  /\ sessions[s].call = calls =>
       pc # "arp" /\ sessions[s].op = op /\ sessions[s].length = length
  /\ sessions[s].op = "get" => \A k \in 0 .. sessions[s].pos - 1 : Acked(s, k)
  /\ sessions[s].op = "put" => Len(sessions[s].got) = sessions[s].pos
  /\ sessions[s].op = "put" /\ sessions[s].call = calls =>
       \A k \in 1 .. sessions[s].pos : k <= Wrap => sessions[s].got[k] = <<calls, k>>

SessionsOK == \A s \in DOMAIN sessions : SessionOK(s)

(* The first k blocks of the file are in the buffer.                       *)
Taken(k) ==
  /\ total_length >= IF k < Blocks(length) THEN 2 * k ELSE length
  /\ k \in 1 .. Wrap - 1 => buffer[k] = <<calls, k>>

TransferOK ==
  Busy /\ ~ disturbed =>
    /\ op = "get" => \A s \in DOMAIN sessions, k \in Nat : Current(s) /\ Acked(s, k) => Taken(k)
    /\ pc = "next" /\ block > 0 => \E s \in DOMAIN sessions : Current(s) /\ sessions[s].pos >= block

TftpInv == TftpTypeOK /\ CacheOK /\ ClientOK /\ FramesOK /\ SessionsOK /\ TransferOK

-----------------------------------------------------------------------------
(* Block numbers of 16 bits, as far as they are told apart.                *)
LEMMA Modulo ==
  ASSUME NEW n \in Nat
  PROVE  /\ n % Wrap \in 0 .. Wrap - 1 /\ n % Wrap <= n
         /\ n < Wrap => n % Wrap = n
         /\ n = Wrap => n % Wrap = 0
<1>1. Wrap \in Nat /\ Wrap > 1
  BY TftpAssumption
<1>2. n % Wrap \in 0 .. Wrap - 1
  BY <1>1
<1>3. n < Wrap => n % Wrap = n
  BY <1>1
<1>4. n = Wrap => n % Wrap = 0
  BY <1>1
<1>5. QED
  BY <1>1, <1>2, <1>3, <1>4

(* The lengths of the blocks of a file.                                    *)
LEMMA BlockLengths ==
  ASSUME NEW l \in Nat
  PROVE  /\ Blocks(l) \in Nat /\ Blocks(l) >= 1
         /\ \A n \in Nat : BlockLength(l, n) \in 0 .. 2
         /\ \A n \in Nat : n < Blocks(l) => BlockLength(l, n) = 2
         /\ \A n \in Nat : BlockLength(l, n) < 2 => n >= Blocks(l)
         /\ 2 * (Blocks(l) - 1) + BlockLength(l, Blocks(l)) = l
<1>1. PICK h \in Nat : l = 2 * h \/ l = 2 * h + 1
  <2>1. l \div 2 \in Nat /\ (l = 2 * (l \div 2) \/ l = 2 * (l \div 2) + 1)
    OBVIOUS
  <2>2. QED
    BY <2>1
<1>2. l \div 2 = h /\ l % 2 = l - 2 * h
  BY <1>1
<1>3. QED
  BY <1>1, <1>2 DEF Blocks, BlockLength

(* The packets of the client go to the machine in the ARP cache.           *)
LEMMA NewAck ==
  ASSUME NEW s, NEW n
  PROVE  \E g : /\ g = Ack(s, n)
                /\ g.type = "ack" /\ g.dst = cached_mac /\ g.session = s /\ g.n = n
<1>1. \E g : g = [type |-> "ack", dst |-> cached_mac, session |-> s, n |-> n]
  OBVIOUS
<1>2. QED
  BY <1>1 DEF Ack

(* The fields of a DATA packet that is sent.                               *)
LEMMA NewData ==
  ASSUME NEW s, NEW n
  PROVE  \E g : /\ g = Data(s, n)
                /\ g.type = "data" /\ g.dst = cached_mac /\ g.session = s /\ g.n = n
                /\ g.content = <<calls, n>>
<1>1. \E g : g = [type |-> "data", dst |-> cached_mac, session |-> s, n |-> n,
                  content |-> <<calls, n>>]
  OBVIOUS
<1>2. QED
  BY <1>1 DEF Data

(* The fields of a request that is sent.                                   *)
LEMMA NewRequest ==
  \E g : /\ g = Request
         /\ g.type = "request" /\ g.dst = cached_mac /\ g.op = op /\ g.call = calls
         /\ g.host = host /\ g.length = length
<1>1. \E g : g = [type |-> "request", dst |-> cached_mac,
                  op |-> op, call |-> calls, host |-> host, length |-> length]
  OBVIOUS
<1>2. QED
  BY <1>1 DEF Request

-----------------------------------------------------------------------------
(* A frame stays what it is while the arguments stay and the transfers of  *)
(* the servers only go on.                                                 *)
SessionsGoOn ==
  /\ DOMAIN sessions \subseteq DOMAIN sessions'
  /\ \A s \in DOMAIN sessions :
       /\ sessions'[s].call = sessions[s].call /\ sessions'[s].op = sessions[s].op
       /\ sessions[s].pos \in Nat /\ sessions'[s].pos \in Nat
       /\ sessions[s].pos <= sessions'[s].pos

(* A frame that was right stays right.                                     *)
LEMMA FrameStays ==
  ASSUME NEW f, FrameOK(f), UNCHANGED <<calls, op, length>>, pc' = "arp" => pc = "arp",
         SessionsGoOn
  PROVE  FrameOK(f)'
<1>1. ServerPacketOK(f) => ServerPacketOK(f)'
  BY DEF ServerPacketOK, SessionsGoOn
<1>2. ClientPacketOK(f) => ClientPacketOK(f)'
  BY DEF ClientPacketOK, SessionsGoOn, Current
<1>3. RequestOK(f) => RequestOK(f)'
  BY DEF RequestOK
<1>4. QED
  BY <1>1, <1>2, <1>3 DEF FrameOK

(* Sessions that do not change go on.                                      *)
LEMMA SessionsRest ==
  ASSUME TftpTypeOK, UNCHANGED sessions
  PROVE  SessionsGoOn
<1>1. \A s \in DOMAIN sessions : sessions[s] \in Session
  BY DEF TftpTypeOK
<1>2. \A s \in DOMAIN sessions : sessions[s].pos \in Nat
  BY <1>1 DEF Session
<1>3. QED
  BY <1>2 DEF SessionsGoOn

(* What is on the wire stays there, and so does what it proves.            *)
LEMMA FramesAdded ==
  ASSUME TftpInv, UNCHANGED <<calls, op, length, sessions>>, pc' = "arp" => pc = "arp",
         wire \subseteq wire', \A f \in wire' : f \in wire \/ FrameOK(f)'
  PROVE  FramesOK' /\ SessionsOK'
<1>1. FramesOK'
  <2>1. SessionsGoOn
    BY SessionsRest DEF TftpInv
  <2>2. QED
    BY <2>1, FrameStays DEF TftpInv, FramesOK
<1>2. \A s, k : Acked(s, k) => Acked(s, k)'
  BY DEF Acked
<1>3. SessionsOK'
  BY <1>2 DEF TftpInv, SessionsOK, SessionOK
<1>4. QED
  BY <1>1, <1>3

(* Other frames acknowledge nothing.                                       *)
LEMMA NothingAcked ==
  ASSUME wire \subseteq wire',
         \A f \in wire' : f \in wire \/ f.type # "ack" \/ f.dst = MyIp
  PROVE  \A s, k : Acked(s, k)' <=> Acked(s, k)
BY DEF Acked

-----------------------------------------------------------------------------
(* What one poll does.  An ARP frame may fill the cache, with the machine  *)
(* that was asked for and no other.                                        *)
LEMMA ArpService ==
  ASSUME TftpInv, NEW f \in ArpFrames, process_arp(f),
         UNCHANGED <<cached_ip, calls, op, length, sessions>>, pc' = "arp" => pc = "arp"
  PROVE  /\ cached_mac' \in {None, cached_ip} /\ (cached_mac # None => cached_mac' # None)
         /\ FramesOK' /\ SessionsOK'
         /\ \A s, k : Acked(s, k)' <=> Acked(s, k)
<1>1. f \in wire /\ FrameOK(f)
  BY DEF TftpInv, FramesOK, ArpFrames
<1>2. cached_mac' \in {None, cached_ip} /\ (cached_mac # None => cached_mac' # None)
  BY <1>1 DEF process_arp, TftpInv, CacheOK, FrameOK
<1>3. wire' = wire \/ wire' = wire \cup {ArpReply(MyIp, MyIp, f.sender)}
  BY DEF process_arp, send_packet
<1>4. LET g == ArpReply(MyIp, MyIp, f.sender)
      IN FrameOK(g)' /\ g.type = "arp_reply"
  BY DEF ArpReply, FrameOK, PacketTypes
<1>5. FramesOK' /\ SessionsOK'
  BY <1>3, <1>4, FramesAdded
<1>6. \A s, k : Acked(s, k)' <=> Acked(s, k)
  BY <1>3, <1>4, NothingAcked
<1>7. QED
  BY <1>2, <1>5, <1>6

(* A packet from a server adds at most an acknowledgement to the wire.     *)
LEMMA PacketWire ==
  ASSUME TftpInv, NEW f \in FromServer, NEW seen, rx_callback_packet(f, seen),
         cached_mac \in Hosts, UNCHANGED <<calls, op, length, sessions>>, pc' = "arp" => pc = "arp"
  PROVE  /\ FramesOK' /\ SessionsOK'
         /\ \A s, k : Acked(s, k)' =>
              \/ Acked(s, k)
              \/ s = f.session /\ f.type = "oack" /\ k = 0
              \/ s = f.session /\ f.type = "data" /\ k = f.n % Wrap /\ k >= 1
<1>1. f \in wire /\ f.type \in PacketTypes /\ f.dst = MyIp /\ ServerPacketOK(f)
  BY DEF TftpInv, FramesOK, FrameOK, FromServer
<1>2. f.session \in DOMAIN sessions /\ f.n \in Nat
  BY <1>1 DEF ServerPacketOK
<1>3. MyIp # cached_mac /\ cached_mac # None
  BY UdpAssumption
<1>4. f.n % Wrap \in Nat
  BY <1>2, Modulo
<1>5. PICK b \in Nat :
        /\ \/ f.type = "data" /\ b = f.n % Wrap /\ b >= 1
           \/ f.type = "oack" /\ b = 0
           \/ wire' = wire
        /\ wire' = wire \/ wire' = wire \cup {Ack(f.session, b)}
  BY <1>3, <1>4 DEF rx_callback_packet, udp_send, send_packet
<1>6. PICK g : /\ g = Ack(f.session, b)
               /\ g.type = "ack" /\ g.dst = cached_mac /\ g.session = f.session /\ g.n = b
  BY NewAck
<1>7. FrameOK(g)'
  BY <1>2, <1>3, <1>6 DEF FrameOK, ClientPacketOK, PacketTypes
<1>8. FramesOK' /\ SessionsOK'
  BY <1>5, <1>6, <1>7, FramesAdded
<1>9. ASSUME NEW s, NEW k, Acked(s, k)'
      PROVE  \/ Acked(s, k)
             \/ s = f.session /\ f.type = "oack" /\ k = 0
             \/ s = f.session /\ f.type = "data" /\ k = f.n % Wrap /\ k >= 1
  BY <1>5, <1>6, <1>9 DEF Acked
<1>10. QED
  BY <1>8, <1>9

(* Data is counted and put into its place; an error ends the transfer.     *)
LEMMA PacketEffect ==
  ASSUME TftpInv, NEW f, NEW seen, rx_callback_packet(f, seen)
  PROVE  LET b == f.n % Wrap
             l == BlockLength(sessions[f.session].length, f.n)
             taken == f.type = "data" /\ b >= 1
             failed == f.type = "error" /\ b >= 1
         IN /\ taken => /\ total_length' = Counted(total_length + l)
                        /\ buffer' = [buffer EXCEPT ![b] = <<sessions[f.session].call, f.n>>]
            /\ ~ taken => buffer' = buffer
            /\ failed => total_length' = -1 /\ transfer_finished'
            /\ ~ taken /\ ~ failed => total_length' = total_length
            /\ transfer_finished' => transfer_finished \/ failed \/ (taken /\ l < 2)
<1>1. transfer_finished' =
        (\/ transfer_finished
         \/ f.type = "error" /\ f.n % Wrap >= 1
         \/ /\ f.type = "data" /\ f.n % Wrap >= 1
            /\ BlockLength(sessions[f.session].length, f.n) < 2)
  BY ZenonT(30) DEF rx_callback_packet
<1>2. /\ transfer_finished' =>
           \/ transfer_finished
           \/ f.type = "error" /\ f.n % Wrap >= 1
           \/ /\ f.type = "data" /\ f.n % Wrap >= 1
              /\ BlockLength(sessions[f.session].length, f.n) < 2
      /\ f.type = "error" /\ f.n % Wrap >= 1 => transfer_finished'
  BY <1>1, ZenonT(30)
<1>3. "data" # "error"
  OBVIOUS
<1>4. /\ f.type = "data" /\ f.n % Wrap >= 1 =>
           /\ total_length' = Counted(total_length + BlockLength(sessions[f.session].length, f.n))
           /\ buffer' = [buffer EXCEPT ![f.n % Wrap] = <<sessions[f.session].call, f.n>>]
      /\ ~ (f.type = "data" /\ f.n % Wrap >= 1) => buffer' = buffer
      /\ f.type = "error" /\ f.n % Wrap >= 1 => total_length' = -1
      /\ ~ (f.type = "data" /\ f.n % Wrap >= 1) /\ ~ (f.type = "error" /\ f.n % Wrap >= 1) =>
           total_length' = total_length
  BY <1>3, ZenonT(30) DEF rx_callback_packet
<1>5. QED
  BY <1>2, <1>4, ZenonT(30)

(* It leaves the variables of the transfer in order ...                    *)
LEMMA PacketState ==
  ASSUME TftpInv, Busy, NEW f \in FromServer, NEW seen \in Int, rx_callback_packet(f, seen)
  PROVE  /\ total_length' \in Int /\ transfer_finished' \in BOOLEAN /\ disturbed' \in BOOLEAN
         /\ last_ack' \in Int /\ buffer' \in [1 .. Wrap - 1 -> Seq(Nat)]
         /\ total_length' >= 0 \/ (transfer_finished' /\ total_length' = -1)
         /\ disturbed => disturbed'
         /\ \/ last_ack' = seen /\ UNCHANGED data_port
            \/ /\ ~ transfer_finished'
               /\ last_ack' \in 0 .. Wrap - 1
               /\ data_port' \in DOMAIN sessions
               /\ sessions[data_port'].pos >= last_ack'
               /\ ~ disturbed' => sessions[data_port'].call = calls
<1>1. /\ f \in wire /\ ServerPacketOK(f)
      /\ f.type \in PacketTypes
  BY DEF TftpInv, FramesOK, FrameOK, FromServer
<1>2. f.session \in DOMAIN sessions /\ f.n \in Nat
  BY <1>1 DEF ServerPacketOK
<1>3. sessions[f.session] \in Session
  BY <1>2 DEF TftpInv, TftpTypeOK
<1>4. /\ sessions[f.session].call \in Nat /\ sessions[f.session].length \in Nat
      /\ sessions[f.session].pos \in Nat
  BY <1>3 DEF Session
<1>5. f.n % Wrap \in 0 .. Wrap - 1 /\ f.n % Wrap <= f.n /\ Wrap \in Nat
  BY <1>2, Modulo, TftpAssumption
<1>6. BlockLength(sessions[f.session].length, f.n) \in 0 .. 2
  BY <1>2, <1>4, BlockLengths
<1>7. /\ total_length \in Int /\ total_length >= 0 /\ transfer_finished = FALSE
      /\ buffer \in [1 .. Wrap - 1 -> Seq(Nat)]
  BY DEF TftpInv, TftpTypeOK, ClientOK
<1>8. /\ total_length' \in Int
      /\ total_length' >= 0 \/ (transfer_finished' /\ total_length' = -1)
  <2>1. \A n \in Nat : Counted(n) \in Nat
    BY TftpAssumption DEF Counted
  <2>2. PICK n \in 0 .. 2 : n = BlockLength(sessions[f.session].length, f.n)
    BY <1>6
  <2>3. total_length' \in {total_length, -1, Counted(total_length + n)}
        /\ (total_length' # total_length /\ total_length' # Counted(total_length + n)
              => transfer_finished')
    BY <2>2, PacketEffect
  <2>4. QED
    BY <1>7, <2>1, <2>3
<1>9. transfer_finished' \in BOOLEAN /\ disturbed' \in BOOLEAN /\ (disturbed => disturbed')
  BY ZenonT(30) DEF rx_callback_packet, TftpInv, TftpTypeOK
<1>10. buffer' \in [1 .. Wrap - 1 -> Seq(Nat)]
  <2>1. <<sessions[f.session].call, f.n>> \in Seq(Nat)
    BY <1>2, <1>4
  <2>2. QED
    BY <1>7, <2>1 DEF rx_callback_packet
<1>11. CASE f.type = "ack"
  <2>1. last_ack' = f.n % Wrap /\ data_port' = f.session /\ ~ transfer_finished'
    BY <1>7, <1>11 DEF rx_callback_packet
  <2>2. f.n <= sessions[f.session].pos
    BY <1>1, <1>11 DEF ServerPacketOK
  <2>3. ~ disturbed' => sessions[f.session].call = calls
    BY DEF rx_callback_packet
  <2>4. QED
    BY <1>2, <1>4, <1>5, <1>8, <1>9, <1>10, <2>1, <2>2, <2>3
<1>12. CASE f.type # "ack"
  <2>1. last_ack' = seen /\ UNCHANGED data_port
    BY <1>12 DEF rx_callback_packet
  <2>2. QED
    BY <1>8, <1>9, <1>10, <2>1
<1>13. QED
  BY <1>11, <1>12

(* ... and the buffer holds the blocks that are acknowledged by now, all   *)
(* of them when the last one has come.                                     *)
LEMMA PacketTaken ==
  ASSUME TftpInv, Busy, op = "get", NEW f \in FromServer, NEW seen,
         rx_callback_packet(f, seen), cached_mac \in Hosts,
         UNCHANGED <<calls, op, length, sessions>>, pc' = "arp" => pc = "arp",
         ~ disturbed', total_length' >= 0
  PROVE  /\ \A s \in DOMAIN sessions, k \in Nat : Current(s) /\ Acked(s, k)' => Taken(k)'
         /\ transfer_finished' =>
              /\ total_length' >= length
              /\ \A k \in 1 .. Blocks(length) : k \in 1 .. Wrap - 1 /\ buffer'[k] = <<calls, k>>
<1> DEFINE z == f.session
           b == f.n % Wrap
<1>1. f \in wire /\ ServerPacketOK(f) /\ f.type \in PacketTypes
  BY DEF TftpInv, FramesOK, FrameOK, FromServer
<1>2. z \in DOMAIN sessions /\ f.n \in Nat /\ sessions[z].call = calls /\ ~ disturbed
  BY <1>1 DEF ServerPacketOK, rx_callback_packet
<1>3. SessionOK(z)
  BY <1>2 DEF TftpInv, SessionsOK
<1>4. sessions[z].length = length /\ sessions[z].op = op /\ sessions[z].pos <= Blocks(length)
  BY <1>2, <1>3 DEF SessionOK
<1>5. sessions[z] \in Session
  BY <1>2 DEF TftpInv, TftpTypeOK
<1>6. sessions[z].pos \in Nat /\ length \in Nat /\ total_length \in Int /\ total_length >= 0
      /\ buffer \in [1 .. Wrap - 1 -> Seq(Nat)] /\ transfer_finished = FALSE
      /\ Wrap \in Nat /\ calls \in Nat /\ MaxLength \in Nat /\ length <= MaxLength
  BY <1>5, TftpAssumption DEF Session, TftpInv, TftpTypeOK, ClientOK
<1>7. \A s \in DOMAIN sessions, k \in Nat : Current(s) /\ Acked(s, k) => Taken(k)
  BY <1>2 DEF TftpInv, TransferOK
<1>8. Blocks(length) \in Nat /\ Blocks(length) >= 1
  BY <1>6, BlockLengths
<1>9. CASE f.type = "data" /\ b >= 1
  <2>1. f.n \in 1 .. sessions[z].pos /\ f.n <= Wrap /\ sessions[z].op = "get"
    BY <1>1, <1>9 DEF ServerPacketOK
  <2>2. b = f.n /\ f.n < Wrap
    <3>1. f.n # Wrap
      BY <1>2, <1>9, Modulo
    <3>2. f.n < Wrap
      BY <1>2, <1>6, <2>1, <3>1
    <3>3. QED
      BY <1>2, <3>2, Modulo
  <2>3. \A k \in 0 .. f.n - 1 : Acked(z, k)
    BY <1>3, <1>6, <2>1 DEF SessionOK
  <2>4. \A k \in 0 .. f.n - 1 : Taken(k)
    BY <1>2, <1>7, <2>3 DEF Current
  <2>5. /\ total_length' = Counted(total_length + BlockLength(length, f.n))
        /\ buffer' = [buffer EXCEPT ![f.n] = <<calls, f.n>>]
        /\ transfer_finished' => BlockLength(length, f.n) < 2
    BY <1>2, <1>4, <1>6, <1>9, <2>2, PacketEffect
  <2>6. BlockLength(length, f.n) \in 0 .. 2
    BY <1>2, <1>6, BlockLengths
  <2>7. ASSUME NEW k \in Nat, Taken(k) PROVE Taken(k)'
    <3>1. /\ total_length' \in Int
          /\ total_length' >= total_length \/ total_length' = MaxLength
      BY <1>6, <2>5, <2>6 DEF Counted
    <3>2. k \in 1 .. Wrap - 1 => buffer'[k] = <<calls, k>>
      BY <1>6, <2>5, <2>7 DEF Taken
    <3>3. total_length' >= IF k < Blocks(length) THEN 2 * k ELSE length
      <4>1. (IF k < Blocks(length) THEN 2 * k ELSE length) \in 0 .. length
        BY <1>6, <1>8 DEF Blocks
      <4>2. QED
        BY <1>6, <2>7, <3>1, <4>1 DEF Taken
    <3>4. QED
      BY <3>2, <3>3 DEF Taken
  <2>8. Taken(f.n)' /\ (transfer_finished' => total_length' >= length /\ f.n = Blocks(length))
    <3>1. total_length >= 2 * (f.n - 1)
      <4>1. Taken(f.n - 1) /\ f.n - 1 < Blocks(length)
        BY <1>4, <1>6, <1>8, <2>1, <2>4
      <4>2. QED
        BY <4>1 DEF Taken
    <3>2. buffer'[f.n] = <<calls, f.n>>
      <4>1. f.n \in DOMAIN buffer
        BY <1>6, <2>1, <2>2
      <4>2. QED
        BY <2>5, <4>1, Zenon
    <3>3. CASE f.n < Blocks(length)
      <4>1. BlockLength(length, f.n) = 2
        BY <1>2, <1>6, <3>3, BlockLengths
      <4>2. 2 * f.n <= length
        BY <1>2, <1>6, <3>3 DEF Blocks
      <4>3. total_length' >= 2 * f.n
        BY <1>2, <1>6, <2>5, <3>1, <4>1, <4>2 DEF Counted
      <4>4. QED
        BY <1>2, <1>6, <1>8, <2>5, <3>2, <3>3, <4>1, <4>3 DEF Taken
    <3>4. CASE f.n = Blocks(length)
      <4>1. 2 * (f.n - 1) + BlockLength(length, f.n) = length
        BY <1>6, <3>4, BlockLengths
      <4>2. total_length' >= length
        BY <1>2, <1>6, <2>5, <2>6, <3>1, <4>1 DEF Counted
      <4>3. QED
        BY <1>2, <1>6, <1>8, <3>2, <3>4, <4>2 DEF Taken
    <3>5. QED
      BY <1>2, <1>4, <1>6, <1>8, <2>1, <3>3, <3>4
  <2>9. ASSUME NEW s \in DOMAIN sessions, NEW k \in Nat, Current(s), Acked(s, k)'
        PROVE  Taken(k)'
    <3>1. Acked(s, k) \/ k = f.n
      BY <1>9, <2>2, <2>9, PacketWire
    <3>2. QED
      BY <1>7, <2>7, <2>8, <2>9, <3>1
  <2>10. ASSUME transfer_finished', NEW k \in 1 .. Blocks(length)
         PROVE  k \in 1 .. Wrap - 1 /\ buffer'[k] = <<calls, k>>
    <3>1. k \in 1 .. f.n /\ k \in 1 .. Wrap - 1
      BY <1>6, <1>8, <2>1, <2>2, <2>8, <2>10
    <3>2. Taken(k)'
      <4>1. CASE k = f.n
        BY <2>8, <4>1
      <4>2. CASE k # f.n
        BY <2>4, <2>7, <2>1, <3>1, <4>2
      <4>3. QED
        BY <4>1, <4>2
    <3>3. QED
      BY <3>1, <3>2 DEF Taken
  <2>11. QED
    BY <2>8, <2>9, <2>10
<1>10. CASE ~ (f.type = "data" /\ b >= 1)
  <2>1. UNCHANGED buffer /\ total_length' = total_length /\ ~ transfer_finished'
    <3>1. ~ (f.type = "error" /\ b >= 1)
      BY PacketEffect
    <3>2. QED
      BY <1>6, <1>10, <3>1, PacketEffect
  <2>2. \A k \in Nat : Taken(k) => Taken(k)'
    BY <2>1 DEF Taken
  <2>3. Taken(0)'
    BY <1>6, <1>8, <2>1 DEF Taken
  <2>4. ASSUME NEW s \in DOMAIN sessions, NEW k \in Nat, Current(s), Acked(s, k)'
        PROVE  Taken(k)'
    <3>1. Acked(s, k) \/ k = 0
      BY <1>10, <2>4, PacketWire
    <3>2. QED
      BY <1>7, <2>2, <2>3, <2>4, <3>1
  <2>5. QED
    BY <2>1, <2>4
<1>11. QED
  BY <1>9, <1>10

(* One poll of a transfer, whatever it finds.                              *)
LEMMA Service ==
  ASSUME TftpInv, Busy, NEW seen \in Int, udp_service(seen), pc' # "arp"
  PROVE  /\ UNCHANGED <<arguments, cached_ip, sessions>>
         /\ cached_mac' \in {None, cached_ip} /\ cached_mac' # None
         /\ FramesOK' /\ SessionsOK'
         /\ total_length' \in Int /\ transfer_finished' \in BOOLEAN /\ disturbed' \in BOOLEAN
         /\ last_ack' \in Int /\ buffer' \in [1 .. Wrap - 1 -> Seq(Nat)]
         /\ total_length' >= 0 \/ (transfer_finished' /\ total_length' = -1)
         /\ disturbed => disturbed'
         /\ \/ last_ack' = seen /\ UNCHANGED data_port
            \/ /\ ~ transfer_finished'
               /\ last_ack' \in 0 .. Wrap - 1
               /\ data_port' \in DOMAIN sessions
               /\ sessions[data_port'].pos >= last_ack'
               /\ ~ disturbed' => sessions[data_port'].call = calls
         /\ op = "get" /\ ~ disturbed' /\ total_length' >= 0 =>
              /\ \A s \in DOMAIN sessions, k \in Nat : Current(s) /\ Acked(s, k)' => Taken(k)'
              /\ transfer_finished' =>
                   /\ total_length' >= length
                   /\ \A k \in 1 .. Blocks(length) :
                        k \in 1 .. Wrap - 1 /\ buffer'[k] = <<calls, k>>
<1>1. UNCHANGED <<arguments, cached_ip, sessions, calls, op, host, length>>
  BY DEF udp_service, arguments
<1>2. /\ cached_mac \in Hosts /\ cached_mac = cached_ip /\ cached_mac # None
      /\ total_length \in Int /\ total_length >= 0 /\ transfer_finished = FALSE
      /\ disturbed \in BOOLEAN /\ buffer \in [1 .. Wrap - 1 -> Seq(Nat)]
  BY DEF TftpInv, CacheOK, ClientOK, TftpTypeOK
<1>3. ASSUME NEW f \in FromServer, rx_callback_packet(f, seen), UNCHANGED cached_mac
      PROVE  /\ FramesOK' /\ SessionsOK'
             /\ op = "get" /\ ~ disturbed' /\ total_length' >= 0 =>
                  /\ \A s \in DOMAIN sessions, k \in Nat : Current(s) /\ Acked(s, k)' => Taken(k)'
                  /\ transfer_finished' =>
                       /\ total_length' >= length
                       /\ \A k \in 1 .. Blocks(length) :
                            k \in 1 .. Wrap - 1 /\ buffer'[k] = <<calls, k>>
  <2>1. FramesOK' /\ SessionsOK'
    BY <1>1, <1>2, <1>3, PacketWire
  <2>2. QED
    BY <1>1, <1>2, <1>3, <2>1, PacketTaken
<1>4. CASE \E f \in FromServer : rx_callback_packet(f, seen) /\ UNCHANGED cached_mac
  <2>1. PICK f \in FromServer : rx_callback_packet(f, seen) /\ UNCHANGED cached_mac
    BY <1>4
  <2>2. QED
    BY <1>1, <1>2, <1>3, <2>1, PacketState
<1>5. ASSUME UNCHANGED received, last_ack' = seen, \A s, k : Acked(s, k)' <=> Acked(s, k)
      PROVE  /\ total_length' \in Int /\ transfer_finished' \in BOOLEAN /\ disturbed' \in BOOLEAN
             /\ last_ack' \in Int /\ buffer' \in [1 .. Wrap - 1 -> Seq(Nat)]
             /\ total_length' >= 0 /\ disturbed' = disturbed
             /\ ~ transfer_finished' /\ UNCHANGED data_port
             /\ op = "get" /\ ~ disturbed' =>
                  \A s \in DOMAIN sessions, k \in Nat : Current(s) /\ Acked(s, k)' => Taken(k)'
  <2>1. UNCHANGED <<total_length, transfer_finished, data_port, buffer, disturbed>>
    BY <1>5 DEF received
  <2>2. \A k : Taken(k) => Taken(k)'
    BY <1>1, <2>1 DEF Taken
  <2>3. op = "get" /\ ~ disturbed =>
          \A s \in DOMAIN sessions, k \in Nat : Current(s) /\ Acked(s, k) => Taken(k)
    BY DEF TftpInv, TransferOK
  <2>4. QED
    BY <1>2, <1>5, <2>1, <2>2, <2>3
<1>6. CASE last_ack' = seen /\ UNCHANGED <<wire, received, cached_mac>>
  <2>1. FramesOK' /\ SessionsOK'
    BY <1>1, <1>6, FramesAdded
  <2>2. \A s, k : Acked(s, k)' <=> Acked(s, k)
    BY <1>6 DEF Acked
  <2>3. QED
    BY <1>1, <1>2, <1>5, <1>6, <2>1, <2>2
<1>7. CASE \E f \in ArpFrames : process_arp(f) /\ last_ack' = seen /\ UNCHANGED received
  <2>1. PICK f \in ArpFrames : process_arp(f) /\ last_ack' = seen /\ UNCHANGED received
    BY <1>7
  <2>2. /\ cached_mac' \in {None, cached_ip} /\ (cached_mac # None => cached_mac' # None)
        /\ FramesOK' /\ SessionsOK'
        /\ \A s, k : Acked(s, k)' <=> Acked(s, k)
    BY <1>1, <2>1, ArpService
  <2>3. QED
    BY <1>1, <1>2, <1>5, <2>1, <2>2
<1>8. QED
  BY <1>4, <1>6, <1>7 DEF udp_service, process_ip

(* Sending a block or a request puts nothing wrong on the wire.            *)
LEMMA SendsData ==
  ASSUME TftpInv, NEW n \in 1 .. Wrap, wire' = udp_send(Data(data_port, n)),
         cached_mac \in Hosts, data_port \in DOMAIN sessions,
         UNCHANGED <<calls, op, length, sessions>>, pc' = "arp" => pc = "arp"
  PROVE  FramesOK' /\ SessionsOK' /\ \A s, k : Acked(s, k)' <=> Acked(s, k)
<1>1. PICK g : /\ g = Data(data_port, n)
               /\ g.type = "data" /\ g.dst = cached_mac /\ g.session = data_port
               /\ g.n = n /\ g.content = <<calls, n>>
  BY NewData
<1>2. n \in Nat /\ calls \in Nat /\ cached_mac # MyIp
  BY UdpAssumption, TftpAssumption DEF TftpInv, TftpTypeOK
<1>3. ClientPacketOK(g)'
  <2>1. g.session \in DOMAIN sessions' /\ g.n \in Nat /\ g.n \in 1 .. Wrap
    BY <1>1, <1>2
  <2>2. g.content \in Seq(Nat) /\ g.content = <<calls', g.n>>
    BY <1>1, <1>2
  <2>3. QED
    BY <2>1, <2>2 DEF ClientPacketOK
<1>4. FrameOK(g)' /\ g.type # "ack"
  BY <1>1, <1>2, <1>3 DEF FrameOK, PacketTypes
<1>5. wire' = wire \/ wire' = wire \cup {g}
  BY <1>1 DEF udp_send, send_packet
<1>6. QED
  BY <1>4, <1>5, FramesAdded, NothingAcked

(* A request that goes out to the host keeps frames and sessions right.    *)
LEMMA SendsRequest ==
  ASSUME TftpInv, wire' = udp_send(Request), cached_mac = host, host \in Hosts,
         UNCHANGED <<calls, op, length, sessions>>, pc' # "arp"
  PROVE  FramesOK' /\ SessionsOK' /\ \A s, k : Acked(s, k)' <=> Acked(s, k)
<1>1. PICK g : /\ g = Request
               /\ g.type = "request" /\ g.dst = cached_mac /\ g.op = op /\ g.call = calls
               /\ g.host = host /\ g.length = length
  BY NewRequest
<1>2. RequestOK(g)'
  BY <1>1 DEF RequestOK, TftpInv, TftpTypeOK
<1>3. FrameOK(g)' /\ g.type # "ack"
  BY <1>1, <1>2 DEF FrameOK, PacketTypes
<1>4. wire' = wire \/ wire' = wire \cup {g}
  BY <1>1 DEF udp_send, send_packet
<1>5. QED
  BY <1>3, <1>4, FramesAdded, NothingAcked

-----------------------------------------------------------------------------
(* A call that has ended leaves frames behind and nothing else.            *)
LEMMA Leave ==
  ASSUME TftpInv, pc' = "idle", rx_callback' = FALSE, block' = 0,
         UNCHANGED <<calls, op, length, host, cached_ip, sessions>>,
         cached_mac' \in {None, cached_ip}, FramesOK', SessionsOK',
         total_length' \in Int, transfer_finished' \in BOOLEAN, disturbed' \in BOOLEAN,
         last_ack' \in Int, buffer' \in [1 .. Wrap - 1 -> Seq(Nat)]
  PROVE  TftpInv' /\ ~ Busy'
<1>1. ~ Busy'
  BY DEF Busy
<1>2. TftpTypeOK'
  BY DEF TftpInv, TftpTypeOK
<1>3. CacheOK'
  BY <1>1 DEF TftpInv, CacheOK
<1>4. ClientOK'
  BY <1>1 DEF ClientOK
<1>5. TransferOK'
  BY <1>1 DEF TransferOK
<1>6. QED
  BY <1>1, <1>2, <1>3, <1>4, <1>5 DEF TftpInv

(* A get returns the length when the whole file is in the buffer.          *)
LEMMA GetPollStep ==
  ASSUME TftpInv, GetPoll
  PROVE  /\ TftpInv' /\ UNCHANGED length /\ (disturbed => disturbed')
         /\ \/ Busy' /\ UNCHANGED result
            \/ ~ Busy' /\ (result' = -1 \/ disturbed' \/ (result' >= length /\ InBuffer'))
<1>1. /\ Busy /\ last_ack \in Int /\ op = "get" /\ pc \in {"request", "receive"}
      /\ udp_service(last_ack) /\ pc' # "arp"
  BY DEF GetPoll, Busy, Finish, Proceed, TftpInv, TftpTypeOK
<1>2. /\ UNCHANGED <<arguments, calls, op, host, length, cached_ip, sessions>>
      /\ cached_mac' \in {None, cached_ip} /\ cached_mac' # None
      /\ FramesOK' /\ SessionsOK'
      /\ total_length' \in Int /\ transfer_finished' \in BOOLEAN /\ disturbed' \in BOOLEAN
      /\ last_ack' \in Int /\ buffer' \in [1 .. Wrap - 1 -> Seq(Nat)]
      /\ total_length' >= 0 \/ (transfer_finished' /\ total_length' = -1)
      /\ disturbed => disturbed'
      /\ ~ disturbed' /\ total_length' >= 0 =>
           /\ \A s \in DOMAIN sessions, k \in Nat : Current(s) /\ Acked(s, k)' => Taken(k)'
           /\ transfer_finished' =>
                /\ total_length' >= length
                /\ \A k \in 1 .. Blocks(length) :
                     k \in 1 .. Wrap - 1 /\ buffer'[k] = <<calls, k>>
  BY <1>1, Service DEF arguments
<1>3. CASE transfer_finished'
  <2>1. Finish(total_length')
    BY <1>1, <1>3 DEF GetPoll
  <2>2. TftpInv' /\ ~ Busy'
    BY <1>2, <2>1, Leave DEF Finish
  <2>3. ~ disturbed' /\ total_length' >= 0 => total_length' >= length /\ InBuffer'
    BY <1>1, <1>2, <1>3 DEF InBuffer, Content
  <2>4. QED
    BY <1>2, <2>1, <2>2, <2>3 DEF Finish
<1>4. CASE ~ transfer_finished'
  <2>1. Proceed(IF total_length' > 0 THEN "receive" ELSE pc)
    BY <1>1, <1>4 DEF GetPoll
  <2>2. /\ pc' \in {"request", "receive"} /\ UNCHANGED <<result, rx_callback, block>>
        /\ pc' = "request" => pc = "request"
    BY <1>1, <2>1 DEF Proceed
  <2>3. Busy'
    BY <2>2 DEF Busy
  <2>4. TftpTypeOK'
    BY <1>2, <2>2 DEF TftpInv, TftpTypeOK
  <2>5. CacheOK'
    BY <1>1, <1>2, <2>2 DEF TftpInv, CacheOK
  <2>6. ClientOK'
    BY <1>1, <1>2, <1>4, <2>2, <2>3 DEF TftpInv, ClientOK
  <2>7. TransferOK'
    BY <1>2, <1>4, <2>2 DEF TransferOK, Current
  <2>8. QED
    BY <1>2, <2>2, <2>3, <2>4, <2>5, <2>6, <2>7 DEF TftpInv
<1>5. QED
  BY <1>3, <1>4

(* A put goes on to its first block when its request is acknowledged ...   *)
LEMMA PutPollStep ==
  ASSUME TftpInv, PutPoll
  PROVE  /\ TftpInv' /\ UNCHANGED length /\ (disturbed => disturbed')
         /\ (Busy' /\ UNCHANGED result) \/ (~ Busy' /\ result' = -1)
<1>1. /\ Busy /\ op = "put" /\ pc = "request" /\ -1 \in Int
      /\ udp_service(-1) /\ pc' # "arp"
  BY DEF PutPoll, Busy, Finish, Proceed
<1>2. /\ UNCHANGED <<arguments, calls, op, host, length, cached_ip, sessions>>
      /\ cached_mac' \in {None, cached_ip} /\ cached_mac' # None
      /\ FramesOK' /\ SessionsOK'
      /\ total_length' \in Int /\ transfer_finished' \in BOOLEAN /\ disturbed' \in BOOLEAN
      /\ last_ack' \in Int /\ buffer' \in [1 .. Wrap - 1 -> Seq(Nat)]
      /\ total_length' >= 0 \/ (transfer_finished' /\ total_length' = -1)
      /\ disturbed => disturbed'
      /\ \/ last_ack' = -1
         \/ ~ transfer_finished' /\ data_port' \in DOMAIN sessions
  BY <1>1, Service DEF arguments
<1>3. CASE transfer_finished' /\ last_ack' # 0
  <2>1. Finish(-1)
    BY <1>1, <1>3 DEF PutPoll
  <2>2. TftpInv' /\ ~ Busy'
    BY <1>2, <2>1, Leave DEF Finish
  <2>3. QED
    BY <1>2, <2>1, <2>2 DEF Finish
<1>4. CASE ~ (transfer_finished' /\ last_ack' # 0)
  <2>1. Proceed(IF last_ack' = 0 THEN "next" ELSE pc) /\ ~ transfer_finished'
    BY <1>1, <1>2, <1>4 DEF PutPoll
  <2>2. /\ UNCHANGED <<result, rx_callback, block>> /\ block = 0
        /\ \/ pc' = "request"
           \/ pc' = "next" /\ last_ack' = 0 /\ data_port' \in DOMAIN sessions
    BY <1>1, <1>2, <2>1 DEF Proceed, TftpInv, ClientOK
  <2>3. Busy'
    BY <2>2 DEF Busy
  <2>4. TftpTypeOK'
    BY <1>2, <2>2 DEF TftpInv, TftpTypeOK
  <2>5. CacheOK'
    BY <1>1, <1>2, <2>2 DEF TftpInv, CacheOK
  <2>6. ClientOK'
    <3>1. Blocks(length) \in Nat /\ Wrap \in Nat /\ Wrap > 1
      BY BlockLengths, TftpAssumption DEF TftpInv, TftpTypeOK
    <3>2. QED
      BY <1>1, <1>2, <2>1, <2>2, <2>3, <3>1 DEF TftpInv, ClientOK
  <2>7. TransferOK'
    BY <1>1, <1>2, <2>2 DEF TransferOK
  <2>8. QED
    BY <1>2, <2>2, <2>3, <2>4, <2>5, <2>6, <2>7 DEF TftpInv
<1>5. QED
  BY <1>3, <1>4

(* ... and from each block to the next when a server has it.               *)
LEMMA SendPollStep ==
  ASSUME TftpInv, SendPoll
  PROVE  /\ TftpInv' /\ UNCHANGED length /\ (disturbed => disturbed')
         /\ (Busy' /\ UNCHANGED result) \/ (~ Busy' /\ result' = -1)
<1>1. /\ Busy /\ op = "put" /\ pc = "send" /\ last_ack \in Int
      /\ udp_service(last_ack) /\ pc' # "arp"
      /\ last_ack # block /\ block \in Nat /\ block \in 1 .. Wrap /\ block <= Blocks(length)
      /\ data_port \in DOMAIN sessions
  BY DEF SendPoll, Busy, Finish, Proceed, TftpInv, TftpTypeOK, ClientOK
<1>2. /\ UNCHANGED <<arguments, calls, op, host, length, cached_ip, sessions>>
      /\ cached_mac' \in {None, cached_ip} /\ cached_mac' # None
      /\ FramesOK' /\ SessionsOK'
      /\ total_length' \in Int /\ transfer_finished' \in BOOLEAN /\ disturbed' \in BOOLEAN
      /\ last_ack' \in Int /\ buffer' \in [1 .. Wrap - 1 -> Seq(Nat)]
      /\ total_length' >= 0 \/ (transfer_finished' /\ total_length' = -1)
      /\ disturbed => disturbed'
      /\ \/ last_ack' = last_ack /\ UNCHANGED data_port
         \/ /\ last_ack' \in 0 .. Wrap - 1
            /\ data_port' \in DOMAIN sessions
            /\ sessions[data_port'].pos >= last_ack'
            /\ ~ disturbed' => sessions[data_port'].call = calls
  BY <1>1, Service DEF arguments
<1>3. CASE transfer_finished'
  <2>1. Finish(-1)
    BY <1>1, <1>3 DEF SendPoll
  <2>2. TftpInv' /\ ~ Busy'
    BY <1>2, <2>1, Leave DEF Finish
  <2>3. QED
    BY <1>2, <2>1, <2>2 DEF Finish
<1>4. CASE ~ transfer_finished'
  <2>1. Proceed(IF last_ack' = block THEN "next" ELSE pc)
    BY <1>1, <1>4 DEF SendPoll
  <2>2. /\ UNCHANGED <<result, rx_callback, block>> /\ data_port' \in DOMAIN sessions
        /\ \/ pc' = "send" /\ last_ack' # block
           \/ pc' = "next" /\ last_ack' = block /\ block < Wrap
    BY <1>1, <1>2, <2>1, TftpAssumption DEF Proceed
  <2>3. Busy'
    BY <2>2 DEF Busy
  <2>4. TftpTypeOK'
    BY <1>2, <2>2 DEF TftpInv, TftpTypeOK
  <2>5. CacheOK'
    BY <1>1, <1>2, <2>2 DEF TftpInv, CacheOK
  <2>6. ClientOK'
    BY <1>1, <1>2, <1>4, <2>2, <2>3 DEF TftpInv, ClientOK
  <2>7. TransferOK'
    <3>1. ASSUME ~ disturbed', pc' = "next"
          PROVE  Current(data_port') /\ sessions[data_port'].pos >= block
      BY <1>1, <1>2, <2>2, <3>1 DEF Current
    <3>2. QED
      BY <1>1, <1>2, <2>2, <3>1 DEF TransferOK, Current
  <2>8. QED
    BY <1>2, <2>2, <2>3, <2>4, <2>5, <2>6, <2>7 DEF TftpInv
<1>5. QED
  BY <1>3, <1>4

(* What a put has sent is on the server when its last block is there.      *)
LEMMA PutEnds ==
  ASSUME TftpInv, pc = "next", block = Blocks(length), ~ disturbed
  PROVE  OnServer
<1>1. op = "put" /\ block < Wrap /\ block \in Nat /\ length \in Nat /\ Busy /\ Wrap \in Nat
  BY TftpAssumption DEF TftpInv, TftpTypeOK, ClientOK, Busy
<1>2. block > 0
  BY <1>1, BlockLengths
<1>3. PICK s \in DOMAIN sessions : Current(s) /\ sessions[s].pos >= block
  BY <1>1, <1>2 DEF TftpInv, TransferOK
<1>4. SessionOK(s) /\ sessions[s] \in Session
  BY DEF TftpInv, SessionsOK, TftpTypeOK
<1>5. sessions[s].call = calls
  BY <1>3 DEF Current
<1>6. sessions[s].op = op /\ sessions[s].length = length /\ sessions[s].pos <= Blocks(length)
  BY <1>4, <1>5 DEF SessionOK
<1>7. sessions[s].pos \in Nat /\ sessions[s].got \in Seq(Seq(Nat))
  BY <1>4 DEF Session
<1>8. sessions[s].pos = block
  BY <1>1, <1>3, <1>6, <1>7
<1>9. /\ Len(sessions[s].got) = block
      /\ \A k \in 1 .. block : k <= Wrap => sessions[s].got[k] = <<calls, k>>
  BY <1>1, <1>4, <1>5, <1>6, <1>8 DEF SessionOK
<1>10. \A k \in 1 .. block : sessions[s].got[k] = <<calls, k>>
  BY <1>1, <1>9
<1>11. sessions[s].got = Content
  <2> DEFINE got == sessions[s].got
  <2>1. got = [k \in 1 .. block |-> got[k]]
    BY <1>1, <1>7, <1>9
  <2>2. QED
    BY <1>10, <2>1 DEF Content
<1>12. QED
  BY <1>1, <1>11 DEF OnServer

(* The next block of a put, or its end: with all the blocks on the server. *)
LEMMA NextBlockStep ==
  ASSUME TftpInv, NextBlock
  PROVE  /\ TftpInv' /\ UNCHANGED length /\ UNCHANGED disturbed
         /\ \/ Busy' /\ UNCHANGED result
            \/ ~ Busy' /\ (disturbed \/ (result' >= length /\ OnServer'))
<1>1. /\ Busy /\ op = "put" /\ pc = "next" /\ last_ack = block /\ block < Wrap
      /\ block \in Nat /\ length \in Nat /\ block <= Blocks(length) /\ Wrap \in Nat
      /\ data_port \in DOMAIN sessions /\ Blocks(length) \in Nat
      /\ cached_mac = cached_ip /\ cached_mac \in Hosts
  BY TftpAssumption, BlockLengths DEF NextBlock, Busy, TftpInv, TftpTypeOK, ClientOK, CacheOK
<1>2. /\ UNCHANGED <<cached_ip, cached_mac, arguments, calls, op, host, length, received,
                     total_length, transfer_finished, data_port, buffer, disturbed,
                     last_ack, sessions>>
  BY DEF NextBlock, arguments, received
<1>3. CASE block = Blocks(length)
  <2>1. Finish(length) /\ UNCHANGED wire
    BY <1>3 DEF NextBlock
  <2>2. FramesOK' /\ SessionsOK'
    BY <1>1, <1>2, <2>1, FramesAdded DEF Finish
  <2>3. TftpInv' /\ ~ Busy'
    BY <1>2, <2>1, <2>2, Leave DEF Finish, TftpInv, TftpTypeOK, CacheOK
  <2>4. disturbed \/ OnServer
    BY <1>1, <1>3, PutEnds
  <2>5. OnServer => OnServer'
    BY <1>2 DEF OnServer, Content
  <2>6. result' >= length
    BY <1>1, <2>1 DEF Finish
  <2>7. QED
    BY <1>2, <2>3, <2>4, <2>5, <2>6
<1>4. CASE block # Blocks(length)
  <2>1. /\ block' = block + 1 /\ pc' = "send" /\ UNCHANGED <<result, rx_callback>>
        /\ wire' = udp_send(Data(data_port, block + 1))
    BY <1>4 DEF NextBlock
  <2>2. FramesOK' /\ SessionsOK'
    BY <1>1, <1>2, <2>1, SendsData
  <2>3. Busy'
    BY <2>1 DEF Busy
  <2>4. TftpTypeOK'
    BY <1>1, <1>2, <2>1 DEF TftpInv, TftpTypeOK
  <2>5. CacheOK'
    BY <1>1, <1>2, <2>1 DEF TftpInv, CacheOK, Busy
  <2>6. ClientOK'
    BY <1>1, <1>2, <1>4, <2>1, <2>3 DEF TftpInv, ClientOK
  <2>7. TransferOK'
    BY <1>1, <1>2, <2>1 DEF TransferOK
  <2>8. QED
    BY <1>2, <2>1, <2>2, <2>3, <2>4, <2>5, <2>6, <2>7 DEF TftpInv
<1>5. QED
  BY <1>3, <1>4

(* The blocks that are acknowledged stay where they are.                   *)
LEMMA SameTransfer ==
  ASSUME TransferOK, Busy, (pc' = "next" => pc = "next"),
         UNCHANGED <<calls, op, length, total_length, buffer, disturbed, block, sessions>>,
         \A s, k : Acked(s, k)' <=> Acked(s, k)
  PROVE  TransferOK'
<1>1. \A k : Taken(k)' <=> Taken(k)
  BY DEF Taken
<1>2. \A s : Current(s)' <=> Current(s)
  BY DEF Current
<1>3. QED
  BY <1>1, <1>2 DEF TransferOK

(* A timeout ends the call or sends the packet again, to the same machine. *)
LEMMA TimeoutStep ==
  ASSUME TftpInv, Timeout
  PROVE  /\ TftpInv' /\ UNCHANGED length /\ UNCHANGED disturbed
         /\ (Busy' /\ UNCHANGED result) \/ (~ Busy' /\ result' = -1)
<1>1. /\ Busy /\ pc \in {"request", "receive", "send"}
      /\ cached_mac = cached_ip /\ cached_mac = host /\ host \in Hosts
  BY DEF Timeout, Busy, TftpInv, CacheOK
<1>2. /\ UNCHANGED <<cached_ip, cached_mac, arguments, calls, op, host, length, received,
                     total_length, transfer_finished, data_port, buffer, disturbed,
                     last_ack, sessions>>
  BY DEF Timeout, arguments, received
<1>3. CASE tries = 1 \/ pc = "receive"
  <2>1. Finish(-1) /\ UNCHANGED wire
    BY <1>3 DEF Timeout
  <2>2. FramesOK' /\ SessionsOK'
    BY <1>1, <1>2, <2>1, FramesAdded DEF Finish
  <2>3. TftpInv' /\ ~ Busy'
    BY <1>2, <2>1, <2>2, Leave DEF Finish, TftpInv, TftpTypeOK, CacheOK
  <2>4. QED
    BY <1>2, <2>1, <2>3 DEF Finish
<1>4. CASE ~ (tries = 1 \/ pc = "receive")
  <2>1. /\ UNCHANGED <<pc, result, rx_callback, block>>
        /\ wire' = udp_send(IF pc = "send" THEN Data(data_port, block) ELSE Request)
    BY <1>4 DEF Timeout
  <2>2. FramesOK' /\ SessionsOK' /\ \A s, k : Acked(s, k)' <=> Acked(s, k)
    <3>1. CASE pc = "send"
      <4>1. block \in 1 .. Wrap /\ data_port \in DOMAIN sessions
        BY <3>1 DEF TftpInv, ClientOK
      <4>2. QED
        BY <1>1, <1>2, <2>1, <3>1, <4>1, SendsData
    <3>2. CASE pc # "send"
      BY <1>1, <1>2, <2>1, <3>2, SendsRequest
    <3>3. QED
      BY <3>1, <3>2
  <2>3. Busy'
    BY <1>1, <2>1 DEF Busy
  <2>4. TftpTypeOK'
    BY <1>2, <2>1 DEF TftpInv, TftpTypeOK
  <2>5. CacheOK'
    BY <1>1, <1>2, <2>1 DEF TftpInv, CacheOK, Busy
  <2>6. ClientOK'
    BY <1>1, <1>2, <2>1, <2>3 DEF TftpInv, ClientOK
  <2>7. TransferOK'
    BY <1>1, <1>2, <2>1, <2>2, SameTransfer DEF TftpInv
  <2>8. QED
    BY <1>2, <2>1, <2>2, <2>3, <2>4, <2>5, <2>6, <2>7 DEF TftpInv
<1>5. QED
  BY <1>3, <1>4

(* While the address is looked up, only the ARP cache may change.          *)
LEMMA ArpPollStep ==
  ASSUME TftpInv, ArpPoll
  PROVE  TftpInv' /\ ~ Busy /\ ~ Busy' /\ UNCHANGED buffer
<1>1. /\ ~ Busy /\ pc = "arp" /\ pc' = "arp" /\ ~ rx_callback /\ ~ disturbed
      /\ UNCHANGED <<result, rx_callback, block>>
  BY DEF ArpPoll, Busy, Proceed, TftpInv, ClientOK
<1>2. /\ UNCHANGED <<cached_ip, arguments, calls, op, host, length, sessions, received,
                     last_ack, total_length, transfer_finished, data_port, buffer, disturbed>>
  BY <1>1 DEF ArpPoll, udp_service, process_ip, arguments, received
<1>3. cached_mac' \in {None, cached_ip} /\ FramesOK' /\ SessionsOK'
  <2>1. CASE UNCHANGED <<wire, cached_mac>>
    BY <1>1, <1>2, <2>1, FramesAdded DEF TftpInv, CacheOK
  <2>2. CASE \E f \in ArpFrames : process_arp(f)
    BY <1>1, <1>2, <2>2, ArpService
  <2>3. QED
    BY <1>1, <2>1, <2>2 DEF ArpPoll, udp_service, process_ip
<1>4. TftpTypeOK'
  BY <1>1, <1>2 DEF TftpInv, TftpTypeOK
<1>5. ~ Busy'
  BY <1>1 DEF Busy
<1>6. CacheOK' /\ ClientOK' /\ TransferOK'
  BY <1>1, <1>2, <1>3, <1>5 DEF TftpInv, CacheOK, ClientOK, TransferOK
<1>7. QED
  BY <1>1, <1>2, <1>3, <1>4, <1>5, <1>6 DEF TftpInv

(* An address that does not resolve ends the call before it has begun.     *)
LEMMA ArpTimeoutStep ==
  ASSUME TftpInv, ArpTimeout
  PROVE  TftpInv' /\ ~ Busy /\ ~ Busy' /\ UNCHANGED buffer
<1>1. /\ ~ Busy /\ pc = "arp" /\ pc' \in {"idle", "arp"} /\ ~ rx_callback /\ ~ disturbed
      /\ UNCHANGED <<wire, cached_ip, cached_mac, rx_callback, arguments, received, last_ack,
                     block, sessions>>
  BY DEF ArpTimeout, Busy, TftpInv, ClientOK
<1>2. UNCHANGED <<calls, op, host, length, total_length, transfer_finished, data_port,
                  buffer, disturbed>>
  BY <1>1 DEF arguments, received
<1>3. FramesOK' /\ SessionsOK'
  BY <1>1, <1>2, FramesAdded
<1>4. TftpTypeOK'
  BY <1>1, <1>2 DEF TftpInv, TftpTypeOK
<1>5. ~ Busy'
  BY <1>1 DEF Busy
<1>6. CacheOK' /\ ClientOK' /\ TransferOK'
  BY <1>1, <1>2, <1>5 DEF TftpInv, CacheOK, ClientOK, TransferOK
<1>7. QED
  BY <1>1, <1>2, <1>3, <1>4, <1>5, <1>6 DEF TftpInv

(* The transfer begins with no session of its own.                         *)
LEMMA BeginStep ==
  ASSUME TftpInv, Begin
  PROVE  TftpInv' /\ ~ Busy /\ Busy' /\ ~ disturbed' /\ UNCHANGED buffer
<1>1. /\ ~ Busy /\ pc = "arp" /\ pc' = "request" /\ ~ disturbed
      /\ cached_mac # None /\ cached_mac = cached_ip /\ cached_mac = host /\ host \in Hosts
      /\ total_length' = 0 /\ transfer_finished' = FALSE /\ block' = 0
      /\ wire' = udp_send(Request)
      /\ UNCHANGED <<cached_ip, cached_mac, arguments, data_port, buffer, disturbed,
                     last_ack, sessions>>
  BY DEF Begin, Busy, TftpInv, ClientOK, CacheOK
<1>2. UNCHANGED <<calls, op, host, length>>
  BY <1>1 DEF arguments
<1>3. FramesOK' /\ SessionsOK'
  BY <1>1, <1>2, SendsRequest
<1>4. TftpTypeOK'
  <2>1. transfer_finished' \in BOOLEAN /\ disturbed' \in BOOLEAN
    BY <1>1 DEF TftpInv, TftpTypeOK
  <2>2. QED
    BY <1>1, <1>2, <2>1 DEF TftpInv, TftpTypeOK
<1>5. Busy'
  BY <1>1 DEF Busy
<1>6. CacheOK' /\ ClientOK'
  <2>1. ~ transfer_finished'
    BY <1>1
  <2>2. CacheOK'
    BY <1>1, <1>2, <1>5 DEF TftpInv, CacheOK
  <2>3. QED
    BY <1>1, <1>5, <2>1, <2>2 DEF ClientOK
<1>7. \A s \in DOMAIN sessions : ~ Current(s)
  BY <1>1 DEF TftpInv, SessionsOK, SessionOK, Current
<1>8. TransferOK'
  <2>1. \A s \in DOMAIN sessions' : ~ Current(s)'
    BY <1>1, <1>2, <1>7 DEF Current
  <2>2. QED
    BY <1>1, <2>1 DEF TransferOK
<1>9. QED
  BY <1>1, <1>3, <1>4, <1>5, <1>6, <1>8 DEF TftpInv

(* Frames and sessions of earlier calls are none of the new one.           *)
LEMMA CallStep ==
  ASSUME TftpInv, NEW o \in {"get", "put"}, NEW h \in Hosts, NEW l \in Nat, l <= MaxLength,
         Call(o, h, l)
  PROVE  TftpInv' /\ ~ Busy /\ ~ Busy' /\ UNCHANGED buffer
<1>1. /\ ~ Busy /\ ~ Busy' /\ pc = "idle" /\ pc' = "arp" /\ ~ rx_callback /\ ~ rx_callback'
      /\ calls' = calls + 1 /\ op' = o /\ host' = h /\ length' = l /\ disturbed' = FALSE
      /\ UNCHANGED <<total_length, transfer_finished, data_port, buffer, last_ack, block,
                     sessions>>
      /\ calls \in Nat
  BY DEF Call, Busy, TftpInv, TftpTypeOK, ClientOK, udpVars, AskNetwork
<1>2. TftpTypeOK'
  <2>1. disturbed' \in BOOLEAN
    BY <1>1
  <2>2. QED
    BY <1>1, <2>1 DEF TftpInv, TftpTypeOK
<1>3. CacheOK'
  BY <1>1 DEF Call, Cached, AskNetwork, udpVars, TftpInv, CacheOK
<1>4. ClientOK' /\ TransferOK'
  BY <1>1 DEF ClientOK, TransferOK
<1>5. \A s \in DOMAIN sessions : sessions[s].call \in Nat /\ sessions[s].call <= calls
  <2>1. \A s \in DOMAIN sessions : sessions[s] \in Session
    BY DEF TftpInv, TftpTypeOK
  <2>2. QED
    BY <2>1 DEF Session, TftpInv, SessionsOK, SessionOK
<1>6. ASSUME NEW f, FrameOK(f) PROVE FrameOK(f)'
  <2>1. RequestOK(f) => RequestOK(f)'
    BY <1>1 DEF RequestOK
  <2>2. ServerPacketOK(f) => ServerPacketOK(f)'
    BY <1>1 DEF ServerPacketOK
  <2>3. ClientPacketOK(f) => ClientPacketOK(f)'
    BY <1>1, <1>5 DEF ClientPacketOK, Current
  <2>4. QED
    BY <1>6, <2>1, <2>2, <2>3 DEF FrameOK
<1>7. wire \subseteq wire' /\ \A f \in wire' : f \in wire \/ f.type = "arp_request"
                                                \/ (f.type = "arp_reply" /\ f.mac = f.sender)
  BY DEF Call, AskNetwork, udpVars, send_packet, ArpRequest, ArpReply
<1>8. FramesOK'
  <2>1. \A f \in wire' : f \in wire \/ FrameOK(f)'
    BY <1>7 DEF FrameOK, PacketTypes
  <2>2. QED
    BY <1>6, <2>1 DEF TftpInv, FramesOK
<1>9. SessionsOK'
  <2>1. \A s, k : Acked(s, k) => Acked(s, k)'
    BY <1>7 DEF Acked
  <2>2. ASSUME NEW s \in DOMAIN sessions PROVE SessionOK(s)'
    <3>1. SessionOK(s) /\ sessions[s].call \in Nat /\ sessions[s].call <= calls
      BY <1>5 DEF TftpInv, SessionsOK
    <3>2. QED
      BY <1>1, <2>1, <3>1 DEF SessionOK
  <2>3. QED
    BY <1>1, <2>2 DEF SessionsOK
<1>10. QED
  BY <1>1, <1>2, <1>3, <1>4, <1>8, <1>9 DEF TftpInv

(* A restart between two calls forgets the address of the host.            *)
LEMMA RestartStep ==
  ASSUME TftpInv, Restart
  PROVE  TftpInv' /\ ~ Busy /\ ~ Busy' /\ UNCHANGED buffer
<1>1. /\ pc = "idle" /\ pc' = "idle"
      /\ cached_ip' = None /\ cached_mac' = None /\ rx_callback' = FALSE
      /\ UNCHANGED <<wire, arguments, received, last_ack, block, sessions>>
  BY DEF Restart, udp_start
<1>2. UNCHANGED <<calls, op, host, length, total_length, transfer_finished, data_port,
                  buffer, disturbed>>
  BY <1>1 DEF arguments, received
<1>3. ~ Busy /\ ~ Busy'
  BY <1>1 DEF Busy
<1>4. FramesOK' /\ SessionsOK'
  BY <1>1, <1>2, FramesAdded
<1>5. TftpTypeOK'
  BY <1>1, <1>2 DEF TftpInv, TftpTypeOK
<1>6. CacheOK' /\ ClientOK' /\ TransferOK'
  BY <1>1, <1>3 DEF CacheOK, ClientOK, TransferOK
<1>7. QED
  BY <1>2, <1>3, <1>4, <1>5, <1>6 DEF TftpInv

-----------------------------------------------------------------------------
(* A server that goes on with a session, or opens one, answers with a      *)
(* packet that is right about it.                                          *)
LEMMA ServerStep ==
  ASSUME TftpInv,
         UNCHANGED <<cached_ip, cached_mac, rx_callback, arguments, received, last_ack, pc,
                     block, result>>,
         SessionsGoOn, sessions' \in Seq(Session),
         NEW g, g.dst = MyIp, FrameOK(g)', wire' = wire \cup {g},
         \A s \in DOMAIN sessions' : SessionOK(s)'
  PROVE  TftpInv' /\ UNCHANGED <<length, result, disturbed, buffer>> /\ (Busy <=> Busy')
<1>1. UNCHANGED <<calls, op, host, length, total_length, transfer_finished, data_port,
                  buffer, disturbed>>
  BY DEF arguments, received
<1>2. Busy <=> Busy'
  BY DEF Busy
<1>3. TftpTypeOK'
  BY <1>1 DEF TftpInv, TftpTypeOK
<1>4. CacheOK'
  BY <1>1, <1>2 DEF TftpInv, CacheOK
<1>5. ClientOK'
  BY <1>1, <1>2 DEF TftpInv, ClientOK, SessionsGoOn
<1>6. FramesOK'
  BY <1>1, FrameStays DEF TftpInv, FramesOK
<1>7. SessionsOK'
  BY DEF SessionsOK
<1>8. \A s, k : Acked(s, k)' <=> Acked(s, k)
  BY NothingAcked
<1>9. \A s, k : Acked(s, k) => s \in DOMAIN sessions
  BY DEF Acked, TftpInv, FramesOK, FrameOK, PacketTypes, ClientPacketOK
<1>10. \A s \in DOMAIN sessions : Current(s)' <=> Current(s)
  BY <1>1 DEF Current, SessionsGoOn
<1>11. \A k : Taken(k) => Taken(k)'
  BY <1>1 DEF Taken
<1>12. TransferOK'
  <2>1. SUFFICES ASSUME Busy', ~ disturbed' PROVE
          /\ op' = "get" => \A s \in DOMAIN sessions', k \in Nat :
                              Current(s)' /\ Acked(s, k)' => Taken(k)'
          /\ pc' = "next" /\ block' > 0 =>
               \E s \in DOMAIN sessions' : Current(s)' /\ sessions'[s].pos >= block'
    BY DEF TransferOK
  <2>2. op' = "get" => \A s \in DOMAIN sessions', k \in Nat :
                         Current(s)' /\ Acked(s, k)' => Taken(k)'
    BY <1>1, <1>2, <1>8, <1>9, <1>10, <1>11, <2>1 DEF TftpInv, TransferOK
  <2>3. ASSUME pc' = "next", block' > 0
        PROVE  \E s \in DOMAIN sessions' : Current(s)' /\ sessions'[s].pos >= block'
    <3>1. PICK s \in DOMAIN sessions : Current(s) /\ sessions[s].pos >= block
      BY <1>1, <1>2, <2>1, <2>3 DEF TftpInv, TransferOK
    <3>2. /\ s \in DOMAIN sessions' /\ Current(s)' /\ sessions[s].pos \in Nat
          /\ sessions'[s].pos \in Nat /\ sessions[s].pos <= sessions'[s].pos /\ block \in Nat
      BY <1>10, <3>1 DEF SessionsGoOn, TftpInv, TftpTypeOK
    <3>3. QED
      BY <3>1, <3>2
  <2>4. QED
    BY <2>2, <2>3
<1>13. QED
  BY <1>1, <1>2, <1>3, <1>4, <1>5, <1>6, <1>7, <1>12 DEF TftpInv

(* A session that has gone on by a block.                                  *)
LEMMA OneSession ==
  ASSUME TftpTypeOK, NEW s \in DOMAIN sessions, NEW x \in Session,
         x.call = sessions[s].call, x.op = sessions[s].op, x.pos >= sessions[s].pos,
         sessions' = [sessions EXCEPT ![s] = x]
  PROVE  /\ SessionsGoOn /\ sessions' \in Seq(Session) /\ DOMAIN sessions' = DOMAIN sessions
         /\ sessions'[s] = x
         /\ \A z \in DOMAIN sessions : z # s => sessions'[z] = sessions[z]
<1>1. sessions \in Seq(Session) /\ \A z \in DOMAIN sessions : sessions[z] \in Session
  BY DEF TftpTypeOK
<1>2. /\ sessions' \in Seq(Session) /\ DOMAIN sessions' = DOMAIN sessions
      /\ sessions'[s] = x
      /\ \A z \in DOMAIN sessions : z # s => sessions'[z] = sessions[z]
  BY <1>1
<1>3. x.pos \in Nat /\ \A z \in DOMAIN sessions : sessions[z].pos \in Nat
  BY <1>1 DEF Session
<1>4. SessionsGoOn
  BY <1>2, <1>3 DEF SessionsGoOn
<1>5. QED
  BY <1>2, <1>4

(* A session as it begins.                                                 *)
LEMMA EmptySession ==
  ASSUME NEW c \in Nat, NEW o \in {"get", "put"}, NEW h \in Hosts, NEW l \in Nat
  PROVE  \E x : /\ x = [call |-> c, op |-> o, host |-> h, length |-> l, pos |-> 0, got |-> <<>>]
                /\ x.call = c /\ x.op = o /\ x.length = l
                /\ x.pos = 0 /\ x.got = <<>> /\ x \in Session
<1>1. PICK x : x = [call |-> c, op |-> o, host |-> h, length |-> l, pos |-> 0, got |-> <<>>]
  OBVIOUS
<1>2. <<>> \in Seq(Seq(Nat))
  OBVIOUS
<1>3. x \in Session
  BY <1>1, <1>2 DEF Session
<1>4. QED
  BY <1>1, <1>3

(* A session moved on.                                                     *)
LEMMA MovedSession ==
  ASSUME NEW x \in Session, NEW n \in Nat
  PROVE  LET y == [x EXCEPT !.pos = n]
         IN /\ y \in Session /\ y.call = x.call /\ y.op = x.op /\ y.pos = n
            /\ y.length = x.length /\ y.got = x.got
BY DEF Session

Packet(type, s, n) == [type |-> type, session |-> s, n |-> n, dst |-> MyIp]

(* The fields of a packet of a server.                                     *)
LEMMA NewPacket ==
  ASSUME NEW type, NEW s, NEW n
  PROVE  \E g : /\ g = Packet(type, s, n)
                /\ g.type = type /\ g.session = s /\ g.n = n /\ g.dst = MyIp
<1>1. PICK g : g = [type |-> type, session |-> s, n |-> n, dst |-> MyIp]
  OBVIOUS
<1>2. QED
  BY <1>1 DEF Packet

(* A request opens a session of the call that has sent it, with nothing in *)
(* it: no frame is about it yet.                                           *)
LEMMA AcceptStep ==
  ASSUME TftpInv, Accept,
         UNCHANGED <<cached_ip, cached_mac, rx_callback, arguments, received, last_ack, pc,
                     block, result>>
  PROVE  TftpInv' /\ UNCHANGED <<length, result, disturbed, buffer>> /\ (Busy <=> Busy')
<1> DEFINE new == Len(sessions) + 1
<1>1. PICK f \in wire :
        /\ f.type = "request"
        /\ sessions' = Append(sessions, [call |-> f.call, op |-> f.op, host |-> f.dst,
                                         length |-> f.length, pos |-> 0, got |-> <<>>])
        /\ \/ Emit("oack", Len(sessions'), 0)
           \/ f.op = "put" /\ Emit("ack", Len(sessions'), 0)
           \/ \E code \in {0, 1} : Emit("error", Len(sessions'), code)
  BY DEF Accept
<1>2. RequestOK(f)
  BY <1>1 DEF TftpInv, FramesOK, FrameOK
<1>3. PICK x : /\ x = [call |-> f.call, op |-> f.op, host |-> f.dst,
                       length |-> f.length, pos |-> 0, got |-> <<>>]
               /\ x.call = f.call /\ x.op = f.op /\ x.length = f.length
               /\ x.pos = 0 /\ x.got = <<>> /\ x \in Session
  BY <1>2, EmptySession DEF RequestOK
<1>4. /\ sessions \in Seq(Session) /\ Len(sessions) \in Nat
      /\ DOMAIN sessions = 1 .. Len(sessions)
      /\ UNCHANGED <<calls, op, length>>
  BY DEF TftpInv, TftpTypeOK, arguments
<1>5. /\ sessions' \in Seq(Session) /\ Len(sessions') = new
      /\ DOMAIN sessions' = DOMAIN sessions \cup {new}
      /\ sessions'[new] = x
      /\ \A z \in DOMAIN sessions : sessions'[z] = sessions[z]
  BY <1>1, <1>3, <1>4
<1>6. \A z \in DOMAIN sessions : sessions[z].pos \in Nat
  <2>1. \A z \in DOMAIN sessions : sessions[z] \in Session
    BY <1>4
  <2>2. QED
    BY <2>1 DEF Session
<1>7. SessionsGoOn
  BY <1>5, <1>6 DEF SessionsGoOn
<1>8. PICK type \in {"oack", "ack", "error"}, n \in {0, 1} :
        /\ wire' = wire \cup {Packet(type, new, n)}
        /\ type = "ack" => f.op = "put" /\ n = 0
  BY <1>1, <1>5 DEF Emit, Packet
<1>9. PICK g : /\ g = Packet(type, new, n)
               /\ g.type = type /\ g.session = new /\ g.n = n /\ g.dst = MyIp
  BY NewPacket
<1>10. FrameOK(g)'
  <2>1. g.session \in DOMAIN sessions' /\ g.n \in Nat /\ g.type # "data"
    BY <1>5, <1>9
  <2>2. g.type = "ack" => sessions'[g.session].op = "put" /\ g.n <= sessions'[g.session].pos
    BY <1>3, <1>5, <1>8, <1>9
  <2>3. ServerPacketOK(g)'
    BY <2>1, <2>2 DEF ServerPacketOK
  <2>4. g.type # "request" /\ g.type # "arp_reply"
    BY <1>9
  <2>5. QED
    BY <1>9, <2>3, <2>4 DEF FrameOK
<1>11. \A s, k : Acked(s, k) => Acked(s, k)'
  BY <1>8 DEF Acked
<1>12. ASSUME NEW s \in DOMAIN sessions' PROVE SessionOK(s)'
  <2>1. CASE s \in DOMAIN sessions
    <3>1. SessionOK(s) /\ sessions'[s] = sessions[s]
      BY <1>5, <2>1 DEF TftpInv, SessionsOK
    <3>2. QED
      BY <1>4, <1>11, <3>1 DEF SessionOK
  <2>2. CASE s = new
    <3>1. /\ x.call \in Nat /\ x.call <= calls /\ x.length \in Nat /\ x.op \in {"get", "put"}
          /\ x.call = calls => pc # "arp" /\ x.op = op /\ x.length = length
      BY <1>2, <1>3 DEF RequestOK
    <3>2. Blocks(x.length) \in Nat
      BY <3>1, BlockLengths
    <3>3. Len(x.got) = 0
      BY <1>3
    <3>4. QED
      BY <1>3, <1>4, <1>5, <2>2, <3>1, <3>2, <3>3 DEF SessionOK
  <2>3. QED
    BY <1>5, <2>1, <2>2
<1>13. QED
  BY <1>5, <1>7, <1>8, <1>9, <1>10, <1>12, ServerStep

(* The next block goes out when the one before it is acknowledged.         *)
LEMMA ServeGetStep ==
  ASSUME TftpInv, NEW s \in DOMAIN sessions, ServeGet(s),
         UNCHANGED <<cached_ip, cached_mac, rx_callback, arguments, received, last_ack, pc,
                     block, result>>
  PROVE  TftpInv' /\ UNCHANGED <<length, result, disturbed, buffer>> /\ (Busy <=> Busy')
<1> DEFINE x == sessions[s]
           y == [x EXCEPT !.pos = x.pos + 1]
<1>1. /\ x.op = "get" /\ x.pos < Wrap /\ x.pos < Blocks(x.length)
      /\ \E f \in wire : f.type = "ack" /\ f.dst = x.host /\ f.session = s /\ f.n = x.pos
      /\ sessions' = [sessions EXCEPT ![s] = y]
      /\ wire' = wire \cup {Packet("data", s, x.pos + 1)}
  BY DEF ServeGet, Emit, Packet
<1>2. x \in Session /\ SessionOK(s) /\ UNCHANGED <<calls, op, length>>
  BY DEF TftpInv, TftpTypeOK, SessionsOK, arguments
<1>3. x.pos \in Nat /\ x.host \in Hosts /\ x.length \in Nat /\ Wrap \in Nat
      /\ Blocks(x.length) \in Nat
  BY <1>2, TftpAssumption, BlockLengths DEF Session
<1>4. /\ y \in Session /\ y.call = x.call /\ y.op = x.op /\ y.pos = x.pos + 1
      /\ y.length = x.length
  BY <1>2, <1>3, MovedSession
<1>5. /\ SessionsGoOn /\ sessions' \in Seq(Session) /\ DOMAIN sessions' = DOMAIN sessions
      /\ sessions'[s] = y
      /\ \A z \in DOMAIN sessions : z # s => sessions'[z] = sessions[z]
  <2>1. y.pos >= x.pos
    BY <1>3, <1>4
  <2>2. QED
    BY <1>1, <1>4, <2>1, OneSession DEF TftpInv
<1>6. PICK g : /\ g = Packet("data", s, x.pos + 1)
               /\ g.type = "data" /\ g.session = s /\ g.n = x.pos + 1 /\ g.dst = MyIp
  BY NewPacket
<1>7. FrameOK(g)'
  <2>1. /\ g.session \in DOMAIN sessions' /\ g.n \in Nat
        /\ sessions'[g.session].op = "get" /\ g.n <= Wrap
        /\ g.n \in 1 .. sessions'[g.session].pos
    BY <1>1, <1>3, <1>4, <1>5, <1>6
  <2>2. ServerPacketOK(g)'
    BY <1>6, <2>1 DEF ServerPacketOK
  <2>3. QED
    BY <1>6, <2>2 DEF FrameOK
<1>8. \A z, k : Acked(z, k) => Acked(z, k)'
  BY <1>1 DEF Acked
<1>9. Acked(s, x.pos)
  BY <1>1, <1>3, UdpAssumption DEF Acked
<1>10. ASSUME NEW z \in DOMAIN sessions' PROVE SessionOK(z)'
  <2>1. CASE z # s
    <3>1. SessionOK(z) /\ sessions'[z] = sessions[z]
      BY <1>5, <2>1 DEF TftpInv, SessionsOK
    <3>2. QED
      BY <1>2, <1>8, <3>1 DEF SessionOK
  <2>2. CASE z = s
    <3>1. \A k \in 0 .. y.pos - 1 : Acked(s, k)
      <4>1. \A k \in 0 .. x.pos - 1 : Acked(s, k)
        BY <1>1, <1>2 DEF SessionOK
      <4>2. QED
        BY <1>3, <1>4, <1>9, <4>1
    <3>2. /\ y.call <= calls' /\ y.pos <= Blocks(y.length) /\ y.op = "get"
          /\ y.call = calls' => pc' # "arp" /\ y.op = op' /\ y.length = length'
      BY <1>1, <1>2, <1>3, <1>4 DEF SessionOK
    <3>3. \A k \in 0 .. y.pos - 1 : Acked(s, k)'
      BY <1>8, <3>1
    <3>4. QED
      BY <1>5, <2>2, <3>2, <3>3 DEF SessionOK
  <2>3. QED
    BY <2>1, <2>2
<1>11. QED
  BY <1>1, <1>5, <1>6, <1>7, <1>10, ServerStep

(* Within one turn of the block numbers, a server that waits for a block   *)
(* takes no other one.                                                     *)
LEMMA ServePutStep ==
  ASSUME TftpInv, NEW s \in DOMAIN sessions, ServePut(s),
         UNCHANGED <<cached_ip, cached_mac, rx_callback, arguments, received, last_ack, pc,
                     block, result>>
  PROVE  TftpInv' /\ UNCHANGED <<length, result, disturbed, buffer>> /\ (Busy <=> Busy')
<1> DEFINE x == sessions[s]
<1>1. PICK f \in wire :
        /\ x.op = "put" /\ x.pos < Blocks(x.length)
        /\ f.type = "data" /\ f.dst = x.host /\ f.session = s
        /\ f.n % Wrap = (x.pos + 1) % Wrap
        /\ sessions' = [sessions EXCEPT ![s] = [x EXCEPT !.pos = x.pos + 1,
                                                         !.got = Append(x.got, f.content)]]
        /\ wire' = wire \cup {Packet("ack", s, x.pos + 1)}
  BY DEF ServePut, Emit, Packet
<1>2. x \in Session /\ SessionOK(s) /\ UNCHANGED <<calls, op, length>>
  BY DEF TftpInv, TftpTypeOK, SessionsOK, arguments
<1>3. x.pos \in Nat /\ x.host \in Hosts /\ x.length \in Nat /\ Wrap \in Nat /\ Wrap > 1
      /\ Blocks(x.length) \in Nat /\ x.got \in Seq(Seq(Nat)) /\ Len(x.got) = x.pos
  BY <1>1, <1>2, TftpAssumption, BlockLengths DEF Session, SessionOK
<1>4. ClientPacketOK(f)
  BY <1>1, <1>3, UdpAssumption DEF TftpInv, FramesOK, FrameOK, PacketTypes
<1>5. /\ f.n \in Nat /\ f.n \in 1 .. Wrap /\ f.content \in Seq(Nat)
      /\ x.call = calls => f.content = <<calls, f.n>>
  BY <1>1, <1>4 DEF ClientPacketOK, Current
<1>6. x.pos + 1 <= Wrap => f.n = x.pos + 1
  <2>1. (f.n < Wrap => f.n % Wrap = f.n) /\ (f.n = Wrap => f.n % Wrap = 0)
    BY <1>5, Modulo
  <2>2. PICK p \in Nat : p = x.pos + 1
    BY <1>3
  <2>3. (p < Wrap => p % Wrap = p) /\ (p = Wrap => p % Wrap = 0)
    BY Modulo
  <2>4. f.n % Wrap = p % Wrap
    BY <1>1, <2>2
  <2>5. p <= Wrap => f.n = p
    <3>1. CASE p < Wrap
      BY <1>3, <1>5, <2>1, <2>2, <2>3, <2>4, <3>1, SMTT(40)
    <3>2. CASE p = Wrap
      BY <1>3, <1>5, <2>1, <2>3, <2>4, <3>2
    <3>3. QED
      BY <1>3, <3>1, <3>2
  <2>6. QED
    BY <2>2, <2>5
<1>7. PICK got : got = Append(x.got, f.content)
  OBVIOUS
<1>8. PICK y : y = [x EXCEPT !.pos = x.pos + 1, !.got = got]
  OBVIOUS
<1>9. /\ got \in Seq(Seq(Nat)) /\ Len(got) = x.pos + 1
      /\ got[x.pos + 1] = f.content
      /\ \A k \in 1 .. x.pos : got[k] = x.got[k]
  BY <1>3, <1>5, <1>7
<1>10. /\ y \in Session /\ y.call = x.call /\ y.op = x.op /\ y.pos = x.pos + 1
      /\ y.length = x.length /\ y.got = got
  <2>1. x.pos + 1 \in Nat
    BY <1>3
  <2>2. PICK n \in Nat : n = x.pos + 1
    BY <2>1
  <2>3. y = [x EXCEPT !.pos = n, !.got = got]
    BY <1>8, <2>2
  <2>4. got \in Seq(Seq(Nat)) /\ x \in Session
    BY <1>2, <1>9
  <2>5. /\ y \in Session /\ y.call = x.call /\ y.op = x.op /\ y.pos = n
        /\ y.length = x.length /\ y.got = got
    BY <2>2, <2>3, <2>4 DEF Session
  <2>6. QED
    BY <2>2, <2>5
<1>11. sessions' = [sessions EXCEPT ![s] = y]
  BY <1>1, <1>7, <1>8
<1>12. /\ SessionsGoOn /\ sessions' \in Seq(Session) /\ DOMAIN sessions' = DOMAIN sessions
       /\ sessions'[s] = y
       /\ \A z \in DOMAIN sessions : z # s => sessions'[z] = sessions[z]
  <2>1. y.pos >= x.pos
    BY <1>3, <1>10
  <2>2. QED
    BY <1>10, <1>11, <2>1, OneSession DEF TftpInv
<1>13. PICK g : /\ g = Packet("ack", s, x.pos + 1)
                /\ g.type = "ack" /\ g.session = s /\ g.n = x.pos + 1 /\ g.dst = MyIp
  BY NewPacket
<1>14. FrameOK(g)'
  <2>1. /\ g.session \in DOMAIN sessions' /\ g.n \in Nat
        /\ sessions'[g.session].op = "put" /\ g.n <= sessions'[g.session].pos
    BY <1>1, <1>3, <1>10, <1>12, <1>13
  <2>2. ServerPacketOK(g)'
    BY <1>13, <2>1 DEF ServerPacketOK
  <2>3. QED
    BY <1>13, <2>2 DEF FrameOK
<1>15. \A z, k : Acked(z, k) => Acked(z, k)'
  BY <1>1 DEF Acked
<1>16. ASSUME NEW z \in DOMAIN sessions' PROVE SessionOK(z)'
  <2>1. CASE z # s
    <3>1. SessionOK(z) /\ sessions'[z] = sessions[z]
      BY <1>12, <2>1 DEF TftpInv, SessionsOK
    <3>2. QED
      BY <1>2, <1>15, <3>1 DEF SessionOK
  <2>2. CASE z = s
    <3>1. ASSUME y.call = calls, NEW k \in 1 .. y.pos, k <= Wrap
          PROVE  y.got[k] = <<calls, k>>
      <4>1. CASE k = x.pos + 1
        BY <1>3, <1>5, <1>6, <1>9, <1>10, <3>1, <4>1
      <4>2. CASE k # x.pos + 1
        <5>1. k \in 1 .. x.pos
          BY <1>3, <1>10, <4>2
        <5>2. x.got[k] = <<calls, k>>
          BY <1>1, <1>2, <1>10, <3>1, <5>1 DEF SessionOK
        <5>3. QED
          BY <1>9, <1>10, <5>1, <5>2
      <4>3. QED
        BY <4>1, <4>2
    <3>2. /\ y.call <= calls' /\ y.pos <= Blocks(y.length) /\ y.op = "put"
          /\ y.call = calls' => pc' # "arp" /\ y.op = op' /\ y.length = length'
          /\ Len(y.got) = y.pos
      BY <1>1, <1>2, <1>3, <1>9, <1>10 DEF SessionOK
    <3>3. QED
      BY <1>2, <1>12, <2>2, <3>1, <3>2 DEF SessionOK
  <2>3. QED
    BY <2>1, <2>2
<1>17. QED
  BY <1>1, <1>12, <1>13, <1>14, <1>16, ServerStep

-----------------------------------------------------------------------------
(* Before the first call there are neither sessions nor packets.           *)
LEMMA TftpStart == TftpInit => TftpInv
<1>1. SUFFICES ASSUME TftpInit PROVE TftpInv
  OBVIOUS
<1>2. /\ pc = "idle" /\ calls = 0 /\ op = "get" /\ host = None /\ length = 0
      /\ total_length = 0 /\ transfer_finished = FALSE /\ last_ack = 0 /\ block = 0
      /\ buffer = [k \in 1 .. Wrap - 1 |-> <<>>] /\ sessions = <<>> /\ disturbed = FALSE
      /\ cached_ip = None /\ cached_mac = None /\ rx_callback = FALSE
      /\ wire = {ArpRequest(Asker, MyIp)}
  BY <1>1 DEF TftpInit, UdpInit
<1>3. ~ Busy
  BY <1>2 DEF Busy
<1>4. TftpTypeOK
  <2>1. sessions \in Seq(Session) /\ buffer \in [1 .. Wrap - 1 -> Seq(Nat)]
    BY <1>2
  <2>2. transfer_finished \in BOOLEAN /\ disturbed \in BOOLEAN
    BY <1>2
  <2>3. QED
    BY <1>2, <2>1, <2>2, TftpAssumption DEF TftpTypeOK
<1>5. CacheOK
  BY <1>2, <1>3 DEF CacheOK
<1>6. ClientOK
  BY <1>2, <1>3 DEF ClientOK
<1>7. FramesOK
  BY <1>2 DEF FramesOK, FrameOK, ArpRequest, PacketTypes
<1>8. SessionsOK
  BY <1>2 DEF SessionsOK
<1>9. TransferOK
  BY <1>3 DEF TransferOK
<1>10. QED
  BY <1>4, <1>5, <1>6, <1>7, <1>8, <1>9 DEF TftpInv

(* A step that changes nothing but the count of the polls keeps the        *)
(* invariant.                                                              *)
LEMMA TftpRests ==
  ASSUME TftpInv,
         UNCHANGED <<udpVars, arguments, received, last_ack, pc, block, sessions, result>>
  PROVE  TftpInv' /\ (Busy <=> Busy') /\ UNCHANGED <<length, result, disturbed, buffer>>
<1>1. UNCHANGED <<wire, cached_ip, cached_mac, rx_callback, calls, op, host, length,
                  total_length, transfer_finished, data_port, buffer, disturbed, last_ack, pc,
                  block, sessions, result>>
  BY DEF udpVars, arguments, received
<1>2. FramesOK' /\ SessionsOK'
  BY <1>1, FramesAdded
<1>3. TftpTypeOK' /\ CacheOK' /\ ClientOK'
  BY <1>1 DEF TftpInv, TftpTypeOK, CacheOK, ClientOK, Busy
<1>4. TransferOK'
  BY <1>1 DEF TftpInv, TransferOK, Busy, Current, Acked, Taken
<1>5. QED
  BY <1>1, <1>2, <1>3, <1>4 DEF TftpInv, Busy

(* Every step keeps the invariant, and is one that the abstract            *)
(* specification allows.                                                   *)
LEMMA TftpSteps ==
  ASSUME TftpInv, TftpNext
  PROVE  TftpInv' /\ (Promise!Start \/ Promise!Work \/ Promise!Return \/ Promise!Rest)
<1> USE DEF Promise!Start, Promise!Work, Promise!Return, Promise!Rest, Busy
<1>1. CASE \E t \in Transfers : Call(t[1], t[2], t[3])
  <2>1. PICK t \in Transfers : Call(t[1], t[2], t[3])
    BY <1>1
  <2>2. t[1] \in {"get", "put"} /\ t[2] \in Hosts /\ t[3] \in Nat /\ t[3] <= MaxLength
    BY TftpAssumption
  <2>3. QED
    BY <2>1, <2>2, CallStep
<1>2. CASE Restart
  BY <1>2, RestartStep
<1>3. CASE ArpPoll \/ ArpTimeout
  BY <1>3, ArpPollStep, ArpTimeoutStep
<1>4. CASE Begin
  BY <1>4, BeginStep
<1>5. CASE GetPoll
  <2>1. Busy
    BY <1>5 DEF GetPoll
  <2>2. QED
    BY <1>5, <2>1, GetPollStep
<1>6. CASE PutPoll \/ SendPoll \/ Timeout
  <2>1. Busy
    BY <1>6 DEF PutPoll, SendPoll, Timeout
  <2>2. QED
    BY <1>6, <2>1, PutPollStep, SendPollStep, TimeoutStep
<1>7. CASE NextBlock
  <2>1. Busy
    BY <1>7 DEF NextBlock
  <2>2. QED
    BY <1>7, <2>1, NextBlockStep
<1>8. CASE Network
  <2>1. UNCHANGED <<cached_ip, cached_mac, rx_callback, arguments, received, last_ack, pc,
                    block, result>>
    BY <1>8 DEF Network
  <2>2. TftpInv' /\ UNCHANGED <<length, result, disturbed, buffer>> /\ (Busy <=> Busy')
    BY <1>8, <2>1, AcceptStep, ServeGetStep, ServePutStep DEF Network, Server
  <2>3. QED
    BY <2>2
<1>9. CASE SetBack
  BY <1>9, TftpRests DEF SetBack
<1>10. QED
  BY <1>1, <1>2, <1>3, <1>4, <1>5, <1>6, <1>7, <1>8, <1>9 DEF TftpNext, Client

(* What is on the wire, in the buffer and on the servers fits together at  *)
(* all times.                                                              *)
THEOREM TftpInvariant == TftpSpec => []TftpInv
<1>1. TftpInv /\ [TftpNext]_tftpVars => TftpInv'
  BY TftpSteps, TftpRests DEF tftpVars
<1>2. QED
  BY <1>1, TftpStart, PTL DEF TftpSpec

(* A late answer for the address asked before never directs a request to   *)
(* the wrong machine: process_arp compares the sender with the address in  *)
(* the cache.                                                              *)
THEOREM RequestsGoToTheirHost == TftpSpec => []RequestsReachTheHost
<1>1. TftpInv => RequestsReachTheHost
  BY DEF TftpInv, FramesOK, FrameOK, RequestOK, RequestsReachTheHost
<1>2. QED
  BY <1>1, TftpInvariant, PTL

(* A get or a put that answers with a length has moved the whole file, for *)
(* any file, any number of calls and of tries and block numbers of any     *)
(* width: the TFTP client implements FileTransfer.                         *)
THEOREM TransfersAreWhole == TftpSpec => TransfersFiles
<1>1. TftpInit => Promise!TransferInit
  BY DEF TftpInit, Promise!TransferInit
<1>2. TftpInv /\ [TftpNext]_tftpVars =>
        [Promise!Start \/ Promise!Work \/ Promise!Return \/ Promise!Rest]_Promise!transferVars
  <2>1. ASSUME UNCHANGED tftpVars PROVE UNCHANGED Promise!transferVars
    BY <2>1 DEF tftpVars, udpVars, arguments, received, Promise!transferVars,
                InBuffer, OnServer, Content
  <2>2. QED
    BY <2>1, TftpSteps
<1>3. QED
  BY <1>1, <1>2, TftpInvariant, PTL DEF TftpSpec, TransfersFiles, Promise!TransferSpec
=============================================================================
