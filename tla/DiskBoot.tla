------------------------------ MODULE DiskBoot ------------------------------
(***************************************************************************)
(* The copy of a file from an SD card or a SATA disk to RAM, bios/boot.c:  *)
(* FatFs over one of its three drivers.                                    *)
(***************************************************************************)
EXTENDS FatFs, SdCard, Sata

vars == <<diskVars, fatVars>>

Init == DiskInit /\ FatInit
Driver == (SdNext \/ SpiNext \/ SataNext) /\ UNCHANGED <<fatVars, FfDiskOps>>
Next == Copy \/ FatStep \/ Driver

(* An exchange has failed that the driver repeats for ever: a sector of a  *)
(* SATA disk, the command of a read, SWITCH or APP_SEND_SCR of an SD card. *)
(* The repetition may fail too: nothing says that it ever succeeds.        *)
Repeats ==
  /\ failing /\ req # NoReq
  /\ IF req.op = "read" THEN FfDiskOps = "sata" \/ (FfDiskOps = "sdcard" /\ step = 0)
     ELSE FfDiskOps = "sdcard" /\ step > 0 /\ Sequence[step] \in {"SWITCH", "APP_SEND_SCR"}

Spec == Init /\ [][Next]_vars /\ WF_vars(FatStep) /\ WF_vars(Driver /\ ~ Repeats)

-----------------------------------------------------------------------------
(* What is on the medium m by definition: on a well formed one a volume,   *)
(* files that are chains of clusters, directories that are files of        *)
(* entries.                                                                *)
InVolume(m, c) == c \in 2..m.volume.n_fatent - 1
SectorOf(m, c) == m.volume.database + m.volume.csize * (c - 2)

Chain(m, c) == \* the n-th cluster of the chain from c, 0 when it has none
  LET f[n \in 0..MAX_DIR] ==
        IF n = 0 THEN c ELSE IF InVolume(m, f[n - 1]) THEN m.fat[f[n - 1]] ELSE 0
  IN f

Entries(m, c) == \* of the directory that starts at cluster c, 0 for the root
  LET v == m.volume
      root == IF c = 0 /\ v.type = "FAT32" THEN v.dirbase ELSE c
      chain == Chain(m, root)
      At(i, s) == IF s \in DOMAIN m.dir THEN m.dir[s][((i * SZDIRE) % SS) \div SZDIRE + 1]
                  ELSE [t |-> "end"]
  IN [i \in 0..MAX_DIR \div SZDIRE - 1 |->
       LET s == (i * SZDIRE) \div SS
           d == chain[s \div v.csize]
       IN IF root = 0 /\ i < v.n_rootdir THEN At(i, v.dirbase + s)
          ELSE IF InVolume(m, d) THEN At(i, SectorOf(m, d) + (s % v.csize)) ELSE [t |-> "end"]]

ShortName(e) == e.fn[1] \o (IF e.fn[2] = <<>> THEN <<>> ELSE <<".">> \o e.fn[2])

(* The entries before entry i hold the long name s of the file there.      *)
HasLongName(d, i, s) ==
  LET n == (Len(s) + Piece - 1) \div Piece IN
  /\ n > 0 /\ n <= i
  /\ \A k \in 1..n :
       /\ d[i - k].t = "lfn" /\ d[i - k].ord = k /\ d[i - k].last = (k = n)
       /\ d[i - k].sum = d[i].fn /\ toupper(d[i - k].text) = toupper(PieceOf(s, k))

Missing == [t |-> "missing", dir |-> FALSE]
Lookup(d, s) ==
  LET found == {i \in DOMAIN d :
        /\ d[i].t = "file" /\ \A j \in 0..i - 1 : d[j].t # "end"
        /\ ShortName(d[i]) = toupper(s) \/ HasLongName(d, i, s)}
  IN IF found = {} \/ s = <<>> THEN Missing
     ELSE d[CHOOSE i \in found : \A j \in found : i <= j]

Resolve(m, p) ==
  LET f[k \in 0..Len(p)] ==
        IF k = 0 THEN [t |-> "file", dir |-> TRUE, clust |-> 0]
        ELSE IF f[k - 1].dir THEN Lookup(Entries(m, f[k - 1].clust), Strip(p[k])) ELSE Missing
  IN f[Len(p)]

NoContent == <<"none">>
ContentOf(m, p) ==
  LET e == IF m.volume = Unmounted THEN Missing ELSE Resolve(m, p)
      size == SS * m.volume.csize
      chain == Chain(m, e.clust)
      Sector(s) == SectorOf(m, chain[s \div m.volume.csize]) + (s % m.volume.csize)
  IN IF \/ e.t = "missing" \/ e.dir
        \/ \E n \in 0..MAX_DIR : size * n < e.size /\ ~ InVolume(m, chain[n])
     THEN NoContent
     ELSE [k \in 1..e.size |-> <<Sector((k - 1) \div SS), (k - 1) % SS>>]

Contents == [m \in DOMAIN Media, p \in Paths |-> ContentOf(Media[m], p)]
Content == Contents[medium, path]
Exists == Content # NoContent
Volume == Media[medium].volume

-----------------------------------------------------------------------------
Promise == INSTANCE FileTransfer WITH
  busy <- pc # "idle", here <- out = Content, there <- FALSE,
  buffer <- out, length <- result, disturbed <- wrong

(* A copy that succeeds has put in RAM the content of the file of that     *)
(* name; a file that does not exist, whose chain of clusters is broken, or *)
(* on a volume whose parameters contradict each other, is never copied.    *)
(* The promise is void once the driver gives bad data for good.            *)
CopiesTheFile == Promise!TransferSpec

(* Unless the medium fails or stays busy, a file that exists is copied.    *)
GoodFilesAreCopied == result = -1 /\ ~ faulty /\ status => ~ Exists

(* FatFs reads no sector that is not of the volume, whatever is in the     *)
(* FAT and in the directories.                                             *)
ReadsStayInVolume ==
  req # NoReq /\ req.op = "read" /\ fs # Unmounted =>
    /\ req.sect >= Volume.start /\ req.count > 0
    /\ req.sect + req.count <= Volume.start + Volume.sectors

(* The driver has lost track of the SD card for good: the commands it      *)
(* repeats for ever have become illegal, or it waits for a DMA that has no *)
(* data.                                                                   *)
Stuck ==
  /\ FfDiskOps = "sdcard" /\ req # NoReq
  /\ IF req.op = "read" THEN step = 3 \/ (step = 0 /\ ~ Legal(ReadCommand))
     ELSE step > 0 /\ Sequence[step] \in {"SWITCH", "APP_SEND_SCR"} /\ ~ Legal(Sequence[step])

(* Every copy ends, with a file or without, unless the SD card is stuck or *)
(* an exchange that the driver repeats for ever fails for ever.            *)
CopyReturns == <>[]Repeats \/ (pc # "idle" ~> pc = "idle" \/ Stuck)
=============================================================================
