-------------------------------- MODULE FatFs -------------------------------
(***************************************************************************)
(* FatFs, libfatfs/ff.c, as configured by ffconf.h (read only, one volume, *)
(* long names), and its caller, the copy of a file to RAM (bios/boot.c).   *)
(* A step is the code between two accesses to the medium.  Sizes are in    *)
(* units of which a sector has SS and a directory entry SZDIRE; a FAT      *)
(* entry has FatBits[t] of the SectorBits of a sector.                     *)
(***************************************************************************)
EXTENDS DiskOps, SequencesExt

CONSTANTS
  Media, Paths,                 \* what may be on the medium, the files asked for
  Setups,                       \* <<driver, medium, path>>
  SS, SZDIRE, MAX_DIR,
  MAX_FAT12, MAX_FAT16, MAX_FAT32,
  SectorBits, FatBits,
  Body, Ext, Piece,             \* characters of a short name (8, 3) and of an LFN entry (13)
  Chunk,                        \* 0x8000
  MaxCopies                     \* bound of the model

ASSUME FatFsAssumption ==
  /\ {SS, SZDIRE, MAX_DIR, Body, Ext, Piece, Chunk, MaxCopies, SectorBits} \subseteq Nat \ {0}
  /\ {MAX_FAT12, MAX_FAT16, MAX_FAT32} \subseteq Nat
  /\ MAX_FAT12 <= MAX_FAT16 /\ MAX_FAT16 <= MAX_FAT32
  /\ FatBits \in [{"FAT12", "FAT16", "FAT32"} -> Nat \ {0}]
  /\ Setups \subseteq Drivers \X (DOMAIN Media) \X Paths /\ SS % SZDIRE = 0 /\ Chunk % SS = 0

VARIABLES
  medium, path, copies,
  pc,
  part,         \* partition whose boot sector is being looked at, 0 for sector 0
  fs,           \* the FATFS object, or Unmounted
  seg, dp,      \* segment of the path; its directory: sclust, clust, sect, dptr
  ord, sum,     \* progress in a long name
  second,       \* get_fat has the first sector of an entry that lies in two
  fp, btr,      \* the file: sclust, size, fptr, clust; left of this f_read
  out, result

fatVars == <<medium, path, copies, pc, part, fs, seg, dp, ord, sum, second, fp, btr, out, result>>
vFind == <<fs, part>>
vDir == <<seg, dp, ord, sum>>
vFile == <<fp, btr, out>>

Unmounted == [type |-> "none"]
Closed == [sclust |-> 0, size |-> 0, fptr |-> 0, clust |-> 0]
NoDir == [sclust |-> 0, clust |-> 0, sect |-> 0, dptr |-> 0]

FatInit ==
  /\ \E s \in Setups : FfDiskOps = s[1] /\ medium = s[2] /\ path = s[3]
  /\ copies = 0
  /\ pc = "idle" /\ part = 0 /\ fs = Unmounted
  /\ seg = 1 /\ dp = NoDir /\ ord = -1 /\ sum = <<>> /\ second = FALSE
  /\ fp = Closed /\ btr = 0 /\ out = <<>> /\ result = 0

Least(a, b) == IF a < b THEN a ELSE b

-----------------------------------------------------------------------------
(* The names: create_name makes a long and a short name of a segment, and  *)
(* says whether the short one lost something.                              *)
Lower == <<"a", "b", "c">>
Upper == <<"A", "B", "C">>
toupper(s) == [k \in DOMAIN s |->
  IF \E j \in DOMAIN Lower : Lower[j] = s[k]
  THEN Upper[CHOOSE j \in DOMAIN Lower : Lower[j] = s[k]] ELSE s[k]]

Strip(s) == \* without trailing spaces and dots
  SubSeq(s, 1, CHOOSE n \in 0..Len(s) :
    /\ n > 0 => s[n] \notin {" ", "."}
    /\ \A k \in n + 1..Len(s) : s[k] \in {" ", "."})

create_name(s) ==
  LET name == Strip(s)
      dot == CHOOSE d \in 0..Len(name) :
               /\ d > 0 => name[d] = "."
               /\ \A k \in d + 1..Len(name) : name[k] # "."
      Field(t) == toupper(SelectSeq(t, LAMBDA c : c \notin {" ", "."}))
      Legal(t) == [k \in DOMAIN t |-> IF t[k] = "+" THEN "_" ELSE t[k]]
      first == IF dot = 0 THEN name ELSE SubSeq(name, 1, dot - 1)
      last == IF dot = 0 THEN <<>> ELSE SubSeq(name, dot + 1, Len(name))
      Cut(t, n) == SubSeq(t, 1, Least(n, Len(t)))
  IN [lfn |-> name,
      fn |-> <<Cut(Legal(Field(first)), Body), Cut(Legal(Field(last)), Ext)>>,
      loss |-> \/ \E k \in DOMAIN name : name[k] \in {" ", "+"}
               \/ \E k \in DOMAIN name : name[k] = "." /\ k # dot
               \/ dot = 1 \/ Len(Field(first)) > Body \/ Len(Field(last)) > Ext]

(* An LFN entry holds the Piece characters from Piece * (ord - 1) on, then *)
(* a NUL if there is room for one, then filler.                            *)
PieceOf(name, n) ==
  [k \in 1..Piece |->
    LET i == Piece * (n - 1) + k IN
    IF i <= Len(name) THEN name[i] ELSE IF i = Len(name) + 1 THEN "NUL" ELSE "FILL"]

cmp_lfn(name, e) ==
  /\ e.ord > 0 /\ e.ord <= (Len(name) + Piece - 1) \div Piece
  /\ toupper(e.text) = toupper(PieceOf(name, e.ord))
  /\ e.last => Piece * e.ord >= Len(name)

-----------------------------------------------------------------------------
(* The geometry of a volume, from the parameters b in its boot sector s.   *)
IsPowerOf2(n) == n \in {1, 2, 4, 8, 16, 32, 64, 128}

mount_volume(b, s) ==
  LET fasize == b.FATSz * b.NumFATs
      sysect == b.RsvdSecCnt + fasize + b.RootEntCnt \div (SS \div SZDIRE)
      nclst == (b.TotSec - sysect) \div b.SecPerClus
      type == IF nclst <= MAX_FAT12 THEN "FAT12"
              ELSE IF nclst <= MAX_FAT16 THEN "FAT16" ELSE "FAT32"
      valid ==
        /\ b.BytsPerSec = SS /\ b.NumFATs \in {1, 2} /\ IsPowerOf2(b.SecPerClus)
        /\ b.RootEntCnt % (SS \div SZDIRE) = 0 /\ b.RsvdSecCnt # 0
        /\ b.TotSec >= sysect /\ nclst > 0 /\ nclst <= MAX_FAT32
        /\ (type = "FAT32") = (b.RootEntCnt = 0) /\ (type = "FAT32" => b.FSVer = 0)
        /\ b.FATSz * SectorBits >= (nclst + 2) * FatBits[type]
  IN IF ~ valid THEN Unmounted
     ELSE [type |-> type, csize |-> b.SecPerClus, n_rootdir |-> b.RootEntCnt,
           n_fatent |-> nclst + 2, fatbase |-> s + b.RsvdSecCnt, database |-> s + sysect,
           dirbase |-> IF type = "FAT32" THEN b.RootClus ELSE s + b.RsvdSecCnt + fasize]

(* What a medium is said to hold is what its parameters say, if they are   *)
(* accepted; numbers on it are natural, whatever they are.                 *)
ASSUME MediaAssumption ==
  \A i \in DOMAIN Media :
    /\ \A s \in DOMAIN Media[i].boot : LET b == Media[i].boot[s] IN
         b.kind = "fat" =>
           /\ {s, b.BytsPerSec, b.NumFATs, b.FATSz, b.SecPerClus, b.RootEntCnt, b.RsvdSecCnt,
               b.TotSec, b.FSVer, b.RootClus} \subseteq Nat
           /\ mount_volume(b, s) # Unmounted =>
                /\ Media[i].volume.start = s /\ Media[i].volume.sectors = b.TotSec
                /\ \A c \in 2..mount_volume(b, s).n_fatent - 1 : Media[i].fat[c] \in Nat
    /\ \A s \in DOMAIN Media[i].dir, k \in 1..SS \div SZDIRE : LET e == Media[i].dir[s][k] IN
         e.t = "file" => e.clust \in Nat /\ e.size \in Nat

clst2sect_fault(c) ==
  IF c < 2 \/ c > fs.n_fatent THEN 0 ELSE fs.database + fs.csize * (c - 2)
clst2sect(c) ==
  IF c < 2 \/ c >= fs.n_fatent THEN 0 ELSE fs.database + fs.csize * (c - 2)

(* get_fat: the sectors that hold the first and the last bit of entry c    *)
(* are brought into the window, the value is taken then.                   *)
FatSector(c, bit) == fs.fatbase + (c * FatBits[fs.type] + bit) \div SectorBits
LastBit == FatBits[fs.type] - 1
get_fat(c) == move_window(FatSector(c, 0)) /\ second' = FALSE
Straddles(c) == FatSector(c, 0) # FatSector(c, LastBit)

-----------------------------------------------------------------------------
Ready(p) == pc = p /\ req = NoReq /\ ~ wrong
Return(r) ==
  /\ pc' = "idle" /\ result' = r /\ fs' = Unmounted
  /\ part' = 0 /\ seg' = 1 /\ dp' = NoDir /\ ord' = -1 /\ sum' = <<>> /\ second' = FALSE
  /\ fp' = Closed /\ btr' = 0
  /\ UNCHANGED <<req, ok, window>>
Fail == Return(-1) /\ UNCHANGED out

(* copy_file_from_sdcard_to_ram; f_mount clears the file system object and *)
(* initialises the drive.                                                  *)
Copy ==
  /\ pc = "idle" /\ copies < MaxCopies
  /\ copies' = copies + 1 /\ pc' = "mount" /\ result' = 0
  /\ fs' = Unmounted /\ disk_initialize /\ wrong' = FALSE
  /\ UNCHANGED <<medium, path, part, vDir, second, vFile, FfDiskOps, status, step, timeout,
                 card, faulty, failing>>

(* check_fs invalidates the window first.                                  *)
check_fs(s, p) ==
  /\ pc' = "volume" /\ part' = p /\ ok' = ok /\ window' = NoSector
  /\ req' = [op |-> "read", sect |-> s, count |-> 1, win |-> TRUE]
  /\ UNCHANGED <<fs, vDir, vFile, second, result>>

Initialized ==
  /\ Ready("mount")
  /\ IF ok THEN check_fs(0, 0) ELSE Fail

(* dir_sdi: rewind to the first entry of the directory that starts at c.   *)
EnterDir(c, n) ==
  LET d == IF c = 0 /\ fs.type = "FAT32" THEN fs.dirbase ELSE c
      sect == IF d = 0 THEN fs.dirbase ELSE clst2sect(d)
  IN IF sect = 0 \/ Strip(path[n]) = <<>> THEN Fail
     ELSE /\ seg' = n /\ ord' = -1 /\ sum' = <<>>
          /\ dp' = [sclust |-> c, clust |-> d, sect |-> sect, dptr |-> 0]
          /\ pc' = "dir" /\ move_window(sect)
          /\ UNCHANGED <<vFile, vFind, second, result>>

(* find_volume: sector 0 is a boot sector, or has the partition table.     *)
Boot(s) == IF s \in DOMAIN Media[medium].boot THEN Media[medium].boot[s] ELSE [kind |-> "none"]
NextPart == {p \in part + 1..4 : Boot(0).parts[p] # 0}

FindVolume ==
  /\ Ready("volume")
  /\ LET kind == IF ok THEN Boot(window).kind ELSE "error"
     IN IF kind = "fat"
        THEN /\ fs' = mount_volume(Boot(window), window) /\ pc' = "mounted"
             /\ UNCHANGED <<req, ok, window, part, vDir, vFile, second, result>>
        ELSE IF (part = 0 /\ kind # "mbr") \/ NextPart = {} THEN Fail
        ELSE LET p == CHOOSE q \in NextPart : \A r \in NextPart : q <= r
             IN check_fs(Boot(0).parts[p], p)

(* f_open begins with the first segment in the root directory.             *)
Mounted == Ready("mounted") /\ IF fs = Unmounted THEN Fail ELSE EnterDir(0, 1)

-----------------------------------------------------------------------------
(* f_read, called for Chunk until it returns nothing: whole sectors of a    *)
(* cluster go to the buffer at once, the rest of the file by the window.   *)
Extent_fault(f, n) ==
  LET csect == (f.fptr \div SS) % fs.csize
      cc == n \div SS
  IN [sect |-> clst2sect(f.clust) + csect, cc |-> cc, size |-> IF cc > 0 THEN SS * cc ELSE n]
Extent(f, n) ==
  LET csect == (f.fptr \div SS) % fs.csize
      cc == Least(n \div SS, fs.csize - csect)
  IN [sect |-> clst2sect(f.clust) + csect, cc |-> cc,
      size |-> IF cc > 0 THEN SS * cc ELSE n]

Access(f, c, n, o) ==
  LET g == [f EXCEPT !.clust = c]
      a == Extent(g, n)
  IN IF clst2sect(c) = 0 THEN Return(-1) /\ out' = o
     ELSE /\ fp' = g /\ btr' = n /\ out' = o /\ pc' = "data"
          /\ IF a.cc > 0 THEN disk_read(a.sect, a.cc, FALSE) ELSE move_window(a.sect)
          /\ second' = FALSE /\ UNCHANGED <<vFind, vDir, result>>

f_read(f, left, o) ==
  LET n == IF left > 0 THEN left ELSE Least(Chunk, f.size - f.fptr) IN
  IF n = 0 THEN Return(f.fptr) /\ out' = o
  ELSE IF f.fptr > 0 /\ f.fptr % (SS * fs.csize) = 0
  THEN /\ fp' = f /\ btr' = n /\ out' = o /\ pc' = "filefat" /\ get_fat(f.clust)
       /\ UNCHANGED <<vFind, vDir, result>>
  ELSE Access(f, IF f.fptr = 0 THEN f.sclust ELSE f.clust, n, o)

(* dir_find looks at one entry.                                            *)
Entry ==
  IF window \in DOMAIN Media[medium].dir THEN Media[medium].dir[window][(dp.dptr % SS) \div SZDIRE + 1]
  ELSE [t |-> "end"]

Names == [s \in UNION {ToSet(p) : p \in Paths} |-> create_name(s)]
Name == Names[path[seg]]
Matches(e) ==
  /\ e.t = "file"
  /\ (ord = 0 /\ sum = e.fn) \/ (~ Name.loss /\ Name.fn = e.fn)

(* The long name is taken up backwards, from the entry marked last on.     *)
LongName_fault(e) ==
  LET o == IF e.last THEN e.ord ELSE ord
  IN <<IF e.ord = o /\ e.sum = sum /\ cmp_lfn(Name.lfn, e) THEN o - 1 ELSE -1, sum>>
LongName(e) ==
  LET o == IF e.last THEN e.ord ELSE ord
      s == IF e.last THEN e.sum ELSE sum
  IN <<IF e.ord = o /\ e.sum = s /\ cmp_lfn(Name.lfn, e) THEN o - 1 ELSE -1, s>>

Open(e) == [sclust |-> e.clust, size |-> e.size, fptr |-> 0, clust |-> 0]

Found(e) ==
  IF seg < Len(path)
  THEN IF e.dir THEN EnterDir(e.clust, seg + 1) ELSE Fail
  ELSE IF e.dir THEN Fail
  ELSE f_read(Open(e), 0, <<>>)

dir_next ==
  LET ofs == dp.dptr + SZDIRE
      static == dp.clust = 0
      boundary == ofs % SS = 0
  IN IF ofs >= MAX_DIR \/ (boundary /\ static /\ ofs \div SZDIRE >= fs.n_rootdir)
     THEN Fail
     ELSE /\ IF boundary /\ ~ static /\ (ofs \div SS) % fs.csize = 0
             THEN pc' = "dirfat" /\ get_fat(dp.clust) /\ dp' = [dp EXCEPT !.dptr = ofs]
             ELSE LET s == IF boundary THEN dp.sect + 1 ELSE dp.sect IN
                  pc' = "dir" /\ move_window(s) /\ dp' = [dp EXCEPT !.dptr = ofs, !.sect = s]
                    /\ UNCHANGED second
          /\ LET l == IF Entry.t = "lfn" THEN LongName(Entry) ELSE <<-1, sum>>
             IN ord' = l[1] /\ sum' = l[2]
          /\ UNCHANGED <<vFind, vFile, seg, result>>

DirEntry ==
  /\ Ready("dir")
  /\ IF ~ ok \/ Entry.t = "end" THEN Fail
     ELSE IF Matches(Entry) THEN Found(Entry) ELSE dir_next

(* An entry of the FAT that lies in two sectors.                           *)
FatCluster == IF pc = "dirfat" THEN dp.clust ELSE fp.clust
NeedsSecond == ok /\ ~ second /\ Straddles(FatCluster)
FatSecond ==
  /\ pc \in {"dirfat", "filefat"} /\ Ready(pc) /\ NeedsSecond
  /\ move_window(FatSector(FatCluster, LastBit)) /\ second' = TRUE
  /\ UNCHANGED <<pc, vFind, vDir, vFile, result>>

DirCluster ==
  /\ Ready("dirfat") /\ ~ NeedsSecond
  /\ LET c == Media[medium].fat[dp.clust]
         s == clst2sect(c)
     IN IF ~ ok \/ c < 2 \/ s = 0 THEN Fail
        ELSE /\ dp' = [dp EXCEPT !.clust = c, !.sect = s]
             /\ pc' = "dir" /\ move_window(s) /\ second' = FALSE
             /\ UNCHANGED <<vFind, vFile, seg, ord, sum, result>>

FileCluster ==
  /\ Ready("filefat") /\ ~ NeedsSecond
  /\ IF ok THEN Access(fp, Media[medium].fat[fp.clust], btr, out) ELSE Fail

(* The sectors were copied: to the buffer, or out of the window.           *)
FileData ==
  /\ Ready("data")
  /\ IF ok
     THEN LET a == Extent(fp, btr) IN
          f_read([fp EXCEPT !.fptr = @ + a.size], btr - a.size,
                 out \o [k \in 1..a.size |-> <<a.sect + ((k - 1) \div SS), (k - 1) % SS>>])
     ELSE Fail

(* A driver that answers a failed read with success leads anywhere.        *)
Astray ==
  /\ pc # "idle" /\ req = NoReq /\ wrong
  /\ \E r \in {-1, 0} : Return(r) /\ UNCHANGED out

FatStep ==
  /\ \/ Initialized \/ FindVolume \/ Mounted \/ DirEntry \/ FatSecond \/ DirCluster
     \/ FileCluster \/ FileData \/ Astray
  /\ UNCHANGED <<medium, path, copies, FfDiskOps, driverVars>>
=============================================================================
