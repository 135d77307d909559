----------------------------- MODULE DiskProofs -----------------------------
(***************************************************************************)
(* Proofs about the copy of a file from a disk: no sector is read that is  *)
(* not of the volume, for every geometry, FAT and directory.               *)
(***************************************************************************)
EXTENDS DiskBoot, TLAPS

-----------------------------------------------------------------------------
(***************************************************************************)
(* Lemmas on numbers.                                                      *)
(***************************************************************************)
(* Quotient and remainder are determined by their equation.                *)
LEMMA Quotient ==
  ASSUME NEW n \in Int, NEW d \in Nat \ {0}, NEW q \in Int, NEW r \in 0 .. d - 1, n = d * q + r
  PROVE  n \div d = q /\ n % d = r
<1>1. PICK u \in Int, v \in 0 .. d - 1 : n = d * u + v /\ u = n \div d /\ v = n % d
  OBVIOUS
<1>2. d * (u - q) = r - v
  <2>1. d * (u - q) = d * u - d * q
    OBVIOUS
  <2>2. PICK x \in Int, y \in Int : x = d * u /\ y = d * q
    OBVIOUS
  <2>3. n = y + r /\ n = x + v
    BY <1>1, <2>2
  <2>4. x - y = r - v
    BY <2>3
  <2>5. QED
    BY <2>1, <2>2, <2>4
<1>3. u - q >= 1 => d * (u - q) >= d
  OBVIOUS
<1>4. u - q <= -1 => d * (u - q) <= - d
  OBVIOUS
<1>5. u - q = 0
  BY <1>2, <1>3, <1>4
<1>6. d * (u - q) = 0
  BY <1>5
<1>7. QED
  BY <1>1, <1>2, <1>5, <1>6

(* Quotient and remainder of a natural number exist.                       *)
LEMMA Division ==
  ASSUME NEW n \in Nat, NEW d \in Nat \ {0}
  PROVE  \E q \in Nat, r \in 0 .. d - 1 :
           q = n \div d /\ r = n % d /\ n = d * q + r /\ d * q <= n
<1>1. PICK q \in Int, r \in 0 .. d - 1 : n = d * q + r /\ q = n \div d /\ r = n % d
  OBVIOUS
<1>2. q <= -1 => d * q <= - d
  OBVIOUS
<1>3. PICK x \in Int : x = d * q
  OBVIOUS
<1>4. n = x + r /\ (q <= -1 => x <= - d)
  BY <1>1, <1>2, <1>3
<1>5. q \in Nat /\ x <= n
  BY <1>4
<1>6. QED
  BY <1>1, <1>3, <1>5, Zenon

(* As many whole parts as fit.                                             *)
LEMMA DivisionBound ==
  ASSUME NEW n \in Nat, NEW d \in Nat \ {0}, NEW a \in Nat, n < d * a
  PROVE  n \div d < a
<1>1. PICK q \in Nat : q = n \div d /\ d * q <= n
  BY Division
<1>2. SUFFICES ASSUME q >= a PROVE FALSE
  BY <1>1
<1>3. d * q >= d * a
  <2>1. d * (q - a) >= 0
    BY <1>2
  <2>2. d * (q - a) = d * q - d * a
    OBVIOUS
  <2>3. d * q \in Int /\ d * a \in Int
    OBVIOUS
  <2>4. QED
    BY <2>1, <2>2, <2>3
<1>4. QED
  BY <1>1, <1>3

(* Counting on, the remainder grows by one or becomes 0.                   *)
LEMMA NextRemainder ==
  ASSUME NEW n \in Nat, NEW d \in Nat \ {0}
  PROVE  (n + 1) % d = 0 \/ (n + 1) % d = (n % d) + 1
<1>1. PICK q \in Nat, r \in 0 .. d - 1 : n = d * q + r /\ r = n % d
  BY Division
<1>2. PICK m \in Nat, y \in Int : m = n + 1 /\ y = d * q /\ n = y + r
  BY <1>1
<1>3. CASE r + 1 < d
  <2>1. PICK t \in 0 .. d - 1 : t = r + 1
    BY <1>3
  <2>2. m = y + t
    BY <1>2, <2>1
  <2>3. m = d * q + t
    BY <1>2, <2>2, Zenon
  <2>4. m % d = t
    BY <2>3, Quotient
  <2>5. QED
    BY <1>1, <1>2, <2>1, <2>4
<1>4. CASE r + 1 = d
  <2>1. PICK u \in Int : u = q + 1 /\ d * u = d * q + d
    OBVIOUS
  <2>2. m = d * u + 0
    <3>1. m = y + d
      BY <1>2, <1>4
    <3>2. QED
      BY <1>2, <2>1, <3>1
  <2>3. m % d = 0
    BY <2>2, Quotient
  <2>4. QED
    BY <1>2, <2>3
<1>5. QED
  BY <1>1, <1>3, <1>4
-----------------------------------------------------------------------------
(***************************************************************************)
(* Sectors and entries.                                                    *)
(***************************************************************************)
PerSector == SS \div SZDIRE         \* entries in a sector

(* The sizes are positive, and entries fill a sector.                      *)
LEMMA FatNumbers ==
  /\ {SS, SZDIRE, PerSector, SectorBits, Chunk} \subseteq Nat \ {0}
  /\ SS = SZDIRE * PerSector
<1>1. SS \in Nat \ {0} /\ SZDIRE \in Nat \ {0} /\ SS % SZDIRE = 0 /\ SectorBits \in Nat \ {0}
      /\ Chunk \in Nat \ {0}
  BY FatFsAssumption
<1>2. PICK q \in Nat, r \in 0 .. SZDIRE - 1 :
        q = SS \div SZDIRE /\ r = SS % SZDIRE /\ SS = SZDIRE * q + r /\ SZDIRE * q <= SS
  BY <1>1, Division
<1>3. SS = SZDIRE * q
  <2>1. PICK y \in Int : y = SZDIRE * q
    BY <1>1
  <2>2. SS = y + 0
    BY <1>1, <1>2, <2>1
  <2>3. QED
    BY <2>1, <2>2
<1>4. q # 0
  BY <1>1, <1>3
<1>5. QED
  BY <1>1, <1>2, <1>3, <1>4 DEF PerSector

(* After the last entry of a sector comes the first of the next.           *)
LEMMA NextEntry ==
  ASSUME NEW d \in Nat, NEW k \in Nat, d = SZDIRE * k
  PROVE  /\ d + SZDIRE = SZDIRE * (k + 1)
         /\ (d + SZDIRE) % SS = 0 => (d + SZDIRE) \div SS = d \div SS + 1
         /\ (d + SZDIRE) % SS # 0 => (d + SZDIRE) \div SS = d \div SS
         /\ (d % SS) \div SZDIRE + 1 \in 1 .. PerSector
<1>1. PICK Z \in Nat \ {0}, P \in Nat \ {0} :
        Z = SZDIRE /\ P = PerSector /\ SS = Z * P /\ SS \in Nat \ {0}
  BY FatNumbers
<1>2. PICK q \in Nat, i \in 0 .. P - 1 : q = k \div P /\ i = k % P /\ k = P * q + i /\ P * q <= k
  BY Division
<1>3. PICK x \in Nat, r \in Nat : x = SS * q /\ r = Z * i
  BY <1>1
<1>4. d = x + r
  <2>1. Z * (P * q + i) = (Z * P) * q + Z * i
    OBVIOUS
  <2>2. QED
    BY <1>1, <1>2, <1>3, <2>1
<1>5. r + Z <= SS /\ r < SS /\ (r + Z = SS \/ r + Z < SS)
  <2>1. Z * (P - 1 - i) >= 0
    OBVIOUS
  <2>2. Z * (P - 1 - i) = Z * P - Z - Z * i
    OBVIOUS
  <2>3. PICK y \in Int : y = Z * P
    OBVIOUS
  <2>4. y - Z - r >= 0 /\ SS = y
    BY <1>1, <1>3, <2>1, <2>2, <2>3
  <2>5. QED
    BY <1>1, <2>4
<1>6. d \div SS = q /\ d % SS = r
  <2>1. d = SS * q + r /\ r \in 0 .. SS - 1
    BY <1>1, <1>3, <1>4, <1>5
  <2>2. QED
    BY <1>1, <2>1, Quotient
<1>7. PICK o \in Nat : o = d + Z
  OBVIOUS
<1>8. CASE r + Z < SS
  <2>1. PICK t \in 0 .. SS - 1 : t = r + Z /\ t # 0
    BY <1>1, <1>8
  <2>2. o = x + t
    BY <1>4, <1>7, <2>1
  <2>3. o = SS * q + t
    BY <1>3, <2>2, Zenon
  <2>4. o \div SS = q /\ o % SS = t
    BY <1>1, <2>3, Quotient
  <2>5. QED
    BY <1>1, <1>6, <1>7, <2>1, <2>4
<1>9. CASE r + Z = SS
  <2>1. PICK u \in Int : u = q + 1 /\ SS * u = SS * q + SS
    BY <1>1
  <2>2. o = x + SS
    BY <1>1, <1>4, <1>7, <1>9
  <2>3. o = SS * u + 0
    BY <1>1, <1>3, <2>1, <2>2
  <2>4. o \div SS = u /\ o % SS = 0
    BY <1>1, <2>3, Quotient, SMTT(40)
  <2>5. QED
    BY <1>1, <1>6, <1>7, <2>1, <2>4
<1>10. (d + SZDIRE) % SS = 0 => (d + SZDIRE) \div SS = d \div SS + 1
  BY <1>5, <1>8, <1>9
<1>11. (d + SZDIRE) % SS # 0 => (d + SZDIRE) \div SS = d \div SS
  BY <1>5, <1>8, <1>9
<1>12. (d % SS) \div SZDIRE + 1 \in 1 .. PerSector
  <2>1. r = Z * i + 0 /\ 0 \in 0 .. Z - 1
    BY <1>3
  <2>2. r \div Z = i
    BY <2>1, Quotient
  <2>3. QED
    BY <1>1, <1>6, <2>2
<1>13. d + SZDIRE = SZDIRE * (k + 1)
  BY <1>1
<1>14. QED
  BY <1>10, <1>11, <1>12, <1>13
-----------------------------------------------------------------------------
(***************************************************************************)
(* What mount_volume accepts.  With the parameters of a volume from start  *)
(* on, of so many sectors, its clusters, its FAT and its static root       *)
(* directory lie inside.                                                   *)
(***************************************************************************)
Types == {"FAT12", "FAT16", "FAT32"}

FatInside(v, start, sectors) ==
  \A c \in 2 .. v.n_fatent - 1, bit \in 0 .. FatBits[v.type] - 1 :
    LET s == v.fatbase + (c * FatBits[v.type] + bit) \div SectorBits
    IN s \in Nat /\ s >= start /\ s + 1 <= start + sectors

Geometry(v, start, sectors) ==
  /\ start \in Nat /\ sectors \in Nat
  /\ v.type \in Types /\ {v.dirbase, v.n_rootdir, v.database} \subseteq Nat
  /\ v.csize \in Nat \ {0} /\ v.n_fatent \in Nat /\ v.n_fatent >= 2
  /\ v.database > start /\ v.database + v.csize * (v.n_fatent - 2) <= start + sectors
  /\ v.type # "FAT32" =>
       /\ v.dirbase >= start
       /\ \E r \in Nat \ {0} : /\ v.n_rootdir = PerSector * r
                               /\ v.dirbase + r <= start + sectors
  /\ FatInside(v, start, sectors)

IsBpb(b) ==
  {b.BytsPerSec, b.NumFATs, b.FATSz, b.SecPerClus, b.RootEntCnt, b.RsvdSecCnt, b.TotSec, b.FSVer,
   b.RootClus} \subseteq Nat

(* The checks of mount_volume suffice for a geometry.                      *)
LEMMA MountedGeometry ==
  ASSUME NEW b, NEW s \in Nat, IsBpb(b), mount_volume(b, s) # Unmounted
  PROVE  Geometry(mount_volume(b, s), s, b.TotSec)
<1>1. PICK fasize, root, sysect, nclst, type :
        /\ fasize = b.FATSz * b.NumFATs /\ root = b.RootEntCnt \div (SS \div SZDIRE)
        /\ sysect = b.RsvdSecCnt + fasize + root
        /\ nclst = (b.TotSec - sysect) \div b.SecPerClus
        /\ type = IF nclst <= MAX_FAT12 THEN "FAT12"
                  ELSE IF nclst <= MAX_FAT16 THEN "FAT16" ELSE "FAT32"
  OBVIOUS
<1>2. PICK v : v = mount_volume(b, s)
  OBVIOUS
<1>3. /\ b.NumFATs \in {1, 2} /\ IsPowerOf2(b.SecPerClus)
      /\ b.RootEntCnt % (SS \div SZDIRE) = 0 /\ b.RsvdSecCnt # 0
      /\ b.TotSec >= sysect /\ nclst > 0
      /\ (type = "FAT32") = (b.RootEntCnt = 0)
      /\ b.FATSz * SectorBits >= (nclst + 2) * FatBits[type]
  BY <1>1 DEF mount_volume
<1>4. v = [type |-> type, csize |-> b.SecPerClus, n_rootdir |-> b.RootEntCnt,
           n_fatent |-> nclst + 2, fatbase |-> s + b.RsvdSecCnt, database |-> s + sysect,
           dirbase |-> IF type = "FAT32" THEN b.RootClus ELSE s + b.RsvdSecCnt + fasize]
  BY <1>1, <1>2 DEF mount_volume
<1>5. PICK csize \in Nat \ {0}, rsvd \in Nat \ {0}, fatsz \in Nat, total \in Nat, entries \in Nat :
        csize = b.SecPerClus /\ rsvd = b.RsvdSecCnt /\ fatsz = b.FATSz /\ total = b.TotSec
        /\ entries = b.RootEntCnt
  <2>1. b.SecPerClus \in Nat \ {0}
    BY <1>3 DEF IsPowerOf2
  <2>2. b.RsvdSecCnt \in Nat \ {0} /\ {b.FATSz, b.TotSec, b.RootEntCnt} \subseteq Nat
    BY <1>3 DEF IsBpb
  <2>3. QED
    BY <2>1, <2>2
<1>6. fasize \in Nat /\ fasize >= fatsz
  BY <1>1, <1>3, <1>5
<1>7. root \in Nat /\ entries = PerSector * root
  <2>1. PICK q \in Nat, r \in 0 .. PerSector - 1 :
          q = entries \div PerSector /\ r = entries % PerSector /\ entries = PerSector * q + r
          /\ PerSector * q <= entries
    BY FatNumbers, Division
  <2>2. r = 0
    BY <1>3, <1>5, <2>1 DEF PerSector
  <2>3. PICK y \in Nat : y = PerSector * q
    BY FatNumbers
  <2>4. entries = y
    <3>1. entries = y + r
      BY <2>1, <2>3, Zenon
    <3>2. QED
      BY <2>2, <2>3, <3>1
  <2>5. root = q
    BY <1>1, <1>5, <2>1 DEF PerSector
  <2>6. QED
    BY <2>3, <2>4, <2>5
<1>8. sysect \in Nat /\ sysect = rsvd + fasize + root /\ sysect <= total
  BY <1>1, <1>3, <1>5, <1>6, <1>7
<1>9. nclst \in Nat \ {0} /\ csize * nclst <= total - sysect
  <2>1. PICK rest \in Nat : rest = total - sysect
    BY <1>8
  <2>2. PICK q \in Nat, r \in 0 .. csize - 1 :
          q = rest \div csize /\ r = rest % csize /\ rest = csize * q + r /\ csize * q <= rest
    BY Division
  <2>3. nclst = q
    BY <1>1, <1>5, <2>1, <2>2
  <2>4. QED
    BY <1>3, <2>1, <2>2, <2>3
<1>10. type \in Types /\ FatBits[type] \in Nat \ {0}
  BY <1>1, FatFsAssumption DEF Types
<1>11. /\ v.type = type /\ v.csize = csize /\ v.n_rootdir = entries /\ v.n_fatent = nclst + 2
       /\ v.fatbase = s + rsvd /\ v.database = s + sysect
       /\ v.dirbase = IF type = "FAT32" THEN b.RootClus ELSE s + rsvd + fasize
  BY <1>4, <1>5
<1>12. v.csize * (v.n_fatent - 2) = csize * nclst
  <2>1. v.n_fatent - 2 = nclst
    BY <1>9, <1>11
  <2>2. QED
    BY <1>11, <2>1
<1>13. v.database + v.csize * (v.n_fatent - 2) <= s + total
  <2>1. PICK y \in Nat : y = csize * nclst
    BY <1>9
  <2>2. y <= total - sysect
    BY <1>9, <2>1
  <2>3. QED
    BY <1>8, <1>11, <1>12, <2>1, <2>2
<1>14. v.dirbase \in Nat
  BY <1>6, <1>11 DEF IsBpb
<1>15. ASSUME type # "FAT32"
       PROVE  /\ v.dirbase >= s
              /\ \E r \in Nat \ {0} : v.n_rootdir = PerSector * r /\ v.dirbase + r <= s + total
  <2>1. entries # 0
    BY <1>3, <1>5, <1>15
  <2>2. root \in Nat \ {0}
    <3>1. CASE root = 0
      BY <1>7, <2>1, <3>1, FatNumbers
    <3>2. QED
      BY <1>7, <3>1
  <2>3. v.dirbase >= s /\ v.dirbase + root <= s + total
    BY <1>6, <1>7, <1>8, <1>11, <1>15
  <2>4. QED
    BY <1>7, <1>11, <2>2, <2>3
<1>16. FatInside(v, s, total)
  <2>1. SUFFICES ASSUME NEW c \in 2 .. v.n_fatent - 1, NEW bit \in 0 .. FatBits[v.type] - 1
                 PROVE  LET t == v.fatbase + (c * FatBits[v.type] + bit) \div SectorBits
                        IN t \in Nat /\ t >= s /\ t + 1 <= s + total
    BY DEF FatInside
  <2>2. PICK F \in Nat \ {0} : F = FatBits[type]
    BY <1>10
  <2>3. c \in Nat /\ c <= nclst + 1 /\ bit \in 0 .. F - 1
    BY <1>9, <1>11, <2>2
  <2>4. PICK x \in Nat, n \in Nat, y \in Nat :
          x = c * F /\ n = x + bit /\ y = (nclst + 2) * F
    BY <1>9, <2>3
  <2>5. n < y
    <3>1. (nclst + 2 - c) * F = (nclst + 2) * F - c * F
      BY <1>9, <2>3
    <3>2. (nclst + 2 - c) * F >= F
      BY <1>9, <2>3
    <3>3. y - x >= F
      BY <2>4, <3>1, <3>2
    <3>4. QED
      BY <2>3, <2>4, <3>3
  <2>6. PICK z \in Nat : z = SectorBits * fatsz
    BY FatNumbers
  <2>7. z >= y
    BY <1>3, <1>5, <2>2, <2>4, <2>6, FatNumbers
  <2>8. n < SectorBits * fatsz
    BY <2>4, <2>5, <2>6, <2>7
  <2>9. PICK d \in Nat : d = n \div SectorBits /\ d < fatsz
    BY <2>8, FatNumbers, Division, DivisionBound
  <2>10. v.fatbase + (c * FatBits[v.type] + bit) \div SectorBits = s + rsvd + d
    BY <1>11, <2>2, <2>4, <2>9
  <2>11. QED
    BY <1>6, <1>7, <1>8, <2>9, <2>10
<1>17. QED
  <2>1. /\ v.type \in Types /\ {v.dirbase, v.n_rootdir, v.database} \subseteq Nat
        /\ v.csize \in Nat \ {0} /\ v.n_fatent \in Nat /\ v.n_fatent >= 2 /\ v.database > s
    BY <1>5, <1>6, <1>7, <1>8, <1>9, <1>10, <1>11, <1>14
  <2>2. Geometry(v, s, total)
    BY <2>1, <1>5, <1>11, <1>13, <1>15, <1>16, Zenon DEF Geometry
  <2>3. QED
    BY <2>2, <1>2, <1>5, Zenon
-----------------------------------------------------------------------------
(***************************************************************************)
(* The invariant: the directory is at a sector that belongs to the static  *)
(* root or to a cluster of the volume, the file in a cluster of it, and    *)
(* what is left to read is not more than the file has.                     *)
(***************************************************************************)
ClusterIn(c) == c \in 2 .. fs.n_fatent - 1
Within(sect, n) == /\ sect >= Volume.start /\ n > 0
                   /\ sect + n <= Volume.start + Volume.sectors

EntryAt(d) == d.dptr \in Nat /\ \E k \in Nat : d.dptr = SZDIRE * k
AtDir(d) ==
  /\ EntryAt(d) /\ Within(d.sect, 1)
  /\ \/ d.clust = 0 /\ fs.type # "FAT32" /\ d.sect = fs.dirbase + d.dptr \div SS
     \/ ClusterIn(d.clust) /\ d.sect = clst2sect(d.clust) + ((d.dptr \div SS) % fs.csize)
AtEnd(d) == EntryAt(d) /\ ClusterIn(d.clust) /\ (d.dptr \div SS) % fs.csize = 0

DirType == [sclust : Nat, clust : Nat, sect : Nat, dptr : Nat]
FileType == [sclust : Nat, size : Nat, fptr : Nat, clust : Nat]
AtFile(f, n) ==
  /\ f \in FileType /\ n \in Nat \ {0} /\ f.fptr + n <= f.size
  /\ ClusterIn(f.clust)

FatValues == \A c \in 2 .. fs.n_fatent - 1 : Media[medium].fat[c] \in Nat

DiskInv ==
  /\ medium \in DOMAIN Media
  /\ fs # Unmounted => Geometry(fs, Volume.start, Volume.sectors) /\ FatValues
  /\ pc \in {"idle", "mount", "volume"} => fs = Unmounted
  /\ pc \in {"dir", "dirfat", "filefat", "data"} => fs # Unmounted
  /\ pc = "dir" => dp \in DirType /\ AtDir(dp)
  /\ pc = "dirfat" => dp \in DirType /\ AtEnd(dp)
  /\ pc \in {"filefat", "data"} => AtFile(fp, btr)
  /\ ReadsStayInVolume

-----------------------------------------------------------------------------
(* A cluster number that has a sector is one of the volume, with all of    *)
(* its sectors.                                                            *)
LEMMA ClusterInside ==
  ASSUME Geometry(fs, Volume.start, Volume.sectors), NEW c \in Nat
  PROVE  /\ ClusterIn(c) <=> clst2sect(c) # 0
         /\ clst2sect(c) \in Nat
         /\ ClusterIn(c) => \A i \in Nat, n \in Nat \ {0} :
              i + n <= fs.csize => Within(clst2sect(c) + i, n)
<1>1. PICK base \in Nat, size \in Nat \ {0}, entries \in Nat, start \in Nat, sectors \in Nat :
        /\ base = fs.database /\ size = fs.csize /\ entries = fs.n_fatent
        /\ start = Volume.start /\ sectors = Volume.sectors
        /\ entries >= 2 /\ base > start /\ base + size * (entries - 2) <= start + sectors
  BY DEF Geometry
<1>2. clst2sect(c) = IF c < 2 \/ c >= entries THEN 0 ELSE base + size * (c - 2)
  BY <1>1 DEF clst2sect
<1>3. CASE c < 2 \/ c >= entries
  BY <1>1, <1>2, <1>3 DEF ClusterIn
<1>4. CASE c >= 2 /\ c < entries
  <2>1. PICK x \in Nat, y \in Nat : x = size * (c - 2) /\ y = size * (entries - 2)
    BY <1>1, <1>4
  <2>2. y - x >= size
    <3>1. size * (entries - c) = y - x
      BY <2>1
    <3>2. size * (entries - c) >= size
      BY <1>4
    <3>3. QED
      BY <3>1, <3>2
  <2>3. clst2sect(c) = base + x
    BY <1>2, <1>4, <2>1
  <2>4. ClusterIn(c)
    BY <1>1, <1>4 DEF ClusterIn
  <2>5. base + x >= start /\ base + x # 0 /\ base + x + size <= start + sectors
    <3>1. base + y <= start + sectors
      BY <1>1, <2>1
    <3>2. QED
      BY <3>1, <1>1, <2>2
  <2>6. \A i \in Nat, n \in Nat \ {0} : i + n <= size =>
          /\ (base + x) + i >= start /\ n > 0 /\ ((base + x) + i) + n <= start + sectors
    BY <2>5
  <2>7. QED
    BY <1>1, <2>3, <2>4, <2>5, <2>6 DEF Within
<1>5. QED
  BY <1>3, <1>4

(* The sectors of an entry of the FAT.                                     *)
LEMMA FatEntryInside ==
  ASSUME Geometry(fs, Volume.start, Volume.sectors), NEW c, ClusterIn(c)
  PROVE  Within(FatSector(c, 0), 1) /\ Within(FatSector(c, LastBit), 1)
<1>1. FatBits[fs.type] \in Nat \ {0}
  BY FatFsAssumption DEF Geometry, Types
<1>2. LastBit = FatBits[fs.type] - 1 /\ 0 \in 0 .. FatBits[fs.type] - 1
      /\ LastBit \in 0 .. FatBits[fs.type] - 1
  BY <1>1 DEF LastBit
<1>3. \A bit \in 0 .. FatBits[fs.type] - 1 :
        /\ FatSector(c, bit) \in Nat /\ FatSector(c, bit) >= Volume.start
        /\ FatSector(c, bit) + 1 <= Volume.start + Volume.sectors
  BY DEF Geometry, FatInside, ClusterIn, FatSector
<1>4. QED
  BY <1>2, <1>3 DEF Within

(* What is asked of the driver stays inside.                               *)
LEMMA WindowMoves ==
  ASSUME req = NoReq, medium' = medium, NEW s, Within(s, 1), move_window(s)
  PROVE  ReadsStayInVolume'
<1>1. CASE req' = req
  BY <1>1 DEF ReadsStayInVolume
<1>2. CASE req' = [op |-> "read", sect |-> s, count |-> 1, win |-> TRUE]
  <2>1. Volume' = Volume
    BY DEF Volume
  <2>2. req'.sect = s /\ req'.count = 1
    BY <1>2
  <2>3. QED
    BY <2>1, <2>2 DEF ReadsStayInVolume, Within
<1>3. QED
  BY <1>1, <1>2 DEF move_window, disk_read

(* The same of a read of several sectors.                                  *)
LEMMA SectorsAreRead ==
  ASSUME req = NoReq, medium' = medium, NEW s, NEW n, NEW w, Within(s, n), disk_read(s, n, w)
  PROVE  ReadsStayInVolume'
<1>1. Volume' = Volume
  BY DEF Volume
<1>2. req'.sect = s /\ req'.count = n
  BY DEF disk_read
<1>3. QED
  BY <1>1, <1>2 DEF ReadsStayInVolume, Within

(* A step that goes on in the same volume.                                 *)
LEMMA GoesOn ==
  ASSUME DiskInv, medium' = medium, fs' = fs, fs # Unmounted, ReadsStayInVolume',
         NEW d, NEW f, NEW n,
         \/ pc' = "dir" /\ dp' = d /\ d \in DirType /\ AtDir(d)
         \/ pc' = "dirfat" /\ dp' = d /\ d \in DirType /\ AtEnd(d)
         \/ pc' \in {"filefat", "data"} /\ fp' = f /\ btr' = n /\ AtFile(f, n)
  PROVE  DiskInv'
<1>1. Volume' = Volume /\ FatValues' /\ Geometry(fs, Volume.start, Volume.sectors)'
  BY DEF Volume, FatValues, DiskInv, Geometry, FatInside
<1>2. pc' = "dir" => (dp \in DirType /\ AtDir(dp))'
  BY DEF AtDir, EntryAt, ClusterIn, clst2sect, Within, Volume
<1>3. pc' = "dirfat" => (dp \in DirType /\ AtEnd(dp))'
  BY DEF AtEnd, EntryAt, ClusterIn
<1>4. pc' \in {"filefat", "data"} => AtFile(fp, btr)'
  BY DEF AtFile, ClusterIn
<1>5. QED
  BY <1>1, <1>2, <1>3, <1>4 DEF DiskInv

(* A call that ends gives the volume up.                                   *)
LEMMA Returns ==
  ASSUME DiskInv, medium' = medium, req = NoReq, NEW r, Return(r)
  PROVE  DiskInv'
<1>1. pc' = "idle" /\ fs' = Unmounted /\ req' = NoReq
  BY DEF Return
<1>2. QED
  BY <1>1 DEF DiskInv, ReadsStayInVolume
-----------------------------------------------------------------------------
(***************************************************************************)
(* Reading the file.                                                       *)
(***************************************************************************)
(* A read is cut at the end of the cluster, and is not empty.              *)
LEMMA ExtentInside ==
  ASSUME Geometry(fs, Volume.start, Volume.sectors), NEW f \in FileType, NEW n \in Nat \ {0},
         ClusterIn(f.clust)
  PROVE  LET a == Extent(f, n) IN
         /\ a.cc \in Nat /\ a.size \in 1 .. n
         /\ a.cc > 0 => Within(a.sect, a.cc)
         /\ a.cc = 0 => Within(a.sect, 1)
<1>1. PICK csize \in Nat \ {0}, pos \in Nat, c \in Nat :
        csize = fs.csize /\ pos = f.fptr /\ c = f.clust
  BY DEF Geometry, FileType
<1>2. SS \in Nat \ {0}
  BY FatNumbers
<1>3. PICK sector \in Nat : sector = pos \div SS
  BY <1>2, Division
<1>4. PICK csect \in 0 .. csize - 1 : csect = sector % csize
  BY Division
<1>5. PICK whole \in Nat : whole = n \div SS /\ SS * whole <= n
  BY <1>2, Division
<1>6. PICK cc \in Nat : cc = Least(whole, csize - csect)
  BY DEF Least
<1>7. cc <= whole /\ csect + cc <= csize
  BY <1>6 DEF Least
<1>8. PICK size : size = IF cc > 0 THEN SS * cc ELSE n
  OBVIOUS
<1>9. size \in 1 .. n
  <2>1. CASE cc > 0
    <3>1. PICK x \in Nat, y \in Nat : x = SS * cc /\ y = SS * whole
      BY <1>2
    <3>2. SS * (whole - cc) = y - x /\ SS * (whole - cc) >= 0
      BY <1>2, <1>7, <3>1
    <3>3. x > 0
      BY <1>2, <2>1, <3>1
    <3>4. x <= n
      BY <1>5, <3>1, <3>2
    <3>5. QED
      BY <1>8, <2>1, <3>1, <3>3, <3>4
  <2>2. CASE cc = 0
    BY <1>8, <2>2
  <2>3. QED
    BY <2>1, <2>2
<1>10. Extent(f, n) = [sect |-> clst2sect(c) + csect, cc |-> cc, size |-> size]
  BY <1>1, <1>3, <1>4, <1>5, <1>6, <1>8 DEF Extent
<1>11. \A i \in Nat, k \in Nat \ {0} : i + k <= csize => Within(clst2sect(c) + i, k)
  BY <1>1, ClusterInside
<1>12. cc > 0 => Within(clst2sect(c) + csect, cc)
  BY <1>7, <1>11
<1>13. Within(clst2sect(c) + csect, 1)
  BY <1>11
<1>14. QED
  BY <1>9, <1>10, <1>12, <1>13

(* An access to a sector of the file keeps the invariant.                  *)
LEMMA AccessStep ==
  ASSUME DiskInv, medium' = medium, req = NoReq, fs # Unmounted,
         NEW f \in FileType, NEW c \in Nat, NEW n \in Nat \ {0}, f.fptr + n <= f.size,
         NEW o, Access(f, c, n, o)
  PROVE  DiskInv'
<1>1. Geometry(fs, Volume.start, Volume.sectors)
  BY DEF DiskInv
<1>2. CASE clst2sect(c) = 0
  BY <1>2, Returns DEF Access
<1>3. CASE clst2sect(c) # 0
  <2>1. PICK g : g = [f EXCEPT !.clust = c]
    OBVIOUS
  <2>2. g \in FileType /\ g.clust = c /\ g.fptr = f.fptr /\ g.size = f.size
    BY <2>1 DEF FileType
  <2>3. ClusterIn(g.clust)
    BY <1>1, <1>3, <2>2, ClusterInside
  <2>4. PICK a : a = Extent(g, n)
    OBVIOUS
  <2>5. /\ fp' = g /\ btr' = n /\ pc' = "data" /\ fs' = fs
        /\ IF a.cc > 0 THEN disk_read(a.sect, a.cc, FALSE) ELSE move_window(a.sect)
    BY <1>3, <2>1, <2>4 DEF Access, vFind
  <2>6. /\ a.cc \in Nat
        /\ a.cc > 0 => Within(a.sect, a.cc)
        /\ a.cc = 0 => Within(a.sect, 1)
    BY <1>1, <2>2, <2>3, <2>4, ExtentInside
  <2>7. ReadsStayInVolume'
    <3>1. CASE a.cc > 0
      <4>1. disk_read(a.sect, a.cc, FALSE)
        BY <2>5, <3>1, Zenon
      <4>2. QED
        BY <4>1, <2>6, <3>1, SectorsAreRead
    <3>2. CASE a.cc = 0
      <4>1. ~ (a.cc > 0)
        BY <3>2
      <4>2. move_window(a.sect)
        BY <2>5, <4>1, Zenon
      <4>3. QED
        BY <4>2, <2>6, <3>2, WindowMoves
    <3>3. QED
      BY <2>6, <3>1, <3>2
  <2>8. AtFile(g, n)
    BY <2>2, <2>3 DEF AtFile
  <2>9. QED
    BY <2>5, <2>7, <2>8, GoesOn
<1>4. QED
  BY <1>2, <1>3

(* So does f_read, to whatever it comes next.                              *)
LEMMA FReadStep ==
  ASSUME DiskInv, medium' = medium, req = NoReq, fs # Unmounted,
         NEW f \in FileType, NEW left \in Nat, f.fptr + left <= f.size,
         f.fptr > 0 => ClusterIn(f.clust), NEW o, f_read(f, left, o)
  PROVE  DiskInv'
<1>1. PICK n : n = IF left > 0 THEN left ELSE Least(Chunk, f.size - f.fptr)
  OBVIOUS
<1>2. f.fptr \in Nat /\ f.size \in Nat /\ f.clust \in Nat /\ f.sclust \in Nat
  BY DEF FileType
<1>3. n \in Nat /\ f.fptr + n <= f.size
  BY <1>1, <1>2, FatNumbers DEF Least
<1>4. CASE n = 0
  BY <1>1, <1>4, Returns DEF f_read
<1>5. CASE n # 0 /\ f.fptr > 0 /\ f.fptr % (SS * fs.csize) = 0
  <2>1. fp' = f /\ btr' = n /\ pc' = "filefat" /\ get_fat(f.clust) /\ fs' = fs
    BY <1>1, <1>5 DEF f_read, vFind
  <2>2. AtFile(f, n)
    BY <1>3, <1>5 DEF AtFile
  <2>3. ReadsStayInVolume'
    BY <1>5, <2>1, FatEntryInside, WindowMoves DEF get_fat, DiskInv
  <2>4. QED
    BY <2>1, <2>2, <2>3, GoesOn
<1>6. CASE n # 0 /\ ~ (f.fptr > 0 /\ f.fptr % (SS * fs.csize) = 0)
  <2>1. PICK c \in Nat : c = IF f.fptr = 0 THEN f.sclust ELSE f.clust
    BY <1>2
  <2>2. Access(f, c, n, o)
    BY <1>1, <1>6, <2>1 DEF f_read
  <2>3. QED
    BY <1>3, <1>6, <2>2, AccessStep
<1>7. QED
  BY <1>4, <1>5, <1>6
-----------------------------------------------------------------------------
(***************************************************************************)
(* Looking for the file.                                                   *)
(***************************************************************************)
(* A directory is entered at its first entry.                              *)
LEMMA EnterDirStep ==
  ASSUME DiskInv, medium' = medium, req = NoReq, fs # Unmounted, NEW c \in Nat, NEW n,
         EnterDir(c, n)
  PROVE  DiskInv'
<1>1. Geometry(fs, Volume.start, Volume.sectors)
  BY DEF DiskInv
<1>2. PICK d \in Nat : d = IF c = 0 /\ fs.type = "FAT32" THEN fs.dirbase ELSE c
  BY <1>1 DEF Geometry
<1>3. PICK sect : sect = IF d = 0 THEN fs.dirbase ELSE clst2sect(d)
  OBVIOUS
<1>4. CASE sect = 0 \/ Strip(path[n]) = <<>>
  <2>1. Fail
    BY <1>2, <1>3, <1>4 DEF EnterDir
  <2>2. QED
    BY <2>1, Returns DEF Fail
<1>5. CASE ~ (sect = 0 \/ Strip(path[n]) = <<>>)
  <2>1. PICK e : e = [sclust |-> c, clust |-> d, sect |-> sect, dptr |-> 0]
    OBVIOUS
  <2>2. dp' = e /\ pc' = "dir" /\ move_window(sect) /\ fs' = fs
    BY <1>2, <1>3, <1>5, <2>1 DEF EnterDir, vFind
  <2>3. EntryAt(e)
    <3>1. 0 = SZDIRE * 0
      BY FatNumbers
    <3>2. QED
      BY <2>1, <3>1 DEF EntryAt
  <2>4. 0 \div SS = 0
    <3>1. 0 = SS * 0 + 0 /\ 0 \in 0 .. SS - 1 /\ SS \in Nat \ {0}
      BY FatNumbers
    <3>2. QED
      BY <3>1, Quotient
  <2>5. 0 % fs.csize = 0
    <3>1. PICK z \in Nat \ {0} : z = fs.csize
      BY <1>1 DEF Geometry
    <3>2. 0 = z * 0 + 0 /\ 0 \in 0 .. z - 1
      BY <3>1
    <3>3. 0 % z = 0
      BY <3>2, Quotient
    <3>4. QED
      BY <3>1, <3>3
  <2>6. CASE d = 0
    <3>1. fs.type # "FAT32" /\ sect = fs.dirbase /\ sect \in Nat
      BY <1>1, <1>2, <1>3, <1>5, <2>6 DEF Geometry
    <3>2. PICK r \in Nat \ {0} : sect >= Volume.start /\ sect + r <= Volume.start + Volume.sectors
      BY <1>1, <3>1 DEF Geometry
    <3>3. Within(sect, 1)
      BY <1>1, <3>1, <3>2 DEF Within, Geometry
    <3>4. sect = fs.dirbase + 0 \div SS
      BY <2>4, <3>1
    <3>5. e \in DirType /\ AtDir(e)
      BY <2>1, <2>3, <2>6, <3>1, <3>3, <3>4 DEF DirType, AtDir
    <3>6. ReadsStayInVolume'
      BY <2>2, <3>3, WindowMoves
    <3>7. QED
      BY <2>2, <3>5, <3>6, GoesOn
  <2>7. CASE d # 0
    <3>1. sect = clst2sect(d) /\ sect # 0
      BY <1>3, <1>5, <2>7
    <3>2. ClusterIn(d) /\ sect \in Nat
      BY <1>1, <3>1, ClusterInside
    <3>3. Within(sect, 1)
      <4>1. \A i \in Nat, k \in Nat \ {0} : i + k <= fs.csize => Within(clst2sect(d) + i, k)
        BY <1>1, <3>2, ClusterInside
      <4>2. Within(clst2sect(d) + 0, 1)
        BY <1>1, <4>1 DEF Geometry
      <4>3. clst2sect(d) + 0 = sect
        BY <3>1, <3>2
      <4>4. QED
        BY <4>2, <4>3, Zenon
    <3>4. sect = clst2sect(d) + ((0 \div SS) % fs.csize)
      BY <2>4, <2>5, <3>1, <3>2
    <3>5. e \in DirType /\ AtDir(e)
      BY <2>1, <2>3, <3>2, <3>3, <3>4 DEF DirType, AtDir
    <3>6. ReadsStayInVolume'
      BY <2>2, <3>3, WindowMoves
    <3>7. QED
      BY <2>2, <3>5, <3>6, GoesOn
  <2>8. QED
    BY <2>6, <2>7
<1>6. QED
  BY <1>4, <1>5

(* The next entry is in the same sector, in the next one of the root or of *)
(* the cluster, or behind the end of the cluster.                          *)
LEMMA DirNextStep ==
  ASSUME DiskInv, medium' = medium, req = NoReq, pc = "dir", dir_next
  PROVE  DiskInv'
<1>1. Geometry(fs, Volume.start, Volume.sectors) /\ fs # Unmounted
  BY DEF DiskInv
<1>2. dp \in DirType /\ AtDir(dp)
  BY DEF DiskInv
<1>3. PICK k \in Nat : dp.dptr \in Nat /\ dp.dptr = SZDIRE * k
  BY <1>2 DEF AtDir, EntryAt
<1>4. PICK was \in Nat : was = dp.dptr
  BY <1>3
<1>5. PICK ofs \in Nat : ofs = was + SZDIRE
  BY <1>4, FatNumbers
<1>6. /\ ofs = SZDIRE * (k + 1)
      /\ ofs % SS = 0 => ofs \div SS = was \div SS + 1
      /\ ofs % SS # 0 => ofs \div SS = was \div SS
  BY <1>3, <1>4, <1>5, NextEntry
<1>7. CASE ofs >= MAX_DIR \/ (ofs % SS = 0 /\ dp.clust = 0 /\ ofs \div SZDIRE >= fs.n_rootdir)
  <2>1. Fail
    BY <1>4, <1>5, <1>7 DEF dir_next
  <2>2. QED
    BY <1>1, <2>1, Returns DEF Fail
<1>8. CASE ~ (ofs >= MAX_DIR \/ (ofs % SS = 0 /\ dp.clust = 0 /\ ofs \div SZDIRE >= fs.n_rootdir))
  <2>1. fs' = fs
    BY <1>4, <1>5, <1>8 DEF dir_next, vFind
  <2>2. PICK row \in Nat : row = was \div SS
    BY <1>4, FatNumbers, Division
  <2>3. PICK size \in Nat \ {0} : size = fs.csize
    BY <1>1 DEF Geometry
  <2>4. CASE ofs % SS = 0 /\ dp.clust # 0 /\ (ofs \div SS) % fs.csize = 0
    <3>1. PICK e : e = [dp EXCEPT !.dptr = ofs]
      OBVIOUS
    <3>2. pc' = "dirfat" /\ get_fat(dp.clust) /\ dp' = e
      BY <1>4, <1>5, <1>8, <2>4, <3>1 DEF dir_next
    <3>3. e \in DirType /\ e.dptr = ofs /\ e.clust = dp.clust
      BY <1>2, <3>1 DEF DirType
    <3>4. ClusterIn(dp.clust)
      BY <1>2, <2>4 DEF AtDir
    <3>5. AtEnd(e)
      <4>1. (e.dptr \div SS) % fs.csize = 0
        BY <2>4, <3>3
      <4>2. e.dptr \in Nat /\ \E j \in Nat : e.dptr = SZDIRE * j
        BY <1>6, <3>3
      <4>3. QED
        BY <3>3, <3>4, <4>1, <4>2 DEF AtEnd, EntryAt
    <3>6. ReadsStayInVolume'
      BY <1>1, <3>2, <3>4, FatEntryInside, WindowMoves DEF get_fat
    <3>7. QED
      BY <1>1, <2>1, <3>2, <3>3, <3>5, <3>6, GoesOn
  <2>5. CASE ~ (ofs % SS = 0 /\ dp.clust # 0 /\ (ofs \div SS) % fs.csize = 0)
    <3>1. PICK s : s = IF ofs % SS = 0 THEN dp.sect + 1 ELSE dp.sect
      OBVIOUS
    <3>2. s \in Nat
      BY <1>2, <3>1 DEF DirType
    <3>3. PICK e : e = [dp EXCEPT !.dptr = ofs, !.sect = s]
      OBVIOUS
    <3>4. pc' = "dir" /\ move_window(s) /\ dp' = e
      BY <1>4, <1>5, <1>8, <2>5, <3>1, <3>3 DEF dir_next
    <3>5. e \in DirType /\ e.dptr = ofs /\ e.clust = dp.clust /\ e.sect = s
      BY <1>2, <3>2, <3>3 DEF DirType
    <3>6. EntryAt(e)
      <4>1. e.dptr \in Nat /\ \E j \in Nat : e.dptr = SZDIRE * j
        BY <1>6, <3>5
      <4>2. QED
        BY <4>1 DEF EntryAt
    <3>7. AtDir(e)
      <4>1. CASE ofs % SS # 0
        <5>1. s = dp.sect
          BY <3>1, <4>1
        <5>2. ofs \div SS = dp.dptr \div SS
          BY <1>4, <1>6, <4>1
        <5>3. QED
          BY <1>2, <3>5, <3>6, <5>1, <5>2, Zenon DEF AtDir
      <4>2. CASE ofs % SS = 0 /\ dp.clust = 0
        <5>1. s = dp.sect + 1 /\ ofs \div SS = row + 1
          BY <1>6, <2>2, <3>1, <4>2
        <5>2. fs.type # "FAT32" /\ dp.sect = fs.dirbase + row
          BY <1>2, <1>4, <2>2, <4>2 DEF AtDir, ClusterIn
        <5>3. PICK base \in Nat, r \in Nat \ {0} :
                /\ base = fs.dirbase /\ base >= Volume.start /\ fs.n_rootdir = PerSector * r
                /\ base + r <= Volume.start + Volume.sectors
          BY <1>1, <5>2 DEF Geometry
        <5>4. ofs \div SZDIRE = k + 1
          <6>1. PICK x \in Nat : x = SZDIRE * (k + 1)
            BY FatNumbers
          <6>2. ofs = x + 0 /\ 0 \in 0 .. SZDIRE - 1
            BY <1>6, <6>1, FatNumbers
          <6>3. ofs = SZDIRE * (k + 1) + 0
            BY <6>1, <6>2
          <6>4. PICK z \in Nat \ {0}, m \in Int : z = SZDIRE /\ m = k + 1
            BY FatNumbers
          <6>5. ofs = z * m + 0 /\ 0 \in 0 .. z - 1
            BY <6>3, <6>4
          <6>6. ofs \div z = m
            BY <6>5, Quotient
          <6>7. QED
            BY <6>4, <6>6
        <5>5. k + 1 < PerSector * r
          BY <1>8, <4>2, <5>3, <5>4, FatNumbers
        <5>6. ofs < SS * r
          <6>1. PICK Z \in Nat \ {0}, P \in Nat \ {0} : Z = SZDIRE /\ P = PerSector /\ SS = Z * P
            BY FatNumbers
          <6>2. PICK m \in Nat : m = P * r /\ k + 1 < m
            BY <5>5, <6>1
          <6>3. Z * (m - (k + 1)) >= 1 /\ Z * (m - (k + 1)) = Z * m - Z * (k + 1)
            BY <6>2
          <6>4. Z * m = (Z * P) * r
            BY <6>2
          <6>5. PICK x \in Int, y \in Int : x = Z * m /\ y = Z * (k + 1)
            OBVIOUS
          <6>6. x = SS * r /\ y = ofs
            BY <1>6, <6>1, <6>4, <6>5, Zenon
          <6>7. x - y >= 1
            BY <6>3, <6>5
          <6>8. QED
            BY <6>5, <6>6, <6>7
        <5>7. row + 1 < r
          BY <5>1, <5>6, FatNumbers, DivisionBound
        <5>8. Within(s, 1) /\ s = fs.dirbase + ofs \div SS
          <6>1. s = base + (row + 1)
            BY <5>1, <5>2, <5>3
          <6>2. Volume.start \in Nat /\ Volume.sectors \in Nat
            BY <1>1 DEF Geometry
          <6>3. QED
            BY <5>1, <5>3, <5>7, <6>1, <6>2 DEF Within
        <5>9. QED
          BY <3>5, <3>6, <4>2, <5>2, <5>8, Zenon DEF AtDir
      <4>3. CASE ofs % SS = 0 /\ dp.clust # 0
        <5>1. s = dp.sect + 1 /\ ofs \div SS = row + 1
          BY <1>6, <2>2, <3>1, <4>3
        <5>2. ClusterIn(dp.clust) /\ dp.sect = clst2sect(dp.clust) + (row % size)
          <6>1. dp.clust # 0
            BY <4>3
          <6>2. /\ ClusterIn(dp.clust)
                /\ dp.sect = clst2sect(dp.clust) + ((dp.dptr \div SS) % fs.csize)
            BY <1>2, <6>1, Zenon DEF AtDir
          <6>3. dp.dptr \div SS = row
            BY <1>4, <2>2
          <6>4. QED
            BY <2>3, <6>2, <6>3
        <5>3. PICK i \in 0 .. size - 1 : i = row % size
          BY <2>2, <2>3, Division
        <5>4. PICK j \in 0 .. size - 1 : j = (row + 1) % size
          BY <2>2, <2>3, Division
        <5>5. j = i + 1
          BY <2>2, <2>3, <2>5, <4>3, <5>1, <5>3, <5>4, NextRemainder
        <5>6. clst2sect(dp.clust) \in Nat
          BY <1>1, <1>2, ClusterInside DEF DirType
        <5>7. s = clst2sect(dp.clust) + j
          <6>1. PICK z \in Nat : z = clst2sect(dp.clust)
            BY <5>6
          <6>2. dp.sect = z + i
            BY <5>2, <5>3, <6>1
          <6>3. s = z + j
            BY <5>1, <5>5, <6>2
          <6>4. QED
            BY <6>1, <6>3, Zenon
        <5>8. Within(s, 1)
          <6>1. \A a \in Nat, n \in Nat \ {0} : a + n <= size => Within(clst2sect(dp.clust) + a, n)
            BY <1>1, <1>2, <2>3, <5>2, ClusterInside DEF DirType
          <6>2. Within(clst2sect(dp.clust) + j, 1)
            BY <5>4, <6>1
          <6>3. QED
            BY <5>7, <6>2, Zenon
        <5>9. s = clst2sect(dp.clust) + ((ofs \div SS) % fs.csize)
          BY <2>3, <5>1, <5>4, <5>7, Zenon
        <5>10. QED
          BY <3>5, <3>6, <5>2, <5>8, <5>9, Zenon DEF AtDir
      <4>4. QED
        BY <4>1, <4>2, <4>3
    <3>8. Within(s, 1)
      BY <3>5, <3>7 DEF AtDir
    <3>9. ReadsStayInVolume'
      BY <3>4, <3>8, WindowMoves
    <3>10. QED
      BY <1>1, <2>1, <3>4, <3>5, <3>7, <3>9, GoesOn
  <2>6. QED
    BY <2>4, <2>5
<1>9. QED
  BY <1>7, <1>8

(* The first cluster and the size in an entry are numbers.                 *)
LEMMA EntryTyped ==
  ASSUME DiskInv, pc = "dir", Entry.t = "file"
  PROVE  Entry.clust \in Nat /\ Entry.size \in Nat
<1>1. PICK m \in DOMAIN Media : m = medium
  BY DEF DiskInv
<1>2. PICK i : i = (dp.dptr % SS) \div SZDIRE + 1
  OBVIOUS
<1>3. i \in 1 .. SS \div SZDIRE
  <2>1. PICK k \in Nat, d \in Nat : d = dp.dptr /\ d = SZDIRE * k
    BY DEF DiskInv, AtDir, EntryAt
  <2>2. (d % SS) \div SZDIRE + 1 \in 1 .. PerSector
    BY <2>1, NextEntry
  <2>3. QED
    BY <1>2, <2>1, <2>2 DEF PerSector
<1>4. window \in DOMAIN Media[m].dir /\ Entry = Media[m].dir[window][i]
  <2>1. Entry = IF window \in DOMAIN Media[m].dir THEN Media[m].dir[window][i] ELSE [t |-> "end"]
    BY <1>1, <1>2, Zenon DEF Entry
  <2>2. CASE window \notin DOMAIN Media[m].dir
    <3>1. Entry = [t |-> "end"]
      BY <2>1, <2>2
    <3>2. QED
      BY <3>1
  <2>3. QED
    BY <2>1, <2>2
<1>5. PICK e : e = Media[m].dir[window][i] /\ e = Entry
  BY <1>4
<1>6. e.t = "file" => e.clust \in Nat /\ e.size \in Nat
  BY <1>1, <1>3, <1>4, <1>5, MediaAssumption, ZenonT(60)
<1>7. QED
  BY <1>5, <1>6

(* Looking at an entry of a directory keeps the invariant.                 *)
LEMMA DirEntryStep ==
  ASSUME DiskInv, medium' = medium, DirEntry
  PROVE  DiskInv'
<1>1. pc = "dir" /\ req = NoReq /\ fs # Unmounted
  BY DEF DirEntry, Ready, DiskInv
<1>2. CASE ~ ok \/ Entry.t = "end"
  BY <1>1, <1>2, Returns DEF DirEntry, Fail
<1>3. CASE ~ (~ ok \/ Entry.t = "end") /\ Matches(Entry)
  <2>1. PICK e : e = Entry /\ Found(e)
    BY <1>3 DEF DirEntry
  <2>2. e.clust \in Nat /\ e.size \in Nat
    BY <1>1, <1>3, <2>1, EntryTyped DEF Matches
  <2>3. CASE Fail
    BY <1>1, <2>3, Returns DEF Fail
  <2>4. CASE EnterDir(e.clust, seg + 1)
    BY <1>1, <2>2, <2>4, EnterDirStep
  <2>5. CASE f_read(Open(e), 0, <<>>)
    <3>1. PICK f : f = Open(e)
      OBVIOUS
    <3>2. f \in FileType /\ f.fptr = 0 /\ f.size \in Nat
      BY <2>2, <3>1 DEF Open, FileType
    <3>3. f.fptr + 0 <= f.size
      BY <3>2
    <3>4. ~ (f.fptr > 0)
      BY <3>2
    <3>5. f_read(f, 0, <<>>)
      BY <2>5, <3>1
    <3>6. QED
      BY <1>1, <3>2, <3>3, <3>4, <3>5, FReadStep
  <2>6. QED
    BY <2>1, <2>3, <2>4, <2>5 DEF Found
<1>4. CASE ~ (~ ok \/ Entry.t = "end") /\ ~ Matches(Entry)
  <2>1. dir_next
    BY <1>4 DEF DirEntry
  <2>2. QED
    BY <1>1, <2>1, DirNextStep
<1>5. QED
  BY <1>2, <1>3, <1>4

(* The second sector of an entry of the FAT.                               *)
LEMMA FatSecondStep ==
  ASSUME DiskInv, medium' = medium, FatSecond
  PROVE  DiskInv'
<1>1. pc \in {"dirfat", "filefat"} /\ req = NoReq /\ fs # Unmounted
  BY DEF FatSecond, Ready, DiskInv
<1>2. pc' = pc /\ fs' = fs /\ dp' = dp /\ fp' = fp /\ btr' = btr
  BY DEF FatSecond, vFind, vDir, vFile
<1>3. ClusterIn(FatCluster)
  BY <1>1 DEF FatCluster, DiskInv, AtEnd, AtFile
<1>4. move_window(FatSector(FatCluster, LastBit))
  BY DEF FatSecond
<1>5. PICK s : s = FatSector(FatCluster, LastBit)
  OBVIOUS
<1>6. Within(s, 1)
  BY <1>1, <1>3, <1>5, FatEntryInside DEF DiskInv
<1>7. ReadsStayInVolume'
  <2>1. move_window(s)
    BY <1>4, <1>5
  <2>2. QED
    BY <1>1, <1>6, <2>1, WindowMoves
<1>8. CASE pc = "dirfat"
  <2>1. dp \in DirType /\ AtEnd(dp)
    BY <1>8 DEF DiskInv
  <2>2. QED
    BY <1>1, <1>2, <1>7, <1>8, <2>1, GoesOn
<1>9. CASE pc = "filefat"
  <2>1. AtFile(fp, btr)
    BY <1>9 DEF DiskInv
  <2>2. QED
    BY <1>1, <1>2, <1>7, <1>9, <2>1, GoesOn
<1>10. QED
  BY <1>1, <1>8, <1>9

(* The directory goes on in the cluster the FAT names.                     *)
LEMMA DirClusterStep ==
  ASSUME DiskInv, medium' = medium, DirCluster
  PROVE  DiskInv'
<1>1. pc = "dirfat" /\ req = NoReq /\ fs # Unmounted
  BY DEF DirCluster, Ready, DiskInv
<1>2. Geometry(fs, Volume.start, Volume.sectors) /\ FatValues /\ dp \in DirType /\ AtEnd(dp)
  BY <1>1 DEF DiskInv
<1>3. PICK c \in Nat : c = Media[medium].fat[dp.clust]
  BY <1>2 DEF FatValues, AtEnd, ClusterIn
<1>4. PICK s : s = clst2sect(c)
  OBVIOUS
<1>5. CASE ~ ok \/ c < 2 \/ s = 0
  <2>1. Fail
    BY <1>3, <1>4, <1>5 DEF DirCluster
  <2>2. QED
    BY <1>1, <2>1, Returns DEF Fail
<1>6. CASE ~ (~ ok \/ c < 2 \/ s = 0)
  <2>1. PICK e : e = [dp EXCEPT !.clust = c, !.sect = s]
    OBVIOUS
  <2>2. dp' = e /\ pc' = "dir" /\ move_window(s) /\ fs' = fs
    BY <1>3, <1>4, <1>6, <2>1 DEF DirCluster, vFind
  <2>3. s \in Nat /\ ClusterIn(c)
    BY <1>2, <1>4, <1>6, ClusterInside
  <2>4. e \in DirType /\ e.clust = c /\ e.sect = s /\ e.dptr = dp.dptr
    BY <1>2, <2>1, <2>3 DEF DirType
  <2>5. Within(s, 1)
    <3>1. \A i \in Nat, k \in Nat \ {0} : i + k <= fs.csize => Within(clst2sect(c) + i, k)
      BY <1>2, <2>3, ClusterInside
    <3>2. Within(clst2sect(c) + 0, 1)
      BY <1>2, <3>1 DEF Geometry
    <3>3. clst2sect(c) + 0 = s
      BY <1>4, <2>3
    <3>4. QED
      BY <3>2, <3>3, Zenon
  <2>6. s = clst2sect(c) + ((dp.dptr \div SS) % fs.csize)
    <3>1. (dp.dptr \div SS) % fs.csize = 0
      BY <1>2 DEF AtEnd
    <3>2. s = clst2sect(c) + 0
      BY <1>4, <2>3
    <3>3. QED
      BY <3>1, <3>2, Zenon
  <2>7. EntryAt(e)
    BY <1>2, <2>4, Zenon DEF AtEnd, EntryAt
  <2>8. AtDir(e)
    BY <2>3, <2>4, <2>5, <2>6, <2>7, Zenon DEF AtDir
  <2>9. ReadsStayInVolume'
    BY <1>1, <2>2, <2>5, WindowMoves
  <2>10. QED
    BY <1>1, <2>2, <2>4, <2>8, <2>9, GoesOn
<1>7. QED
  BY <1>5, <1>6

(* The file goes on in the cluster the FAT names.                          *)
LEMMA FileClusterStep ==
  ASSUME DiskInv, medium' = medium, FileCluster
  PROVE  DiskInv'
<1>1. pc = "filefat" /\ req = NoReq /\ fs # Unmounted
  BY DEF FileCluster, Ready, DiskInv
<1>2. FatValues /\ AtFile(fp, btr)
  BY <1>1 DEF DiskInv
<1>3. PICK c \in Nat : c = Media[medium].fat[fp.clust]
  BY <1>2 DEF FatValues, AtFile, ClusterIn
<1>4. CASE ok
  <2>1. Access(fp, c, btr, out)
    BY <1>3, <1>4 DEF FileCluster
  <2>2. QED
    BY <1>1, <1>2, <2>1, AccessStep DEF AtFile
<1>5. CASE ~ ok
  BY <1>1, <1>5, Returns DEF FileCluster, Fail
<1>6. QED
  BY <1>4, <1>5

(* What was read counts.                                                   *)
LEMMA FileDataStep ==
  ASSUME DiskInv, medium' = medium, FileData
  PROVE  DiskInv'
<1>1. pc = "data" /\ req = NoReq /\ fs # Unmounted
  BY DEF FileData, Ready, DiskInv
<1>2. Geometry(fs, Volume.start, Volume.sectors) /\ AtFile(fp, btr)
  BY <1>1 DEF DiskInv
<1>3. CASE ~ ok
  BY <1>1, <1>3, Returns DEF FileData, Fail
<1>4. CASE ok
  <2>1. PICK a : a = Extent(fp, btr)
    OBVIOUS
  <2>2. a.size \in 1 .. btr
    BY <1>2, <2>1, ExtentInside DEF AtFile
  <2>3. PICK f : f = [fp EXCEPT !.fptr = @ + a.size]
    OBVIOUS
  <2>4. PICK o : f_read(f, btr - a.size, o)
    BY <1>4, <2>1, <2>3 DEF FileData
  <2>5. /\ fp \in FileType /\ btr \in Nat /\ fp.fptr \in Nat /\ fp.size \in Nat
        /\ fp.fptr + btr <= fp.size /\ ClusterIn(fp.clust)
    BY <1>2 DEF AtFile, FileType
  <2>6. f \in FileType /\ f.fptr = fp.fptr + a.size /\ f.size = fp.size /\ f.clust = fp.clust
    BY <2>2, <2>3, <2>5 DEF FileType
  <2>7. btr - a.size \in Nat /\ f.fptr + (btr - a.size) <= f.size
    BY <2>2, <2>5, <2>6
  <2>8. ClusterIn(f.clust)
    BY <2>5, <2>6
  <2>9. QED
    BY <1>1, <2>4, <2>6, <2>7, <2>8, FReadStep
<1>5. QED
  BY <1>3, <1>4
-----------------------------------------------------------------------------
(***************************************************************************)
(* Looking for the volume, and the driver.                                 *)
(***************************************************************************)
(* Until a volume is mounted there is nothing to stay in.                  *)
LEMMA Unmounts ==
  ASSUME DiskInv, medium' = medium, fs' = Unmounted, pc' \in {"idle", "mount", "volume"}
  PROVE  DiskInv'
BY DEF DiskInv, ReadsStayInVolume

(* What is mounted is the volume of the medium.                            *)
LEMMA FindVolumeStep ==
  ASSUME DiskInv, medium' = medium, FindVolume
  PROVE  DiskInv'
<1>1. pc = "volume" /\ req = NoReq /\ fs = Unmounted /\ medium \in DOMAIN Media
  BY DEF FindVolume, Ready, DiskInv
<1>2. CASE Fail
  BY <1>1, <1>2, Returns DEF Fail
<1>3. CASE \E s, p : check_fs(s, p)
  <2>1. pc' = "volume" /\ fs' = Unmounted
    BY <1>1, <1>3 DEF check_fs
  <2>2. QED
    BY <2>1, Unmounts
<1>4. CASE /\ ok /\ Boot(window).kind = "fat"
           /\ fs' = mount_volume(Boot(window), window) /\ pc' = "mounted" /\ UNCHANGED req
  <2>1. CASE fs' = Unmounted
    BY <1>1, <1>4, <2>1 DEF DiskInv, ReadsStayInVolume
  <2>2. CASE fs' # Unmounted
    <3>1. window \in DOMAIN Media[medium].boot /\ Boot(window) = Media[medium].boot[window]
      <4>1. CASE window \notin DOMAIN Media[medium].boot
        <5>1. Boot(window) = [kind |-> "none"]
          BY <4>1 DEF Boot
        <5>2. QED
          BY <1>4, <5>1
      <4>2. QED
        BY <4>1 DEF Boot
    <3>2. PICK m, w, b :
            /\ m \in DOMAIN Media /\ w \in DOMAIN Media[m].boot /\ b = Media[m].boot[w]
            /\ m = medium /\ w = window
      BY <1>1, <3>1
    <3>3. b = Boot(window)
      BY <3>1, <3>2
    <3>4. b.kind = "fat" /\ fs' = mount_volume(b, w) /\ mount_volume(b, w) # Unmounted
      BY <1>4, <2>2, <3>2, <3>3, Zenon
    <3>5. /\ w \in Nat /\ IsBpb(b)
          /\ Media[m].volume.start = w /\ Media[m].volume.sectors = b.TotSec
          /\ \A c \in 2 .. mount_volume(b, w).n_fatent - 1 : Media[m].fat[c] \in Nat
      <4>1. b.kind = "fat" =>
              /\ {w, b.BytsPerSec, b.NumFATs, b.FATSz, b.SecPerClus, b.RootEntCnt, b.RsvdSecCnt,
                  b.TotSec, b.FSVer, b.RootClus} \subseteq Nat
              /\ mount_volume(b, w) # Unmounted =>
                   /\ Media[m].volume.start = w /\ Media[m].volume.sectors = b.TotSec
                   /\ \A c \in 2..mount_volume(b, w).n_fatent - 1 : Media[m].fat[c] \in Nat
        BY <3>2, MediaAssumption
      <4>2. {w, b.BytsPerSec, b.NumFATs, b.FATSz, b.SecPerClus, b.RootEntCnt, b.RsvdSecCnt,
             b.TotSec, b.FSVer, b.RootClus} \subseteq Nat
        BY <3>4, <4>1, Zenon
      <4>3. w \in Nat /\ IsBpb(b)
        BY <4>2 DEF IsBpb
      <4>4. QED
        BY <3>4, <4>1, <4>3, Zenon
    <3>6. PICK v : v = mount_volume(b, w)
      OBVIOUS
    <3>7. Geometry(v, w, b.TotSec)
      BY <3>4, <3>5, <3>6, MountedGeometry
    <3>8. Volume' = Media[m].volume
      BY <3>2 DEF Volume
    <3>9. Geometry(fs, Volume.start, Volume.sectors)'
      <4>1. v = fs' /\ w = (Volume.start)' /\ b.TotSec = (Volume.sectors)'
        BY <3>4, <3>5, <3>6, <3>8
      <4>2. QED
        BY <3>7, <4>1 DEF Geometry, FatInside
    <3>10. FatValues'
      BY <3>2, <3>4, <3>5 DEF FatValues
    <3>11. QED
      BY <1>1, <1>4, <3>9, <3>10 DEF DiskInv, ReadsStayInVolume
  <2>3. QED
    BY <2>1, <2>2
<1>5. QED
  BY <1>2, <1>3, <1>4 DEF FindVolume

(* Every step of FatFs keeps the invariant.                                *)
LEMMA FatStepInside ==
  ASSUME DiskInv, FatStep
  PROVE  DiskInv'
<1>1. medium' = medium
  BY DEF FatStep
<1>2. CASE Initialized
  <2>1. pc = "mount" /\ req = NoReq /\ fs = Unmounted
    BY <1>2 DEF Initialized, Ready, DiskInv
  <2>2. CASE check_fs(0, 0)
    BY <1>1, <2>1, <2>2, Unmounts DEF check_fs
  <2>3. CASE Fail
    BY <1>1, <2>1, <2>3, Returns DEF Fail
  <2>4. QED
    BY <1>2, <2>2, <2>3 DEF Initialized
<1>3. CASE Mounted
  <2>1. req = NoReq
    BY <1>3 DEF Mounted, Ready
  <2>2. CASE fs = Unmounted
    BY <1>1, <1>3, <2>1, <2>2, Returns DEF Mounted, Fail
  <2>3. CASE fs # Unmounted
    BY <1>1, <1>3, <2>1, <2>3, EnterDirStep DEF Mounted
  <2>4. QED
    BY <2>2, <2>3
<1>4. CASE Astray
  BY <1>1, <1>4, Returns DEF Astray
<1>5. QED
  BY <1>1, <1>2, <1>3, <1>4, FindVolumeStep, DirEntryStep, FatSecondStep, DirClusterStep,
     FileClusterStep, FileDataStep DEF FatStep

(* A driver only takes requests away.                                      *)
LEMMA DriversAnswer ==
  ASSUME SdNext \/ SpiNext \/ SataNext
  PROVE  req' = NoReq \/ req' = req
<1>1. ASSUME NEW r, Answer(r)
      PROVE  req' = NoReq
  BY <1>1 DEF Answer
<1>2. ASSUME NEW s, NEW t, Continue(s, t)
      PROVE  req' = req
  BY <1>2 DEF Continue
<1>3. ASSUME NEW r, InitEnds(r)
      PROVE  req' = NoReq
  BY <1>1, <1>3 DEF InitEnds
<1>4. ASSUME NEW s, NEW t, InitGoesOn(s, t)
      PROVE  req' = NoReq \/ req' = req
  BY <1>2, <1>3, <1>4 DEF InitGoesOn
<1>5. ASSUME NEW d, Begin(d)
      PROVE  req' = NoReq \/ req' = req
  BY <1>1, <1>2, <1>5 DEF Begin
<1>6. ASSUME sdcard_init
      PROVE  req' = NoReq \/ req' = req
  BY <1>3, <1>4, <1>6 DEF sdcard_init, Advance
<1>7. ASSUME sdcard_read
      PROVE  req' = NoReq \/ req' = req
  BY <1>1, <1>2, <1>7 DEF sdcard_read
<1>8. ASSUME spisdcard_init
      PROVE  req' = NoReq \/ req' = req
  BY <1>3, <1>4, <1>8 DEF spisdcard_init
<1>9. ASSUME spisd_disk_read
      PROVE  req' = NoReq \/ req' = req
  BY <1>1, <1>2, <1>9 DEF spisd_disk_read, StopReading
<1>10. ASSUME sata_init
       PROVE  req' = NoReq \/ req' = req
  BY <1>3, <1>4, <1>10 DEF sata_init
<1>11. ASSUME sata_read
       PROVE  req' = NoReq \/ req' = req
  BY <1>1, <1>2, <1>11 DEF sata_read
<1>12. QED
  BY <1>5, <1>6, <1>7, <1>8, <1>9, <1>10, <1>11 DEF SdNext, SpiNext, SataNext

(* A step that leaves FatFs alone.                                         *)
LEMMA FatRests ==
  ASSUME DiskInv, UNCHANGED fatVars, req' = NoReq \/ req' = req
  PROVE  DiskInv'
<1>1. medium' = medium /\ pc' = pc /\ fs' = fs /\ dp' = dp /\ fp' = fp /\ btr' = btr
  BY DEF fatVars
<1>2. Volume' = Volume /\ FatValues' = FatValues
  BY <1>1 DEF Volume, FatValues
<1>3. ReadsStayInVolume'
  BY <1>1, <1>2 DEF DiskInv, ReadsStayInVolume
<1>4. (Geometry(fs, Volume.start, Volume.sectors))' <=> Geometry(fs, Volume.start, Volume.sectors)
  BY <1>1, <1>2 DEF Geometry, FatInside
<1>5. AtDir(dp)' = AtDir(dp) /\ AtEnd(dp)' = AtEnd(dp) /\ AtFile(fp, btr)' = AtFile(fp, btr)
  BY <1>1, <1>2 DEF AtDir, AtEnd, AtFile, EntryAt, ClusterIn, clst2sect, Within
<1>6. QED
  BY <1>1, <1>2, <1>3, <1>4, <1>5 DEF DiskInv

(* The invariant of the copy of a file.                                    *)
THEOREM DiskInvariant == Spec => []DiskInv
<1>1. Init => DiskInv
  <2>1. SUFFICES ASSUME Init PROVE DiskInv
    OBVIOUS
  <2>2. pc = "idle" /\ fs = Unmounted /\ req = NoReq
    BY <2>1 DEF Init, DiskInit, FatInit
  <2>3. medium \in DOMAIN Media
    BY <2>1, FatFsAssumption DEF Init, FatInit
  <2>4. QED
    BY <2>2, <2>3 DEF DiskInv, ReadsStayInVolume
<1>2. DiskInv /\ [Next]_vars => DiskInv'
  <2>1. SUFFICES ASSUME DiskInv, [Next]_vars PROVE DiskInv'
    OBVIOUS
  <2>2. CASE Copy
    BY <2>1, <2>2, Unmounts DEF Copy
  <2>3. CASE FatStep
    BY <2>1, <2>3, FatStepInside
  <2>4. CASE Driver
    BY <2>1, <2>4, DriversAnswer, FatRests DEF Driver
  <2>5. CASE UNCHANGED vars
    BY <2>1, <2>5, FatRests DEF vars, diskVars
  <2>6. QED
    BY <2>1, <2>2, <2>3, <2>4, <2>5 DEF Next
<1>3. QED
  BY <1>1, <1>2, PTL DEF Spec

(* FatFs reads no sector that is not of the volume, whatever its geometry, *)
(* whatever is in the FAT and in the directories.                          *)
THEOREM ReadsAreInside == Spec => []ReadsStayInVolume
<1>1. DiskInv => ReadsStayInVolume
  BY DEF DiskInv
<1>2. QED
  BY <1>1, DiskInvariant, PTL
=============================================================================
