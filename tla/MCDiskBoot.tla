----------------------------- MODULE MCDiskBoot -----------------------------
(* On the SATA disk: a FAT12 volume behind a partition table, with every   *)
(* FAT of three clusters; a FAT16 and a FAT32 volume with directories in   *)
(* chains; boot sectors with one wrong parameter.  The names asked for are *)
(* short, long, in a directory, or lossy.  On the cards: two of those.     *)
EXTENDS DiskBoot

F(n, e, dir, c, size) == [t |-> "file", fn |-> <<n, e>>, dir |-> dir, clust |-> c, size |-> size]
L(o, last, n, e, text) == [t |-> "lfn", ord |-> o, last |-> last, sum |-> <<n, e>>, text |-> text]
D == [t |-> "deleted"]
E == [t |-> "end"]
a == <<"A">>
b == <<"B">>
ab == <<"A", "B">>

(* The first partition has no volume.  AbC is the long name of B.          *)
Bpb12 == [kind |-> "fat", BytsPerSec |-> 4, NumFATs |-> 1, FATSz |-> 2, SecPerClus |-> 2,
          RootEntCnt |-> 4, RsvdSecCnt |-> 1, TotSec |-> 11, FSVer |-> 0, RootClus |-> 0]
Vol12 == [type |-> "FAT12", csize |-> 2, n_rootdir |-> 4, n_fatent |-> 5,
          database |-> 7, dirbase |-> 5, start |-> 2, sectors |-> 11]
Mbr == [kind |-> "mbr", parts |-> <<0, 1, 2, 0>>]
Dir12 == (5 :> <<F(a, <<>>, FALSE, 2, 11), L(2, TRUE, b, <<>>, <<"c", "NUL">>)>>)
      @@ (6 :> <<L(1, FALSE, b, <<>>, <<"a", "b">>), F(b, <<>>, FALSE, 3, 17)>>)
Digit == <<0, 3, 4, 5>>
Twelve(n) ==
  [boot |-> (0 :> Mbr) @@ (2 :> Bpb12), dir |-> Dir12, volume |-> Vol12,
   fat |-> [c \in 2..4 |-> Digit[((n \div 4^(c - 2)) % 4) + 1]]]

(* A directory of a deleted entry, part of a long name of another file, a  *)
(* subdirectory in two clusters, and AB; in the subdirectory, A.C.         *)
Bpb16 == [Bpb12 EXCEPT !.NumFATs = 2, !.FATSz = 3, !.SecPerClus = 1, !.TotSec = 13]
Vol16 == [type |-> "FAT16", csize |-> 1, n_rootdir |-> 4, n_fatent |-> 6,
          database |-> 9, dirbase |-> 7, start |-> 0, sectors |-> 13]
Dir16 == (7 :> <<D, L(1, TRUE, b, <<>>, <<"d", "NUL">>)>>)
      @@ (8 :> <<F(<<"D">>, <<>>, TRUE, 3, 0), F(ab, <<>>, FALSE, 5, 3)>>)
      @@ (10 :> <<D, D>>) @@ (9 :> <<D, F(a, <<"C">>, FALSE, 4, 4)>>)
Sixteen(next) ==
  [boot |-> (0 :> Bpb16), dir |-> Dir16, volume |-> Vol16,
   fat |-> (2 :> 7) @@ (3 :> next) @@ (4 :> 7) @@ (5 :> 7)]

(* The root is a chain from cluster 3.                                     *)
Bpb32 == [Bpb12 EXCEPT !.FATSz = 7, !.SecPerClus = 1, !.RootEntCnt = 0, !.TotSec = 13,
                       !.RootClus = 3]
Vol32 == [type |-> "FAT32", csize |-> 1, n_rootdir |-> 0, n_fatent |-> 7,
          database |-> 8, dirbase |-> 3, start |-> 0, sectors |-> 13]
Dir32 == (9 :> <<F(b, <<"C">>, FALSE, 4, 4), D>>) @@ (10 :> <<F(a, <<>>, FALSE, 0, 0), F(ab, <<>>, FALSE, 6, 6)>>)
ThirtyTwo(next) ==
  [boot |-> (0 :> Bpb32), dir |-> Dir32, volume |-> Vol32,
   fat |-> (2 :> 0) @@ (3 :> next) @@ (4 :> 9) @@ (5 :> 9) @@ (6 :> 5)]

Wrong ==
  <<[Bpb16 EXCEPT !.kind = "none"], [Bpb16 EXCEPT !.BytsPerSec = 8],
    [Bpb16 EXCEPT !.NumFATs = 3], [Bpb16 EXCEPT !.SecPerClus = 3],
    [Bpb16 EXCEPT !.RootEntCnt = 3], [Bpb16 EXCEPT !.RootEntCnt = 0],
    [Bpb16 EXCEPT !.RsvdSecCnt = 0], [Bpb16 EXCEPT !.TotSec = 9],
    [Bpb16 EXCEPT !.FATSz = 2], [Bpb32 EXCEPT !.FSVer = 1],
    [Bpb32 EXCEPT !.TotSec = 15]>>
Bad(boot, good) == [good EXCEPT !.boot = (0 :> boot), !.volume = Unmounted]

MCFatBits == [FAT12 |-> 12, FAT16 |-> 16, FAT32 |-> 32]
Odd ==
  <<Sixteen(2), Sixteen(0), Sixteen(7), Sixteen(3), ThirtyTwo(4), ThirtyTwo(9), ThirtyTwo(3)>>
  \o [i \in DOMAIN Wrong |-> Bad(Wrong[i], IF i < 10 THEN Sixteen(2) ELSE ThirtyTwo(4))]
MCMedia == [n \in 1..64 |-> Twelve(n)] \o Odd

Short == << <<"a">> >>
Long == << <<"A", "b", "C">> >>
Nested == << <<"d">>, <<"a", ".", "c", " ">> >>
Lossy == << <<"a", " ", "b">> >>
MCPaths == {Short, Long, Nested, Lossy, << <<"a", "b">> >>, << <<".", "a">> >>}

MCSetups ==
  ({"sata"} \X (1..64) \X {Short, Long})
    \cup ({"sata"} \X (65..Len(MCMedia)) \X MCPaths)
    \cup ({"sdcard", "spisdcard"} \X {3, 52} \X {Short, Long})
=============================================================================
