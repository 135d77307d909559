--------------------------- MODULE MCBootSequence ---------------------------
(* A kernel and a device tree, with the address given before, after or not *)
(* at all, a file that is missing, one that lies over another; media that  *)
(* are empty or hold only boot.bin.                                        *)
EXTENDS BootSequence

MCAddresses == {"main", "a", "b"}

Nothing == [json |-> << >>, files |-> {}]
Binary == [Nothing EXCEPT !.files = {"boot.bin"}]
With(j, f) == [json |-> j, files |-> f]
Kernel == <<"kernel", "main">>
Tree == <<"dtb", "a">>
Discs ==
  {Nothing, Binary,
   With(<<Kernel, Tree, <<"r2", "a">> >>, {"kernel", "dtb"}),
   With(<< <<"addr", "main">>, Kernel, <<"bootargs", << <<"r1", "b">>, <<"r3", "a">> >> >>, Tree>>, {"kernel", "dtb", "boot.bin"}),
   With(<<Kernel, Tree, <<"bootargs", << <<"addr", "main">> >> >> >>, {"kernel", "boot.bin"}),
   With(<<Tree, <<"dtb2", "a">>, Kernel>>, {"dtb", "dtb2", "kernel"}),
   With(<< <<"r1.bin", "a">>, Kernel>>, {"r1.bin", "kernel"}),
   With(<< <<"r1", "a">> >>, {"boot.bin"})}

MCPrefixed == [n \in {"r1.bin"} |-> "r1"]

(* The rest of an older file: nothing, an image that is there or is not,   *)
(* an address.                                                             *)
MCRemains == {<< >>, <<Tree>>, << <<"addr", "a">>, <<"dtb2", "b">> >>}

Media3 == <<"sdcard", "sata", "net">>
MCSetups ==
  [methods : {<<"flash">> \o Media3}, flash : {"bad"},
   sdcard : Discs, sata : {Nothing, Binary}, net : {Nothing}]
  \cup [methods : {Media3}, sdcard : {Nothing, Binary}, sata : Discs, net : Discs]
  \cup [methods : {<<"flash", "rom">>}, flash : {"good", "bad"}]
=============================================================================
