------------------------------ MODULE MCFiles ------------------------------
(***************************************************************************)
(* Files with a ramdisk of three files, the last with the name of the      *)
(* first, and paths of every kind: files, devices, directories, with a     *)
(* slash at the end or two in the middle, through a file, relative,        *)
(* unknown.                                                                *)
(***************************************************************************)
EXTENDS Files

SomeImage == <<[name |-> "a", bytes |-> <<"a1", "a2">>],
               [name |-> "b", bytes |-> <<"b1">>],
               [name |-> "a", bytes |-> <<"c1">>]>>

Path(names) == [absolute |-> TRUE, names |-> names]
SomePaths ==
  {Path(names) : names \in {<<"initrd", "a">>, <<"initrd", "b">>, <<"dev", "screen">>,
                            <<"dev", "keyboard">>, <<"initrd", "">>, <<"initrd", "a", "">>,
                            <<"initrd", "", "a">>, <<"initrd", "a", "b">>, <<"initrd", "c">>}}
    \cup {[absolute |-> FALSE, names |-> <<"initrd", "a">>]}
=============================================================================
