------------------------- MODULE MCUringblkModule -------------------------
(* Instances of UringblkModule for TLC.                                    *)
EXTENDS UringblkModule

CONSTANTS a, b

(* No list, one path, two paths, and a second entry that is empty.         *)
FullLists == {<<>>, <<a>>, <<a, b>>, <<a, EMPTY>>}

(* Lists that start with an empty entry, as in devices=",/dev/sdb".        *)
HoledLists == {<<EMPTY, b>>, <<EMPTY>>}

AllLists == FullLists \cup HoledLists

(* max_devices is an int: no device, or less, can be asked for.            *)
AnyMax == (-1) .. 2
=============================================================================
