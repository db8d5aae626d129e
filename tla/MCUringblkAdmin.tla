-------------------------- MODULE MCUringblkAdmin --------------------------
(* Instances of UringblkAdmin for TLC.                                     *)
EXTENDS UringblkAdmin

(* Every opcode and length; only SET_FEATURES has an argument.             *)
AllInputs == {q \in Commands : q.op # "set_features" => q.arg = {}}
=============================================================================
