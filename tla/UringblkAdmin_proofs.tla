------------------------ MODULE UringblkAdmin_proofs ------------------------
(***************************************************************************)
(* Proofs about the administration commands of uringblk, for any number of *)
(* commands in flight and any feature flags.                               *)
(***************************************************************************)
EXTENDS UringblkAdmin, TLAPS

(* Where a command holds admin_mutex, and where it has put nothing in the  *)
(* user's buffer yet.                                                      *)
Inside == {"dispatch", "copy", "store", "unlock"}
BeforeCopy == {"idle", "issued", "lock", "dispatch", "copy", "store"}

(* The mutex is held by the one command between Lock and Unlock.           *)
MutexInv == \A c \in Cmds : pc[c] \in Inside => mutex = c

(* What a handler has in its local copy is what it took it from: the       *)
(* features, which nobody changes meanwhile, or the checked argument.      *)
LocalInv ==
  \A c \in Cmds :
    /\ pc[c] = "copy" /\ cmd[c].op = "identify" => local[c] = features
    /\ pc[c] = "store" => /\ cmd[c].op = "set_features" /\ local[c] = cmd[c].arg
                          /\ local[c] \subseteq Known

(* The user's buffer is empty up to the copy, also in a command that will  *)
(* be issued again; a command past its handler is not.                     *)
BufferInv ==
  \A c \in Cmds :
    /\ pc[c] \in BeforeCopy => out[c] = NULL
    /\ pc[c] = "done" /\ res[c] = "EAGAIN" => out[c] = NULL
    /\ pc[c] \in {"unlock", "taskwork"} => res[c] # "EAGAIN"

IInv ==
  TypeOK /\ MutexInv /\ LocalInv /\ BufferInv /\ FeaturesSupported /\ AnswerIsCurrent
-----------------------------------------------------------------------------
(* Any step of a command, Submit by an application included.               *)
Act(c) == (\E q \in Inputs : Submit(c, q)) \/ Step(c) \/ Interrupted(c) \/ Reap(c)

(* The driver starts with no command in flight.                            *)
LEMMA Initially == Init => IInv
<1> SUFFICES ASSUME Init PROVE IInv
  BY Zenon
<1>1. TypeOK
  BY Zenon DEF Init, TypeOK, Words, Pcs, Commands, Blank, Opcodes, Lengths
<1>2. MutexInv /\ LocalInv /\ BufferInv /\ FeaturesSupported /\ AnswerIsCurrent
  BY Zenon DEF Init, MutexInv, LocalInv, BufferInv, FeaturesSupported, AnswerIsCurrent, Inside
<1>3. QED
  BY Zenon, <1>1, <1>2 DEF IInv

(* A step of one command leaves the variables of the others alone.         *)
LEMMA OthersKept ==
  ASSUME TypeOK, NEW c \in Cmds, Act(c), NEW d \in Cmds, d # c
  PROVE  /\ pc'[d] = pc[d] /\ cmd'[d] = cmd[d] /\ local'[d] = local[d]
         /\ out'[d] = out[d] /\ res'[d] = res[d]
BY DEF Act, Step, Submit, Issue, Lock, Interrupted, Dispatch, CopyOut, CopyIn, CopyFault,
       Store, Unlock, CompleteAsync, Reissue, Reap, Goto, Result, TypeOK

(* Every step keeps the types of the variables.                            *)
LEMMA TypesKept ==
  ASSUME TypeOK, NEW c \in Cmds, Act(c)
  PROVE  TypeOK'
<1> USE DEF TypeOK, Goto, Result, Pcs, Errors
<1>1. ASSUME NEW q \in Inputs, Submit(c, q) PROVE TypeOK'
  <2>1. q \in Commands
    BY Zenon, InputsAssumption
  <2>2. QED
    BY Zenon, <1>1, <2>1 DEF Submit
<1>2. CASE Issue(c)
  BY Zenon, <1>2 DEF Issue
<1>3. CASE Lock(c)
  BY Zenon, <1>3 DEF Lock
<1>4. CASE Interrupted(c)
  BY Zenon, <1>4 DEF Interrupted
<1>5. CASE Dispatch(c)
  BY Zenon, <1>5 DEF Dispatch
<1>6. CASE CopyOut(c)
  <2>1. local[c] \in Words /\ features \in Words /\ out[c] \in Words \cup {NULL}
    BY Zenon
  <2>2. QED
    BY Zenon, <1>6, <2>1 DEF CopyOut
<1>7. CASE CopyIn(c)
  <2>1. cmd[c].arg \in Words
    BY Zenon DEF Commands
  <2>2. QED
    BY Zenon, <1>7, <2>1 DEF CopyIn
<1>8. CASE CopyFault(c)
  BY Zenon, <1>8 DEF CopyFault
<1>9. CASE Store(c)
  BY Zenon, <1>9 DEF Store
<1>10. CASE Unlock(c)
  BY Zenon, <1>10 DEF Unlock
<1>11. CASE CompleteAsync(c)
  BY Zenon, <1>11 DEF CompleteAsync
<1>12. CASE Reissue(c)
  BY Zenon, <1>12 DEF Reissue
<1>13. CASE Reap(c)
  <2>1. Blank \in Commands /\ {} \in Words
    BY Zenon DEF Blank, Commands, Words, Opcodes, Lengths
  <2>2. QED
    BY Zenon, <1>13, <2>1 DEF Reap
<1>14. QED
  BY Zenon, <1>1, <1>2, <1>3, <1>4, <1>5, <1>6, <1>7, <1>8, <1>9, <1>10, <1>11, <1>12, <1>13
     DEF Act, Step

(* admin_mutex excludes: only Lock takes it, and only when it is free.     *)
LEMMA MutexKept ==
  ASSUME TypeOK, MutexInv, NEW c \in Cmds, Act(c)
  PROVE  MutexInv'
<1> SUFFICES ASSUME NEW d \in Cmds, pc'[d] \in Inside PROVE mutex' = d
  BY Zenon DEF MutexInv
<1>1. CASE d = c
  BY <1>1, FlagsAssumption
     DEF Act, Step, Submit, Issue, Lock, Interrupted, Dispatch, CopyOut, CopyIn, CopyFault,
         Store, Unlock, CompleteAsync, Reissue, Reap, Goto, Result, TypeOK, Inside, MutexInv
<1>2. CASE d # c
  <2>1. mutex = d
    BY Zenon, <1>2, OthersKept DEF MutexInv
  <2>2. ~Lock(c) /\ ~Unlock(c)
    BY Zenon, <1>2, <2>1, FlagsAssumption DEF Lock, Unlock, MutexInv, Inside
  <2>3. QED
    BY Zenon, <2>1, <2>2 DEF Act, Step, Submit, Issue, Interrupted, Dispatch, CopyOut, CopyIn,
                      CopyFault, Store, CompleteAsync, Reissue, Reap
<1>3. QED
  BY Zenon, <1>1, <1>2

(* Only the command that holds the mutex changes the features.             *)
LEMMA FeaturesChange ==
  ASSUME MutexInv, NEW c \in Cmds, Act(c), features' # features
  PROVE  Store(c) /\ mutex = c
BY Zenon DEF Act, Step, Submit, Issue, Lock, Interrupted, Dispatch, CopyOut, CopyIn, CopyFault,
       Store, Unlock, CompleteAsync, Reissue, Reap, MutexInv, Inside

(* A local copy stays true to its source.                                  *)
LEMMA LocalKept ==
  ASSUME TypeOK, MutexInv, LocalInv, NEW c \in Cmds, Act(c)
  PROVE  LocalInv'
<1> SUFFICES ASSUME NEW d \in Cmds
             PROVE  /\ pc'[d] = "copy" /\ cmd'[d].op = "identify" => local'[d] = features'
                    /\ pc'[d] = "store" => /\ cmd'[d].op = "set_features"
                                           /\ local'[d] = cmd'[d].arg
                                           /\ local'[d] \subseteq Known
  BY Zenon DEF LocalInv
<1>1. CASE d = c
  BY <1>1 DEF Act, Step, Submit, Issue, Lock, Interrupted, Dispatch, CopyOut, CopyIn,
              CopyFault, Store, Unlock, CompleteAsync, Reissue, Reap, Goto, Result, TypeOK,
              LocalInv
<1>2. CASE d # c
  <2>1. pc[d] = "copy" => features' = features
    BY Zenon, <1>2, FeaturesChange DEF MutexInv, Inside
  <2>2. QED
    BY <1>2, <2>1, OthersKept DEF LocalInv
<1>3. QED
  BY Zenon, <1>1, <1>2

(* The buffer is written once, by the copy of the handler.                 *)
LEMMA BufferKept ==
  ASSUME TypeOK, BufferInv, NEW c \in Cmds, Act(c)
  PROVE  BufferInv'
<1> SUFFICES ASSUME NEW d \in Cmds
             PROVE  /\ pc'[d] \in BeforeCopy => out'[d] = NULL
                    /\ pc'[d] = "done" /\ res'[d] = "EAGAIN" => out'[d] = NULL
                    /\ pc'[d] \in {"unlock", "taskwork"} => res'[d] # "EAGAIN"
  BY Zenon DEF BufferInv
<1>1. CASE d = c
  BY Zenon, <1>1 DEF Act, Step, Submit, Issue, Lock, Interrupted, Dispatch, CopyOut, CopyIn,
              CopyFault, Store, Unlock, CompleteAsync, Reissue, Reap, Goto, Result, TypeOK,
              BufferInv, BeforeCopy
<1>2. CASE d # c
  BY Zenon, <1>2, OthersKept DEF BufferInv
<1>3. QED
  BY Zenon, <1>1, <1>2

(* The features stay supported, and answers current.                       *)
LEMMA FeaturesKept ==
  ASSUME TypeOK, LocalInv, FeaturesSupported, NEW c \in Cmds, Act(c)
  PROVE  FeaturesSupported'
BY Zenon DEF Act, Step, Submit, Issue, Lock, Interrupted, Dispatch, CopyOut, CopyIn, CopyFault,
       Store, Unlock, CompleteAsync, Reissue, Reap, LocalInv, FeaturesSupported

LEMMA AnswerKept ==
  ASSUME TypeOK, MutexInv, LocalInv, BufferInv, AnswerIsCurrent, NEW c \in Cmds, Act(c)
  PROVE  AnswerIsCurrent'
<1> SUFFICES ASSUME NEW d \in Cmds, pc'[d] = "unlock", out'[d] # NULL
             PROVE  out'[d] = features'
  BY Zenon DEF AnswerIsCurrent
<1>1. CASE d = c
  BY Zenon, <1>1 DEF Act, Step, Submit, Issue, Lock, Interrupted, Dispatch, CopyOut, CopyIn,
              CopyFault, Store, Unlock, CompleteAsync, Reissue, Reap, Goto, Result, TypeOK,
              LocalInv, BufferInv, BeforeCopy
<1>2. CASE d # c
  <2>1. pc[d] = "unlock" /\ features' = features
    BY Zenon, <1>2, OthersKept, FeaturesChange DEF MutexInv, Inside
  <2>2. QED
    BY Zenon, <1>2, <2>1, OthersKept DEF AnswerIsCurrent
<1>3. QED
  BY Zenon, <1>1, <1>2

(* The invariant holds throughout.                                         *)
THEOREM Inductive == Spec => []IInv
<1>1. IInv /\ [Next]_vars => IInv'
  <2>1. ASSUME IInv, NEW c \in Cmds, Act(c) PROVE IInv'
    BY Zenon, <2>1, TypesKept, MutexKept, LocalKept, BufferKept, FeaturesKept,
         AnswerKept DEF IInv
  <2>2. ASSUME IInv, UNCHANGED vars PROVE IInv'
    BY Zenon, <2>2 DEF IInv, TypeOK, MutexInv, LocalInv, BufferInv, FeaturesSupported,
                AnswerIsCurrent, vars
  <2>3. QED
    BY Zenon, <2>1, <2>2 DEF Next, Act
<1>2. QED
  BY Initially, <1>1, PTL DEF Spec

(* The variables of the commands keep their types.                         *)
THEOREM TypeCorrect == Spec => []TypeOK
<1>1. IInv => TypeOK
  BY Zenon DEF IInv
<1>2. QED
  BY Inductive, <1>1, PTL

(* dev->features never has a flag outside supported_features.              *)
THEOREM Supported == Spec => []FeaturesSupported
<1>1. IInv => FeaturesSupported
  BY Zenon DEF IInv
<1>2. QED
  BY Inductive, <1>1, PTL

(* What IDENTIFY and GET_FEATURES answer is what the device holds when     *)
(* they give admin_mutex back.                                             *)
THEOREM Current == Spec => []AnswerIsCurrent
<1>1. IInv => AnswerIsCurrent
  BY Zenon DEF IInv
<1>2. QED
  BY Inductive, <1>1, PTL

(* SET_FEATURES stores its argument or changes nothing.                    *)
THEOREM AllOrNothing == Spec => SetIsAllOrNothing
<1> DEFINE Claim == \A c \in Cmds :
             pc[c] # "unlock" /\ pc'[c] = "unlock" /\ cmd[c].op = "set_features" =>
               IF res'[c] = "ok" THEN features' = cmd[c].arg ELSE UNCHANGED features
<1>1. IInv /\ [Next]_vars => [Claim]_vars
  <2> SUFFICES ASSUME IInv, NEW c \in Cmds, Act(c), NEW d \in Cmds,
                      pc[d] # "unlock", pc'[d] = "unlock", cmd[d].op = "set_features"
               PROVE  IF res'[d] = "ok" THEN features' = cmd[d].arg ELSE UNCHANGED features
    BY Zenon DEF Next, Act
  <2>1. d = c /\ TypeOK /\ LocalInv
    BY Zenon, OthersKept DEF IInv
  <2>2. QED
    BY Zenon, <2>1 DEF Act, Step, Submit, Issue, Lock, Interrupted, Dispatch, CopyOut, CopyIn,
                CopyFault, Store, Unlock, CompleteAsync, Reissue, Reap, Goto, Result, TypeOK,
                LocalInv
<1>2. QED
  BY Inductive, <1>1, PTL DEF Spec, SetIsAllOrNothing
=============================================================================
