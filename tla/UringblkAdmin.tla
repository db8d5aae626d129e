--------------------------- MODULE UringblkAdmin ---------------------------
(***************************************************************************)
(* The administration channel of the uringblk driver: uringblk_uring_cmd   *)
(* and the command handlers of driver/uringblk_main.c, called by io_uring. *)
(* io_uring first issues a command without permission to sleep; when the   *)
(* driver answers -EAGAIN it issues it again from a worker that may.       *)
(* Commands of one device are serialised by admin_mutex, and answered      *)
(* later, by task work.  A command's handler copies to or from user space, *)
(* which can fault and take any time.                                      *)
(***************************************************************************)
EXTENDS Naturals, FiniteSets

CONSTANTS
  Cmds,         \* commands that can be in flight at a time
  Known,        \* feature flags SET_FEATURES accepts: supported_features
  Unknown,      \* other bits of the feature word
  Inputs,       \* commands applications send
  NULL

ASSUME FlagsAssumption == Known \cap Unknown = {} /\ NULL \notin Cmds

VARIABLES
  features,     \* dev->features
  mutex,        \* the command that holds admin_mutex, or NULL
  pc,           \* where a command has got to
  cmd,          \* operation, argument and whether its length is acceptable
  nonblock,     \* IO_URING_F_NONBLOCK of the current issue
  local,        \* the handler's local copy: id.features_bitmap or features
  out,          \* the feature word in the user's buffer, or NULL
  res           \* the result io_uring is given

vars == <<features, mutex, pc, cmd, nonblock, local, out, res>>

Words == SUBSET (Known \cup Unknown)
OpsWithFeatures == {"identify", "get_features"}
OpsWithout == {"get_limits", "get_geometry", "get_stats"}
Opcodes == OpsWithFeatures \cup OpsWithout \cup {"set_features", "other"}
Lengths == {"short", "fits", "long"}   \* long: above 4096
Errors == {"EINVAL", "EAGAIN", "ERESTARTSYS", "EFAULT", "EOPNOTSUPP"}
Pcs == {"idle", "issued", "lock", "dispatch", "copy", "store", "unlock", "taskwork",
        "done"}
Commands == [op : Opcodes, arg : Words, len : Lengths]
Blank == [op |-> "other", arg |-> {}, len |-> "fits"]

ASSUME InputsAssumption == Inputs \subseteq Commands

TypeOK ==
  /\ features \in Words
  /\ mutex \in Cmds \cup {NULL}
  /\ pc \in [Cmds -> Pcs]
  /\ cmd \in [Cmds -> Commands]
  /\ nonblock \in [Cmds -> BOOLEAN]
  /\ local \in [Cmds -> Words]
  /\ out \in [Cmds -> Words \cup {NULL}]
  /\ res \in [Cmds -> Errors \cup {"ok", NULL}]

(* The features uringblk_init_device derives from the module parameters.   *)
Init ==
  /\ features \in SUBSET Known
  /\ mutex = NULL
  /\ pc = [c \in Cmds |-> "idle"]
  /\ cmd = [c \in Cmds |-> Blank]
  /\ nonblock = [c \in Cmds |-> TRUE]
  /\ local = [c \in Cmds |-> {}]
  /\ out = [c \in Cmds |-> NULL]
  /\ res = [c \in Cmds |-> NULL]
-----------------------------------------------------------------------------
Goto(c, l) == pc' = [pc EXCEPT ![c] = l]
Result(c, e) == res' = [res EXCEPT ![c] = e]

(* io_uring issues a command the application submitted.                    *)
Submit(c, q) ==
  /\ pc[c] = "idle"
  /\ Goto(c, "issued")
  /\ cmd' = [cmd EXCEPT ![c] = q]
  /\ UNCHANGED <<features, mutex, nonblock, local, out, res>>

(* uringblk_uring_cmd up to the mutex: the length, and for an issue that   *)
(* must not sleep a look at the mutex.                                     *)
Issue(c) ==
  /\ pc[c] = "issued"
  /\ LET refused == IF cmd[c].len = "long" THEN "EINVAL"
                    ELSE IF nonblock[c] /\ mutex # NULL THEN "EAGAIN" ELSE NULL IN
       /\ Goto(c, IF refused = NULL THEN "lock" ELSE "done")
       /\ Result(c, refused)
  /\ UNCHANGED <<features, mutex, cmd, nonblock, local, out>>

(* Mutant: Lock without waiting.                                           *)
LockIgnored(c) ==
  /\ pc[c] = "lock"
  /\ mutex' = c
  /\ Goto(c, "dispatch")
  /\ UNCHANGED <<features, cmd, nonblock, local, out, res>>

(* mutex_lock_interruptible.                                               *)
Lock(c) ==
  /\ pc[c] = "lock" /\ mutex = NULL
  /\ mutex' = c
  /\ Goto(c, "dispatch")
  /\ UNCHANGED <<features, cmd, nonblock, local, out, res>>

(* Mutant: Interrupted with a result io_uring does not restart.            *)
InterruptedEintr(c) ==
  /\ pc[c] = "lock" /\ mutex # NULL
  /\ Goto(c, "done") /\ Result(c, "EINTR")
  /\ UNCHANGED <<features, mutex, cmd, nonblock, local, out>>

(* A signal arrives while the command sleeps on the mutex.                 *)
Interrupted(c) ==
  /\ pc[c] = "lock" /\ mutex # NULL
  /\ Goto(c, "done") /\ Result(c, "ERESTARTSYS")
  /\ UNCHANGED <<features, mutex, cmd, nonblock, local, out>>

(* The switch, and the handlers up to their copy to or from user space.    *)
Dispatch(c) ==
  /\ pc[c] = "dispatch"
  /\ LET refused == IF cmd[c].op = "other" THEN "EOPNOTSUPP"
                    ELSE IF cmd[c].len = "short" THEN "EINVAL" ELSE NULL IN
       /\ Goto(c, IF refused = NULL THEN "copy" ELSE "unlock")
       /\ Result(c, refused)
       /\ local' = IF refused = NULL /\ cmd[c].op = "identify"
                   THEN [local EXCEPT ![c] = features] ELSE local
  /\ UNCHANGED <<features, mutex, cmd, nonblock, out>>

(* copy_to_user: IDENTIFY sends its local copy, GET_FEATURES dev->features *)
(* itself, the others nothing of the features.                             *)
CopyOut(c) ==
  /\ pc[c] = "copy" /\ cmd[c].op # "set_features"
  /\ out' = [out EXCEPT ![c] = CASE cmd[c].op = "identify" -> local[c]
                                 [] cmd[c].op = "get_features" -> features
                                 [] OTHER -> @]
  /\ Goto(c, "unlock") /\ Result(c, "ok")
  /\ UNCHANGED <<features, mutex, cmd, nonblock, local>>

(* Mutant: CopyIn without the check against supported_features.            *)
CopyInUnchecked(c) ==
  /\ pc[c] = "copy" /\ cmd[c].op = "set_features"
  /\ local' = [local EXCEPT ![c] = cmd[c].arg]
  /\ Goto(c, "store")
  /\ UNCHANGED <<features, mutex, cmd, nonblock, out, res>>

(* copy_from_user of SET_FEATURES, and the check of the word.              *)
CopyIn(c) ==
  /\ pc[c] = "copy" /\ cmd[c].op = "set_features"
  /\ local' = [local EXCEPT ![c] = cmd[c].arg]
  /\ IF cmd[c].arg \subseteq Known
     THEN Goto(c, "store") /\ UNCHANGED res
     ELSE Goto(c, "unlock") /\ Result(c, "EINVAL")
  /\ UNCHANGED <<features, mutex, cmd, nonblock, out>>

CopyFault(c) ==
  /\ pc[c] = "copy"
  /\ Goto(c, "unlock") /\ Result(c, "EFAULT")
  /\ UNCHANGED <<features, mutex, cmd, nonblock, local, out>>

(* Mutant: Store with |= for the assignment.                               *)
StoreAdds(c) ==
  /\ pc[c] = "store"
  /\ features' = features \cup local[c]
  /\ Goto(c, "unlock") /\ Result(c, "ok")
  /\ UNCHANGED <<mutex, cmd, nonblock, local, out>>

Store(c) ==
  /\ pc[c] = "store"
  /\ features' = local[c]
  /\ Goto(c, "unlock") /\ Result(c, "ok")
  /\ UNCHANGED <<mutex, cmd, nonblock, local, out>>

(* Mutant: Unlock without mutex_unlock.                                    *)
UnlockKeeps(c) ==
  /\ pc[c] = "unlock"
  /\ Goto(c, "taskwork")
  /\ UNCHANGED <<features, mutex, cmd, nonblock, local, out, res>>

(* mutex_unlock, and the completion handed to task work.                   *)
Unlock(c) ==
  /\ pc[c] = "unlock"
  /\ mutex' = NULL
  /\ Goto(c, "taskwork")
  /\ UNCHANGED <<features, cmd, nonblock, local, out, res>>

(* uringblk_uring_cmd_complete_async.                                      *)
CompleteAsync(c) ==
  /\ pc[c] = "taskwork"
  /\ Goto(c, "done")
  /\ UNCHANGED <<features, mutex, cmd, nonblock, local, out, res>>

(* io_uring: -EAGAIN is issued again where sleeping is allowed.            *)
Reissue(c) ==
  /\ pc[c] = "done" /\ res[c] = "EAGAIN"
  /\ Goto(c, "issued") /\ Result(c, NULL)
  /\ nonblock' = [nonblock EXCEPT ![c] = FALSE]
  /\ UNCHANGED <<features, mutex, cmd, local, out>>

(* Any other result is what the application gets.                          *)
Reap(c) ==
  /\ pc[c] = "done" /\ res[c] # "EAGAIN"
  /\ Goto(c, "idle") /\ Result(c, NULL)
  /\ cmd' = [cmd EXCEPT ![c] = Blank]
  /\ nonblock' = [nonblock EXCEPT ![c] = TRUE]
  /\ local' = [local EXCEPT ![c] = {}] /\ out' = [out EXCEPT ![c] = NULL]
  /\ UNCHANGED <<features, mutex>>

Step(c) ==
  \/ Issue(c) \/ Lock(c) \/ Dispatch(c) \/ CopyOut(c) \/ CopyIn(c) \/ CopyFault(c)
  \/ Store(c) \/ Unlock(c) \/ CompleteAsync(c) \/ Reissue(c)

Next ==
  \E c \in Cmds :
    \/ \E q \in Inputs : Submit(c, q)
    \/ Step(c) \/ Interrupted(c) \/ Reap(c)

Spec == Init /\ [][Next]_vars

(* Commands that can run do, and the kernel's mutex, which hands over to   *)
(* its waiters, starves none of them.                                      *)
FairSpec == Spec /\ \A c \in Cmds : WF_vars(Step(c)) /\ SF_vars(Lock(c))
-----------------------------------------------------------------------------
(* The device never holds a feature flag outside supported_features,       *)
(* whatever SET_FEATURES commands were sent.                               *)
FeaturesSupported == features \subseteq Known

(* What IDENTIFY and GET_FEATURES put in the user's buffer is still what   *)
(* the device holds when the command gives the mutex back: no SET_FEATURES *)
(* gets between the reading, the copy and the end of the command.          *)
AnswerIsCurrent ==
  \A c \in Cmds : pc[c] = "unlock" /\ out[c] # NULL => out[c] = features

(* A SET_FEATURES answered with an error has not changed the features, and *)
(* one answered "ok" has set exactly its argument.                         *)
SetIsAllOrNothing ==
  [][\A c \in Cmds :
       pc[c] # "unlock" /\ pc'[c] = "unlock" /\ cmd[c].op = "set_features" =>
         IF res'[c] = "ok" THEN features' = cmd[c].arg ELSE UNCHANGED features]_vars

(* Every command that was issued is answered, with something other than a  *)
(* request to try again.                                                   *)
EveryCommandAnswered ==
  \A c \in Cmds : pc[c] = "issued" ~> (pc[c] = "done" /\ res[c] # "EAGAIN")

(* A command issued without permission to sleep never waits for the mutex. *)
NonblockNeverSleeps ==
  \A c \in Cmds : ~(pc[c] = "lock" /\ nonblock[c] /\ mutex # NULL)
=============================================================================
