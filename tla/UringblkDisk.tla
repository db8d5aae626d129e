---------------------------- MODULE UringblkDisk ----------------------------
(***************************************************************************)
(* What a block device promises.  A request that is answered "ok" has had  *)
(* its effect on every sector it names, each at some moment between the    *)
(* time it was taken and the time it was answered; a request that is       *)
(* answered "ioerr" has had it on some of them.  Each request is answered  *)
(* once.  A discard may or may not clear what it names, and a read that    *)
(* failed may have left its buffer as it was.                              *)
(***************************************************************************)
EXTENDS Integers

CONSTANTS
  Rqs,      \* requests that can be outstanding at a time
  Sectors,  \* sectors of the disk
  Vals,     \* contents of a sector
  Zero,     \* contents of a sector never written
  MaxLen    \* most sectors in a request

VARIABLES
  disk,     \* contents of the sectors
  state,    \* "free", "active", "ok" or "ioerr"
  req,      \* operation, first sector, number of sectors and data
  moved,    \* offsets at which a request has had its effect
  got       \* what a read has found

vars == <<disk, state, req, moved, got>>

Offsets == 0 .. (MaxLen - 1)
Nothing == [o \in Offsets |-> Zero]

Requests ==
  [op : {"read", "write", "flush", "discard", "drv", "zeroes"}, sector : Sectors \cup {-1},
   len : 0 .. MaxLen, data : Vals]

Blank == [op |-> "flush", sector |-> 0, len |-> 0, data |-> Zero]

Init ==
  /\ disk = [s \in Sectors |-> Zero]
  /\ state = [r \in Rqs |-> "free"]
  /\ req = [r \in Rqs |-> Blank]
  /\ moved = [r \in Rqs |-> {}]
  /\ got = [r \in Rqs |-> Nothing]

Take(r) ==
  /\ state[r] = "free"
  /\ state' = [state EXCEPT ![r] = "active"]
  /\ req'[r] \in Requests
  /\ req' = [req EXCEPT ![r] = req'[r]]
  /\ UNCHANGED <<disk, moved, got>>

(* The request has its effect at offsets where it had none.                *)
Move(r) ==
  /\ state[r] = "active"
  /\ moved[r] \subseteq moved'[r] /\ moved'[r] \subseteq 0 .. (req[r].len - 1)
  /\ moved' = [moved EXCEPT ![r] = moved'[r]]
  /\ LET first == req[r].sector
         O == moved'[r] \ moved[r]
         Hit == {first + o : o \in O} IN
       /\ disk' = CASE req[r].op = "write" ->
                         [s \in Sectors |-> IF s \in Hit THEN req[r].data ELSE disk[s]]
                    [] req[r].op = "discard" ->
                         [s \in Sectors |-> IF s \in Hit THEN Zero ELSE disk[s]]
                    [] OTHER -> disk
       /\ got' = [got EXCEPT ![r] =
                    IF req[r].op = "read"
                    THEN [o \in Offsets |-> IF o \in O THEN disk[first + o] ELSE @[o]]
                    ELSE @]
  /\ UNCHANGED <<state, req>>

Answer(r, s) ==
  /\ state[r] = "active"
  /\ s = "ok" /\ req[r].op \in {"read", "write"}
       => moved[r] = 0 .. (req[r].len - 1)
  /\ state' = [state EXCEPT ![r] = s]
  /\ \/ UNCHANGED got
     \/ s = "ioerr" /\ got' = [got EXCEPT ![r] = Nothing]
  /\ UNCHANGED <<disk, req, moved>>

Reuse(r) ==
  /\ state[r] \in {"ok", "ioerr"}
  /\ state' = [state EXCEPT ![r] = "free"]
  /\ req' = [req EXCEPT ![r] = Blank]
  /\ moved' = [moved EXCEPT ![r] = {}]
  /\ got' = [got EXCEPT ![r] = Nothing]
  /\ UNCHANGED disk

Next ==
  \E r \in Rqs :
    \/ Take(r)
    \/ Move(r)
    \/ \E s \in {"ok", "ioerr"} : Answer(r, s)
    \/ Reuse(r)

Spec == Init /\ [][Next]_vars
=============================================================================
