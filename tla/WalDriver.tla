----------------------------- MODULE WalDriver -----------------------------
(***************************************************************************)
(* The WAL demonstration driver (driver/wal_driver_main.c) once loaded:    *)
(* the character device /dev/rwal, whose reads return a fixed message and  *)
(* whose writes are counted, the block device /dev/wal, and the statistics *)
(* they share.  status_mutex is held over several steps, in which a call   *)
(* or a segment of a bio is counted and then its bytes are; and the        *)
(* position a read or write works on is a copy of f_pos that the kernel    *)
(* takes before the handler and stores after it, or the caller's own.      *)
(***************************************************************************)
EXTENDS Integers, Sequences, FiniteSetsExt, Functions

CONSTANTS
  Threads, Files,  \* callers, and open file descriptions of /dev/rwal
  MsgLen,          \* WAL_RESPONSE_LEN
  PageSize,        \* PAGE_SIZE, the most a write or a segment takes
  Counts,          \* lengths of the reads and writes callers ask for
  Offsets,         \* positions they seek to, or give to pread and pwrite
  Sectors,         \* WAL_BLOCK_SECTORS
  Shapes,          \* segments of a bio, in sectors
  SectorSize,      \* WAL_BLOCK_SIZE
  U32,             \* 2^32: the counters are __u32
  MaxCalls         \* bound on the calls counted

(* The lengths, in sectors, of a segment: bio_for_each_segment never hands *)
(* out more than a page.                                                   *)
Segments == {n \in 1 .. PageSize : n * SectorSize =< PageSize}

ASSUME WalAssumption ==
  /\ {MsgLen, PageSize, Sectors, SectorSize, U32} \subseteq Nat \ {0}
  /\ Counts \subseteq Nat /\ Offsets \subseteq Nat /\ MaxCalls \in Nat
  /\ Files # {}
  /\ Shapes \subseteq Seq(Segments) \ {<<>>}
  /\ {"bio", "free"} \cap Threads = {}

VARIABLES
  open,    \* files that are open
  fpos,    \* f_pos of each file
  fresh,   \* files nothing has been read from since open or lseek
  call,    \* each thread's read or write: its arguments, its position pos, which
           \* is its own or a copy of f_pos, and its result, err or the count ret;
           \* first: file was fresh at entry
  mutex,   \* status_mutex: the thread that holds it, "bio" or "free"
  status,  \* wal_global.status
  owed,    \* bytes the holder has still to add to a total, having counted the call
  bio,     \* the bio being handled: its direction, the sector reached and the
           \* segments left
  data,    \* wal_global.block_data
  wraps,   \* history: the counters that have wrapped since they were last reset
  calls    \* calls made so far

charVars == <<open, fpos, fresh, call>>
vars == <<charVars, mutex, status, owed, bio, data, wraps, calls>>

Modes == {"NORMAL", "DEBUG", "QUIET"}
CountFields == {"char_read_count", "char_write_count", "block_read_count",
                "block_write_count", "total_bytes_read", "total_bytes_written"}
NoStatus == [c \in CountFields |-> 0]
Idle == [pc |-> "idle", kind |-> "read", file |-> CHOOSE f \in Files : TRUE,
         count |-> 0, own |-> FALSE, pos |-> 0, ret |-> 0, err |-> FALSE, first |-> FALSE]
Nothing == [total |-> "none", bytes |-> 0]

Init ==
  /\ open = {}
  /\ fpos = [f \in Files |-> 0]
  /\ fresh = {}
  /\ call = [t \in Threads |-> Idle]
  /\ mutex = "free"
  /\ status = [counts |-> NoStatus, mode |-> "NORMAL"]
  /\ owed = Nothing
  /\ bio = [dir |-> "read", at |-> 0, left |-> <<>>]
  /\ data = [s \in 0 .. (Sectors - 1) |-> "zero"]
  /\ wraps = {}
  /\ calls = 0
-----------------------------------------------------------------------------
(* n is added to the counter c, a __u32.                                   *)
Bump(c, n) ==
  /\ status' = [status EXCEPT !.counts[c] = (@ + n) % U32]
  /\ wraps' = IF status.counts[c] + n >= U32 THEN wraps \cup {c} ELSE wraps

(* A call or a segment of n bytes is counted in k, and then its bytes are, *)
(* in the total c.                                                         *)
Count(k, c, n) == Bump(k, 1) /\ owed' = [total |-> c, bytes |-> n]
CountBytes == owed # Nothing /\ Bump(owed.total, owed.bytes) /\ owed' = Nothing

Counted == calls < MaxCalls /\ calls' = calls + 1

Unlocked == mutex = "free"

CharOpen(f) ==
  /\ f \notin open /\ Unlocked
  /\ open' = open \cup {f}
  /\ fpos' = [fpos EXCEPT ![f] = 0]
  /\ fresh' = fresh \cup {f}
  /\ UNCHANGED <<call, mutex, status, owed, bio, data, wraps, calls>>

(* The last reference to the file goes when no call is using it.           *)
CharRelease(f) ==
  /\ f \in open /\ \A t \in Threads : call[t].pc # "idle" => call[t].file # f
  /\ open' = open \ {f} /\ fresh' = fresh \ {f}
  /\ UNCHANGED <<fpos, call, mutex, status, owed, bio, data, wraps, calls>>

(* default_llseek takes any offset, past the message too.                  *)
CharLseek(f, o) ==
  /\ f \in open /\ fpos[f] # o
  /\ fpos' = [fpos EXCEPT ![f] = o]
  /\ fresh' = IF o = 0 THEN fresh \cup {f} ELSE fresh \ {f}
  /\ UNCHANGED <<open, call, mutex, status, owed, bio, data, wraps, calls>>

(* read(2) and write(2) take f_pos before the handler runs, pread(2) and   *)
(* pwrite(2) bring a position of their own ...                             *)
Enter(t, f, kind, n, own, pos) ==
  /\ call[t].pc = "idle" /\ f \in open
  /\ Counted
  /\ call' = [call EXCEPT ![t] = [pc |-> "handler", kind |-> kind, file |-> f, count |-> n,
                                  own |-> own, pos |-> pos, ret |-> 0, err |-> FALSE,
                                  first |-> ~own /\ f \in fresh]]
  /\ UNCHANGED <<open, fpos, fresh, mutex, status, owed, bio, data, wraps>>

(* ... and f_pos is stored afterwards, unless the handler failed.          *)
Leave(t) ==
  /\ call[t].pc = "return"
  /\ fpos' = IF call[t].err \/ call[t].own THEN fpos
             ELSE [fpos EXCEPT ![call[t].file] = call[t].pos]
  /\ fresh' = IF call[t].kind = "read" /\ ~call[t].own THEN fresh \ {call[t].file} ELSE fresh
  /\ call' = [call EXCEPT ![t] = Idle]
  /\ UNCHANGED <<open, mutex, status, owed, bio, data, wraps, calls>>

(* n bytes are copied, and the call is counted in k.                       *)
Transfer(t, n, k, c) ==
  /\ call' = [call EXCEPT ![t].pc = "counted", ![t].ret = n, ![t].pos = @ + n]
  /\ Count(k, c, n)
  /\ mutex' = t

(* Mutant: CharRead without the test for the end: the difference is        *)
(* unsigned.                                                               *)
CharReadNoEof(t) ==
  /\ call[t].pc = "handler" /\ call[t].kind = "read" /\ Unlocked
  /\ Transfer(t, Min({call[t].count, (MsgLen - call[t].pos) % U32}),
              "char_read_count", "total_bytes_read")
  /\ UNCHANGED <<open, fpos, fresh, bio, data, calls>>

(* wal_char_read: the end of the message is the end of the file.           *)
CharRead(t) ==
  /\ call[t].pc = "handler" /\ call[t].kind = "read" /\ Unlocked
  /\ IF call[t].pos >= MsgLen
     THEN /\ call' = [call EXCEPT ![t].pc = "return"]
          /\ UNCHANGED <<mutex, status, owed, wraps>>
     ELSE Transfer(t, Min({call[t].count, MsgLen - call[t].pos}),
                   "char_read_count", "total_bytes_read")
  /\ UNCHANGED <<open, fpos, fresh, bio, data, calls>>

(* wal_char_write.                                                         *)
CharWrite(t) ==
  /\ call[t].pc = "handler" /\ call[t].kind = "write" /\ Unlocked
  /\ Transfer(t, Min({call[t].count, PageSize}), "char_write_count", "total_bytes_written")
  /\ UNCHANGED <<open, fpos, fresh, bio, data, calls>>

(* The end of either: the bytes are counted and the mutex is released.     *)
CharBytes(t) ==
  /\ mutex = t /\ CountBytes
  /\ mutex' = "free"
  /\ call' = [call EXCEPT ![t].pc = "return"]
  /\ UNCHANGED <<open, fpos, fresh, bio, data, calls>>

(* copy_to_user or copy_from_user faults, or kzalloc fails: nothing is     *)
(* counted and the position stays.                                         *)
CharFault(t) ==
  /\ call[t].pc = "handler" /\ Unlocked
  /\ call[t].kind = "read" => call[t].pos < MsgLen
  /\ call' = [call EXCEPT ![t].pc = "return", ![t].err = TRUE]
  /\ UNCHANGED <<open, fpos, fresh, mutex, status, owed, bio, data, wraps, calls>>

(* Mutant: Reset without taking the mutex.                                 *)
ResetUnlocked ==
  /\ Counted
  /\ status' = [counts |-> NoStatus, mode |-> "NORMAL"]
  /\ wraps' = {}
  /\ UNCHANGED <<charVars, mutex, owed, bio, data>>

(* wal_char_ioctl and its in-kernel twins.                                 *)
Reset ==
  /\ Counted /\ Unlocked
  /\ status' = [counts |-> NoStatus, mode |-> "NORMAL"]
  /\ wraps' = {}
  /\ UNCHANGED <<charVars, mutex, owed, bio, data>>

(* Mutant: SetMode without the range check.                                *)
SetModeUnchecked(m) ==
  /\ Counted /\ Unlocked
  /\ status' = [status EXCEPT !.mode = m]
  /\ UNCHANGED <<charVars, mutex, owed, bio, data, wraps>>

SetMode(m) ==
  /\ Counted /\ Unlocked
  /\ IF m \in Modes THEN status' = [status EXCEPT !.mode = m] ELSE UNCHANGED status
  /\ UNCHANGED <<charVars, mutex, owed, bio, data, wraps>>

(* wal_block_submit_bio takes the mutex; the block layer has checked that  *)
(* the bio lies in the disk ...                                            *)
SubmitBio(dir, s, segs) ==
  /\ Counted /\ Unlocked
  /\ s + SumFunction(segs) =< Sectors
  /\ mutex' = "bio"
  /\ bio' = [dir |-> dir, at |-> s, left |-> segs]
  /\ UNCHANGED <<charVars, status, owed, data, wraps>>

(* ... handles each segment by itself, a read returning the message and    *)
(* leaving it in the storage, and counts it ...                            *)
BioSegment ==
  /\ mutex = "bio" /\ bio.left # <<>> /\ owed = Nothing
  /\ LET len == Head(bio.left) IN
       /\ IF bio.dir = "read"
          THEN Count("block_read_count", "total_bytes_read", len * SectorSize)
          ELSE Count("block_write_count", "total_bytes_written", len * SectorSize)
       /\ data' = IF bio.at + len =< Sectors
                  THEN [x \in DOMAIN data |->
                          IF bio.at =< x /\ x < bio.at + len
                          THEN IF bio.dir = "read" THEN "message" ELSE "written"
                          ELSE data[x]]
                  ELSE data
  /\ UNCHANGED <<charVars, mutex, bio, calls>>

(* ... and its bytes.                                                      *)
BioBytes ==
  /\ mutex = "bio" /\ CountBytes
  /\ bio' = [bio EXCEPT !.at = @ + Head(bio.left), !.left = Tail(@)]
  /\ UNCHANGED <<charVars, mutex, data, calls>>

(* The mutex is released after the last.                                   *)
BioEnd ==
  /\ mutex = "bio" /\ bio.left = <<>>
  /\ mutex' = "free"
  /\ UNCHANGED <<charVars, status, owed, bio, data, wraps, calls>>

Next ==
  \/ \E f \in Files : CharOpen(f) \/ CharRelease(f) \/ \E o \in Offsets : CharLseek(f, o)
  \/ \E t \in Threads :
       \/ \E f \in Files, kind \in {"read", "write"}, n \in Counts :
            \/ Enter(t, f, kind, n, FALSE, fpos[f])
            \/ \E o \in Offsets : Enter(t, f, kind, n, TRUE, o)
       \/ CharRead(t) \/ CharWrite(t) \/ CharBytes(t) \/ CharFault(t) \/ Leave(t)
  \/ Reset
  \/ \E m \in Modes \cup {"other"} : SetMode(m)
  \/ \E dir \in {"read", "write"}, s \in 0 .. (Sectors - 1), segs \in Shapes :
       SubmitBio(dir, s, segs)
  \/ BioSegment \/ BioBytes \/ BioEnd

Spec == Init /\ [][Next]_vars
-----------------------------------------------------------------------------
Totals == {"total_bytes_read", "total_bytes_written"}
Calls == [pc : {"idle", "handler", "counted", "return"}, kind : {"read", "write"}, file : Files,
          count : Counts \cup {0}, own : BOOLEAN, pos : Nat, ret : Nat, err : BOOLEAN,
          first : BOOLEAN]

(* The values the variables take.                                          *)
TypeOK ==
  /\ open \subseteq Files /\ fresh \subseteq open
  /\ fpos \in [Files -> Nat]
  /\ call \in [Threads -> Calls]
  /\ status \in [counts : [CountFields -> 0 .. (U32 - 1)], mode : Modes]
  /\ mutex \in Threads \cup {"bio", "free"}
  /\ owed \in [total : Totals, bytes : Nat] \cup {Nothing}
  /\ bio \in [dir : {"read", "write"}, at : Nat, left : Seq(Segments)]
  /\ data \in [0 .. (Sectors - 1) -> {"zero", "message", "written"}]
  /\ wraps \subseteq CountFields
  /\ calls \in 0 .. MaxCalls

(* The bytes counted in total, with extra more, for the calls counted in  *)
(* chars, which move at most most bytes each, and the segments counted in  *)
(* blocks.                                                                 *)
BytesOf(total, extra, chars, blocks, most) ==
  LET c == status.counts IN
  /\ {chars, blocks} \cap wraps = {} =>
       c[total] + extra =< c[chars] * most + c[blocks] * PageSize
  /\ total \notin wraps => c[total] + extra >= c[blocks] * SectorSize

(* The bytes reported are those of the calls reported: whoever can take    *)
(* status_mutex to report or reset the counters finds no call or segment   *)
(* counted without its bytes and no bytes without it, at whatever point of *)
(* the calls of either device it asks for the mutex.  A total that has     *)
(* wrapped is only too small, and so is a count.                           *)
BytesBelongToCalls ==
  Unlocked =>
    /\ BytesOf("total_bytes_read", 0, "char_read_count", "block_read_count", MsgLen)
    /\ BytesOf("total_bytes_written", 0, "char_write_count", "block_write_count", PageSize)

(* Every byte a read returns is a byte of the message, although a write, a *)
(* seek or the caller of pread may have put the position past the end of   *)
(* the message and WAL_RESPONSE_LEN - *pos is unsigned.                    *)
ReadStaysInMessage ==
  \A t \in Threads :
    call[t].pc \in {"counted", "return"} /\ call[t].kind = "read" /\ call[t].ret > 0
      => call[t].pos =< MsgLen

(* The first read of at least a byte from a file just opened or rewound    *)
(* returns some of the message: "Returns "Hello from WAL\n"".              *)
FirstReadReturnsMessage ==
  \A t \in Threads :
    /\ call[t].pc = "return" /\ call[t].kind = "read" /\ call[t].first
    /\ call[t].count > 0 /\ ~call[t].err
    => call[t].ret > 0
=============================================================================
