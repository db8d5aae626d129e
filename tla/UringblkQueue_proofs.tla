------------------------ MODULE UringblkQueue_proofs ------------------------
(***************************************************************************)
(* Proofs about the uringblk data path, for any number of requests, any    *)
(* capacity, block size and page size, and any data; and that it is a disk *)
(* (UringblkDisk) where requests are whole.                                *)
(***************************************************************************)
EXTENDS UringblkQueue, TLAPS

Requests ==
  [op : AllOps, sector : Int, len : 0 .. MaxLen, segs : Shapes \cup {<<>>}, data : Vals]

(* The types, with those of the requests as a whole.                       *)
Types ==
  /\ backend \in Backends
  /\ store \in [Addresses -> Vals]
  /\ pc \in [Rqs -> Pcs]
  /\ rq \in [Rqs -> Requests]
  /\ pos \in [Rqs -> Int]
  /\ moved \in [Rqs -> Nat]
  /\ buf \in [Rqs -> [Offsets -> Vals]] /\ page \in [Rqs -> [Offsets -> Vals]]
  /\ status \in [Rqs -> {"ok", "ioerr", "notsupp"}]
  /\ submitted \in 0 .. MaxRequests

(* What the block layer guarantees of a request it has issued.             *)
Issued(r) ==
  /\ IF rq[r].op \in {"flush", "drv"}
     THEN rq[r].sector = -1 /\ rq[r].len = 0
     ELSE /\ rq[r].sector \in Nat /\ rq[r].len > 0
          /\ rq[r].sector + rq[r].len =< DiskSectors
  /\ IF rq[r].op \in {"read", "write"}
     THEN rq[r].segs \in Shapes /\ rq[r].len = LenOf(rq[r].segs)
     ELSE rq[r].segs = <<>>

(* A request being served passed the bounds check and has been transferred *)
(* no further than it is long.                                             *)
Serving(r) ==
  /\ pc[r] # "free" => Issued(r)
  /\ pc[r] \in {"counting", "counted", "dispatch", "alloc_page", "add_page", "memcpy", "bio"} =>
       pos[r] = rq[r].sector * LBS /\ pos[r] + Len512(r) =< CapS
  /\ pc[r] \in {"free", "queued", "counting", "counted", "dispatch", "alloc_page", "add_page"}
       => moved[r] = 0
  /\ moved[r] =< Len512(r)
  /\ pc[r] \in {"dispatch", "memcpy"} => rq[r].op \notin {"drv", "zeroes"}
  /\ pc[r] \in CtxPcs => rq[r].op \in {"read", "write"}

(* Who has a context in hand, one by one.                                  *)
CtxInv ==
  /\ ctx \in [Rqs -> Ctxs \cup {NULL}]
  /\ heap \subseteq Ctxs /\ done \subseteq heap
  /\ \A r \in Rqs : ctx[r] # NULL <=> pc[r] \in CtxPcs
  /\ \A q, r \in Rqs : ctx[q] = ctx[r] /\ ctx[q] # NULL => q = r
  /\ \A r \in Rqs : ctx[r] # NULL => ctx[r] \in heap \ done
  /\ \A c \in heap \ done : \E r \in Rqs : ctx[r] = c
  /\ \A r \in Rqs : pc[r] \in PagePcs => ctx[r] \in pages
  /\ \A c \in pages : \E r \in Rqs : ctx[r] = c /\ pc[r] \in PagePcs

(* What StatsTogether says of counters f.                                  *)
Agree(f) ==
  /\ f.read_ops =< f.read_sectors /\ f.read_sectors =< f.read_ops * MaxLen
  /\ f.write_ops =< f.write_sectors /\ f.write_sectors =< f.write_ops * MaxLen

(* The counters agree, or will when the handler that has the lock is done. *)
StatsInv ==
  /\ stats \in [Counters -> Nat] /\ stats_lock \in Rqs \cup {NULL}
  /\ stats_lock = NULL => Agree(stats)
  /\ \A r \in Rqs : pc[r] = "counted" <=> stats_lock = r
  /\ \A r \in Rqs : stats_lock = r => Agree(SectorsCounted(r))

IInv == Types /\ (\A r \in Rqs : Serving(r)) /\ CtxInv /\ StatsInv
-----------------------------------------------------------------------------
LEMMA MinOfTwo ==
  ASSUME NEW a \in Int, NEW b \in Int
  PROVE  Min({a, b}) \in {a, b} /\ Min({a, b}) =< a /\ Min({a, b}) =< b
<1>1. \E x \in {a, b} : \A y \in {a, b} : x =< y
  BY SMT
<1>2. QED
  BY <1>1, Zenon DEF Min

LEMMA MinOfThree ==
  ASSUME NEW a \in Int, NEW b \in Int, NEW c \in Int
  PROVE  /\ Min({a, b, c}) \in {a, b, c}
         /\ Min({a, b, c}) =< a /\ Min({a, b, c}) =< b /\ Min({a, b, c}) =< c
<1>1. \E x \in {a, b, c} : \A y \in {a, b, c} : x =< y
  BY SMT
<1>2. QED
  BY <1>1, Zenon DEF Min

(* The length of a request is a number of sectors up to MaxLen, and at     *)
(* least that of its first segment.                                        *)
LEMMA Lengths ==
  ASSUME Types, NEW r \in Rqs
  PROVE  /\ Len512(r) \in 0 .. MaxLen /\ MaxLen \in Nat
         /\ rq[r].segs \in Shapes /\ rq[r].len = LenOf(rq[r].segs)
              => Head(rq[r].segs) \in 1 .. Len512(r)
<1>1. rq[r].len \in 0 .. MaxLen /\ MaxLen \in Nat
  BY Zenon, LengthsAssumption DEF Types, Requests
<1>2. ASSUME rq[r].segs \in Shapes, rq[r].len = LenOf(rq[r].segs)
      PROVE  Head(rq[r].segs) \in 1 .. Len512(r)
  <2>1. Head(rq[r].segs) \in Nat \ {0}
    BY <1>2, ShapesAssumption
  <2>2. LenOf(rq[r].segs) \in Head(rq[r].segs) .. MaxLen
    BY Zenon, <1>2, LengthsAssumption
  <2>3. QED
    BY <1>1, <1>2, <2>1, <2>2 DEF Len512
<1>3. QED
  BY Zenon, <1>1, <1>2 DEF Len512

(* A request with a context has segments.                                  *)
LEMMA HasSegments ==
  ASSUME NEW r \in Rqs, Serving(r), pc[r] # "free", rq[r].op \in {"read", "write"}
  PROVE  rq[r].segs \in Shapes /\ rq[r].segs # <<>> /\ rq[r].len = LenOf(rq[r].segs)
BY Zenon, ShapesAssumption DEF Serving, Issued

LEMMA Initially == Init => IInv
<1> SUFFICES ASSUME Init PROVE IInv
  BY Zenon
<1>1. Types
  BY BackendAssumption, CapAssumption, LengthsAssumption
  DEF Init, Types, Pcs, Requests, Blank, AllOps, Nothing
<1>2. \A r \in Rqs : Serving(r)
  BY DEF Init, Serving, Len512, Blank, CtxPcs, PagePcs
<1>3. CtxInv
  BY Zenon DEF Init, CtxInv, CtxPcs, PagePcs
<1>4. StatsInv
  <2>1. stats = NoStats /\ stats_lock = NULL /\ \A r \in Rqs : pc[r] = "free"
    BY Zenon DEF Init
  <2>2. stats \in [Counters -> Nat] /\ Agree(stats)
    BY <2>1, LengthsAssumption DEF NoStats, Counters, Agree
  <2>3. QED
    BY Zenon, <2>1, <2>2, NullAssumption DEF StatsInv
<1>5. QED
  BY Zenon, <1>1, <1>2, <1>3, <1>4 DEF IInv

(* One sector of one request's memory is written.                          *)
LEMMA Poke ==
  ASSUME NEW mem \in [Rqs -> [Offsets -> Vals]], NEW r \in Rqs, NEW o \in Offsets, NEW v \in Vals,
         NEW new, new = [mem EXCEPT ![r][o] = v]
  PROVE  /\ new \in [Rqs -> [Offsets -> Vals]]
         /\ new[r] = [mem[r] EXCEPT ![o] = v]
         /\ \A q \in Rqs \ {r} : new[q] = mem[q]
<1>1. [mem[r] EXCEPT ![o] = v] \in [Offsets -> Vals]
  BY Zenon
<1>2. new = [mem EXCEPT ![r] = [mem[r] EXCEPT ![o] = v]]
  BY Zenon
<1>3. QED
  BY Zenon, <1>1, <1>2
-----------------------------------------------------------------------------
(* A step that does not count.                                             *)
LEMMA StatsKept ==
  ASSUME StatsInv, UNCHANGED <<stats, stats_lock>>,
         \A x \in Rqs : /\ pc'[x] = "counted" <=> pc[x] = "counted"
                        /\ pc[x] = "counted" => rq'[x] = rq[x]
  PROVE  StatsInv'
<1>1. \A x \in Rqs : stats_lock = x => SectorsCounted(x)' = SectorsCounted(x)
  BY Zenon DEF StatsInv, SectorsCounted, Len512
<1>2. QED
  BY Zenon, <1>1 DEF StatsInv, Agree

(* A step that no context takes part in.                                   *)
LEMMA CtxKept ==
  ASSUME CtxInv, UNCHANGED <<ctx, heap, pages, done>>,
         \A x \in Rqs : /\ pc'[x] \in CtxPcs <=> pc[x] \in CtxPcs
                        /\ pc'[x] \in PagePcs <=> pc[x] \in PagePcs
  PROVE  CtxInv'
BY Zenon DEF CtxInv

(* A step of one request leaves the others served as they were.            *)
LEMMA OthersKept ==
  ASSUME IInv, NEW r \in Rqs,
         \A x \in Rqs \ {r} : /\ pc'[x] = pc[x] /\ rq'[x] = rq[x] /\ pos'[x] = pos[x]
                              /\ moved'[x] = moved[x]
  PROVE  \A x \in Rqs \ {r} : Serving(x)'
BY DEF IInv, Serving, Issued, Len512

(* Going on with a request that keeps its place.                           *)
LEMMA GotoKept ==
  ASSUME IInv, NEW r \in Rqs, NEW l \in Pcs, Goto(r, l)
  PROVE  /\ pc' \in [Rqs -> Pcs] /\ pc'[r] = l
         /\ \A x \in Rqs \ {r} : pc'[x] = pc[x]
BY Zenon DEF Goto, IInv, Types

(* What is left of a request that has ended is no longer restricted.       *)
LEMMA EndKept ==
  ASSUME IInv, NEW r \in Rqs, NEW s \in {"ok", "ioerr", "notsupp"}, End(r, s), pc[r] # "free",
         rq' = rq, moved' = moved, \A x \in Rqs \ {r} : pos'[x] = pos[x]
  PROVE  /\ pc' \in [Rqs -> Pcs] /\ status' \in [Rqs -> {"ok", "ioerr", "notsupp"}]
         /\ pc'[r] = "ended" /\ \A x \in Rqs \ {r} : pc'[x] = pc[x]
         /\ \A x \in Rqs : Serving(x)'
<1>1. /\ pc'[r] = "ended" /\ \A x \in Rqs \ {r} : pc'[x] = pc[x]
      /\ pc' \in [Rqs -> Pcs] /\ status' \in [Rqs -> {"ok", "ioerr", "notsupp"}]
  BY Zenon DEF End, Goto, IInv, Types, Pcs
<1>2. \A x \in Rqs \ {r} : Serving(x)'
  BY Zenon, <1>1, OthersKept
<1>3. Serving(r)'
  BY Zenon, <1>1 DEF IInv, Serving, Issued, Len512, CtxPcs, PagePcs
<1>4. QED
  BY Zenon, <1>1, <1>2, <1>3

(* A step of a request that neither counts nor has a context.              *)
LEMMA PlainStep ==
  ASSUME IInv, NEW r \in Rqs, UNCHANGED <<ctx, heap, pages, done, stats, stats_lock>>,
         \A x \in Rqs \ {r} : pc'[x] = pc[x] /\ rq'[x] = rq[x],
         pc[r] \notin CtxPcs \cup {"counted"}, pc'[r] \notin CtxPcs \cup {"counted"}
  PROVE  CtxInv' /\ StatsInv'
<1>1. StatsInv /\ CtxInv /\ PagePcs \subseteq CtxPcs
  BY Zenon DEF IInv, CtxPcs
<1>2. \A x \in Rqs : /\ pc'[x] = "counted" <=> pc[x] = "counted"
                     /\ pc[x] = "counted" => rq'[x] = rq[x]
                     /\ pc'[x] \in CtxPcs <=> pc[x] \in CtxPcs
                     /\ pc'[x] \in PagePcs <=> pc[x] \in PagePcs
  BY Zenon, <1>1
<1>3. StatsInv'
  BY Zenon, <1>1, <1>2, StatsKept
<1>4. CtxInv'
  BY Zenon, <1>1, <1>2, CtxKept
<1>5. QED
  BY Zenon, <1>3, <1>4

(* Where a data request that is transferred reaches the medium.            *)
LEMMA InRange ==
  ASSUME IInv, NEW r \in Rqs, pc[r] \in {"memcpy", "bio"}, rq[r].op \notin {"flush", "drv"},
         moved[r] < Len512(r)
  PROVE  moved[r] \in Offsets /\ pos[r] + moved[r] \in Addresses
<1>1. /\ rq[r].sector \in Nat /\ pos[r] = rq[r].sector * LBS /\ pos[r] + Len512(r) =< CapS
      /\ moved[r] \in Nat
  BY Zenon DEF IInv, Types, Serving, Issued
<1>2. Len512(r) \in 0 .. MaxLen /\ MaxLen \in Nat /\ CapS \in Nat /\ LBS \in Nat
  BY Zenon, Lengths, CapAssumption DEF IInv
<1>3. pos[r] \in Nat
  BY <1>1, <1>2
<1>4. QED
  BY <1>1, <1>2, <1>3 DEF Offsets, Addresses

LEMMA ExtentIsLength ==
  ASSUME IInv, NEW r \in Rqs, pc[r] = "memcpy"
  PROVE  Extent(r) = Len512(r)
<1>1. pos[r] + Len512(r) =< CapS /\ pos[r] \in Int /\ Len512(r) \in Int /\ CapS \in Int
  BY Lengths, CapAssumption DEF IInv, Types, Serving
<1>2. Len512(r) =< CapS - pos[r] /\ CapS - pos[r] \in Int
  BY <1>1
<1>3. \A a, b \in Int : a =< b => Min({a, b}) = a
  BY MinOfTwo
<1>4. QED
  BY <1>1, <1>2, <1>3, Zenon DEF Extent

(* A bio is no longer than the request.                                    *)
LEMMA BioFits ==
  ASSUME IInv, NEW r \in Rqs, pc[r] \in CtxPcs
  PROVE  BioLen(r) \in Int /\ BioLen(r) =< Len512(r)
<1>1. rq[r].segs \in Shapes /\ rq[r].len = LenOf(rq[r].segs)
  BY Zenon, HasSegments DEF IInv, Serving, CtxPcs, PagePcs
<1>2. /\ Head(rq[r].segs) \in Int /\ Head(rq[r].segs) =< Len512(r)
      /\ CapS - pos[r] \in Int /\ PageS \in Int /\ Len512(r) \in Int
  BY <1>1, Lengths, CapAssumption DEF IInv, Types
<1>3. \A a, b, c \in Int : Min({a, b, c}) \in Int /\ Min({a, b, c}) =< a
  BY Zenon, MinOfThree
<1>4. BioLen(r) \in Int /\ BioLen(r) =< Head(rq[r].segs)
  BY <1>2, <1>3, Zenon DEF BioLen
<1>5. QED
  BY <1>2, <1>4
-----------------------------------------------------------------------------
(* The block layer issues a request.                                       *)
LEMMA SubmitKeeps ==
  ASSUME IInv, NEW r \in Rqs, NEW op \in AllOps, NEW s \in -1 .. (CapS - 1), NEW n \in 0 .. MaxLen,
         NEW segs \in Shapes \cup {<<>>}, NEW d \in Vals, Submit(r, op, s, n, segs, d)
  PROVE  IInv'
<1>1. /\ pc' \in [Rqs -> Pcs] /\ pc'[r] = "queued" /\ \A x \in Rqs \ {r} : pc'[x] = pc[x]
      /\ pc[r] = "free"
  BY Zenon, GotoKept DEF Submit, Pcs
<1>2. s \in Int /\ MaxRequests \in Nat
  BY CapAssumption
<1>3. /\ rq' \in [Rqs -> Requests] /\ \A x \in Rqs \ {r} : rq'[x] = rq[x]
      /\ rq'[r] = [op |-> op, sector |-> s, len |-> n, segs |-> segs, data |-> d]
  BY Zenon, <1>2 DEF Submit, IInv, Types, Requests
<1>4. submitted' \in 0 .. MaxRequests
  BY <1>2 DEF Submit, IInv, Types
<1>5. /\ UNCHANGED <<backend, store, moved, buf, page, pos, status>>
      /\ UNCHANGED <<ctx, heap, pages, done, stats, stats_lock>>
  BY Zenon DEF Submit, dataVars, ctxVars, statVars
<1>6. \A x \in Rqs \ {r} : Serving(x)'
  BY Zenon, <1>1, <1>3, <1>5, OthersKept
<1>7. Serving(r)'
  <2>1. Issued(r)'
    BY <1>2, <1>3 DEF Submit, Issued
  <2>2. moved'[r] = 0
    BY Zenon, <1>1, <1>5 DEF IInv, Serving
  <2>3. 0 =< Len512(r)'
    BY <1>3, LengthsAssumption DEF Len512
  <2>4. QED
    BY Zenon, <1>1, <2>1, <2>2, <2>3 DEF Serving, CtxPcs, PagePcs
<1>8. CtxInv' /\ StatsInv'
  BY Zenon, <1>1, <1>3, <1>5, PlainStep DEF CtxPcs, PagePcs
<1>9. QED
  BY Zenon, <1>1, <1>3, <1>4, <1>5, <1>6, <1>7, <1>8 DEF IInv, Types

(* The bounds check.                                                       *)
LEMMA StartKeeps == ASSUME IInv, NEW r \in Rqs, Start(r) PROVE IInv'
<1> DEFINE p == rq[r].sector * LBS
<1>1. /\ pc[r] = "queued" /\ pos' = [pos EXCEPT ![r] = p]
      /\ UNCHANGED <<backend, submitted, store, moved, buf, page, rq>>
      /\ UNCHANGED <<ctx, heap, pages, done, stats, stats_lock>>
  BY Zenon DEF Start, dataVars, fixed, ctxVars, statVars
<1>2. p \in Int /\ CapS \in Int /\ Len512(r) \in Int
  BY Lengths, CapAssumption DEF IInv, Types, Requests
<1>3. /\ pos' \in [Rqs -> Int] /\ pos'[r] = p /\ \A x \in Rqs \ {r} : pos'[x] = pos[x]
  BY Zenon, <1>1, <1>2 DEF IInv, Types
<1>5. CASE p >= CapS \/ p + Len512(r) > CapS
  <2>1. End(r, "ioerr")
    BY Zenon, <1>5 DEF Start
  <2>2. /\ pc' \in [Rqs -> Pcs] /\ status' \in [Rqs -> {"ok", "ioerr", "notsupp"}]
        /\ pc'[r] = "ended" /\ \A x \in Rqs \ {r} : pc'[x] = pc[x]
        /\ \A x \in Rqs : Serving(x)'
    BY Zenon, <1>1, <1>3, <2>1, EndKept
  <2>3. CtxInv' /\ StatsInv'
    BY Zenon, <1>1, <2>2, PlainStep DEF CtxPcs, PagePcs
  <2>4. QED
    BY Zenon, <1>1, <1>3, <2>2, <2>3 DEF IInv, Types
<1>6. CASE ~(p >= CapS \/ p + Len512(r) > CapS)
  <2>1. Goto(r, "counting") /\ status' = status
    BY Zenon, <1>6 DEF Start, NotEnded
  <2>2. /\ pc' \in [Rqs -> Pcs] /\ pc'[r] = "counting" /\ \A x \in Rqs \ {r} : pc'[x] = pc[x]
    BY Zenon, <2>1, GotoKept DEF Pcs
  <2>3. \A x \in Rqs \ {r} : Serving(x)'
    BY Zenon, <1>1, <1>3, <2>2, OthersKept
  <2>4. Serving(r)'
    BY <1>1, <1>2, <1>3, <1>6, <2>2 DEF IInv, Serving, Issued, Len512, CtxPcs, PagePcs
  <2>5. CtxInv' /\ StatsInv'
    BY Zenon, <1>1, <2>2, PlainStep DEF CtxPcs, PagePcs
  <2>6. QED
    BY Zenon, <1>1, <1>3, <2>1, <2>2, <2>3, <2>4, <2>5 DEF IInv, Types
<1>7. QED
  BY Zenon, <1>5, <1>6

(* An operation and its sectors keep the counters together.                *)
LEMMA CountedTogether ==
  ASSUME NEW f \in [Counters -> Nat], Agree(f), NEW n \in 1 .. MaxLen, MaxLen \in Nat
  PROVE  /\ Agree([[f EXCEPT !.read_ops = @ + 1] EXCEPT !.read_sectors = @ + n])
         /\ Agree([[f EXCEPT !.write_ops = @ + 1] EXCEPT !.write_sectors = @ + n])
<1>1. \A k \in Nat : (k + 1) * MaxLen = k * MaxLen + MaxLen /\ k * MaxLen \in Nat
  OBVIOUS
<1>2. /\ f.read_ops \in Nat /\ f.read_sectors \in Nat
      /\ f.write_ops \in Nat /\ f.write_sectors \in Nat
  BY DEF Counters
<1>3. /\ f.read_ops =< f.read_sectors /\ f.read_sectors =< f.read_ops * MaxLen
      /\ f.write_ops =< f.write_sectors /\ f.write_sectors =< f.write_ops * MaxLen
  BY Zenon DEF Agree
<1>a. ASSUME NEW k \in Nat, NEW m \in Nat, k =< m, m =< k * MaxLen
      PROVE  k + 1 =< m + n /\ m + n =< (k + 1) * MaxLen
  <2> DEFINE t == k * MaxLen
  <2>1. (k + 1) * MaxLen = t + MaxLen /\ t \in Nat /\ m =< t
    BY Zenon, <1>1, <1>a
  <2> HIDE DEF t
  <2>2. m + n =< t + MaxLen
    BY <2>1
  <2>3. k + 1 =< m + n
    BY <1>a
  <2>4. QED
    BY Zenon, <2>1, <2>2, <2>3
<1>4. /\ f.read_ops + 1 =< f.read_sectors + n
      /\ f.read_sectors + n =< (f.read_ops + 1) * MaxLen
  BY Zenon, <1>2, <1>3, <1>a
<1>5. /\ f.write_ops + 1 =< f.write_sectors + n
      /\ f.write_sectors + n =< (f.write_ops + 1) * MaxLen
  BY Zenon, <1>2, <1>3, <1>a
<1> DEFINE g == [[f EXCEPT !.read_ops = @ + 1] EXCEPT !.read_sectors = @ + n]
           h == [[f EXCEPT !.write_ops = @ + 1] EXCEPT !.write_sectors = @ + n]
<1>6. /\ g.read_ops = f.read_ops + 1 /\ g.read_sectors = f.read_sectors + n
      /\ g.write_ops = f.write_ops /\ g.write_sectors = f.write_sectors
  BY Zenon DEF Counters
<1>7. /\ h.write_ops = f.write_ops + 1 /\ h.write_sectors = f.write_sectors + n
      /\ h.read_ops = f.read_ops /\ h.read_sectors = f.read_sectors
  BY Zenon DEF Counters
<1> HIDE DEF g, h
<1>8. Agree(g) /\ Agree(h)
  BY Zenon, <1>3, <1>4, <1>5, <1>6, <1>7 DEF Agree
<1>9. QED
  BY Zenon, <1>8 DEF g, h

LEMMA CountKeeps == ASSUME IInv, NEW r \in Rqs, Count(r) PROVE IInv'
<1>1. /\ pc[r] = "counting" /\ stats_lock = NULL /\ stats' = OpCounted(r) /\ stats_lock' = r
      /\ Goto(r, "counted")
      /\ UNCHANGED <<backend, submitted, store, moved, buf, page, rq, pos, status>>
      /\ UNCHANGED <<ctx, heap, pages, done>>
  BY Zenon DEF Count, dataVars, fixed, ctxVars, NotEnded
<1>2. /\ pc' \in [Rqs -> Pcs] /\ pc'[r] = "counted" /\ \A x \in Rqs \ {r} : pc'[x] = pc[x]
  BY Zenon, <1>1, GotoKept DEF Pcs
<1>3. \A x \in Rqs \ {r} : Serving(x)'
  BY Zenon, <1>1, <1>2, OthersKept
<1>4. Serving(r)'
  BY Zenon, <1>1, <1>2 DEF IInv, Serving, Issued, Len512, CtxPcs, PagePcs
<1>5. CtxInv'
  <2>1. \A x \in Rqs : /\ pc'[x] \in CtxPcs <=> pc[x] \in CtxPcs
                       /\ pc'[x] \in PagePcs <=> pc[x] \in PagePcs
    BY Zenon, <1>1, <1>2 DEF CtxPcs, PagePcs
  <2>2. QED
    BY Zenon, <1>1, <2>1, CtxKept DEF IInv
<1>6. StatsInv'
  <2>1. stats \in [Counters -> Nat] /\ Agree(stats)
    BY Zenon, <1>1 DEF IInv, StatsInv
  <2>2. stats' \in [Counters -> Nat]
    BY <1>1, <2>1 DEF OpCounted, Counters
  <2>3. Agree(SectorsCounted(r)')
    <3>1. CASE rq[r].op \in {"read", "write"}
      <4>1. rq[r].len \in 1 .. MaxLen /\ MaxLen \in Nat
        <5>1. rq[r].len \in 0 .. MaxLen /\ MaxLen \in Nat /\ rq[r].len > 0
          BY Zenon, <1>1, <3>1, LengthsAssumption DEF IInv, Serving, Issued, Types, Requests
        <5>2. QED
          BY <5>1
      <4>2. SectorsCounted(r)' =
              IF rq[r].op = "read"
              THEN [[stats EXCEPT !.read_ops = @ + 1] EXCEPT !.read_sectors = @ + rq[r].len]
              ELSE [[stats EXCEPT !.write_ops = @ + 1] EXCEPT !.write_sectors = @ + rq[r].len]
        BY Zenon, <1>1, <3>1 DEF SectorsCounted, OpCounted, Len512
      <4>3. QED
        BY Zenon, <2>1, <4>1, <4>2, CountedTogether
    <3>2. CASE rq[r].op \notin {"read", "write"}
      <4>1. SectorsCounted(r)' = OpCounted(r)
        BY Zenon, <1>1, <3>2 DEF SectorsCounted
      <4>2. /\ OpCounted(r).read_ops = stats.read_ops
            /\ OpCounted(r).read_sectors = stats.read_sectors
            /\ OpCounted(r).write_ops = stats.write_ops
            /\ OpCounted(r).write_sectors = stats.write_sectors
        BY <2>1, <3>2 DEF OpCounted, Counters
      <4>3. QED
        BY Zenon, <2>1, <4>1, <4>2 DEF Agree
    <3>3. QED
      BY Zenon, <3>1, <3>2
  <2>4. \A x \in Rqs \ {r} : pc[x] # "counted"
    BY Zenon, <1>1, NullAssumption DEF IInv, StatsInv
  <2>5. QED
    BY Zenon, <1>1, <1>2, <2>2, <2>3, <2>4, NullAssumption DEF StatsInv
<1>7. QED
  BY Zenon, <1>1, <1>2, <1>3, <1>4, <1>5, <1>6 DEF IInv, Types

(* The handler lets go of the statistics.                                  *)
LEMMA UnlockStats ==
  ASSUME IInv, NEW r \in Rqs, pc[r] = "counted", stats' = SectorsCounted(r), stats_lock' = NULL,
         pc'[r] # "counted", \A x \in Rqs \ {r} : pc'[x] = pc[x]
  PROVE  StatsInv'
<1>1. stats_lock = r /\ stats \in [Counters -> Nat] /\ Agree(SectorsCounted(r))
  BY Zenon DEF IInv, StatsInv
<1>2. \A x \in Rqs : pc'[x] # "counted"
  BY Zenon, <1>1 DEF IInv, StatsInv
<1>3. Len512(r) \in Nat
  BY Lengths DEF IInv
<1>4. stats' \in [Counters -> Nat]
  BY <1>1, <1>3 DEF SectorsCounted, Counters
<1>5. QED
  BY Zenon, <1>1, <1>2, <1>4, NullAssumption DEF StatsInv

LEMMA UnlockKeeps == ASSUME IInv, NEW r \in Rqs, Unlock(r) PROVE IInv'
<1>1. /\ pc[r] = "counted" /\ stats' = SectorsCounted(r) /\ stats_lock' = NULL
      /\ UNCHANGED <<backend, submitted, store, moved, buf, page, rq, pos>>
      /\ UNCHANGED <<ctx, heap, pages, done>>
  BY Zenon DEF Unlock, dataVars, fixed, ctxVars
<1>a. ASSUME pc'[r] \in {"ended", "dispatch", "memcpy"}, \A x \in Rqs \ {r} : pc'[x] = pc[x]
      PROVE  CtxInv' /\ StatsInv'
  <2>1. StatsInv'
    BY Zenon, <1>1, <1>a, UnlockStats
  <2>2. \A x \in Rqs : /\ pc'[x] \in CtxPcs <=> pc[x] \in CtxPcs
                       /\ pc'[x] \in PagePcs <=> pc[x] \in PagePcs
    BY Zenon, <1>1, <1>a DEF CtxPcs, PagePcs
  <2>3. QED
    BY Zenon, <1>1, <2>1, <2>2, CtxKept DEF IInv
<1>3. CASE rq[r].op \in {"drv", "zeroes"}
  <2>1. \E s \in {"ok", "ioerr", "notsupp"} : End(r, s)
    BY Zenon, <1>3 DEF Unlock
  <2>2. /\ pc' \in [Rqs -> Pcs] /\ status' \in [Rqs -> {"ok", "ioerr", "notsupp"}]
        /\ pc'[r] = "ended" /\ \A x \in Rqs \ {r} : pc'[x] = pc[x]
        /\ \A x \in Rqs : Serving(x)'
    BY Zenon, <1>1, <2>1, EndKept
  <2>3. QED
    BY Zenon, <1>1, <1>a, <2>2 DEF IInv, Types
<1>4. CASE rq[r].op \notin {"drv", "zeroes"}
  <2>1. /\ Goto(r, IF backend = "device" THEN "dispatch" ELSE "memcpy")
        /\ status' = status
    BY Zenon, <1>4 DEF Unlock, NotEnded
  <2>2. /\ pc' \in [Rqs -> Pcs] /\ pc'[r] \in {"dispatch", "memcpy"}
        /\ \A x \in Rqs \ {r} : pc'[x] = pc[x]
    BY Zenon, <2>1, GotoKept DEF Pcs
  <2>3. \A x \in Rqs \ {r} : Serving(x)'
    BY Zenon, <1>1, <2>2, OthersKept
  <2>4. Serving(r)'
    BY Zenon, <1>1, <1>4, <2>2 DEF IInv, Serving, Issued, Len512, CtxPcs, PagePcs
  <2>5. QED
    BY Zenon, <1>1, <1>a, <2>1, <2>2, <2>3, <2>4 DEF IInv, Types
<1>5. QED
  BY Zenon, <1>3, <1>4

(* A handler that is lost, or returns without an answer.                   *)
LEMMA LostKeeps == ASSUME IInv, NEW r \in Rqs, NoVector(r) \/ DispatchNoSegment(r) PROVE IInv'
<1>1. /\ pc[r] \in {"dispatch", "memcpy"} /\ \E l \in {"oops", "returned"} : Goto(r, l)
      /\ UNCHANGED <<backend, submitted, store, moved, buf, page, rq, pos, status>>
      /\ UNCHANGED <<ctx, heap, pages, done, stats, stats_lock>>
  BY Zenon DEF NoVector, DispatchNoSegment, dataVars, fixed, ctxVars, statVars, NotEnded
<1>2. /\ pc' \in [Rqs -> Pcs] /\ pc'[r] \in {"oops", "returned"}
      /\ \A x \in Rqs \ {r} : pc'[x] = pc[x]
  BY Zenon, <1>1, GotoKept DEF Pcs
<1>3. \A x \in Rqs \ {r} : Serving(x)'
  BY Zenon, <1>1, <1>2, OthersKept
<1>4. Serving(r)'
  BY Zenon, <1>1, <1>2 DEF IInv, Serving, Issued, Len512, CtxPcs, PagePcs
<1>5. CtxInv' /\ StatsInv'
  BY Zenon, <1>1, <1>2, PlainStep DEF CtxPcs, PagePcs
<1>6. QED
  BY Zenon, <1>1, <1>2, <1>3, <1>4, <1>5 DEF IInv, Types

(* A sector is transferred.                                                *)
LEMMA OneMoreKeeps ==
  ASSUME IInv, NEW r \in Rqs, pc[r] \in {"memcpy", "bio"}, moved[r] < Len512(r), OneMore(r),
         UNCHANGED <<pc, rq, pos>>, UNCHANGED <<ctx, heap, pages, done, stats, stats_lock>>
  PROVE  /\ moved' \in [Rqs -> Nat] /\ \A x \in Rqs : Serving(x)'
         /\ CtxInv' /\ StatsInv'
<1>1. /\ moved' \in [Rqs -> Nat] /\ moved'[r] = moved[r] + 1
      /\ \A x \in Rqs \ {r} : moved'[x] = moved[x]
  BY DEF OneMore, IInv, Types
<1>2. \A x \in Rqs \ {r} : Serving(x)'
  BY Zenon, <1>1, OthersKept
<1>3. moved[r] \in Nat /\ Len512(r) \in Int /\ Len512(r)' = Len512(r)
  BY Lengths DEF IInv, Types, Len512
<1>4. moved'[r] =< Len512(r)'
  BY <1>1, <1>3
<1>5. Serving(r)'
  BY Zenon, <1>3, <1>4 DEF IInv, Serving, Issued
<1>6. CtxInv' /\ StatsInv'
  BY Zenon, CtxKept, StatsKept DEF IInv
<1>7. QED
  BY Zenon, <1>1, <1>2, <1>5, <1>6

(* The virtual backend copies for reads and writes.                        *)
LEMMA VirtualOps ==
  ASSUME IInv, NEW r \in Rqs, pc[r] = "memcpy", rq[r].segs # <<>>
  PROVE  rq[r].op \in {"read", "write"}
BY Zenon DEF IInv, Serving, Issued

LEMMA VirtualCopyKeeps == ASSUME IInv, NEW r \in Rqs, VirtualCopy(r) PROVE IInv'
<1>1. /\ pc[r] = "memcpy" /\ rq[r].segs # <<>> /\ moved[r] < Len512(r) /\ OneMore(r)
      /\ UNCHANGED <<backend, submitted, page, pc, rq, pos, status>>
      /\ UNCHANGED <<ctx, heap, pages, done, stats, stats_lock>>
  BY Zenon, ExtentIsLength DEF VirtualCopy, fixed, ctxVars, statVars
<1>2. rq[r].op \in {"read", "write"}
  BY Zenon, <1>1, VirtualOps
<1>3. moved[r] \in Offsets /\ pos[r] + moved[r] \in Addresses
  BY Zenon, <1>1, <1>2, InRange
<1>4. store[pos[r] + moved[r]] \in Vals /\ rq[r].data \in Vals
  BY Zenon, <1>3 DEF IInv, Types, Requests
<1>5. store' \in [Addresses -> Vals] /\ buf' \in [Rqs -> [Offsets -> Vals]]
  <2>1. store \in [Addresses -> Vals] /\ buf \in [Rqs -> [Offsets -> Vals]]
    BY Zenon DEF IInv, Types
  <2>2. CASE rq[r].op = "read"
    <3>1. /\ store' = store
          /\ buf' = [buf EXCEPT ![r][moved[r]] = store[pos[r] + moved[r]]]
      BY Zenon, <2>2 DEF VirtualCopy, CopyIn
    <3>2. QED
      BY Zenon, <1>3, <1>4, <2>1, <3>1, Poke
  <2>3. CASE rq[r].op = "write"
    BY <1>3, <1>4, <2>1, <2>3, Zenon DEF VirtualCopy, CopyOut
  <2>4. QED
    BY Zenon, <1>2, <2>2, <2>3
<1>6. /\ moved' \in [Rqs -> Nat] /\ \A x \in Rqs : Serving(x)'
      /\ CtxInv' /\ StatsInv'
  BY Zenon, <1>1, OneMoreKeeps
<1>7. QED
  BY Zenon, <1>1, <1>5, <1>6 DEF IInv, Types

LEMMA BioTransferKeeps == ASSUME IInv, NEW r \in Rqs, BioTransfer(r) PROVE IInv'
<1>1. /\ pc[r] = "bio" /\ moved[r] < BioLen(r) /\ OneMore(r)
      /\ UNCHANGED <<backend, submitted, buf, pc, rq, pos, status>>
      /\ UNCHANGED <<ctx, heap, pages, done, stats, stats_lock>>
  BY Zenon DEF BioTransfer, fixed, ctxVars, statVars
<1>2. rq[r].op \in {"read", "write"} /\ pc[r] \in CtxPcs
  BY Zenon, <1>1 DEF IInv, Serving, CtxPcs, PagePcs
<1>3. moved[r] < Len512(r)
  BY <1>1, <1>2, BioFits, Lengths DEF IInv, Types
<1>4. moved[r] \in Offsets /\ pos[r] + moved[r] \in Addresses
  BY Zenon, <1>1, <1>2, <1>3, InRange
<1>5. store[pos[r] + moved[r]] \in Vals /\ page[r][moved[r]] \in Vals
  BY Zenon, <1>4 DEF IInv, Types
<1>6. store' \in [Addresses -> Vals] /\ page' \in [Rqs -> [Offsets -> Vals]]
  <2>1. store \in [Addresses -> Vals] /\ page \in [Rqs -> [Offsets -> Vals]]
    BY Zenon DEF IInv, Types
  <2>2. CASE rq[r].op = "read"
    <3>1. /\ store' = store
          /\ page' = [page EXCEPT ![r][moved[r]] = store[pos[r] + moved[r]]]
      BY Zenon, <2>2 DEF BioTransfer, CopyIn
    <3>2. QED
      BY Zenon, <1>4, <1>5, <2>1, <3>1, Poke
  <2>3. CASE rq[r].op = "write"
    BY Zenon, <1>4, <1>5, <2>1, <2>3 DEF BioTransfer, CopyOut
  <2>4. QED
    BY Zenon, <1>2, <2>2, <2>3
<1>7. /\ moved' \in [Rqs -> Nat] /\ \A x \in Rqs : Serving(x)'
      /\ CtxInv' /\ StatsInv'
  BY Zenon, <1>1, <1>3, OneMoreKeeps
<1>8. QED
  BY Zenon, <1>1, <1>6, <1>7 DEF IInv, Types

(* The virtual backend answers.                                            *)
LEMMA VirtualEndKeeps == ASSUME IInv, NEW r \in Rqs, VirtualEnd(r) PROVE IInv'
<1>1. /\ pc[r] = "memcpy" /\ End(r, "ok")
      /\ UNCHANGED <<backend, submitted, store, moved, buf, page, rq, pos>>
      /\ UNCHANGED <<ctx, heap, pages, done, stats, stats_lock>>
  BY Zenon DEF VirtualEnd, dataVars, fixed, ctxVars, statVars
<1>2. /\ pc' \in [Rqs -> Pcs] /\ status' \in [Rqs -> {"ok", "ioerr", "notsupp"}]
      /\ pc'[r] = "ended" /\ \A x \in Rqs \ {r} : pc'[x] = pc[x]
      /\ \A x \in Rqs : Serving(x)'
  BY Zenon, <1>1, EndKept
<1>3. CtxInv' /\ StatsInv'
  BY Zenon, <1>1, <1>2, PlainStep DEF CtxPcs, PagePcs
<1>4. QED
  BY Zenon, <1>1, <1>2, <1>3 DEF IInv, Types
-----------------------------------------------------------------------------
(* A request goes on with a context: nothing but the program counter and   *)
(* memory changes for the request.                                         *)
LEMMA CtxGoesOn ==
  ASSUME IInv, NEW r \in Rqs, NEW l \in CtxPcs, Goto(r, l), moved[r] = 0,
         rq[r].op \in {"read", "write"}, UNCHANGED <<moved, rq, pos, stats, stats_lock>>,
         pc[r] \in {"dispatch", "alloc_page", "add_page"}
  PROVE  /\ pc' \in [Rqs -> Pcs] /\ pc'[r] = l /\ \A x \in Rqs \ {r} : pc'[x] = pc[x]
         /\ \A x \in Rqs : Serving(x)'
         /\ StatsInv'
<1>1. pc' \in [Rqs -> Pcs] /\ pc'[r] = l /\ \A x \in Rqs \ {r} : pc'[x] = pc[x]
  BY Zenon, GotoKept DEF Pcs
<1>2. \A x \in Rqs \ {r} : Serving(x)'
  BY Zenon, <1>1, OthersKept
<1>3. Serving(r)'
  BY Zenon, <1>1 DEF IInv, Serving, Issued, Len512, CtxPcs, PagePcs
<1>4. l # "counted"
  BY Zenon DEF CtxPcs, PagePcs
<1>5. StatsInv'
  BY Zenon, <1>1, <1>4, StatsKept DEF IInv
<1>6. QED
  BY Zenon, <1>1, <1>2, <1>3, <1>5

LEMMA AllocCtxKeeps == ASSUME IInv, NEW r \in Rqs, AllocCtx(r) PROVE IInv'
<1>1. /\ pc[r] = "dispatch" /\ Goto(r, "alloc_page") /\ rq[r].segs # <<>>
      /\ UNCHANGED <<backend, submitted, store, moved, buf, page, rq, pos, status>>
      /\ UNCHANGED <<pages, done, stats, stats_lock>>
  BY Zenon DEF AllocCtx, dataVars, fixed, statVars, NotEnded
<1>2. moved[r] = 0 /\ rq[r].op \in {"read", "write"}
  BY Zenon, <1>1 DEF IInv, Serving, Issued
<1>3. /\ pc' \in [Rqs -> Pcs] /\ pc'[r] = "alloc_page" /\ \A x \in Rqs \ {r} : pc'[x] = pc[x]
      /\ (\A x \in Rqs : Serving(x)') /\ StatsInv'
  BY Zenon, <1>1, <1>2, CtxGoesOn DEF CtxPcs
<1>4. PICK c \in Ctxs \ heap : ctx' = [ctx EXCEPT ![r] = c] /\ heap' = heap \cup {c}
  BY Zenon DEF AllocCtx
<1>5. CtxInv'
  <2>1. CtxInv /\ ctx \in [Rqs -> Ctxs \cup {NULL}] /\ c # NULL
    BY Zenon, NullAssumption DEF IInv, CtxInv
  <2>2. ctx'[r] = c /\ \A x \in Rqs \ {r} : ctx'[x] = ctx[x]
    BY Zenon, <1>4, <2>1
  <2>3. ctx' \in [Rqs -> Ctxs \cup {NULL}]
    BY Zenon, <1>4, <2>1
  <2>4. \A x \in Rqs : ctx[x] # c
    BY Zenon, <2>1 DEF CtxInv
  <2>5. ctx[r] = NULL
    BY Zenon, <1>1, <2>1 DEF CtxInv, CtxPcs, PagePcs
  <2>6. pc'[r] \in CtxPcs /\ pc'[r] \notin PagePcs
    BY Zenon, <1>3 DEF CtxPcs, PagePcs
  <2>7. heap' \subseteq Ctxs /\ done' \subseteq heap' /\ c \notin done
    BY Zenon, <1>1, <1>4, <2>1 DEF CtxInv
  <2>a. \A x \in Rqs : ctx[x] # NULL <=> pc[x] \in CtxPcs
    BY Zenon, <2>1 DEF CtxInv
  <2>b. \A q, x \in Rqs : ctx[q] = ctx[x] /\ ctx[q] # NULL => q = x
    BY Zenon, <2>1 DEF CtxInv
  <2>c. \A x \in Rqs : ctx[x] # NULL => ctx[x] \in heap \ done
    BY Zenon, <2>1 DEF CtxInv
  <2>8. \A x \in Rqs : ctx'[x] # NULL <=> pc'[x] \in CtxPcs
    <3>1. \A x \in Rqs \ {r} : ctx'[x] # NULL <=> pc'[x] \in CtxPcs
      BY Zenon, <1>3, <2>2, <2>a
    <3>2. ctx'[r] # NULL <=> pc'[r] \in CtxPcs
      BY Zenon, <2>1, <2>2, <2>6
    <3>3. QED
      BY Zenon, <3>1, <3>2
  <2>9. \A q, x \in Rqs : ctx'[q] = ctx'[x] /\ ctx'[q] # NULL => q = x
    BY Zenon, <2>2, <2>4, <2>b
  <2>10. \A x \in Rqs : ctx'[x] # NULL => ctx'[x] \in heap' \ done'
    <3>1. c \in heap' \ done' /\ \A e \in heap \ done : e \in heap' \ done'
      BY Zenon, <1>1, <1>4, <2>7
    <3>2. QED
      BY Zenon, <2>2, <2>c, <3>1
  <2>11. \A e \in heap' \ done' : \E x \in Rqs : ctx'[x] = e
    <3>1. SUFFICES ASSUME NEW e \in heap \ done PROVE \E x \in Rqs : ctx'[x] = e
      BY Zenon, <1>1, <1>4, <2>2
    <3>2. PICK x \in Rqs : ctx[x] = e
      BY Zenon, <2>1 DEF CtxInv
    <3>3. e # NULL
      BY Zenon, <2>1, NullAssumption DEF CtxInv
    <3>4. QED
      BY Zenon, <2>2, <2>5, <3>2, <3>3
  <2>12. \A x \in Rqs : pc'[x] \in PagePcs => ctx'[x] \in pages'
    BY Zenon, <1>1, <1>3, <2>1, <2>2, <2>6 DEF CtxInv
  <2>13. \A e \in pages' : \E x \in Rqs : ctx'[x] = e /\ pc'[x] \in PagePcs
    <3>1. SUFFICES ASSUME NEW e \in pages
                   PROVE  \E x \in Rqs : ctx'[x] = e /\ pc'[x] \in PagePcs
      BY Zenon, <1>1
    <3>2. PICK x \in Rqs : ctx[x] = e /\ pc[x] \in PagePcs
      BY Zenon, <2>1 DEF CtxInv
    <3>3. x # r
      BY Zenon, <1>1, <3>2 DEF PagePcs
    <3>4. QED
      BY Zenon, <1>3, <2>2, <3>2, <3>3
  <2>14. QED
    BY Zenon, <2>3, <2>7, <2>8, <2>9, <2>10, <2>11, <2>12, <2>13 DEF CtxInv
<1>6. QED
  BY Zenon, <1>1, <1>3, <1>5 DEF IInv, Types

(* The page is allocated, or put in a bio: the context stays in hand.      *)
LEMMA PageKeeps == ASSUME IInv, NEW r \in Rqs, AllocPage(r) \/ AddPage(r) PROVE IInv'
<1>1. /\ pc[r] \in {"alloc_page", "add_page"} /\ \E l \in PagePcs : Goto(r, l)
      /\ pages' = pages \cup {ctx[r]}
      /\ UNCHANGED <<backend, submitted, store, moved, buf, rq, pos, status>>
      /\ UNCHANGED <<ctx, heap, done, stats, stats_lock>>
  <2>1. CASE AllocPage(r)
    BY Zenon, <2>1 DEF AllocPage, dataVars, fixed, statVars, NotEnded, PagePcs
  <2>2. CASE AddPage(r)
    <3>1. ctx[r] \in pages
      BY Zenon, <2>2 DEF AddPage, IInv, CtxInv, PagePcs
    <3>2. QED
      BY Zenon, <2>2, <3>1 DEF AddPage, fixed, statVars, ctxVars, NotEnded, PagePcs
  <2>3. QED
    BY Zenon, <2>1, <2>2
<1>2. moved[r] = 0 /\ rq[r].op \in {"read", "write"} /\ PagePcs \subseteq CtxPcs
  BY Zenon, <1>1 DEF IInv, Serving, CtxPcs, PagePcs
<1>3. /\ pc' \in [Rqs -> Pcs] /\ pc'[r] \in PagePcs /\ \A x \in Rqs \ {r} : pc'[x] = pc[x]
      /\ (\A x \in Rqs : Serving(x)') /\ StatsInv'
  BY Zenon, <1>1, <1>2, CtxGoesOn
<1>4. page' \in [Rqs -> [Offsets -> Vals]]
  <2>1. /\ page \in [Rqs -> [Offsets -> Vals]] /\ Nothing \in [Offsets -> Vals]
        /\ [o \in Offsets |-> IF o < BioLen(r) THEN rq[r].data ELSE Zero] \in [Offsets -> Vals]
    BY Zenon, BackendAssumption DEF Nothing, IInv, Types, Requests
  <2>2. QED
    BY <2>1, ZenonT(30) DEF AllocPage, AddPage, dataVars
<1>5. CtxInv'
  <2>1. CtxInv /\ pc[r] \in CtxPcs
    BY Zenon, <1>1 DEF IInv, CtxPcs, PagePcs
  <2>2. \A x \in Rqs : pc'[x] \in CtxPcs <=> pc[x] \in CtxPcs
    BY Zenon, <1>2, <1>3, <2>1
  <2>3. \A x \in Rqs : pc'[x] \in PagePcs => ctx'[x] \in pages'
    BY Zenon, <1>1, <1>3, <2>1 DEF CtxInv
  <2>4. \A e \in pages' : \E x \in Rqs : ctx'[x] = e /\ pc'[x] \in PagePcs
    BY Zenon, <1>1, <1>3, <2>1 DEF CtxInv
  <2>5. QED
    BY Zenon, <1>1, <2>1, <2>2, <2>3, <2>4 DEF CtxInv
<1>6. QED
  BY Zenon, <1>1, <1>3, <1>4, <1>5 DEF IInv, Types

(* A request gives up its context, which is freed or left to the callback. *)
LEMMA GivesUp ==
  ASSUME IInv, NEW r \in Rqs, pc[r] \in CtxPcs, pc'[r] \notin CtxPcs,
         \A x \in Rqs \ {r} : pc'[x] = pc[x], ctx' = [ctx EXCEPT ![r] = NULL],
         pages' = pages \ {ctx[r]},
         \/ heap' = heap \ {ctx[r]} /\ done' = done
         \/ heap' = heap /\ done' = done \cup {ctx[r]}
  PROVE  CtxInv'
<1>1. CtxInv /\ ctx \in [Rqs -> Ctxs \cup {NULL}] /\ PagePcs \subseteq CtxPcs
  BY Zenon DEF IInv, CtxInv, CtxPcs
<1>2. ctx'[r] = NULL /\ \A x \in Rqs \ {r} : ctx'[x] = ctx[x]
  BY Zenon, <1>1
<1>3. ctx' \in [Rqs -> Ctxs \cup {NULL}]
  BY Zenon, <1>1
<1>4. ctx[r] # NULL /\ ctx[r] \in heap \ done /\ \A x \in Rqs \ {r} : ctx[x] # ctx[r]
  BY Zenon, <1>1 DEF CtxInv
<1>5. heap' \subseteq Ctxs /\ done' \subseteq heap'
  BY Zenon, <1>1, <1>4 DEF CtxInv
<1>6. \A e : e \in heap' \ done' <=> e \in heap \ done /\ e # ctx[r]
  BY Zenon, <1>4
<1>7. \A x \in Rqs : ctx'[x] # NULL <=> pc'[x] \in CtxPcs
  BY Zenon, <1>1, <1>2 DEF CtxInv
<1>a. \A q, x \in Rqs : ctx[q] = ctx[x] /\ ctx[q] # NULL => q = x
  BY Zenon, <1>1 DEF CtxInv
<1>b. \A x \in Rqs : ctx[x] # NULL => ctx[x] \in heap \ done
  BY Zenon, <1>1 DEF CtxInv
<1>c. \A x \in Rqs : pc[x] \in PagePcs => ctx[x] \in pages
  BY Zenon, <1>1 DEF CtxInv
<1>8. \A q, x \in Rqs : ctx'[q] = ctx'[x] /\ ctx'[q] # NULL => q = x
  BY Zenon, <1>2, <1>a
<1>9. \A x \in Rqs : ctx'[x] # NULL => ctx'[x] \in heap' \ done'
  <2>1. \A x \in Rqs \ {r} : ctx'[x] # NULL => ctx'[x] \in heap \ done /\ ctx'[x] # ctx[r]
    BY Zenon, <1>2, <1>4, <1>b
  <2>2. QED
    BY Zenon, <1>2, <1>6, <2>1
<1>10. \A e \in heap' \ done' : \E x \in Rqs : ctx'[x] = e
  <2>1. SUFFICES ASSUME NEW e \in heap \ done, e # ctx[r] PROVE \E x \in Rqs : ctx'[x] = e
    BY Zenon, <1>6
  <2>2. PICK x \in Rqs : ctx[x] = e
    BY Zenon, <1>1 DEF CtxInv
  <2>3. QED
    BY Zenon, <1>2, <2>1, <2>2
<1>11. \A x \in Rqs : pc'[x] \in PagePcs => ctx'[x] \in pages'
  <2>1. pc'[r] \notin PagePcs
    BY Zenon, <1>1
  <2>2. \A x \in Rqs \ {r} : pc'[x] \in PagePcs => ctx[x] \in pages \ {ctx[r]}
    BY Zenon, <1>4, <1>c
  <2>3. QED
    BY Zenon, <1>2, <2>1, <2>2
<1>12. \A e \in pages' : \E x \in Rqs : ctx'[x] = e /\ pc'[x] \in PagePcs
  <2>1. SUFFICES ASSUME NEW e \in pages, e # ctx[r]
                 PROVE  \E x \in Rqs : ctx'[x] = e /\ pc'[x] \in PagePcs
    BY Zenon
  <2>2. PICK x \in Rqs : ctx[x] = e /\ pc[x] \in PagePcs
    BY Zenon, <1>1 DEF CtxInv
  <2>3. QED
    BY Zenon, <1>2, <2>1, <2>2
<1>13. QED
  BY Zenon, <1>3, <1>5, <1>7, <1>8, <1>9, <1>10, <1>11, <1>12 DEF CtxInv

(* The requests of the device backend that are answered.                   *)
LEMMA DeviceEndKeeps ==
  ASSUME IInv, NEW r \in Rqs,
         \/ AllocCtxFail(r) \/ AllocPageFail(r) \/ AddPageFail(r)
         \/ BioComplete(r) \/ BioFail(r)
  PROVE  IInv'
<1>1. /\ \/ pc[r] = "dispatch" /\ AllocCtxFail(r)
         \/ pc[r] = "alloc_page" /\ AllocPageFail(r)
         \/ pc[r] = "add_page" /\ AddPageFail(r)
         \/ pc[r] = "bio" /\ (BioComplete(r) \/ BioFail(r))
      /\ \E s \in {"ok", "ioerr"} : End(r, s)
      /\ UNCHANGED <<backend, submitted, store, moved, page, rq, pos, stats, stats_lock>>
      /\ ctx' = [ctx EXCEPT ![r] = NULL]
  BY Zenon DEF AllocCtxFail, AllocPageFail, AddPageFail, BioComplete, BioFail, Refuse, Answer,
       dataVars, fixed, statVars
<1>2. /\ pc' \in [Rqs -> Pcs] /\ status' \in [Rqs -> {"ok", "ioerr", "notsupp"}]
      /\ pc'[r] = "ended" /\ \A x \in Rqs \ {r} : pc'[x] = pc[x]
      /\ \A x \in Rqs : Serving(x)'
  BY Zenon, <1>1, EndKept
<1>3. pc'[r] \notin CtxPcs /\ pc[r] # "counted"
  BY Zenon, <1>1, <1>2 DEF CtxPcs, PagePcs
<1>4. StatsInv'
  BY Zenon, <1>1, <1>2, <1>3, StatsKept DEF IInv
<1>5. CtxInv'
  <2>1. CASE AllocCtxFail(r)
    <3>1. pc[r] = "dispatch" /\ UNCHANGED <<heap, pages, done>>
      BY Zenon, <2>1 DEF AllocCtxFail, Refuse
    <3>2. ctx[r] = NULL /\ ctx \in [Rqs -> Ctxs \cup {NULL}]
      BY Zenon, <3>1 DEF IInv, CtxInv, CtxPcs, PagePcs
    <3>3. ctx' = ctx
      BY Zenon, <1>1, <3>2
    <3>4. \A x \in Rqs : /\ pc'[x] \in CtxPcs <=> pc[x] \in CtxPcs
                         /\ pc'[x] \in PagePcs <=> pc[x] \in PagePcs
      BY Zenon, <1>2, <3>1 DEF CtxPcs, PagePcs
    <3>5. QED
      BY Zenon, <3>1, <3>3, <3>4, CtxKept DEF IInv
  <2>2. CASE AllocPageFail(r)
    <3>1. /\ pc[r] = "alloc_page" /\ heap' = heap \ {ctx[r]} /\ UNCHANGED <<pages, done>>
      BY Zenon, <2>2 DEF AllocPageFail, Refuse
    <3>2. ctx[r] \notin pages
      <4>1. \A c \in pages : \E x \in Rqs : ctx[x] = c /\ pc[x] \in PagePcs
        BY Zenon DEF IInv, CtxInv
      <4>2. ctx[r] # NULL /\ \A x \in Rqs : ctx[x] = ctx[r] => x = r
        BY Zenon, <3>1 DEF IInv, CtxInv, CtxPcs
      <4>3. pc[r] \notin PagePcs
        BY Zenon, <3>1 DEF PagePcs
      <4>4. QED
        BY Zenon, <4>1, <4>2, <4>3
    <3>3. pages' = pages \ {ctx[r]} /\ pc[r] \in CtxPcs
      BY Zenon, <3>1, <3>2 DEF CtxPcs
    <3>4. QED
      BY Zenon, <1>1, <1>2, <1>3, <3>1, <3>3, GivesUp
  <2>3. CASE AddPageFail(r)
    <3>1. /\ pc[r] \in CtxPcs /\ pages' = pages \ {ctx[r]}
          /\ heap' = heap \ {ctx[r]} /\ done' = done
      BY Zenon, <2>3 DEF AddPageFail, Refuse, CtxPcs, PagePcs
    <3>2. QED
      BY Zenon, <1>1, <1>2, <1>3, <3>1, GivesUp
  <2>4. CASE BioComplete(r) \/ BioFail(r)
    <3>1. /\ pc[r] \in CtxPcs /\ pages' = pages \ {ctx[r]}
          /\ heap' = heap /\ done' = done \cup {ctx[r]}
      BY Zenon, <2>4 DEF BioComplete, BioFail, Answer, CtxPcs, PagePcs
    <3>2. QED
      BY Zenon, <1>1, <1>2, <1>3, <3>1, GivesUp
  <2>5. QED
    BY Zenon, <2>1, <2>2, <2>3, <2>4
<1>6. buf' \in [Rqs -> [Offsets -> Vals]]
  <2>1. buf \in [Rqs -> [Offsets -> Vals]] /\ page[r] \in [Offsets -> Vals]
    BY Zenon DEF IInv, Types
  <2>2. [o \in Offsets |-> IF o < BioLen(r) THEN page[r][o] ELSE buf[r][o]]
          \in [Offsets -> Vals]
    BY Zenon, <2>1
  <2>3. QED
    BY Zenon, <2>1, <2>2
    DEF AllocCtxFail, AllocPageFail, AddPageFail, BioComplete, BioFail, Refuse, dataVars
<1>7. QED
  BY Zenon, <1>1, <1>2, <1>4, <1>5, <1>6 DEF IInv, Types

(* The callback frees its context.                                         *)
LEMMA FreeCtxKeeps == ASSUME IInv, NEW c \in Ctxs, FreeCtx(c) PROVE IInv'
<1>1. /\ c \in done /\ heap' = heap \ {c} /\ done' = done \ {c}
      /\ UNCHANGED <<ctx, pages, pc>>
      /\ UNCHANGED <<backend, submitted, store, moved, buf, page, rq, pos, status>>
      /\ UNCHANGED <<stats, stats_lock>>
  BY Zenon DEF FreeCtx, dataVars, fixed, statVars
<1>2. CtxInv'
  <2>1. CtxInv
    BY Zenon DEF IInv
  <2>2. heap' \subseteq Ctxs /\ done' \subseteq heap'
    BY Zenon, <1>1, <2>1 DEF CtxInv
  <2>3. \A e : e \in heap' \ done' <=> e \in heap \ done
    BY Zenon, <1>1
  <2>4. QED
    BY Zenon, <1>1, <2>1, <2>2, <2>3 DEF CtxInv
<1>3. StatsInv'
  BY Zenon, <1>1, StatsKept DEF IInv
<1>4. \A x \in Rqs : Serving(x)'
  BY Zenon, <1>1 DEF IInv, Serving, Issued, Len512
<1>5. QED
  BY Zenon, <1>1, <1>2, <1>3, <1>4 DEF IInv, Types

(* The tag is taken back.                                                  *)
LEMMA ReapKeeps == ASSUME IInv, NEW r \in Rqs, Reap(r) PROVE IInv'
<1>1. /\ pc[r] = "ended" /\ UNCHANGED <<backend, submitted, store>>
      /\ UNCHANGED <<ctx, heap, pages, done, stats, stats_lock>>
  BY Zenon DEF Reap, fixed, ctxVars, statVars
<1>2. /\ pc' \in [Rqs -> Pcs] /\ pc'[r] = "free" /\ \A x \in Rqs \ {r} : pc'[x] = pc[x]
  BY Zenon, GotoKept DEF Reap, Pcs
<1>3. Blank \in Requests /\ Nothing \in [Offsets -> Vals]
  BY BackendAssumption, LengthsAssumption DEF Blank, Requests, AllOps, Nothing
<1>4. /\ rq' \in [Rqs -> Requests] /\ rq'[r] = Blank
      /\ pos' \in [Rqs -> Int] /\ moved' \in [Rqs -> Nat] /\ moved'[r] = 0
      /\ buf' \in [Rqs -> [Offsets -> Vals]] /\ page' \in [Rqs -> [Offsets -> Vals]]
      /\ status' \in [Rqs -> {"ok", "ioerr", "notsupp"}]
      /\ \A x \in Rqs \ {r} : rq'[x] = rq[x] /\ pos'[x] = pos[x] /\ moved'[x] = moved[x]
  BY <1>3 DEF Reap, IInv, Types
<1>5. \A x \in Rqs \ {r} : Serving(x)'
  BY Zenon, <1>1, <1>2, <1>4, OthersKept
<1>6. Serving(r)'
  BY <1>2, <1>4 DEF Serving, Len512, Blank, CtxPcs, PagePcs
<1>7. CtxInv' /\ StatsInv'
  BY Zenon, <1>1, <1>2, <1>4, PlainStep DEF CtxPcs, PagePcs
<1>8. QED
  BY Zenon, <1>1, <1>2, <1>4, <1>5, <1>6, <1>7 DEF IInv, Types
-----------------------------------------------------------------------------
LEMMA HandleKeeps == ASSUME IInv, NEW r \in Rqs, Handle(r) PROVE IInv'
<1>1. CASE Start(r) \/ Count(r) \/ Unlock(r)
  BY Zenon, <1>1, StartKeeps, CountKeeps, UnlockKeeps
<1>2. CASE NoVector(r) \/ DispatchNoSegment(r) \/ VirtualCopy(r) \/ VirtualEnd(r)
  BY Zenon, <1>2, LostKeeps, VirtualCopyKeeps, VirtualEndKeeps
<1>3. CASE AllocCtx(r) \/ AllocPage(r) \/ AddPage(r) \/ BioTransfer(r)
  BY Zenon, <1>3, AllocCtxKeeps, PageKeeps, BioTransferKeeps
<1>4. CASE \/ AllocCtxFail(r) \/ AllocPageFail(r) \/ AddPageFail(r)
           \/ BioComplete(r) \/ BioFail(r)
  BY Zenon, <1>4, DeviceEndKeeps
<1>5. QED
  BY Zenon, <1>1, <1>2, <1>3, <1>4 DEF Handle

LEMMA StepKeeps == ASSUME IInv, [Next]_vars PROVE IInv'
<1>1. ASSUME NEW r \in Rqs, NEW op \in Ops, NEW s \in -1 .. (CapS - 1), NEW n \in 0 .. MaxLen,
             NEW segs \in Shapes \cup {<<>>}, NEW d \in Vals, Submit(r, op, s, n, segs, d)
      PROVE  IInv'
  BY Zenon, <1>1, OpsAssumption, SubmitKeeps
<1>2. ASSUME NEW r \in Rqs, Handle(r) PROVE IInv'
  BY Zenon, <1>2, HandleKeeps
<1>3. ASSUME NEW r \in Rqs, Reap(r) PROVE IInv'
  BY Zenon, <1>3, ReapKeeps
<1>4. CASE StatsReset
  <2>1. /\ stats' = NoStats /\ stats_lock = NULL
        /\ UNCHANGED <<dataVars, pc, rq, pos, ctxVars, status, stats_lock, fixed>>
    BY Zenon, <1>4 DEF StatsReset
  <2>2. stats' \in [Counters -> Nat] /\ Agree(stats')
    BY <2>1, LengthsAssumption DEF NoStats, Counters, Agree
  <2>3. StatsInv'
    BY Zenon, <2>1, <2>2, NullAssumption DEF IInv, StatsInv
  <2>4. CtxInv'
    BY Zenon, <2>1, CtxKept DEF IInv, ctxVars
  <2>5. QED
    BY Zenon, <2>1, <2>3, <2>4 DEF IInv, Types, Serving, Issued, Len512, dataVars, fixed
<1>5. CASE UNCHANGED vars
  <2>1. UNCHANGED <<dataVars, pc, rq, pos, ctxVars, status, statVars, fixed>>
    BY Zenon, <1>5 DEF vars
  <2>2. StatsInv' /\ CtxInv'
    BY Zenon, <2>1, StatsKept, CtxKept DEF IInv, ctxVars, statVars
  <2>3. QED
    BY Zenon, <2>1, <2>2 DEF dataVars, fixed, IInv, Types, Serving, Issued, Len512
<1>6. ASSUME NEW c \in Ctxs, FreeCtx(c) PROVE IInv'
  BY Zenon, <1>6, FreeCtxKeeps
<1>7. QED
  BY Zenon, <1>1, <1>2, <1>3, <1>4, <1>5, <1>6 DEF Next

(* The invariant is inductive.                                             *)
THEOREM Inductive == Spec => []IInv
<1>1. Init => IInv
  BY Zenon, Initially
<1>2. IInv /\ [Next]_vars => IInv'
  BY Zenon, StepKeeps
<1>3. QED
  BY <1>1, <1>2, PTL DEF Spec

(* Every variable keeps its type: no request is transferred beyond its     *)
(* length or outside the medium.                                           *)
THEOREM TypeCorrect == Spec => []TypeOK
<1>1. IInv => TypeOK
  <2> SUFFICES ASSUME IInv PROVE TypeOK
    BY Zenon
  <2>1. moved \in [Rqs -> 0 .. MaxLen]
    <3>1. \A r \in Rqs : moved[r] \in 0 .. MaxLen
      BY Lengths DEF IInv, Types, Serving
    <3>2. QED
      BY Zenon, <3>1 DEF IInv, Types
  <2>2. pages \subseteq heap
    <3>1. \A c \in pages : \E r \in Rqs : ctx[r] = c /\ ctx[r] \in heap
      BY Zenon DEF IInv, CtxInv, CtxPcs
    <3>2. QED
      BY Zenon, <3>1
  <2>3. QED
    BY Zenon, <2>1, <2>2 DEF IInv, Types, CtxInv, StatsInv, TypeOK, Requests
<1>2. QED
  BY <1>1, Inductive, PTL

(* No context leaks and none is used after it is freed, on any path of     *)
(* device_backend_read_async, _write_async and the bio callback, which     *)
(* frees it when the tag of its request may already be in use again.       *)
THEOREM NoContextLeft == Spec => []ContextsFreed
<1>1. IInv => ContextsFreed
  <2> SUFFICES ASSUME CtxInv PROVE ContextsFreed
    BY Zenon DEF IInv
  <2>1. /\ \A r \in Rqs : ctx[r] # NULL <=> pc[r] \in CtxPcs
        /\ \A q, r \in Rqs : ctx[q] = ctx[r] /\ ctx[q] # NULL => q = r
        /\ \A r \in Rqs : ctx[r] # NULL => ctx[r] \in heap \ done
        /\ \A c \in heap \ done : \E r \in Rqs : ctx[r] = c
        /\ heap \subseteq Ctxs /\ done \subseteq heap
    BY Zenon DEF CtxInv
  <2>2. \A c \in Ctxs : c # NULL
    BY Zenon, NullAssumption
  <2>3. \A c \in Ctxs : \A q, r \in {x \in Rqs : ctx[x] = c} : q = r
    BY Zenon, <2>1, <2>2
  <2>4. heap = done \cup {ctx[r] : r \in {q \in Rqs : pc[q] \in CtxPcs}}
    <3>1. \A c \in heap \ done : \E r \in Rqs : ctx[r] = c /\ pc[r] \in CtxPcs
      BY Zenon, <2>1, <2>2
    <3>2. \A r \in Rqs : pc[r] \in CtxPcs => ctx[r] \in heap
      BY Zenon, <2>1
    <3>3. QED
      BY <2>1, <3>1, <3>2
  <2>5. done \cap {ctx[r] : r \in Rqs} = {}
    <3>1. \A r \in Rqs : ctx[r] \notin done
      BY Zenon, <2>1, <2>2
    <3>2. QED
      BY Zenon, <3>1
  <2>6. pages = {ctx[r] : r \in {q \in Rqs : pc[q] \in PagePcs}}
    <3>1. /\ \A r \in Rqs : pc[r] \in PagePcs => ctx[r] \in pages
          /\ \A c \in pages : \E r \in Rqs : ctx[r] = c /\ pc[r] \in PagePcs
      BY Zenon DEF CtxInv
    <3>2. QED
      BY <3>1
  <2>7. QED
    BY Zenon, <2>1, <2>3, <2>4, <2>5, <2>6 DEF ContextsFreed
<1>2. QED
  BY <1>1, Inductive, PTL

(* Operations and sectors are counted and reset together, by any number of *)
(* handlers.                                                               *)
THEOREM Together == Spec => []StatsTogether
<1>1. IInv => StatsTogether
  BY Zenon DEF IInv, StatsInv, StatsTogether, Agree
<1>2. QED
  BY <1>1, Inductive, PTL
-----------------------------------------------------------------------------
(* What an answer of "ok" stands for.                                      *)

(* The sectors a read or write has moved by the time it is answered "ok":  *)
(* all of them with the virtual backend, and those of its first segment,   *)
(* up to a page, on a backing device.                                      *)
Transferred(r) ==
  IF backend = "device" THEN Min({Head(rq[r].segs), PageS}) ELSE Len512(r)

(* A read or write is answered "ok" after exactly the sectors above.       *)
OkTransfers ==
  \A r \in Rqs : pc[r] = "ended" /\ status[r] = "ok" /\ rq[r].op \in {"read", "write"} =>
                   moved[r] = Transferred(r)

(* A request that will never be answered is a flush that the device        *)
(* backend was given, or a discard.                                        *)
LostKinds(r) ==
  /\ pc[r] = "returned" => backend = "device" /\ rq[r].op = "flush"
  /\ pc[r] = "oops" => rq[r].op = "discard"
OnlyTheseLost == \A r \in Rqs : LostKinds(r)

(* Each backend's steps are taken with that backend only.                  *)
OwnSteps ==
  \A r \in Rqs : /\ pc[r] \in CtxPcs \cup {"dispatch"} => backend = "device"
                 /\ pc[r] = "memcpy" => backend # "device"

AnswerInv == IInv /\ OwnSteps /\ OnlyTheseLost /\ OkTransfers

(* Neither the bounds check nor the cut at dev_size shortens a bio.        *)
LEMMA FirstSegment ==
  ASSUME IInv, NEW r \in Rqs, pc[r] = "bio"
  PROVE  BioLen(r) = Min({Head(rq[r].segs), PageS})
<1> DEFINE h == Head(rq[r].segs)
           c == CapS - pos[r]
<1>1. rq[r].segs \in Shapes /\ rq[r].len = LenOf(rq[r].segs)
  BY Zenon, HasSegments DEF IInv, Serving, CtxPcs, PagePcs
<1>2. h \in Int /\ h =< Len512(r) /\ Len512(r) \in Int /\ PageS \in Int /\ CapS \in Int
  BY <1>1, Lengths, CapAssumption DEF IInv
<1>3. pos[r] \in Int /\ pos[r] + Len512(r) =< CapS
  BY Zenon DEF IInv, Types, Serving
<1>4. c \in Int /\ h =< c
  BY <1>2, <1>3
<1> HIDE DEF h, c
<1>5. /\ Min({h, c, PageS}) \in {h, c, PageS}
      /\ Min({h, c, PageS}) =< h /\ Min({h, c, PageS}) =< PageS
      /\ Min({h, PageS}) \in {h, PageS}
      /\ Min({h, PageS}) =< h /\ Min({h, PageS}) =< PageS
  BY Zenon, <1>2, <1>4, MinOfTwo, MinOfThree
<1> DEFINE m == Min({h, c, PageS})
           n == Min({h, PageS})
<1> HIDE DEF m, n
<1>6. m \in {h, c, PageS} /\ m =< h /\ m =< PageS /\ n \in {h, PageS} /\ n =< h /\ n =< PageS
  BY Zenon, <1>5 DEF m, n
<1>7. m = n
  BY <1>2, <1>4, <1>6
<1>8. QED
  BY Zenon, <1>7 DEF m, n, h, c, BioLen

(* A step that leaves every answered request as it was.                    *)
LEMMA AnswersStay ==
  ASSUME AnswerInv, NEW r \in Rqs, backend' = backend,
         \A x \in Rqs \ {r} : /\ pc'[x] = pc[x] /\ rq'[x] = rq[x]
                              /\ moved'[x] = moved[x] /\ status'[x] = status[x],
         /\ pc'[r] \in CtxPcs \cup {"dispatch"} => backend = "device"
         /\ pc'[r] = "memcpy" => backend # "device",
         LostKinds(r)',
         pc'[r] = "ended" /\ status'[r] = "ok" /\ rq'[r].op \in {"read", "write"} =>
           moved'[r] = Transferred(r)'
  PROVE  OwnSteps' /\ OnlyTheseLost' /\ OkTransfers'
<1>1. \A x \in Rqs \ {r} : Transferred(x)' = Transferred(x)
  BY Zenon DEF Transferred, Len512
<1>2. OkTransfers'
  BY Zenon, <1>1 DEF AnswerInv, OkTransfers
<1>3. OwnSteps'
  BY Zenon DEF AnswerInv, OwnSteps
<1>4. OnlyTheseLost'
  BY Zenon DEF AnswerInv, OnlyTheseLost, LostKinds
<1>5. QED
  BY Zenon, <1>2, <1>3, <1>4

(* A request is answered.                                                  *)
LEMMA AnswerCounts ==
  ASSUME AnswerInv, NEW r \in Rqs, NEW s, End(r, s), UNCHANGED <<rq, moved, backend>>,
         s = "ok" /\ rq[r].op \in {"read", "write"} => moved[r] = Transferred(r)
  PROVE  OwnSteps' /\ OnlyTheseLost' /\ OkTransfers'
<1>1. /\ pc'[r] = "ended" /\ \A x \in Rqs \ {r} : pc'[x] = pc[x]
      /\ status'[r] = s /\ \A x \in Rqs \ {r} : status'[x] = status[x]
  BY Zenon DEF End, Goto, AnswerInv, IInv, Types
<1>2. Transferred(r)' = Transferred(r)
  BY Zenon DEF Transferred, Len512
<1>3. QED
  BY Zenon, <1>1, <1>2, AnswersStay DEF LostKinds, CtxPcs, PagePcs

(* A request goes on, or its tag is taken back.                            *)
LEMMA GoesOn ==
  ASSUME AnswerInv, NEW r \in Rqs, NEW l \in Pcs \ {"ended"}, Goto(r, l), backend' = backend,
         /\ l \in CtxPcs \cup {"dispatch"} => backend = "device"
         /\ l = "memcpy" => backend # "device"
         /\ l = "returned" => backend = "device" /\ rq'[r].op = "flush"
         /\ l = "oops" => rq'[r].op = "discard",
         \A x \in Rqs \ {r} : /\ rq'[x] = rq[x] /\ moved'[x] = moved[x]
                              /\ status'[x] = status[x]
  PROVE  OwnSteps' /\ OnlyTheseLost' /\ OkTransfers'
<1>1. pc'[r] = l /\ \A x \in Rqs \ {r} : pc'[x] = pc[x]
  BY Zenon DEF Goto, AnswerInv, IInv, Types
<1>2. QED
  BY Zenon, <1>1, AnswersStay DEF LostKinds

(* A sector is moved.                                                      *)
LEMMA SectorMoved ==
  ASSUME AnswerInv, NEW r \in Rqs, pc[r] # "ended", OneMore(r),
         UNCHANGED <<pc, rq, status, backend>>
  PROVE  OwnSteps' /\ OnlyTheseLost' /\ OkTransfers'
<1>1. \A x \in Rqs \ {r} : moved'[x] = moved[x]
  BY Zenon DEF OneMore, AnswerInv, IInv, Types
<1>2. QED
  BY Zenon, <1>1, AnswersStay DEF AnswerInv, OwnSteps, OnlyTheseLost, LostKinds

(* The steps of the handler and of the callback.                           *)
LEMMA HandleCounts ==
  ASSUME AnswerInv, NEW r \in Rqs, Handle(r)
  PROVE  OwnSteps' /\ OnlyTheseLost' /\ OkTransfers'
<1>1. CASE Start(r)
  <2>1. /\ (End(r, "ioerr") \/ (Goto(r, "counting") /\ status' = status))
        /\ UNCHANGED <<rq, moved, backend>>
    BY Zenon, <1>1 DEF Start, NotEnded, dataVars, fixed
  <2>2. QED
    BY Zenon, <2>1, AnswerCounts, GoesOn DEF Pcs, CtxPcs, PagePcs
<1>a. CASE Count(r)
  <2>1. Goto(r, "counted") /\ UNCHANGED <<rq, moved, status, backend>>
    BY Zenon, <1>a DEF Count, NotEnded, dataVars, fixed
  <2>2. QED
    BY Zenon, <2>1, GoesOn DEF Pcs, CtxPcs, PagePcs
<1>2. CASE Unlock(r)
  <2>1. \/ rq[r].op = "drv" /\ End(r, "ok")
        \/ End(r, "notsupp")
        \/ backend = "device" /\ Goto(r, "dispatch") /\ status' = status
        \/ backend # "device" /\ Goto(r, "memcpy") /\ status' = status
    BY Zenon, <1>2 DEF Unlock, NotEnded
  <2>2. UNCHANGED <<rq, moved, backend>>
    BY Zenon, <1>2 DEF Unlock, dataVars, fixed
  <2>3. QED
    BY Zenon, <2>1, <2>2, AnswerCounts, GoesOn DEF Pcs, CtxPcs, PagePcs
<1>3. CASE VirtualCopy(r) \/ BioTransfer(r)
  <2>1. pc[r] # "ended" /\ OneMore(r) /\ UNCHANGED <<pc, rq, status, backend>>
    BY Zenon, <1>3 DEF VirtualCopy, BioTransfer, fixed
  <2>2. QED
    BY Zenon, <2>1, SectorMoved
<1>4. CASE VirtualEnd(r)
  <2>1. pc[r] = "memcpy" /\ moved[r] >= Extent(r) /\ End(r, "ok")
    BY Zenon, <1>4 DEF VirtualEnd
  <2>2. UNCHANGED <<rq, moved, backend>>
    BY Zenon, <1>4 DEF VirtualEnd, dataVars, fixed
  <2>3. moved[r] >= Len512(r)
    BY Zenon, <2>1, ExtentIsLength DEF AnswerInv
  <2>4. moved[r] =< Len512(r) /\ moved[r] \in Nat /\ backend # "device"
    BY Zenon, <2>1 DEF AnswerInv, IInv, Types, Serving, OwnSteps
  <2>5. Len512(r) \in Int
    BY Lengths DEF AnswerInv, IInv
  <2>6. moved[r] = Transferred(r)
    BY <2>3, <2>4, <2>5 DEF Transferred
  <2>7. QED
    BY Zenon, <2>1, <2>2, <2>6, AnswerCounts
<1>5. CASE AllocCtx(r) \/ AllocPage(r) \/ AddPage(r)
  <2>1. /\ pc[r] \in CtxPcs \cup {"dispatch"} /\ \E l \in CtxPcs : Goto(r, l)
        /\ UNCHANGED <<rq, moved, status, backend>>
    BY Zenon, <1>5
    DEF AllocCtx, AllocPage, AddPage, NotEnded, dataVars, fixed, CtxPcs, PagePcs
  <2>2. backend = "device"
    BY Zenon, <2>1 DEF AnswerInv, OwnSteps
  <2>3. \A l \in CtxPcs : l \in Pcs \ {"ended"} /\ l \notin {"memcpy", "returned", "oops"}
    BY Zenon DEF Pcs, CtxPcs, PagePcs
  <2>4. QED
    BY Zenon, <2>1, <2>2, <2>3, GoesOn
<1>6. CASE AllocCtxFail(r) \/ AllocPageFail(r) \/ AddPageFail(r) \/ BioFail(r)
  <2>1. End(r, "ioerr") /\ UNCHANGED <<rq, moved, backend>>
    BY Zenon, <1>6
    DEF AllocCtxFail, AllocPageFail, AddPageFail, BioFail, Refuse, Answer, dataVars, fixed
  <2>2. QED
    BY Zenon, <2>1, AnswerCounts
<1>7. CASE DispatchNoSegment(r)
  <2>1. /\ pc[r] = "dispatch" /\ Len512(r) = 0
        /\ Goto(r, "returned") /\ UNCHANGED <<rq, moved, status, backend>>
    BY Zenon, <1>7 DEF DispatchNoSegment, NotEnded, dataVars, fixed
  <2>2. backend = "device" /\ Issued(r) /\ rq[r].op \notin {"drv", "zeroes"}
    BY Zenon, <2>1 DEF AnswerInv, OwnSteps, IInv, Serving
  <2>3. ~(rq[r].len > 0)
    BY <2>1 DEF Len512
  <2>4. rq[r].op = "flush"
    BY Zenon, <2>2, <2>3 DEF Issued
  <2>5. QED
    BY Zenon, <2>1, <2>2, <2>4, GoesOn DEF Pcs, CtxPcs, PagePcs
<1>8. CASE NoVector(r)
  <2>1. /\ pc[r] \in {"dispatch", "memcpy"} /\ rq[r].segs = <<>> /\ Len512(r) > 0
        /\ Goto(r, "oops") /\ UNCHANGED <<rq, moved, status, backend>>
    BY Zenon, <1>8 DEF NoVector, NotEnded, dataVars, fixed
  <2>2. Issued(r) /\ rq[r].op \in AllOps \ {"drv", "zeroes"}
    BY Zenon, <2>1 DEF AnswerInv, IInv, Serving, Types, Requests
  <2>3. rq[r].op \notin {"read", "write"}
    BY Zenon, <2>1, <2>2, ShapesAssumption DEF Issued
  <2>4. rq[r].op # "flush"
    BY <2>1, <2>2 DEF Issued, Len512
  <2>5. rq[r].op = "discard"
    BY Zenon, <2>2, <2>3, <2>4 DEF AllOps
  <2>6. QED
    BY Zenon, <2>1, <2>5, GoesOn DEF Pcs, CtxPcs, PagePcs
<1>9. CASE BioComplete(r)
  <2>1. pc[r] = "bio" /\ moved[r] = BioLen(r) /\ End(r, "ok") /\ UNCHANGED <<rq, moved, backend>>
    BY Zenon, <1>9 DEF BioComplete, Answer, fixed
  <2>2. backend = "device"
    BY Zenon, <2>1 DEF AnswerInv, OwnSteps, CtxPcs, PagePcs
  <2>3. moved[r] = Transferred(r)
    BY Zenon, <2>1, <2>2, FirstSegment DEF Transferred, AnswerInv
  <2>4. QED
    BY Zenon, <2>1, <2>3, AnswerCounts
<1>10. QED
  BY Zenon, <1>1, <1>a, <1>2, <1>3, <1>4, <1>5, <1>6, <1>7, <1>8, <1>9 DEF Handle

LEMMA StepCounts == ASSUME AnswerInv, [Next]_vars PROVE AnswerInv'
<1>1. IInv'
  BY Zenon, StepKeeps DEF AnswerInv
<1>2. ASSUME NEW r \in Rqs, NEW op \in Ops, NEW s \in -1 .. (CapS - 1), NEW n \in 0 .. MaxLen,
             NEW segs \in Shapes \cup {<<>>}, NEW d \in Vals, Submit(r, op, s, n, segs, d)
      PROVE  OwnSteps' /\ OnlyTheseLost' /\ OkTransfers'
  <2>1. /\ Goto(r, "queued") /\ UNCHANGED <<moved, status, backend>>
        /\ \A x \in Rqs \ {r} : rq'[x] = rq[x]
    BY Zenon, <1>2 DEF Submit, dataVars, AnswerInv, IInv, Types
  <2>2. QED
    BY Zenon, <2>1, GoesOn DEF Pcs, CtxPcs, PagePcs
<1>3. ASSUME NEW r \in Rqs, Reap(r)
      PROVE  OwnSteps' /\ OnlyTheseLost' /\ OkTransfers'
  <2>1. /\ Goto(r, "free") /\ backend' = backend
        /\ \A x \in Rqs \ {r} : rq'[x] = rq[x] /\ moved'[x] = moved[x] /\ status'[x] = status[x]
    BY Zenon, <1>3 DEF Reap, fixed, AnswerInv, IInv, Types
  <2>2. QED
    BY Zenon, <2>1, GoesOn DEF Pcs, CtxPcs, PagePcs
<1>4. ASSUME StatsReset \/ (\E c \in Ctxs : FreeCtx(c)) \/ UNCHANGED vars
      PROVE  OwnSteps' /\ OnlyTheseLost' /\ OkTransfers'
  <2>1. UNCHANGED <<backend, moved, pc, rq, status>>
    BY Zenon, <1>4 DEF StatsReset, FreeCtx, vars, dataVars, fixed
  <2>2. QED
    BY Zenon, <2>1
    DEF AnswerInv, OwnSteps, OnlyTheseLost, LostKinds, OkTransfers, Transferred, Len512
<1>5. QED
  BY Zenon, <1>1, <1>2, <1>3, <1>4, HandleCounts DEF Next, AnswerInv

LEMMA AnswerInvHolds == Spec => []AnswerInv
<1>1. Init => AnswerInv
  BY Zenon, Initially
  DEF Init, AnswerInv, OwnSteps, OnlyTheseLost, LostKinds, OkTransfers, CtxPcs, PagePcs
<1>2. AnswerInv /\ [Next]_vars => AnswerInv'
  BY Zenon, StepCounts
<1>3. QED
  BY <1>1, <1>2, PTL DEF Spec

(* What a read or write answered "ok" has moved, whatever the backend, the *)
(* segments, the page and the block size: everything with the virtual      *)
(* backend, the first segment up to a page on a backing device.            *)
THEOREM WhatOkMeans == Spec => []OkTransfers
<1>1. AnswerInv => OkTransfers
  BY Zenon DEF AnswerInv
<1>2. QED
  BY <1>1, AnswerInvHolds, PTL

(* Of all requests only a flush sent to a backing device reaches the end   *)
(* of uringblk_queue_rq with neither an answer nor a bio to answer it, and *)
(* only a discard loses its handler.                                       *)
THEOREM OthersAnswered == Spec => []OnlyTheseLost
<1>1. AnswerInv => OnlyTheseLost
  BY Zenon DEF AnswerInv
<1>2. QED
  BY <1>1, AnswerInvHolds, PTL

(* Requests of one segment that fits in a page, where there is a backing   *)
(* device.                                                                 *)
OneBio ==
  "device" \in Backends =>
    \A sh \in Shapes : Head(sh) = LenOf(sh) /\ LenOf(sh) =< PageS

(* Where device_backend_read_async and _write_async are given one segment  *)
(* of at most a page, "ok" means that the whole request was transferred,   *)
(* for every block size; the virtual backend needs no such restriction.    *)
THEOREM OkIsWhole == ASSUME OneBio PROVE Spec => []OkMeansWhole
<1>1. IInv /\ OkTransfers => OkMeansWhole
  <2> SUFFICES ASSUME IInv, OkTransfers, NEW r \in Rqs, pc[r] = "ended", status[r] = "ok",
                      rq[r].op \in {"read", "write"}
               PROVE  moved[r] = Len512(r)
    BY Zenon DEF OkMeansWhole
  <2>1. moved[r] = Transferred(r)
    BY Zenon DEF OkTransfers
  <2>2. CASE backend = "device"
    <3>1. rq[r].segs \in Shapes /\ rq[r].len = LenOf(rq[r].segs) /\ "device" \in Backends
      BY Zenon, <2>2, HasSegments DEF IInv, Types
    <3>2. Head(rq[r].segs) = Len512(r) /\ Len512(r) =< PageS
      BY Zenon, <3>1 DEF OneBio, Len512
    <3>3. Len512(r) \in Int /\ PageS \in Int
      BY Lengths, CapAssumption DEF IInv
    <3>4. \A a, b \in Int : a =< b => Min({a, b}) = a
      BY MinOfTwo
    <3>5. QED
      BY Zenon, <2>1, <2>2, <3>2, <3>3, <3>4 DEF Transferred
  <2>3. QED
    BY Zenon, <2>1, <2>2 DEF Transferred
<1>2. QED
  BY <1>1, Inductive, WhatOkMeans, PTL

(* With logical blocks of one sector, uringblk_queue_rq takes a sector of  *)
(* the disk to the same address of the medium in every request.            *)
THEOREM SectorsInPlace == ASSUME LBS = 1 PROVE Spec => []OneAddressPerSector
<1>1. IInv => OneAddressPerSector
  <2> SUFFICES ASSUME IInv, NEW q \in Rqs, NEW r \in Rqs, NEW s \in 0 .. (DiskSectors - 1),
                      pc[q] \in {"memcpy", "bio"}, pc[r] \in {"memcpy", "bio"}
               PROVE  pos[q] + (s - rq[q].sector) = pos[r] + (s - rq[r].sector)
    BY Zenon DEF OneAddressPerSector
  <2>1. /\ pos[q] = rq[q].sector * LBS /\ pos[r] = rq[r].sector * LBS
        /\ rq[q].sector \in Int /\ rq[r].sector \in Int
    BY Zenon DEF IInv, Serving, Types, Requests
  <2>2. s \in Int
    BY CapAssumption DEF DiskSectors
  <2>3. QED
    BY <2>1, <2>2
<1>2. QED
  BY <1>1, Inductive, PTL

(* The sectors of the medium that a transfer reaches, from its position to *)
(* its length, are sectors the backend has.                                *)
TransfersInside ==
  \A r \in Rqs : pc[r] \in {"memcpy", "bio"} =>
    \A o \in Offsets : o < Len512(r) => pos[r] + o \in Addresses

(* For every block size and capacity the bounds check of uringblk_queue_rq *)
(* keeps the copies of both backends inside the medium.                    *)
THEOREM InsideMedium == Spec => []TransfersInside
<1>1. IInv => TransfersInside
  <2> SUFFICES ASSUME IInv, NEW r \in Rqs, pc[r] \in {"memcpy", "bio"},
                      NEW o \in Offsets, o < Len512(r)
               PROVE  pos[r] + o \in Addresses
    BY Zenon DEF TransfersInside
  <2>1. rq[r].op \notin {"flush", "drv"}
    <3>1. rq[r].op \in {"flush", "drv"} => Len512(r) = 0
      BY Zenon DEF IInv, Serving, Issued, Len512
    <3>2. o >= 0 /\ o \in Int
      BY DEF Offsets
    <3>3. QED
      BY <3>1, <3>2
  <2>2. /\ rq[r].sector \in Nat /\ pos[r] = rq[r].sector * LBS /\ pos[r] + Len512(r) =< CapS
    BY Zenon, <2>1 DEF IInv, Serving, Issued
  <2>3. Len512(r) \in Int /\ CapS \in Nat /\ LBS \in Nat
    BY Lengths, CapAssumption DEF IInv
  <2>4. pos[r] \in Nat
    BY <2>2, <2>3
  <2>5. QED
    BY <2>2, <2>3, <2>4 DEF Offsets, Addresses
<1>2. QED
  BY <1>1, Inductive, PTL

-----------------------------------------------------------------------------
(* The disk.                                                               *)

(* Logical blocks of one sector and, on a backing device, requests of one  *)
(* segment that fits in a page: what the code transfers in full.           *)
Whole == LBS = 1 /\ OneBio

(* The memory of a request: its buffer is as it came until a read puts     *)
(* something there, and the context's page holds what a read has found so  *)
(* far, or all that a write will put on the medium.                        *)
Memory(r) ==
  /\ pc[r] \in {"free", "queued", "counting", "counted", "dispatch"} \cup CtxPcs
       => buf[r] = Nothing
  /\ pc[r] \in CtxPcs \cup {"dispatch"} => backend = "device"
  /\ pc[r] = "bio" /\ rq[r].op = "read" =>
       \A o \in Offsets : o >= moved[r] => page[r][o] = Zero
  /\ pc[r] = "bio" /\ rq[r].op = "write" =>
       \A o \in Offsets : o < Len512(r) => page[r][o] = rq[r].data

DInv == IInv /\ \A r \in Rqs : Memory(r)

-----------------------------------------------------------------------------
(* A bio is as long as its request.                                        *)
LEMMA BioIsWhole ==
  ASSUME Whole, DInv, NEW r \in Rqs, pc[r] \in CtxPcs
  PROVE  BioLen(r) = Len512(r)
<1>1. /\ rq[r].segs \in Shapes /\ rq[r].len = LenOf(rq[r].segs)
      /\ backend \in Backends /\ backend = "device"
  BY Zenon, HasSegments DEF DInv, IInv, Types, Serving, Memory, CtxPcs, PagePcs
<1>2. /\ Head(rq[r].segs) = Len512(r) /\ Len512(r) =< PageS
  BY Zenon, <1>1 DEF Whole, OneBio, Len512
<1>a. pos[r] \in Int /\ pos[r] + Len512(r) =< CapS
  BY Zenon DEF DInv, IInv, Types, Serving, CtxPcs, PagePcs
<1>b. Len512(r) \in Int /\ CapS \in Int /\ PageS \in Int
  BY Lengths, CapAssumption DEF DInv, IInv
<1>3. CapS - pos[r] \in Int /\ Len512(r) =< CapS - pos[r]
  BY <1>a, <1>b
<1>4. \A a, b, c \in Int : a =< b /\ a =< c => Min({a, b, c}) = a
  <2> SUFFICES ASSUME NEW a \in Int, NEW b \in Int, NEW c \in Int, a =< b, a =< c
               PROVE  Min({a, b, c}) = a
    BY Zenon
  <2> DEFINE m == Min({a, b, c})
  <2>1. m \in {a, b, c} /\ m =< a
    BY MinOfThree, Zenon
  <2> HIDE DEF m
  <2>2. m = a
    BY <2>1
  <2>3. QED
    BY Zenon, <2>2 DEF m
<1>5. QED
  BY <1>b, <1>2, <1>3, <1>4, Zenon DEF BioLen

(* Two functions on requests that differ at most at r.                     *)
LEMMA DifferAt ==
  ASSUME NEW f, NEW g, f = [x \in Rqs |-> f[x]], g = [x \in Rqs |-> g[x]], NEW r \in Rqs,
         \A x \in Rqs \ {r} : g[x] = f[x]
  PROVE  g = [f EXCEPT ![r] = g[r]] /\ (g[r] = f[r] => g = f)
BY Zenon

(* The mapped state is made of functions on requests.                      *)
LEMMA Mapped ==
  /\ DiskState = [x \in Rqs |-> DiskState[x]] /\ DiskReq = [x \in Rqs |-> DiskReq[x]]
  /\ DiskMoved = [x \in Rqs |-> DiskMoved[x]] /\ DiskGot = [x \in Rqs |-> DiskGot[x]]
BY Zenon DEF DiskState, DiskReq, DiskMoved, DiskGot

LEMMA MappedNext ==
  /\ DiskState' = [x \in Rqs |-> DiskState'[x]] /\ DiskReq' = [x \in Rqs |-> DiskReq'[x]]
  /\ DiskMoved' = [x \in Rqs |-> DiskMoved'[x]] /\ DiskGot' = [x \in Rqs |-> DiskGot'[x]]
BY Zenon DEF DiskState, DiskReq, DiskMoved, DiskGot

(* A step of one request changes the mapped state at that request only.    *)
LEMMA MappedAt ==
  ASSUME NEW r \in Rqs,
         \A x \in Rqs \ {r} : /\ pc'[x] = pc[x] /\ rq'[x] = rq[x] /\ moved'[x] = moved[x]
                              /\ status'[x] = status[x] /\ buf'[x] = buf[x] /\ page'[x] = page[x]
  PROVE  /\ DiskState' = [DiskState EXCEPT ![r] = DiskState'[r]]
         /\ DiskReq' = [DiskReq EXCEPT ![r] = DiskReq'[r]]
         /\ DiskMoved' = [DiskMoved EXCEPT ![r] = DiskMoved'[r]]
         /\ DiskGot' = [DiskGot EXCEPT ![r] = DiskGot'[r]]
         /\ DiskState'[r] = DiskState[r] => DiskState' = DiskState
         /\ DiskReq'[r] = DiskReq[r] => DiskReq' = DiskReq
         /\ DiskMoved'[r] = DiskMoved[r] => DiskMoved' = DiskMoved
         /\ DiskGot'[r] = DiskGot[r] => DiskGot' = DiskGot
<1>1. \A x \in Rqs \ {r} : DiskState'[x] = DiskState[x]
  BY Zenon DEF DiskState
<1>2. \A x \in Rqs \ {r} : DiskReq'[x] = DiskReq[x]
  BY Zenon DEF DiskReq, Len512
<1>3. \A x \in Rqs \ {r} : DiskMoved'[x] = DiskMoved[x] /\ DiskGot'[x] = DiskGot[x]
  BY Zenon DEF DiskMoved, DiskGot
<1>4. QED
  BY <1>1, <1>2, <1>3, Mapped, MappedNext, DifferAt
-----------------------------------------------------------------------------
(* Memory is kept by a step of another request.                            *)
LEMMA MemoryKept ==
  ASSUME DInv, NEW r \in Rqs, backend' = backend,
         \A x \in Rqs \ {r} : /\ pc'[x] = pc[x] /\ rq'[x] = rq[x] /\ moved'[x] = moved[x]
                              /\ buf'[x] = buf[x] /\ page'[x] = page[x],
         Memory(r)'
  PROVE  \A x \in Rqs : Memory(x)'
<1>1. \A x \in Rqs \ {r} : Memory(x)'
  BY DEF DInv, Memory, Len512
<1>2. QED
  BY Zenon, <1>1

(* What a step on request r that changes the program counter does to it.   *)
LEMMA AtPc ==
  ASSUME DInv, NEW r \in Rqs, NEW l, Goto(r, l)
  PROVE  pc'[r] = l /\ \A x \in Rqs \ {r} : pc'[x] = pc[x]
BY Zenon DEF Goto, DInv, IInv, Types

LEMMA AtEnd ==
  ASSUME DInv, NEW r \in Rqs, NEW s, End(r, s)
  PROVE  /\ pc'[r] = "ended" /\ \A x \in Rqs \ {r} : pc'[x] = pc[x]
         /\ status'[r] = s /\ \A x \in Rqs \ {r} : status'[x] = status[x]
BY Zenon DEF End, Goto, DInv, IInv, Types

(* The block layer's request is taken.                                     *)
LEMMA SubmitTakes ==
  ASSUME DInv, NEW r \in Rqs, NEW op \in Ops, NEW s \in -1 .. (CapS - 1), NEW n \in 0 .. MaxLen,
         NEW segs \in Shapes \cup {<<>>}, NEW d \in Vals, Submit(r, op, s, n, segs, d)
  PROVE  Disk!Take(r) /\ \A x \in Rqs : Memory(x)'
<1>1. /\ pc[r] = "free" /\ pc'[r] = "queued" /\ \A x \in Rqs \ {r} : pc'[x] = pc[x]
      /\ UNCHANGED <<backend, store, moved, buf, page, status>>
  BY Zenon, AtPc DEF Submit, dataVars
<1>2. /\ rq'[r] = [op |-> op, sector |-> s, len |-> n, segs |-> segs, data |-> d]
      /\ \A x \in Rqs \ {r} : rq'[x] = rq[x]
  BY Zenon DEF Submit, DInv, IInv, Types
<1>4. DiskState[r] = "free" /\ DiskState'[r] = "active"
  BY Zenon, <1>1 DEF DiskState
<1>5. DiskReq'[r] \in Disk!Requests
  <2>1. DiskReq'[r] = [op |-> op, sector |-> s, len |-> n, data |-> d]
    BY <1>2 DEF DiskReq, Len512
  <2>2. s \in Addresses \cup {-1} /\ op \in AllOps
    BY CapAssumption, OpsAssumption DEF Addresses
  <2>3. QED
    BY <2>1, <2>2 DEF Disk!Requests, AllOps
<1>6. DiskMoved'[r] = DiskMoved[r] /\ DiskGot'[r] = DiskGot[r]
  BY Zenon, <1>1 DEF DiskMoved, DiskGot
<1>7. Disk!Take(r)
  BY Zenon, <1>1, <1>2, <1>4, <1>5, <1>6, MappedAt DEF Disk!Take
<1>8. Memory(r)'
  BY Zenon, <1>1 DEF DInv, Memory, CtxPcs, PagePcs
<1>9. QED
  BY Zenon, <1>1, <1>2, <1>7, <1>8, MemoryKept

(* Steps that nothing of the disk can be seen to do.                       *)
LEMMA NothingSeen ==
  ASSUME DInv, NEW r \in Rqs, UNCHANGED <<rq, moved, status, store>>,
         \A x \in Rqs \ {r} : pc'[x] = pc[x] /\ buf'[x] = buf[x] /\ page'[x] = page[x],
         pc[r] \notin {"free", "ended"}, pc'[r] \notin {"free", "ended"},
         DiskGot'[r] = DiskGot[r]
  PROVE  UNCHANGED Disk!vars
<1>1. DiskState'[r] = DiskState[r]
  BY Zenon DEF DiskState
<1>2. DiskReq'[r] = DiskReq[r] /\ DiskMoved'[r] = DiskMoved[r]
  BY Zenon DEF DiskReq, DiskMoved, Len512
<1>3. QED
  BY Zenon, <1>1, <1>2, MappedAt DEF Disk!vars

(* Steps that answer a request.                                            *)
LEMMA Answers ==
  ASSUME DInv, NEW r \in Rqs, NEW s \in {"ok", "ioerr", "notsupp"}, End(r, s),
         pc[r] \notin {"free", "ended"}, UNCHANGED <<rq, moved, store, backend>>,
         \A x \in Rqs \ {r} : buf'[x] = buf[x] /\ page'[x] = page[x],
         s = "ok" /\ rq[r].op \in {"read", "write"} => moved[r] = Len512(r),
         DiskGot'[r] = DiskGot[r] \/ (s = "ioerr" /\ DiskGot'[r] = Nothing)
  PROVE  (\E t \in {"ok", "ioerr"} : Disk!Answer(r, t)) /\ \A x \in Rqs : Memory(x)'
<1> DEFINE t == IF s = "ok" THEN "ok" ELSE "ioerr"
<1>1. /\ pc'[r] = "ended" /\ \A x \in Rqs \ {r} : pc'[x] = pc[x]
      /\ status'[r] = s /\ \A x \in Rqs \ {r} : status'[x] = status[x]
  BY Zenon, AtEnd
<1>2. DiskState[r] = "active" /\ DiskState'[r] = t
  BY Zenon, <1>1 DEF DiskState
<1>3. DiskReq'[r] = DiskReq[r] /\ DiskMoved'[r] = DiskMoved[r]
  BY Zenon DEF DiskReq, DiskMoved, Len512
<1>4. t = "ok" /\ DiskReq[r].op \in {"read", "write"}
        => DiskMoved[r] = 0 .. (DiskReq[r].len - 1)
  BY Zenon DEF DiskReq, DiskMoved
<1>5. \/ DiskGot' = DiskGot
      \/ t = "ioerr" /\ DiskGot' = [DiskGot EXCEPT ![r] = Disk!Nothing]
  BY Zenon, <1>1, MappedAt DEF Nothing, Disk!Nothing, Offsets, Disk!Offsets
<1>6. Disk!Answer(r, t)
  BY Zenon, <1>1, <1>2, <1>3, <1>4, <1>5, MappedAt DEF Disk!Answer
<1>7. Memory(r)'
  BY Zenon, <1>1 DEF Memory, CtxPcs, PagePcs
<1>8. QED
  BY Zenon, <1>1, <1>6, <1>7, MemoryKept
-----------------------------------------------------------------------------
(* A sector is transferred.                                                *)
LEMMA Moves ==
  ASSUME Whole, DInv, NEW r \in Rqs, pc[r] \in {"memcpy", "bio"}, moved[r] < Len512(r),
         OneMore(r), UNCHANGED <<pc, rq, status>>, rq[r].op \in {"read", "write"},
         \A x \in Rqs \ {r} : buf'[x] = buf[x] /\ page'[x] = page[x],
         store' = IF rq[r].op = "read" THEN store ELSE CopyOut(r, rq[r].data),
         DiskGot'[r] = IF rq[r].op = "read"
                       THEN [DiskGot[r] EXCEPT ![moved[r]] = store[pos[r] + moved[r]]]
                       ELSE DiskGot[r]
  PROVE  Disk!Move(r)
<1> DEFINE m == moved[r]
           first == DiskReq[r].sector
           O == DiskMoved'[r] \ DiskMoved[r]
           Hit == {first + o : o \in O}
<1>1. m \in Nat /\ m \in Offsets /\ pos[r] + m \in Addresses /\ Len512(r) \in Nat
  BY InRange, Lengths DEF DInv, IInv, Types
<1>2. moved'[r] = m + 1 /\ \A x \in Rqs \ {r} : moved'[x] = moved[x]
  BY Zenon DEF OneMore, DInv, IInv, Types
<1>3. /\ DiskMoved[r] = 0 .. (m - 1) /\ DiskMoved'[r] = 0 .. m
  BY <1>1, <1>2 DEF DiskMoved
<1>4. O = {m} /\ DiskMoved[r] \subseteq DiskMoved'[r]
  BY <1>1, <1>3
<1>5. /\ DiskReq[r].op = rq[r].op /\ DiskReq[r].len = Len512(r)
      /\ DiskReq[r].data = rq[r].data /\ first = pos[r]
  <2>1. pos[r] = rq[r].sector
    BY DEF Whole, DInv, IInv, Types, Requests, Serving
  <2>2. QED
    BY Zenon, <2>1 DEF DiskReq
<1>6. DiskMoved'[r] \subseteq 0 .. (DiskReq[r].len - 1)
  <2>1. 0 .. m \subseteq 0 .. (Len512(r) - 1)
    BY <1>1
  <2>2. QED
    BY Zenon, <1>3, <1>5, <2>1
<1>7. Hit = {pos[r] + m}
  BY Zenon, <1>4, <1>5
<1>8. store \in [Addresses -> Vals] /\ DiskGot[r] \in [Offsets -> Vals]
  BY Zenon DEF DInv, IInv, Types, DiskGot
<1>9. store' = CASE DiskReq[r].op = "write" ->
                      [s \in Addresses |-> IF s \in Hit THEN DiskReq[r].data ELSE store[s]]
                 [] DiskReq[r].op = "discard" ->
                      [s \in Addresses |-> IF s \in Hit THEN Zero ELSE store[s]]
                 [] OTHER -> store
  <2> HIDE DEF Hit
  <2>1. CASE rq[r].op = "read"
    BY Zenon, <1>5, <2>1
  <2>2. CASE rq[r].op = "write"
    BY <1>1, <1>5, <1>7, <1>8, <2>2, Zenon DEF CopyOut
  <2>3. QED
    BY Zenon, <2>1, <2>2
<1>10. DiskGot'[r] = IF DiskReq[r].op = "read"
                     THEN [o \in Offsets |-> IF o \in O THEN store[first + o] ELSE DiskGot[r][o]]
                     ELSE DiskGot[r]
  <2> HIDE DEF O, first
  <2>1. CASE rq[r].op = "read"
    <3>1. [DiskGot[r] EXCEPT ![m] = store[pos[r] + m]]
            = [o \in Offsets |-> IF o \in O THEN store[first + o] ELSE DiskGot[r][o]]
      BY Zenon, <1>1, <1>4, <1>5, <1>8
    <3>2. QED
      BY Zenon, <1>5, <2>1, <3>1
  <2>2. CASE rq[r].op # "read"
    BY Zenon, <1>5, <2>2
  <2>3. QED
    BY Zenon, <2>1, <2>2
<1>11. /\ DiskMoved' = [DiskMoved EXCEPT ![r] = DiskMoved'[r]]
       /\ DiskGot' = [DiskGot EXCEPT ![r] = DiskGot'[r]]
       /\ DiskState' = DiskState /\ DiskReq' = DiskReq /\ DiskState[r] = "active"
  <2>1. DiskState'[r] = DiskState[r] /\ DiskReq'[r] = DiskReq[r] /\ DiskState[r] = "active"
    BY Zenon DEF DiskState, DiskReq, Len512
  <2>2. QED
    BY Zenon, <1>2, <2>1, MappedAt
<1>12. DiskGot' = [DiskGot EXCEPT ![r] =
                    IF DiskReq[r].op = "read"
                    THEN [o \in Offsets |-> IF o \in O THEN store[first + o] ELSE @[o]] ELSE @]
  BY Zenon, <1>10, <1>11
<1>13. QED
  BY Zenon, <1>4, <1>6, <1>9, <1>11, <1>12 DEF Disk!Move, Offsets, Disk!Offsets

(* The virtual backend copies a sector.                                    *)
LEMMA VirtualCopyMoves ==
  ASSUME Whole, DInv, NEW r \in Rqs, VirtualCopy(r)
  PROVE  Disk!Move(r) /\ \A x \in Rqs : Memory(x)'
<1>1. /\ pc[r] = "memcpy" /\ rq[r].segs # <<>> /\ moved[r] < Len512(r) /\ OneMore(r)
      /\ UNCHANGED <<backend, page, pc, rq, status>>
  BY Zenon, ExtentIsLength DEF VirtualCopy, fixed, DInv
<1>2. rq[r].op \in {"read", "write"}
  BY Zenon, <1>1, VirtualOps DEF DInv
<1>3. moved[r] \in Offsets /\ pos[r] + moved[r] \in Addresses /\ moved[r] \in Nat
  BY Zenon, <1>1, <1>2, InRange DEF DInv, IInv, Types
<1>4. /\ DiskGot[r] = buf[r] /\ DiskGot'[r] = buf'[r]
  BY Zenon, <1>1 DEF DiskGot
<1>5. CASE rq[r].op = "read"
  <2>1. /\ store' = store
        /\ buf' = [buf EXCEPT ![r][moved[r]] = store[pos[r] + moved[r]]]
    BY Zenon, <1>5 DEF VirtualCopy, CopyIn
  <2>2. /\ buf'[r] = [buf[r] EXCEPT ![moved[r]] = store[pos[r] + moved[r]]]
        /\ \A x \in Rqs \ {r} : buf'[x] = buf[x]
    <3>1. buf \in [Rqs -> [Offsets -> Vals]] /\ store[pos[r] + moved[r]] \in Vals
      BY Zenon, <1>3 DEF DInv, IInv, Types
    <3>2. QED
      BY Zenon, <1>3, <2>1, <3>1, Poke
  <2>3. Disk!Move(r)
    BY Zenon, <1>1, <1>4, <1>5, <2>1, <2>2, Moves
  <2>4. Memory(r)'
    BY Zenon, <1>1 DEF Memory, CtxPcs, PagePcs
  <2>5. QED
    BY Zenon, <1>1, <1>3, <2>2, <2>3, <2>4, MemoryKept DEF OneMore, DInv, IInv, Types
<1>6. CASE rq[r].op = "write"
  <2>1. /\ store' = CopyOut(r, rq[r].data) /\ buf' = buf
    BY <1>6, Zenon DEF VirtualCopy
  <2>2. Disk!Move(r)
    BY <1>1, <1>2, <1>4, <1>6, <2>1, Moves, ZenonT(30)
  <2>3. Memory(r)'
    BY Zenon, <1>1 DEF Memory, CtxPcs, PagePcs
  <2>4. QED
    BY Zenon, <1>1, <1>3, <2>1, <2>2, <2>3, MemoryKept DEF OneMore, DInv, IInv, Types
<1>7. QED
  BY Zenon, <1>2, <1>5, <1>6

(* The device behind a bio transfers a sector.                             *)
LEMMA BioTransferMoves ==
  ASSUME Whole, DInv, NEW r \in Rqs, BioTransfer(r)
  PROVE  Disk!Move(r) /\ \A x \in Rqs : Memory(x)'
<1>1. /\ pc[r] = "bio" /\ moved[r] < BioLen(r) /\ OneMore(r)
      /\ UNCHANGED <<backend, buf, pc, rq, status>>
  BY Zenon DEF BioTransfer, fixed
<1>2. rq[r].op \in {"read", "write"} /\ pc[r] \in CtxPcs
  BY Zenon, <1>1 DEF DInv, IInv, Serving, CtxPcs, PagePcs
<1>3. moved[r] < Len512(r)
  BY Zenon, <1>1, <1>2, BioIsWhole
<1>4. moved[r] \in Offsets /\ pos[r] + moved[r] \in Addresses /\ moved[r] \in Nat
  BY <1>1, <1>2, <1>3, InRange, Zenon DEF DInv, IInv, Types
<1>5. moved'[r] = moved[r] + 1 /\ \A x \in Rqs \ {r} : moved'[x] = moved[x]
  BY Zenon DEF OneMore, BioTransfer, DInv, IInv, Types
<1>6. buf[r] = Nothing /\ backend = "device"
  BY Zenon, <1>2 DEF DInv, Memory
<1>7. CASE rq[r].op = "read"
  <2>1. /\ store' = store
        /\ page' = [page EXCEPT ![r][moved[r]] = store[pos[r] + moved[r]]]
    BY Zenon, <1>7 DEF BioTransfer, CopyIn
  <2>2. /\ page'[r] = [page[r] EXCEPT ![moved[r]] = store[pos[r] + moved[r]]]
        /\ \A x \in Rqs \ {r} : page'[x] = page[x]
    <3>1. page \in [Rqs -> [Offsets -> Vals]] /\ store[pos[r] + moved[r]] \in Vals
      BY Zenon, <1>4 DEF DInv, IInv, Types
    <3>2. QED
      BY Zenon, <1>4, <2>1, <3>1, Poke
  <2>3. DiskGot[r] = page[r] /\ DiskGot'[r] = page'[r]
    BY Zenon, <1>1, <1>7 DEF DiskGot
  <2>4. Disk!Move(r)
    BY Zenon, <1>1, <1>3, <1>7, <2>1, <2>2, <2>3, Moves
  <2>5. \A o \in Offsets : o >= moved'[r] => page'[r][o] = Zero
    <3>1. \A o \in Offsets : o >= moved[r] => page[r][o] = Zero
      BY Zenon, <1>1, <1>7 DEF DInv, Memory
    <3>2. page[r] \in [Offsets -> Vals]
      BY Zenon DEF DInv, IInv, Types
    <3>3. ASSUME NEW o \in Offsets, o >= moved[r] + 1 PROVE o >= moved[r] /\ o # moved[r]
      <4>1. o \in Int
        BY DEF Offsets
      <4>2. QED
        BY <1>4, <3>3, <4>1
    <3>4. QED
      BY Zenon, <1>5, <2>2, <3>1, <3>2, <3>3
  <2>6. Memory(r)'
    BY Zenon, <1>1, <1>6, <1>7, <2>5 DEF Memory, Nothing
  <2>7. QED
    BY Zenon, <1>1, <1>5, <2>2, <2>4, <2>6, MemoryKept
<1>8. CASE rq[r].op = "write"
  <2>1. page[r][moved[r]] = rq[r].data
    BY Zenon, <1>1, <1>3, <1>4, <1>8 DEF DInv, Memory
  <2>2. store' = CopyOut(r, rq[r].data) /\ page' = page
    BY Zenon, <1>8, <2>1 DEF BioTransfer
  <2>3. DiskGot'[r] = DiskGot[r]
    BY Zenon, <1>1, <1>8, <2>2 DEF DiskGot
  <2>4. Disk!Move(r)
    BY <1>1, <1>3, <1>8, <2>2, <2>3, Moves, ZenonT(30)
  <2>5. Memory(r)'
    BY Zenon, <1>1, <1>6, <1>8, <2>2 DEF DInv, Memory, Len512, Nothing
  <2>6. QED
    BY Zenon, <1>1, <1>5, <2>2, <2>4, <2>5, MemoryKept
<1>9. QED
  BY Zenon, <1>2, <1>7, <1>8
-----------------------------------------------------------------------------
Answered(r) == \E t \in {"ok", "ioerr"} : Disk!Answer(r, t)

(* The bounds check answers the request or is not seen.                    *)
LEMMA StartSeen ==
  ASSUME DInv, NEW r \in Rqs, Start(r)
  PROVE  (Answered(r) \/ UNCHANGED Disk!vars) /\ \A x \in Rqs : Memory(x)'
<1>1. /\ pc[r] = "queued" /\ UNCHANGED <<backend, store, moved, buf, page, rq>>
      /\ End(r, "ioerr") \/ (Goto(r, "counting") /\ status' = status)
  BY Zenon DEF Start, dataVars, fixed, NotEnded
<1>2. CASE End(r, "ioerr")
  <2>1. DiskGot'[r] = DiskGot[r]
    BY Zenon, <1>1, <1>2, AtEnd DEF DiskGot
  <2>2. QED
    BY Zenon, <1>1, <1>2, <2>1, Answers DEF Answered
<1>3. CASE Goto(r, "counting") /\ status' = status
  <2>1. pc'[r] = "counting" /\ \A x \in Rqs \ {r} : pc'[x] = pc[x]
    BY Zenon, <1>3, AtPc
  <2>2. DiskGot'[r] = DiskGot[r]
    BY Zenon, <1>1, <2>1 DEF DiskGot
  <2>3. Memory(r)'
    BY Zenon, <1>1, <2>1 DEF DInv, Memory, CtxPcs, PagePcs
  <2>4. QED
    BY Zenon, <1>1, <1>3, <2>1, <2>2, <2>3, NothingSeen, MemoryKept
<1>4. QED
  BY Zenon, <1>1, <1>2, <1>3

LEMMA CountSeen ==
  ASSUME DInv, NEW r \in Rqs, Count(r)
  PROVE  UNCHANGED Disk!vars /\ \A x \in Rqs : Memory(x)'
<1>1. /\ pc[r] = "counting" /\ UNCHANGED <<backend, store, moved, buf, page, rq, status>>
      /\ Goto(r, "counted")
  BY Zenon DEF Count, dataVars, fixed, NotEnded
<1>2. pc'[r] = "counted" /\ \A x \in Rqs \ {r} : pc'[x] = pc[x]
  BY Zenon, <1>1, AtPc
<1>3. DiskGot'[r] = DiskGot[r]
  BY Zenon, <1>1, <1>2 DEF DiskGot
<1>4. Memory(r)'
  BY Zenon, <1>1, <1>2 DEF DInv, Memory, CtxPcs, PagePcs
<1>5. QED
  BY Zenon, <1>1, <1>2, <1>3, <1>4, NothingSeen, MemoryKept

LEMMA UnlockSeen ==
  ASSUME DInv, NEW r \in Rqs, Unlock(r)
  PROVE  (Answered(r) \/ UNCHANGED Disk!vars) /\ \A x \in Rqs : Memory(x)'
<1>1. pc[r] = "counted" /\ UNCHANGED <<backend, store, moved, buf, page, rq>>
  BY Zenon DEF Unlock, dataVars, fixed
<1>2. CASE rq[r].op \in {"drv", "zeroes"}
  <2>1. End(r, "ok") \/ End(r, "notsupp")
    BY Zenon, <1>2 DEF Unlock
  <2>2. DiskGot'[r] = DiskGot[r]
    BY Zenon, <1>1, <2>1, AtEnd DEF DiskGot
  <2>3. QED
    BY Zenon, <1>1, <1>2, <2>1, <2>2, Answers DEF Answered
<1>3. CASE rq[r].op \notin {"drv", "zeroes"}
  <2>1. /\ Goto(r, IF backend = "device" THEN "dispatch" ELSE "memcpy")
        /\ status' = status
    BY Zenon, <1>3 DEF Unlock, NotEnded
  <2>2. /\ pc'[r] = IF backend = "device" THEN "dispatch" ELSE "memcpy"
        /\ \A x \in Rqs \ {r} : pc'[x] = pc[x]
    BY Zenon, <2>1, AtPc
  <2>3. DiskGot'[r] = DiskGot[r]
    BY Zenon, <1>1, <2>2 DEF DiskGot
  <2>4. Memory(r)'
    BY Zenon, <1>1, <2>2 DEF DInv, Memory, CtxPcs, PagePcs
  <2>5. QED
    BY Zenon, <1>1, <2>1, <2>2, <2>3, <2>4, NothingSeen, MemoryKept
<1>4. QED
  BY Zenon, <1>2, <1>3

(* A handler that goes on with a context, returns or is lost.              *)
LEMMA DispatchSeen ==
  ASSUME Whole, DInv, NEW r \in Rqs,
         \/ AllocCtx(r) \/ AllocPage(r) \/ AddPage(r) \/ DispatchNoSegment(r) \/ NoVector(r)
  PROVE  UNCHANGED Disk!vars /\ \A x \in Rqs : Memory(x)'
<1>1. UNCHANGED <<backend, store, moved, buf, rq, status>>
  BY Zenon DEF AllocCtx, AllocPage, AddPage, DispatchNoSegment, NoVector, NotEnded, dataVars, fixed
<1>2. CASE DispatchNoSegment(r) \/ NoVector(r)
  <2>1. /\ pc[r] \in {"dispatch", "memcpy"} /\ pc'[r] \in {"returned", "oops"} /\ page' = page
        /\ \A x \in Rqs \ {r} : pc'[x] = pc[x]
    BY Zenon, <1>2, AtPc DEF DispatchNoSegment, NoVector, dataVars
  <2>2. DiskGot'[r] = DiskGot[r]
    BY Zenon, <1>1, <2>1 DEF DiskGot
  <2>3. Memory(r)'
    BY Zenon, <1>1, <2>1 DEF Memory, CtxPcs, PagePcs
  <2>4. QED
    BY Zenon, <1>1, <2>1, <2>2, <2>3, NothingSeen, MemoryKept
<1>3. CASE AllocCtx(r) \/ AllocPage(r)
  <2>1. /\ pc[r] \in {"dispatch", "alloc_page"} /\ pc'[r] \in {"alloc_page", "add_page"}
        /\ page' = page /\ \A x \in Rqs \ {r} : pc'[x] = pc[x]
    BY Zenon, <1>3, AtPc DEF AllocCtx, AllocPage, dataVars
  <2>2. buf[r] = Nothing /\ backend = "device"
    BY Zenon, <2>1 DEF DInv, Memory, CtxPcs
  <2>3. DiskGot'[r] = DiskGot[r]
    BY Zenon, <1>1, <2>1 DEF DiskGot
  <2>4. Memory(r)'
    BY Zenon, <1>1, <2>1, <2>2 DEF Memory, Nothing
  <2>5. QED
    BY Zenon, <1>1, <2>1, <2>3, <2>4, NothingSeen, MemoryKept
<1>4. CASE AddPage(r)
  <2>1. /\ pc[r] = "add_page" /\ pc'[r] = "bio" /\ \A x \in Rqs \ {r} : pc'[x] = pc[x]
        /\ page'[r] = IF rq[r].op = "read" THEN Nothing
                      ELSE [o \in Offsets |-> IF o < BioLen(r) THEN rq[r].data ELSE Zero]
        /\ \A x \in Rqs \ {r} : page'[x] = page[x]
    BY Zenon, <1>4, AtPc DEF AddPage, DInv, IInv, Types
  <2>2. pc[r] \in CtxPcs
    BY Zenon, <2>1 DEF CtxPcs, PagePcs
  <2>3. BioLen(r) = Len512(r)
    BY Zenon, <2>2, BioIsWhole
  <2>4. buf[r] = Nothing /\ backend = "device" /\ rq[r].op \in {"read", "write"}
    BY Zenon, <2>2 DEF DInv, IInv, Serving, Memory
  <2>5. DiskGot[r] = Nothing
    BY Zenon, <2>1, <2>4 DEF DiskGot
  <2>6. CASE rq[r].op = "read"
    <3>1. page'[r] = Nothing /\ rq'[r].op = "read"
      BY Zenon, <1>1, <2>1, <2>6
    <3>2. DiskGot'[r] = DiskGot[r]
      BY Zenon, <2>1, <2>5, <3>1 DEF DiskGot
    <3>3. Memory(r)'
      BY Zenon, <1>1, <2>1, <2>4, <3>1 DEF Memory, Nothing
    <3>4. QED
      BY Zenon, <1>1, <2>1, <3>2, <3>3, NothingSeen, MemoryKept
  <2>7. CASE rq[r].op = "write"
    <3>1. /\ page'[r] = [o \in Offsets |-> IF o < Len512(r) THEN rq[r].data ELSE Zero]
          /\ rq'[r].op = "write"
      BY Zenon, <1>1, <2>1, <2>3, <2>7
    <3>2. DiskGot'[r] = DiskGot[r]
      BY Zenon, <1>1, <2>1, <2>4, <2>5, <3>1 DEF DiskGot
    <3>3. Memory(r)'
      BY Zenon, <1>1, <2>1, <2>4, <3>1 DEF Memory, Len512, Nothing
    <3>4. QED
      BY Zenon, <1>1, <2>1, <3>2, <3>3, NothingSeen, MemoryKept
  <2>8. QED
    BY Zenon, <2>4, <2>6, <2>7
<1>5. QED
  BY Zenon, <1>2, <1>3, <1>4

LEMMA AnswersSeen ==
  ASSUME Whole, DInv, NEW r \in Rqs,
         \/ VirtualEnd(r) \/ AllocCtxFail(r) \/ AllocPageFail(r) \/ AddPageFail(r)
         \/ BioComplete(r) \/ BioFail(r)
  PROVE  Answered(r) /\ \A x \in Rqs : Memory(x)'
<1>1. UNCHANGED <<backend, store, moved, page, rq>>
  BY Zenon DEF VirtualEnd, AllocCtxFail, AllocPageFail, AddPageFail, BioComplete, BioFail,
       Refuse, Answer, dataVars, fixed
<1>2. moved[r] \in Nat /\ moved[r] =< Len512(r) /\ Len512(r) \in Nat
  BY Lengths DEF DInv, IInv, Types, Serving
<1>3. CASE VirtualEnd(r)
  <2>1. pc[r] = "memcpy" /\ End(r, "ok") /\ buf' = buf /\ moved[r] >= Len512(r)
    BY Zenon, <1>3, ExtentIsLength DEF VirtualEnd, dataVars, DInv
  <2>2. moved[r] = Len512(r)
    BY <1>2, <2>1
  <2>3. DiskGot'[r] = DiskGot[r]
    BY Zenon, <1>1, <2>1, AtEnd DEF DiskGot
  <2>4. QED
    BY <1>1, <2>1, <2>2, <2>3, Answers, ZenonT(30) DEF Answered
<1>4. CASE AllocCtxFail(r) \/ AllocPageFail(r) \/ AddPageFail(r)
  <2>1. pc[r] \in {"dispatch", "alloc_page", "add_page"} /\ buf' = buf /\ End(r, "ioerr")
    BY Zenon, <1>4 DEF AllocCtxFail, AllocPageFail, AddPageFail, Refuse, dataVars
  <2>2. DiskGot'[r] = DiskGot[r]
    BY Zenon, <1>1, <2>1, AtEnd DEF DiskGot
  <2>3. QED
    BY Zenon, <1>1, <2>1, <2>2, Answers DEF Answered
<1>5. CASE BioComplete(r)
  <2>1. pc[r] = "bio" /\ End(r, "ok") /\ moved[r] = BioLen(r)
    BY Zenon, <1>5 DEF BioComplete, Answer
  <2>2. rq[r].op \in {"read", "write"} /\ pc[r] \in CtxPcs /\ buf[r] = Nothing
    BY Zenon, <2>1 DEF DInv, IInv, Serving, Memory, CtxPcs, PagePcs
  <2>3. moved[r] = Len512(r)
    BY Zenon, <2>1, <2>2, BioIsWhole
  <2>4. pc'[r] = "ended" /\ DiskGot'[r] = buf'[r]
    BY Zenon, <2>1, AtEnd DEF DiskGot
  <2>5. \A x \in Rqs \ {r} : buf'[x] = buf[x]
    BY Zenon, <1>5 DEF BioComplete, DInv, IInv, Types
  <2>6. DiskGot'[r] = DiskGot[r]
    <3>1. CASE rq[r].op = "read"
      <4>1. buf'[r] = [o \in Offsets |-> IF o < BioLen(r) THEN page[r][o] ELSE buf[r][o]]
        BY Zenon, <1>5, <3>1 DEF BioComplete, DInv, IInv, Types
      <4>2. \A o \in Offsets : ~(o < BioLen(r)) => page[r][o] = Zero
        <5>1. \A o \in Offsets : o >= moved[r] => page[r][o] = Zero
          BY Zenon, <2>1, <3>1 DEF DInv, Memory
        <5>2. \A o \in Offsets : ~(o < moved[r]) => o >= moved[r]
          BY <1>2 DEF Offsets
        <5>3. QED
          BY Zenon, <2>1, <5>1, <5>2
      <4>3. page[r] \in [Offsets -> Vals] /\ \A o \in Offsets : buf[r][o] = Zero
        BY Zenon, <2>2 DEF DInv, IInv, Types, Nothing
      <4>4. buf'[r] = page[r]
        BY <4>1, <4>2, <4>3
      <4>5. QED
        BY <2>1, <2>4, <3>1, <4>4, ZenonT(30) DEF DiskGot
    <3>2. CASE rq[r].op = "write"
      BY Zenon, <1>5, <2>4, <3>2 DEF BioComplete, DiskGot
    <3>3. QED
      BY Zenon, <2>2, <3>1, <3>2
  <2>7. QED
    BY Zenon, <1>1, <2>1, <2>3, <2>5, <2>6, Answers DEF Answered
<1>6. CASE BioFail(r)
  <2>1. pc[r] = "bio" /\ End(r, "ioerr") /\ buf' = buf /\ buf[r] = Nothing
    BY Zenon, <1>6 DEF BioFail, Answer, DInv, Memory, CtxPcs, PagePcs
  <2>2. DiskGot'[r] = Nothing
    BY Zenon, <2>1, AtEnd DEF DiskGot
  <2>3. QED
    BY Zenon, <1>1, <2>1, <2>2, Answers DEF Answered
<1>7. QED
  BY Zenon, <1>3, <1>4, <1>5, <1>6

(* The tag can be used again.                                              *)
LEMMA ReapReuses ==
  ASSUME DInv, NEW r \in Rqs, Reap(r)
  PROVE  Disk!Reuse(r) /\ \A x \in Rqs : Memory(x)'
<1>1. /\ pc[r] = "ended" /\ pc'[r] = "free" /\ \A x \in Rqs \ {r} : pc'[x] = pc[x]
      /\ UNCHANGED <<backend, store>>
  BY Zenon, AtPc DEF Reap, fixed
<1>2. /\ rq'[r] = Blank /\ moved'[r] = 0 /\ buf'[r] = Nothing
      /\ \A x \in Rqs \ {r} : /\ rq'[x] = rq[x] /\ moved'[x] = moved[x] /\ status'[x] = status[x]
                               /\ buf'[x] = buf[x] /\ page'[x] = page[x]
  BY Zenon DEF Reap, DInv, IInv, Types
<1>3. DiskState[r] \in {"ok", "ioerr"} /\ DiskState'[r] = "free"
  BY Zenon, <1>1 DEF DiskState
<1>4. DiskReq'[r] = Disk!Blank
  BY <1>2 DEF DiskReq, Len512, Blank, Disk!Blank
<1>5. DiskMoved'[r] = {} /\ DiskGot'[r] = Disk!Nothing
  BY <1>1, <1>2 DEF DiskMoved, DiskGot, Nothing, Disk!Nothing, Offsets, Disk!Offsets
<1>6. Disk!Reuse(r)
  BY Zenon, <1>1, <1>2, <1>3, <1>4, <1>5, MappedAt DEF Disk!Reuse
<1>7. Memory(r)'
  BY Zenon, <1>1, <1>2 DEF Memory, Nothing, CtxPcs, PagePcs
<1>8. QED
  BY Zenon, <1>1, <1>2, <1>6, <1>7, MemoryKept
-----------------------------------------------------------------------------
LEMMA InitMapped == Init => Disk!Init /\ DInv
<1> SUFFICES ASSUME Init PROVE Disk!Init /\ DInv
  BY Zenon
<1>1. \A r \in Rqs : Memory(r)
  BY Zenon DEF Init, Memory, CtxPcs, PagePcs
<1>2. DiskState = [r \in Rqs |-> "free"] /\ DiskGot = [r \in Rqs |-> Disk!Nothing]
  BY Zenon DEF Init, DiskState, DiskGot, Nothing, Disk!Nothing, Offsets, Disk!Offsets
<1>3. DiskReq = [r \in Rqs |-> Disk!Blank]
  BY Zenon DEF Init, DiskReq, Len512, Blank, Disk!Blank
<1>4. DiskMoved = [r \in Rqs |-> {}]
  BY DEF Init, DiskMoved
<1>5. store = [s \in Addresses |-> Zero]
  BY Zenon DEF Init
<1>6. QED
  BY Zenon, <1>1, <1>2, <1>3, <1>4, <1>5, Initially DEF DInv, Disk!Init

(* Every step is a step of the disk or is not seen.                        *)
LEMMA StepMapped ==
  ASSUME Whole, DInv, [Next]_vars
  PROVE  [Disk!Next]_(Disk!vars) /\ DInv'
<1>a. IInv'
  BY Zenon, StepKeeps DEF DInv
<1>1. ASSUME NEW r \in Rqs, NEW op \in Ops, NEW s \in -1 .. (CapS - 1), NEW n \in 0 .. MaxLen,
             NEW segs \in Shapes \cup {<<>>}, NEW d \in Vals, Submit(r, op, s, n, segs, d)
      PROVE  Disk!Next /\ \A x \in Rqs : Memory(x)'
  BY Zenon, <1>1, SubmitTakes DEF Disk!Next
<1>2. ASSUME NEW r \in Rqs, Handle(r)
      PROVE  [Disk!Next]_(Disk!vars) /\ \A x \in Rqs : Memory(x)'
  <2>1. \/ Disk!Move(r) \/ Answered(r) \/ UNCHANGED Disk!vars
    BY Zenon, <1>2, StartSeen, CountSeen, UnlockSeen, VirtualCopyMoves, DispatchSeen,
         BioTransferMoves, AnswersSeen
    DEF Handle
  <2>2. \A x \in Rqs : Memory(x)'
    BY Zenon, <1>2, StartSeen, CountSeen, UnlockSeen, VirtualCopyMoves, DispatchSeen,
         BioTransferMoves, AnswersSeen
    DEF Handle
  <2>3. QED
    BY Zenon, <2>1, <2>2 DEF Answered, Disk!Next
<1>3. ASSUME NEW r \in Rqs, Reap(r) PROVE Disk!Next /\ \A x \in Rqs : Memory(x)'
  BY Zenon, <1>3, ReapReuses DEF Disk!Next
<1>4. ASSUME StatsReset \/ (\E c \in Ctxs : FreeCtx(c)) \/ UNCHANGED vars
      PROVE  UNCHANGED Disk!vars /\ \A x \in Rqs : Memory(x)'
  <2>1. UNCHANGED <<backend, store, moved, buf, page, pc, rq, status>>
    BY Zenon, <1>4 DEF StatsReset, FreeCtx, vars, dataVars, fixed
  <2>2. QED
    BY Zenon, <2>1 DEF Disk!vars, DiskState, DiskReq, DiskMoved, DiskGot, Len512, DInv, Memory
<1>5. QED
  BY <1>a, <1>1, <1>2, <1>3, <1>4, Zenon DEF Next, DInv

(* uringblk_queue_rq and the bio callback implement a disk, for any number *)
(* of concurrent requests and any capacity, where requests are transferred *)
(* whole.                                                                  *)
THEOREM Refines == ASSUME Whole PROVE Spec => ImplementsDisk
<1>1. Init => Disk!Init /\ DInv
  BY Zenon, InitMapped
<1>2. DInv /\ [Next]_vars => [Disk!Next]_(Disk!vars) /\ DInv'
  BY Zenon, StepMapped
<1>3. QED
  BY <1>1, <1>2, PTL DEF Spec, ImplementsDisk, Disk!Spec
=============================================================================
