----------------------------- MODULE KdbPageMap -----------------------------
(***************************************************************************)
(* What the KDB cache promises to the processes that map it.  Each mapped  *)
(* area has a table that gives every page offset at most one page, filled  *)
(* on first use and then fixed; the pages a process sees are those of the  *)
(* table; a page is writable only once its offset is recorded as dirty;    *)
(* unmapping forgets everything.  KdbCache implements this specification.  *)
(***************************************************************************)
CONSTANTS Vmas, PgOffs, Pages, NULL

VARIABLES
  mapped,     \* areas that are mapped
  table,      \* page the cache keeps for an offset of an area, or NULL
  dirtyOffs,  \* offsets of an area recorded as dirty
  view,       \* page a process sees at an offset of an area, or NULL
  writable    \* offsets of an area that a process may write

vars == <<mapped, table, dirtyOffs, view, writable>>

Empty == [o \in PgOffs |-> NULL]

Init ==
  /\ mapped = {}
  /\ table = [v \in Vmas |-> Empty]
  /\ dirtyOffs = [v \in Vmas |-> {}]
  /\ view = [v \in Vmas |-> Empty]
  /\ writable = [v \in Vmas |-> {}]

Map(v) ==
  /\ v \notin mapped
  /\ mapped' = mapped \cup {v}
  /\ UNCHANGED <<table, dirtyOffs, view, writable>>

(* First use of an offset: it gets a page that no table has.               *)
Fill(v, o, p) ==
  /\ v \in mapped
  /\ table[v][o] = NULL
  /\ table' = [table EXCEPT ![v][o] = p]
  /\ \A w \in Vmas, q \in PgOffs : table[w][q] # p
  /\ UNCHANGED <<mapped, dirtyOffs, view, writable>>

Mark(v, o) ==
  /\ UNCHANGED <<mapped, view, writable, table>>
  /\ table[v][o] # NULL
  /\ dirtyOffs' = [dirtyOffs EXCEPT ![v] = @ \cup {o}]

(* The page of the table becomes visible, writable only if it is dirty.    *)
Install(v, o) ==
  /\ table[v][o] # NULL
  /\ view' = [view EXCEPT ![v][o] = table[v][o]]
  /\ \/ UNCHANGED writable
     \/ /\ o \in dirtyOffs[v]
        /\ writable' = [writable EXCEPT ![v] = @ \cup {o}]
  /\ UNCHANGED <<mapped, table, dirtyOffs>>

Unmap(v) ==
  /\ v \in mapped
  /\ mapped' = mapped \ {v}
  /\ table' = [table EXCEPT ![v] = Empty]
  /\ dirtyOffs' = [dirtyOffs EXCEPT ![v] = {}]
  /\ view' = [view EXCEPT ![v] = Empty]
  /\ writable' = [writable EXCEPT ![v] = {}]

Next ==
  \E v \in Vmas :
    \/ Map(v) \/ Unmap(v)
    \/ \E o \in PgOffs :
         Mark(v, o) \/ Install(v, o) \/ \E p \in Pages : Fill(v, o, p)

Spec == Init /\ [][Next]_vars
=============================================================================
