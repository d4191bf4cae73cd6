----------------------------- MODULE PageTables -----------------------------
(***************************************************************************)
(* The page tables of one address space, as the walkers read them and the  *)
(* kernel changes them.  A table is named by its level and by the region   *)
(* of the address space it translates: <<4, 0>> is the top-level table,    *)
(* and entry i of <<l, q>> belongs to region q * NUM_ENTRIES + i of level  *)
(* l - 1.  Physical addresses, the direct map and the flags of an entry    *)
(* other than "present" and "maps a large page" are left out.              *)
(*                                                                         *)
(* Sources: src/pt_walker/pt_walker.c, walkmod/walkmod.c, userkmod/user.c  *)
(***************************************************************************)
EXTENDS Integers

CONSTANTS
  NUM_ENTRIES,  \* entries of a table (512)
  PAGE_SIZE,    \* bytes of a page (4096)
  Large,        \* regions of level 1 or 2 that one large page maps, as <<level, region>>
  Paged         \* page numbers that the kernel maps and unmaps during a walk

ASSUME SizesAssumption == NUM_ENTRIES \in Nat \ {0} /\ PAGE_SIZE \in Nat \ {0}
ASSUME PagedAssumption == Paged \subseteq Nat
ASSUME LargeAssumption == Large \subseteq (1 .. 2) \X Nat

\* The pages of a region of level 0 to 4; four levels translate AddressLimit bytes.
Pages(l) == CASE l = 0 -> 1
              [] l = 1 -> NUM_ENTRIES
              [] l = 2 -> NUM_ENTRIES * NUM_ENTRIES
              [] l = 3 -> NUM_ENTRIES * NUM_ENTRIES * NUM_ENTRIES
              [] l = 4 -> NUM_ENTRIES * NUM_ENTRIES * NUM_ENTRIES * NUM_ENTRIES
AddressLimit == PAGE_SIZE * Pages(4)

\* The region of level l that page number v lies in.
RegionOf(l, v) == v \div Pages(l)
Root == <<4, 0>>
TablesFor(v) == {<<l, RegionOf(l, v)>> : l \in 1 .. 3}

VARIABLES
  tables,   \* the tables below the top-level one
  present   \* the page numbers whose last-level entry is present

tableVars == <<tables, present>>

\* What entry i of the table of region q at level l holds.
IsLarge(l, q, i) == <<l - 1, q * NUM_ENTRIES + i>> \in Large
PointsToTable(l, q, i) == <<l - 1, q * NUM_ENTRIES + i>> \in tables

\* page_table_entry.present: set for a table, a large page or a page.
Present(l, q, i) ==
  IF l = 1 THEN q * NUM_ENTRIES + i \in present
           ELSE PointsToTable(l, q, i) \/ IsLarge(l, q, i)

\* pgd_none, p4d_bad, ... of the kernel: nothing there, or no table.
NoneOrBad(l, q, i) == ~PointsToTable(l, q, i)

\* Whether a large page maps page v (as soon as the table that says so is there).
UnderLarge(v) == \E l \in 1 .. 2 : <<l, RegionOf(l, v)>> \in Large

\* A page fault: the tables on the way are there before the page is.
KernelMaps(v) ==
  /\ v \in Paged \ present
  /\ ~UnderLarge(v)
  /\ tables' = tables \cup TablesFor(v)
  /\ present' = present \cup {v}

\* Reclaim clears a last-level entry and keeps the table.
KernelUnmaps(v) ==
  /\ v \in Paged \cap present
  /\ present' = present \ {v}
  /\ UNCHANGED tables
=============================================================================
