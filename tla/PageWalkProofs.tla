--------------------------- MODULE PageWalkProofs ---------------------------
(***************************************************************************)
(* Safety of PageWalk for tables and pages of any size, any areas, any     *)
(* large pages and any set of pages the kernel maps and unmaps.            *)
(***************************************************************************)
EXTENDS PageWalk, FiniteSetTheorems, TLAPS

-----------------------------------------------------------------------------
\* Shifting and masking.

\* Shifting twice is shifting by the sum.
LEMMA ShiftTwice ==
  ASSUME NEW v \in Nat, NEW a \in Nat \ {0}, NEW n \in Nat \ {0}
  PROVE  (v \div a) \div n = v \div (a * n)
<1> DEFINE q == v \div a
<1> DEFINE r == v % a
<1> DEFINE q2 == q \div n
<1> DEFINE r2 == q % n
<1>1. q \in Nat /\ r \in Nat /\ r < a /\ v = a * q + r
  OBVIOUS
<1>2. q2 \in Nat /\ r2 \in Nat /\ r2 < n /\ q = n * q2 + r2
  BY <1>1
<1> HIDE DEF q, r, q2, r2
<1>3. a * r2 + r \in Nat /\ a * r2 + r < a * n
  <2>1. a * (r2 + 1) <= a * n
    BY <1>2
  <2>2. a * (r2 + 1) = a * r2 + a
    BY <1>2
  <2>3. a * r2 \in Nat /\ a * n \in Nat
    BY <1>2
  <2>4. QED
    BY <1>1, <2>1, <2>2, <2>3
<1>4. v = (a * n) * q2 + (a * r2 + r)
  BY <1>1, <1>2
<1>5. a * n \in Nat \ {0}
  OBVIOUS
<1>6. v \div (a * n) = q2
  <2>1. ASSUME NEW d \in Nat \ {0}, NEW s \in Nat, s < d, v = d * q2 + s
        PROVE  v \div d = q2
    BY <1>2, <2>1
  <2>2. QED
    BY <1>3, <1>4, <1>5, <2>1
<1>7. QED
  BY <1>6 DEF q, q2

\* A quotient is put together again from its own quotient and remainder.
LEMMA QuotientAndRemainder ==
  ASSUME NEW q \in Nat, NEW n \in Nat \ {0}
  PROVE  q \div n \in Nat /\ q % n \in Nat /\ q % n < n /\ (q \div n) * n + (q % n) = q
<1>1. q \div n \in Nat /\ q % n \in Nat /\ q % n < n
  OBVIOUS
<1>2. q = n * (q \div n) + (q % n)
  OBVIOUS
<1>3. n * (q \div n) = (q \div n) * n
  BY <1>1
<1>4. QED
  BY <1>1, <1>2, <1>3

\* A region of any level has a page at least.
LEMMA PagesAreNumbers ==
  /\ NUM_ENTRIES \in Nat \ {0} /\ PAGE_SIZE \in Nat \ {0}
  /\ \A l \in 0 .. 4 : Pages(l) \in Nat \ {0}
<1>1. /\ NUM_ENTRIES * NUM_ENTRIES \in Nat \ {0}
      /\ NUM_ENTRIES * NUM_ENTRIES * NUM_ENTRIES \in Nat \ {0}
      /\ NUM_ENTRIES * NUM_ENTRIES * NUM_ENTRIES * NUM_ENTRIES \in Nat \ {0}
  BY SizesAssumption
<1>2. QED
  BY <1>1, SizesAssumption DEF Pages

\* Regions are numbered from 0.
LEMMA RegionsAreNumbers ==
  ASSUME NEW v \in Nat, NEW l \in 0 .. 4
  PROVE  RegionOf(l, v) \in Nat
<1>1. ASSUME NEW p \in Nat \ {0}
      PROVE  v \div p \in Nat
  OBVIOUS
<1>2. QED
  BY <1>1, PagesAreNumbers DEF RegionOf

\* A region is the part of the one above it that the index of its level names:
\* vaddr_to_page_offsets takes an address apart as the tables put it together.
LEMMA RegionBelow ==
  ASSUME NEW addr \in Nat, NEW l \in 1 .. 4
  PROVE  /\ RegionOf(l, PageOf(addr)) * NUM_ENTRIES + PageOffsets(addr)[l]
              = RegionOf(l - 1, PageOf(addr))
         /\ PageOffsets(addr)[l] \in Nat
<1> DEFINE v == PageOf(addr)
<1> DEFINE n == NUM_ENTRIES
<1>1. v \in Nat /\ n \in Nat \ {0}
  BY PagesAreNumbers DEF PageOf
<1> DEFINE v1 == v \div n
<1> DEFINE v2 == v1 \div n
<1> DEFINE v3 == v2 \div n
<1> DEFINE v4 == v3 \div n
<1> DEFINE o == PageOffsets(addr)
<1>2. o[1] = v % n /\ o[2] = v1 % n /\ o[3] = v2 % n /\ o[4] = v3 % n
  BY DEF PageOffsets, PageOf
<1> HIDE DEF v, n, o
<1>3. v1 \in Nat /\ v2 \in Nat /\ v3 \in Nat /\ v4 \in Nat
  <2>1. v1 \in Nat
    BY <1>1
  <2> HIDE DEF v1
  <2>2. v2 \in Nat
    BY <1>1, <2>1
  <2> HIDE DEF v2
  <2>3. v3 \in Nat
    BY <1>1, <2>2
  <2> HIDE DEF v3
  <2>4. v4 \in Nat
    BY <1>1, <2>3
  <2>5. QED
    BY <2>1, <2>2, <2>3, <2>4
<1>4. /\ v = RegionOf(0, v) /\ v1 = RegionOf(1, v) /\ v2 = RegionOf(2, v)
      /\ v3 = RegionOf(3, v) /\ v4 = RegionOf(4, v)
  <2>1. v = RegionOf(0, v) /\ v1 = RegionOf(1, v)
    BY <1>1 DEF RegionOf, Pages, n
  <2>p. n * n \in Nat \ {0} /\ n * n * n \in Nat \ {0}
    BY <1>1
  <2> HIDE DEF v2, v3, v4
  <2>2. v2 = v \div (n * n)
    <3>1. (v \div n) \div n = v \div (n * n)
      BY <1>1, ShiftTwice
    <3>2. QED
      BY <3>1 DEF v2
  <2>3. v3 = v \div (n * n * n)
    <3>1. (v \div (n * n)) \div n = v \div (n * n * n)
      BY <1>1, <2>p, ShiftTwice
    <3>2. QED
      BY <2>2, <3>1 DEF v3
  <2>4. v4 = v \div (n * n * n * n)
    <3>1. (v \div (n * n * n)) \div n = v \div (n * n * n * n)
      BY <1>1, <2>p, ShiftTwice
    <3>2. QED
      BY <2>3, <3>1 DEF v4
  <2>5. QED
    BY <2>1, <2>2, <2>3, <2>4 DEF RegionOf, Pages, n
<1> HIDE DEF v1, v2, v3, v4
<1>5. /\ v1 * n + (v % n) = v /\ v % n \in Nat
      /\ v2 * n + (v1 % n) = v1 /\ v1 % n \in Nat
      /\ v3 * n + (v2 % n) = v2 /\ v2 % n \in Nat
      /\ v4 * n + (v3 % n) = v3 /\ v3 % n \in Nat
  BY <1>1, <1>3, QuotientAndRemainder DEF v1, v2, v3, v4
<1>6. l \in {1, 2, 3, 4}
  OBVIOUS
<1>7. o[l] \in Nat /\ RegionOf(l, v) * n + o[l] = RegionOf(l - 1, v)
  <2>1. CASE l = 1
    BY <1>2, <1>4, <1>5, <2>1
  <2>2. CASE l = 2
    BY <1>2, <1>4, <1>5, <2>2
  <2>3. CASE l = 3
    BY <1>2, <1>4, <1>5, <2>3
  <2>4. CASE l = 4
    BY <1>2, <1>4, <1>5, <2>4
  <2>5. QED
    BY <1>6, <2>1, <2>2, <2>3, <2>4
<1>8. QED
  BY <1>7 DEF o, n, v

\* The whole address space is one region of level 4.
LEMMA RootTranslatesAll ==
  ASSUME NEW addr \in Nat, addr < AddressLimit
  PROVE  RegionOf(4, PageOf(addr)) = 0
<1>1. Pages(4) \in Nat \ {0} /\ PAGE_SIZE \in Nat \ {0}
  BY PagesAreNumbers
<1>2. (addr \div PAGE_SIZE) \div Pages(4) = addr \div AddressLimit
  BY <1>1, ShiftTwice DEF AddressLimit
<1>3. AddressLimit \in Nat \ {0}
  BY <1>1 DEF AddressLimit
<1>4. addr \div AddressLimit = 0
  BY <1>3
<1>5. QED
  BY <1>2, <1>4 DEF RegionOf, PageOf

-----------------------------------------------------------------------------
\* The areas of a walk.

\* What a walk is given are areas in whole pages, in order, below the limit.
LEMMA AreasInOrder ==
  ASSUME NEW w \in Walkers
  PROVE  /\ Areas(w) \in Seq(Nat \X Nat) /\ Len(Areas(w)) \in Nat \ {0}
         /\ \A a \in 1 .. Len(Areas(w)) :
              /\ Areas(w)[a][1] \in Nat /\ Areas(w)[a][2] \in Nat
              /\ Areas(w)[a][1] < Areas(w)[a][2] /\ Areas(w)[a][2] <= AddressLimit
              /\ Areas(w)[a][1] % PAGE_SIZE = 0 /\ Areas(w)[a][2] % PAGE_SIZE = 0
         /\ \A a, b \in 1 .. Len(Areas(w)) : a < b => Areas(w)[a][2] <= Areas(w)[b][1]
         /\ w # "user" => Len(Areas(w)) = 1
<1>l. AddressLimit \in Nat
  BY PagesAreNumbers DEF AddressLimit
<1>1. CASE w = "pt_walker"
  <2>1. Areas(w) = <<<<0, WalkLimit>>>>
    BY <1>1 DEF Areas
  <2>2. WalkLimit \in Nat /\ 0 < WalkLimit /\ WalkLimit <= AddressLimit /\ 0 % PAGE_SIZE = 0
        /\ WalkLimit % PAGE_SIZE = 0
    BY <1>l, WalkLimitAssumption, PagesAreNumbers
  <2>3. QED
    BY <2>1, <2>2
<1>2. CASE w \in {"v1", "v2"}
  <2>1. Areas(w) = SubSeq(Vmas, 1, 1)
    BY <1>2 DEF Areas
  <2>2. Vmas \in Seq(Nat \X Nat) /\ Len(Vmas) \in Nat /\ Len(Vmas) >= 1
    BY VmasAssumption
  <2>3. /\ Vmas[1][1] < Vmas[1][2] /\ Vmas[1][2] <= AddressLimit /\ Vmas[1] \in Nat \X Nat
        /\ Vmas[1][1] % PAGE_SIZE = 0 /\ Vmas[1][2] % PAGE_SIZE = 0
    BY <2>2, VmasAssumption
  <2>4. Areas(w) \in Seq(Nat \X Nat) /\ Len(Areas(w)) = 1 /\ Areas(w)[1] = Vmas[1]
    BY <2>1, <2>2
  <2>5. Vmas[1][1] \in Nat /\ Vmas[1][2] \in Nat
    BY <2>3
  <2>6. QED
    BY <1>2, <2>3, <2>4, <2>5
<1>3. CASE w = "user"
  <2>1. Areas(w) = Vmas
    BY <1>3 DEF Areas
  <2>2. Vmas \in Seq(Nat \X Nat) /\ Len(Vmas) \in Nat \ {0}
    BY VmasAssumption
  <2>3. \A a \in 1 .. Len(Vmas) : Vmas[a][1] \in Nat /\ Vmas[a][2] \in Nat
    <3>1. \A a \in 1 .. Len(Vmas) : Vmas[a] \in Nat \X Nat
      BY <2>2
    <3>2. QED
      BY <3>1
  <2>4. QED
    BY <1>3, <2>1, <2>2, <2>3, VmasAssumption
<1>4. QED
  BY <1>1, <1>2, <1>3, WalkersAssumption

-----------------------------------------------------------------------------
\* The place of the walk.

\* The areas do not change during a walk.
LEMMA CallStays ==
  ASSUME [Next]_vars
  PROVE  walker' = walker /\ page_limit' = page_limit /\ Areas(walker)' = Areas(walker)
         /\ Last' = Last
<1>1. walker' = walker /\ page_limit' = page_limit
  BY DEF Next, vars, WalkerStep, callVars, BeginPage, NextArea, EndWalk, ReadEntry, ReadPage,
         Fault, Kernel
<1>2. QED
  BY <1>1 DEF Areas, Last

\* The entry at hand belongs to the page at hand.
LEMMA EntryAtHand ==
  ASSUME TypeOK, OnTheWay, level > 0, region # Nowhere
  PROVE  PageAt = RegionOf(level - 1, PageOf(vmpage)) /\ PageAt \in Nat
<1>1. level \in 1 .. 4 /\ vmpage \in Nat /\ region = RegionOf(level, PageOf(vmpage))
  BY DEF TypeOK, OnTheWay
<1>2. PageAt = RegionOf(level - 1, PageOf(vmpage))
  BY <1>1, RegionBelow DEF PageAt, Index
<1>3. PageOf(vmpage) \in Nat /\ level - 1 \in 0 .. 4
  BY <1>1, PagesAreNumbers DEF PageOf
<1>4. QED
  BY <1>2, <1>3, RegionsAreNumbers

\* An index is a number, also where there is no table to use it on.
LEMMA PageAtIsNumber ==
  ASSUME TypeOK, level > 0, region # Nowhere
  PROVE  PageAt \in Nat
<1>1. level \in 1 .. 4 /\ vmpage \in Nat /\ region \in Nat /\ NUM_ENTRIES \in Nat
  BY SizesAssumption DEF TypeOK
<1>2. Index \in Nat
  BY <1>1, RegionBelow DEF Index
<1>3. QED
  BY <1>1, <1>2 DEF PageAt

\* Every step keeps the types.
LEMMA StepKeepsTypes ==
  ASSUME TypeOK, [Next]_vars
  PROVE  TypeOK'
<1>c. walker' \in Walkers /\ page_limit' \in PageLimits /\ Last' = Last /\ Areas(walker)' = Areas(walker)
      /\ Last \in Nat \ {0}
  BY CallStays, AreasInOrder DEF TypeOK, Last
<1>v. PageOf(vmpage) \in Nat /\ PAGE_SIZE \in Nat
  BY PagesAreNumbers DEF PageOf, TypeOK
<1>a. \A a \in 1 .. Last : Areas(walker)[a][1] \in Nat
  BY AreasInOrder DEF TypeOK, Last
<1> USE <1>c DEF callVars, tableVars, placeVars, countVars, historyVars, NextPage, LeaveWalk
<1>1. CASE BeginPage
  BY <1>1 DEF BeginPage, TypeOK
<1>2. CASE NextArea
  <2>1. area \in 1 .. Last /\ area' = area + 1
    BY <1>2 DEF NextArea, InWalk, TypeOK
  <2>2. vmpage' \in Nat
    BY <1>2, <2>1, <1>a DEF NextArea, TypeOK
  <2>3. QED
    BY <1>2, <2>1, <2>2 DEF NextArea, TypeOK
<1>3. CASE EndWalk
  <2>1. area' \in 1 .. Last + 1 /\ vmpage' \in Nat
    BY <1>3, <1>a DEF EndWalk, TypeOK
  <2>2. walks_left' \in 0 .. 2
    BY <1>3 DEF EndWalk, TypeOK
  <2>3. QED
    BY <1>3, <2>1, <2>2 DEF EndWalk, TypeOK
<1>4. CASE ReadEntry
  <2>1. level \in 2 .. 4
    BY <1>4 DEF ReadEntry, TypeOK
  <2>2. area' \in 1 .. Last + 1 /\ vmpage' \in Nat
    BY <1>4, <1>v DEF ReadEntry, SkipPage, TypeOK
  <2>3. level' \in 0 .. 4
    BY <1>4, <2>1 DEF ReadEntry, SkipPage, TypeOK
  <2>4. region' \in Nat \cup {Nowhere}
    BY <1>4, <2>1, PageAtIsNumber DEF ReadEntry, SkipPage, IsTable
  <2>5. QED
    BY <1>4, <2>2, <2>3, <2>4 DEF ReadEntry, TypeOK
<1>5. CASE ReadPage
  <2>1. area' \in 1 .. Last + 1 /\ vmpage' \in Nat /\ level' \in 0 .. 4 /\ region' \in Nat
    BY <1>5, <1>v DEF ReadPage, TypeOK
  <2>2. pages_visited' \in Nat /\ pages_present' \in Nat
    BY <1>5 DEF ReadPage, TypeOK, Visits
  <2>3. counted' \subseteq Nat
    BY <1>5, <1>v DEF ReadPage, TypeOK
  <2>4. QED
    BY <1>5, <2>1, <2>2, <2>3 DEF ReadPage, TypeOK
<1>6. CASE Fault
  BY <1>6 DEF Fault, TypeOK
<1>7. CASE Kernel
  <2>1. PICK v \in Paged : KernelMaps(v) \/ KernelUnmaps(v)
    BY <1>7 DEF Kernel
  <2>2. v \in Nat /\ TablesFor(v) \subseteq (1 .. 3) \X Nat
    BY <2>1, PagedAssumption, RegionsAreNumbers DEF TablesFor
  <2>3. tables' \subseteq (1 .. 3) \X Nat /\ present' \subseteq Nat
    BY <2>1, <2>2 DEF KernelMaps, KernelUnmaps, TypeOK
  <2>4. lasting' \subseteq sometime' /\ sometime' \subseteq Nat
    BY <1>7, <2>3 DEF Kernel, TypeOK
  <2>5. QED
    BY <1>7, <2>3, <2>4 DEF Kernel, TypeOK
<1>8. CASE UNCHANGED vars
  BY <1>8 DEF vars, TypeOK
<1>9. QED
  BY <1>1, <1>2, <1>3, <1>4, <1>5, <1>6, <1>7, <1>8 DEF Next, WalkerStep

\* The walk and its tables stay what they are (pt_walker.c:38-50, :119-177).
THEOREM WalksTyped == Spec => []TypeOK
<1>1. Init => TypeOK
  <2> SUFFICES ASSUME Init PROVE TypeOK
    OBVIOUS
  <2>1. present \subseteq Nat /\ walker \in Walkers
    BY PagedAssumption DEF Init
  <2>2. tables \subseteq (1 .. 3) \X Nat
    <3>1. \A v \in present : TablesFor(v) \subseteq (1 .. 3) \X Nat
      BY <2>1, RegionsAreNumbers DEF TablesFor
    <3>2. QED
      BY <3>1 DEF Init
  <2>3. area \in 1 .. Last + 1 /\ vmpage \in Nat
    BY <2>1, AreasInOrder DEF Init, Last
  <2>4. page_limit \in PageLimits
    BY PageLimitsAssumption DEF Init
  <2>5. QED
    BY <2>1, <2>2, <2>3, <2>4 DEF Init, TypeOK, WalksOf
<1>2. TypeOK /\ [Next]_vars => TypeOK'
  BY StepKeepsTypes
<1>3. QED
  BY <1>1, <1>2, PTL DEF Spec

\* Whole pages: the next one still ends within what is made of whole pages.
LEMMA NextPageFits ==
  ASSUME NEW x \in Nat, NEW y \in Nat, NEW p \in Nat \ {0}, x % p = 0, y % p = 0, x < y
  PROVE  x + p <= y /\ (x + p) % p = 0
<1> DEFINE qx == x \div p
<1> DEFINE qy == y \div p
<1>1. qx \in Nat /\ qy \in Nat /\ x = p * qx /\ y = p * qy
  OBVIOUS
<1> HIDE DEF qx, qy
<1>2. qx + 1 <= qy
  <2>1. ASSUME qy <= qx
        PROVE  p * qy <= p * qx
    BY <1>1, <2>1
  <2>2. QED
    BY <1>1, <2>1
<1>3. p * (qx + 1) <= p * qy /\ p * (qx + 1) = x + p
  BY <1>1, <1>2
<1>4. (p * (qx + 1)) % p = 0
  BY <1>1
<1>5. QED
  BY <1>1, <1>3, <1>4

\* Walks that may leave the tables, or stop early, have one area.
LEMMA LostInOneArea ==
  ASSUME TypeOK, PlaceInv, LostInv
  PROVE  region = Nowhere \/ page_limit > 0 \/ walker = "v1" => Last = 1
<1>1. walker \in {"pt_walker", "v1", "v2", "user"} /\ (walker # "user" => Last = 1)
  BY AreasInOrder, WalkersAssumption DEF TypeOK, Last
<1>2. page_limit > 0 => walker # "user"
  BY <1>1 DEF PlaceInv
<1>3. region = Nowhere => walker # "user"
  BY DEF LostInv, OnlyTablesRead
<1>4. QED
  BY <1>1, <1>2, <1>3

\* Every step keeps the address in its area, and the level in step with the place.
LEMMA StepKeepsPlaces ==
  ASSUME TypeOK, PlaceInv, LostInv, TypeOK', [Next]_vars
  PROVE  PlaceInv'
<1> DEFINE Start(a) == Areas(walker)[a][1]
<1> DEFINE End(a) == Areas(walker)[a][2]
<1>c. walker' = walker /\ page_limit' = page_limit /\ Areas(walker)' = Areas(walker)
      /\ Last' = Last /\ Last \in Nat \ {0}
  BY CallStays, AreasInOrder DEF TypeOK, Last
<1>a. \A a \in 1 .. Last : /\ Start(a) \in Nat /\ End(a) \in Nat /\ Start(a) < End(a)
                           /\ Start(a) % PAGE_SIZE = 0 /\ End(a) % PAGE_SIZE = 0
  BY AreasInOrder DEF TypeOK, Last
<1> DEFINE at == IF area > Last THEN Last ELSE area
<1>t. /\ area \in 1 .. Last + 1 /\ vmpage \in Nat /\ level \in 0 .. 4 /\ at \in 1 .. Last
      /\ vmpage \in Start(at) .. End(at) /\ vmpage % PAGE_SIZE = 0
      /\ level > 0 => walks_left > 0 /\ area <= Last /\ vmpage < End(at)
      /\ level = 0 => region = 0
      /\ walker \in {"pt_walker", "user"} => page_limit = 0
  BY <1>c DEF TypeOK, PlaceInv
<1>p. PlaceInv' <=> LET to == IF area' > Last THEN Last ELSE area'
                    IN /\ vmpage' \in Start(to) .. End(to) /\ vmpage' % PAGE_SIZE = 0
                       /\ level' > 0 => walks_left' > 0 /\ area' <= Last /\ vmpage' < End(to)
                       /\ level' = 0 => region' = 0
                       /\ walker \in {"pt_walker", "user"} => page_limit = 0
  BY <1>c DEF PlaceInv
<1> HIDE DEF Start, End
<1>n. ASSUME level > 0, NextPage
      PROVE  /\ area' = area /\ vmpage' \in Start(area) .. End(area) /\ vmpage' % PAGE_SIZE = 0
             /\ level' = 0 /\ region' = 0 /\ area <= Last
  <2>1. area \in 1 .. Last /\ at = area
    BY <1>n, <1>t
  <2>2. vmpage + PAGE_SIZE <= End(area) /\ (vmpage + PAGE_SIZE) % PAGE_SIZE = 0
    BY <1>n, <1>t, <1>a, <2>1, NextPageFits, PagesAreNumbers
  <2>3. QED
    BY <1>n, <1>t, <1>a, <2>1, <2>2, PagesAreNumbers DEF NextPage
<1>l. ASSUME level > 0, LeaveWalk, Last = 1
      PROVE  /\ area' = Last + 1 /\ vmpage' \in Start(Last) .. End(Last)
             /\ vmpage' % PAGE_SIZE = 0 /\ level' = 0 /\ region' = 0
  BY <1>l, <1>t DEF LeaveWalk
<1> USE DEF callVars, tableVars, placeVars, countVars, historyVars
<1>1. CASE BeginPage
  <2>1. area \in 1 .. Last /\ vmpage < End(area) /\ UNCHANGED <<area, vmpage, walks_left>>
        /\ walks_left > 0 /\ level' = 4
    BY <1>1, <1>t DEF BeginPage, InWalk, End
  <2>2. QED
    BY <2>1, <1>t, <1>p
<1>2. CASE NextArea
  <2>1. /\ area \in 1 .. Last /\ level' = 0 /\ region' = 0 /\ area' = area + 1
        /\ vmpage' = IF area < Last THEN Start(area + 1) ELSE vmpage
    BY <1>2, <1>t DEF NextArea, InWalk, Start
  <2>2. CASE area < Last
    <3>1. area + 1 \in 1 .. Last /\ ~(area + 1 > Last)
      BY <2>1, <2>2, <1>c
    <3>2. Start(area + 1) \in Start(area + 1) .. End(area + 1) /\ Start(area + 1) % PAGE_SIZE = 0
      BY <3>1, <1>a
    <3>3. QED
      BY <2>1, <2>2, <3>1, <3>2, <1>t, <1>p
  <2>3. CASE ~(area < Last)
    BY <2>1, <2>3, <1>c, <1>t, <1>p
  <2>4. QED
    BY <2>2, <2>3
<1>3. CASE EndWalk
  <2>1. level = 0
    BY <1>3, <1>t DEF EndWalk
  <2>2. CASE walks_left > 1
    <3>1. area' = 1 /\ vmpage' = Start(1) /\ level' = 0 /\ region' = 0
      BY <1>3, <1>t, <2>1, <2>2 DEF EndWalk, Start
    <3>2. QED
      BY <3>1, <1>c, <1>a, <1>t, <1>p
  <2>3. CASE ~(walks_left > 1)
    BY <1>3, <1>t, <1>p, <2>1, <2>3 DEF EndWalk
  <2>4. QED
    BY <2>2, <2>3
<1>4. CASE ReadEntry
  <2>1. level \in 2 .. 4 /\ walks_left' = walks_left
    BY <1>4 DEF ReadEntry
  <2>2. CASE level' = level - 1 /\ UNCHANGED <<area, vmpage>>
    BY <2>1, <2>2, <1>t, <1>p
  <2>3. CASE NextPage
    BY <2>1, <2>3, <1>n, <1>t, <1>p
  <2>4. CASE walker = "v1" /\ LeaveWalk
    BY <2>1, <2>4, <1>l, <1>t, <1>p, LostInOneArea
  <2>5. QED
    BY <1>4, <2>2, <2>3, <2>4 DEF ReadEntry, SkipPage
<1>5. CASE ReadPage
  <2>1. level > 0 /\ walks_left' = walks_left
    BY <1>5 DEF ReadPage
  <2>2. CASE NextPage
    BY <2>1, <2>2, <1>n, <1>t, <1>p
  <2>3. CASE LimitReached /\ LeaveWalk
    BY <2>1, <2>3, <1>l, <1>t, <1>p, LostInOneArea DEF LimitReached
  <2>4. QED
    BY <1>5, <2>2, <2>3 DEF ReadPage
<1>6. CASE Fault
  <2>1. level > 0
    BY <1>6, <1>t DEF Fault, Nowhere
  <2>2. QED
    BY <1>6, <2>1, <1>l, <1>t, <1>p, LostInOneArea DEF Fault
<1>7. CASE UNCHANGED <<area, vmpage, level, region, walks_left>>
  BY <1>7, <1>t, <1>p
<1>8. Kernel \/ UNCHANGED vars => UNCHANGED <<area, vmpage, level, region, walks_left>>
  BY DEF Kernel, vars
<1>9. QED
  BY <1>1, <1>2, <1>3, <1>4, <1>5, <1>6, <1>7, <1>8 DEF Next, WalkerStep

\* Behind the last area the walk holds no table.
LEMMA EndIsAtRest ==
  ASSUME TypeOK, PlaceInv, area > Last
  PROVE  level = 0 /\ region = 0
<1>1. level \in 0 .. 4 /\ area \in 1 .. Last + 1 /\ Last \in Nat
  BY AreasInOrder DEF TypeOK, Last
<1>2. (level > 0 => area <= Last) /\ (level = 0 => region = 0)
  BY DEF PlaceInv
<1>3. QED
  BY <1>1, <1>2

-----------------------------------------------------------------------------
\* The tables and the pages that are mapped.

\* Only the kernel and a new walk touch what TablesInv speaks of.
LEMMA WalkersTouchNothing ==
  ASSUME WalkerStep, ~EndWalk
  PROVE  UNCHANGED <<tables, present, lasting, sometime>>
  BY DEF WalkerStep, BeginPage, NextArea, ReadEntry, ReadPage, Fault, tableVars, historyVars

\* Tables come with all the tables above them, and stay.
LEMMA StepKeepsTables ==
  ASSUME TypeOK, TablesInv, [Next]_vars
  PROVE  TablesInv' /\ tables \subseteq tables'
<1>1. CASE Kernel
  <2>1. PICK v \in Paged : KernelMaps(v) \/ KernelUnmaps(v)
    BY <1>1 DEF Kernel
  <2>2. CASE KernelMaps(v)
    BY <1>1, <2>2 DEF Kernel, KernelMaps, TablesInv
  <2>3. CASE KernelUnmaps(v)
    BY <1>1, <2>3 DEF Kernel, KernelUnmaps, TablesInv
  <2>4. QED
    BY <2>1, <2>2, <2>3
<1>2. CASE EndWalk
  BY <1>2 DEF EndWalk, TablesInv, tableVars
<1>3. CASE WalkerStep /\ ~EndWalk
  BY <1>3, WalkersTouchNothing DEF TablesInv
<1>4. CASE UNCHANGED vars
  BY <1>4 DEF vars, tableVars, historyVars, TablesInv
<1>5. QED
  BY <1>1, <1>2, <1>3, <1>4 DEF Next

\* Where the entry at hand leads, and what it tells of the page at hand.
LEMMA EntryTells ==
  ASSUME TypeOK, TablesInv, OnTheWay, level > 0, region # Nowhere
  PROVE  /\ level > 1 => (IsTable <=> <<level - 1, RegionOf(level - 1, PageOf(vmpage))>> \in tables)
         /\ level > 1 /\ PageOf(vmpage) \in present => IsTable
         /\ level > 1 /\ Present(level, region, Index) => IsTable \/ UnderLarge(PageOf(vmpage))
         /\ level = 1 => (Present(level, region, Index) <=> PageOf(vmpage) \in present)
<1> DEFINE v == PageOf(vmpage)
<1>1. PageAt = RegionOf(level - 1, v) /\ level \in 1 .. 4 /\ v \in Nat
  BY EntryAtHand, PagesAreNumbers DEF TypeOK, PageOf
<1> HIDE DEF v
<1>2. IsTable <=> <<level - 1, RegionOf(level - 1, v)>> \in tables
  BY <1>1 DEF IsTable, PointsToTable, PageAt
<1>3. ASSUME level > 1, v \in present
      PROVE  IsTable
  <2>1. level - 1 \in 1 .. 3
    BY <1>1, <1>3
  <2>2. <<level - 1, RegionOf(level - 1, v)>> \in TablesFor(v)
    BY <2>1 DEF TablesFor
  <2>3. QED
    BY <1>2, <1>3, <2>2 DEF TablesInv
<1>4. ASSUME level > 1, Present(level, region, Index), ~IsTable
      PROVE  UnderLarge(v)
  <2>1. <<level - 1, RegionOf(level - 1, v)>> \in Large
    BY <1>1, <1>4 DEF Present, IsTable, IsLarge, PointsToTable, PageAt
  <2>2. level - 1 \in 1 .. 2
    BY <2>1, LargeAssumption
  <2>3. QED
    BY <2>1, <2>2 DEF UnderLarge
<1>5. ASSUME level = 1
      PROVE  Present(level, region, Index) <=> v \in present
  <2>1. RegionOf(0, v) = v
    <3>1. v \div 1 = v
      BY <1>1
    <3>2. QED
      BY <3>1 DEF RegionOf, Pages
  <2>2. PageAt = v
    BY <1>1, <1>5, <2>1
  <2>3. QED
    BY <1>5, <2>2 DEF Present, PageAt
<1>6. QED
  BY <1>2, <1>3, <1>4, <1>5 DEF v

\* A step of the walk down the tables follows the page at hand.
LEMMA StepKeepsWay ==
  ASSUME TypeOK, PlaceInv, TablesInv, OnTheWay, PlaceInv', tables \subseteq tables', [Next]_vars
  PROVE  OnTheWay'
<1> USE DEF callVars, tableVars, placeVars, countVars, historyVars
<1>1. CASE BeginPage
  <2>1. level' = 4 /\ region' = 0 /\ vmpage' = vmpage
    BY <1>1 DEF BeginPage
  <2>2. vmpage \in Nat /\ vmpage < AddressLimit
    <3>1. area \in 1 .. Last /\ vmpage < Areas(walker)[area][2]
      BY <1>1 DEF BeginPage, InWalk, TypeOK
    <3>2. Areas(walker)[area][2] \in Nat /\ Areas(walker)[area][2] <= AddressLimit
      BY <3>1, AreasInOrder DEF TypeOK, Last
    <3>3. AddressLimit \in Nat /\ vmpage \in Nat
      BY PagesAreNumbers DEF AddressLimit, TypeOK
    <3>4. QED
      BY <3>1, <3>2, <3>3
  <2>3. RegionOf(4, PageOf(vmpage)) = 0
    BY <2>2, RootTranslatesAll
  <2>4. PageOf(vmpage)' = PageOf(vmpage)
    BY <2>1 DEF PageOf
  <2>5. QED
    BY <2>1, <2>3, <2>4 DEF OnTheWay, Root
<1>2. CASE level' = 0
  BY <1>2 DEF OnTheWay
<1>3. CASE ReadEntry /\ level' # 0
  <2>1. level \in 2 .. 4 /\ level' = level - 1 /\ vmpage' = vmpage
        /\ region' = (IF IsTable THEN PageAt ELSE Nowhere)
    BY <1>3 DEF ReadEntry, SkipPage, NextPage, LeaveWalk
  <2>2. CASE IsTable
    <3>1. region # Nowhere
      BY <2>2 DEF IsTable
    <3>2. /\ <<level - 1, RegionOf(level - 1, PageOf(vmpage))>> \in tables
          /\ PageAt = RegionOf(level - 1, PageOf(vmpage))
      BY <2>1, <2>2, <3>1, EntryTells, EntryAtHand
    <3>3. PageOf(vmpage)' = PageOf(vmpage)
      BY <2>1 DEF PageOf
    <3>4. QED
      BY <2>1, <2>2, <3>2, <3>3 DEF OnTheWay
  <2>3. CASE ~IsTable
    BY <2>1, <2>3 DEF OnTheWay
  <2>4. QED
    BY <2>2, <2>3
<1>4. CASE UNCHANGED placeVars
  BY <1>4 DEF OnTheWay, PageOf
<1>5. Fault \/ ReadPage => level' = 0
  BY DEF Fault, ReadPage, NextPage, LeaveWalk
<1>6. Kernel \/ UNCHANGED vars => UNCHANGED placeVars
  BY DEF Kernel, vars
<1>7. NextArea \/ EndWalk => level' = 0
  <2>1. NextArea => level' = 0
    BY DEF NextArea
  <2>2. EndWalk => level' = level /\ area > Last
    BY DEF EndWalk
  <2>3. area > Last => level = 0
    BY EndIsAtRest
  <2>4. QED
    BY <2>1, <2>2, <2>3
<1>8. QED
  BY <1>1, <1>2, <1>3, <1>4, <1>5, <1>6, <1>7 DEF Next, WalkerStep

\* A walk leaves the tables only where nothing is mapped.
LEMMA StepKeepsLost ==
  ASSUME TypeOK, PlaceInv, TablesInv, OnTheWay, LostInv, [Next]_vars
  PROVE  LostInv'
<1> USE DEF callVars, tableVars, placeVars, countVars, historyVars
<1>c. walker' = walker
  BY CallStays
<1>i. LostInv <=> (region = Nowhere => /\ walker = "v2" \/ (walker = "pt_walker" /\ UnderLarge(PageOf(vmpage)))
                                       /\ PageOf(vmpage) \notin lasting)
  BY DEF LostInv, OnlyTablesRead
<1>p. LostInv' <=> (region' = Nowhere => /\ walker = "v2" \/ (walker = "pt_walker" /\ UnderLarge(PageOf(vmpage)'))
                                         /\ PageOf(vmpage)' \notin lasting')
  BY <1>c DEF LostInv, OnlyTablesRead, UnderLarge
<1>1. CASE region' = 0
  BY <1>1, <1>p DEF Nowhere
<1>2. CASE UNCHANGED <<vmpage, region>> /\ lasting' \subseteq lasting
  BY <1>2, <1>i, <1>p DEF PageOf
<1>3. CASE ReadEntry /\ region' = Nowhere
  <2>1. level \in 2 .. 4 /\ vmpage' = vmpage /\ lasting' = lasting /\ ~IsTable
    <3>1. region # Nowhere => PageAt # Nowhere
      BY <1>3, PageAtIsNumber DEF ReadEntry, Nowhere
    <3>2. QED
      BY <1>3, <3>1 DEF ReadEntry, SkipPage, NextPage, LeaveWalk, Nowhere, IsTable
  <2>2. PageOf(vmpage)' = PageOf(vmpage)
    BY <2>1 DEF PageOf
  <2>3. PICK bit \in PresentBits : ~Refuses(bit)
    BY <1>3 DEF ReadEntry, SkipPage, NextPage, LeaveWalk, Nowhere
  <2>4. CASE region = Nowhere
    BY <2>1, <2>2, <2>4, <1>i, <1>p
  <2>5. CASE region # Nowhere
    <3>1. PageOf(vmpage) \notin lasting
      BY <2>1, <2>5, EntryTells DEF TablesInv
    <3>2. walker \in {"pt_walker", "v1", "v2", "user"}
      BY WalkersAssumption DEF TypeOK
    <3>3. walker \in {"v1", "user"} => FALSE
      BY <2>1, <2>3 DEF Refuses
    <3>4. walker = "pt_walker" => UnderLarge(PageOf(vmpage))
      <4>1. ASSUME walker = "pt_walker"
            PROVE  bit
        BY <2>3, <4>1 DEF Refuses
      <4>2. bit = Present(level, region, Index)
        BY <2>3, <2>5 DEF PresentBits
      <4>3. QED
        BY <2>1, <2>5, <4>1, <4>2, EntryTells
    <3>5. QED
      BY <2>1, <2>2, <3>1, <3>2, <3>3, <3>4, <1>p
  <2>6. QED
    BY <2>4, <2>5
<1>4. CASE ReadEntry /\ region' # Nowhere
  BY <1>4, <1>p
<1>5. CASE EndWalk
  <2>1. region' = region /\ area > Last
    BY <1>5 DEF EndWalk
  <2>2. region = 0
    BY <2>1, EndIsAtRest
  <2>3. QED
    BY <2>1, <2>2, <1>1
<1>6. CASE NextArea
  <2>1. region' = region /\ level = 0
    BY <1>6 DEF NextArea
  <2>2. QED
    BY <2>1, <1>1 DEF PlaceInv
<1>7. BeginPage \/ ReadPage \/ Fault => region' = 0
  BY DEF BeginPage, ReadPage, Fault, NextPage, LeaveWalk
<1>8. Kernel \/ UNCHANGED vars => UNCHANGED <<vmpage, region>> /\ lasting' \subseteq lasting
  BY DEF Kernel, vars
<1>9. QED
  BY <1>1, <1>2, <1>3, <1>4, <1>5, <1>6, <1>7, <1>8 DEF Next, WalkerStep

-----------------------------------------------------------------------------
\* The five parts together.
WalkInv == TypeOK /\ PlaceInv /\ TablesInv /\ OnTheWay /\ LostInv

\* The walk begins in order,
LEMMA InitialWalk ==
  ASSUME Init, TypeOK
  PROVE  WalkInv
<1>1. walker \in Walkers /\ area = 1 /\ vmpage = Areas(walker)[1][1] /\ level = 0 /\ region = 0
  BY DEF Init, TypeOK
<1>2. PlaceInv
  <2>1. Last \in Nat \ {0} /\ Areas(walker)[1][1] \in Areas(walker)[1][1] .. Areas(walker)[1][2]
        /\ Areas(walker)[1][1] % PAGE_SIZE = 0
    BY <1>1, AreasInOrder DEF Last
  <2>2. walker \in {"pt_walker", "user"} => page_limit = 0
    BY DEF Init
  <2>3. QED
    BY <1>1, <2>1, <2>2 DEF PlaceInv
<1>3. TablesInv
  BY DEF Init, TablesInv
<1>4. OnTheWay /\ LostInv
  BY <1>1 DEF OnTheWay, LostInv, OnlyTablesRead, Nowhere
<1>5. QED
  BY <1>2, <1>3, <1>4 DEF WalkInv

\* goes on in order,
LEMMA StepKeepsWalk ==
  ASSUME WalkInv, [Next]_vars
  PROVE  WalkInv'
<1>1. TypeOK' /\ PlaceInv'
  BY StepKeepsTypes, StepKeepsPlaces DEF WalkInv
<1>2. TablesInv' /\ tables \subseteq tables'
  BY StepKeepsTables DEF WalkInv
<1>3. OnTheWay' /\ LostInv'
  BY <1>1, <1>2, StepKeepsWay, StepKeepsLost DEF WalkInv
<1>4. QED
  BY <1>1, <1>2, <1>3 DEF WalkInv

\* and so it always is.
LEMMA WalksFit == Spec => []WalkInv
<1>1. Init /\ TypeOK => WalkInv
  BY InitialWalk
<1>2. WalkInv /\ [Next]_vars => WalkInv'
  BY StepKeepsWalk
<1>3. QED
  BY <1>1, <1>2, WalksTyped, PTL DEF Spec

\* The table at hand is the one that translates the address at hand
\* (pt_walker.c:38-50).
THEOREM WalksKeepTheWay == Spec => []OnTheWay
<1>1. WalkInv => OnTheWay
  BY DEF WalkInv
<1>2. QED
  BY <1>1, WalksFit, PTL

\* Entries are followed to tables only, in the walks that test them
\* (pt_walker.c:134-149, kmod.c:41-55).
THEOREM WalksReadTables == Spec => []OnlyTablesRead
<1>1. WalkInv => OnlyTablesRead
  BY DEF WalkInv, LostInv
<1>2. QED
  BY <1>1, WalksFit, PTL

\* Only reading the entry of a page counts it, and a present entry tells the truth.
LEMMA StepInventsNothing ==
  ASSUME WalkInv, NothingInvented, [Next]_vars
  PROVE  NothingInvented'
<1> USE DEF NothingInvented
<1>present. ASSUME ReadPage, Present(level, region, Index), region # Nowhere
            PROVE  PageOf(vmpage) \in sometime
  <2>1. PageOf(vmpage) \in present
    BY <1>present, EntryTells DEF WalkInv, ReadPage
  <2>2. QED
    BY <2>1 DEF WalkInv, TablesInv
<1>read. CASE ReadPage
  <2>1. PICK bit \in PresentBits :
          counted' = IF bit /\ region # Nowhere THEN counted \cup {PageOf(vmpage)} ELSE counted
    BY <1>read DEF ReadPage
  <2>2. bit /\ region # Nowhere => PageOf(vmpage) \in sometime
    BY <1>read, <1>present DEF PresentBits
  <2>3. QED
    BY <1>read, <2>1, <2>2 DEF ReadPage, historyVars
\* The kernel only adds to the pages that were there sometime; a walk that begins
\* again counts from nothing.
<1>other. CASE Kernel \/ EndWalk \/ BeginPage \/ NextArea \/ ReadEntry \/ Fault \/ UNCHANGED vars
  BY <1>other DEF Kernel, EndWalk, BeginPage, NextArea, ReadEntry, Fault, vars, historyVars
<1> QED
  BY <1>read, <1>other DEF Next, WalkerStep

\* No walk takes a page for present that never was (pt_walker.c:167-177).
THEOREM WalksInventNothing == Spec => []NothingInvented
<1>init. Init => NothingInvented
  BY DEF Init, NothingInvented
<1>step. WalkInv /\ NothingInvented /\ [Next]_vars => NothingInvented'
  BY StepInventsNothing
<1> QED
  BY <1>init, <1>step, WalksFit, PTL DEF Spec

-----------------------------------------------------------------------------
\* What the walk has been over.

\* Page numbers grow with the address, one for each page.
LEMMA PageNumbers ==
  ASSUME NEW x \in Nat, NEW y \in Nat
  PROVE  /\ PageOf(x) \in Nat /\ PageOf(x) <= x
         /\ x <= y => PageOf(x) <= PageOf(y)
         /\ PageOf(x + PAGE_SIZE) = PageOf(x) + 1
<1> DEFINE p == PAGE_SIZE
<1> DEFINE qx == x \div p
<1> DEFINE qy == y \div p
<1>1. p \in Nat \ {0}
  BY PagesAreNumbers
<1> HIDE DEF p
<1>2. qx \in Nat /\ x % p \in Nat /\ x % p < p /\ x = p * qx + (x % p)
  BY <1>1
<1>3. qy \in Nat /\ y % p \in Nat /\ y % p < p /\ y = p * qy + (y % p)
  BY <1>1
<1>4. (x + p) \div p = qx + 1
  BY <1>1
<1> HIDE DEF qx, qy
<1>5. qx <= x
  <2>1. qx <= p * qx
    BY <1>1, <1>2
  <2>2. QED
    BY <1>1, <1>2, <2>1
<1>6. ASSUME x <= y
      PROVE  qx <= qy
  <2>1. ASSUME qy + 1 <= qx
        PROVE  p * qy + p <= p * qx
    BY <1>1, <1>2, <1>3, <2>1
  <2>2. QED
    BY <1>1, <1>2, <1>3, <1>6, <2>1
<1>7. QED
  BY <1>2, <1>4, <1>5, <1>6 DEF PageOf, p, qx, qy

\* The pages of area a that a walk at vp, in area ar, has been over.
Start(a) == Areas(walker)[a][1]
End(a) == Areas(walker)[a][2]
Covered(a, ar, vp) == PageOf(Start(a)) .. PageOf(IF a < ar /\ a < Last THEN End(a) ELSE vp) - 1

\* What is behind the walk, area by area, before and after a step.
LEMMA BehindIsCovered ==
  ASSUME TypeOK, [Next]_vars
  PROVE  /\ Behind = UNION {Covered(a, area, vmpage) : a \in {b \in 1 .. Last : b <= area}}
         /\ Behind' = UNION {Covered(a, area', vmpage') : a \in {b \in 1 .. Last : b <= area'}}
<1>1. Areas(walker)' = Areas(walker) /\ Last' = Last
  BY CallStays
<1>2. QED
  BY <1>1 DEF Behind, Covered, Start, End, PageOf

\* A new walk has been over nothing.
LEMMA BehindBegins ==
  ASSUME TypeOK, [Next]_vars, area' = 1, vmpage' = Start(1)
  PROVE  Behind' = {}
<1>0. Last \in Nat \ {0} /\ Start(1) \in Nat
  BY AreasInOrder DEF TypeOK, Last, Start
<1>1. Last \in Nat \ {0} /\ PageOf(Start(1)) \in Nat
  BY <1>0, PageNumbers
<1>2. \A a \in {b \in 1 .. Last : b <= area'} : Covered(a, area', vmpage') = {}
  BY <1>1 DEF Covered
<1>3. QED
  BY <1>2, BehindIsCovered

\* At the beginning nothing is behind.
LEMMA NothingBehind ==
  ASSUME Init
  PROVE  Behind = {}
<1>1. walker \in Walkers /\ area = 1 /\ vmpage = Start(1)
  BY DEF Init, Start
<1>2. Last \in Nat \ {0} /\ Start(1) \in Nat
  BY <1>1, AreasInOrder DEF Last, Start
<1>3. PageOf(Start(1)) \in Nat
  BY <1>2, PageNumbers
<1>4. \A a \in {b \in 1 .. Last : b <= area} : Covered(a, area, vmpage) = {}
  BY <1>1, <1>2, <1>3 DEF Covered
<1>5. Behind = UNION {Covered(a, area, vmpage) : a \in {b \in 1 .. Last : b <= area}}
  BY DEF Behind, Covered, Start, End
<1>6. QED
  BY <1>4, <1>5

\* Where the walk does not move, or leaves its only area, it is over nothing more.
LEMMA BehindStays ==
  ASSUME WalkInv, [Next]_vars,
         UNCHANGED <<area, vmpage>> \/ (Last = 1 /\ area' = Last + 1 /\ vmpage' = vmpage)
  PROVE  Behind' = Behind
<1>1. area \in 1 .. Last + 1 /\ Last \in Nat
  BY AreasInOrder DEF WalkInv, TypeOK, Last
<1>2. CASE UNCHANGED <<area, vmpage>>
  BY <1>2, BehindIsCovered DEF WalkInv
<1>3. CASE Last = 1 /\ area' = Last + 1 /\ vmpage' = vmpage
  <2>1. {b \in 1 .. Last : b <= area} = {1} /\ {b \in 1 .. Last : b <= area'} = {1}
    BY <1>1, <1>3
  <2>2. Covered(1, area, vmpage) = Covered(1, area', vmpage')
    BY <1>3 DEF Covered
  <2>3. QED
    BY <2>1, <2>2, BehindIsCovered DEF WalkInv
<1>4. QED
  BY <1>2, <1>3

\* The next area begins with nothing behind it in it.
LEMMA BehindNextArea ==
  ASSUME WalkInv, NextArea
  PROVE  Behind' = Behind
<1>0. [Next]_vars
  BY DEF Next, WalkerStep
<1>1. /\ area \in 1 .. Last /\ Last \in Nat /\ area' = area + 1
      /\ vmpage' = IF area < Last THEN Start(area + 1) ELSE vmpage
  BY AreasInOrder DEF NextArea, InWalk, WalkInv, TypeOK, Last, Start
<1>2. vmpage = End(area)
  <2>1. vmpage \in Start(area) .. End(area) /\ vmpage >= End(area)
    BY <1>1 DEF NextArea, WalkInv, PlaceInv, Start, End
  <2>2. Start(area) \in Nat /\ End(area) \in Nat
    BY <1>1, AreasInOrder DEF WalkInv, TypeOK, Last, Start, End
  <2>3. QED
    BY <2>1, <2>2
<1>3. CASE area < Last
  <2>1. \A a \in 1 .. area : Covered(a, area', vmpage') = Covered(a, area, vmpage)
    BY <1>1, <1>2, <1>3 DEF Covered
  <2>2. Covered(area + 1, area', vmpage') = {}
    <3>0. area + 1 \in 1 .. Last
      BY <1>1, <1>3
    <3>s. Start(area + 1) \in Nat
      BY <3>0, AreasInOrder DEF WalkInv, TypeOK, Last, Start
    <3>1. PageOf(Start(area + 1)) \in Nat
      BY <3>s, PageNumbers
    <3>2. QED
      BY <1>1, <1>3, <3>1 DEF Covered
  <2>3. {b \in 1 .. Last : b <= area} = 1 .. area
        /\ {b \in 1 .. Last : b <= area'} = (1 .. area) \cup {area + 1}
    BY <1>1, <1>3
  <2>4. /\ Behind = UNION {Covered(a, area, vmpage) : a \in 1 .. area}
        /\ Behind' = UNION {Covered(a, area', vmpage') : a \in (1 .. area) \cup {area + 1}}
    BY <1>0, <2>3, BehindIsCovered DEF WalkInv
  <2>5. QED
    BY <2>1, <2>2, <2>4
<1>4. CASE area = Last
  <2>1. {b \in 1 .. Last : b <= area} = 1 .. Last /\ {b \in 1 .. Last : b <= area'} = 1 .. Last
    BY <1>1, <1>4
  <2>2. \A a \in 1 .. Last : Covered(a, area', vmpage') = Covered(a, area, vmpage)
    BY <1>1, <1>4 DEF Covered
  <2>3. QED
    BY <1>0, <2>1, <2>2, BehindIsCovered DEF WalkInv
<1>5. QED
  BY <1>1, <1>3, <1>4

\* The next page leaves one more behind, which was not there before.
LEMMA BehindNextPage ==
  ASSUME WalkInv, [Next]_vars, level > 0, NextPage
  PROVE  Behind' = Behind \cup {PageOf(vmpage)} /\ PageOf(vmpage) \notin Behind
<1> DEFINE v == PageOf(vmpage)
<1>1. area \in 1 .. Last /\ Last \in Nat /\ area' = area /\ vmpage' = vmpage + PAGE_SIZE
      /\ vmpage \in Nat
  BY AreasInOrder DEF NextPage, WalkInv, PlaceInv, TypeOK, Last
<1>2. vmpage \in Start(area) .. End(area)
  BY <1>1 DEF WalkInv, PlaceInv, Start, End
<1>3. v \in Nat /\ PageOf(vmpage') = v + 1
  BY <1>1, PageNumbers
<1>4. \A a \in 1 .. Last : Start(a) \in Nat /\ End(a) \in Nat
  BY AreasInOrder DEF WalkInv, TypeOK, Last, Start, End
<1>5. PageOf(Start(area)) \in Nat /\ PageOf(Start(area)) <= v
  BY <1>1, <1>2, <1>4, PageNumbers
<1> HIDE DEF v
<1>6. \A a \in 1 .. area - 1 : /\ Covered(a, area', vmpage') = Covered(a, area, vmpage)
                               /\ v \notin Covered(a, area, vmpage)
  <2> TAKE a \in 1 .. area - 1
  <2>1. a \in 1 .. Last /\ a < area /\ a < Last
    BY <1>1
  <2>2. Covered(a, area, vmpage) = PageOf(Start(a)) .. PageOf(End(a)) - 1
        /\ Covered(a, area', vmpage') = PageOf(Start(a)) .. PageOf(End(a)) - 1
    BY <1>1, <2>1 DEF Covered
  <2>3. End(a) <= Start(area)
    BY <1>1, <2>1, AreasInOrder DEF WalkInv, TypeOK, Last, Start, End
  <2>4. PageOf(End(a)) \in Nat /\ PageOf(End(a)) <= PageOf(Start(area))
    BY <1>1, <1>4, <2>1, <2>3, PageNumbers
  <2>5. QED
    BY <1>3, <1>5, <2>2, <2>4
<1>7. /\ Covered(area, area, vmpage) = PageOf(Start(area)) .. v - 1
      /\ Covered(area, area', vmpage') = PageOf(Start(area)) .. v
  <2>1. ~(area < area) /\ (v + 1) - 1 = v
    BY <1>1, <1>3
  <2>2. QED
    BY <1>1, <1>3, <2>1 DEF Covered, v
<1>8. /\ v \notin Covered(area, area, vmpage)
      /\ Covered(area, area', vmpage') = Covered(area, area, vmpage) \cup {v}
  BY <1>3, <1>5, <1>7
<1>9. {b \in 1 .. Last : b <= area} = (1 .. area - 1) \cup {area}
      /\ {b \in 1 .. Last : b <= area'} = (1 .. area - 1) \cup {area}
  BY <1>1
<1>10. Behind = UNION {Covered(a, area, vmpage) : a \in (1 .. area - 1) \cup {area}}
       /\ Behind' = UNION {Covered(a, area', vmpage') : a \in (1 .. area - 1) \cup {area}}
  BY <1>9, BehindIsCovered DEF WalkInv
<1>11. QED
  BY <1>6, <1>8, <1>10 DEF v

\* An entry is refused only at a page that is not mapped, unless the walk ends.
LEMMA SkippedIsAbsent ==
  ASSUME WalkInv, level \in 2 .. 4, NEW bit \in PresentBits, Refuses(bit)
  PROVE  PageOf(vmpage) \notin lasting
<1>1. CASE region = Nowhere
  BY <1>1 DEF WalkInv, LostInv
<1>2. CASE region # Nowhere
  <2>1. bit = Present(level, region, Index) /\ (IsTable => Present(level, region, Index))
    BY <1>2 DEF PresentBits, IsTable, Present
  <2>2. ~IsTable
    BY <2>1, WalkersAssumption DEF Refuses, WalkInv, TypeOK
  <2>3. PageOf(vmpage) \notin present
    BY <1>2, <2>2, EntryTells DEF WalkInv
  <2>4. QED
    BY <2>3 DEF WalkInv, TablesInv
<1>3. QED
  BY <1>1, <1>2

\* Reading the entry of a page adds it to the counted ones if it is present.
LEMMA PageIsCounted ==
  ASSUME WalkInv, ReadPage
  PROVE  \E bit \in PresentBits :
           /\ pages_visited' = pages_visited + Visits(bit)
           /\ pages_present' = pages_present + (IF walker = "user" /\ bit THEN 1 ELSE 0)
           /\ counted' = IF bit /\ region # Nowhere THEN counted \cup {PageOf(vmpage)} ELSE counted
           /\ region # Nowhere => (bit <=> PageOf(vmpage) \in present)
<1>1. PICK bit \in PresentBits :
        /\ pages_visited' = pages_visited + Visits(bit)
        /\ pages_present' = pages_present + (IF walker = "user" /\ bit THEN 1 ELSE 0)
        /\ counted' = IF bit /\ region # Nowhere THEN counted \cup {PageOf(vmpage)} ELSE counted
  BY DEF ReadPage
<1>2. region # Nowhere => (bit <=> PageOf(vmpage) \in present)
  <2>1. ASSUME region # Nowhere
        PROVE  bit <=> PageOf(vmpage) \in present
    <3>1. bit = Present(level, region, Index) /\ level = 1
      BY <2>1 DEF PresentBits, ReadPage
    <3>2. QED
      BY <2>1, <3>1, EntryTells DEF WalkInv
  <2>2. QED
    BY <2>1
<1>3. QED
  BY <1>1, <1>2

\* The walk moves on in five ways: it begins again, it goes over nothing more, it
\* skips a page, it counts a page, or it counts one and ends.
LEMMA WalkMoves ==
  ASSUME WalkInv, [Next]_vars, walks_left' > 0
  PROVE  \/ Behind' = {} /\ counted' = {} /\ pages_visited' = 0 /\ pages_present' = 0
            /\ area' <= Last
         \/ /\ walks_left > 0 /\ Behind' = Behind /\ lasting' \subseteq lasting
            /\ area > Last => area' > Last
            /\ UNCHANGED countVars /\ counted' = counted
         \/ /\ walks_left > 0 /\ area <= Last /\ level \in 2 .. 4
            /\ Behind' = Behind \cup {PageOf(vmpage)} /\ PageOf(vmpage) \notin Behind
            /\ PageOf(vmpage) \notin lasting /\ lasting' = lasting
            /\ walker \in {"pt_walker", "user"}
            /\ UNCHANGED countVars /\ counted' = counted
         \/ /\ walks_left > 0 /\ area <= Last /\ level = 1 /\ ReadPage /\ lasting' = lasting
            /\ \/ /\ ~LimitReached
                  /\ Behind' = Behind \cup {PageOf(vmpage)} /\ PageOf(vmpage) \notin Behind
               \/ LimitReached /\ Behind' = Behind /\ area' = Last + 1
<1>c. Last \in Nat \ {0} /\ area \in 1 .. Last + 1 /\ walks_left \in 0 .. 2
      /\ walker \in {"pt_walker", "v1", "v2", "user"}
  BY AreasInOrder, WalkersAssumption DEF WalkInv, TypeOK, Last
<1> USE DEF historyVars, InWalk
<1>1. CASE EndWalk
  <2>1. area' = 1 /\ vmpage' = Start(1)
    BY <1>1, <1>c DEF EndWalk, Start
  <2>2. QED
    BY <1>1, <1>c, <2>1, BehindBegins DEF EndWalk, WalkInv
<1>2. CASE BeginPage
  BY <1>2, BehindStays DEF BeginPage
<1>3. CASE NextArea
  <2>1. Behind' = Behind
    BY <1>3, BehindNextArea
  <2>2. QED
    BY <1>3, <1>c, <2>1 DEF NextArea
<1>4. CASE ReadEntry
  <2>0. level \in 2 .. 4 /\ walks_left > 0 /\ area <= Last /\ UNCHANGED countVars
        /\ counted' = counted /\ lasting' = lasting
    BY <1>4 DEF ReadEntry
  <2>1. PICK bit \in PresentBits :
          IF Refuses(bit) THEN SkipPage ELSE UNCHANGED <<area, vmpage>>
    BY <1>4 DEF ReadEntry
  <2>2. CASE UNCHANGED <<area, vmpage>>
    BY <2>0, <2>2, <1>c, BehindStays
  <2>3. CASE Refuses(bit) /\ walker = "v1" /\ LeaveWalk
    <3>1. Last = 1
      BY <2>3, LostInOneArea DEF WalkInv
    <3>2. QED
      BY <2>0, <2>3, <3>1, <1>c, BehindStays DEF LeaveWalk
  <2>4. CASE Refuses(bit) /\ walker # "v1" /\ NextPage
    <3>1. walker \in {"pt_walker", "user"}
      BY <2>4, <1>c DEF Refuses
    <3>2. PageOf(vmpage) \notin lasting
      BY <2>0, <2>4, SkippedIsAbsent
    <3>3. Behind' = Behind \cup {PageOf(vmpage)} /\ PageOf(vmpage) \notin Behind
      BY <2>0, <2>4, BehindNextPage
    <3>4. QED
      BY <2>0, <3>1, <3>2, <3>3
  <2>5. QED
    BY <2>1, <2>2, <2>3, <2>4 DEF SkipPage
<1>5. CASE ReadPage
  <2>0. level = 1 /\ walks_left > 0 /\ area <= Last /\ lasting' = lasting
    BY <1>5 DEF ReadPage
  <2>1. CASE LimitReached /\ LeaveWalk
    <3>1. Last = 1
      BY <2>1, LostInOneArea DEF WalkInv, LimitReached
    <3>2. Behind' = Behind
      BY <2>1, <3>1, BehindStays DEF LeaveWalk
    <3>3. QED
      BY <1>5, <2>0, <2>1, <3>2 DEF LeaveWalk
  <2>2. CASE ~LimitReached /\ NextPage
    BY <1>5, <2>0, <2>2, BehindNextPage
  <2>3. QED
    BY <1>5, <2>1, <2>2 DEF ReadPage
<1>6. CASE Fault
  BY <1>6 DEF Fault
<1>7. CASE Kernel
  BY <1>7, BehindStays DEF Kernel, placeVars
<1>8. CASE UNCHANGED vars
  BY <1>8, BehindStays DEF vars, placeVars
<1>9. QED
  BY <1>1, <1>2, <1>3, <1>4, <1>5, <1>6, <1>7, <1>8 DEF Next, WalkerStep

\* However the kernel maps and unmaps meanwhile, a walk misses no page behind it
\* that stays mapped (pt_walker.c:167-177, user.c:100-125).
THEOREM WalksMissNothing == Spec => []NothingMissed
<1>1. Init => NothingMissed
  BY NothingBehind DEF NothingMissed
<1>2. WalkInv /\ NothingMissed /\ [Next]_vars => NothingMissed'
  <2> SUFFICES ASSUME WalkInv, NothingMissed, [Next]_vars, walks_left' > 0
               PROVE  lasting' \cap Behind' \subseteq counted'
    BY DEF NothingMissed
  <2> DEFINE v == PageOf(vmpage)
  <2>1. CASE ReadPage /\ walks_left > 0
    <3>1. counted \subseteq counted'
      BY <2>1, PageIsCounted
    <3>2. v \in lasting => v \in counted'
      BY <2>1, PageIsCounted DEF WalkInv, TablesInv, LostInv
    <3>3. lasting' = lasting /\ Behind' \subseteq Behind \cup {v}
      BY <2>1, WalkMoves DEF ReadPage
    <3>4. QED
      BY <2>1, <3>1, <3>2, <3>3 DEF NothingMissed
  <2>2. CASE Behind' = {}
    BY <2>2
  <2>3. QED
    BY <2>1, <2>2, WalkMoves DEF NothingMissed
<1>3. QED
  BY <1>1, <1>2, WalksFit, PTL DEF Spec

-----------------------------------------------------------------------------
\* The counts.

\* The pages behind can be counted.
LEMMA BehindIsFinite ==
  ASSUME WalkInv
  PROVE  IsFiniteSet(Behind)
<1> DEFINE all == 0 .. AddressLimit
<1>1. AddressLimit \in Nat
  BY PagesAreNumbers DEF AddressLimit
<1>2. /\ Last \in Nat \ {0} /\ area \in 1 .. Last + 1 /\ vmpage \in Nat
      /\ \A a \in 1 .. Last : Start(a) \in Nat /\ End(a) \in Nat /\ End(a) <= AddressLimit
  BY AreasInOrder DEF WalkInv, TypeOK, Last, Start, End
<1>3. vmpage <= AddressLimit
  <2> DEFINE at == IF area > Last THEN Last ELSE area
  <2>1. at \in 1 .. Last
    BY <1>2
  <2>2. vmpage \in Start(at) .. End(at)
    BY DEF WalkInv, PlaceInv, Start, End
  <2> HIDE DEF at
  <2>3. QED
    BY <1>1, <1>2, <2>1, <2>2
<1>4. \A a \in 1 .. Last : Covered(a, area, vmpage) \subseteq all
  <2> TAKE a \in 1 .. Last
  <2> DEFINE to == IF a < area /\ a < Last THEN End(a) ELSE vmpage
  <2>1. to \in Nat /\ to <= AddressLimit
    BY <1>2, <1>3
  <2>2. Covered(a, area, vmpage) = PageOf(Start(a)) .. PageOf(to) - 1
    BY DEF Covered
  <2> HIDE DEF to
  <2>3. PageOf(to) \in Nat /\ PageOf(to) <= to /\ PageOf(Start(a)) \in Nat
    BY <1>2, <2>1, PageNumbers
  <2>4. QED
    BY <1>1, <2>1, <2>2, <2>3
<1>5. Behind = UNION {Covered(a, area, vmpage) : a \in {b \in 1 .. Last : b <= area}}
  BY DEF Behind, Covered, Start, End
<1>6. Behind \in SUBSET all
  BY <1>4, <1>5
<1>7. IsFiniteSet(all)
  BY <1>1, FS_Interval
<1>8. QED
  BY <1>6, <1>7, FS_Subset

\* The pages of S that a large one maps.
LargeOnes(S) == {w \in S : UnderLarge(w)}

\* CountsAgree, of the pages behind a walk, those it counted, and its two counts.
Agree(behind, cnt, visited, seen) ==
  /\ walker = "pt_walker" => visited - Cardinality(cnt) \in 0 .. Cardinality(LargeOnes(behind))
  /\ walker = "user" => /\ seen = Cardinality(cnt)
                        /\ visited \in seen .. Cardinality(behind)
  /\ walker \in {"v1", "v2"} =>
       IF page_limit > 0 /\ visited >= page_limit
         THEN visited = page_limit /\ Cardinality(behind) = page_limit - 1
         ELSE visited = Cardinality(behind)

\* CountsAgree as a relation between values, before and after a step.
LEMMA CountsAgreeIsAgree ==
  ASSUME WalkInv, [Next]_vars
  PROVE  /\ CountsAgree <=> (walks_left > 0 => Agree(Behind, counted, pages_visited, pages_present))
         /\ CountsAgree' <=> (walks_left' > 0 =>
                                Agree(Behind', counted', pages_visited', pages_present'))
<1>1. walker \in {"pt_walker", "v1", "v2", "user"} /\ walker' = walker /\ page_limit' = page_limit
  BY CallStays, WalkersAssumption DEF WalkInv, TypeOK
<1>2. CASE walker = "pt_walker"
  BY <1>1, <1>2 DEF CountsAgree, Agree, LargeOnes, UnderLarge
<1>3. CASE walker = "user"
  BY <1>1, <1>3 DEF CountsAgree, Agree
<1>4. CASE walker \in {"v1", "v2"}
  BY <1>1, <1>4 DEF CountsAgree, Agree
<1>5. QED
  BY <1>1, <1>2, <1>3, <1>4

\* One page more behind the walk.
LEMMA OneMoreBehind ==
  ASSUME NEW S, IsFiniteSet(S), NEW v, v \notin S
  PROVE  /\ Cardinality(S) \in Nat /\ Cardinality(S \cup {v}) = Cardinality(S) + 1
         /\ Cardinality(LargeOnes(S)) \in Nat /\ Cardinality(LargeOnes(S \cup {v})) \in Nat
         /\ Cardinality(LargeOnes(S)) <= Cardinality(LargeOnes(S \cup {v}))
         /\ UnderLarge(v) => Cardinality(LargeOnes(S \cup {v})) = Cardinality(LargeOnes(S)) + 1
<1>1. Cardinality(S) \in Nat /\ Cardinality(S \cup {v}) = Cardinality(S) + 1
  BY FS_AddElement, FS_CardinalityType
<1>2. LargeOnes(S) \in SUBSET S /\ v \notin LargeOnes(S)
  BY DEF LargeOnes
<1>3. IsFiniteSet(LargeOnes(S))
  BY <1>2, FS_Subset
<1>4. Cardinality(LargeOnes(S)) \in Nat
  BY <1>3, FS_CardinalityType
<1>5. CASE UnderLarge(v)
  <2>1. LargeOnes(S \cup {v}) = LargeOnes(S) \cup {v}
    BY <1>5 DEF LargeOnes
  <2>2. Cardinality(LargeOnes(S) \cup {v}) = Cardinality(LargeOnes(S)) + 1
    BY <1>2, <1>3, FS_AddElement
  <2>3. QED
    BY <1>1, <1>4, <2>1, <2>2
<1>6. CASE ~UnderLarge(v)
  <2>1. LargeOnes(S \cup {v}) = LargeOnes(S)
    BY <1>6 DEF LargeOnes
  <2>2. QED
    BY <1>1, <1>4, <1>6, <2>1
<1>7. QED
  BY <1>5, <1>6

\* Reading a page that lies ahead keeps the counts in agreement.
LEMMA CountedPageAgrees ==
  ASSUME WalkInv, CountInv, ReadPage, NEW v, v = PageOf(vmpage), walks_left > 0, area <= Last,
         Agree(Behind, counted, pages_visited, pages_present),
         ~LimitReached, Behind' = Behind \cup {v}, v \notin Behind
  PROVE  /\ Agree(Behind', counted', pages_visited', pages_present')
         /\ walker \in {"pt_walker", "user"} => counted' \subseteq Behind'
         /\ ~(page_limit > 0 /\ pages_visited' >= page_limit)
<1>1. PICK bit \in PresentBits :
           /\ pages_visited' = pages_visited + Visits(bit)
           /\ pages_present' = pages_present + (IF walker = "user" /\ bit THEN 1 ELSE 0)
           /\ counted' = IF bit /\ region # Nowhere THEN counted \cup {v} ELSE counted
  BY PageIsCounted
<1>b. /\ Cardinality(Behind) \in Nat /\ Cardinality(Behind') = Cardinality(Behind) + 1
      /\ Cardinality(LargeOnes(Behind)) \in Nat /\ Cardinality(LargeOnes(Behind')) \in Nat
      /\ Cardinality(LargeOnes(Behind)) <= Cardinality(LargeOnes(Behind'))
      /\ UnderLarge(v) => Cardinality(LargeOnes(Behind')) = Cardinality(LargeOnes(Behind)) + 1
  BY BehindIsFinite, OneMoreBehind
<1>t. pages_visited \in Nat /\ pages_present \in Nat /\ page_limit \in Nat
  BY PageLimitsAssumption DEF WalkInv, TypeOK
<1>s. walker \in {"pt_walker", "user"} => counted \subseteq Behind
  BY DEF CountInv
<1>l. walker \in {"pt_walker", "user"} => page_limit = 0
  BY DEF WalkInv, PlaceInv
<1>2. ASSUME walker \in {"pt_walker", "user"}
      PROVE  /\ Cardinality(counted) \in Nat /\ counted' \subseteq Behind'
             /\ Cardinality(counted') = IF bit /\ region # Nowhere THEN Cardinality(counted) + 1
                                                                   ELSE Cardinality(counted)
  <2>1. IsFiniteSet(counted) /\ v \notin counted
    BY <1>2, <1>s, BehindIsFinite, FS_Subset
  <2>2. Cardinality(counted) \in Nat /\ Cardinality(counted \cup {v}) = Cardinality(counted) + 1
    BY <2>1, FS_AddElement, FS_CardinalityType
  <2>3. QED
    BY <1>1, <1>2, <1>s, <2>2
<1>3. CASE walker = "pt_walker"
  <2>1. region = Nowhere => UnderLarge(v)
    BY <1>3 DEF WalkInv, LostInv, OnlyTablesRead
  <2>2. pages_visited - Cardinality(counted) \in 0 .. Cardinality(LargeOnes(Behind))
    BY <1>3 DEF Agree
  <2>3. CASE bit
    <3>1. pages_visited' = pages_visited + 1
      BY <1>1, <2>3 DEF Visits
    <3>2. CASE region = Nowhere
      BY <1>2, <1>3, <1>b, <1>t, <1>l, <2>1, <2>2, <2>3, <3>1, <3>2 DEF Agree
    <3>3. CASE region # Nowhere
      BY <1>2, <1>3, <1>b, <1>t, <1>l, <2>2, <2>3, <3>1, <3>3 DEF Agree
    <3>4. QED
      BY <3>2, <3>3
  <2>4. CASE ~bit
    <3>1. pages_visited' = pages_visited
      BY <1>1, <1>3, <1>t, <2>4 DEF Visits
    <3>2. QED
      BY <1>2, <1>3, <1>b, <1>t, <1>l, <2>2, <2>4, <3>1 DEF Agree
  <2>5. QED
    BY <2>3, <2>4
<1>4. CASE walker = "user"
  <2>1. region # Nowhere
    BY <1>4 DEF WalkInv, LostInv, OnlyTablesRead
  <2>2. pages_present = Cardinality(counted)
        /\ pages_visited \in pages_present .. Cardinality(Behind)
    BY <1>4 DEF Agree
  <2>3. pages_visited' = pages_visited + 1
    BY <1>1, <1>4 DEF Visits
  <2>4. pages_present' = IF bit THEN pages_present + 1 ELSE pages_present
    BY <1>1, <1>4, <1>t
  <2>5. QED
    BY <1>2, <1>4, <1>b, <1>t, <1>l, <2>1, <2>2, <2>3, <2>4 DEF Agree
<1>5. CASE walker \in {"v1", "v2"}
  <2>1. ~(page_limit > 0 /\ pages_visited >= page_limit)
    BY <1>t, AreasInOrder DEF CountInv, WalkInv, TypeOK, Last
  <2>2. pages_visited = Cardinality(Behind)
    BY <1>5, <2>1 DEF Agree
  <2>3. pages_visited' = pages_visited + 1
    BY <1>1, <1>5 DEF Visits
  <2>4. ~(page_limit > 0 /\ pages_visited' >= page_limit)
    BY <2>3 DEF LimitReached
  <2>5. QED
    BY <1>5, <1>b, <2>2, <2>3, <2>4 DEF Agree
<1>6. QED
  BY <1>3, <1>4, <1>5, WalkersAssumption DEF WalkInv, TypeOK

\* Every step keeps the counts in agreement.
LEMMA StepKeepsCounts ==
  ASSUME WalkInv, CountInv, [Next]_vars
  PROVE  CountInv'
<1>c. walker' = walker /\ page_limit' = page_limit /\ Last' = Last
  BY CallStays
<1>t. /\ page_limit \in Nat /\ pages_visited \in Nat
      /\ Last \in Nat \ {0} /\ area \in 1 .. Last + 1 /\ walks_left \in 0 .. 2
  BY PageLimitsAssumption, AreasInOrder DEF WalkInv, TypeOK, Last
<1> SUFFICES ASSUME walks_left' > 0
             PROVE  /\ Agree(Behind', counted', pages_visited', pages_present')
                    /\ walker \in {"pt_walker", "user"} => counted' \subseteq Behind'
                    /\ page_limit > 0 /\ pages_visited' >= page_limit => area' > Last
  <2>1. CountsAgree' <=> (walks_left' > 0 =>
                            Agree(Behind', counted', pages_visited', pages_present'))
    BY CountsAgreeIsAgree
  <2>2. CountInv' <=>
          /\ CountsAgree'
          /\ walks_left' > 0 =>
               /\ walker \in {"pt_walker", "user"} => counted' \subseteq Behind'
               /\ page_limit > 0 /\ pages_visited' >= page_limit => area' > Last
    BY <1>c DEF CountInv
  <2>3. QED
    BY <2>1, <2>2
<1>a. walks_left > 0 =>
        /\ Agree(Behind, counted, pages_visited, pages_present)
        /\ walker \in {"pt_walker", "user"} => counted \subseteq Behind
        /\ page_limit > 0 /\ pages_visited >= page_limit => area > Last
  BY CountsAgreeIsAgree DEF CountInv
<1> DEFINE v == PageOf(vmpage)
<1>1. CASE Behind' = {} /\ counted' = {} /\ pages_visited' = 0 /\ pages_present' = 0
  <2>1. Cardinality({}) = 0 /\ LargeOnes({}) = {}
    BY FS_EmptySet DEF LargeOnes
  <2>2. ~(page_limit > 0 /\ 0 >= page_limit) /\ 0 - 0 \in 0 .. 0 /\ 0 \in 0 .. 0
    BY <1>t
  <2>3. Agree({}, {}, 0, 0)
    BY <2>1, <2>2 DEF Agree
  <2>4. QED
    BY <1>1, <2>2, <2>3
<1>2. CASE /\ walks_left > 0 /\ Behind' = Behind /\ (area > Last => area' > Last)
           /\ UNCHANGED countVars /\ counted' = counted
  BY <1>2, <1>a, <1>t DEF countVars
<1>3. CASE /\ walks_left > 0 /\ area <= Last /\ Behind' = Behind \cup {v} /\ v \notin Behind
           /\ walker \in {"pt_walker", "user"} /\ UNCHANGED countVars /\ counted' = counted
  <2>1. /\ Cardinality(Behind) \in Nat /\ Cardinality(Behind') = Cardinality(Behind) + 1
        /\ Cardinality(LargeOnes(Behind)) \in Nat /\ Cardinality(LargeOnes(Behind')) \in Nat
        /\ Cardinality(LargeOnes(Behind)) <= Cardinality(LargeOnes(Behind'))
    BY <1>3, BehindIsFinite, OneMoreBehind
  <2>2. page_limit = 0
    BY <1>3 DEF WalkInv, PlaceInv
  <2>3. Agree(Behind', counted', pages_visited', pages_present')
    <3>1. CASE walker = "pt_walker"
      <4>1. pages_visited - Cardinality(counted) \in 0 .. Cardinality(LargeOnes(Behind))
        BY <1>3, <1>a, <3>1 DEF Agree
      <4>2. QED
        BY <1>3, <2>1, <3>1, <4>1 DEF Agree, countVars
    <3>2. CASE walker = "user"
      <4>1. pages_present = Cardinality(counted) /\ pages_present \in Nat
            /\ pages_visited \in pages_present .. Cardinality(Behind)
        BY <1>3, <1>a, <3>2 DEF Agree, WalkInv, TypeOK
      <4>2. QED
        BY <1>3, <2>1, <3>2, <4>1 DEF Agree, countVars
    <3>3. QED
      BY <1>3, <3>1, <3>2
  <2>4. QED
    BY <1>3, <1>a, <2>2, <2>3
<1>4. CASE /\ walks_left > 0 /\ area <= Last /\ ReadPage
           /\ ~LimitReached /\ Behind' = Behind \cup {v} /\ v \notin Behind
  BY <1>4, <1>a, CountedPageAgrees
<1>5. CASE /\ walks_left > 0 /\ area <= Last /\ ReadPage
           /\ LimitReached /\ Behind' = Behind /\ area' = Last + 1
  <2>1. walker \in {"v1", "v2"} /\ page_limit > 0
    BY <1>5, <1>t, WalkersAssumption DEF LimitReached, WalkInv, PlaceInv, TypeOK
  <2>2. ~(pages_visited >= page_limit)
    BY <1>5, <1>a, <1>t, <2>1
  <2>3. pages_visited = Cardinality(Behind)
    BY <1>5, <1>a, <2>1, <2>2 DEF Agree
  <2>4. pages_visited' = pages_visited + 1
    BY <1>5, <2>1, PageIsCounted DEF Visits
  <2>5. pages_visited' = page_limit /\ Cardinality(Behind) = page_limit - 1
    BY <1>5, <1>t, <2>2, <2>3, <2>4 DEF LimitReached
  <2>6. QED
    BY <1>5, <1>t, <2>1, <2>5 DEF Agree
<1>6. QED
  BY <1>1, <1>2, <1>3, <1>4, <1>5, WalkMoves

\* What is printed is what the walk has been over: pt_walker counts each present
\* page once, walkmod each page up to its limit, and user.c's absent pages are
\* never negative (pt_walker.c:176, walkmod.c:193-196, user.c:114-130).
THEOREM CountsAlwaysAgree == Spec => []CountsAgree
<1>1. Init => CountInv
  <2> SUFFICES ASSUME Init PROVE CountInv
    OBVIOUS
  <2>1. Behind = {} /\ counted = {} /\ pages_visited = 0 /\ pages_present = 0
    BY NothingBehind DEF Init
  <2>2. Cardinality({}) = 0 /\ {w \in {} : UnderLarge(w)} = {}
    BY FS_EmptySet
  <2>3. page_limit \in Nat
    BY PageLimitsAssumption DEF Init
  <2>4. CountsAgree
    BY <2>1, <2>2, <2>3 DEF CountsAgree
  <2>5. QED
    BY <2>1, <2>3, <2>4 DEF CountInv
<1>2. WalkInv /\ CountInv /\ [Next]_vars => CountInv'
  BY StepKeepsCounts
<1>3. CountInv => CountsAgree
  BY DEF CountInv
<1>4. QED
  BY <1>1, <1>2, <1>3, WalksFit, PTL DEF Spec
=============================================================================
