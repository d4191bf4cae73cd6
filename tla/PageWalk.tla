------------------------------ MODULE PageWalk ------------------------------
(***************************************************************************)
(* The four page table walks of src/pt_walker: pt_walker.c over a fixed    *)
(* range, walkmod.c in two versions over the first area of the loading     *)
(* process, and user.c over all areas of its own, with get_pte_for_address *)
(* of kmod.c.  Each entry is read in a step of its own, while the kernel   *)
(* maps and unmaps pages: no walk takes a lock.                            *)
(***************************************************************************)
EXTENDS PageTables, Sequences, FiniteSets

CONSTANTS
  Walkers,    \* the walks an instance covers, of "pt_walker", "v1", "v2", "user"
  WalkLimit,  \* the end of pt_walker's range (2^32)
  Vmas,       \* the areas of the process, <<vm_start, vm_end>> in order
  PageLimits  \* values of page_limit, a parameter of walkmod's walks (0: none)

ASSUME WalkersAssumption == Walkers \subseteq {"pt_walker", "v1", "v2", "user"}
\* task_mm && task_mm->mmap: a process that loads a module or runs has an area.
\* The kernel keeps areas apart, in order, in whole pages and within the tables.
ASSUME VmasAssumption ==
  /\ Vmas \in Seq(Nat \X Nat) /\ Vmas # <<>>
  /\ \A a \in 1 .. Len(Vmas) :
       /\ Vmas[a][1] < Vmas[a][2] /\ Vmas[a][2] <= AddressLimit
       /\ Vmas[a][1] % PAGE_SIZE = 0 /\ Vmas[a][2] % PAGE_SIZE = 0
  /\ \A a, b \in 1 .. Len(Vmas) : a < b => Vmas[a][2] <= Vmas[b][1]
ASSUME WalkLimitAssumption ==
  WalkLimit \in 1 .. AddressLimit /\ WalkLimit % PAGE_SIZE = 0
ASSUME PageLimitsAssumption == PageLimits \subseteq Nat /\ 0 \in PageLimits

VARIABLES
  walker,         \* which walk this is
  page_limit,     \* v1 and v2 only
  area,           \* the area at hand, 1 for the first
  vmpage,         \* the address at hand
  level,          \* the level of the table at hand, 0 between two pages
  region,         \* what the table at hand translates, or Nowhere
  pages_visited,
  pages_present,  \* user.c only
  walks_left,     \* the walks main has still to make
  lasting,        \* history: pages mapped without interruption since the walk began
  sometime,       \* history: pages mapped at some point of the walk
  counted         \* history: the pages the walk took for present

callVars == <<walker, page_limit>>
placeVars == <<area, vmpage, level, region>>
countVars == <<pages_visited, pages_present>>
historyVars == <<lasting, sometime, counted>>
vars == <<tableVars, callVars, placeVars, countVars, walks_left, historyVars>>

Nowhere == -1  \* what an entry leads to that points to no table

Areas(w) == CASE w = "pt_walker" -> <<<<0, WalkLimit>>>>
              [] w \in {"v1", "v2"} -> SubSeq(Vmas, 1, 1)
              [] w = "user" -> Vmas
Last == Len(Areas(walker))

\* main of pt_walker.c and user.c walks twice, init_module of walkmod.c once.
WalksOf(w) == IF w \in {"v1", "v2"} THEN 1 ELSE 2

\* Mutant: the second and third index are swapped.
PageOffsetsSwapped(addr) ==
  LET n == NUM_ENTRIES
      v == addr \div PAGE_SIZE
  IN <<v % n, ((v \div n) \div n) % n, (v \div n) % n, (((v \div n) \div n) \div n) % n>>

\* vaddr_to_page_offsets: shift out the offset, then one index after the other.
PageOffsets(addr) ==
  LET n == NUM_ENTRIES
      v == addr \div PAGE_SIZE
  IN <<v % n, (v \div n) % n, ((v \div n) \div n) % n, (((v \div n) \div n) \div n) % n>>

PageOf(addr) == addr \div PAGE_SIZE
Index == PageOffsets(vmpage)[level]
PageAt == region * NUM_ENTRIES + Index

TypeOK ==
  /\ tables \subseteq (1 .. 3) \X Nat
  /\ present \subseteq Nat
  /\ walker \in Walkers /\ page_limit \in PageLimits
  /\ area \in 1 .. Last + 1
  /\ vmpage \in Nat
  /\ level \in 0 .. 4
  /\ region \in Nat \cup {Nowhere}
  /\ pages_visited \in Nat /\ pages_present \in Nat
  /\ walks_left \in 0 .. 2
  /\ lasting \subseteq sometime /\ sometime \subseteq Nat /\ counted \subseteq Nat

\* At the start some pages are mapped, with their tables.
Init ==
  /\ present \in SUBSET {v \in Paged : ~UnderLarge(v)} /\ present # {}
  /\ tables = UNION {TablesFor(v) : v \in present}
  /\ walker \in Walkers
  /\ page_limit \in (IF walker \in {"v1", "v2"} THEN PageLimits ELSE {0})
  /\ area = 1 /\ vmpage = Areas(walker)[1][1]
  /\ level = 0 /\ region = 0
  /\ pages_visited = 0 /\ pages_present = 0
  /\ walks_left = WalksOf(walker)
  /\ lasting = present /\ sometime = present /\ counted = {}

-----------------------------------------------------------------------------
InWalk == walks_left > 0 /\ area <= Last

\* Mutant: five levels, the root taken for a table of the fifth.
BeginPageFive ==
  /\ InWalk /\ level = 0
  /\ vmpage < Areas(walker)[area][2]
  /\ level' = 5 /\ region' = 0
  /\ UNCHANGED <<tableVars, callVars, area, vmpage, countVars, walks_left, historyVars>>

\* for (...; vmpage < vm_end; ...): the next page, from the top-level table.
BeginPage ==
  /\ InWalk /\ level = 0
  /\ vmpage < Areas(walker)[area][2]
  /\ level' = 4 /\ region' = 0
  /\ UNCHANGED <<tableVars, callVars, area, vmpage, countVars, walks_left, historyVars>>

\* The end of an area: vma = get_next_vma(vma).
NextArea ==
  /\ InWalk /\ level = 0
  /\ vmpage >= Areas(walker)[area][2]
  /\ area' = area + 1
  /\ vmpage' = IF area < Last THEN Areas(walker)[area + 1][1] ELSE vmpage
  /\ UNCHANGED <<tableVars, callVars, level, region, countVars, walks_left, historyVars>>

\* The walk returns; main may make another one.
EndWalk ==
  /\ walks_left > 0 /\ area > Last
  /\ walks_left' = walks_left - 1
  /\ IF walks_left > 1 THEN area' = 1 /\ vmpage' = Areas(walker)[1][1]
                       ELSE UNCHANGED <<area, vmpage>>
  /\ pages_visited' = 0 /\ pages_present' = 0
  /\ lasting' = present /\ sometime' = present /\ counted' = {}
  /\ UNCHANGED <<tableVars, callVars, level, region>>

\* Mutant: the page after a hole is skipped too.
NextPageTwice == vmpage' = vmpage + 2 * PAGE_SIZE /\ level' = 0 /\ region' = 0 /\ UNCHANGED area

\* vmpage += PAGE_SIZE, after a page and after a continue.
NextPage == vmpage' = vmpage + PAGE_SIZE /\ level' = 0 /\ region' = 0 /\ UNCHANGED area

\* return or break out of the only area there is (walkmod.c).
LeaveWalk == area' = Last + 1 /\ level' = 0 /\ region' = 0 /\ UNCHANGED vmpage

\* Mutant: continue without vmpage += PAGE_SIZE.
SkipPageStuck == IF walker = "v1" THEN LeaveWalk
                                  ELSE level' = 0 /\ region' = 0 /\ UNCHANGED <<area, vmpage>>

\* An entry that leads nowhere: continue, but version 1 returns.
SkipPage == IF walker = "v1" THEN LeaveWalk ELSE NextPage

\* The entry at hand, when there is a table to read it from.
IsTable == region # Nowhere /\ PointsToTable(level, region, Index)
\* What its present bit may read as; away from the tables, anything.
PresentBits == IF region = Nowhere THEN BOOLEAN ELSE {Present(level, region, Index)}

\* Mutant: the entry of level 2 is followed without a test.
RefusesButTwo(bit) ==
  CASE walker = "pt_walker"     -> level # 2 /\ ~bit
    [] walker \in {"v1", "user"} -> level # 2 /\ ~IsTable
    [] walker = "v2"            -> FALSE

\* What each walk tests before it follows an entry of level 4, 3 or 2.
Refuses(bit) ==
  CASE walker = "pt_walker"     -> ~bit
    [] walker \in {"v1", "user"} -> ~IsTable  \* pud_none(*pud) || pud_bad(*pud), ...
    [] walker = "v2"            -> FALSE

\* Following an entry of level 4, 3 or 2 to the table below, if it leads to one.
ReadEntry ==
  /\ InWalk /\ level \in 2 .. 4
  /\ \E bit \in PresentBits :
       IF Refuses(bit) THEN SkipPage
                       ELSE /\ level' = level - 1
                            /\ region' = IF IsTable THEN PageAt ELSE Nowhere
                            /\ UNCHANGED <<area, vmpage>>
  /\ UNCHANGED <<tableVars, callVars, countVars, walks_left, historyVars>>

\* Mutant: pt_walker counts absent pages as well.
VisitsAll(bit) == 1

\* pt_walker.c counts a page when it is present, the others every page they get to.
Visits(bit) == IF walker = "pt_walker" /\ ~bit THEN 0 ELSE 1

\* page_limit > 0 && pages_walked >= page_limit, after the page is counted.
LimitReached == page_limit > 0 /\ pages_visited + 1 >= page_limit

\* The last-level entry; user.c counts the present ones apart.
ReadPage ==
  /\ InWalk /\ level = 1
  /\ \E bit \in PresentBits :
       /\ pages_visited' = pages_visited + Visits(bit)
       /\ pages_present' = pages_present + (IF walker = "user" /\ bit THEN 1 ELSE 0)
       /\ counted' = IF bit /\ region # Nowhere THEN counted \cup {PageOf(vmpage)} ELSE counted
  /\ IF LimitReached THEN LeaveWalk ELSE NextPage
  /\ UNCHANGED <<tableVars, callVars, walks_left, lasting, sometime>>

\* What is no table may lie where the direct map has nothing: the walk dies of it.
Fault ==
  /\ InWalk /\ region = Nowhere
  /\ walks_left' = 0 /\ LeaveWalk
  /\ UNCHANGED <<tableVars, callVars, countVars, historyVars>>

\* The kernel, at any point: page faults of the process, and reclaim.
Kernel ==
  /\ \E v \in Paged : KernelMaps(v) \/ KernelUnmaps(v)
  /\ lasting' = lasting \cap present'
  /\ sometime' = sometime \cup present'
  /\ UNCHANGED <<callVars, placeVars, countVars, walks_left, counted>>

WalkerStep == BeginPage \/ NextArea \/ EndWalk \/ ReadEntry \/ ReadPage \/ Fault
Next == WalkerStep \/ Kernel
Spec == Init /\ [][Next]_vars
FairSpec == Spec /\ WF_vars(WalkerStep)

-----------------------------------------------------------------------------
\* Entries are followed to tables only, in the walks that test them; a present
\* bit alone, which is what get_pte tests, also passes the entry of a large page
\* (pt_walker.c:134-149, kmod.c:41-55).
OnlyTablesRead ==
  region = Nowhere => walker = "v2" \/ (walker = "pt_walker" /\ UnderLarge(PageOf(vmpage)))

\* An entry that is not present leads nowhere: "present: Must be 1, region
\* invalid if 0" (walkmod.c:42, over version 2 at walkmod.c:240-251).
PresentIsTested == region = Nowhere => UnderLarge(PageOf(vmpage))

\* The table at hand is there and translates the address at hand: the indices of
\* vaddr_to_page_offsets lead to the page itself (pt_walker.c:38-50).
OnTheWay ==
  level > 0 /\ region # Nowhere =>
    /\ <<level, region>> \in tables \cup {Root}
    /\ region = RegionOf(level, PageOf(vmpage))

\* The pages that the walk has been over.
Behind == UNION {
  LET to == IF a < area /\ a < Last THEN Areas(walker)[a][2] ELSE vmpage
  IN PageOf(Areas(walker)[a][1]) .. PageOf(to) - 1 : a \in {b \in 1 .. Last : b <= area}}

\* However the kernel maps and unmaps meanwhile, a walk misses no page behind it
\* that stays mapped, and takes none for present that never was
\* (pt_walker.c:167-177, user.c:100-125).
NothingMissed == walks_left > 0 => lasting \cap Behind \subseteq counted
NothingInvented == counted \subseteq sometime

\* The counts that are printed: pt_walker counts each present page once, and at
\* most what it takes for pages below a large one; the walks of walkmod count
\* each page they have been over and stop at the limit; user.c's absent pages
\* are never negative (pt_walker.c:176, walkmod.c:193-196, user.c:114-130).
CountsAgree ==
  walks_left > 0 =>
    CASE walker = "pt_walker" ->
           pages_visited - Cardinality(counted) \in 0 .. Cardinality({v \in Behind : UnderLarge(v)})
      [] walker = "user" ->
           /\ pages_present = Cardinality(counted)
           /\ pages_visited \in pages_present .. Cardinality(Behind)
      [] OTHER ->
           IF page_limit > 0 /\ pages_visited >= page_limit
             THEN pages_visited = page_limit /\ Cardinality(Behind) = page_limit - 1
             ELSE pages_visited = Cardinality(Behind)

\* The walk comes to its end whatever the kernel does (pt_walker.c:167, user.c:100-125).
WalkEnds == <>(walks_left = 0)
-----------------------------------------------------------------------------
\* What the properties rest on.

\* The place is a page of an area, or the end of one; between pages no table is
\* at hand.
PlaceInv ==
  LET at == IF area > Last THEN Last ELSE area
  IN /\ vmpage \in Areas(walker)[at][1] .. Areas(walker)[at][2] /\ vmpage % PAGE_SIZE = 0
     /\ level > 0 => walks_left > 0 /\ area <= Last /\ vmpage < Areas(walker)[at][2]
     /\ level = 0 => region = 0
     /\ walker \in {"pt_walker", "user"} => page_limit = 0

\* A page that is mapped has its tables, and no large page in its place.
TablesInv ==
  /\ \A v \in present : TablesFor(v) \subseteq tables /\ ~UnderLarge(v)
  /\ lasting \subseteq present /\ present \subseteq sometime

\* A walk that has left the tables has done so at a page that was not mapped.
LostInv == OnlyTablesRead /\ (region = Nowhere => PageOf(vmpage) \notin lasting)

\* Pages are counted once, and none after the limit.
CountInv ==
  /\ CountsAgree
  /\ walks_left > 0 => /\ walker \in {"pt_walker", "user"} => counted \subseteq Behind
                       /\ page_limit > 0 /\ pages_visited >= page_limit => area > Last
=============================================================================
