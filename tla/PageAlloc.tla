----------------------------- MODULE PageAlloc -----------------------------
(***************************************************************************)
(* HooksCommon::AllocatePageNear: a search for a free page below, then     *)
(* above the hooked function, while other threads of the process allocate  *)
(* and free memory.  VirtualQuery and VirtualAlloc are separate calls: the *)
(* page that was free may be gone when it is asked for.                    *)
(*                                                                         *)
(* Addresses count pages.  An allocation starts at a multiple of the       *)
(* granularity; VirtualQuery reports of an address the base of the         *)
(* allocation it lies in and how much of its region is left from there.    *)
(***************************************************************************)
EXTENDS Integers, FiniteSetsExt

CONSTANTS
  Granularity,      \* si.dwAllocationGranularity
  MinApplication,   \* si.lpMinimumApplicationAddress
  MaxApplication,   \* the page of si.lpMaximumApplicationAddress
  range,            \* the range asked for
  Layouts,          \* what may be allocated at first: sets of regions
  Addresses,        \* the hooked functions
  MaxInterference   \* bound on what other threads allocate and free

ASSUME PageAllocAssumption ==
  /\ Granularity \in Nat \ {0} /\ range \in Nat \ {0}
  /\ MinApplication \in Nat /\ Granularity <= MinApplication
  /\ MaxApplication \in Nat
  /\ Addresses \subseteq MinApplication..MaxApplication
  /\ MaxInterference \in Nat

\* A region is a part of an allocation, which starts at a multiple of the
\* granularity and has no gaps.  No two allocations have a page in common.
Region == [base : Nat, first : Nat, size : Nat]
Pages(r) == r.first .. r.first + r.size - 1

Possible(rs) ==
  /\ \A r \in rs :
       /\ r \in Region /\ r.base % Granularity = 0
       /\ MinApplication <= r.base /\ r.base <= r.first
       /\ \A p \in r.base..r.first : \E q \in rs : q.base = r.base /\ p \in Pages(q)
  /\ \A r, q \in rs : Pages(r) \cap Pages(q) # {} => r.base = q.base

ASSUME LayoutsAssumption == \A rs \in Layouts : Possible(rs)

VARIABLES
  regions,         \* the regions of the process's allocations
  interfered,      \* how often another thread allocated or freed
  steadilyFree,    \* the granules that were free all the time (for FindsSteadilyFree)
  address,
  phase,           \* the search, or the VirtualAlloc after it, of either half
  probe,           \* the address that is tried next
  result

vars == <<regions, interfered, steadilyFree, address, phase, probe, result>>

Null == 0
Align(a) == a - (a % Granularity)
RegionsAt(p) == {r \in regions : p \in Pages(r)}
OnePage(g) == [base |-> g, first |-> g, size |-> 1]

\* VirtualAlloc takes a granule of which no page is allocated.
FreeGranules(rs) ==
  {g \in MinApplication..MaxApplication :
     /\ g % Granularity = 0
     /\ \A r \in rs : Pages(r) \cap (g .. g + Granularity - 1) = {}}

\* Mutant: the range not applied
LowestApplication == MinApplication

minAddress ==
  IF range <= address /\ MinApplication < address - range
    THEN address - range ELSE MinApplication

\* The whole page has to lie in the range.
maxAddress ==
  IF address + range <= MaxApplication THEN address + range - 1 ELSE MaxApplication

\* Where findPrevFreePage and findNextFreePage start.
Below(to) == Align(to) - Granularity
Above(from) == Align(from) + Granularity

Init ==
  /\ regions \in Layouts
  /\ interfered = 0
  /\ steadilyFree = FreeGranules(regions)
  /\ address \in {a \in Addresses : RegionsAt(a) # {}}
  /\ phase = "lower"
  /\ probe = Below(address)
  /\ result = Null

-----------------------------------------------------------------------------
SearchUpper == phase' = "upper" /\ probe' = Above(address)
GiveUp == phase' = "done" /\ UNCHANGED probe

\* Mutant: the next allocation by its region instead of by its base
SkipRegionBelow ==
  /\ phase = "lower"
  /\ IF ~(minAddress < probe) THEN SearchUpper
     ELSE IF RegionsAt(probe) = {} THEN phase' = "lower alloc" /\ UNCHANGED probe
     ELSE \E r \in RegionsAt(probe) :
       IF r.base < Granularity THEN SearchUpper
       ELSE probe' = Align(r.first - r.size) - Granularity /\ UNCHANGED phase
  /\ UNCHANGED <<regions, interfered, steadilyFree, address, result>>

\* An iteration of findPrevFreePage.
FindPrev ==
  /\ phase = "lower"
  /\ IF ~(minAddress < probe) THEN SearchUpper
     ELSE IF RegionsAt(probe) = {} THEN phase' = "lower alloc" /\ UNCHANGED probe
     ELSE \E r \in RegionsAt(probe) :
       IF r.base < Granularity THEN SearchUpper
       ELSE probe' = r.base - Granularity /\ UNCHANGED phase
  /\ UNCHANGED <<regions, interfered, steadilyFree, address, result>>

\* What VirtualQuery says of p: the size of its region, from the page of p on.
RegionSize(r, p) == r.first + r.size - p

\* Where findNextFreePage goes from p: the rest of the region, but counted from
\* the base of the allocation.
Behind(r, p) == Align(r.base + RegionSize(r, p) + Granularity - 1)

\* An iteration of findNextFreePage.
FindNext ==
  /\ phase = "upper"
  /\ IF ~(probe <= maxAddress) THEN GiveUp
     ELSE IF RegionsAt(probe) = {} THEN phase' = "upper alloc" /\ UNCHANGED probe
     ELSE \E r \in RegionsAt(probe) :
       IF r.base < Granularity THEN GiveUp
       ELSE probe' = Behind(r, probe) /\ UNCHANGED phase
  /\ UNCHANGED <<regions, interfered, steadilyFree, address, result>>

\* VirtualAlloc at the page that was free when it was looked at.
Allocate(from) ==
  /\ phase = from
  /\ probe \in FreeGranules(regions)
  /\ regions' = regions \cup {OnePage(probe)}
  /\ result' = probe
  /\ phase' = "done"
  /\ UNCHANGED <<interfered, steadilyFree, address, probe>>

\* Mutant: the loop left when the page is gone
GiveUpLower ==
  /\ phase = "lower alloc"
  /\ probe \notin FreeGranules(regions)
  /\ SearchUpper
  /\ UNCHANGED <<regions, interfered, steadilyFree, address, result>>

\* The page is gone: the search goes on from there.
RetryLower ==
  /\ phase = "lower alloc"
  /\ probe \notin FreeGranules(regions)
  /\ phase' = "lower"
  /\ probe' = Below(probe)
  /\ UNCHANGED <<regions, interfered, steadilyFree, address, result>>

\* Mutant: the same page tried again
RetryUpperSame ==
  /\ phase = "upper alloc"
  /\ probe \notin FreeGranules(regions)
  /\ UNCHANGED vars

RetryUpper ==
  /\ phase = "upper alloc"
  /\ probe \notin FreeGranules(regions)
  /\ phase' = "upper"
  /\ probe' = Above(probe)
  /\ UNCHANGED <<regions, interfered, steadilyFree, address, result>>

Search ==
  \/ FindPrev \/ FindNext
  \/ Allocate("lower alloc") \/ Allocate("upper alloc")
  \/ RetryLower \/ RetryUpper

\* Another thread takes a free granule, or frees an allocation other than the
\* image of the hooked function.
Interfere ==
  /\ interfered < MaxInterference
  /\ phase # "done"
  /\ interfered' = interfered + 1
  /\ \/ \E g \in FreeGranules(regions) : regions' = regions \cup {OnePage(g)}
     \/ \E b \in {r.base : r \in regions \ RegionsAt(address)} :
          /\ \A r \in RegionsAt(address) : r.base # b
          /\ regions' = {r \in regions : r.base # b}
  /\ steadilyFree' = steadilyFree \cap FreeGranules(regions')
  /\ UNCHANGED <<address, phase, probe, result>>

Next == Search \/ Interfere

Spec == Init /\ [][Next]_vars
FairSpec == Spec /\ WF_vars(Search)

-----------------------------------------------------------------------------
TypeOK ==
  /\ regions \subseteq Region
  /\ interfered \in 0..MaxInterference
  /\ steadilyFree \subseteq MinApplication..MaxApplication
  /\ address \in Addresses
  /\ phase \in {"lower", "lower alloc", "upper", "upper alloc", "done"}
  /\ probe \in Int /\ (phase # "done" => probe % Granularity = 0)
  /\ result \in Nat

\* The page is all within the range of the function, so that the 32-bit
\* operands of its patch and of its trampoline reach, whoever else allocates.
InRange ==
  result # Null => address - range <= result /\ result + 1 <= address + range

\* No page is reported only if there is none to be had: any granule that was
\* free from the first to the last look would have been found.  (A page at the
\* very bottom of the range does not count as in it.)
FindsSteadilyFree ==
  phase = "done" /\ result = Null =>
    \A g \in steadilyFree :
      ~(minAddress < g /\ g < address) /\ ~(address < g /\ g <= maxAddress)

\* With nobody interfering the page is the nearest one below the function,
\* and only if there is none below, the nearest one above.
NearestBelowFirst ==
  (result # Null /\ interfered = 0) =>
    LET below == {g \in steadilyFree : minAddress < g /\ g < address}
        above == {g \in steadilyFree : address < g /\ g <= maxAddress}
    IN  result = IF below # {} THEN Max(below) ELSE Min(above)

\* The probe of the upward search is within an allocation, but not at its base:
\* Behind then leads to a page of the same allocation, never past its end.
Stuck == phase = "upper" /\ \E r \in RegionsAt(probe) : r.base < probe

\* "Try to allocate memory page": the attempt ends, however the pages the
\* search wants are taken from under it, or the upward search goes round for
\* ever within an allocation, such as the image of the hooked function.
SearchEnds == <>(phase = "done") \/ <>[]Stuck
=============================================================================
