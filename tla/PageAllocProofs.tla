-------------------------- MODULE PageAllocProofs --------------------------
(***************************************************************************)
(* Whatever is allocated at first, and whatever other threads allocate and *)
(* free in between, the page that is found is in the range of the hooked   *)
(* function.  The invariant says which addresses the two searches look at: *)
(* the lower one below the function; the upper one above it or, since the  *)
(* rest of a region is counted from the base of its allocation, somewhere  *)
(* in the image of the function, of which no page is ever free.            *)
(***************************************************************************)
EXTENDS PageAlloc, TLAPS

ImageBase(b) == \E r \in RegionsAt(address) : r.base = b
InImage(p) == \E r \in RegionsAt(p) : ImageBase(r.base)

Searching ==
  /\ phase \in {"lower", "lower alloc"} => probe < address
  /\ phase = "lower alloc" => minAddress < probe
  /\ phase = "upper" => address < probe \/ InImage(probe)
  /\ phase = "upper alloc" => address < probe /\ probe <= maxAddress

Inv == TypeOK /\ Possible(regions) /\ RegionsAt(address) # {} /\ Searching /\ InRange

-----------------------------------------------------------------------------
\* Rounding down to a multiple.
LEMMA Rounded ==
  ASSUME NEW g \in Nat \ {0}, NEW a \in Int
  PROVE  (a - (a % g)) % g = 0
OBVIOUS

\* The parameters are numbers.
LEMMA Numbers ==
  /\ Granularity \in Nat \ {0} /\ range \in Nat \ {0}
  /\ MinApplication \in Nat \ {0} /\ MaxApplication \in Nat /\ MaxInterference \in Nat
  /\ \A a \in MinApplication..MaxApplication : a \in Nat \ {0}
  /\ \A a \in Addresses : a \in Nat /\ MinApplication <= a /\ a <= MaxApplication
BY PageAllocAssumption

LEMMA FreeNumbers == \A rs : \A g \in FreeGranules(rs) : g \in Int
<1> SUFFICES ASSUME NEW rs, NEW g \in FreeGranules(rs) PROVE g \in Int
  OBVIOUS
<1>1. g \in MinApplication..MaxApplication
  BY DEF FreeGranules
<1> QED
  BY <1>1, Numbers

\* What Align does to any address.
LEMMA Aligned ==
  ASSUME NEW a \in Int
  PROVE  /\ Align(a) \in Int /\ Align(a) % Granularity = 0
         /\ Align(a) <= a /\ a < Align(a) + Granularity
<1>1. a % Granularity \in 0..Granularity - 1
  BY PageAllocAssumption
<1>2. (a - (a % Granularity)) % Granularity = 0
  BY Rounded, PageAllocAssumption
<1> QED
  BY <1>1, <1>2, PageAllocAssumption DEF Align

\* A granule below or above a multiple of the granularity is one again.
LEMMA NextGranule ==
  ASSUME NEW a \in Int, a % Granularity = 0
  PROVE  (a - Granularity) % Granularity = 0 /\ (a + Granularity) % Granularity = 0
<1> DEFINE g == Granularity
           k == a \div g
<1>1. g \in Nat \ {0} /\ k \in Int
  BY PageAllocAssumption
<1>2. a = g * k
  BY PageAllocAssumption
<1>3. a - g = g * (k - 1) /\ a + g = g * (k + 1)
  <2> HIDE DEF k
  <2> QED
    BY <1>1, <1>2
<1>4. \A n \in Int : (g * n) % g = 0
  BY <1>1
<1>5. k - 1 \in Int /\ k + 1 \in Int
  BY <1>1
<1> QED
  BY <1>3, <1>4, <1>5

\* Where the two searches go from an address.
LEMMA Moves ==
  ASSUME NEW a \in Int
  PROVE  /\ Below(a) \in Int /\ Below(a) % Granularity = 0 /\ Below(a) < a
         /\ Above(a) \in Int /\ Above(a) % Granularity = 0 /\ a < Above(a)
<1>1. Align(a) \in Int /\ Align(a) % Granularity = 0 /\ Align(a) <= a /\ a < Align(a) + Granularity
  BY Aligned
<1> QED
  BY <1>1, NextGranule, PageAllocAssumption DEF Below, Above

\* The rest of a region, counted from the base of its allocation, ends behind
\* the base and hardly behind the region.
LEMMA BehindBase ==
  ASSUME NEW r \in Region, NEW p \in Pages(r), r.base <= r.first
  PROVE  /\ Behind(r, p) \in Int /\ Behind(r, p) % Granularity = 0
         /\ r.base < Behind(r, p) /\ Behind(r, p) <= r.first + r.size + Granularity - 1
         /\ Behind(r, p) <= r.base + (r.first + r.size - p) + Granularity - 1
<1> DEFINE a == r.base + (r.first + r.size - p) + Granularity - 1
<1>1. /\ r.base \in Nat /\ r.first \in Nat /\ r.size \in Nat /\ p \in Int
      /\ r.first <= p /\ p <= r.first + r.size - 1
  BY DEF Region, Pages
<1>2. a \in Int /\ r.base < a - Granularity + 1 /\ a <= r.first + r.size + Granularity - 1
  BY <1>1, PageAllocAssumption
<1>3. /\ Align(a) \in Int /\ Align(a) % Granularity = 0
      /\ Align(a) <= a /\ a < Align(a) + Granularity
  BY <1>2, Aligned
<1>4. Behind(r, p) = Align(a)
  BY DEF Behind, RegionSize
<1> HIDE DEF a
<1>5. Behind(r, p) <= a
  BY <1>3, <1>4
<1>6. Behind(r, p) <= r.base + (r.first + r.size - p) + Granularity - 1
  BY <1>5 DEF a
<1> QED
  BY <1>1, <1>2, <1>3, <1>4, <1>5, <1>6, PageAllocAssumption

\* Both ends of the range.
LEMMA Ends ==
  ASSUME address \in Int
  PROVE  /\ minAddress \in Int /\ address - range <= minAddress
         /\ maxAddress \in Int /\ maxAddress + 1 <= address + range
<1>1. minAddress \in Int /\ address - range <= minAddress
  BY Numbers DEF minAddress
<1>2. maxAddress \in Int /\ maxAddress + 1 <= address + range
  BY Numbers DEF maxAddress
<1> QED
  BY <1>1, <1>2

\* An address between one end of the range and the function is in the range.
LEMMA Between ==
  ASSUME NEW p \in Int, NEW a \in Int, NEW lowest \in Int, NEW highest \in Int,
         a - range <= lowest, highest + 1 <= a + range,
         (lowest < p /\ p < a) \/ (a < p /\ p <= highest)
  PROVE  a - range <= p /\ p + 1 <= a + range
BY Numbers

\* A page allocated in a free granule leaves a possible set of regions.
LEMMA Allocated ==
  ASSUME NEW rs, Possible(rs), NEW g \in FreeGranules(rs)
  PROVE  Possible(rs \cup {OnePage(g)})
<1> DEFINE o == OnePage(g)
           new == rs \cup {o}
<1>1. /\ g \in Nat /\ g % Granularity = 0 /\ MinApplication <= g
      /\ \A r \in rs : Pages(r) \cap (g .. g + Granularity - 1) = {}
  BY PageAllocAssumption DEF FreeGranules
<1>2. o \in Region /\ o.base = g /\ o.first = g /\ o.size = 1
  BY <1>1 DEF OnePage, Region
<1>3. Pages(o) = {g}
  BY <1>1, <1>2 DEF Pages
<1>4. g \in g .. g + Granularity - 1
  BY <1>1, PageAllocAssumption
<1> HIDE DEF o
<1>5. \A r \in rs : g \notin Pages(r)
  BY <1>1, <1>4
<1>6. ASSUME NEW r \in new
      PROVE  /\ r \in Region /\ r.base % Granularity = 0
             /\ MinApplication <= r.base /\ r.base <= r.first
             /\ \A p \in r.base..r.first : \E q \in new : q.base = r.base /\ p \in Pages(q)
  <2>1. CASE r \in rs
    BY <2>1 DEF Possible
  <2>2. CASE r = o
    <3>1. \A p \in o.base..o.first : p = g
      BY <1>1, <1>2
    <3> QED
      BY <2>2, <3>1, <1>1, <1>2, <1>3
  <2> QED
    BY <2>1, <2>2
<1>7. ASSUME NEW r \in new, NEW q \in new, Pages(r) \cap Pages(q) # {}
      PROVE  r.base = q.base
  BY <1>3, <1>5, <1>7 DEF Possible
<1> QED
  BY <1>6, <1>7 DEF Possible, o

\* So does an allocation freed.
LEMMA Freed ==
  ASSUME NEW rs, Possible(rs), NEW b
  PROVE  Possible({r \in rs : r.base # b})
BY DEF Possible

-----------------------------------------------------------------------------
LEMMA AddressInt == Inv => address \in Int
<1> SUFFICES ASSUME Inv PROVE address \in Int
  OBVIOUS
<1>1. address \in Addresses
  BY DEF Inv, TypeOK
<1> QED
  BY <1>1, Numbers

LEMMA InitInv == Init => Inv
<1> SUFFICES ASSUME Init PROVE Inv
  OBVIOUS
<1>1. Possible(regions) /\ RegionsAt(address) # {} /\ address \in Addresses /\ address \in Nat
  BY LayoutsAssumption, PageAllocAssumption DEF Init
<1>2. Below(address) \in Int /\ Below(address) % Granularity = 0 /\ Below(address) < address
  BY <1>1, Moves
<1>3. TypeOK
  BY <1>1, <1>2, PageAllocAssumption DEF Init, TypeOK, Possible, FreeGranules, Null
<1>4. Searching /\ InRange
  BY <1>2 DEF Init, Searching, InRange
<1> QED
  BY <1>1, <1>3, <1>4 DEF Inv

\* An iteration of the search below, or the way from it to the one above.
LEMMA FindPrevInv == Inv /\ FindPrev => Inv'
<1> SUFFICES ASSUME Inv, FindPrev PROVE Inv'
  OBVIOUS
<1>1. /\ regions \subseteq Region /\ Possible(regions) /\ address \in Int /\ probe \in Int
      /\ probe % Granularity = 0 /\ probe < address
      /\ UNCHANGED <<regions, interfered, steadilyFree, address, result>>
  BY AddressInt DEF Inv, TypeOK, FindPrev, Searching
<1>2. /\ probe' \in Int /\ probe' % Granularity = 0
      /\ \/ phase' = "lower" /\ probe' < address
         \/ phase' = "lower alloc" /\ probe' < address /\ minAddress < probe'
         \/ phase' = "upper" /\ address < probe'
  <2>1. CASE SearchUpper
    BY <1>1, <2>1, Moves DEF SearchUpper
  <2>2. CASE minAddress < probe /\ phase' = "lower alloc" /\ UNCHANGED probe
    BY <1>1, <2>2
  <2>3. ASSUME NEW r \in RegionsAt(probe), probe' = r.base - Granularity, UNCHANGED phase
        PROVE  probe' \in Int /\ probe' % Granularity = 0 /\ phase' = "lower" /\ probe' < address
    <3>1. r \in Region /\ r.base % Granularity = 0 /\ r.base <= r.first /\ r.first <= probe
      BY <1>1 DEF RegionsAt, Possible, Pages, Region
    <3>2. r.base \in Nat /\ r.first \in Nat
      BY <3>1 DEF Region
    <3>3. (r.base - Granularity) % Granularity = 0
      BY <3>1, <3>2, NextGranule
    <3>4. r.base - Granularity \in Int /\ r.base - Granularity < address
      BY <1>1, <3>1, <3>2, PageAllocAssumption
    <3> QED
      BY <2>3, <3>3, <3>4 DEF FindPrev
  <2> QED
    BY <2>1, <2>2, <2>3 DEF FindPrev
<1>3. TypeOK'
  BY <1>1, <1>2 DEF Inv, TypeOK
<1>4. Searching'
  BY <1>1, <1>2 DEF Searching, minAddress
<1> QED
  BY <1>1, <1>3, <1>4 DEF Inv, InRange, RegionsAt

\* An iteration of the search above.
LEMMA FindNextInv == Inv /\ FindNext => Inv'
<1> SUFFICES ASSUME Inv, FindNext PROVE Inv'
  OBVIOUS
<1>1. /\ regions \subseteq Region /\ Possible(regions) /\ address \in Int /\ probe \in Int
      /\ probe % Granularity = 0 /\ (address < probe \/ InImage(probe))
      /\ UNCHANGED <<regions, interfered, steadilyFree, address, result>>
  BY AddressInt DEF Inv, TypeOK, FindNext, Searching
<1>2. /\ probe' \in Int /\ (phase' # "done" => probe' % Granularity = 0)
      /\ \/ phase' = "done"
         \/ phase' = "upper" /\ (address < probe' \/ InImage(probe'))
         \/ phase' = "upper alloc" /\ address < probe' /\ probe' <= maxAddress
  <2>1. CASE GiveUp
    BY <1>1, <2>1 DEF GiveUp
  <2>2. CASE probe <= maxAddress /\ RegionsAt(probe) = {} /\ phase' = "upper alloc" /\ UNCHANGED probe
    BY <1>1, <2>2 DEF InImage
  <2>3. ASSUME NEW r \in RegionsAt(probe), probe' = Behind(r, probe), UNCHANGED phase
        PROVE  /\ probe' \in Int /\ probe' % Granularity = 0 /\ phase' = "upper"
               /\ address < probe' \/ InImage(probe')
    <3>1. /\ r \in regions /\ r \in Region /\ r.base <= r.first
          /\ r.first <= probe /\ probe <= r.first + r.size - 1 /\ probe \in Pages(r)
          /\ \A p \in r.base..r.first : \E q \in regions : q.base = r.base /\ p \in Pages(q)
      BY <1>1 DEF RegionsAt, Possible, Pages, Region
    <3>2. r.base \in Nat /\ r.first \in Nat /\ r.size \in Nat
      BY <3>1 DEF Region
    <3>3. /\ Behind(r, probe) \in Int /\ Behind(r, probe) % Granularity = 0
          /\ r.base <= Behind(r, probe)
      BY <3>1, <3>2, BehindBase
    <3>4. CASE ImageBase(r.base) /\ Behind(r, probe) <= address
      <4>1. PICK s \in RegionsAt(address) : s.base = r.base
        BY <3>4 DEF ImageBase
      <4>2. /\ s \in regions /\ s \in Region /\ address \in Pages(s)
            /\ \A p \in s.base..s.first : \E q \in regions : q.base = s.base /\ p \in Pages(q)
        BY <1>1 DEF RegionsAt, Possible
      <4>3. s.first \in Nat /\ s.size \in Nat /\ address <= s.first + s.size - 1
        BY <4>2, <1>1 DEF Region, Pages
      <4>4. \E q \in regions : q.base = s.base /\ Behind(r, probe) \in Pages(q)
        <5>1. CASE Behind(r, probe) <= s.first
          BY <3>2, <3>3, <4>1, <4>2, <4>3, <5>1
        <5>2. CASE s.first < Behind(r, probe)
          BY <3>3, <3>4, <4>2, <4>3, <5>2 DEF Pages
        <5> QED
          BY <3>3, <4>3, <5>1, <5>2
      <4>5. InImage(Behind(r, probe))
        BY <4>1, <4>4 DEF InImage, RegionsAt, ImageBase
      <4>6. InImage(probe')
        BY <2>3, <4>5
      <4> QED
        BY <2>3, <3>3, <4>6 DEF FindNext
    <3>5. CASE ~ImageBase(r.base)
      <4>1. address < probe
        <5> SUFFICES ASSUME InImage(probe) PROVE FALSE
          BY <1>1
        <5>1. PICK q \in RegionsAt(probe) : ImageBase(q.base)
          BY DEF InImage
        <5>2. r.base = q.base
          BY <1>1 DEF RegionsAt, Possible
        <5> QED
          BY <5>1, <5>2, <3>5
      <4>2. address < r.base
        <5> SUFFICES ASSUME r.base <= address PROVE FALSE
          BY <1>1, <3>2
        <5>1. CASE address <= r.first
          <6>1. PICK q \in regions : q.base = r.base /\ address \in Pages(q)
            BY <1>1, <3>1, <3>2, <5>1
          <6> QED
            BY <6>1, <3>5 DEF ImageBase, RegionsAt
        <5>2. CASE r.first < address
          <6>1. address \in Pages(r)
            BY <1>1, <3>1, <3>2, <4>1, <5>2 DEF Pages
          <6> QED
            BY <3>1, <6>1, <3>5 DEF ImageBase, RegionsAt
        <5> QED
          BY <1>1, <3>2, <5>1, <5>2
      <4> QED
        BY <1>1, <2>3, <3>2, <3>3, <4>2 DEF FindNext
    <3>6. CASE address < Behind(r, probe)
      BY <2>3, <3>3, <3>6 DEF FindNext
    <3> QED
      BY <1>1, <3>3, <3>4, <3>5, <3>6
  <2> QED
    BY <2>1, <2>2, <2>3 DEF FindNext
<1>3. TypeOK'
  BY <1>1, <1>2 DEF Inv, TypeOK
<1>4. Searching'
  BY <1>1, <1>2 DEF Searching, maxAddress, InImage, ImageBase, RegionsAt
<1> QED
  BY <1>1, <1>3, <1>4 DEF Inv, InRange, RegionsAt

-----------------------------------------------------------------------------
\* The page that VirtualAlloc gives.
LEMMA AllocateInv == Inv /\ (Allocate("lower alloc") \/ Allocate("upper alloc")) => Inv'
<1> SUFFICES ASSUME Inv, Allocate("lower alloc") \/ Allocate("upper alloc") PROVE Inv'
  OBVIOUS
<1>1. /\ regions \subseteq Region /\ Possible(regions) /\ address \in Int /\ probe \in Int
      /\ probe \in FreeGranules(regions) /\ regions' = regions \cup {OnePage(probe)}
      /\ result' = probe /\ phase' = "done"
      /\ UNCHANGED <<interfered, steadilyFree, address, probe>>
  BY AddressInt DEF Inv, TypeOK, Allocate
<1>2. probe \in Nat /\ OnePage(probe) \in Region
  <2>1. probe \in MinApplication..MaxApplication
    BY <1>1 DEF FreeGranules
  <2>2. probe \in Nat
    BY <2>1, Numbers
  <2> QED
    BY <2>2 DEF OnePage, Region
<1>3. Possible(regions')
  BY <1>1, Allocated
<1>4. TypeOK'
  BY <1>1, <1>2 DEF Inv, TypeOK
<1>5. RegionsAt(address)' # {}
  BY <1>1 DEF Inv, RegionsAt
<1>6. address - range <= probe /\ probe + 1 <= address + range
  <2>1. /\ minAddress \in Int /\ address - range <= minAddress
        /\ maxAddress \in Int /\ maxAddress + 1 <= address + range
    BY <1>1, Ends
  <2>2. \/ minAddress < probe /\ probe < address
        \/ address < probe /\ probe <= maxAddress
    BY DEF Inv, Searching, Allocate
  <2>3. address \in Int /\ probe \in Int
    BY <1>1
  <2> QED
    BY <2>1, <2>2, <2>3, Between
<1>7. InRange'
  BY <1>1, <1>6 DEF InRange
<1>8. Searching'
  BY <1>1 DEF Searching
<1> QED
  BY <1>3, <1>4, <1>5, <1>7, <1>8 DEF Inv, Possible

\* The page is gone, and the search goes on.
LEMMA RetryInv == Inv /\ (RetryLower \/ RetryUpper) => Inv'
<1> SUFFICES ASSUME Inv, RetryLower \/ RetryUpper PROVE Inv'
  OBVIOUS
<1>1. /\ address \in Int /\ probe \in Int
      /\ UNCHANGED <<regions, interfered, steadilyFree, address, result>>
  BY AddressInt DEF Inv, TypeOK, RetryLower, RetryUpper
<1>2. /\ probe' \in Int /\ probe' % Granularity = 0
      /\ \/ phase' = "lower" /\ probe' < address
         \/ phase' = "upper" /\ address < probe'
  <2>1. CASE RetryLower
    <3>1. probe < address
      BY <2>1 DEF Inv, Searching, RetryLower
    <3>2. probe' = Below(probe) /\ phase' = "lower"
      BY <2>1 DEF RetryLower
    <3>3. Below(probe) \in Int /\ Below(probe) % Granularity = 0 /\ Below(probe) < probe
      BY <1>1, Moves
    <3> QED
      BY <1>1, <3>1, <3>2, <3>3
  <2>2. CASE RetryUpper
    <3>1. address < probe
      BY <2>2 DEF Inv, Searching, RetryUpper
    <3>2. probe' = Above(probe) /\ phase' = "upper"
      BY <2>2 DEF RetryUpper
    <3>3. Above(probe) \in Int /\ Above(probe) % Granularity = 0 /\ probe < Above(probe)
      BY <1>1, Moves
    <3> QED
      BY <1>1, <3>1, <3>2, <3>3
  <2> QED
    BY <2>1, <2>2
<1>3. TypeOK'
  BY <1>1, <1>2 DEF Inv, TypeOK
<1>4. Searching'
  BY <1>1, <1>2 DEF Searching
<1> QED
  BY <1>1, <1>3, <1>4 DEF Inv, InRange, RegionsAt, Possible

\* Other threads leave the image of the function alone.
LEMMA InterfereInv == Inv /\ Interfere => Inv'
<1> SUFFICES ASSUME Inv, Interfere PROVE Inv'
  OBVIOUS
<1>1. /\ interfered' \in 0..MaxInterference
      /\ steadilyFree' \subseteq MinApplication..MaxApplication
      /\ UNCHANGED <<address, phase, probe, result>>
  <2>1. interfered < MaxInterference /\ interfered' = interfered + 1 /\ interfered \in 0..MaxInterference
    BY DEF Interfere, Inv, TypeOK
  <2>2. MaxInterference \in Nat
    BY Numbers
  <2>3. interfered' \in 0..MaxInterference
    BY <2>1, <2>2
  <2>4. steadilyFree' \subseteq steadilyFree /\ UNCHANGED <<address, phase, probe, result>>
    BY DEF Interfere
  <2> QED
    BY <2>3, <2>4 DEF Inv, TypeOK
<1>2. /\ Possible(regions') /\ \A r \in regions : ImageBase(r.base) => r \in regions'
      /\ RegionsAt(address) \subseteq RegionsAt(address)'
  <2>1. ASSUME NEW g \in FreeGranules(regions), regions' = regions \cup {OnePage(g)}
        PROVE  /\ Possible(regions') /\ \A r \in regions : ImageBase(r.base) => r \in regions'
               /\ RegionsAt(address) \subseteq RegionsAt(address)'
    BY <1>1, <2>1, Allocated DEF Inv, RegionsAt
  <2>2. ASSUME NEW b, \A r \in RegionsAt(address) : r.base # b,
               regions' = {r \in regions : r.base # b}
        PROVE  /\ Possible(regions') /\ \A r \in regions : ImageBase(r.base) => r \in regions'
               /\ RegionsAt(address) \subseteq RegionsAt(address)'
    BY <1>1, <2>2, Freed DEF Inv, RegionsAt, ImageBase
  <2> QED
    BY <2>1, <2>2 DEF Interfere
<1>3. regions' \subseteq Region
  BY <1>2 DEF Possible
<1>4. InImage(probe) => InImage(probe)'
  BY <1>1, <1>2 DEF InImage, ImageBase, RegionsAt
<1>5. TypeOK'
  BY <1>1, <1>3 DEF Inv, TypeOK
<1>6. Searching'
  BY <1>1, <1>4 DEF Inv, Searching, minAddress, maxAddress
<1> QED
  BY <1>1, <1>2, <1>5, <1>6 DEF Inv, InRange, Possible

LEMMA NextInv == Inv /\ [Next]_vars => Inv'
<1> SUFFICES ASSUME Inv, [Next]_vars PROVE Inv'
  OBVIOUS
<1>1. CASE UNCHANGED vars
  BY <1>1 DEF vars, Inv, TypeOK, Possible, RegionsAt, Searching, InRange, InImage, ImageBase,
              minAddress, maxAddress
<1> QED
  BY <1>1, FindPrevInv, FindNextInv, AllocateInv, RetryInv, InterfereInv DEF Next, Search

-----------------------------------------------------------------------------
\* What the search has not passed yet.
Remaining ==
  /\ phase # "done" =>
       /\ steadilyFree \subseteq FreeGranules(regions)
       /\ interfered = 0 => steadilyFree = FreeGranules(regions)
  /\ phase \in {"lower", "lower alloc"} => \A g \in steadilyFree : g < address => g <= probe
  /\ phase \in {"upper", "upper alloc"} =>
       \A g \in steadilyFree : ~(minAddress < g /\ g < address) /\ (address < g => probe <= g)

All == Inv /\ Remaining /\ FindsSteadilyFree /\ NearestBelowFirst

\* Between two neighbouring multiples there is no third.
LEMMA Neighbours ==
  ASSUME NEW a \in Int, NEW b \in Int, a % Granularity = 0, b % Granularity = 0, a < b
  PROVE  a <= b - Granularity
<1> DEFINE g == Granularity
           k == a \div g
           m == b \div g
<1>1. g \in Nat \ {0} /\ k \in Int /\ m \in Int
  BY PageAllocAssumption
<1>2. a = g * k /\ b = g * m
  BY PageAllocAssumption
<1> HIDE DEF g, k, m
<1>3. g * k < g * m
  BY <1>2
<1>4. k < m
  BY <1>1, <1>3
<1>5. g * k <= g * (m - 1) /\ g * (m - 1) = g * m - g
  BY <1>1, <1>4
<1> QED
  BY <1>2, <1>5 DEF g

\* No free granule lies in an allocation.
LEMMA Occupied ==
  ASSUME NEW rs, Possible(rs), NEW r \in rs, NEW g \in FreeGranules(rs)
  PROVE  g \in Nat /\ g % Granularity = 0 /\ ~(r.base <= g /\ g <= r.first + r.size - 1)
<1>1. g \in MinApplication..MaxApplication /\ g % Granularity = 0
  BY DEF FreeGranules
<1>2. g \in Nat
  BY <1>1, Numbers
<1>3. g \in g..g + Granularity - 1
  BY <1>2, PageAllocAssumption
<1>4. \A q \in rs : g \notin Pages(q)
  BY <1>3 DEF FreeGranules
<1>5. r.base \in Nat /\ r.first \in Nat /\ r.size \in Nat
  BY DEF Possible, Region
<1>6. ~(r.base <= g /\ g <= r.first)
  BY <1>2, <1>4, <1>5 DEF Possible
<1>7. ~(r.first <= g /\ g <= r.first + r.size - 1)
  BY <1>2, <1>4, <1>5 DEF Pages
<1> QED
  BY <1>1, <1>2, <1>5, <1>6, <1>7

\* What is free above the function is not below the granule after it.
LEMMA FirstAbove ==
  ASSUME NEW g \in Int, g % Granularity = 0, address \in Int, address < g
  PROVE  Above(address) <= g
<1>1. Align(address) \in Int /\ Align(address) % Granularity = 0 /\ Align(address) <= address
  BY Aligned
<1>2. Align(address) <= g - Granularity
  BY <1>1, Neighbours
<1> QED
  BY <1>1, <1>2, PageAllocAssumption DEF Above

LEMMA InitAll == Init => All
<1> SUFFICES ASSUME Init PROVE All
  OBVIOUS
<1>1. Inv
  BY InitInv
<1>2. address \in Int /\ Possible(regions)
  BY <1>1, AddressInt DEF Inv
<1>3. ASSUME NEW g \in FreeGranules(regions), g < address
      PROVE  g <= Below(address)
  <2>1. /\ Align(address) \in Int /\ Align(address) % Granularity = 0
        /\ Align(address) <= address /\ address < Align(address) + Granularity
    BY <1>2, Aligned
  <2>2. PICK r \in regions : address \in Pages(r)
    BY DEF Init, RegionsAt
  <2>3. g \in Int /\ g % Granularity = 0
    BY <1>2, <2>2, Occupied
  <2>4. g # Align(address)
    <3>1. Pages(r) \cap (g .. g + Granularity - 1) = {}
      BY DEF FreeGranules
    <3>2. address \notin g .. g + Granularity - 1
      BY <2>2, <3>1
    <3> QED
      BY <1>2, <2>1, <3>2, PageAllocAssumption
  <2>5. ~(Align(address) < g)
    <3> SUFFICES ASSUME Align(address) < g PROVE FALSE
      OBVIOUS
    <3>1. Align(address) <= g - Granularity
      BY <2>1, <2>3, Neighbours
    <3> QED
      BY <1>2, <1>3, <2>1, <2>3, <3>1, PageAllocAssumption
  <2>6. g < Align(address)
    BY <2>1, <2>3, <2>4, <2>5
  <2> QED
    BY <2>1, <2>3, <2>6, Neighbours DEF Below
<1>4. Remaining
  BY <1>3 DEF Init, Remaining
<1> QED
  BY <1>1, <1>4 DEF Init, All, FindsSteadilyFree, NearestBelowFirst

-----------------------------------------------------------------------------
\* Going down from an occupied page, the search passes no free granule.
LEMMA FindPrevAll == All /\ FindPrev => All'
<1> SUFFICES ASSUME All, FindPrev PROVE All'
  OBVIOUS
<1>1. Inv /\ Inv' /\ Remaining /\ phase = "lower"
  BY FindPrevInv DEF All, FindPrev
<1>2. /\ address \in Int /\ probe \in Int /\ Possible(regions)
      /\ steadilyFree \subseteq FreeGranules(regions)
      /\ UNCHANGED <<regions, interfered, steadilyFree, address, result>>
  BY <1>1, AddressInt DEF Inv, TypeOK, FindPrev, Remaining
<1>3. \A g \in steadilyFree : g < address => g <= probe
  BY <1>1 DEF Remaining
<1>4. Remaining' /\ phase' # "done"
  <2>1. CASE SearchUpper /\ ~(minAddress < probe)
    <3>1. minAddress \in Int
      BY <1>2, Ends
    <3>2. ASSUME NEW g \in steadilyFree
          PROVE  ~(minAddress < g /\ g < address) /\ (address < g => Above(address) <= g)
      <4>1. g \in MinApplication..MaxApplication /\ g % Granularity = 0
        BY <1>2 DEF FreeGranules
      <4>2. g \in Int
        BY <4>1, Numbers
      <4>3. ~(minAddress < g /\ g < address)
        BY <1>2, <1>3, <2>1, <3>1, <4>2
      <4> QED
        BY <1>2, <4>1, <4>2, <4>3, FirstAbove
    <3> QED
      BY <1>1, <1>2, <2>1, <3>2 DEF Remaining, SearchUpper, minAddress
  <2>2. CASE phase' = "lower alloc" /\ UNCHANGED probe
    BY <1>1, <1>2, <2>2 DEF Remaining
  <2>3. ASSUME NEW r \in RegionsAt(probe), probe' = r.base - Granularity, UNCHANGED phase
        PROVE  Remaining' /\ phase' # "done"
    <3>1. /\ r \in regions /\ r.base \in Nat /\ r.base % Granularity = 0
          /\ r.first \in Nat /\ r.size \in Nat /\ probe <= r.first + r.size - 1
      BY <1>2 DEF RegionsAt, Possible, Region, Pages
    <3>2. ASSUME NEW g \in steadilyFree, g < address PROVE g <= probe'
      <4>1. g \in Nat /\ g % Granularity = 0 /\ ~(r.base <= g /\ g <= r.first + r.size - 1)
        BY <1>2, <3>1, Occupied
      <4>2. g < r.base
        BY <1>2, <1>3, <3>1, <3>2, <4>1
      <4> QED
        BY <2>3, <3>1, <4>1, <4>2, Neighbours
    <3> QED
      BY <1>1, <1>2, <2>3, <3>2 DEF Remaining
  <2>4. ASSUME NEW r \in RegionsAt(probe) PROVE ~(r.base < Granularity)
    BY <1>2, Numbers, PageAllocAssumption DEF RegionsAt, Possible, Region
  <2> QED
    BY <2>1, <2>2, <2>3, <2>4 DEF FindPrev
<1>5. result' = Null \/ phase # "done"
  BY <1>1
<1> QED
  BY <1>1, <1>2, <1>4 DEF All, FindsSteadilyFree, NearestBelowFirst, minAddress, maxAddress

\* Neither does it going up, although it does not come as far as it could.
LEMMA FindNextAll == All /\ FindNext => All'
<1> SUFFICES ASSUME All, FindNext PROVE All'
  OBVIOUS
<1>1. Inv /\ Inv' /\ Remaining /\ phase = "upper"
  BY FindNextInv DEF All, FindNext
<1>2. /\ address \in Int /\ probe \in Int /\ Possible(regions)
      /\ steadilyFree \subseteq FreeGranules(regions)
      /\ UNCHANGED <<regions, interfered, steadilyFree, address, result>>
  BY <1>1, AddressInt DEF Inv, TypeOK, FindNext, Remaining
<1>3. \A g \in steadilyFree : ~(minAddress < g /\ g < address) /\ (address < g => probe <= g)
  BY <1>1 DEF Remaining
<1>4. CASE GiveUp /\ ~(probe <= maxAddress)
  <2>1. maxAddress \in Int
    BY <1>2, Ends
  <2>2. ASSUME NEW g \in steadilyFree PROVE ~(address < g /\ g <= maxAddress)
    <3>1. g \in MinApplication..MaxApplication
      BY <1>2 DEF FreeGranules
    <3>2. g \in Int
      BY <3>1, Numbers
    <3> QED
      BY <1>2, <1>3, <1>4, <2>1, <3>2
  <2>3. Remaining' /\ FindsSteadilyFree'
    BY <1>2, <1>3, <1>4, <2>2 DEF Remaining, FindsSteadilyFree, GiveUp, minAddress, maxAddress
  <2> QED
    BY <1>1, <1>2, <2>3 DEF All, NearestBelowFirst, minAddress, maxAddress
<1>5. CASE phase' = "upper alloc" /\ UNCHANGED probe
  <2>1. Remaining'
    BY <1>1, <1>2, <1>5 DEF Remaining, minAddress
  <2> QED
    BY <1>1, <1>2, <1>5, <2>1 DEF All, FindsSteadilyFree, NearestBelowFirst, minAddress, maxAddress
<1>6. ASSUME NEW r \in RegionsAt(probe), probe' = Behind(r, probe), UNCHANGED phase
      PROVE  All'
  <2>1. /\ r \in regions /\ r \in Region /\ r.base \in Nat /\ r.first \in Nat /\ r.size \in Nat
        /\ r.base <= r.first /\ r.first <= probe /\ probe \in Pages(r)
    BY <1>2 DEF RegionsAt, Possible, Region, Pages
  <2>2. ASSUME NEW g \in steadilyFree, address < g PROVE Behind(r, probe) <= g
    <3>1. g \in Nat /\ g % Granularity = 0 /\ ~(r.base <= g /\ g <= r.first + r.size - 1)
      BY <1>2, <2>1, Occupied
    <3>2. r.first + r.size <= g
      BY <1>2, <1>3, <2>1, <2>2, <3>1
    <3>3. /\ Behind(r, probe) \in Int /\ Behind(r, probe) % Granularity = 0
          /\ Behind(r, probe) <= r.first + r.size + Granularity - 1
      BY <2>1, BehindBase
    <3> SUFFICES ASSUME g < Behind(r, probe) PROVE FALSE
      BY <3>1, <3>3
    <3>4. g <= Behind(r, probe) - Granularity
      BY <3>1, <3>3, Neighbours
    <3> QED
      BY <2>1, <3>1, <3>2, <3>3, <3>4, PageAllocAssumption
  <2>3. Remaining'
    BY <1>1, <1>2, <1>3, <1>6, <2>2 DEF Remaining, minAddress
  <2> QED
    BY <1>1, <1>2, <1>6, <2>3 DEF All, FindsSteadilyFree, NearestBelowFirst, minAddress, maxAddress
<1>7. ASSUME NEW r \in RegionsAt(probe) PROVE ~(r.base < Granularity)
  BY <1>2, Numbers, PageAllocAssumption DEF RegionsAt, Possible, Region
<1> QED
  BY <1>4, <1>5, <1>6, <1>7 DEF FindNext

-----------------------------------------------------------------------------
\* The largest and the smallest of some numbers, if it is known.
LEMMA Extremes ==
  ASSUME NEW S \in SUBSET Int, NEW x \in S
  PROVE  /\ (\A y \in S : y <= x) => Max(S) = x
         /\ (\A y \in S : x <= y) => Min(S) = x
<1>1. ASSUME \A y \in S : y <= x PROVE Max(S) = x
  <2>1. \A y \in S : x >= y
    BY <1>1
  <2>2. Max(S) \in S /\ \A y \in S : Max(S) >= y
    BY <2>1 DEF Max
  <2>3. Max(S) \in Int /\ x \in Int /\ Max(S) >= x /\ Max(S) <= x
    BY <1>1, <2>2
  <2> QED
    BY <2>3
<1>2. ASSUME \A y \in S : x <= y PROVE Min(S) = x
  <2>1. Min(S) \in S /\ \A y \in S : Min(S) <= y
    BY <1>2 DEF Min
  <2>2. Min(S) \in Int /\ x \in Int /\ Min(S) <= x /\ x <= Min(S)
    BY <1>2, <2>1
  <2> QED
    BY <2>2
<1> QED
  BY <1>1, <1>2

\* The page that VirtualAlloc gives is the next one that remains.
LEMMA AllocateAll == All /\ (Allocate("lower alloc") \/ Allocate("upper alloc")) => All'
<1> SUFFICES ASSUME All, Allocate("lower alloc") \/ Allocate("upper alloc") PROVE All'
  OBVIOUS
<1>1. Inv /\ Inv' /\ Remaining
  BY AllocateInv DEF All
<1>2. /\ address \in Int /\ probe \in FreeGranules(regions) /\ result' = probe /\ phase' = "done"
      /\ UNCHANGED <<interfered, steadilyFree, address>>
      /\ phase \in {"lower alloc", "upper alloc"}
  BY <1>1, AddressInt DEF Allocate
<1>3. probe \in Nat /\ probe # Null
  <2>1. probe \in MinApplication..MaxApplication
    BY <1>2 DEF FreeGranules
  <2> QED
    BY <2>1, Numbers DEF Null
<1>4. Remaining' /\ FindsSteadilyFree'
  BY <1>2, <1>3 DEF Remaining, FindsSteadilyFree
<1>5. ASSUME interfered = 0
      PROVE  LET below == {g \in steadilyFree : minAddress < g /\ g < address}
                 above == {g \in steadilyFree : address < g /\ g <= maxAddress}
             IN  probe = IF below # {} THEN Max(below) ELSE Min(above)
  <2> DEFINE below == {g \in steadilyFree : minAddress < g /\ g < address}
             above == {g \in steadilyFree : address < g /\ g <= maxAddress}
  <2>1. steadilyFree \subseteq Int /\ probe \in steadilyFree
    <3>1. steadilyFree = FreeGranules(regions)
      BY <1>1, <1>2, <1>5 DEF Remaining
    <3> QED
      BY <1>2, <3>1, FreeNumbers
  <2>2. CASE phase = "lower alloc"
    <3>1. probe \in below /\ below \in SUBSET Int
      BY <1>1, <2>1, <2>2 DEF Inv, Searching
    <3>2. \A g \in below : g <= probe
      BY <1>1, <2>2 DEF Remaining
    <3> HIDE DEF below, above
    <3>3. Max(below) = probe
      BY <3>1, <3>2, Extremes
    <3> QED
      BY <3>1, <3>3 DEF below, above
  <2>3. CASE phase = "upper alloc"
    <3>1. probe \in above /\ above \in SUBSET Int
      BY <1>1, <2>1, <2>3 DEF Inv, Searching
    <3>2. below = {} /\ \A g \in above : probe <= g
      BY <1>1, <2>3 DEF Remaining
    <3> HIDE DEF below, above
    <3>3. Min(above) = probe
      BY <3>1, <3>2, Extremes
    <3> QED
      BY <3>2, <3>3 DEF below, above
  <2> QED
    BY <1>2, <2>2, <2>3
<1>6. NearestBelowFirst'
  BY <1>2, <1>5 DEF NearestBelowFirst, minAddress, maxAddress
<1> QED
  BY <1>1, <1>4, <1>6 DEF All

\* A page that is gone was not free all the time.
LEMMA RetryAll == All /\ (RetryLower \/ RetryUpper) => All'
<1> SUFFICES ASSUME All, RetryLower \/ RetryUpper PROVE All'
  OBVIOUS
<1>1. Inv /\ Inv' /\ Remaining
  BY RetryInv DEF All
<1>2. /\ address \in Int /\ probe \in Int /\ probe % Granularity = 0
      /\ probe \notin FreeGranules(regions) /\ steadilyFree \subseteq FreeGranules(regions)
      /\ UNCHANGED <<regions, interfered, steadilyFree, address, result>>
  BY <1>1, AddressInt DEF Inv, TypeOK, Remaining, RetryLower, RetryUpper
<1>3. \A g \in steadilyFree : g \in Int /\ g % Granularity = 0 /\ g # probe
  BY <1>2, Numbers DEF FreeGranules
<1>4. Align(probe) = probe
  BY <1>2 DEF Align
<1>5. CASE RetryLower
  <2>1. probe' = probe - Granularity /\ phase = "lower alloc" /\ phase' = "lower"
    BY <1>4, <1>5 DEF RetryLower, Below
  <2>2. ASSUME NEW g \in steadilyFree, g < address PROVE g <= probe'
    <3>1. g <= probe
      BY <1>1, <2>1, <2>2 DEF Remaining
    <3>2. g < probe
      BY <1>2, <1>3, <3>1
    <3> QED
      BY <1>2, <1>3, <2>1, <3>2, Neighbours
  <2>3. Remaining'
    BY <1>1, <1>2, <2>1, <2>2 DEF Remaining
  <2> QED
    BY <1>1, <1>2, <2>1, <2>3 DEF All, FindsSteadilyFree, NearestBelowFirst, minAddress, maxAddress
<1>6. CASE RetryUpper
  <2>1. probe' = probe + Granularity /\ phase = "upper alloc" /\ phase' = "upper"
    BY <1>4, <1>6 DEF RetryUpper, Above
  <2>2. ASSUME NEW g \in steadilyFree, address < g PROVE probe' <= g
    <3>1. probe <= g
      BY <1>1, <2>1, <2>2 DEF Remaining
    <3>2. probe < g
      BY <1>2, <1>3, <3>1
    <3>3. probe <= g - Granularity
      BY <1>2, <1>3, <3>2, Neighbours
    <3>4. Granularity \in Nat /\ g \in Int /\ probe \in Int
      BY <1>2, <1>3, Numbers
    <3>5. probe + Granularity <= g
      BY <3>3, <3>4
    <3> QED
      BY <2>1, <3>5
  <2>3. Remaining'
    BY <1>1, <1>2, <2>1, <2>2 DEF Remaining, minAddress
  <2> QED
    BY <1>1, <1>2, <2>1, <2>3 DEF All, FindsSteadilyFree, NearestBelowFirst, minAddress, maxAddress
<1> QED
  BY <1>5, <1>6

LEMMA InterfereAll == All /\ Interfere => All'
<1> SUFFICES ASSUME All, Interfere PROVE All'
  OBVIOUS
<1>1. Inv /\ Inv' /\ Remaining /\ phase # "done"
  BY InterfereInv DEF All, Interfere
<1>2. /\ steadilyFree' = steadilyFree \cap FreeGranules(regions')
      /\ interfered' = interfered + 1 /\ interfered \in Nat
      /\ UNCHANGED <<address, phase, probe, result>>
  <2>1. interfered \in 0..MaxInterference
    BY <1>1 DEF Inv, TypeOK
  <2> QED
    BY <2>1, PageAllocAssumption DEF Interfere
<1>3. FreeGranules(regions') = FreeGranules(regions)'
  BY DEF FreeGranules
<1>4. interfered' # 0
  BY <1>2
<1>5. Remaining'
  BY <1>1, <1>2, <1>3, <1>4 DEF Remaining, minAddress
<1> QED
  BY <1>1, <1>2, <1>4, <1>5 DEF All, FindsSteadilyFree, NearestBelowFirst

LEMMA NextAll == All /\ [Next]_vars => All'
<1> SUFFICES ASSUME All, [Next]_vars PROVE All'
  OBVIOUS
<1>1. CASE UNCHANGED vars
  <2>1. Inv'
    BY <1>1, NextInv DEF All
  <2> QED
    BY <1>1, <2>1 DEF vars, All, Remaining, FreeGranules, FindsSteadilyFree, NearestBelowFirst,
                      minAddress, maxAddress
<1> QED
  BY <1>1, FindPrevAll, FindNextAll, AllocateAll, RetryAll, InterfereAll DEF Next, Search

LEMMA AlwaysAll == Spec => []All
  BY InitAll, NextAll, PTL DEF Spec

-----------------------------------------------------------------------------
\* The search keeps its types, and its cursor a multiple of the granularity.
THEOREM TypeCorrect == Spec => []TypeOK
  BY AlwaysAll, PTL DEF All, Inv

\* Whatever the layout and whoever else allocates and frees, the page that
\* AllocatePageNear returns is all within the range of the function.
THEOREM FoundInRange == Spec => []InRange
  BY AlwaysAll, PTL DEF All, Inv

\* AllocatePageNear gives up only when no granule in the range was free from
\* the first look to the last.
THEOREM FindsWhatIsFree == Spec => []FindsSteadilyFree
  BY AlwaysAll, PTL DEF All

\* Left alone, AllocatePageNear takes the nearest page below the function, or
\* if there is none the nearest above it.
THEOREM TakesNearest == Spec => []NearestBelowFirst
  BY AlwaysAll, PTL DEF All

-----------------------------------------------------------------------------
\* From a page that is not the first of its allocation, what is left of the
\* region is less than what has to be skipped.
LEMMA BehindWithin ==
  ASSUME NEW r \in Region, NEW p \in Pages(r), r.base <= r.first,
         r.base % Granularity = 0, p % Granularity = 0, r.base < p
  PROVE  r.base < Behind(r, p) /\ Behind(r, p) < r.first + r.size
<1>1. /\ r.base \in Nat /\ r.first \in Nat /\ r.size \in Nat /\ p \in Int
      /\ Granularity \in Nat \ {0}
  BY PageAllocAssumption DEF Region, Pages
<1>2. r.base <= p - Granularity
  BY <1>1, Neighbours
<1>3. /\ Behind(r, p) \in Int /\ r.base < Behind(r, p)
      /\ Behind(r, p) <= r.base + (r.first + r.size - p) + Granularity - 1
  BY BehindBase
<1> QED
  BY <1>1, <1>2, <1>3

LEMMA StuckStep ==
  Inv /\ Stuck /\ Next /\ regions' = regions => Stuck' \/ (phase' = "done" /\ UNCHANGED result)
<1> SUFFICES ASSUME Inv, Stuck, Next, regions' = regions
             PROVE  Stuck' \/ (phase' = "done" /\ UNCHANGED result)
  OBVIOUS
<1>1. phase = "upper"
  BY DEF Stuck
<1>2. PICK s \in RegionsAt(probe) : s.base < probe
  BY DEF Stuck
<1>3. Possible(regions) /\ probe \in Int /\ probe % Granularity = 0
  BY <1>1 DEF Inv, TypeOK
<1>4. CASE FindNext
  <2>1. CASE GiveUp
    BY <1>4, <2>1 DEF FindNext, GiveUp
  <2>2. ASSUME NEW r \in RegionsAt(probe), probe' = Behind(r, probe), UNCHANGED phase
        PROVE  Stuck'
    <3>1. /\ r \in regions /\ r \in Region /\ probe \in Pages(r)
          /\ r.base % Granularity = 0 /\ r.base <= r.first /\ r.base = s.base
          /\ \A p \in r.base..r.first : \E q \in regions : q.base = r.base /\ p \in Pages(q)
      BY <1>2, <1>3 DEF RegionsAt, Possible
    <3>2. r.base < probe' /\ probe' < r.first + r.size
      BY <1>2, <1>3, <2>2, <3>1, BehindWithin
    <3>3. r.base \in Nat /\ r.first \in Nat /\ r.size \in Nat /\ probe' \in Int
      BY <2>2, <3>1, BehindBase DEF Region
    <3>4. \E q \in regions : q.base = r.base /\ probe' \in Pages(q)
      <4>1. CASE probe' <= r.first
        BY <3>1, <3>2, <3>3, <4>1
      <4>2. CASE r.first < probe'
        BY <3>1, <3>2, <3>3, <4>2 DEF Pages
      <4> QED
        BY <3>3, <4>1, <4>2
    <3> QED
      BY <1>1, <2>2, <3>2, <3>4 DEF Stuck, RegionsAt
  <2> QED
    BY <1>2, <1>4, <2>1, <2>2 DEF FindNext
<1>5. CASE Interfere
  BY <1>1, <1>2, <1>5 DEF Interfere, Stuck, RegionsAt
<1> QED
  BY <1>1, <1>4, <1>5 DEF Next, Search, FindPrev, Allocate, RetryLower, RetryUpper

\* The upward search never gets out of an allocation that it looks into behind
\* its base, until others free it: all it can still do is leave the range and
\* report that there is no page.
THEOREM StuckForGood ==
  Spec => [][Stuck /\ regions' = regions => Stuck' \/ (phase' = "done" /\ UNCHANGED result)]_vars
<1>1. Inv /\ [Next]_vars =>
        [Stuck /\ regions' = regions => Stuck' \/ (phase' = "done" /\ UNCHANGED result)]_vars
  BY StuckStep
<1>2. Spec => []Inv
  BY AlwaysAll, PTL DEF All
<1> QED
  BY <1>1, <1>2, PTL DEF Spec
=============================================================================
