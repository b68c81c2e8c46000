---------------------------- MODULE FatPoolProofs ----------------------------
(***************************************************************************)
(* The pool over the disk is the FAT, for every geometry, number of        *)
(* buffers and stream.                                                     *)
(***************************************************************************)
EXTENDS FatPool, FiniteSetTheorems, WellFoundedInduction, TLAPS

-----------------------------------------------------------------------------
(* Pages and sectors *)

LEMMA Division ==
    ASSUME NEW d \in Nat \ {0}, NEW x \in Nat
    PROVE  /\ x \div d \in Nat /\ x % d \in 0 .. d - 1
           /\ x = ((x \div d) * d) + (x % d)
  OBVIOUS

LEMMA Product ==
    ASSUME NEW a \in Int, NEW b \in Int, NEW d \in Nat \ {0}
    PROVE  /\ a * d \in Int
           /\ a <= b <=> a * d <= b * d
           /\ (a + 1) * d = a * d + d /\ (a - 1) * d = a * d - d
           /\ (a + b) * d = a * d + b * d
  OBVIOUS

LEMMA PageStart ==
    ASSUME NEW s \in Nat
    PROVE  /\ s % PageSize \in 0 .. PageSize - 1 /\ PageOf(s) \in Nat
           /\ PageOf(s) <= s /\ s < PageOf(s) + PageSize
           /\ s - PageOf(s) = s % PageSize
           /\ \A i \in 0 .. PageSize - 1 : PageOf(PageOf(s) + i) = PageOf(s)
           /\ \A t \in Nat : PageOf(s) < PageOf(t) => PageOf(s) + PageSize <= PageOf(t)
<1>1. PageSize \in {1, 2, 4, 8, 16, 32}
  BY FatGeometry
<1>2. CASE PageSize = 1
  BY <1>2 DEF PageOf
<1>3. CASE PageSize = 2
  BY <1>3 DEF PageOf
<1>4. CASE PageSize = 4
  BY <1>4 DEF PageOf
<1>5. CASE PageSize = 8
  BY <1>5 DEF PageOf
<1>6. CASE PageSize = 16
  BY <1>6 DEF PageOf
<1>7. CASE PageSize = 32
  BY <1>7 DEF PageOf
<1> QED
  BY <1>1, <1>2, <1>3, <1>4, <1>5, <1>6, <1>7

LEMMA PagesApart ==
    ASSUME NEW s \in Sectors
    PROVE  /\ PageOf(s) \in Pages /\ PageOf(s) \in Nat /\ s \in PageSectors(PageOf(s))
           /\ \A p \in Pages : s \in PageSectors(p) <=> p = PageOf(s)
  BY PageStart DEF Sectors, Pages, PageSectors

LEMMA InPage ==
    ASSUME NEW p \in Pages
    PROVE  /\ p \in Nat /\ p \in Sectors /\ PageOf(p) = p /\ p # NoPage
           /\ \A i \in 0 .. PageSize - 1 : p + i \in Sectors => PageOf(p + i) = p
           /\ \A s \in PageSectors(p) : s \in Sectors /\ s - p \in 0 .. PageSize - 1
           /\ \A q \in Pages : p < q => p + PageSize <= q
<1>1. PICK s \in Sectors : p = PageOf(s)
  BY DEF Pages
<1>2. s \in Nat /\ PageSize \in Nat \ {0}
  BY FatGeometry DEF Sectors
<1>3. /\ p \in Nat /\ p <= s
      /\ \A i \in 0 .. PageSize - 1 : PageOf(p + i) = p
  BY <1>1, <1>2, PageStart
<1>4. p + 0 = p /\ 0 \in 0 .. PageSize - 1
  BY <1>2, <1>3
<1>5. PageOf(p) = p
  BY <1>3, <1>4
<1>6. ASSUME NEW t \in PageSectors(p) PROVE t \in Sectors /\ t - p \in 0 .. PageSize - 1
  <2>1. t \in Sectors /\ t \in Nat /\ PageOf(t) = p
    BY DEF PageSectors, Sectors
  <2> QED
    BY <1>2, <2>1, PageStart
<1>7. ASSUME NEW q \in Pages, p < q PROVE p + PageSize <= q
  <2>1. PICK t \in Sectors : q = PageOf(t)
    BY DEF Pages
  <2> QED
    BY <1>1, <1>2, <1>7, <2>1, PageStart DEF Sectors
<1> QED
  BY <1>1, <1>2, <1>3, <1>5, <1>6, <1>7, FatGeometry DEF Sectors, NoPage

LEMMA PagesFinite == IsFiniteSet(Pages) /\ \A S \in SUBSET Pages : IsFiniteSet(S)
<1>1. IsFiniteSet(Sectors)
  BY FatGeometry, FS_Interval DEF Sectors
<1>2. Pages \subseteq Sectors
  BY InPage
<1> QED
  BY <1>1, <1>2, FS_Subset

-----------------------------------------------------------------------------
(* Streams *)

StreamOK(j) ==
    /\ j \in [kind : {"read", "write"}, start : Nat, n : Nat \ {0}, alt : Nat]
    /\ j.start >= 2 /\ j.start + j.n <= SecPerFat * PerSector

LEMMA Divide ==
    ASSUME NEW d \in Nat \ {0}, NEW x \in Nat, NEW m, m = (x + d - 1) \div d
    PROVE  m \in Nat /\ (m - 1) * d < x /\ x <= m * d
<1>1. PICK y \in Nat : y = x + d - 1
  OBVIOUS
<1>2. m \in Nat /\ y % d \in 0 .. d - 1 /\ y = (m * d) + (y % d)
  BY <1>1, Division
<1>3. (m - 1) * d = (m * d) - d /\ m * d \in Int
  BY <1>2, Product
<1> QED
  BY <1>1, <1>2, <1>3

LEMMA StreamIs ==
    ASSUME NEW j, StreamOK(j)
    PROVE  /\ FirstSector(j) \in Sectors /\ ByteOffset(j) \in 0 .. PerSector - 1
           /\ j.start = (FirstSector(j) * PerSector) + ByteOffset(j)
           /\ NSectors(j) \in Nat \ {0} /\ FirstSector(j) + NSectors(j) <= SecPerFat
           /\ (NSectors(j) - 1) * PerSector < ByteOffset(j) + j.n
           /\ ByteOffset(j) + j.n <= NSectors(j) * PerSector
           /\ FirstSector(j) = 0 => ByteOffset(j) # 0
           /\ OffsetInPage(j) = FirstSector(j) - PageOf(FirstSector(j))
           /\ OffsetInPage(j) \in 0 .. PageSize - 1
<1>1. /\ j.start \in Nat /\ j.n \in Nat /\ j.n >= 1 /\ j.start >= 2
      /\ j.start + j.n <= SecPerFat * PerSector
      /\ PerSector \in Nat \ {0} /\ SecPerFat \in Nat \ {0}
  BY FatGeometry DEF StreamOK
<1> DEFINE s == FirstSector(j)
           o == ByteOffset(j)
           m == NSectors(j)
<1>2. s \in Nat /\ o \in 0 .. PerSector - 1 /\ j.start = (s * PerSector) + o
  BY <1>1, Division DEF FirstSector, ByteOffset
<1>3. m \in Nat /\ (m - 1) * PerSector < o + j.n /\ o + j.n <= m * PerSector
  <2>1. PICK x \in Nat : x = o + j.n
    BY <1>1, <1>2
  <2>2. m = (x + PerSector - 1) \div PerSector
    BY <2>1 DEF NSectors
  <2> QED
    BY <1>1, <2>1, <2>2, Divide
<1>4. s = 0 => o # 0
  BY <1>1, <1>2
<1>5. OffsetInPage(j) = s - PageOf(s) /\ OffsetInPage(j) \in 0 .. PageSize - 1
  BY <1>2, PageStart DEF OffsetInPage
<1> HIDE DEF s, o, m
<1>6. m # 0
  BY <1>1, <1>2, <1>3
<1>7. s + m <= SecPerFat
  <2>1. (s + (m - 1)) * PerSector = (s * PerSector) + ((m - 1) * PerSector)
    BY <1>1, <1>2, <1>3, Product
  <2>2. (s + (m - 1)) * PerSector < SecPerFat * PerSector
    BY <1>1, <1>2, <1>3, <2>1, Product
  <2>3. ~(SecPerFat <= s + (m - 1))
    BY <1>1, <1>2, <1>3, <2>2, Product
  <2> QED
    BY <1>1, <1>2, <1>3, <2>3
<1>8. s \in Sectors
  BY <1>1, <1>2, <1>3, <1>6, <1>7 DEF Sectors
<1> QED
  BY <1>2, <1>3, <1>4, <1>5, <1>6, <1>7, <1>8 DEF s, o, m

\* The least element of a set of numbers.
LEMMA MinIs ==
    ASSUME NEW S \in SUBSET Nat, S # {}
    PROVE  Min(S) \in S /\ \A x \in S : Min(S) <= x
<1>1. \E n \in S : \A k \in S : ~(<<k, n>> \in OpToRel(<, Nat))
  BY WFMin, NatLessThanWellFounded, Zenon
<1>2. ASSUME NEW n \in S, NEW k \in S, k < n PROVE <<k, n>> \in OpToRel(<, Nat)
  BY <1>2, SMT DEF OpToRel
<1>3. \E n \in S : \A k \in S : ~(k < n)
  BY <1>1, <1>2, Zenon
<1>4. \E n \in S : \A k \in S : n <= k
  BY <1>3
<1> QED
  BY <1>4 DEF Min

LEMMA FirstMappedIs ==
    ASSUME NEW first \in Nat, NEW last \in Nat, first # 0 \/ ~Mapped(0)
    PROVE  IF FirstMapped(first, last) = 0
           THEN \A t \in first .. last : ~Mapped(t)
           ELSE /\ FirstMapped(first, last) \in first .. last
                /\ Mapped(FirstMapped(first, last))
                /\ \A t \in first .. FirstMapped(first, last) - 1 : ~Mapped(t)
<1> DEFINE found == {s \in first .. last : Mapped(s)}
<1>1. found \in SUBSET Nat /\ \A s \in found : s # 0
  OBVIOUS
<1>2. FirstMapped(first, last) = IF found = {} THEN 0 ELSE Min(found)
  BY DEF FirstMapped
<1>3. found # {} => Min(found) \in found /\ \A x \in found : Min(found) <= x
  BY <1>1, MinIs
<1>4. CASE found = {}
  BY <1>2, <1>4
<1>5. CASE found # {}
  <2>1. PICK m : m = Min(found)
    OBVIOUS
  <2>2. /\ m \in first .. last /\ Mapped(m) /\ m # 0
        /\ \A t \in first .. last : Mapped(t) => m <= t
    BY <1>1, <1>3, <1>5, <2>1
  <2>3. \A t \in first .. m - 1 : ~Mapped(t)
    BY <2>2
  <2> QED
    BY <1>2, <1>5, <2>1, <2>2, <2>3
<1> QED
  BY <1>4, <1>5

\* What a mapping is cut to, unless the stream begins in sector 0 and that is mapped.
LEMMA ClippedIs ==
    ASSUME NEW j, StreamOK(j)
    PROVE  /\ Clipped(j).n \in 1 .. NSectors(j)
           /\ FirstSector(j) # 0 \/ ~Mapped(0) =>
                 /\ \A i \in 0 .. Clipped(j).n - 2 : ~Mapped(FirstSector(j) + i)
                 /\ IF Clipped(j).mapped = 0
                    THEN /\ Clipped(j).n = NSectors(j)
                         /\ ~Mapped(FirstSector(j) + NSectors(j) - 1)
                    ELSE /\ Clipped(j).mapped = FirstSector(j) + Clipped(j).n - 1
                         /\ Mapped(Clipped(j).mapped)
<1> DEFINE s == FirstSector(j)
           m == FirstMapped(s, s + NSectors(j) - 1)
<1>1. s \in Nat /\ NSectors(j) \in Nat \ {0}
  BY StreamIs DEF Sectors
<1>2. /\ Clipped(j).mapped = m
      /\ Clipped(j).n = IF m # 0 THEN m - s + 1 ELSE NSectors(j)
  BY DEF Clipped
<1>3. CASE s = 0 /\ Mapped(0)
  <2>1. m = 0
    <3> DEFINE found == {t \in s .. s + NSectors(j) - 1 : Mapped(t)}
    <3>1. 0 \in found /\ found \in SUBSET Nat
      BY <1>1, <1>3
    <3>2. Min(found) \in found /\ Min(found) <= 0
      BY <3>1, MinIs
    <3>3. Min(found) = 0
      BY <3>1, <3>2
    <3> QED
      BY <3>1, <3>3 DEF FirstMapped
  <2> QED
    BY <1>1, <1>2, <1>3, <2>1
<1>4. CASE s # 0 \/ ~Mapped(0)
  <2>1. PICK l \in Nat : l = s + NSectors(j) - 1
    BY <1>1
  <2>2. IF m = 0 THEN \A t \in s .. l : ~Mapped(t)
        ELSE m \in s .. l /\ Mapped(m) /\ \A t \in s .. m - 1 : ~Mapped(t)
    BY <1>1, <1>4, <2>1, FirstMappedIs
  <2> HIDE DEF m, s
  <2>3. CASE m = 0
    <3>1. \A i \in 0 .. NSectors(j) - 1 : s + i \in s .. l
      BY <1>1, <2>1
    <3> QED
      BY <1>1, <1>2, <2>1, <2>2, <2>3, <3>1 DEF s
  <2>4. CASE m # 0
    <3>1. m - s + 1 \in 1 .. NSectors(j) /\ m = s + (m - s + 1) - 1
      BY <1>1, <2>1, <2>2, <2>4
    <3>2. \A i \in 0 .. (m - s + 1) - 2 : s + i \in s .. m - 1
      BY <1>1, <2>1, <2>2, <2>4
    <3> QED
      BY <1>1, <1>2, <2>2, <2>4, <3>1, <3>2 DEF s
  <2> QED
    BY <2>3, <2>4
<1> QED
  BY <1>3, <1>4

LEMMA PoolCountIs ==
    ASSUME NEW j, StreamOK(j)
    PROVE  /\ PoolCount(j) \in 1 .. PageSize /\ OffsetInPage(j) + PoolCount(j) <= PageSize
           /\ PoolCount(j) = PageSize - OffsetInPage(j) \/ PoolCount(j) = Clipped(j).n
           /\ PoolCount(j) <= Clipped(j).n
           /\ \A s \in Given(j, PoolCount(j)) :
                 /\ s \in PageSectors(PageOf(FirstSector(j)))
                 /\ s - PageOf(FirstSector(j)) \in Run(OffsetInPage(j), PoolCount(j))
           /\ \A i \in Run(OffsetInPage(j), PoolCount(j)) :
                 /\ i \in 0 .. PageSize - 1
                 /\ PageOf(FirstSector(j)) + i \in Given(j, PoolCount(j))
<1> DEFINE a == PageSize - OffsetInPage(j)
           b == Clipped(j).n
           s == FirstSector(j)
           o == OffsetInPage(j)
           n == PoolCount(j)
<1>1. /\ a \in Nat \ {0} /\ o \in 0 .. PageSize - 1 /\ PageSize \in Nat /\ b \in 1 .. NSectors(j)
      /\ NSectors(j) \in Nat /\ s + NSectors(j) <= SecPerFat /\ s \in Sectors
      /\ o = s - PageOf(s)
  BY FatGeometry, StreamIs, ClippedIs
<1>2. Min({a, b}) \in {a, b} /\ Min({a, b}) <= a /\ Min({a, b}) <= b
  <2>1. {a, b} \in SUBSET Nat /\ {a, b} # {}
    BY <1>1
  <2> QED
    BY <2>1, MinIs
<1>3. n \in {a, b} /\ n <= a /\ n <= b
  BY <1>2 DEF PoolCount
<1> HIDE DEF n, b, s, o
<1>4. n \in 1 .. PageSize /\ o + n <= PageSize
  BY <1>1, <1>3 DEF o
<1>5. PICK p \in Pages : p = PageOf(s)
  BY <1>1, PagesApart
<1>6. p \in Nat /\ s \in Nat /\ SecPerFat \in Nat /\ s = p + o
  BY <1>1, <1>5, InPage, FatGeometry DEF Sectors
<1>7. ASSUME NEW t \in Given(j, n) PROVE t \in PageSectors(p) /\ t - p \in Run(o, n)
  <2>1. t \in s .. s + n - 1
    BY DEF Given, Run, s
  <2>2. t \in Sectors
    BY <1>1, <1>3, <1>4, <1>6, <2>1 DEF Sectors
  <2>3. t = p + (t - p) /\ t - p \in 0 .. PageSize - 1 /\ t - p \in o .. o + n - 1
    BY <1>1, <1>4, <1>6, <2>1
  <2>4. PageOf(t) = p
    <3>1. \A i \in 0 .. PageSize - 1 : p + i \in Sectors => PageOf(p + i) = p
      BY InPage
    <3> QED
      BY <2>2, <2>3, <3>1
  <2> QED
    BY <2>2, <2>3, <2>4 DEF PageSectors, Run
<1>8. ASSUME NEW i \in Run(o, n) PROVE i \in 0 .. PageSize - 1 /\ p + i \in Given(j, n)
  <2>1. i \in o .. o + n - 1
    BY DEF Run
  <2>2. p + i \in s .. s + n - 1 /\ i \in 0 .. PageSize - 1
    BY <1>1, <1>4, <1>6, <2>1
  <2> QED
    BY <2>2 DEF Given, Run, s
<1> QED
  BY <1>3, <1>4, <1>5, <1>7, <1>8 DEF n, b, s, o

\* A sector whose entries are all among the clusters left is filled by them.
LEMMA FilledIs ==
    ASSUME NEW j, StreamOK(j), ByteOffset(j) = 0, NEW i \in Nat, (i + 1) * PerSector <= j.n
    PROVE  Run((FirstSector(j) + i) * PerSector, PerSector) \subseteq Run(j.start, j.n)
<1>1. PICK s \in Nat : s = FirstSector(j) /\ j.start = s * PerSector
  BY StreamIs, FatGeometry DEF Sectors
<1>2. j.start \in Nat /\ j.n \in Nat /\ PerSector \in Nat \ {0}
  BY FatGeometry DEF StreamOK
<1>3. /\ (s + i) * PerSector = (s * PerSector) + (i * PerSector)
      /\ (i + 1) * PerSector = (i * PerSector) + PerSector
      /\ i * PerSector \in Int /\ s * PerSector \in Int
      /\ 0 * PerSector <= i * PerSector
  BY <1>2, Product
<1>4. i * PerSector >= 0
  BY <1>2, <1>3
<1> QED
  BY <1>1, <1>2, <1>3, <1>4 DEF Run

\* A page that is written without being read is written as a whole.
LEMMA WholePage ==
    ASSUME NEW j, StreamOK(j), ~MustRead(j), ~Mapped(FirstSector(j))
    PROVE  PageSectors(PageOf(FirstSector(j))) \subseteq Filled(j, PoolCount(j))
<1> DEFINE s == FirstSector(j)
<1>1. /\ ByteOffset(j) = 0 /\ OffsetInPage(j) = 0 /\ j.n >= PageSize * PerSector
      /\ PerSector \in Nat \ {0} /\ PageSize \in Nat \ {0} /\ j.n \in Nat
  BY FatGeometry, StreamIs DEF MustRead, StreamOK
<1>2. /\ s \in Sectors /\ s \in Nat /\ s = PageOf(s) /\ s # 0
      /\ NSectors(j) \in Nat /\ j.n <= NSectors(j) * PerSector
  <2>1. /\ s \in Sectors /\ (s = 0 => ByteOffset(j) # 0) /\ OffsetInPage(j) = s - PageOf(s)
        /\ NSectors(j) \in Nat /\ ByteOffset(j) + j.n <= NSectors(j) * PerSector
    BY StreamIs
  <2>2. s \in Nat /\ PageOf(s) \in Nat
    BY <2>1, PagesApart DEF Sectors
  <2> HIDE DEF s
  <2> QED
    BY <1>1, <2>1, <2>2
<1> HIDE DEF s
<1>3. Clipped(j).n >= PageSize
  <2>1. SUFFICES ASSUME Clipped(j).n < PageSize PROVE FALSE
    BY <1>1, <1>2, ClippedIs
  <2>2. PICK c \in Nat \ {0} : c = Clipped(j).n /\ c < PageSize /\ c <= NSectors(j)
    BY <1>2, <2>1, ClippedIs
  <2>3. CASE Clipped(j).mapped = 0
    <3>1. NSectors(j) = c
      BY <1>2, <2>2, <2>3, ClippedIs DEF s
    <3>2. PageSize * PerSector <= NSectors(j) * PerSector
      BY <1>1, <1>2, Product
    <3> QED
      BY <1>1, <1>2, <2>2, <3>1, <3>2, Product
  <2>4. CASE Clipped(j).mapped # 0
    <3>1. PICK t : t = s + (c - 1) /\ Mapped(t)
      BY <1>2, <2>2, <2>4, ClippedIs DEF s
    <3>2. c - 1 \in 0 .. PageSize - 1
      BY <1>1, <2>2
    <3>3. PageOf(t) = s
      BY <1>2, <3>1, <3>2, PageStart
    <3> QED
      BY <1>2, <3>1, <3>3 DEF Mapped, s
  <2> QED
    BY <2>3, <2>4
<1>4. PoolCount(j) = PageSize
  BY <1>1, <1>3, PoolCountIs
<1>5. ASSUME NEW t \in PageSectors(s) PROVE t \in Filled(j, PageSize)
  <2>1. s \in Pages
    BY <1>2, PagesApart
  <2>2. PICK i \in 0 .. PageSize - 1 : i = t - s
    BY <2>1, InPage
  <2>3. t \in Sectors /\ t \in Nat /\ t = s + i
    BY <1>2, <2>1, <2>2, InPage DEF Sectors
  <2>4. (i + 1) * PerSector <= j.n
    <3>1. (i + 1) * PerSector <= PageSize * PerSector
      BY <1>1, Product
    <3>2. (i + 1) * PerSector \in Int /\ PageSize * PerSector \in Int
      BY <1>1, Product
    <3> QED
      BY <1>1, <3>1, <3>2
  <2>5. Run(t * PerSector, PerSector) \subseteq Run(j.start, j.n)
    BY <1>1, <2>3, <2>4, FilledIs DEF s
  <2>6. t \in Given(j, PageSize)
    BY <1>1, <1>2, <2>3 DEF Given, Run, s
  <2> QED
    BY <2>5, <2>6 DEF Filled
<1> QED
  BY <1>2, <1>4, <1>5 DEF s

\* A mapping of the caller's own buffer is of whole sectors that are not mapped.
LEMMA AltIs ==
    ASSUME NEW j, StreamOK(j), ~UsePool(j)
    PROVE  /\ AltCount(j) \in Nat /\ ByteOffset(j) = 0
           /\ \A t \in Given(j, AltCount(j)) :
                 t \in Sectors /\ ~Mapped(t) /\ t \in Filled(j, AltCount(j))
<1> DEFINE s == FirstSector(j)
           c == Clipped(j).n
           X == IF Clipped(j).mapped # 0 THEN Clipped(j).mapped - s ELSE AltWhole(j)
<1>1. /\ ByteOffset(j) = 0 /\ s \in Sectors /\ s # 0 /\ s \in Nat
      /\ NSectors(j) \in Nat \ {0} /\ s + NSectors(j) <= SecPerFat /\ c \in 1 .. NSectors(j)
      /\ (NSectors(j) - 1) * PerSector < ByteOffset(j) + j.n
      /\ ByteOffset(j) + j.n <= NSectors(j) * PerSector
  BY StreamIs, ClippedIs DEF UsePool, Sectors
<1>2. PerSector \in Nat \ {0} /\ j.n \in Nat /\ j.alt \in Nat /\ SecPerFat \in Nat
  BY FatGeometry DEF StreamOK
<1>3. /\ \A i \in 0 .. c - 2 : ~Mapped(s + i)
      /\ IF Clipped(j).mapped = 0 THEN c = NSectors(j) /\ ~Mapped(s + NSectors(j) - 1)
         ELSE Clipped(j).mapped = s + c - 1
  BY <1>1, ClippedIs
<1>4. AltCount(j) = Min({j.alt, X})
  BY DEF AltCount
<1>5. AltWhole(j) = IF j.n % PerSector # 0 THEN c - 1 ELSE c
  BY <1>1, <1>2 DEF AltWhole
<1> HIDE DEF s, c
<1>6. X \in Nat /\ X <= c
  BY <1>1, <1>3, <1>5
<1>7. AltCount(j) \in Nat /\ AltCount(j) <= X
  <2>1. {j.alt, X} \in SUBSET Nat /\ {j.alt, X} # {}
    BY <1>2, <1>6
  <2>2. Min({j.alt, X}) \in {j.alt, X} /\ Min({j.alt, X}) <= X
    BY <2>1, MinIs
  <2> QED
    BY <1>4, <2>1, <2>2
<1>8. ASSUME NEW i \in Nat, i + 1 <= X PROVE ~Mapped(s + i) /\ (i + 1) * PerSector <= j.n
  <2>1. CASE i + 1 <= NSectors(j) - 1
    <3>1. /\ (i + 1) * PerSector <= (NSectors(j) - 1) * PerSector
          /\ (i + 1) * PerSector \in Int /\ (NSectors(j) - 1) * PerSector \in Int
      BY <1>1, <1>2, <2>1, Product
    <3>2. (i + 1) * PerSector <= j.n
      BY <1>1, <1>2, <3>1
    <3>3. i \in 0 .. c - 2 \/ (Clipped(j).mapped = 0 /\ i \in 0 .. NSectors(j) - 2)
      BY <1>1, <1>3, <1>6, <1>8, <2>1
    <3> QED
      BY <1>3, <3>2, <3>3
  <2>2. CASE i + 1 > NSectors(j) - 1
    <3>0. i + 1 = NSectors(j) /\ X = c /\ c = NSectors(j)
      BY <1>1, <1>6, <1>8, <2>2
    <3>1. Clipped(j).mapped = 0 /\ c = NSectors(j) /\ i + 1 = NSectors(j) /\ j.n % PerSector = 0
      <4>1. Clipped(j).mapped = 0
        BY <1>1, <1>3, <3>0
      <4>2. AltWhole(j) = c
        BY <3>0, <4>1
      <4> QED
        BY <1>1, <1>5, <3>0, <4>1, <4>2
    <3>2. PICK q \in Nat : j.n = q * PerSector
      <4>1. PICK q \in Nat, r \in Nat : j.n = (q * PerSector) + r /\ r = 0
        <5>1. /\ j.n = ((j.n \div PerSector) * PerSector) + (j.n % PerSector)
              /\ j.n \div PerSector \in Nat
          BY <1>2, Division, Zenon
        <5> QED
          BY <3>1, <5>1
      <4>2. q * PerSector \in Int
        BY <1>2, <4>1, Product
      <4> QED
        BY <4>1, <4>2
    <3>3. ~(q <= NSectors(j) - 1)
      <4>1. q <= NSectors(j) - 1 <=> q * PerSector <= (NSectors(j) - 1) * PerSector
        BY <1>1, <1>2, Product
      <4>2. (NSectors(j) - 1) * PerSector \in Int
        BY <1>1, <1>2, Product
      <4> QED
        BY <1>1, <1>2, <3>2, <4>1, <4>2
    <3>4. (i + 1) * PerSector <= q * PerSector
      BY <1>1, <1>2, <3>1, <3>3, Product
    <3>5. i = NSectors(j) - 1 /\ s + i = s + NSectors(j) - 1
      BY <1>1, <3>1
    <3> QED
      BY <1>3, <3>1, <3>2, <3>4, <3>5
  <2> QED
    BY <1>1, <2>1, <2>2
<1>9. ASSUME NEW t \in Given(j, AltCount(j))
      PROVE  t \in Sectors /\ ~Mapped(t) /\ t \in Filled(j, AltCount(j))
  <2>1. t \in s .. s + AltCount(j) - 1
    BY DEF Given, Run, s
  <2>2. PICK i \in Nat : t = s + i /\ i + 1 <= X
    BY <1>1, <1>6, <1>7, <2>1
  <2>3. t \in Sectors
    BY <1>1, <1>2, <1>6, <2>2 DEF Sectors
  <2>4. Run(t * PerSector, PerSector) \subseteq Run(j.start, j.n)
    BY <1>1, <1>8, <2>2, FilledIs DEF s
  <2> QED
    BY <1>8, <2>2, <2>3, <2>4 DEF Filled
<1> QED
  BY <1>1, <1>7, <1>9

LEMMA RestOK ==
    ASSUME NEW j, StreamOK(j), NEW n \in Nat, n >= 1 \/ ByteOffset(j) = 0, Advance(j, n)
    PROVE  job' = NoJob \/ StreamOK(job')
<1> DEFINE used == n * PerSector - ByteOffset(j)
<1>1. /\ j.kind \in {"read", "write"} /\ j.start \in Nat /\ j.n \in Nat \ {0} /\ j.alt \in Nat
      /\ j.start >= 2 /\ j.start + j.n <= SecPerFat * PerSector
      /\ j = [kind |-> j.kind, start |-> j.start, n |-> j.n, alt |-> j.alt]
      /\ SecPerFat * PerSector \in Int
  BY FatGeometry, Product DEF StreamOK
<1>2. used \in Nat
  <2>1. ByteOffset(j) \in 0 .. PerSector - 1 /\ PerSector \in Nat \ {0}
    BY FatGeometry, StreamIs
  <2>2. n * PerSector \in Int /\ 0 * PerSector <= n * PerSector /\ (n >= 1 => 1 * PerSector <= n * PerSector)
    BY <2>1, Product
  <2> QED
    BY <2>1, <2>2
<1>3. Rest(j, n) = IF used >= j.n THEN NoJob
                   ELSE [j EXCEPT !.start = j.start + used, !.n = j.n - used]
  BY DEF Rest
<1> HIDE DEF used
<1>4. ASSUME used < j.n PROVE StreamOK([j EXCEPT !.start = j.start + used, !.n = j.n - used])
  <2>1. j \in [kind : {"read", "write"}, start : Nat, n : Nat \ {0}, alt : Nat]
    BY DEF StreamOK
  <2>2. PICK x \in Nat, y \in Nat \ {0} : x = j.start + used /\ y = j.n - used
    BY <1>1, <1>2, <1>4
  <2>3. /\ [j EXCEPT !.start = x, !.n = y]
              \in [kind : {"read", "write"}, start : Nat, n : Nat \ {0}, alt : Nat]
        /\ [j EXCEPT !.start = x, !.n = y].start = x /\ [j EXCEPT !.start = x, !.n = y].n = y
    BY <2>1
  <2> QED
    BY <1>1, <1>2, <2>2, <2>3 DEF StreamOK
<1> QED
  BY <1>1, <1>2, <1>3, <1>4 DEF Advance

-----------------------------------------------------------------------------
(* Buffers *)

\* The buffer of page p: its count and first dirty sector describe its bitmap.
BuffOK(p, b) ==
    /\ b \in [offset : Nat, count : Nat, bitmap : SUBSET (0 .. PageSize - 1),
              stale : SUBSET PageSectors(p)]
    /\ b.count = Cardinality(b.bitmap)
    /\ \A i \in b.bitmap : p + i \in Sectors /\ b.offset <= i
    /\ b.bitmap # {} => b.offset \in b.bitmap

LEMMA BitmapFinite ==
    ASSUME NEW S \in SUBSET (0 .. PageSize - 1)
    PROVE  IsFiniteSet(S) /\ Cardinality(S) \in Nat /\ (Cardinality(S) = 0 <=> S = {})
<1>1. IsFiniteSet(0 .. PageSize - 1)
  BY FatGeometry, FS_Interval
<1>2. IsFiniteSet(S)
  BY <1>1, FS_Subset
<1> QED
  BY <1>2, FS_CardinalityType, FS_EmptySet

LEMMA DisjointUnion ==
    ASSUME NEW S, NEW T, IsFiniteSet(S), IsFiniteSet(T), S \cap T = {}
    PROVE  Cardinality(S \cup T) = Cardinality(S) + Cardinality(T)
<1>1. /\ Cardinality(S \cup T) = Cardinality(S) + Cardinality(T) - Cardinality(S \cap T)
      /\ Cardinality(S) \in Nat /\ Cardinality(T) \in Nat
  BY FS_Union, FS_CardinalityType
<1> QED
  BY <1>1, FS_EmptySet

LEMMA CleanOK ==
    ASSUME NEW p, NEW st \in SUBSET PageSectors(p)
    PROVE  BuffOK(p, CleanBuff(st)) /\ CleanBuff(st).count = 0 /\ CleanBuff(st).bitmap = {}
           /\ CleanBuff(st).stale = st
  BY FS_EmptySet DEF BuffOK, CleanBuff

LEMMA SetDirtyOK ==
    ASSUME NEW p, NEW b, BuffOK(p, b), NEW o \in Nat, NEW n \in Nat \ {0},
           \A i \in Run(o, n) : i \in 0 .. PageSize - 1 /\ p + i \in Sectors,
           NEW st \in SUBSET PageSectors(p)
    PROVE  LET d == [SetDirty(b, o, n) EXCEPT !.stale = st]
           IN /\ BuffOK(p, d) /\ d.count > 0 /\ d.stale = st
              /\ d.bitmap = b.bitmap \cup Run(o, n)
<1> DEFINE added == Run(o, n) \ b.bitmap
           off == IF b.bitmap = {} \/ o < b.offset THEN o ELSE b.offset
           d == [SetDirty(b, o, n) EXCEPT !.stale = st]
<1>1. /\ b \in [offset : Nat, count : Nat, bitmap : SUBSET (0 .. PageSize - 1),
                stale : SUBSET PageSectors(p)]
      /\ b.count = Cardinality(b.bitmap)
      /\ \A i \in b.bitmap : p + i \in Sectors /\ b.offset <= i
      /\ b.bitmap # {} => b.offset \in b.bitmap
  BY DEF BuffOK
<1>2. o \in Run(o, n) /\ \A i \in Run(o, n) : o <= i
  BY DEF Run
<1>3. added \in SUBSET (0 .. PageSize - 1) /\ b.bitmap \in SUBSET (0 .. PageSize - 1)
      /\ added \cap b.bitmap = {} /\ b.bitmap \cup added = b.bitmap \cup Run(o, n)
      /\ b.bitmap \cup added \in SUBSET (0 .. PageSize - 1)
  BY <1>1
<1>4. Cardinality(b.bitmap \cup added) = b.count + Cardinality(added)
      /\ Cardinality(added) \in Nat
  <2>1. IsFiniteSet(added) /\ IsFiniteSet(b.bitmap) /\ Cardinality(added) \in Nat
    BY <1>3, BitmapFinite
  <2> QED
    BY <1>1, <1>3, <2>1, DisjointUnion
<1>5. /\ d.offset = off /\ d.count = b.count + Cardinality(added)
      /\ d.bitmap = b.bitmap \cup added /\ d.stale = st
      /\ d \in [offset : Nat, count : Nat, bitmap : SUBSET (0 .. PageSize - 1),
                stale : SUBSET PageSectors(p)]
  <2>1. PICK x \in Nat, y \in Nat, z \in SUBSET (0 .. PageSize - 1) :
          x = off /\ y = b.count + Cardinality(added) /\ z = b.bitmap \cup added
    <3>1. off \in Nat /\ b.count \in Nat
      BY <1>1
    <3>2. b.count + Cardinality(added) \in Nat
      BY <1>4, <3>1
    <3> HIDE DEF off, added
    <3> QED
      BY <1>3, <3>1, <3>2
  <2>2. d = [b EXCEPT !.offset = x, !.count = y, !.bitmap = z, !.stale = st]
    BY <1>1, <2>1, Zenon DEF SetDirty
  <2> HIDE DEF d, added
  <2>3. /\ d.offset = x /\ d.count = y /\ d.bitmap = z /\ d.stale = st
        /\ d \in [offset : Nat, count : Nat, bitmap : SUBSET (0 .. PageSize - 1),
                  stale : SUBSET PageSectors(p)]
    BY <1>1, <2>2
  <2> QED
    BY <2>1, <2>3
<1> HIDE DEF d, added
<1>6. d.count = Cardinality(d.bitmap) /\ d.count # 0
  BY <1>2, <1>3, <1>4, <1>5, BitmapFinite
<1>7. \A i \in d.bitmap : p + i \in Sectors /\ d.offset <= i
  BY <1>1, <1>2, <1>3, <1>5
<1>8. d.offset \in d.bitmap
  BY <1>1, <1>2, <1>3, <1>5
<1>9. BuffOK(p, d)
  BY <1>5, <1>6, <1>7, <1>8 DEF BuffOK
<1>10. d.count > 0
  BY <1>5, <1>6
<1> QED
  BY <1>3, <1>5, <1>9, <1>10 DEF d

\* The sectors written at one turn are dirty ones, and the buffer left lacks just them.
LEMMA AfterRunOK ==
    ASSUME NEW p, NEW b, BuffOK(p, b), b.count > 0
    PROVE  /\ FirstRun(b) \in Nat /\ Run(b.offset, FirstRun(b)) \subseteq b.bitmap
           /\ BuffOK(p, AfterRun(b)) /\ AfterRun(b).stale = b.stale
           /\ AfterRun(b).bitmap = b.bitmap \ Run(b.offset, FirstRun(b))
<1>1. /\ b \in [offset : Nat, count : Nat, bitmap : SUBSET (0 .. PageSize - 1),
                stale : SUBSET PageSectors(p)]
      /\ b.count = Cardinality(b.bitmap) /\ b.count \in Nat
      /\ \A i \in b.bitmap : p + i \in Sectors /\ b.offset <= i
      /\ PageSize \in Nat
  BY FatGeometry DEF BuffOK
<1>2. /\ IsFiniteSet(b.bitmap) /\ b.bitmap # {} /\ b.offset \in b.bitmap
      /\ b.offset \in 0 .. PageSize - 1
  BY <1>1, BitmapFinite DEF BuffOK
<1> DEFINE n == FirstRun(b)
           R == Run(b.offset, n)
           rest == b.bitmap \ R
<1>3. CASE b.count = 1
  <2>1. n = 1 /\ R = {b.offset}
    BY <1>1, <1>3 DEF FirstRun, Run
  <2>2. b.bitmap = {b.offset}
    <3>1. Cardinality({b.offset}) = 1
      BY FS_Singleton
    <3> QED
      BY <1>1, <1>2, <1>3, <3>1, FS_Subset
  <2>3. AfterRun(b) = CleanBuff(b.stale)
    BY <1>3 DEF AfterRun, Zeroed
  <2> QED
    BY <1>1, <2>1, <2>2, <2>3, CleanOK
<1>4. CASE b.count # 1 /\ b.offset + b.count = PageSize
  <2>1. n = b.count /\ R = b.offset .. PageSize - 1
    BY <1>1, <1>2, <1>4 DEF FirstRun, Run
  <2>2. IsFiniteSet(R) /\ Cardinality(R) = b.count
    BY <1>1, <1>2, <1>4, <2>1, FS_Interval
  <2>3. b.bitmap \subseteq R
    BY <1>1, <1>2, <2>1
  <2>4. b.bitmap = R
    BY <1>1, <2>2, <2>3, FS_Subset
  <2>5. AfterRun(b) = CleanBuff(b.stale)
    BY <1>4 DEF AfterRun, Zeroed
  <2> QED
    BY <1>1, <2>1, <2>4, <2>5, CleanOK
<1>5. CASE b.count # 1 /\ b.offset + b.count # PageSize
  <2> DEFINE clear == {i \in 1 .. PageSize : b.offset + i \notin b.bitmap}
  <2>1. n = Min(clear)
    BY <1>5 DEF FirstRun, RunLength
  <2>2. PageSize \in clear /\ clear \in SUBSET Nat
    BY <1>1, <1>2, FatGeometry
  <2>3. n \in clear /\ \A x \in clear : n <= x
    BY <2>1, <2>2, MinIs
  <2>4. n \in Nat /\ n >= 1 /\ n <= PageSize
    BY <1>1, <2>3
  <2> HIDE DEF n
  <2>5. R \subseteq b.bitmap
    <3> SUFFICES ASSUME NEW i \in R PROVE i \in b.bitmap
      OBVIOUS
    <3>1. i \in b.offset .. b.offset + n - 1
      BY DEF Run
    <3>2. PICK k \in Nat : i = b.offset + k /\ k < n
      <4>1. PICK f \in Nat : f = b.offset
        BY <1>2
      <4>2. i \in f .. f + n - 1
        BY <3>1, <4>1
      <4>3. i - f \in Nat /\ i - f < n /\ i = f + (i - f)
        BY <2>4, <4>2
      <4> QED
        BY <4>1, <4>3
    <3>3. CASE k = 0
      BY <1>1, <1>2, <3>2, <3>3
    <3>4. CASE k # 0
      <4>1. k \in 1 .. PageSize /\ k \notin clear
        BY <1>1, <2>3, <2>4, <3>2, <3>4
      <4> QED
        BY <3>2, <4>1
    <3> QED
      BY <3>3, <3>4
  <2>6. Cardinality(rest) = b.count - n /\ rest \in SUBSET Nat /\ Cardinality(rest) \in Nat
    <3>1. IsFiniteSet(R) /\ Cardinality(R) = n
      <4>1. PICK e \in Int : e = b.offset + n - 1
        BY <1>2, <2>4
      <4>2. R = b.offset .. e
        BY <4>1 DEF Run
      <4>3. IsFiniteSet(R) /\ Cardinality(R) = IF b.offset > e THEN 0 ELSE e - b.offset + 1
        BY <1>2, <4>2, FS_Interval
      <4> QED
        BY <1>2, <2>4, <4>1, <4>3
    <3>2. /\ rest \in SUBSET (0 .. PageSize - 1) /\ R \in SUBSET (0 .. PageSize - 1)
          /\ rest \cap R = {} /\ rest \cup R = b.bitmap
      BY <1>1, <2>5
    <3>3. IsFiniteSet(rest) /\ Cardinality(rest) \in Nat
      BY <3>2, BitmapFinite
    <3>4. Cardinality(rest \cup R) = Cardinality(rest) + Cardinality(R)
      BY <3>1, <3>2, <3>3, DisjointUnion
    <3> QED
      BY <1>1, <2>4, <3>1, <3>2, <3>3, <3>4
  <2>7. rest # {} => Min(rest) \in rest /\ \A x \in rest : Min(rest) <= x
    BY <2>6, MinIs
  <2>8. AfterRun(b) = [offset |-> IF rest = {} THEN PageSize ELSE Min(rest),
                       count |-> b.count - n, bitmap |-> rest, stale |-> b.stale]
    BY <1>1, <1>5 DEF AfterRun, n
  <2> HIDE DEF rest, R
  <2>9. PICK x \in Nat : x = IF rest = {} THEN PageSize ELSE Min(rest)
    BY <1>1, <2>6, <2>7
  <2>10. BuffOK(p, AfterRun(b))
    <3>1. rest \subseteq b.bitmap
      BY DEF rest
    <3>2. AfterRun(b) = [offset |-> x, count |-> Cardinality(rest), bitmap |-> rest, stale |-> b.stale]
      BY <2>6, <2>8, <2>9
    <3>3. rest \in SUBSET (0 .. PageSize - 1) /\ \A i \in rest : p + i \in Sectors
      BY <1>1, <3>1
    <3>4. \A i \in rest : x <= i
      BY <2>7, <2>9
    <3>5. rest # {} => x \in rest
      BY <2>7, <2>9
    <3>6. /\ AfterRun(b).offset = x /\ AfterRun(b).count = Cardinality(rest)
          /\ AfterRun(b).bitmap = rest
          /\ AfterRun(b) \in [offset : Nat, count : Nat, bitmap : SUBSET (0 .. PageSize - 1),
                              stale : SUBSET PageSectors(p)]
      BY <1>1, <2>6, <3>2, <3>3
    <3> QED
      BY <3>3, <3>4, <3>5, <3>6 DEF BuffOK
  <2> QED
    BY <2>4, <2>5, <2>8, <2>10 DEF n, rest, R
<1> QED
  BY <1>3, <1>4, <1>5

-----------------------------------------------------------------------------
(* The inductive invariant *)

\* The pages num_dirty counts: the page being written counts until it is done.
Counted == {p \in DOMAIN pool : pool[p].count > 0 \/ p = out}

FlushOK(j) == j \in [kind : {"flush"}, max : Nat, flushed : Nat, at : Nat]

PoolType ==
    /\ DOMAIN pool \in SUBSET Pages /\ pool = [p \in DOMAIN pool |-> pool[p]]
    /\ \A p \in DOMAIN pool : BuffOK(p, pool[p])
    /\ stale \in [0 .. 1 -> SUBSET Sectors]
    /\ failed \in SUBSET Sectors
    /\ numDirty \in Nat /\ errors \in Nat /\ fatDirty \in BOOLEAN
    /\ job = NoJob \/ StreamOK(job) \/ FlushOK(job)
    /\ out = NoPage \/ out \in DOMAIN pool

\* A flush has left no dirty page behind it.
NoneBehind ==
    /\ job = NoJob => out = NoPage
    /\ job.kind = "flush" =>
          \A p \in DirtyPages : p >= IF out = NoPage THEN job.at ELSE out

Accounts ==
    /\ numDirty >= Cardinality(Counted)
    /\ errors = 0 => numDirty = Cardinality(Counted)
    /\ DirtyPages # {} => fatDirty
    /\ result = "complete" => Counted = {}

PoolInv == /\ PoolType /\ NoneBehind /\ Accounts
           /\ PoolOverDiskIsTheFat /\ ReadersGetTheLatest

LEMMA CountedFinite ==
    ASSUME PoolType
    PROVE  /\ IsFiniteSet(Counted) /\ Cardinality(Counted) \in Nat /\ NoPage \notin DOMAIN pool
           /\ DirtyPages \subseteq Counted /\ (out = NoPage => Counted = DirtyPages)
<1>1. Counted \in SUBSET Pages /\ NoPage \notin DOMAIN pool
  BY InPage DEF Counted, PoolType
<1> QED
  BY <1>1, PagesFinite, FS_CardinalityType DEF Counted, DirtyPages

\* With nothing to count, the disk is the FAT.
LEMMA NothingCounted ==
    ASSUME PoolInv, Counted = {}
    PROVE  stale[0] \cup stale[1] \subseteq failed
<1> SUFFICES ASSUME NEW s \in Sectors \ failed PROVE s \notin stale[0] \cup stale[1]
  <2>1. stale[0] \subseteq Sectors /\ stale[1] \subseteq Sectors
    BY DEF PoolInv, PoolType
  <2> QED
    BY <2>1
<1>1. CASE Mapped(s)
  <2>1. BuffOK(PageOf(s), pool[PageOf(s)]) /\ ~(pool[PageOf(s)].count > 0)
    BY <1>1 DEF PoolInv, PoolType, Counted, Mapped
  <2>2. pool[PageOf(s)].bitmap = {}
    BY <2>1, BitmapFinite DEF BuffOK
  <2> QED
    BY <1>1, <2>2 DEF PoolInv, PoolOverDiskIsTheFat
<1> QED
  BY <1>1 DEF PoolInv, PoolOverDiskIsTheFat

LEMMA InitInv == Init => PoolInv
<1> SUFFICES ASSUME Init PROVE PoolInv
  OBVIOUS
<1>1. DOMAIN pool = {} /\ pool = [p \in DOMAIN pool |-> pool[p]]
  BY DEF Init
<1>2. stale \in [0 .. 1 -> SUBSET Sectors] /\ stale[0] = {} /\ stale[1] = {}
  BY DEF Init
<1>3. failed = {} /\ handed = {} /\ numDirty = 0 /\ errors = 0 /\ fatDirty = FALSE
      /\ job = NoJob /\ out = NoPage /\ result = "none"
  BY DEF Init
<1>4. Counted = {} /\ DirtyPages = {} /\ \A s : ~Mapped(s)
  BY <1>1 DEF Counted, DirtyPages, Mapped
<1>5. PoolType
  BY <1>1, <1>2, <1>3 DEF PoolType
<1>6. NoneBehind /\ ReadersGetTheLatest
  BY <1>3, <1>4 DEF NoneBehind, NoJob, ReadersGetTheLatest
<1>7. Accounts
  BY <1>3, <1>4, FS_EmptySet DEF Accounts
<1>8. PoolOverDiskIsTheFat
  BY <1>2, <1>4 DEF PoolOverDiskIsTheFat
<1> QED
  BY <1>5, <1>6, <1>7, <1>8 DEF PoolInv

-----------------------------------------------------------------------------
(* A page is put to use *)

\* Page p gets buffer x, which agrees with the disk, and clean pages leave the pool.
LEMMA Remapped ==
    ASSUME PoolInv, NEW p \in Pages, NEW old \in SUBSET DOMAIN pool, p \notin old,
           \A q \in old : pool[q].count = 0,
           NEW x, BuffOK(p, x), pool' = Remap(old, p, x), failed' = failed,
           \A s \in Sectors : s \notin PageSectors(p) /\ s \notin stale[0] \cup stale[1]
                                 => s \notin (stale[0] \cup stale[1])',
           \A s \in PageSectors(p) \ failed :
              s \notin x.stale /\ (s - p \notin x.bitmap => s \notin (stale[0] \cup stale[1])')
    PROVE  /\ DOMAIN pool' \in SUBSET Pages /\ pool' = [q \in DOMAIN pool' |-> pool'[q]]
           /\ \A q \in DOMAIN pool' : BuffOK(q, pool'[q])
           /\ PoolOverDiskIsTheFat'
<1>1. /\ DOMAIN pool' = (DOMAIN pool \ old) \cup {p}
      /\ pool' = [q \in DOMAIN pool' |-> pool'[q]]
      /\ \A q \in DOMAIN pool' : pool'[q] = IF q = p THEN x ELSE pool[q]
  BY DEF Remap
<1>2. DOMAIN pool \in SUBSET Pages /\ \A q \in DOMAIN pool : BuffOK(q, pool[q])
  BY DEF PoolInv, PoolType
<1>3. ASSUME NEW s \in Sectors \ failed
      PROVE  IF PageOf(s) \in DOMAIN pool'
             THEN /\ s \notin pool'[PageOf(s)].stale
                  /\ (s - PageOf(s)) \notin pool'[PageOf(s)].bitmap
                        => s \notin (stale[0] \cup stale[1])'
             ELSE s \notin (stale[0] \cup stale[1])'
  <2>1. PageOf(s) \in Pages /\ (s \in PageSectors(p) <=> p = PageOf(s))
    BY PagesApart
  <2>2. CASE PageOf(s) = p
    BY <1>1, <2>1, <2>2
  <2>3. CASE PageOf(s) # p /\ PageOf(s) \in DOMAIN pool'
    <3>1. PageOf(s) \in DOMAIN pool /\ pool'[PageOf(s)] = pool[PageOf(s)]
      BY <1>1, <2>3
    <3>2. /\ s \notin pool[PageOf(s)].stale
          /\ (s - PageOf(s)) \notin pool[PageOf(s)].bitmap => s \notin stale[0] \cup stale[1]
      BY <3>1 DEF PoolInv, PoolOverDiskIsTheFat, Mapped
    <3> QED
      BY <2>1, <2>3, <3>1, <3>2
  <2>4. CASE PageOf(s) # p /\ PageOf(s) \notin DOMAIN pool'
    <3>1. s \notin stale[0] \cup stale[1]
      <4>1. CASE PageOf(s) \in DOMAIN pool
        <5>1. pool[PageOf(s)].count = 0
          BY <1>1, <2>4, <4>1
        <5>2. pool[PageOf(s)].bitmap = {}
          BY <1>2, <4>1, <5>1, BitmapFinite DEF BuffOK
        <5> QED
          BY <4>1, <5>2 DEF PoolInv, PoolOverDiskIsTheFat, Mapped
      <4>2. CASE PageOf(s) \notin DOMAIN pool
        BY <4>2 DEF PoolInv, PoolOverDiskIsTheFat, Mapped
      <4> QED
        BY <4>1, <4>2
    <3> QED
      BY <2>1, <2>4, <3>1
  <2> QED
    BY <2>2, <2>3, <2>4
<1>4. PoolOverDiskIsTheFat'
  BY <1>3 DEF PoolOverDiskIsTheFat, Mapped
<1> QED
  BY <1>1, <1>2, <1>4

\* The buffer b of the stream's page, and what leaves the pool for it.
UseFits(old, b) ==
    LET p == PageOf(FirstSector(job))
    IN /\ old \in SUBSET DOMAIN pool /\ p \notin old /\ \A q \in old : pool[q].count = 0
       /\ BuffOK(p, b)
       /\ IF p \in DOMAIN pool THEN b = pool[p] ELSE b.count = 0 /\ b.bitmap = {}
       /\ \A s \in PageSectors(p) \ failed :
             s \notin b.stale \/ (job.kind = "write" /\ s \in Filled(job, PoolCount(job)))

LEMMA UseKeeps ==
    ASSUME PoolInv, Streaming, StreamOK(job), NEW old, NEW b, UseFits(old, b),
           Use(job, old, b), errors' = errors
    PROVE  PoolInv'
<1>1. PICK p \in Pages, n \in 1 .. PageSize : p = PageOf(FirstSector(job)) /\ n = PoolCount(job)
  BY StreamIs, PoolCountIs, PagesApart
<1>2. /\ old \in SUBSET DOMAIN pool /\ p \notin old /\ \A q \in old : pool[q].count = 0
      /\ BuffOK(p, b)
      /\ IF p \in DOMAIN pool THEN b = pool[p] ELSE b.count = 0 /\ b.bitmap = {}
      /\ \A s \in PageSectors(p) \ failed :
            s \notin b.stale \/ (job.kind = "write" /\ s \in Filled(job, n))
  BY <1>1 DEF UseFits
<1>3. /\ out = NoPage /\ out' = out /\ failed' = failed /\ errors' = errors
      /\ Advance(job, n)
      /\ IF job.kind = "read"
         THEN /\ pool' = Remap(old, p, b)
              /\ handed' = Given(job, n) \cap b.stale
              /\ UNCHANGED <<numDirty, fatDirty, stale, result>>
         ELSE /\ pool' = Remap(old, p, [SetDirty(b, OffsetInPage(job), n)
                                          EXCEPT !.stale = @ \ Filled(job, n)])
              /\ numDirty' = IF b.count = 0 THEN numDirty + 1 ELSE numDirty
              /\ fatDirty' = (fatDirty \/ b.count = 0)
              /\ stale' = [c \in 0 .. 1 |-> stale[c] \cup Given(job, n)]
              /\ result' = "none" /\ handed' = {}
  BY <1>1, Zenon DEF Use, Streaming
<1>4. job' = NoJob \/ StreamOK(job')
  BY <1>1, <1>3, RestOK
<1>5. NoneBehind'
  BY <1>3, <1>4 DEF NoneBehind, NoJob, StreamOK
<1>6. PoolType /\ Accounts /\ NoneBehind
  BY DEF PoolInv
<1>7. /\ \A s \in Given(job, n) : s \in PageSectors(p) /\ s - p \in Run(OffsetInPage(job), n)
      /\ \A i \in Run(OffsetInPage(job), n) : i \in 0 .. PageSize - 1 /\ p + i \in Given(job, n)
      /\ OffsetInPage(job) \in Nat
  BY <1>1, PoolCountIs, StreamIs
<1>8. Given(job, n) \subseteq Sectors /\ PageSectors(p) \subseteq Sectors
  BY <1>7 DEF PageSectors
<1>9. \A s \in PageSectors(p) \ failed : s - p \notin b.bitmap => s \notin stale[0] \cup stale[1]
  <2> SUFFICES ASSUME NEW s \in PageSectors(p) \ failed, s - p \notin b.bitmap
               PROVE  s \notin stale[0] \cup stale[1]
    OBVIOUS
  <2>1. s \in Sectors \ failed /\ PageOf(s) = p
    BY DEF PageSectors
  <2> QED
    BY <1>2, <2>1 DEF PoolInv, PoolOverDiskIsTheFat, Mapped
<1>10. Counted = DirtyPages /\ IsFiniteSet(Counted) /\ Cardinality(Counted) \in Nat
       /\ NoPage \notin DOMAIN pool
  BY <1>3, <1>6, CountedFinite
<1>11. CASE job.kind = "read"
  <2>1. /\ pool' = Remap(old, p, b) /\ handed' = Given(job, n) \cap b.stale
        /\ numDirty' = numDirty /\ fatDirty' = fatDirty /\ stale' = stale /\ result' = result
    BY <1>3, <1>11
  <2>2. \A s \in PageSectors(p) \ failed : s \notin b.stale
    BY <1>2, <1>11
  <2>3. /\ DOMAIN pool' \in SUBSET Pages /\ pool' = [q \in DOMAIN pool' |-> pool'[q]]
        /\ \A q \in DOMAIN pool' : BuffOK(q, pool'[q])
        /\ PoolOverDiskIsTheFat'
    BY <1>2, <1>3, <1>9, <2>1, <2>2, Remapped
  <2>4. /\ DOMAIN pool' = (DOMAIN pool \ old) \cup {p}
        /\ \A q \in DOMAIN pool' : pool'[q] = IF q = p THEN b ELSE pool[q]
    BY <2>1 DEF Remap
  <2>5. DirtyPages' = DirtyPages
    <3>1. ASSUME NEW q \in DirtyPages PROVE q \in DOMAIN pool' /\ pool'[q].count > 0
      BY <1>2, <2>4 DEF DirtyPages
    <3>2. ASSUME NEW q \in DOMAIN pool', pool'[q].count > 0 PROVE q \in DirtyPages
      BY <1>2, <2>4, <3>2 DEF DirtyPages
    <3> QED
      BY <3>1, <3>2 DEF DirtyPages
  <2>6. PoolType'
    BY <1>3, <1>4, <1>6, <2>1, <2>3 DEF PoolType
  <2>7. Counted' = Counted
    <3>1. NoPage \notin DOMAIN pool'
      BY <2>3, InPage
    <3>2. Counted' = DirtyPages'
      BY <1>3, <3>1 DEF Counted, DirtyPages
    <3> QED
      BY <1>10, <2>5, <3>2
  <2>8. Accounts'
    BY <1>3, <1>6, <2>1, <2>5, <2>7 DEF Accounts
  <2>9. ReadersGetTheLatest'
    BY <1>3, <1>7, <2>1, <2>2 DEF ReadersGetTheLatest
  <2> QED
    BY <1>5, <2>3, <2>6, <2>8, <2>9 DEF PoolInv
<1>12. CASE job.kind = "write"
  <2>1. PICK st : st = b.stale \ Filled(job, n)
    OBVIOUS
  <2>2. PICK x : x = [SetDirty(b, OffsetInPage(job), n) EXCEPT !.stale = st]
    OBVIOUS
  <2>3. /\ pool' = Remap(old, p, x)
        /\ numDirty' = IF b.count = 0 THEN numDirty + 1 ELSE numDirty
        /\ fatDirty' = (fatDirty \/ b.count = 0)
        /\ stale' = [c \in 0 .. 1 |-> stale[c] \cup Given(job, n)]
        /\ result' = "none" /\ handed' = {}
    <3>1. /\ pool' = Remap(old, p, [SetDirty(b, OffsetInPage(job), n)
                                          EXCEPT !.stale = @ \ Filled(job, n)])
          /\ numDirty' = IF b.count = 0 THEN numDirty + 1 ELSE numDirty
          /\ fatDirty' = (fatDirty \/ b.count = 0)
          /\ stale' = [c \in 0 .. 1 |-> stale[c] \cup Given(job, n)]
          /\ result' = "none" /\ handed' = {}
      BY <1>3, <1>12
    <3>2. SetDirty(b, OffsetInPage(job), n).stale = b.stale
      BY <1>2 DEF SetDirty, BuffOK
    <3> QED
      BY <2>1, <2>2, <3>1, <3>2
  <2>4. st \in SUBSET PageSectors(p)
    BY <1>2, <2>1 DEF BuffOK
  <2>5. /\ BuffOK(p, x) /\ x.count > 0 /\ x.stale = st
        /\ x.bitmap = b.bitmap \cup Run(OffsetInPage(job), n)
    <3>1. n \in Nat \ {0}
      BY FatGeometry
    <3>2. \A i \in Run(OffsetInPage(job), n) : i \in 0 .. PageSize - 1 /\ p + i \in Sectors
      BY <1>7, <1>8
    <3> QED
      BY <1>2, <1>7, <2>2, <2>4, <3>1, <3>2, SetDirtyOK
  <2>6. /\ stale'[0] = stale[0] \cup Given(job, n) /\ stale'[1] = stale[1] \cup Given(job, n)
        /\ stale' \in [0 .. 1 -> SUBSET Sectors]
    BY <1>6, <1>8, <2>3 DEF PoolType
  <2>7. \A s \in PageSectors(p) \ failed :
            s \notin x.stale /\ (s - p \notin x.bitmap => s \notin (stale[0] \cup stale[1])')
    <3> SUFFICES ASSUME NEW s \in PageSectors(p) \ failed
                 PROVE  s \notin x.stale /\ (s - p \notin x.bitmap => s \notin (stale[0] \cup stale[1])')
      OBVIOUS
    <3>1. s \notin x.stale
      BY <1>2, <2>1, <2>5
    <3>2. ASSUME s - p \notin x.bitmap PROVE s \notin (stale[0] \cup stale[1])'
      <4>1. s \notin Given(job, n)
        BY <1>7, <2>5, <3>2
      <4>2. s - p \notin b.bitmap
        BY <2>5, <3>2
      <4> QED
        BY <1>9, <2>6, <4>1, <4>2
    <3> QED
      BY <3>1, <3>2
  <2>8. \A s \in Sectors : s \notin PageSectors(p) /\ s \notin stale[0] \cup stale[1]
                              => s \notin (stale[0] \cup stale[1])'
    BY <1>7, <2>6
  <2>9. /\ DOMAIN pool' \in SUBSET Pages /\ pool' = [q \in DOMAIN pool' |-> pool'[q]]
        /\ \A q \in DOMAIN pool' : BuffOK(q, pool'[q])
        /\ PoolOverDiskIsTheFat'
    BY <1>2, <1>3, <2>3, <2>5, <2>7, <2>8, Remapped
  <2>10. /\ DOMAIN pool' = (DOMAIN pool \ old) \cup {p}
         /\ \A q \in DOMAIN pool' : pool'[q] = IF q = p THEN x ELSE pool[q]
    BY <2>3 DEF Remap
  <2>11. DirtyPages' = DirtyPages \cup {p} /\ (p \in DirtyPages <=> b.count # 0)
    <3>1. ASSUME NEW q \in DirtyPages PROVE q \in DOMAIN pool' /\ pool'[q].count > 0
      BY <1>2, <2>5, <2>10 DEF DirtyPages
    <3>2. ASSUME NEW q \in DOMAIN pool', pool'[q].count > 0 PROVE q \in DirtyPages \cup {p}
      BY <1>2, <2>10, <3>2 DEF DirtyPages
    <3>3. p \in DOMAIN pool' /\ pool'[p].count > 0
      BY <2>5, <2>10
    <3>4. p \in DirtyPages <=> b.count # 0
      BY <1>2 DEF DirtyPages, BuffOK
    <3> QED
      BY <3>1, <3>2, <3>3, <3>4 DEF DirtyPages
  <2>12. numDirty' \in Nat /\ fatDirty' \in BOOLEAN
    BY <1>6, <2>3 DEF PoolType
  <2>13. PoolType'
    BY <1>3, <1>4, <1>6, <2>6, <2>9, <2>12 DEF PoolType
  <2>14. Counted' = Counted \cup {p}
    <3>1. NoPage \notin DOMAIN pool'
      BY <2>9, InPage
    <3>2. Counted' = DirtyPages'
      BY <1>3, <3>1 DEF Counted, DirtyPages
    <3> QED
      BY <1>10, <2>11, <3>2
  <2>15. Cardinality(Counted') = IF b.count = 0 THEN Cardinality(Counted) + 1
                                 ELSE Cardinality(Counted)
    BY <1>10, <2>11, <2>14, FS_AddElement
  <2>16. Accounts'
    <3>1. /\ numDirty >= Cardinality(Counted) /\ (errors = 0 => numDirty = Cardinality(Counted))
          /\ (DirtyPages # {} => fatDirty) /\ numDirty \in Nat
      BY <1>6 DEF Accounts, PoolType
    <3>2. numDirty' >= Cardinality(Counted') /\ (errors = 0 => numDirty' = Cardinality(Counted'))
      BY <1>10, <2>3, <2>15, <3>1
    <3>3. fatDirty'
      BY <2>3, <2>11, <3>1
    <3> QED
      BY <1>3, <2>3, <3>2, <3>3 DEF Accounts
  <2>17. ReadersGetTheLatest'
    BY <2>3 DEF ReadersGetTheLatest
  <2> QED
    BY <1>5, <2>9, <2>13, <2>16, <2>17 DEF PoolInv
<1> QED
  BY <1>11, <1>12 DEF StreamOK

LEMMA StreamingJob ==
    ASSUME PoolType, Streaming
    PROVE  /\ StreamOK(job) /\ out = NoPage
           /\ PageOf(FirstSector(job)) \in Pages
  BY StreamIs, PagesApart DEF PoolType, Streaming, NoJob, FlushOK

LEMMA ReplaceableIs ==
    ASSUME PoolType, NEW old \in Replaceable
    PROVE  old \in SUBSET DOMAIN pool /\ \A q \in old : pool[q].count = 0
<1>1. old = {} \/ \E p \in DOMAIN pool \ DirtyPages : old = {p}
  BY DEF Replaceable, Oldest
<1>2. \A p \in DOMAIN pool \ DirtyPages : pool[p].count = 0
  BY DEF PoolType, DirtyPages, BuffOK
<1> QED
  BY <1>1, <1>2

LEMMA KeepsMapHit == PoolInv /\ MapHit => PoolInv'
<1> SUFFICES ASSUME PoolInv, MapHit PROVE PoolInv'
  OBVIOUS
<1>1. PICK p : p = PageOf(FirstSector(job))
  OBVIOUS
<1>2. /\ StreamOK(job) /\ p \in Pages /\ p \in DOMAIN pool /\ Use(job, {}, pool[p])
      /\ errors' = errors /\ Streaming
  BY <1>1, StreamingJob DEF MapHit, Hit, Works, PoolInv
<1>3. \A s \in PageSectors(p) \ failed : s \notin pool[p].stale
  BY <1>2 DEF PoolInv, PoolOverDiskIsTheFat, Mapped, PageSectors
<1>4. UseFits({}, pool[p])
  BY <1>1, <1>2, <1>3 DEF UseFits, PoolInv, PoolType
<1> QED
  BY <1>2, <1>4, UseKeeps

LEMMA KeepsMapLoad == PoolInv /\ MapLoad => PoolInv'
<1> SUFFICES ASSUME PoolInv, MapLoad PROVE PoolInv'
  OBVIOUS
<1>1. PICK p : p = PageOf(FirstSector(job))
  OBVIOUS
<1>2. PICK old \in Replaceable : LoadInto(old)
  BY DEF MapLoad
<1>3. PICK st : st = IF MustRead(job) THEN stale[0] \cap PageSectors(p) ELSE PageSectors(p)
  OBVIOUS
<1>4. /\ StreamOK(job) /\ p \in Pages /\ p \notin DOMAIN pool /\ Use(job, old, CleanBuff(st))
      /\ errors' = errors /\ Streaming
  BY <1>1, <1>2, <1>3, StreamingJob DEF MapLoad, LoadInto, Hit, Works, PoolInv
<1>5. \A s \in PageSectors(p) \ failed : s \notin stale[0] \cup stale[1]
  BY <1>4 DEF PoolInv, PoolOverDiskIsTheFat, Mapped, PageSectors
<1>6. /\ BuffOK(p, CleanBuff(st)) /\ CleanBuff(st).count = 0 /\ CleanBuff(st).bitmap = {}
      /\ CleanBuff(st).stale = st
  <2>1. st \in SUBSET PageSectors(p)
    BY <1>3
  <2> QED
    BY <2>1, CleanOK
<1>7. \A s \in PageSectors(p) \ failed :
        s \notin st \/ (job.kind = "write" /\ s \in Filled(job, PoolCount(job)))
  <2>1. CASE MustRead(job)
    BY <1>3, <1>5, <2>1
  <2>2. CASE ~MustRead(job)
    <3>1. ~Mapped(FirstSector(job)) /\ job.kind = "write"
      BY <1>1, <1>4, <2>2 DEF Mapped, MustRead, StreamOK
    <3>2. PageSectors(p) \subseteq Filled(job, PoolCount(job))
      BY <1>1, <1>4, <2>2, <3>1, WholePage
    <3> QED
      BY <3>1, <3>2
  <2> QED
    BY <2>1, <2>2
<1>8. old \in SUBSET DOMAIN pool /\ \A q \in old : pool[q].count = 0
  BY ReplaceableIs DEF PoolInv
<1>9. UseFits(old, CleanBuff(st))
  BY <1>1, <1>4, <1>6, <1>7, <1>8 DEF UseFits
<1> QED
  BY <1>4, <1>9, UseKeeps

LEMMA KeepsMapLoadFails == PoolInv /\ MapLoadFails => PoolInv'
<1> SUFFICES ASSUME PoolInv, MapLoadFails PROVE PoolInv'
  OBVIOUS
<1>1. PICK old \in Replaceable : pool' = [q \in DOMAIN pool \ old |-> pool[q]]
  BY DEF MapLoadFails
<1>2. /\ job' = NoJob /\ errors' = errors + 1 /\ out = NoPage
      /\ UNCHANGED <<numDirty, fatDirty, stale, out, handed, failed, result>>
  BY DEF MapLoadFails, Fails, Streaming
<1>3. PoolType /\ Accounts
  BY DEF PoolInv
<1>4. old \in SUBSET DOMAIN pool /\ \A q \in old : pool[q].count = 0
  BY <1>3, ReplaceableIs
<1>5. /\ DOMAIN pool' = DOMAIN pool \ old /\ \A q \in DOMAIN pool' : pool'[q] = pool[q]
      /\ pool' = [q \in DOMAIN pool' |-> pool'[q]]
  BY <1>1
<1>6. PoolType'
  BY <1>2, <1>3, <1>5 DEF PoolType
<1>7. DirtyPages' = DirtyPages
  BY <1>4, <1>5 DEF DirtyPages
<1>8. Counted = DirtyPages /\ Counted' = DirtyPages'
  <2>1. NoPage \notin DOMAIN pool /\ NoPage \notin DOMAIN pool'
    BY <1>3, <1>5, InPage DEF PoolType
  <2> QED
    BY <1>2, <2>1 DEF Counted, DirtyPages
<1>9. Accounts'
  BY <1>2, <1>3, <1>7, <1>8 DEF Accounts, PoolType
<1>10. PoolOverDiskIsTheFat'
  <2> SUFFICES ASSUME NEW s \in Sectors \ failed
               PROVE  IF PageOf(s) \in DOMAIN pool'
                      THEN /\ s \notin pool'[PageOf(s)].stale
                           /\ (s - PageOf(s)) \notin pool'[PageOf(s)].bitmap
                                 => s \notin (stale[0] \cup stale[1])
                      ELSE s \notin (stale[0] \cup stale[1])
    BY <1>2 DEF PoolOverDiskIsTheFat, Mapped
  <2>1. PageOf(s) \in old => pool[PageOf(s)].bitmap = {}
    BY <1>3, <1>4, BitmapFinite DEF PoolType, BuffOK
  <2> QED
    BY <1>4, <1>5, <2>1 DEF PoolInv, PoolOverDiskIsTheFat, Mapped
<1>11. NoneBehind' /\ ReadersGetTheLatest'
  BY <1>2 DEF NoneBehind, NoJob, ReadersGetTheLatest, PoolInv
<1> QED
  BY <1>6, <1>9, <1>10, <1>11 DEF PoolInv

\* The pool, the disk and what a reader was given stay as they are.
LEMMA SameDisk ==
    ASSUME PoolInv, UNCHANGED <<pool, stale, failed, handed>>
    PROVE  /\ PoolOverDiskIsTheFat' /\ ReadersGetTheLatest'
           /\ DOMAIN pool' = DOMAIN pool /\ DirtyPages' = DirtyPages
  BY DEF PoolInv, PoolOverDiskIsTheFat, ReadersGetTheLatest, Mapped, DirtyPages

LEMMA KeepsSwapOut == PoolInv /\ SwapOut => PoolInv'
<1> SUFFICES ASSUME PoolInv, SwapOut PROVE PoolInv'
  OBVIOUS
<1>1. /\ PoolType /\ Accounts /\ out' \in DOMAIN pool /\ out' \in DirtyPages /\ out = NoPage
      /\ UNCHANGED <<poolVars, job, errors, handed, failed, result>> /\ StreamOK(job)
  BY StreamingJob DEF SwapOut, Oldest, PoolInv, Streaming
<1>2. PoolOverDiskIsTheFat' /\ ReadersGetTheLatest' /\ DirtyPages' = DirtyPages
  BY <1>1, SameDisk DEF poolVars
<1>3. Counted' = Counted
  <2>1. NoPage \notin DOMAIN pool
    BY <1>1, CountedFinite
  <2> QED
    BY <1>1, <2>1 DEF Counted, DirtyPages, poolVars
<1>4. PoolType'
  BY <1>1 DEF PoolType, poolVars
<1>5. Accounts'
  BY <1>1, <1>2, <1>3 DEF Accounts, poolVars
<1>6. NoneBehind'
  BY <1>1 DEF NoneBehind, StreamOK, NoJob
<1> QED
  BY <1>2, <1>4, <1>5, <1>6 DEF PoolInv

LEMMA KeepsSwappedOut == PoolInv /\ SwappedOut => PoolInv'
<1> SUFFICES ASSUME PoolInv, SwappedOut PROVE PoolInv'
  OBVIOUS
<1>1. /\ PoolType /\ Accounts /\ NoneBehind /\ out \in DOMAIN pool /\ pool[out].count = 0
      /\ out' = NoPage /\ numDirty' = numDirty - 1 /\ job.kind # "flush"
      /\ fatDirty' = (fatDirty /\ numDirty' # 0)
      /\ UNCHANGED <<pool, older, stale, job, errors, handed, failed, result>>
  BY DEF SwappedOut, PoolInv, PoolType
<1>2. PoolOverDiskIsTheFat' /\ ReadersGetTheLatest' /\ DirtyPages' = DirtyPages
  BY <1>1, SameDisk
<1>3. IsFiniteSet(Counted) /\ Cardinality(Counted) \in Nat /\ NoPage \notin DOMAIN pool
  BY <1>1, CountedFinite
<1>4. out \in Counted /\ Counted' = Counted \ {out} /\ Counted' = DirtyPages
  <2>1. out \notin DirtyPages
    BY <1>1 DEF DirtyPages
  <2> QED
    BY <1>1, <1>3, <2>1 DEF Counted, DirtyPages
<1>5. Cardinality(Counted') = Cardinality(Counted) - 1 /\ Cardinality(Counted) >= 1
      /\ (DirtyPages # {} => Cardinality(Counted') # 0)
  <2>1. IsFiniteSet(Counted') /\ Cardinality(Counted') \in Nat
    BY <1>3, <1>4, FS_RemoveElement, FS_CardinalityType
  <2>2. Cardinality(Counted') = Cardinality(Counted) - 1
    BY <1>3, <1>4, FS_RemoveElement
  <2> QED
    BY <1>3, <1>4, <2>1, <2>2, FS_EmptySet
<1>6. numDirty' \in Nat /\ fatDirty' \in BOOLEAN
  BY <1>1, <1>3, <1>5 DEF PoolType, Accounts
<1>7. PoolType'
  BY <1>1, <1>6 DEF PoolType
<1>8. Accounts'
  <2>1. numDirty' >= Cardinality(Counted') /\ (errors' = 0 => numDirty' = Cardinality(Counted'))
    BY <1>1, <1>3, <1>5 DEF PoolType, Accounts
  <2>2. DirtyPages' # {} => fatDirty'
    <3>1. Cardinality(Counted') # 0 => numDirty' # 0
      BY <1>3, <1>5, <1>6, <2>1
    <3>2. DirtyPages # {} => fatDirty
      BY <1>1 DEF Accounts
    <3> QED
      BY <1>1, <1>2, <1>5, <3>1, <3>2, Zenon
  <2>3. result' = "complete" => Counted' = {}
    BY <1>1, <1>4 DEF Accounts
  <2> QED
    BY <2>1, <2>2, <2>3 DEF Accounts
<1>9. NoneBehind'
  BY <1>1, <1>3 DEF NoneBehind
<1> QED
  BY <1>2, <1>7, <1>8, <1>9 DEF PoolInv

LEMMA KeepsAltRead == PoolInv /\ AltRead => PoolInv'
<1> SUFFICES ASSUME PoolInv, AltRead PROVE PoolInv'
  OBVIOUS
<1>1. PICK n : n = AltCount(job)
  OBVIOUS
<1>2. /\ StreamOK(job) /\ ~UsePool(job) /\ out = NoPage
      /\ UNCHANGED <<poolVars, out, failed, result>>
      /\ PoolType /\ Accounts
  BY StreamingJob DEF AltRead, PoolInv
<1>3. /\ n \in Nat /\ ByteOffset(job) = 0
      /\ \A t \in Given(job, n) : t \in Sectors /\ ~Mapped(t)
  BY <1>1, <1>2, AltIs
<1>4. /\ job' = NoJob \/ StreamOK(job')
      /\ handed' = handed \/ handed' = Given(job, n) \cap stale[0]
      /\ errors' = errors \/ errors' = errors + 1
  <2>1. CASE Works /\ handed' = Given(job, n) \cap stale[0] /\ Advance(job, n)
    BY <1>2, <1>3, <2>1, RestOK DEF Works
  <2>2. CASE Fails /\ job' = NoJob /\ UNCHANGED handed
    BY <2>2 DEF Fails
  <2> QED
    BY <1>1, <2>1, <2>2 DEF AltRead
<1>5. ReadersGetTheLatest'
  <2>1. Given(job, n) \cap stale[0] \subseteq failed
    BY <1>3 DEF PoolInv, PoolOverDiskIsTheFat
  <2> QED
    BY <1>2, <1>4, <2>1 DEF ReadersGetTheLatest, PoolInv
<1>6. PoolOverDiskIsTheFat' /\ DirtyPages' = DirtyPages /\ Counted' = Counted
  BY <1>2 DEF PoolOverDiskIsTheFat, DirtyPages, Counted, Mapped, poolVars, PoolInv
<1>7. PoolType'
  BY <1>2, <1>4 DEF PoolType, poolVars
<1>8. Accounts'
  BY <1>2, <1>4, <1>6 DEF Accounts, poolVars, PoolType
<1>9. NoneBehind'
  BY <1>2, <1>4 DEF NoneBehind, StreamOK, NoJob
<1> QED
  BY <1>5, <1>6, <1>7, <1>8, <1>9 DEF PoolInv

LEMMA KeepsAltWrite == PoolInv /\ AltWrite => PoolInv'
<1> SUFFICES ASSUME PoolInv, AltWrite PROVE PoolInv'
  OBVIOUS
<1>1. PICK n, K : n = AltCount(job) /\ K = Given(job, n)
  OBVIOUS
<1>2. /\ StreamOK(job) /\ ~UsePool(job) /\ out = NoPage /\ out' = out
      /\ UNCHANGED <<numDirty, fatDirty>> /\ result' = "none" /\ handed' = {}
      /\ PoolType /\ Accounts
  BY StreamingJob DEF AltWrite, PoolInv
<1>3. /\ n \in Nat /\ ByteOffset(job) = 0
      /\ \A t \in K : t \in Sectors /\ ~Mapped(t) /\ t \in Filled(job, n)
  BY <1>1, <1>2, AltIs
<1>4. K \ Filled(job, n) = {}
  BY <1>3
<1>5. /\ pool' = [p \in DOMAIN pool |-> [pool[p] EXCEPT !.stale = @ \cup (K \cap PageSectors(p))]]
      /\ \/ WriteBoth(K, {}) /\ Advance(job, n)
         \/ WriteBothFails(K, {}) /\ job' = NoJob
  <2>1. /\ pool' = [p \in DOMAIN pool |-> [pool[p] EXCEPT !.stale = @ \cup (K \cap PageSectors(p))]]
        /\ \/ WriteBoth(K, K \ Filled(job, n)) /\ Advance(job, n)
           \/ WriteBothFails(K, K \ Filled(job, n)) /\ job' = NoJob
    BY <1>1, Zenon DEF AltWrite
  <2> QED
    BY <1>4, <2>1
<1>6. pool' = pool
  <2>1. \A p \in DOMAIN pool : K \cap PageSectors(p) = {}
    BY <1>2, <1>3, PagesApart DEF PoolType, Mapped
  <2>2. \A p \in DOMAIN pool : [pool[p] EXCEPT !.stale = @ \cup (K \cap PageSectors(p))] = pool[p]
    <3> SUFFICES ASSUME NEW p \in DOMAIN pool
                 PROVE  [pool[p] EXCEPT !.stale = @ \cup (K \cap PageSectors(p))] = pool[p]
      OBVIOUS
    <3>1. /\ pool[p] \in [offset : Nat, count : Nat, bitmap : SUBSET (0 .. PageSize - 1),
                          stale : SUBSET PageSectors(p)]
          /\ pool[p].stale \cup (K \cap PageSectors(p)) = pool[p].stale
      BY <1>2, <2>1 DEF PoolType, BuffOK
    <3> QED
      BY <3>1
  <2>3. pool' = [p \in DOMAIN pool |-> pool[p]]
    BY <1>5, <2>2
  <2> QED
    BY <1>2, <2>3 DEF PoolType
<1>7. DirtyPages' = DirtyPages /\ Counted' = Counted
  BY <1>2, <1>6 DEF DirtyPages, Counted
<1>8. /\ job' = NoJob \/ StreamOK(job')
      /\ errors' = errors \/ errors' = errors + 1
      /\ failed' \in SUBSET Sectors /\ stale' \in [0 .. 1 -> SUBSET Sectors]
      /\ stale'[0] \subseteq stale[0] \cup K /\ stale'[1] \subseteq stale[1] \cup K
      /\ \A s \in K : s \in failed' \/ s \notin stale'[0] \cup stale'[1]
      /\ \A s : s \notin K => (s \in failed' <=> s \in failed)
  <2>1. K \in SUBSET Sectors /\ failed \in SUBSET Sectors
        /\ stale[0] \in SUBSET Sectors /\ stale[1] \in SUBSET Sectors
    BY <1>2, <1>3 DEF PoolType
  <2>2. CASE WriteBoth(K, {}) /\ Advance(job, n)
    <3>1. /\ errors' = errors /\ failed' = failed \ K
          /\ stale' = [c \in 0 .. 1 |-> stale[c] \ K]
      BY <2>2 DEF WriteBoth, Works, Copied
    <3>2. job' = NoJob \/ StreamOK(job')
      BY <1>2, <1>3, <2>2, RestOK
    <3>3. /\ stale'[0] = stale[0] \ K /\ stale'[1] = stale[1] \ K
          /\ stale' \in [0 .. 1 -> SUBSET Sectors]
      BY <1>2, <2>1, <3>1 DEF PoolType
    <3> QED
      BY <2>1, <3>1, <3>2, <3>3
  <2>3. CASE WriteBothFails(K, {}) /\ job' = NoJob
    <3>1. PICK written \in {{}, {0}} :
             stale' = [c \in 0 .. 1 |-> IF c \in written THEN Copied(c, K, {}) ELSE stale[c] \cup K]
      BY <2>3 DEF WriteBothFails
    <3>2. errors' = errors + 1 /\ failed' = failed \cup K
      BY <2>3 DEF WriteBothFails, Fails
    <3>3. /\ stale'[0] \subseteq stale[0] \cup K /\ stale'[1] \subseteq stale[1] \cup K
          /\ stale' \in [0 .. 1 -> SUBSET Sectors]
      BY <1>2, <2>1, <3>1 DEF PoolType, Copied
    <3> QED
      BY <2>1, <2>3, <3>2, <3>3
  <2> QED
    BY <1>5, <2>2, <2>3
<1>9. PoolOverDiskIsTheFat'
  <2> SUFFICES ASSUME NEW s \in Sectors \ failed'
               PROVE  IF Mapped(s)
                      THEN /\ s \notin pool[PageOf(s)].stale
                           /\ (s - PageOf(s)) \notin pool[PageOf(s)].bitmap
                                 => s \notin (stale'[0] \cup stale'[1])
                      ELSE s \notin (stale'[0] \cup stale'[1])
    BY <1>6 DEF PoolOverDiskIsTheFat, Mapped
  <2>1. CASE s \in K
    BY <1>3, <1>8, <2>1
  <2>2. CASE s \notin K
    <3>1. s \in Sectors \ failed
      BY <1>8, <2>2
    <3> QED
      BY <1>8, <2>2, <3>1 DEF PoolInv, PoolOverDiskIsTheFat
  <2> QED
    BY <2>1, <2>2
<1>10. PoolType'
  BY <1>2, <1>6, <1>8 DEF PoolType
<1>11. Accounts'
  BY <1>2, <1>7, <1>8 DEF Accounts, PoolType
<1>12. NoneBehind' /\ ReadersGetTheLatest'
  BY <1>2, <1>8 DEF NoneBehind, StreamOK, NoJob, ReadersGetTheLatest
<1> QED
  BY <1>9, <1>10, <1>11, <1>12 DEF PoolInv

-----------------------------------------------------------------------------
(* A page is written *)

\* One run of the page being written goes to the disk, or fails to.
LEMMA RunWritten ==
    ASSUME PoolInv, WriteRun
    PROVE  /\ out \in DOMAIN pool /\ DOMAIN pool' = DOMAIN pool
           /\ pool' = [q \in DOMAIN pool' |-> pool'[q]]
           /\ \A q \in DOMAIN pool : BuffOK(q, pool'[q]) /\ (q # out => pool'[q] = pool[q])
           /\ failed' \in SUBSET Sectors /\ stale' \in [0 .. 1 -> SUBSET Sectors]
           /\ PoolOverDiskIsTheFat'
<1>1. PoolType /\ out \in DOMAIN pool /\ pool[out].count > 0
  BY DEF WriteRun, PoolInv, PoolType
<1>2. PICK b : b = pool[out]
  OBVIOUS
<1>3. PICK R : R = Run(b.offset, FirstRun(b))
  OBVIOUS
<1>4. PICK K : K = Run(out + b.offset, FirstRun(b))
  OBVIOUS
<1>5. BuffOK(out, b) /\ b.count > 0 /\ out \in Pages /\ out \in Nat
  BY <1>1, <1>2, InPage DEF PoolType
<1>6. /\ FirstRun(b) \in Nat /\ R \subseteq b.bitmap
      /\ BuffOK(out, AfterRun(b)) /\ AfterRun(b).stale = b.stale
      /\ AfterRun(b).bitmap = b.bitmap \ R
  BY <1>3, <1>5, AfterRunOK
<1>7. b.offset \in Nat /\ b.bitmap \in SUBSET (0 .. PageSize - 1)
      /\ \A i \in b.bitmap : out + i \in Sectors
  BY <1>5 DEF BuffOK
<1>8. \A i \in Nat : i \in R <=> out + i \in K
  BY <1>3, <1>4, <1>5, <1>6, <1>7 DEF Run
<1>9. ASSUME NEW s \in K PROVE s \in Sectors /\ PageOf(s) = out /\ s - out \in R
  <2>1. s \in out + b.offset .. (out + b.offset) + FirstRun(b) - 1
    BY <1>4 DEF Run
  <2>2. s - out \in Nat /\ s = out + (s - out)
    BY <1>5, <1>6, <1>7, <2>1
  <2>3. s - out \in R
    BY <1>8, <2>2
  <2>4. s \in Sectors /\ s - out \in 0 .. PageSize - 1
    BY <1>6, <1>7, <2>2, <2>3
  <2>5. PageOf(s) = out
    <3>1. \A i \in 0 .. PageSize - 1 : out + i \in Sectors => PageOf(out + i) = out
      BY <1>5, InPage
    <3> QED
      BY <2>2, <2>4, <3>1
  <2> QED
    BY <2>3, <2>4, <2>5
<1>10. K \in SUBSET Sectors
  BY <1>9
<1>11. pool' = [pool EXCEPT ![out] = AfterRun(b)]
       /\ (WriteBoth(K, K \cap b.stale) \/ WriteBothFails(K, K \cap b.stale))
  BY <1>2, <1>4, Zenon DEF WriteRun
<1>12. /\ DOMAIN pool' = DOMAIN pool /\ pool'[out] = AfterRun(b)
       /\ \A q \in DOMAIN pool : q # out => pool'[q] = pool[q]
       /\ pool' = [q \in DOMAIN pool' |-> pool'[q]]
  BY <1>1, <1>11 DEF PoolType
<1>13. \A q \in DOMAIN pool : BuffOK(q, pool'[q]) /\ (q # out => pool'[q] = pool[q])
  BY <1>1, <1>6, <1>12 DEF PoolType
<1>14. /\ failed' \in SUBSET Sectors /\ stale' \in [0 .. 1 -> SUBSET Sectors]
       /\ \A s : s \notin K => /\ s \in failed' <=> s \in failed
                               /\ s \notin stale[0] \cup stale[1] => s \notin stale'[0] \cup stale'[1]
       /\ \A s \in K : s \notin failed' => s \notin failed \/ s \notin b.stale
       /\ \A s \in K : s \notin failed' /\ s \notin b.stale => s \notin stale'[0] \cup stale'[1]
  <2>1. failed \in SUBSET Sectors /\ stale[0] \in SUBSET Sectors /\ stale[1] \in SUBSET Sectors
        /\ stale \in [0 .. 1 -> SUBSET Sectors]
    BY <1>1 DEF PoolType
  <2>2. CASE WriteBoth(K, K \cap b.stale)
    <3>1. /\ failed' = failed \ (K \ (K \cap b.stale))
          /\ stale' = [c \in 0 .. 1 |-> (stale[c] \ K) \cup (K \cap b.stale)]
      BY <2>2 DEF WriteBoth, Copied
    <3>2. /\ stale'[0] = (stale[0] \ K) \cup (K \cap b.stale)
          /\ stale'[1] = (stale[1] \ K) \cup (K \cap b.stale)
          /\ stale' \in [0 .. 1 -> SUBSET Sectors]
      BY <1>10, <2>1, <3>1
    <3> QED
      BY <2>1, <3>1, <3>2
  <2>3. CASE WriteBothFails(K, K \cap b.stale)
    <3>1. PICK written \in {{}, {0}} :
             stale' = [c \in 0 .. 1 |-> IF c \in written THEN Copied(c, K, K \cap b.stale)
                                        ELSE stale[c] \cup K]
      BY <2>3 DEF WriteBothFails
    <3>2. failed' = failed \cup K
      BY <2>3 DEF WriteBothFails
    <3>3. /\ stale'[0] \subseteq stale[0] \cup K /\ stale'[1] \subseteq stale[1] \cup K
          /\ stale' \in [0 .. 1 -> SUBSET Sectors]
      BY <1>10, <2>1, <3>1 DEF Copied
    <3> QED
      BY <1>10, <2>1, <3>2, <3>3
  <2> QED
    BY <1>11, <2>2, <2>3
<1>15. ASSUME NEW s \in Sectors \ failed'
       PROVE  IF PageOf(s) \in DOMAIN pool
              THEN /\ s \notin pool'[PageOf(s)].stale
                   /\ (s - PageOf(s)) \notin pool'[PageOf(s)].bitmap
                         => s \notin (stale'[0] \cup stale'[1])
              ELSE s \notin (stale'[0] \cup stale'[1])
  <2>1. CASE s \in K
    <3>1. PageOf(s) = out
      BY <1>9, <2>1
    <3>2. s \notin b.stale
      <4>1. s \notin failed => s \notin b.stale
        BY <1>1, <1>2, <3>1 DEF PoolInv, PoolOverDiskIsTheFat, Mapped
      <4> QED
        BY <1>14, <2>1, <4>1
    <3> QED
      BY <1>1, <1>6, <1>12, <1>14, <2>1, <3>1, <3>2
  <2>2. CASE s \notin K /\ PageOf(s) = out
    <3>1. s \in Sectors \ failed
      BY <1>14, <2>2
    <3>2. s - out \notin R
      <4>1. s \in PageSectors(out)
        BY <2>2 DEF PageSectors
      <4>2. s - out \in 0 .. PageSize - 1 /\ s \in Nat
        BY <1>5, <4>1, InPage DEF Sectors
      <4>3. s - out \in Nat /\ s = out + (s - out)
        BY <1>5, <4>2
      <4> QED
        BY <1>8, <2>2, <4>3
    <3>3. s \notin b.stale /\ (s - out \notin b.bitmap => s \notin stale[0] \cup stale[1])
      BY <1>1, <1>2, <2>2, <3>1 DEF PoolInv, PoolOverDiskIsTheFat, Mapped
    <3> QED
      BY <1>1, <1>6, <1>12, <1>14, <2>2, <3>2, <3>3
  <2>3. CASE s \notin K /\ PageOf(s) # out
    <3>1. s \in Sectors \ failed
      BY <1>14, <2>3
    <3>2. IF PageOf(s) \in DOMAIN pool
          THEN /\ s \notin pool[PageOf(s)].stale
               /\ (s - PageOf(s)) \notin pool[PageOf(s)].bitmap
                     => s \notin (stale[0] \cup stale[1])
          ELSE s \notin (stale[0] \cup stale[1])
      BY <3>1 DEF PoolInv, PoolOverDiskIsTheFat, Mapped
    <3> QED
      BY <1>12, <1>14, <2>3, <3>2
  <2> QED
    BY <2>1, <2>2, <2>3
<1>16. PoolOverDiskIsTheFat'
  BY <1>12, <1>15 DEF PoolOverDiskIsTheFat, Mapped
<1> QED
  BY <1>1, <1>12, <1>13, <1>14, <1>16

LEMMA KeepsWriteRun == PoolInv /\ WriteRun => PoolInv'
<1> SUFFICES ASSUME PoolInv, WriteRun PROVE PoolInv'
  OBVIOUS
<1>1. /\ out \in DOMAIN pool /\ DOMAIN pool' = DOMAIN pool
      /\ pool' = [q \in DOMAIN pool' |-> pool'[q]]
      /\ \A q \in DOMAIN pool : BuffOK(q, pool'[q]) /\ (q # out => pool'[q] = pool[q])
      /\ failed' \in SUBSET Sectors /\ stale' \in [0 .. 1 -> SUBSET Sectors]
      /\ PoolOverDiskIsTheFat'
  BY RunWritten
<1>2. /\ PoolType /\ Accounts /\ NoneBehind /\ pool[out].count > 0 /\ handed' = {}
      /\ UNCHANGED <<older, numDirty, fatDirty>>
  BY DEF WriteRun, PoolInv
<1>3. \/ /\ errors' = errors /\ UNCHANGED <<job, out, result>>
      \/ /\ errors' = errors + 1 /\ job' = NoJob /\ out' = NoPage
         /\ result' = "error" \/ result' = result
  BY Zenon DEF WriteRun, WriteBoth, WriteBothFails, Works, Fails
<1>4. IsFiniteSet(Counted) /\ Cardinality(Counted) \in Nat /\ NoPage \notin DOMAIN pool
  BY <1>2, CountedFinite
<1>5. out \in Counted /\ DirtyPages' \subseteq DirtyPages
  BY <1>1, <1>2 DEF Counted, DirtyPages
<1>6. result # "complete" /\ result' # "complete"
  BY <1>2, <1>3, <1>5 DEF Accounts
<1>7. ReadersGetTheLatest'
  BY <1>2 DEF ReadersGetTheLatest
<1>8. CASE errors' = errors /\ UNCHANGED <<job, out, result>>
  <2>1. Counted' = Counted
    <3>1. \A q \in DOMAIN pool : q # out => pool'[q].count = pool[q].count
      BY <1>1
    <3> QED
      BY <1>1, <1>5, <1>8, <3>1 DEF Counted
  <2>2. PoolType'
    BY <1>1, <1>2, <1>8 DEF PoolType
  <2>3. Accounts'
    BY <1>2, <1>5, <1>6, <1>8, <2>1 DEF Accounts
  <2>4. NoneBehind'
    BY <1>2, <1>5, <1>8 DEF NoneBehind
  <2> QED
    BY <1>1, <1>7, <2>2, <2>3, <2>4 DEF PoolInv
<1>9. CASE errors' = errors + 1 /\ job' = NoJob /\ out' = NoPage
  <2>1. Counted' \subseteq Counted
    BY <1>1, <1>2, <1>4, <1>9 DEF Counted
  <2>2. Cardinality(Counted') <= Cardinality(Counted) /\ Cardinality(Counted') \in Nat
    BY <1>4, <2>1, FS_Subset, FS_CardinalityType
  <2>3. PoolType'
    BY <1>1, <1>2, <1>9 DEF PoolType
  <2>4. Accounts'
    <3>1. numDirty' >= Cardinality(Counted') /\ errors' # 0
      BY <1>2, <1>4, <1>9, <2>2 DEF Accounts, PoolType
    <3>2. DirtyPages' # {} => fatDirty'
      BY <1>2, <1>5 DEF Accounts
    <3> QED
      BY <1>6, <3>1, <3>2 DEF Accounts
  <2>5. NoneBehind'
    BY <1>9 DEF NoneBehind, NoJob
  <2> QED
    BY <1>1, <1>7, <2>3, <2>4, <2>5 DEF PoolInv
<1> QED
  BY <1>3, <1>8, <1>9

-----------------------------------------------------------------------------
(* The flush and the calls *)

LEMMA KeepsFlushStart ==
    ASSUME NEW max \in Nat, PoolInv, FlushStart(max)
    PROVE  PoolInv'
<1>1. /\ PoolType /\ Accounts /\ NoneBehind /\ job = NoJob /\ out = NoPage
      /\ UNCHANGED <<poolVars, out, errors, handed, failed>>
      /\ IF fatDirty
         THEN /\ job' = [kind |-> "flush", max |-> max, flushed |-> 0, at |-> 0]
              /\ result' = "none"
         ELSE result' = "complete" /\ job' = job
  BY DEF FlushStart, PoolInv, NoneBehind
<1>2. PoolOverDiskIsTheFat' /\ ReadersGetTheLatest' /\ DirtyPages' = DirtyPages
  BY <1>1, SameDisk DEF poolVars
<1>3. Counted' = Counted /\ Counted = DirtyPages
  BY <1>1, CountedFinite DEF Counted, poolVars
<1>4. CASE fatDirty
  <2>1. FlushOK(job') /\ job'.kind = "flush" /\ job'.at = 0 /\ job' # NoJob
    BY <1>1, <1>4 DEF FlushOK, NoJob
  <2>2. PoolType'
    BY <1>1, <2>1 DEF PoolType, poolVars
  <2>3. Accounts'
    BY <1>1, <1>2, <1>3, <1>4 DEF Accounts, poolVars
  <2>4. NoneBehind'
    <3>1. \A p \in DirtyPages : p >= 0
      BY <1>1, InPage DEF DirtyPages, PoolType
    <3> QED
      BY <1>1, <1>2, <2>1, <3>1 DEF NoneBehind
  <2> QED
    BY <1>2, <2>2, <2>3, <2>4 DEF PoolInv
<1>5. CASE ~fatDirty
  <2>1. DirtyPages = {}
    BY <1>1, <1>5 DEF Accounts
  <2>2. PoolType'
    BY <1>1, <1>5 DEF PoolType, poolVars
  <2>3. Accounts'
    BY <1>1, <1>2, <1>3, <1>5, <2>1 DEF Accounts, poolVars
  <2>4. NoneBehind'
    BY <1>1, <1>5 DEF NoneBehind, NoJob
  <2> QED
    BY <1>2, <2>2, <2>3, <2>4 DEF PoolInv
<1> QED
  BY <1>4, <1>5

LEMMA KeepsFlushPage == PoolInv /\ FlushPage => PoolInv'
<1> SUFFICES ASSUME PoolInv, FlushPage PROVE PoolInv'
  OBVIOUS
<1>1. /\ PoolType /\ Accounts /\ NoneBehind /\ job.kind = "flush" /\ out = NoPage
      /\ DirtyAhead # {} /\ out' = Min(DirtyAhead)
      /\ UNCHANGED <<poolVars, job, errors, handed, failed, result>>
  BY DEF FlushPage, Flushing, PoolInv
<1>2. PoolOverDiskIsTheFat' /\ ReadersGetTheLatest' /\ DirtyPages' = DirtyPages
  BY <1>1, SameDisk DEF poolVars
<1>3. DirtyAhead \in SUBSET Nat /\ DirtyAhead \subseteq DirtyPages
      /\ DirtyPages \subseteq DOMAIN pool
  BY <1>1, InPage DEF DirtyAhead, DirtyPages, PoolType
<1>4. out' \in DirtyAhead /\ \A p \in DirtyAhead : out' <= p
  BY <1>1, <1>3, MinIs
<1>5. DirtyAhead = DirtyPages
  BY <1>1 DEF DirtyAhead, NoneBehind
<1>6. Counted' = Counted
  <2>1. NoPage \notin DOMAIN pool
    BY <1>1, CountedFinite
  <2> QED
    BY <1>1, <1>3, <1>4, <2>1 DEF Counted, DirtyPages, poolVars
<1>7. PoolType'
  BY <1>1, <1>3, <1>4 DEF PoolType, poolVars
<1>8. Accounts'
  BY <1>1, <1>2, <1>6 DEF Accounts, poolVars
<1>9. NoneBehind'
  <2>1. out' # NoPage /\ out' \in Nat
    BY <1>3, <1>4 DEF NoPage
  <2>2. \A p \in DirtyPages : p >= out'
    BY <1>3, <1>4, <1>5, <2>1
  <2>3. job # NoJob
    BY <1>1 DEF NoJob
  <2> QED
    BY <1>1, <1>2, <2>1, <2>2, <2>3 DEF NoneBehind
<1> QED
  BY <1>2, <1>7, <1>8, <1>9 DEF PoolInv

LEMMA KeepsFlushedPage == PoolInv /\ FlushedPage => PoolInv'
<1> SUFFICES ASSUME PoolInv, FlushedPage PROVE PoolInv'
  OBVIOUS
<1>1. /\ PoolType /\ Accounts /\ NoneBehind /\ job.kind = "flush" /\ out \in DOMAIN pool
      /\ out # NoPage /\ pool[out].count = 0 /\ pool' = [pool EXCEPT ![out] = Zeroed(@)]
      /\ numDirty' = numDirty - 1 /\ out' = NoPage
      /\ job' = [job EXCEPT !.flushed = @ + 1, !.at = out + PageSize]
      /\ UNCHANGED <<older, fatDirty, stale, errors, handed, failed, result>>
  BY DEF FlushedPage, PoolInv, PoolType
<1>2. IsFiniteSet(Counted) /\ Cardinality(Counted) \in Nat /\ NoPage \notin DOMAIN pool
      /\ out \in Pages /\ out \in Nat /\ PageSize \in Nat
  BY <1>1, CountedFinite, InPage, FatGeometry DEF PoolType
<1>3. BuffOK(out, pool[out]) /\ pool[out].bitmap = {} /\ pool[out].stale \in SUBSET PageSectors(out)
  BY <1>1, BitmapFinite DEF PoolType, BuffOK
<1>4. /\ BuffOK(out, Zeroed(pool[out])) /\ Zeroed(pool[out]).count = 0
      /\ Zeroed(pool[out]).bitmap = {} /\ Zeroed(pool[out]).stale = pool[out].stale
  BY <1>3, CleanOK DEF Zeroed
<1>5. /\ DOMAIN pool' = DOMAIN pool /\ pool' = [q \in DOMAIN pool' |-> pool'[q]]
      /\ \A q \in DOMAIN pool : /\ BuffOK(q, pool'[q]) /\ pool'[q].count = pool[q].count
                                /\ pool'[q].bitmap = pool[q].bitmap
                                /\ pool'[q].stale = pool[q].stale
  <2>1. /\ DOMAIN pool' = DOMAIN pool /\ pool'[out] = Zeroed(pool[out])
        /\ \A q \in DOMAIN pool : q # out => pool'[q] = pool[q]
        /\ pool' = [q \in DOMAIN pool' |-> pool'[q]]
    BY <1>1 DEF PoolType
  <2> QED
    BY <1>1, <1>3, <1>4, <2>1 DEF PoolType
<1>6. DirtyPages' = DirtyPages /\ out \notin DirtyPages
  BY <1>1, <1>5 DEF DirtyPages
<1>7. out \in Counted /\ Counted' = Counted \ {out} /\ Counted' = DirtyPages
  BY <1>1, <1>2, <1>5, <1>6 DEF Counted, DirtyPages
<1>8. Cardinality(Counted') = Cardinality(Counted) - 1 /\ Cardinality(Counted) >= 1
  BY <1>2, <1>7, FS_RemoveElement, FS_EmptySet
<1>9. FlushOK(job') /\ job'.kind = "flush" /\ job'.at = out + PageSize /\ job' # NoJob
  <2>1. FlushOK(job)
    BY <1>1 DEF PoolType, StreamOK, NoJob
  <2>2. PICK x \in Nat, y \in Nat : x = job.flushed + 1 /\ y = out + PageSize
    BY <1>2, <2>1 DEF FlushOK
  <2>3. job' = [job EXCEPT !.flushed = x, !.at = y]
    BY <1>1, <2>2
  <2>4. job' \in [kind : {"flush"}, max : Nat, flushed : Nat, at : Nat]
        /\ job'.kind = "flush" /\ job'.at = y
    BY <2>1, <2>3 DEF FlushOK
  <2>5. job' # NoJob
    BY <2>4 DEF NoJob
  <2> QED
    BY <2>2, <2>4, <2>5 DEF FlushOK
<1>10. PoolType'
  <2>1. numDirty' \in Nat
    BY <1>1, <1>2, <1>8 DEF PoolType, Accounts
  <2> QED
    BY <1>1, <1>5, <1>9, <2>1 DEF PoolType
<1>11. Accounts'
  <2>1. numDirty' >= Cardinality(Counted') /\ (errors' = 0 => numDirty' = Cardinality(Counted'))
    BY <1>1, <1>2, <1>8 DEF PoolType, Accounts
  <2>2. (DirtyPages' # {} => fatDirty') /\ (result' = "complete" => Counted' = {})
    BY <1>1, <1>6, <1>7 DEF Accounts
  <2> QED
    BY <2>1, <2>2 DEF Accounts
<1>12. NoneBehind'
  <2>1. ASSUME NEW p \in DirtyPages PROVE p >= out + PageSize
    <3>1. p \in Pages /\ p \in Nat /\ p # out
      BY <1>1, <1>6, InPage DEF DirtyPages, PoolType
    <3>2. p >= out
      BY <1>1 DEF NoneBehind
    <3>3. out < p
      BY <1>2, <3>1, <3>2
    <3>4. out + PageSize <= p
      BY <1>2, <3>1, <3>3, InPage
    <3> QED
      BY <1>2, <3>1, <3>4
  <2> QED
    BY <1>1, <1>6, <1>9, <2>1 DEF NoneBehind
<1>13. PoolOverDiskIsTheFat'
  BY <1>1, <1>5, PagesApart DEF PoolInv, PoolOverDiskIsTheFat, Mapped
<1>14. ReadersGetTheLatest'
  BY <1>1 DEF PoolInv, ReadersGetTheLatest
<1> QED
  BY <1>10, <1>11, <1>12, <1>13, <1>14 DEF PoolInv

LEMMA KeepsFlushPassEnds == PoolInv /\ FlushPassEnds => PoolInv'
<1> SUFFICES ASSUME PoolInv, FlushPassEnds PROVE PoolInv'
  OBVIOUS
<1>1. /\ PoolType /\ Accounts /\ out = NoPage /\ job' = NoJob /\ result' = "continue"
      /\ UNCHANGED <<poolVars, out, errors, handed, failed>>
  BY DEF FlushPassEnds, Flushing, PoolInv
<1>2. PoolOverDiskIsTheFat' /\ ReadersGetTheLatest' /\ DirtyPages' = DirtyPages
  BY <1>1, SameDisk DEF poolVars
<1>3. Counted' = Counted
  BY <1>1 DEF Counted, poolVars
<1>4. PoolType' /\ Accounts' /\ NoneBehind'
  BY <1>1, <1>2, <1>3 DEF PoolType, Accounts, NoneBehind, NoJob, poolVars
<1> QED
  BY <1>2, <1>4 DEF PoolInv

LEMMA KeepsFlushEnds == PoolInv /\ FlushEnds => PoolInv'
<1> SUFFICES ASSUME PoolInv, FlushEnds PROVE PoolInv'
  OBVIOUS
<1>1. /\ PoolType /\ Accounts /\ NoneBehind /\ job.kind = "flush" /\ out = NoPage
      /\ DirtyAhead = {} /\ fatDirty' = FALSE /\ job' = NoJob
      /\ errors' = errors \/ errors' = errors + 1
      /\ UNCHANGED <<pool, older, numDirty, stale, out, handed, failed>>
  BY DEF FlushEnds, Flushing, Works, Fails, PoolInv
<1>2. PoolOverDiskIsTheFat' /\ ReadersGetTheLatest' /\ DirtyPages' = DirtyPages
  BY <1>1, SameDisk
<1>3. DirtyPages = {}
  BY <1>1 DEF NoneBehind, DirtyAhead
<1>4. Counted' = Counted /\ Counted = {}
  BY <1>1, <1>3, CountedFinite DEF Counted
<1>5. PoolType' /\ NoneBehind'
  <2>1. fatDirty' \in BOOLEAN /\ errors' \in Nat
    <3>1. errors \in Nat
      BY <1>1 DEF PoolType
    <3>2. errors' \in Nat
      BY <1>1, <3>1
    <3> QED
      BY <1>1, <3>2
  <2>2. NoneBehind'
    BY <1>1 DEF NoneBehind, NoJob
  <2> QED
    BY <1>1, <2>1, <2>2 DEF PoolType
<1>6. Accounts'
  BY <1>1, <1>2, <1>3, <1>4 DEF Accounts, PoolType
<1> QED
  BY <1>2, <1>5, <1>6 DEF PoolInv

\* Any call that only takes the drive.
LEMMA KeepsStart ==
    ASSUME PoolInv, job = NoJob, StreamOK(job'),
           UNCHANGED <<pool, older, numDirty, stale, out, errors, handed, failed>>,
           fatDirty' = fatDirty \/ fatDirty' = TRUE, result' = result \/ result' = "none"
    PROVE  PoolInv'
<1>1. PoolOverDiskIsTheFat' /\ ReadersGetTheLatest' /\ DirtyPages' = DirtyPages
  BY SameDisk
<1>2. Counted' = Counted
  BY DEF Counted
<1>3. PoolType' /\ Accounts' /\ NoneBehind'
  <2>1. PoolType /\ Accounts /\ NoneBehind
    BY DEF PoolInv
  <2>2. job'.kind # "flush" /\ job' # NoJob
    BY DEF StreamOK, NoJob
  <2>3. PoolType'
    BY <2>1 DEF PoolType
  <2>4. Accounts'
    BY <1>1, <1>2, <2>1 DEF Accounts
  <2> QED
    BY <2>2, <2>3, <2>4 DEF NoneBehind
<1> QED
  BY <1>1, <1>3 DEF PoolInv

LEMMA KeepsCall == PoolInv /\ Call => PoolInv'
<1> SUFFICES ASSUME PoolInv, Call PROVE PoolInv'
  OBVIOUS
<1>1. \A f \in Frags : /\ f[1] \in Nat /\ f[1] >= 2 /\ f[2] \in Nat \ {0}
                       /\ f[1] + f[2] <= SecPerFat * PerSector
                       /\ f[1] + 1 <= SecPerFat * PerSector
  <2> SUFFICES ASSUME NEW f \in Frags
               PROVE  /\ f[1] \in Nat /\ f[1] >= 2 /\ f[2] \in Nat \ {0}
                      /\ f[1] + f[2] <= SecPerFat * PerSector
                      /\ f[1] + 1 <= SecPerFat * PerSector
    OBVIOUS
  <2>1. PICK e \in Int : e = SecPerFat * PerSector
    BY FatGeometry, Product
  <2>2. f[1] \in 2 .. e - 1 /\ f[2] \in Nat \ {0} /\ f[1] + f[2] <= e
    BY <2>1, FatGeometry
  <2> QED
    BY <2>1, <2>2
<1>2. AltSize \in Nat
  BY FatGeometry
<1>3. ASSUME NEW f \in Frags, NEW alt \in {0, AltSize}, NEW kind \in {"read", "write"},
             StreamStart(kind, f, alt)
      PROVE  PoolInv'
  <2>1. job' = [kind |-> kind, start |-> f[1], n |-> f[2], alt |-> alt]
    BY <1>3 DEF StreamStart
  <2>2. StreamOK(job')
    BY <1>1, <1>2, <2>1 DEF StreamOK
  <2> QED
    BY <1>3, <2>2, KeepsStart DEF StreamStart, poolVars
<1>4. ASSUME NEW f \in Frags, PutStart(f[1]) PROVE PoolInv'
  <2>1. job' = [kind |-> "write", start |-> f[1], n |-> 1, alt |-> 0]
    BY <1>4 DEF PutStart
  <2>2. StreamOK(job')
    BY <1>1, <2>1 DEF StreamOK
  <2> QED
    BY <1>4, <2>2, KeepsStart DEF PutStart
<1>5. ASSUME NEW max \in {0, 1}, FlushStart(max) PROVE PoolInv'
  BY <1>5, KeepsFlushStart
<1> QED
  BY <1>3, <1>4, <1>5 DEF Call

LEMMA NextInv == PoolInv /\ [Next]_vars => PoolInv'
<1>1. PoolInv /\ Step => PoolInv'
  BY KeepsMapHit, KeepsMapLoad, KeepsMapLoadFails, KeepsSwapOut, KeepsSwappedOut, KeepsAltRead,
     KeepsAltWrite, KeepsWriteRun, KeepsFlushPage, KeepsFlushedPage, KeepsFlushPassEnds,
     KeepsFlushEnds DEF Step
<1>2. PoolInv /\ UNCHANGED vars => PoolInv'
  BY DEF vars, poolVars, PoolInv, PoolType, NoneBehind, Accounts, PoolOverDiskIsTheFat,
         ReadersGetTheLatest, Mapped, DirtyPages, Counted
<1> QED
  BY <1>1, <1>2, KeepsCall DEF Next

-----------------------------------------------------------------------------
(* The theorems *)

\* What the pool and the call in progress rely on holds in every state.
THEOREM PoolAlwaysFits == Spec => []PoolInv
  BY InitInv, NextInv, PTL DEF Spec

\* Whatever streams, single writes, swaps, flushes and failed transfers went before, the
\* pool over the disk is the FAT (rtfblockrd.c, rtfblockwr.c).
THEOREM PoolIsTheFat == Spec => []PoolOverDiskIsTheFat
<1>1. PoolInv => PoolOverDiskIsTheFat
  BY DEF PoolInv
<1> QED
  BY <1>1, PoolAlwaysFits, PTL

\* A reader of the FAT, through the pool or around it, never gets an old sector.
THEOREM ReadersNeverGetOld == Spec => []ReadersGetTheLatest
<1>1. PoolInv => ReadersGetTheLatest
  BY DEF PoolInv
<1> QED
  BY <1>1, PoolAlwaysFits, PTL

\* When a flush says it is complete, both FATs hold all that was written, failures aside.
THEOREM CompleteIsWritten == Spec => []CompleteMeansWritten
<1>1. PoolInv => CompleteMeansWritten
  BY NothingCounted DEF PoolInv, Accounts, CompleteMeansWritten
<1> QED
  BY <1>1, PoolAlwaysFits, PTL

\* The counts by which the flush and the swap find dirty sectors and pages are right.
THEOREM DirtyIsCounted == Spec => []DirtyIsAccounted
<1>1. PoolInv => DirtyIsAccounted
  <2> SUFFICES ASSUME PoolInv PROVE DirtyIsAccounted
    OBVIOUS
  <2>1. PoolType /\ Accounts
    BY DEF PoolInv
  <2>2. ASSUME NEW p \in DirtyPages
        PROVE  pool[p].count = Cardinality(pool[p].bitmap) /\ pool[p].offset = Min(pool[p].bitmap)
    <3>1. BuffOK(p, pool[p]) /\ pool[p].count > 0
      BY <2>1 DEF DirtyPages, PoolType
    <3>2. /\ pool[p].bitmap \in SUBSET Nat /\ pool[p].bitmap # {}
          /\ pool[p].offset \in pool[p].bitmap /\ \A i \in pool[p].bitmap : pool[p].offset <= i
          /\ pool[p].count = Cardinality(pool[p].bitmap)
      BY <3>1, BitmapFinite DEF BuffOK
    <3>3. Min(pool[p].bitmap) \in pool[p].bitmap
          /\ \A i \in pool[p].bitmap : Min(pool[p].bitmap) <= i
      BY <3>2, MinIs
    <3> QED
      BY <3>2, <3>3
  <2>3. /\ IsFiniteSet(Counted) /\ Cardinality(Counted) \in Nat
        /\ DirtyPages \subseteq Counted /\ (out = NoPage => Counted = DirtyPages)
    BY <2>1, CountedFinite
  <2>4. Cardinality(DirtyPages) <= Cardinality(Counted) /\ Cardinality(DirtyPages) \in Nat
    BY <2>3, FS_Subset, FS_CardinalityType
  <2>5. numDirty >= Cardinality(DirtyPages)
    BY <2>1, <2>3, <2>4 DEF Accounts, PoolType
  <2> QED
    BY <2>1, <2>2, <2>3, <2>5 DEF DirtyIsAccounted, Accounts
<1> QED
  BY <1>1, PoolAlwaysFits, PTL

=============================================================================
