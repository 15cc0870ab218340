-------------------------- MODULE DiskArrayProofs ---------------------------
(***************************************************************************)
(* A disk array implements a transactional array, for any number of arrays *)
(* in the file and any sizes of pages and arrays, as long as a rollback    *)
(* finds new pages of one array only, and of that one no second new PIP.   *)
(* (Otherwise it leaves versions behind or reads a page that is gone,      *)
(* disk_array.cpp:223 and 471.)                                            *)
(***************************************************************************)
EXTENDS DiskArray, InductionLemmas, FiniteSetTheorems, SequenceTheorems

-----------------------------------------------------------------------------
(* The inductive invariant.                                                 *)

\* A page and its cells; a file is pages, and no pages beyond its end.
CellIdxs == 0..(Max({ElementsPerPage, PageIdxsPerPIP}) - 1)
IsPage(g) ==
    /\ g = [next |-> g.next, numElements |-> g.numElements, numAPs |-> g.numAPs,
            cells |-> g.cells]
    /\ g.cells = [i \in CellIdxs |-> g.cells[i]]
    /\ g.next # NullPage - 2
IsFile(file) ==
    /\ file = [p \in PageIdxs |-> file[p]]
    /\ \A p \in PageIdxs : file[p] = NoVersion \/ IsPage(file[p])

\* What the write transaction finds in the pages, and the pages of the PIPs of an array for it
\* and for readers.
Content == ReplayPages(filePages)
NumPIPs(a) == Len(arrays[a].pips) + Len(arrays[a].insertedPIPs)
PIPs(a) == [j \in 1..NumPIPs(a) |-> PIPPage(a, j - 1)]
OldPIPs(a) == [j \in 1..Len(arrays[a].pips) |-> arrays[a].pips[j].page]

\* The page of the AP with index k, and the elements, of an array with these PIPs.
APIn(file, pips, k) == file[pips[1 + k \div PageIdxsPerPIP]].cells[k % PageIdxsPerPIP]
ElementsIn(file, a, pips) ==
    [i \in 1..file[a].numElements |->
        file[APIn(file, pips, (i - 1) \div ElementsPerPage)].cells[(i - 1) % ElementsPerPage]]
APIdxs(file, a) == 0..(file[a].numAPs - 1)

\* The header leads to the PIPs, and there are as many PIPs and APs as the elements need.
IsArrayIn(file, a, pips) ==
    /\ file[a].numElements \in 0..MaxElements
    /\ file[a].numAPs = NumAPsFor(file[a].numElements)
    /\ Len(pips) = NumPIPsFor(file[a].numElements)
    /\ file[a].next = IF Len(pips) = 0 THEN NullPage ELSE pips[1]
    /\ \A j \in 1..Len(pips) :
           file[pips[j]].next = IF j < Len(pips) THEN pips[j + 1] ELSE NullPage

\* The object of an array, and the types of the variables.
IsObject(A) ==
    /\ A = [header |-> A.header, pips |-> A.pips, updatedPIPs |-> A.updatedPIPs,
            insertedPIPs |-> A.insertedPIPs, inMemArrayPages |-> A.inMemArrayPages,
            hasUpdates |-> A.hasUpdates]
    /\ Len(A.pips) \in Nat
    /\ A.pips = [j \in 1..Len(A.pips) |->
                    [page |-> A.pips[j].page, contents |-> A.pips[j].contents]]
    /\ A.updatedPIPs \subseteq 0..(Len(A.pips) - 1)
    /\ A.insertedPIPs \in Seq(PageIdxs)
    /\ A.hasUpdates \in BOOLEAN
    /\ A.inMemArrayPages = [k \in 1..A.header.numAPs |-> A.inMemArrayPages[k]]
TypeInv ==
    /\ arrayPhase \in {"idle", "active", "checkpointing", "rollingBack"}
    /\ todo \subseteq Arrays
    /\ arrayPhase \in {"idle", "active"} => todo = {}
    /\ numFilePages \in NumArrays..MaxPages
    /\ IsFile(walVersion) /\ IsFile(filePages)
    /\ arrays = [a \in Arrays |-> arrays[a]]
    /\ \A a \in Arrays : IsObject(arrays[a])

\* The file ends where the new pages begin, and all of these have versions.
SizesInv ==
    /\ NumPagesOf(filePages) \in NumArrays..numFilePages
    /\ \A p \in PageIdxs :
          /\ filePages[p] # NoVersion <=> p < NumPagesOf(filePages)
          /\ HasVersion(p) => p < numFilePages
          /\ p \in NumPagesOf(filePages)..(numFilePages - 1) => HasVersion(p)

\* For the write transaction, the pages hold arrays, and no page belongs to two of them or
\* twice to one.
AP(a, k) == APIn(Content, PIPs(a), k)
APsOf(a) == APIdxs(Content, a)
OwnPages == NumArrays..(numFilePages - 1)
LayoutInv ==
    \A a \in Arrays :
        /\ IsArrayIn(Content, a, PIPs(a))
        /\ \A j \in 1..NumPIPs(a) : PIPs(a)[j] \in OwnPages
        /\ \A k \in APsOf(a) : AP(a, k) \in OwnPages
SeparateInv ==
    \A a, b \in Arrays :
        /\ \A i \in 1..NumPIPs(a), j \in 1..NumPIPs(b) : PIPs(a)[i] = PIPs(b)[j] => a = b /\ i = j
        /\ \A k \in APsOf(a), l \in APsOf(b) : AP(a, k) = AP(b, l) => a = b /\ k = l
        /\ \A j \in 1..NumPIPs(a), l \in APsOf(b) : PIPs(a)[j] # AP(b, l)

\* Readers have a prefix of it.
PrefixInv ==
    \A a \in Arrays :
        LET old == arrays[a].header
        IN  /\ old.numElements \in 0..Content[a].numElements
            /\ old.numAPs = NumAPsFor(old.numElements)
            /\ Len(arrays[a].pips) = NumPIPsFor(old.numElements)
            /\ \A k \in 0..(old.numAPs - 1) : ReadAPPage(a, k) = AP(a, k)

\* The pages with versions are those that the arrays know of.
Updating == IF arrayPhase = "active" THEN Arrays ELSE todo
Owns(a, p) ==
    \/ p = a
    \/ \E j \in 1..NumPIPs(a) : p = PIPs(a)[j]
    \/ \E k \in APsOf(a) : p = AP(a, k)
VersionsInv ==
    /\ \A p \in PageIdxs : HasVersion(p) => \E a \in Updating : arrays[a].hasUpdates /\ Owns(a, p)
    /\ \A a \in Arrays :
          /\ \A j \in 1..NumPIPs(a) : HasVersion(PIPs(a)[j]) <=> HasPIPUpdates(a, j - 1)
          /\ \A k \in NewAPs(a) : HasVersion(AP(a, k))
          /\ arrays[a].hasUpdates => a \in Updating
          /\ ~arrays[a].hasUpdates => arrays[a].updatedPIPs = {} /\ arrays[a].insertedPIPs = <<>>

\* Memory is what the file holds, until a checkpoint has brought versions to it.
IsCurrent(p) == arrayPhase # "checkpointing" \/ ~HasVersion(p)
MemoryInv ==
    \A a \in Arrays :
        /\ IsCurrent(a) => arrays[a].header = filePages[a]
        /\ \A j \in 1..Len(arrays[a].pips) :
              IsCurrent(OldPIPs(a)[j]) => arrays[a].pips[j].contents = filePages[OldPIPs(a)[j]]
        /\ \A k \in 0..(arrays[a].header.numAPs - 1) :
              IsCurrent(AP(a, k)) => arrays[a].inMemArrayPages[k + 1] = filePages[AP(a, k)].cells
\* Until a checkpoint, the file holds the arrays of readers, and what was added lies beyond its
\* end; during one it holds the arrays of the write transaction.
OldPagesInv ==
    arrayPhase # "checkpointing" =>
        \A a \in Arrays :
            /\ IsArrayIn(filePages, a, OldPIPs(a))
            /\ \A j \in 1..NumPIPs(a) :
                   PIPs(a)[j] < NumPagesOf(filePages) <=> j <= Len(arrays[a].pips)
            /\ \A k \in APsOf(a) :
                   AP(a, k) < NumPagesOf(filePages) <=> k < arrays[a].header.numAPs
CheckpointInv == arrayPhase = "checkpointing" => Content = filePages
\* A rollback finds new pages of one array only, and of that one no second new PIP.
RollbackInv ==
    arrayPhase = "rollingBack" =>
        /\ \A a, b \in Arrays : HasNewPages(a) /\ HasNewPages(b) => a = b
        /\ \A a \in Arrays : Len(arrays[a].insertedPIPs) <= 1

\* Together they are inductive.
IInv ==
    /\ TypeInv
    /\ SizesInv
    /\ LayoutInv
    /\ SeparateInv
    /\ PrefixInv
    /\ VersionsInv
    /\ MemoryInv
    /\ OldPagesInv
    /\ CheckpointInv
    /\ RollbackInv

-----------------------------------------------------------------------------
(* Quotients.                                                               *)

\* The number of pages for n things, d on each.
Ceil(n, d) == (n + d - 1) \div d

\* The constants, and the cells of a page.
LEMMA Constants ==
    /\ NumArrays \in Nat /\ NumArrays > 0
    /\ ElementsPerPage \in Nat /\ ElementsPerPage > 0
    /\ PageIdxsPerPIP \in Nat /\ PageIdxsPerPIP > 0
    /\ MaxElements \in Nat /\ MaxPages \in Nat
    /\ \A a \in Arrays : a \in 0..(NumArrays - 1)
    /\ 0..(ElementsPerPage - 1) \subseteq CellIdxs
    /\ 0..(PageIdxsPerPIP - 1) \subseteq CellIdxs
<1>1. /\ NumArrays \in Nat /\ NumArrays > 0
      /\ ElementsPerPage \in Nat /\ ElementsPerPage > 0
      /\ PageIdxsPerPIP \in Nat /\ PageIdxsPerPIP > 0
      /\ MaxElements \in Nat /\ MaxPages \in Nat
    BY DiskArrayAssumption
<1> DEFINE S == {ElementsPerPage, PageIdxsPerPIP}
           c == CHOOSE x \in S : \A y \in S : x >= y
<1>2. \E x \in S : \A y \in S : x >= y
    BY <1>1
<1>3. c \in S /\ \A y \in S : c >= y
    BY <1>2
<1>4. Max(S) = c
    BY DEF Max
<1> HIDE DEF c
<1>5. c \in Nat /\ c >= ElementsPerPage /\ c >= PageIdxsPerPIP
    BY <1>1, <1>3
<1>6. CellIdxs = 0..(c - 1)
    BY <1>4 DEF CellIdxs
<1> QED BY <1>1, <1>5, <1>6 DEF Arrays

\* Division with remainder.
LEMMA Division ==
    ASSUME NEW n \in Nat, NEW d \in Nat, d > 0
    PROVE  /\ n \div d \in Nat /\ n % d \in 0..(d - 1)
           /\ n = d * (n \div d) + (n % d)
           /\ d * (n \div d) \in Nat
           /\ d * (n \div d) <= n /\ n < d * (n \div d) + d
<1> DEFINE q == n \div d
           r == n % d
<1>1. q \in Nat /\ n = d * q + r /\ r \in 0..(d - 1)
    OBVIOUS
<1> HIDE DEF q, r
<1>2. d * q \in Nat
    BY <1>1
<1>3. d * q <= n /\ n < d * q + d
    BY <1>1, <1>2
<1> QED BY <1>1, <1>2, <1>3 DEF q, r

\* What is less after a multiplication was less before it.
LEMMA Products ==
    ASSUME NEW d \in Nat, d > 0, NEW x \in Int, NEW y \in Int, d * x < d * y
    PROVE  x < y
<1>1. CASE y <= x
    <2>1. x - y \in Nat
        BY <1>1
    <2>2. d * (x - y) \in Nat
        BY <2>1
    <2>3. d * (x - y) = d * x - d * y /\ d * x \in Int /\ d * y \in Int
        OBVIOUS
    <2> QED BY <2>2, <2>3
<1> QED BY <1>1

\* Quotient and remainder are unique.
LEMMA DivisionIs ==
    ASSUME NEW n \in Nat, NEW d \in Nat, d > 0, NEW q \in Nat, NEW r \in 0..(d - 1),
           n = d * q + r
    PROVE  n \div d = q /\ n % d = r
<1> DEFINE p == n \div d
           s == n % d
<1>1. p \in Nat /\ s \in 0..(d - 1) /\ n = d * p + s /\ d * p \in Nat /\ d * q \in Nat
    BY Division
<1>2. d * (p + 1) = d * p + d /\ d * (q + 1) = d * q + d
    BY <1>1
<1> HIDE DEF p, s
<1>3. d * p < d * (q + 1) /\ d * q < d * (p + 1)
    BY <1>1, <1>2
<1>4. p < q + 1 /\ q < p + 1
    BY <1>1, <1>3, Products
<1>5. p = q
    BY <1>1, <1>4
<1>6. s = r
    BY <1>1, <1>5
<1> QED BY <1>5, <1>6 DEF p, s

\* Rounding up.
LEMMA CeilIs ==
    ASSUME NEW n \in Nat, NEW d \in Nat, d > 0
    PROVE  /\ Ceil(n, d) \in Nat
           /\ d * Ceil(n, d) \in Nat
           /\ n <= d * Ceil(n, d) /\ d * Ceil(n, d) < n + d
<1>1. n + d - 1 \in Nat
    OBVIOUS
<1> DEFINE m == n + d - 1
           c == m \div d
<1>2. c \in Nat /\ d * c \in Nat /\ d * c <= m /\ m < d * c + d
    BY <1>1, Division
<1> HIDE DEF c
<1> QED BY <1>2 DEF Ceil, c

\* Multiplication keeps the order.
LEMMA CeilCounts ==
    ASSUME NEW n \in Nat, NEW i \in Nat, NEW d \in Nat, d > 0
    PROVE  i < n <=> d * i < d * n
<1>1. CASE i < n
    <2>1. n - i \in Nat /\ n - i > 0
        BY <1>1
    <2>2. d * (n - i) > 0
        BY <2>1
    <2>3. d * (n - i) = d * n - d * i /\ d * n \in Nat /\ d * i \in Nat
        OBVIOUS
    <2> QED BY <1>1, <2>2, <2>3
<1>2. CASE d * i < d * n
    BY <1>2, Products
<1> QED BY <1>1, <1>2

\* An element lies in one of the pages.
LEMMA CeilIndex ==
    ASSUME NEW n \in Nat, NEW i \in Nat, i < n, NEW d \in Nat, d > 0
    PROVE  i \div d \in Nat /\ i \div d < Ceil(n, d)
<1> DEFINE q == i \div d
           c == Ceil(n, d)
<1>1. q \in Nat /\ d * q \in Nat /\ d * q <= i
    BY Division
<1>2. c \in Nat /\ d * c \in Nat /\ n <= d * c
    BY CeilIs
<1> HIDE DEF q, c
<1>3. d * q < d * c
    BY <1>1, <1>2
<1>4. q < c
    BY <1>1, <1>2, <1>3, CeilCounts
<1> QED BY <1>1, <1>4 DEF q, c

\* More elements need no fewer pages.
LEMMA CeilIsMonotone ==
    ASSUME NEW n \in Nat, NEW m \in Nat, m <= n, NEW d \in Nat, d > 0
    PROVE  Ceil(m, d) <= Ceil(n, d)
<1> DEFINE b == Ceil(m, d)
           c == Ceil(n, d)
<1>1. b \in Nat /\ d * b \in Nat /\ d * b < m + d
    BY CeilIs
<1>2. c \in Nat /\ d * c \in Nat /\ n <= d * c
    BY CeilIs
<1> HIDE DEF b, c
<1>3. d * (c + 1) = d * c + d
    BY <1>2
<1>4. d * b < d * (c + 1)
    BY <1>1, <1>2, <1>3
<1>5. b < c + 1
    BY <1>1, <1>2, <1>4, Products
<1> QED BY <1>1, <1>2, <1>5 DEF b, c

\* One more element: it fits into the pages there are, or is the first of a new one.
LEMMA CeilNext ==
    ASSUME NEW n \in Nat, NEW d \in Nat, d > 0
    PROVE  /\ n \div d <= Ceil(n, d)
           /\ n \div d = Ceil(n, d) => Ceil(n + 1, d) = Ceil(n, d) + 1 /\ n % d = 0
           /\ n \div d < Ceil(n, d) => Ceil(n + 1, d) = Ceil(n, d) /\ n \div d = Ceil(n, d) - 1
<1> DEFINE q == n \div d
           r == n % d
           c == Ceil(n, d)
           e == Ceil(n + 1, d)
<1>1. q \in Nat /\ d * q \in Nat /\ r \in 0..(d - 1) /\ n = d * q + r
    BY Division
<1>2. c \in Nat /\ d * c \in Nat /\ n <= d * c /\ d * c < n + d
    BY CeilIs
<1>3. e \in Nat /\ d * e \in Nat /\ n + 1 <= d * e /\ d * e < n + 1 + d
    BY CeilIs
<1> HIDE DEF q, r, c, e
<1>4. /\ d * (q + 1) = d * q + d /\ d * (c + 1) = d * c + d /\ d * (e + 1) = d * e + d
      /\ d * (c + 2) = d * c + 2 * d /\ d * (q + 2) = d * q + 2 * d
    BY <1>1, <1>2, <1>3
<1>5. q < c + 1
    BY <1>1, <1>2, <1>4, Products
<1>6. c < q + 2
    BY <1>1, <1>2, <1>4, Products
<1>7. ASSUME q = c PROVE e = c + 1 /\ r = 0
    <2>1. r = 0
        BY <1>1, <1>2, <1>7
    <2>2. d * c < d * e /\ d * e < d * (c + 2)
        BY <1>1, <1>2, <1>3, <1>4, <1>7
    <2>3. c < e /\ e < c + 2
        BY <1>2, <1>3, <2>2, Products
    <2> QED BY <1>2, <1>3, <2>1, <2>3
<1>8. ASSUME q < c PROVE e = c /\ q = c - 1
    <2>1. q = c - 1
        BY <1>1, <1>2, <1>6, <1>8
    <2>2. d * c = d * q + d
        BY <1>1, <1>2, <1>4, <2>1
    <2>3. d * e < d * (c + 1) /\ d * q < d * e
        BY <1>1, <1>2, <1>3, <1>4, <2>2
    <2>4. e < c + 1 /\ q < e
        BY <1>1, <1>2, <1>3, <2>3, Products
    <2> QED BY <1>1, <1>2, <1>3, <2>1, <2>4
<1>9. q <= c
    BY <1>1, <1>2, <1>5
<1> QED BY <1>7, <1>8, <1>9 DEF q, r, c, e

-----------------------------------------------------------------------------
(* What the invariant says of the write transaction and of readers.         *)

\* A page is not the mark of a page without a version.
LEMMA PagesExist ==
    /\ \A g : IsPage(g) => g # NoVersion
    /\ IsPage(GarbagePage)
    /\ NoVersion.next = NullPage - 2
<1>1. NoVersion.next = NullPage - 2
    BY DEF NoVersion, GarbagePage
<1>2. IsPage(GarbagePage)
    BY DEF IsPage, GarbagePage, CellIdxs, Garbage, NullPage
<1> QED BY <1>1, <1>2 DEF IsPage

\* Pages of the file and of the arrays.
LEMMA PageRanges ==
    ASSUME TypeInv
    PROVE  /\ Arrays \subseteq PageIdxs /\ Arrays \subseteq Nat
           /\ OwnPages \subseteq PageIdxs /\ PageIdxs \subseteq Nat
           /\ \A a \in Arrays : a < NumArrays /\ a \notin OwnPages /\ a < numFilePages
           /\ \A p \in OwnPages : p < numFilePages
           /\ numFilePages \in Nat
BY Constants DEF TypeInv, PageIdxs, OwnPages, Arrays

\* The write transaction finds the version of a page if there is one, else the page of the file.
LEMMA ContentIs ==
    ASSUME IInv
    PROVE  /\ IsFile(Content)
           /\ \A p \in PageIdxs :
                 /\ HasVersion(p) => Content[p] = walVersion[p]
                 /\ ~HasVersion(p) => Content[p] = filePages[p]
                 /\ p < numFilePages => IsPage(Content[p])
                 /\ HasVersion(p) => IsPage(walVersion[p])
<1>1. Content = [p \in PageIdxs |-> IF HasVersion(p) THEN walVersion[p] ELSE filePages[p]]
    BY DEF Content, ReplayPages
<1>2. \A p \in PageIdxs :
          /\ HasVersion(p) => Content[p] = walVersion[p]
          /\ ~HasVersion(p) => Content[p] = filePages[p]
    BY <1>1
<1>3. \A p \in PageIdxs : walVersion[p] = NoVersion \/ IsPage(walVersion[p])
    BY DEF IInv, TypeInv, IsFile
<1>4. \A p \in PageIdxs : filePages[p] = NoVersion \/ IsPage(filePages[p])
    BY DEF IInv, TypeInv, IsFile
<1>5. \A p \in PageIdxs : HasVersion(p) => IsPage(walVersion[p])
    BY <1>3 DEF HasVersion
<1>6. ASSUME NEW p \in PageIdxs, p < numFilePages PROVE IsPage(Content[p])
    <2>1. CASE HasVersion(p)
        BY <1>2, <1>5, <2>1
    <2>2. CASE ~HasVersion(p)
        <3>1. p < NumPagesOf(filePages)
            <4>1. p \in Nat /\ NumPagesOf(filePages) \in Nat /\ numFilePages \in Nat
                BY Constants DEF PageIdxs, IInv, SizesInv, TypeInv
            <4>2. p \notin NumPagesOf(filePages)..(numFilePages - 1)
                BY <2>2 DEF IInv, SizesInv
            <4> QED BY <1>6, <4>1, <4>2
        <3>2. filePages[p] # NoVersion
            BY <3>1 DEF IInv, SizesInv
        <3> QED BY <1>2, <1>4, <2>2, <3>2
    <2> QED BY <2>1, <2>2
<1>7. IsFile(Content)
    <2>1. Content = [p \in PageIdxs |-> Content[p]]
        BY <1>1
    <2> QED BY <1>2, <1>3, <1>4, <2>1 DEF IsFile
<1> QED BY <1>2, <1>5, <1>6, <1>7

\* The arrays as the write transaction finds them.
LEMMA LayoutIs ==
    ASSUME IInv, NEW a \in Arrays
    PROVE  /\ Content[a].numElements \in 0..MaxElements
           /\ Content[a].numElements \in Nat
           /\ Content[a].numAPs = Ceil(Content[a].numElements, ElementsPerPage)
           /\ Content[a].numAPs \in Nat
           /\ NumPIPs(a) = Ceil(Content[a].numAPs, PageIdxsPerPIP)
           /\ NumPIPs(a) \in Nat /\ Len(PIPs(a)) = NumPIPs(a)
           /\ DOMAIN PIPs(a) = 1..NumPIPs(a)
           /\ Len(arrays[a].pips) \in Nat /\ Len(arrays[a].insertedPIPs) \in Nat
           /\ \A j \in 1..NumPIPs(a) : PIPs(a)[j] = PIPPage(a, j - 1) /\ PIPs(a)[j] \in OwnPages
           /\ \A k \in APsOf(a) :
                 /\ k \in Nat /\ k \div PageIdxsPerPIP + 1 \in 1..NumPIPs(a)
                 /\ AP(a, k) \in OwnPages
                 /\ k % PageIdxsPerPIP \in 0..(PageIdxsPerPIP - 1)
                 /\ AP(a, k) = Content[PIPs(a)[k \div PageIdxsPerPIP + 1]].cells[k % PageIdxsPerPIP]
<1>1. IsArrayIn(Content, a, PIPs(a)) /\ IsObject(arrays[a])
    BY DEF IInv, LayoutInv, TypeInv
<1>2. Len(arrays[a].pips) \in Nat /\ Len(arrays[a].insertedPIPs) \in Nat /\ NumPIPs(a) \in Nat
    <2>1. Len(arrays[a].pips) \in Nat /\ arrays[a].insertedPIPs \in Seq(PageIdxs)
        BY <1>1 DEF IsObject
    <2>2. Len(arrays[a].insertedPIPs) \in Nat
        BY <2>1
    <2> DEFINE x == Len(arrays[a].pips)
               y == Len(arrays[a].insertedPIPs)
    <2>3. NumPIPs(a) = x + y
        BY DEF NumPIPs
    <2>4. x \in Nat /\ y \in Nat
        BY <2>1, <2>2
    <2> HIDE DEF x, y
    <2>5. x + y \in Nat
        BY <2>4
    <2> QED BY <2>1, <2>2, <2>3, <2>5
<1>3. Len(PIPs(a)) = NumPIPs(a) /\ DOMAIN PIPs(a) = 1..NumPIPs(a)
    BY <1>2 DEF PIPs
<1>4. /\ Content[a].numElements \in 0..MaxElements
      /\ Content[a].numAPs = NumAPsFor(Content[a].numElements)
      /\ NumPIPs(a) = NumPIPsFor(Content[a].numElements)
    BY <1>1, <1>3 DEF IsArrayIn
<1>5. Content[a].numElements \in Nat
    BY <1>4, Constants
<1>6. /\ Content[a].numAPs = Ceil(Content[a].numElements, ElementsPerPage)
      /\ NumPIPs(a) = Ceil(Content[a].numAPs, PageIdxsPerPIP)
    BY <1>4 DEF NumAPsFor, NumPIPsFor, Ceil
<1>7. Content[a].numAPs \in Nat
    BY <1>5, <1>6, Constants, CeilIs
<1>8. \A j \in 1..NumPIPs(a) : PIPs(a)[j] = PIPPage(a, j - 1) /\ PIPs(a)[j] \in OwnPages
    BY DEF IInv, LayoutInv, PIPs
<1>9. ASSUME NEW k \in APsOf(a)
      PROVE  /\ k \in Nat /\ k \div PageIdxsPerPIP + 1 \in 1..NumPIPs(a)
             /\ AP(a, k) \in OwnPages
             /\ k % PageIdxsPerPIP \in 0..(PageIdxsPerPIP - 1)
             /\ AP(a, k) = Content[PIPs(a)[k \div PageIdxsPerPIP + 1]].cells[k % PageIdxsPerPIP]
    <2>1. k \in Nat /\ k < Content[a].numAPs
        BY <1>7 DEF APsOf, APIdxs
    <2>2. k \div PageIdxsPerPIP \in Nat /\ k \div PageIdxsPerPIP < NumPIPs(a)
        BY <1>6, <1>7, <2>1, CeilIndex, Constants
    <2>3. AP(a, k) \in OwnPages
        BY DEF IInv, LayoutInv
    <2>4. k % PageIdxsPerPIP \in 0..(PageIdxsPerPIP - 1)
        BY <2>1, Constants, Division
    <2>5. 1 + k \div PageIdxsPerPIP = k \div PageIdxsPerPIP + 1
        BY <2>2
    <2>6. AP(a, k) = Content[PIPs(a)[k \div PageIdxsPerPIP + 1]].cells[k % PageIdxsPerPIP]
        BY <2>5 DEF AP, APIn
    <2>7. k \div PageIdxsPerPIP + 1 \in 1..NumPIPs(a)
        BY <1>2, <2>2
    <2> QED BY <2>1, <2>3, <2>4, <2>6, <2>7
<1> QED BY <1>2, <1>3, <1>4, <1>5, <1>6, <1>7, <1>8, <1>9

\* What readers have of them.
LEMMA PrefixIs ==
    ASSUME IInv, NEW a \in Arrays
    PROVE  /\ arrays[a].header.numElements \in Nat
           /\ arrays[a].header.numElements <= Content[a].numElements
           /\ arrays[a].header.numAPs = Ceil(arrays[a].header.numElements, ElementsPerPage)
           /\ arrays[a].header.numAPs \in Nat
           /\ arrays[a].header.numAPs <= Content[a].numAPs
           /\ Len(arrays[a].pips) = Ceil(arrays[a].header.numAPs, PageIdxsPerPIP)
           /\ NewAPs(a) = arrays[a].header.numAPs..(Content[a].numAPs - 1)
           /\ WriteHeader(a) = Content[a]
           /\ \A j \in 1..Len(arrays[a].pips) :
                 /\ j \in 1..NumPIPs(a)
                 /\ PIPs(a)[j] = arrays[a].pips[j].page /\ OldPIPs(a)[j] = PIPs(a)[j]
           /\ \A k \in 0..(arrays[a].header.numAPs - 1) :
                 /\ k \in APsOf(a) /\ k \in Nat
                 /\ k \div PageIdxsPerPIP + 1 \in 1..Len(arrays[a].pips)
                 /\ ReadAPPage(a, k) = AP(a, k)
<1>1. /\ arrays[a].header.numElements \in 0..Content[a].numElements
      /\ arrays[a].header.numAPs = NumAPsFor(arrays[a].header.numElements)
      /\ Len(arrays[a].pips) = NumPIPsFor(arrays[a].header.numElements)
      /\ \A k \in 0..(arrays[a].header.numAPs - 1) : ReadAPPage(a, k) = AP(a, k)
    BY DEF IInv, PrefixInv
<1>2. /\ Content[a].numElements \in Nat
      /\ Content[a].numAPs = Ceil(Content[a].numElements, ElementsPerPage)
      /\ Content[a].numAPs \in Nat /\ NumPIPs(a) \in Nat
      /\ Len(arrays[a].pips) \in Nat /\ Len(arrays[a].insertedPIPs) \in Nat
      /\ \A j \in 1..NumPIPs(a) : PIPs(a)[j] = PIPPage(a, j - 1)
    BY LayoutIs
<1>3. arrays[a].header.numElements \in Nat /\ arrays[a].header.numElements <= Content[a].numElements
    BY <1>1, <1>2
<1>4. /\ arrays[a].header.numAPs = Ceil(arrays[a].header.numElements, ElementsPerPage)
      /\ Len(arrays[a].pips) = Ceil(arrays[a].header.numAPs, PageIdxsPerPIP)
    BY <1>1 DEF NumAPsFor, NumPIPsFor, Ceil
<1>5. arrays[a].header.numAPs \in Nat /\ arrays[a].header.numAPs <= Content[a].numAPs
    <2>1. ElementsPerPage \in Nat /\ ElementsPerPage > 0
        BY Constants
    <2>2. arrays[a].header.numAPs \in Nat
        BY <1>3, <1>4, <2>1, CeilIs
    <2>3. arrays[a].header.numAPs <= Content[a].numAPs
        BY <1>2, <1>3, <1>4, <2>1, CeilIsMonotone
    <2> QED BY <2>2, <2>3
<1>6. WriteHeader(a) = Content[a]
    <2>1. a \in PageIdxs
        BY PageRanges DEF IInv
    <2>2. ~HasVersion(a) => arrays[a].header = filePages[a]
        BY DEF IInv, MemoryInv, IsCurrent
    <2> QED BY <2>1, <2>2, ContentIs DEF WriteHeader
<1>7. NewAPs(a) = arrays[a].header.numAPs..(Content[a].numAPs - 1)
    BY <1>6 DEF NewAPs
<1>8. ASSUME NEW j \in 1..Len(arrays[a].pips)
      PROVE  /\ j \in 1..NumPIPs(a)
             /\ PIPs(a)[j] = arrays[a].pips[j].page /\ OldPIPs(a)[j] = PIPs(a)[j]
    <2>1. j \in 1..NumPIPs(a) /\ j - 1 < Len(arrays[a].pips) /\ (j - 1) + 1 = j
        <3> DEFINE x == Len(arrays[a].pips)
                   y == Len(arrays[a].insertedPIPs)
        <3>1. NumPIPs(a) = x + y
            BY DEF NumPIPs
        <3>2. x \in Nat /\ y \in Nat /\ j \in 1..x
            BY <1>2
        <3> HIDE DEF x, y
        <3>3. j \in 1..(x + y) /\ j - 1 < x /\ (j - 1) + 1 = j
            BY <3>2
        <3> QED BY <3>1, <3>3 DEF x
    <2>2. PIPs(a)[j] = arrays[a].pips[j].page
        BY <1>2, <2>1 DEF PIPPage
    <2> QED BY <2>1, <2>2 DEF OldPIPs
<1>9. ASSUME NEW k \in 0..(arrays[a].header.numAPs - 1)
      PROVE  /\ k \in APsOf(a) /\ k \in Nat
             /\ k \div PageIdxsPerPIP + 1 \in 1..Len(arrays[a].pips)
    <2>1. k \in Nat /\ k < arrays[a].header.numAPs /\ k \in APsOf(a)
        BY <1>2, <1>5 DEF APsOf, APIdxs
    <2>2. k \div PageIdxsPerPIP \in Nat /\ k \div PageIdxsPerPIP < Len(arrays[a].pips)
        BY <1>4, <1>5, <2>1, CeilIndex, Constants
    <2> QED BY <1>2, <2>1, <2>2
<1> QED BY <1>1, <1>3, <1>4, <1>5, <1>6, <1>7, <1>8, <1>9

\* getAPPageIdxNoLock finds the APs, in the version of a PIP or in memory.
LEMMA WriteAPPageIs ==
    ASSUME IInv, NEW a \in Arrays, NEW k \in APsOf(a)
    PROVE  WriteAPPage(a, k) = AP(a, k)
<1> DEFINE j == k \div PageIdxsPerPIP
           r == k % PageIdxsPerPIP
           p == PIPs(a)[j + 1]
<1>1. k \in Nat /\ j + 1 \in 1..NumPIPs(a) /\ AP(a, k) = Content[p].cells[r]
    BY LayoutIs
<1>2. j \in Nat /\ NumPIPs(a) \in Nat /\ Len(arrays[a].pips) \in Nat
    BY <1>1, Constants, Division, LayoutIs
<1>3. \A i \in 1..NumPIPs(a) :
          /\ PIPs(a)[i] = PIPPage(a, i - 1) /\ PIPs(a)[i] \in OwnPages
          /\ HasVersion(PIPs(a)[i]) <=> HasPIPUpdates(a, i - 1)
    BY LayoutIs DEF IInv, VersionsInv
<1> HIDE DEF j, r
<1>4. (j + 1) - 1 = j /\ 1 + j = j + 1
    BY <1>2
<1>5. p = PIPPage(a, (j + 1) - 1) /\ p \in OwnPages /\ (HasVersion(p) <=> HasPIPUpdates(a, (j + 1) - 1))
    BY <1>1, <1>3
<1>6. k \in Nat /\ j + 1 \in 1..NumPIPs(a) /\ p = PIPPage(a, j) /\ p \in OwnPages
    BY <1>1, <1>5, <1>4
<1>7. p \in PageIdxs
    BY <1>6, PageRanges DEF IInv
<1>8. HasVersion(p) <=> HasPIPUpdates(a, j)
    BY <1>4, <1>5
<1>9. CASE HasPIPUpdates(a, j)
    <2>1. Content[p] = walVersion[p]
        BY <1>7, <1>8, <1>9, ContentIs
    <2> QED BY <1>1, <1>6, <1>9, <2>1 DEF WriteAPPage, j, r
<1>10. CASE ~HasPIPUpdates(a, j)
    <2>1. j + 1 \in 1..Len(arrays[a].pips)
        BY <1>2, <1>10 DEF HasPIPUpdates
    <2>2. OldPIPs(a)[j + 1] = p
        BY <2>1, PrefixIs
    <2>3. ~HasVersion(p)
        BY <1>8, <1>10
    <2>4. arrays[a].pips[j + 1].contents = filePages[p]
        BY <2>1, <2>2, <2>3 DEF IInv, MemoryInv, IsCurrent
    <2>5. Content[p] = filePages[p]
        BY <1>7, <2>3, ContentIs
    <2> QED BY <1>1, <1>4, <1>10, <2>4, <2>5 DEF WriteAPPage, ReadAPPage, j, r
<1> QED BY <1>9, <1>10

\* An element lies in an AP.
LEMMA ElementIsInAP ==
    ASSUME NEW n \in Nat, NEW i \in 1..n
    PROVE  /\ (i - 1) \div ElementsPerPage \in 0..(Ceil(n, ElementsPerPage) - 1)
           /\ (i - 1) \div ElementsPerPage \in Nat
           /\ (i - 1) % ElementsPerPage \in 0..(ElementsPerPage - 1)
<1>1. ElementsPerPage \in Nat /\ ElementsPerPage > 0
    BY Constants
<1>2. i - 1 \in Nat /\ i - 1 < n
    OBVIOUS
<1>3. (i - 1) \div ElementsPerPage \in Nat /\ (i - 1) \div ElementsPerPage < Ceil(n, ElementsPerPage)
    BY <1>1, <1>2, CeilIndex
<1>4. Ceil(n, ElementsPerPage) \in Nat
    BY <1>1, CeilIs
<1>5. (i - 1) % ElementsPerPage \in 0..(ElementsPerPage - 1)
    BY <1>1, <1>2, Division
<1> QED BY <1>3, <1>4, <1>5

\* The array that the write transaction sees.
LEMMA WriteArrayIs ==
    IInv => \A a \in Arrays : WriteArray(a) = ElementsIn(Content, a, PIPs(a))
<1> SUFFICES ASSUME IInv, NEW a \in Arrays PROVE WriteArray(a) = ElementsIn(Content, a, PIPs(a))
    OBVIOUS
<1>1. /\ Content[a].numElements \in Nat
      /\ Content[a].numAPs = Ceil(Content[a].numElements, ElementsPerPage)
      /\ Content[a].numAPs \in Nat
      /\ WriteHeader(a) = Content[a]
    BY LayoutIs, PrefixIs
<1> DEFINE n == Content[a].numElements
           V(i) == LET k == (i - 1) \div ElementsPerPage
                       p == WriteAPPage(a, k)
                   IN  IF HasVersion(p) THEN walVersion[p].cells[(i - 1) % ElementsPerPage]
                       ELSE arrays[a].inMemArrayPages[k + 1][(i - 1) % ElementsPerPage]
           W(i) == Content[APIn(Content, PIPs(a), (i - 1) \div ElementsPerPage)]
                       .cells[(i - 1) % ElementsPerPage]
<1>2. WriteArray(a) = [i \in 1..n |-> V(i)]
    BY <1>1 DEF WriteArray
<1>3. ElementsIn(Content, a, PIPs(a)) = [i \in 1..n |-> W(i)]
    BY DEF ElementsIn
<1>4. ASSUME NEW i \in 1..n PROVE V(i) = W(i)
    <2> DEFINE k == (i - 1) \div ElementsPerPage
               r == (i - 1) % ElementsPerPage
               p == AP(a, k)
    <2>1. k \in APsOf(a) /\ k \in Nat
        BY <1>1, ElementIsInAP DEF APsOf, APIdxs
    <2>2. WriteAPPage(a, k) = p /\ p \in PageIdxs
        BY <2>1, WriteAPPageIs, LayoutIs, PageRanges DEF IInv
    <2>3. W(i) = Content[p].cells[r]
        BY DEF AP
    <2>4. CASE HasVersion(p)
        <3>1. Content[p] = walVersion[p]
            BY <2>2, <2>4, ContentIs
        <3> QED BY <2>2, <2>3, <2>4, <3>1
    <2>5. CASE ~HasVersion(p)
        <3>1. k \notin NewAPs(a)
            BY <2>5 DEF IInv, VersionsInv
        <3>2. k \in 0..(arrays[a].header.numAPs - 1)
            <4>1. arrays[a].header.numAPs \in Nat /\ k < Content[a].numAPs
                BY <1>1, <2>1, PrefixIs DEF APsOf, APIdxs
            <4> HIDE DEF k
            <4>2. ~(k >= arrays[a].header.numAPs)
                BY <1>1, <2>1, <3>1, <4>1, PrefixIs
            <4> QED BY <2>1, <4>1, <4>2
        <3>3. arrays[a].inMemArrayPages[k + 1] = filePages[p].cells
            BY <2>5, <3>2 DEF IInv, MemoryInv, IsCurrent
        <3>4. Content[p] = filePages[p]
            BY <2>2, <2>5, ContentIs
        <3> QED BY <2>2, <2>3, <2>5, <3>3, <3>4
    <2> QED BY <2>4, <2>5
<1> HIDE DEF V, W
<1>5. [i \in 1..n |-> V(i)] = [i \in 1..n |-> W(i)]
    BY <1>4
<1> QED BY <1>2, <1>3, <1>5

\* The PIPs of the last checkpoint lead to the APs of the last checkpoint.
LEMMA OldAPs ==
    ASSUME IInv, arrayPhase # "checkpointing", NEW a \in Arrays
    PROVE  /\ arrays[a].header = filePages[a]
           /\ \A k \in 0..(arrays[a].header.numAPs - 1) :
                 /\ APIn(filePages, OldPIPs(a), k) = AP(a, k)
                 /\ arrays[a].inMemArrayPages[k + 1] = filePages[AP(a, k)].cells
<1>1. \A p : IsCurrent(p)
    BY DEF IsCurrent
<1>2. ASSUME NEW k \in 0..(arrays[a].header.numAPs - 1)
      PROVE  APIn(filePages, OldPIPs(a), k) = AP(a, k)
    <2> DEFINE j == k \div PageIdxsPerPIP
    <2>1. j + 1 \in 1..Len(arrays[a].pips) /\ ReadAPPage(a, k) = AP(a, k)
        BY PrefixIs
    <2>2. j \in Nat
        BY Constants, Division, PrefixIs
    <2>3. arrays[a].pips[j + 1].contents = filePages[OldPIPs(a)[j + 1]]
        BY <1>1, <2>1 DEF IInv, MemoryInv
    <2> HIDE DEF j
    <2>4. 1 + j = j + 1
        BY <2>2
    <2> QED BY <2>1, <2>3, <2>4 DEF APIn, ReadAPPage, j
<1>3. \A k \in 0..(arrays[a].header.numAPs - 1) :
          arrays[a].inMemArrayPages[k + 1] = filePages[AP(a, k)].cells
    BY <1>1 DEF IInv, MemoryInv
<1>4. arrays[a].header = filePages[a]
    BY <1>1 DEF IInv, MemoryInv
<1> QED BY <1>2, <1>3, <1>4

\* The array that readers see, except during a checkpoint.
LEMMA ReadArrayIs ==
    IInv /\ arrayPhase # "checkpointing" =>
        \A a \in Arrays : ReadArray(a) = ElementsIn(filePages, a, OldPIPs(a))
<1> SUFFICES ASSUME IInv, arrayPhase # "checkpointing", NEW a \in Arrays
             PROVE  ReadArray(a) = ElementsIn(filePages, a, OldPIPs(a))
    OBVIOUS
<1>1. /\ arrays[a].header.numElements \in Nat
      /\ arrays[a].header.numAPs = Ceil(arrays[a].header.numElements, ElementsPerPage)
      /\ arrays[a].header = filePages[a]
    BY OldAPs, PrefixIs
<1> DEFINE n == arrays[a].header.numElements
           V(i) == arrays[a].inMemArrayPages[1 + (i - 1) \div ElementsPerPage]
                       [(i - 1) % ElementsPerPage]
           W(i) == filePages[APIn(filePages, OldPIPs(a), (i - 1) \div ElementsPerPage)]
                       .cells[(i - 1) % ElementsPerPage]
<1>2. ReadArray(a) = [i \in 1..n |-> V(i)]
    BY DEF ReadArray
<1>3. ElementsIn(filePages, a, OldPIPs(a)) = [i \in 1..n |-> W(i)]
    BY <1>1 DEF ElementsIn
<1>4. ASSUME NEW i \in 1..n PROVE V(i) = W(i)
    <2> DEFINE k == (i - 1) \div ElementsPerPage
    <2>1. k \in 0..(arrays[a].header.numAPs - 1) /\ k \in Nat
        BY <1>1, ElementIsInAP
    <2>2. /\ APIn(filePages, OldPIPs(a), k) = AP(a, k)
          /\ arrays[a].inMemArrayPages[k + 1] = filePages[AP(a, k)].cells
        BY <2>1, OldAPs
    <2>3. 1 + k = k + 1
        BY <2>1
    <2> QED BY <2>2, <2>3
<1> HIDE DEF V, W
<1>5. [i \in 1..n |-> V(i)] = [i \in 1..n |-> W(i)]
    BY <1>4
<1> QED BY <1>2, <1>3, <1>5

-----------------------------------------------------------------------------
(* Steps that leave the layout of an array as it is.                        *)

\* The array object keeps everything but its flag; the array keeps its header and its PIPs.
SameObject(b) ==
    /\ arrays'[b].header = arrays[b].header
    /\ arrays'[b].pips = arrays[b].pips
    /\ arrays'[b].updatedPIPs = arrays[b].updatedPIPs
    /\ arrays'[b].insertedPIPs = arrays[b].insertedPIPs
    /\ arrays'[b].inMemArrayPages = arrays[b].inMemArrayPages
SamePIPs(b) == PIPs(b)' = PIPs(b) /\ NumPIPs(b)' = NumPIPs(b)
SameLayout(b) ==
    /\ SamePIPs(b)
    /\ Content'[b] = Content[b]
    /\ \A j \in 1..NumPIPs(b) : Content'[PIPs(b)[j]] = Content[PIPs(b)[j]]
SameAPs(b) ==
    /\ APsOf(b)' = APsOf(b)
    /\ \A k \in APsOf(b) : AP(b, k)' = AP(b, k)

\* What is read from the object of an array is the same if the object is.
LEMMA SameObjectIs ==
    ASSUME NEW b \in Arrays, SameObject(b)
    PROVE  /\ SamePIPs(b) /\ OldPIPs(b)' = OldPIPs(b)
           /\ \A j : PIPPage(b, j)' = PIPPage(b, j)
           /\ \A j : HasPIPUpdates(b, j)' <=> HasPIPUpdates(b, j)
           /\ \A k : ReadAPPage(b, k)' = ReadAPPage(b, k)
           /\ ReadArray(b)' = ReadArray(b)
<1>1. \A j : PIPPage(b, j)' = PIPPage(b, j)
    BY DEF SameObject, PIPPage
<1>2. NumPIPs(b)' = NumPIPs(b)
    BY DEF SameObject, NumPIPs
<1>3. PIPs(b)' = PIPs(b)
    BY <1>1, <1>2 DEF PIPs
<1>4. OldPIPs(b)' = OldPIPs(b)
    BY DEF SameObject, OldPIPs
<1>5. \A j : HasPIPUpdates(b, j)' <=> HasPIPUpdates(b, j)
    BY DEF SameObject, HasPIPUpdates
<1>6. \A k : ReadAPPage(b, k)' = ReadAPPage(b, k)
    BY DEF SameObject, ReadAPPage
<1>7. ReadArray(b)' = ReadArray(b)
    BY DEF SameObject, ReadArray
<1> QED BY <1>1, <1>2, <1>3, <1>4, <1>5, <1>6, <1>7 DEF SamePIPs

\* An array with the same header and PIPs has the same APs.
LEMMA SameLayoutIs ==
    ASSUME IInv, NEW b \in Arrays, SameLayout(b)
    PROVE  /\ IsArrayIn(Content, b, PIPs(b))'
           /\ SameAPs(b)
<1>1. /\ Len(PIPs(b)) = NumPIPs(b) /\ IsArrayIn(Content, b, PIPs(b))
      /\ PIPs(b)' = PIPs(b) /\ Content'[b] = Content[b]
      /\ \A j \in 1..NumPIPs(b) : Content'[PIPs(b)[j]] = Content[PIPs(b)[j]]
    BY LayoutIs DEF IInv, LayoutInv, SameLayout, SamePIPs
<1>2. IsArrayIn(Content, b, PIPs(b))'
    BY <1>1 DEF IsArrayIn
<1>3. APsOf(b)' = APsOf(b)
    BY <1>1 DEF APsOf, APIdxs
<1>4. ASSUME NEW k \in APsOf(b) PROVE AP(b, k)' = AP(b, k)
    <2>1. k \div PageIdxsPerPIP + 1 \in 1..NumPIPs(b) /\ k \div PageIdxsPerPIP \in Nat
        BY Constants, Division, LayoutIs
    <2>2. 1 + k \div PageIdxsPerPIP = k \div PageIdxsPerPIP + 1
        BY <2>1
    <2> DEFINE p == PIPs(b)[1 + k \div PageIdxsPerPIP]
    <2>3. Content'[p] = Content[p]
        BY <1>1, <2>1, <2>2
    <2> QED BY <1>1, <2>3 DEF AP, APIn
<1> QED BY <1>2, <1>3, <1>4 DEF SameAPs

\* If all arrays do, their pages are still separate, and belong to the same arrays.
LEMMA AllSameLayout ==
    ASSUME IInv, \A b \in Arrays : SameLayout(b), numFilePages' = numFilePages
    PROVE  /\ LayoutInv' /\ SeparateInv'
           /\ \A b \in Arrays : SamePIPs(b) /\ SameAPs(b) /\ \A p : Owns(b, p)' <=> Owns(b, p)
<1>1. \A b \in Arrays : SamePIPs(b) /\ SameAPs(b) /\ IsArrayIn(Content, b, PIPs(b))'
    BY SameLayoutIs DEF SameLayout
<1>2. OwnPages' = OwnPages
    BY DEF OwnPages
<1>3. ASSUME NEW b \in Arrays, NEW p PROVE Owns(b, p)' <=> Owns(b, p)
    <2>1. (\E j \in 1..NumPIPs(b) : p = PIPs(b)[j])' <=> (\E j \in 1..NumPIPs(b) : p = PIPs(b)[j])
        BY <1>1 DEF SamePIPs
    <2>2. (\E k \in APsOf(b) : p = AP(b, k))' <=> (\E k \in APsOf(b) : p = AP(b, k))
        BY <1>1 DEF SameAPs
    <2> QED BY <2>1, <2>2 DEF Owns
<1>4. ASSUME NEW b \in Arrays
      PROVE  /\ \A j \in 1..NumPIPs(b)' : PIPs(b)'[j] \in OwnPages'
             /\ \A k \in APsOf(b)' : AP(b, k)' \in OwnPages'
    BY <1>1, <1>2 DEF IInv, LayoutInv, SamePIPs, SameAPs
<1>5. LayoutInv'
    BY <1>1, <1>4 DEF LayoutInv
<1>6. SeparateInv'
    BY <1>1 DEF IInv, SeparateInv, SamePIPs, SameAPs
<1> QED BY <1>1, <1>3, <1>5, <1>6

\* Readers do not notice a step that keeps what is in memory and the APs of the last checkpoint.
SameReaderObject(b) ==
    /\ arrays'[b].header = arrays[b].header
    /\ arrays'[b].pips = arrays[b].pips
    /\ arrays'[b].inMemArrayPages = arrays[b].inMemArrayPages
SameReader(b) ==
    /\ SameReaderObject(b)
    /\ \A k \in 0..(arrays[b].header.numAPs - 1) : AP(b, k)' = AP(b, k)

\* What readers have is still a prefix, and in memory as it is in the file.
LEMMA SameReaders ==
    ASSUME IInv, \A b \in Arrays : SameReader(b), UNCHANGED filePages,
           arrayPhase # "checkpointing", arrayPhase' # "checkpointing",
           \A b \in Arrays : /\ Content'[b].numElements \in Nat
                             /\ arrays[b].header.numElements <= Content'[b].numElements
    PROVE  /\ MemoryInv' /\ PrefixInv'
           /\ \A b \in Arrays : IsArrayIn(filePages, b, OldPIPs(b))' /\ ReadArray(b)' = ReadArray(b)
<1>1. ASSUME NEW b \in Arrays
      PROVE  /\ OldPIPs(b)' = OldPIPs(b)
             /\ \A k : ReadAPPage(b, k)' = ReadAPPage(b, k)
             /\ ReadArray(b)' = ReadArray(b)
    <2>1. OldPIPs(b)' = OldPIPs(b)
        BY <1>1 DEF SameReader, SameReaderObject, OldPIPs
    <2>2. \A k : ReadAPPage(b, k)' = ReadAPPage(b, k)
        BY <1>1 DEF SameReader, SameReaderObject, ReadAPPage
    <2>3. ReadArray(b)' = ReadArray(b)
        BY <1>1 DEF SameReader, SameReaderObject, ReadArray
    <2> QED BY <2>1, <2>2, <2>3
<1>2. ASSUME NEW b \in Arrays PROVE IsArrayIn(filePages, b, OldPIPs(b))'
    BY <1>1 DEF IInv, OldPagesInv, IsArrayIn
<1>3. MemoryInv'
    <2> SUFFICES ASSUME NEW b \in Arrays
                 PROVE  /\ arrays'[b].header = filePages[b]
                        /\ \A j \in 1..Len(arrays[b].pips) :
                              arrays'[b].pips[j].contents = filePages[OldPIPs(b)[j]]
                        /\ \A k \in 0..(arrays[b].header.numAPs - 1) :
                              arrays'[b].inMemArrayPages[k + 1] = filePages[AP(b, k)].cells
        BY <1>1 DEF MemoryInv, SameReader, SameReaderObject
    <2>1. \A p : IsCurrent(p)
        BY DEF IsCurrent
    <2>2. /\ arrays'[b].header = arrays[b].header /\ arrays'[b].pips = arrays[b].pips
          /\ arrays'[b].inMemArrayPages = arrays[b].inMemArrayPages
        BY DEF SameReader, SameReaderObject
    <2>3. /\ arrays[b].header = filePages[b]
          /\ \A j \in 1..Len(arrays[b].pips) :
                arrays[b].pips[j].contents = filePages[OldPIPs(b)[j]]
          /\ \A k \in 0..(arrays[b].header.numAPs - 1) :
                arrays[b].inMemArrayPages[k + 1] = filePages[AP(b, k)].cells
        BY <2>1 DEF IInv, MemoryInv
    <2> QED BY <2>2, <2>3
<1>4. PrefixInv'
    <2> SUFFICES ASSUME NEW b \in Arrays
                 PROVE  /\ arrays'[b].header.numElements \in 0..Content'[b].numElements
                        /\ arrays'[b].header.numAPs = NumAPsFor(arrays'[b].header.numElements)
                        /\ Len(arrays'[b].pips) = NumPIPsFor(arrays'[b].header.numElements)
                        /\ \A k \in 0..(arrays'[b].header.numAPs - 1) :
                              ReadAPPage(b, k)' = AP(b, k)'
        BY DEF PrefixInv, NumAPsFor, NumPIPsFor
    <2>1. arrays[b].header.numElements \in 0..Content'[b].numElements
        BY PrefixIs
    <2> QED BY <1>1, <2>1 DEF IInv, PrefixInv, SameReader, SameReaderObject
<1> QED BY <1>1, <1>2, <1>3, <1>4

\* In particular a step that keeps the objects and the APs.
LEMMA SameOldPages ==
    ASSUME IInv, UNCHANGED filePages, \A b \in Arrays : SameObject(b) /\ SamePIPs(b) /\ SameAPs(b),
           arrayPhase # "checkpointing", arrayPhase' # "checkpointing",
           \A b \in Arrays : Content'[b].numElements = Content[b].numElements
    PROVE  MemoryInv' /\ PrefixInv' /\ OldPagesInv'
<1>1. \A b \in Arrays : SameReader(b)
    BY PrefixIs DEF SameReader, SameReaderObject, SameObject, SameAPs
<1>2. \A b \in Arrays : /\ Content'[b].numElements \in Nat
                        /\ arrays[b].header.numElements <= Content'[b].numElements
    BY LayoutIs, PrefixIs
<1>3. /\ MemoryInv' /\ PrefixInv'
      /\ \A b \in Arrays : IsArrayIn(filePages, b, OldPIPs(b))'
    BY <1>1, <1>2, SameReaders
<1>4. NumPagesOf(filePages)' = NumPagesOf(filePages)
    BY DEF NumPagesOf
<1>5. ASSUME NEW b \in Arrays
      PROVE  /\ \A j \in 1..NumPIPs(b)' :
                   PIPs(b)'[j] < NumPagesOf(filePages)' <=> j <= Len(arrays'[b].pips)
             /\ \A k \in APsOf(b)' :
                   AP(b, k)' < NumPagesOf(filePages)' <=> k < arrays'[b].header.numAPs
    BY <1>4 DEF IInv, OldPagesInv, SamePIPs, SameAPs, SameObject
<1> QED BY <1>3, <1>5 DEF OldPagesInv

\* Versions are added to APs only.
LEMMA SameVersions ==
    ASSUME IInv, \A b \in Arrays : SameObject(b) /\ SameLayout(b), UNCHANGED numFilePages,
           \A b \in Arrays : WriteHeader(b)' = WriteHeader(b),
           \A p \in PageIdxs : HasVersion(p) => HasVersion(p)',
           \A p \in PageIdxs : HasVersion(p)' /\ ~HasVersion(p) =>
               \E b \in Updating' : arrays'[b].hasUpdates /\ \E k \in APsOf(b) : p = AP(b, k),
           Updating \subseteq Updating', Updating' \subseteq Arrays,
           \A b \in Arrays : arrays[b].hasUpdates => arrays'[b].hasUpdates,
           \A b \in Arrays : arrays'[b].hasUpdates => b \in Updating'
    PROVE  VersionsInv'
<1>1. \A b \in Arrays : SamePIPs(b) /\ SameAPs(b) /\ \A p : Owns(b, p)' <=> Owns(b, p)
    BY AllSameLayout
<1>2. ASSUME NEW p \in PageIdxs, HasVersion(p)'
      PROVE  \E b \in Updating' : arrays'[b].hasUpdates /\ Owns(b, p)'
    <2>1. CASE HasVersion(p)
        <3>1. PICK b \in Updating : arrays[b].hasUpdates /\ Owns(b, p)
            BY <2>1 DEF IInv, VersionsInv
        <3>2. b \in Updating' /\ b \in Arrays
            BY <3>1
        <3> QED BY <1>1, <3>1, <3>2
    <2>2. CASE ~HasVersion(p)
        <3>1. PICK b \in Updating' : arrays'[b].hasUpdates /\ \E k \in APsOf(b) : p = AP(b, k)
            BY <1>2, <2>2
        <3>2. Owns(b, p)
            BY <3>1 DEF Owns
        <3> QED BY <1>1, <3>1, <3>2
    <2> QED BY <2>1, <2>2
<1>3. ASSUME NEW b \in Arrays, NEW j \in 1..NumPIPs(b)
      PROVE  HasVersion(PIPs(b)[j])' <=> HasPIPUpdates(b, j - 1)'
    <2>1. HasPIPUpdates(b, j - 1)' <=> HasPIPUpdates(b, j - 1)
        BY SameObjectIs
    <2>2. HasVersion(PIPs(b)[j]) <=> HasPIPUpdates(b, j - 1)
        BY DEF IInv, VersionsInv
    <2>3. PICK p \in PageIdxs : p = PIPs(b)[j]
        BY LayoutIs, PageRanges DEF IInv
    <2>4. PIPs(b)'[j] = p
        BY <1>1, <2>3 DEF SamePIPs
    <2>5. \A c \in Arrays : \A k \in APsOf(c) : p # AP(c, k)
        BY <2>3 DEF IInv, SeparateInv
    <2>6. HasVersion(p)' => HasVersion(p)
        BY <2>5
    <2>7. HasVersion(p)' <=> HasVersion(p)
        BY <2>6
    <2>8. HasVersion(PIPs(b)[j])' <=> HasVersion(p)'
        BY <2>4 DEF HasVersion
    <2> QED BY <2>1, <2>2, <2>3, <2>7, <2>8
<1>4. ASSUME NEW b \in Arrays, NEW k \in NewAPs(b) PROVE HasVersion(AP(b, k))'
    <2>1. k \in APsOf(b)
        <3>1. NewAPs(b) = arrays[b].header.numAPs..(Content[b].numAPs - 1)
            BY PrefixIs
        <3>2. arrays[b].header.numAPs \in Nat /\ Content[b].numAPs \in Nat
            BY LayoutIs, PrefixIs
        <3> QED BY <1>4, <3>1, <3>2 DEF APsOf, APIdxs
    <2>2. PICK p \in PageIdxs : p = AP(b, k) /\ HasVersion(p)
        BY <2>1, LayoutIs, PageRanges DEF IInv, VersionsInv
    <2>3. AP(b, k)' = p
        BY <1>1, <2>1, <2>2 DEF SameAPs
    <2>4. HasVersion(AP(b, k))' <=> HasVersion(p)'
        BY <2>3 DEF HasVersion
    <2> QED BY <2>2, <2>4
<1>5. ASSUME NEW b \in Arrays PROVE NewAPs(b)' = NewAPs(b)
    BY <1>5 DEF NewAPs, SameObject
<1>6. ASSUME NEW b \in Arrays, ~arrays'[b].hasUpdates
      PROVE  arrays'[b].updatedPIPs = {} /\ arrays'[b].insertedPIPs = <<>>
    BY <1>6 DEF IInv, VersionsInv, SameObject
<1>7. \A b \in Arrays : NumPIPs(b)' = NumPIPs(b)
    BY <1>1 DEF SamePIPs
<1> QED BY <1>2, <1>3, <1>4, <1>5, <1>6, <1>7 DEF VersionsInv

\* The pages of a file are counted by their end.
LEMMA NumPagesIs ==
    ASSUME NEW file, NEW n \in 0..MaxPages, \A p \in PageIdxs : file[p] # NoVersion <=> p < n
    PROVE  NumPagesOf(file) = n
<1>1. MaxPages \in Nat /\ n \in Nat
    BY Constants
<1>2. {p \in PageIdxs : file[p] # NoVersion} = 0..(n - 1)
    BY <1>1 DEF PageIdxs
<1>3. Cardinality(0..(n - 1)) = IF 0 > n - 1 THEN 0 ELSE (n - 1) - 0 + 1
    BY <1>1, FS_Interval
<1>4. NumPagesOf(file) = Cardinality(0..(n - 1))
    BY <1>2 DEF NumPagesOf
<1>5. (IF 0 > n - 1 THEN 0 ELSE (n - 1) - 0 + 1) = n
    BY <1>1
<1> QED BY <1>3, <1>4, <1>5

-----------------------------------------------------------------------------
(* The steps that change phase.                                             *)

\* Nothing but the phase, the arrays to do and the transaction number.
KeepsPages == UNCHANGED <<numFilePages, walVersion, arrays>>

\* A step that touches neither the pages nor the objects leaves all of this as it is.
LEMMA KeepsPagesIs ==
    ASSUME IInv, KeepsPages, Content' = Content
    PROVE  /\ \A b \in Arrays : /\ SameObject(b) /\ SameLayout(b) /\ SameAPs(b)
                                /\ WriteHeader(b)' = WriteHeader(b)
                                /\ WriteArray(b)' = WriteArray(b) /\ ReadArray(b)' = ReadArray(b)
                                /\ NewAPs(b)' = NewAPs(b)
           /\ \A p : HasVersion(p)' <=> HasVersion(p)
           /\ LayoutInv' /\ SeparateInv'
<1>1. \A b \in Arrays : SameObject(b)
    BY DEF KeepsPages, SameObject
<1>2. \A p : HasVersion(p)' <=> HasVersion(p)
    BY DEF KeepsPages, HasVersion
<1>3. \A b \in Arrays : SameLayout(b)
    BY <1>1, SameObjectIs DEF SameLayout
<1>4. \A b \in Arrays : WriteHeader(b)' = WriteHeader(b)
    BY DEF KeepsPages, WriteHeader, HasVersion
<1>5. \A b \in Arrays : WriteArray(b)' = WriteArray(b)
    BY DEF KeepsPages, WriteArray, WriteHeader, WriteAPPage, HasPIPUpdates, ReadAPPage, PIPPage,
           HasVersion
<1>6. \A b \in Arrays : ReadArray(b)' = ReadArray(b)
    BY <1>1, SameObjectIs
<1>7. LayoutInv' /\ SeparateInv' /\ \A b \in Arrays : SameAPs(b)
    BY <1>3, AllSameLayout DEF KeepsPages
<1>8. \A b \in Arrays : NewAPs(b)' = NewAPs(b)
    BY <1>1, <1>4 DEF NewAPs, SameObject
<1> QED BY <1>1, <1>2, <1>3, <1>4, <1>5, <1>6, <1>7, <1>8

\* Without a new version or a change of the file, the write transaction finds the same pages.
LEMMA ContentIsKept ==
    ASSUME UNCHANGED <<walVersion, filePages>>
    PROVE  Content' = Content
BY DEF Content, ReplayPages, HasVersion

\* Readers do not notice either, unless a checkpoint begins.
LEMMA KeepsReaders ==
    ASSUME IInv, KeepsPages, UNCHANGED filePages,
           arrayPhase # "checkpointing", arrayPhase' # "checkpointing"
    PROVE  /\ SizesInv' /\ LayoutInv' /\ SeparateInv' /\ PrefixInv' /\ MemoryInv'
           /\ OldPagesInv' /\ CheckpointInv'
<1>1. Content' = Content
    BY ContentIsKept DEF KeepsPages
<1>2. /\ \A b \in Arrays : SameObject(b) /\ SamePIPs(b) /\ SameAPs(b)
      /\ LayoutInv' /\ SeparateInv'
    BY <1>1, KeepsPagesIs DEF SameLayout
<1>3. MemoryInv' /\ PrefixInv' /\ OldPagesInv'
    BY <1>1, <1>2, SameOldPages
<1>4. SizesInv'
    BY DEF IInv, SizesInv, KeepsPages, NumPagesOf, HasVersion
<1>5. CheckpointInv'
    BY DEF CheckpointInv
<1> QED BY <1>2, <1>3, <1>4, <1>5

\* A transaction begins.
LEMMA BeginStep ==
    ASSUME IInv, BeginArrayTransaction
    PROVE  IInv'
<1>1. /\ KeepsPages /\ UNCHANGED <<filePages, todo>>
      /\ arrayPhase = "idle" /\ arrayPhase' = "active"
    BY DEF BeginArrayTransaction, KeepsPages
<1>2. /\ SizesInv' /\ LayoutInv' /\ SeparateInv' /\ PrefixInv' /\ MemoryInv'
      /\ OldPagesInv' /\ CheckpointInv'
    BY <1>1, KeepsReaders
<1>3. TypeInv'
    BY <1>1 DEF IInv, TypeInv, KeepsPages, IsFile, IsObject
<1>4. VersionsInv'
    <2>1. Content' = Content
        BY <1>1, ContentIsKept DEF KeepsPages
    <2>2. /\ \A b \in Arrays : SameObject(b) /\ SameLayout(b) /\ WriteHeader(b)' = WriteHeader(b)
          /\ \A p : HasVersion(p)' <=> HasVersion(p)
        BY <1>1, <2>1, KeepsPagesIs
    <2>3. Updating = {} /\ Updating' = Arrays
        BY <1>1 DEF Updating, IInv, TypeInv
    <2>4. \A b \in Arrays : ~arrays[b].hasUpdates /\ ~arrays'[b].hasUpdates
        BY <1>1, <2>3 DEF IInv, VersionsInv, KeepsPages
    <2> QED BY <1>1, <2>2, <2>3, <2>4, SameVersions DEF KeepsPages
<1>5. RollbackInv'
    BY <1>1 DEF RollbackInv
<1> QED BY <1>2, <1>3, <1>4, <1>5 DEF IInv

\* Two members of a set with at most one are the same.
LEMMA AtMostOne ==
    ASSUME NEW S, IsFiniteSet(S), Cardinality(S) <= 1, NEW x \in S, NEW y \in S
    PROVE  x = y
<1>1. IsFiniteSet({x}) /\ Cardinality({x}) = 1
    BY FS_Singleton
<1>2. {x} \in SUBSET S
    OBVIOUS
<1>3. Cardinality(S) \in Nat /\ Cardinality({x}) <= Cardinality(S)
    BY <1>2, FS_CardinalityType, FS_Subset
<1>4. Cardinality(S) = Cardinality({x})
    BY <1>1, <1>3
<1>5. S = {x}
    BY <1>2, <1>4, FS_Subset
<1> QED BY <1>5

\* A rollback begins: not RollbackShared says which new pages it may find.
LEMMA StartRollbackStep ==
    ASSUME IInv, ~RollbackShared, StartArrayRollback
    PROVE  IInv'
<1>1. /\ KeepsPages /\ UNCHANGED filePages /\ todo' = Arrays
      /\ arrayPhase = "active" /\ arrayPhase' = "rollingBack"
    BY DEF StartArrayRollback, KeepsPages
<1>2. /\ SizesInv' /\ LayoutInv' /\ SeparateInv' /\ PrefixInv' /\ MemoryInv'
      /\ OldPagesInv' /\ CheckpointInv'
    BY <1>1, KeepsReaders
<1>3. TypeInv'
    BY <1>1 DEF IInv, TypeInv, KeepsPages, IsFile, IsObject
<1>4. Content' = Content
    BY <1>1, ContentIsKept DEF KeepsPages
<1>5. /\ \A b \in Arrays : /\ SameObject(b) /\ SameLayout(b) /\ WriteHeader(b)' = WriteHeader(b)
                           /\ NewAPs(b)' = NewAPs(b)
      /\ \A p : HasVersion(p)' <=> HasVersion(p)
    BY <1>1, <1>4, KeepsPagesIs
<1>6. VersionsInv'
    <2>1. Updating = Arrays /\ Updating' = Arrays
        BY <1>1 DEF Updating
    <2>2. \A b \in Arrays : arrays[b].hasUpdates <=> arrays'[b].hasUpdates
        BY <1>1 DEF KeepsPages
    <2> QED BY <1>1, <1>5, <2>1, <2>2, SameVersions DEF KeepsPages
<1>7. RollbackInv'
    <2> DEFINE S == {a \in Arrays : HasNewPages(a)}
    <2>1. Cardinality(S) <= 1 /\ \A a \in Arrays : Len(arrays[a].insertedPIPs) <= 1
        BY DEF StartArrayRollback
    <2>2. IsFiniteSet(S)
        <3>1. IsFiniteSet(Arrays)
            BY Constants, FS_Interval DEF Arrays
        <3>2. S \in SUBSET Arrays
            OBVIOUS
        <3> QED BY <3>1, <3>2, FS_Subset
    <2> HIDE DEF S
    <2>3. \A x, y \in S : x = y
        BY <2>1, <2>2, AtMostOne
    <2>4. \A a \in Arrays : HasNewPages(a)' <=> a \in S
        BY <1>5 DEF HasNewPages, S
    <2> QED BY <1>5, <2>1, <2>3, <2>4 DEF RollbackInv, SameObject
<1> QED BY <1>2, <1>3, <1>6, <1>7 DEF IInv

\* A checkpoint begins with the replay of the WAL, which brings the versions to the file.
LEMMA StartCheckpointStep ==
    ASSUME IInv, StartArrayCheckpoint
    PROVE  IInv' /\ Content' = Content
<1>1. /\ KeepsPages /\ filePages' = Content /\ todo' = Arrays
      /\ arrayPhase = "active" /\ arrayPhase' = "checkpointing"
    BY DEF StartArrayCheckpoint, KeepsPages, Content
<1>2. \A p : HasVersion(p)' <=> HasVersion(p)
    BY <1>1 DEF KeepsPages, HasVersion
<1>3. Content' = Content
    <2>1. Content = [p \in PageIdxs |-> Content[p]]
        BY ContentIs DEF IsFile
    <2>2. Content' = [p \in PageIdxs |-> IF HasVersion(p) THEN walVersion[p] ELSE Content[p]]
        BY <1>1, <1>2 DEF Content, ReplayPages, KeepsPages
    <2>3. \A p \in PageIdxs : (IF HasVersion(p) THEN walVersion[p] ELSE Content[p]) = Content[p]
        BY ContentIs
    <2> QED BY <2>1, <2>2, <2>3
<1>4. /\ \A b \in Arrays : /\ SameObject(b) /\ SameLayout(b) /\ SameAPs(b)
                           /\ WriteHeader(b)' = WriteHeader(b)
      /\ LayoutInv' /\ SeparateInv'
    BY <1>1, <1>3, KeepsPagesIs
<1>5. TypeInv'
    <2>1. IsFile(filePages)'
        BY <1>1, ContentIs DEF IsFile
    <2> QED BY <1>1, <2>1 DEF IInv, TypeInv, KeepsPages, IsFile, IsObject
<1>6. VersionsInv'
    <2>1. Updating = Arrays /\ Updating' = Arrays
        BY <1>1 DEF Updating
    <2>2. \A b \in Arrays : arrays[b].hasUpdates <=> arrays'[b].hasUpdates
        BY <1>1 DEF KeepsPages
    <2> QED BY <1>1, <1>2, <1>4, <2>1, <2>2, SameVersions DEF KeepsPages
<1>7. NumPagesOf(filePages)' = numFilePages /\ SizesInv'
    <2>1. numFilePages \in NumArrays..MaxPages /\ numFilePages \in 0..MaxPages
        BY Constants DEF IInv, TypeInv
    <2>2. ASSUME NEW p \in PageIdxs PROVE Content[p] # NoVersion <=> p < numFilePages
        <3>1. p < numFilePages => Content[p] # NoVersion
            BY ContentIs, PagesExist
        <3>2. ASSUME ~(p < numFilePages) PROVE Content[p] = NoVersion
            <4>1. ~HasVersion(p)
                BY <3>2 DEF IInv, SizesInv
            <4>2. NumPagesOf(filePages) \in Nat /\ NumPagesOf(filePages) <= numFilePages
                BY Constants, <2>1 DEF IInv, SizesInv
            <4>3. ~(p < NumPagesOf(filePages))
                BY <2>1, <3>2, <4>2, Constants DEF PageIdxs
            <4>4. filePages[p] = NoVersion
                BY <4>3 DEF IInv, SizesInv
            <4> QED BY <4>1, <4>4, ContentIs
        <3> QED BY <3>1, <3>2
    <2>3. NumPagesOf(Content) = numFilePages
        BY <2>1, <2>2, NumPagesIs
    <2>4. NumPagesOf(filePages)' = numFilePages
        BY <1>1, <2>3 DEF NumPagesOf
    <2>5. \A p \in PageIdxs : /\ filePages'[p] # NoVersion <=> p < numFilePages
                              /\ HasVersion(p)' => p < numFilePages
        BY <1>1, <1>2, <2>2 DEF IInv, SizesInv
    <2>6. numFilePages \in NumArrays..numFilePages /\ numFilePages' = numFilePages
        BY <1>1, <2>1, Constants DEF KeepsPages
    <2>7. \A p : p \notin numFilePages..(numFilePages - 1)
        BY <2>1, Constants
    <2> QED BY <2>4, <2>5, <2>6, <2>7 DEF SizesInv
<1>8. PrefixInv'
    <2> SUFFICES ASSUME NEW b \in Arrays
                 PROVE  /\ arrays'[b].header.numElements \in 0..Content'[b].numElements
                        /\ arrays'[b].header.numAPs = NumAPsFor(arrays'[b].header.numElements)
                        /\ Len(arrays'[b].pips) = NumPIPsFor(arrays'[b].header.numElements)
                        /\ \A k \in 0..(arrays'[b].header.numAPs - 1) :
                              ReadAPPage(b, k)' = AP(b, k)'
        BY DEF PrefixInv, NumAPsFor, NumPIPsFor
    <2>1. \A k : ReadAPPage(b, k)' = ReadAPPage(b, k)
        BY <1>4, SameObjectIs
    <2>2. \A k \in 0..(arrays[b].header.numAPs - 1) : AP(b, k)' = AP(b, k)
        BY <1>4, PrefixIs DEF SameAPs
    <2> QED BY <1>3, <1>4, <2>1, <2>2 DEF IInv, PrefixInv, SameObject
<1>9. MemoryInv'
    <2>1. \A p \in PageIdxs : IsCurrent(p)' => ~HasVersion(p) /\ filePages'[p] = filePages[p]
        BY <1>1, <1>2, ContentIs DEF IsCurrent
    <2>2. \A p : IsCurrent(p)
        BY <1>1 DEF IsCurrent
    <2> SUFFICES ASSUME NEW b \in Arrays
                 PROVE  /\ IsCurrent(b)' => arrays'[b].header = filePages'[b]
                        /\ \A j \in 1..Len(arrays'[b].pips) :
                              IsCurrent(OldPIPs(b)[j])' =>
                                  arrays'[b].pips[j].contents = filePages'[OldPIPs(b)'[j]]
                        /\ \A k \in 0..(arrays'[b].header.numAPs - 1) :
                              IsCurrent(AP(b, k))' =>
                                  arrays'[b].inMemArrayPages[k + 1] = filePages'[AP(b, k)'].cells
        BY DEF MemoryInv
    <2>3. b \in PageIdxs /\ OldPIPs(b)' = OldPIPs(b)
        BY <1>4, PageRanges, SameObjectIs DEF IInv
    <2>4. IsCurrent(b)' => arrays'[b].header = filePages'[b]
        BY <1>4, <2>1, <2>2, <2>3 DEF IInv, MemoryInv, SameObject
    <2>5. ASSUME NEW j \in 1..Len(arrays'[b].pips), IsCurrent(OldPIPs(b)[j])'
          PROVE  arrays'[b].pips[j].contents = filePages'[OldPIPs(b)'[j]]
        <3>1. j \in 1..Len(arrays[b].pips)
            BY <1>4 DEF SameObject
        <3>2. PICK p \in PageIdxs : p = OldPIPs(b)[j]
            BY <3>1, PrefixIs, LayoutIs, PageRanges DEF IInv
        <3>3. IsCurrent(p)'
            BY <2>3, <2>5, <3>2 DEF IsCurrent, HasVersion
        <3>4. arrays[b].pips[j].contents = filePages[p]
            BY <2>2, <3>1, <3>2 DEF IInv, MemoryInv
        <3> QED BY <1>4, <2>1, <2>3, <3>2, <3>3, <3>4 DEF SameObject
    <2>6. ASSUME NEW k \in 0..(arrays'[b].header.numAPs - 1), IsCurrent(AP(b, k))'
          PROVE  arrays'[b].inMemArrayPages[k + 1] = filePages'[AP(b, k)'].cells
        <3>1. k \in 0..(arrays[b].header.numAPs - 1)
            BY <1>4 DEF SameObject
        <3>2. PICK p \in PageIdxs : p = AP(b, k)
            BY <3>1, PrefixIs, LayoutIs, PageRanges DEF IInv
        <3>3. AP(b, k)' = p
            BY <1>4, <3>1, <3>2, PrefixIs DEF SameAPs
        <3>4. IsCurrent(p)'
            BY <2>6, <3>3 DEF IsCurrent, HasVersion
        <3>5. arrays[b].inMemArrayPages[k + 1] = filePages[p].cells
            BY <2>2, <3>1, <3>2 DEF IInv, MemoryInv
        <3> QED BY <1>4, <2>1, <3>3, <3>4, <3>5 DEF SameObject
    <2> QED BY <2>4, <2>5, <2>6
<1>10. OldPagesInv' /\ CheckpointInv' /\ RollbackInv'
    BY <1>1, <1>3 DEF OldPagesInv, CheckpointInv, RollbackInv
<1> QED BY <1>3, <1>4, <1>5, <1>6, <1>7, <1>8, <1>9, <1>10 DEF IInv

-----------------------------------------------------------------------------
(* An update.                                                               *)

\* The page with a cell set.
SetCell(g, r, v) == [g EXCEPT !.cells[r] = v]

\* What a page holds when one of its cells is set.
LEMMA SetCellIs ==
    ASSUME NEW g, IsPage(g), NEW r \in CellIdxs, NEW v
    PROVE  /\ IsPage(SetCell(g, r, v))
           /\ SetCell(g, r, v).next = g.next
           /\ SetCell(g, r, v).numElements = g.numElements
           /\ SetCell(g, r, v).numAPs = g.numAPs
           /\ \A i \in CellIdxs : SetCell(g, r, v).cells[i] = IF i = r THEN v ELSE g.cells[i]
<1> DEFINE h == SetCell(g, r, v)
           c == [g.cells EXCEPT ![r] = v]
<1>1. g = [next |-> g.next, numElements |-> g.numElements, numAPs |-> g.numAPs, cells |-> g.cells]
    BY DEF IsPage
<1>2. h = [next |-> g.next, numElements |-> g.numElements, numAPs |-> g.numAPs, cells |-> c]
    <2> DEFINE n == g.next
               e == g.numElements
               m == g.numAPs
               d == g.cells
    <2>1. g = [next |-> n, numElements |-> e, numAPs |-> m, cells |-> d]
        BY <1>1
    <2> HIDE DEF n, e, m, d
    <2>2. h = [next |-> n, numElements |-> e, numAPs |-> m, cells |-> [d EXCEPT ![r] = v]]
        BY <2>1 DEF SetCell
    <2> QED BY <2>2 DEF n, e, m, d
<1>3. g.cells = [i \in CellIdxs |-> g.cells[i]] /\ g.next # NullPage - 2
    BY DEF IsPage
<1>4. c = [i \in CellIdxs |-> IF i = r THEN v ELSE g.cells[i]]
    BY <1>3
<1>5. c = [i \in CellIdxs |-> c[i]]
    BY <1>4
<1>6. \A i \in CellIdxs : c[i] = IF i = r THEN v ELSE g.cells[i]
    BY <1>4
<1> HIDE DEF c, h
<1>7. /\ h.next = g.next /\ h.numElements = g.numElements /\ h.numAPs = g.numAPs /\ h.cells = c
    BY <1>2
<1>8. IsPage(h)
    BY <1>2, <1>3, <1>5, <1>7 DEF IsPage
<1>9. \A i \in CellIdxs : h.cells[i] = IF i = r THEN v ELSE g.cells[i]
    BY <1>6, <1>7
<1> QED BY <1>7, <1>8, <1>9 DEF h, c

\* One cell of a page is written.
WritesCell(p, r) ==
    walVersion' = [walVersion EXCEPT ![p] = SetCell(Content[p], r, arrayTransaction)]

\* A write to a cell gives its page a version that differs from the page in that cell only.
LEMMA WritesCellIs ==
    ASSUME IInv, UNCHANGED filePages, NEW p \in PageIdxs, p < numFilePages, NEW r \in CellIdxs,
           WritesCell(p, r)
    PROVE  /\ IsFile(walVersion)'
           /\ \A q \in PageIdxs : HasVersion(q)' <=> HasVersion(q) \/ q = p
           /\ \A q \in PageIdxs \ {p} : Content'[q] = Content[q]
           /\ Content'[p] = SetCell(Content[p], r, arrayTransaction)
           /\ \A q \in PageIdxs \ {p} : walVersion'[q] = walVersion[q]
<1> DEFINE g == SetCell(Content[p], r, arrayTransaction)
<1>1. IsPage(g) /\ g # NoVersion
    BY ContentIs, SetCellIs, PagesExist
<1>2. /\ walVersion = [q \in PageIdxs |-> walVersion[q]]
      /\ \A q \in PageIdxs : walVersion[q] = NoVersion \/ IsPage(walVersion[q])
    BY DEF IInv, TypeInv, IsFile
<1>3. walVersion' = [walVersion EXCEPT ![p] = g]
    BY DEF WritesCell
<1> HIDE DEF g
<1>4. /\ walVersion' = [q \in PageIdxs |-> walVersion'[q]]
      /\ walVersion'[p] = g
      /\ \A q \in PageIdxs \ {p} : walVersion'[q] = walVersion[q]
    BY <1>2, <1>3
<1>5. IsFile(walVersion)'
    BY <1>1, <1>2, <1>4 DEF IsFile
<1>6. \A q \in PageIdxs : HasVersion(q)' <=> HasVersion(q) \/ q = p
    BY <1>1, <1>4 DEF HasVersion
<1>7. \A q \in PageIdxs : Content'[q] = IF HasVersion(q)' THEN walVersion'[q] ELSE filePages[q]
    BY DEF Content, ReplayPages
<1>8. \A q \in PageIdxs \ {p} : Content'[q] = Content[q]
    BY <1>4, <1>6, <1>7, ContentIs
<1>9. Content'[p] = g
    BY <1>4, <1>6, <1>7
<1> QED BY <1>4, <1>5, <1>6, <1>8, <1>9 DEF g

\* createWALVersionIfNecessaryAndPinPage gives the write transaction what it saw.
LEMMA VersionToUpdateIs ==
    ASSUME IInv, NEW p \in PageIdxs
    PROVE  VersionToUpdate(p, FALSE) = Content[p]
BY ContentIs DEF VersionToUpdate

\* An update writes a cell of an AP or, out of range, nothing.
LEMMA UpdateEffect ==
    ASSUME IInv, NEW a \in Arrays, NEW i \in 0..MaxElements, Update(a, i)
    PROVE  /\ UNCHANGED <<arrayPhase, numFilePages, filePages, todo>> /\ arrayPhase = "active"
           /\ arrays' = [b \in Arrays |-> arrays'[b]]
           /\ \A b \in Arrays : SameObject(b) /\ IsObject(arrays'[b])
           /\ \A b \in Arrays : arrays[b].hasUpdates => arrays'[b].hasUpdates
           /\ arrays'[a].hasUpdates
           /\ \/ UNCHANGED walVersion
              \/ /\ i < Content[a].numElements /\ i \div ElementsPerPage \in APsOf(a)
                 /\ i % ElementsPerPage \in CellIdxs /\ i \in Nat
                 /\ AP(a, i \div ElementsPerPage) \in PageIdxs
                 /\ AP(a, i \div ElementsPerPage) < numFilePages
                 /\ WritesCell(AP(a, i \div ElementsPerPage), i % ElementsPerPage)
<1>1. /\ UNCHANGED <<arrayPhase, numFilePages, filePages, todo>> /\ arrayPhase = "active"
      /\ arrays' = [arrays EXCEPT ![a].hasUpdates = TRUE]
    BY DEF Update
<1>2. /\ arrays = [b \in Arrays |-> arrays[b]]
      /\ \A b \in Arrays : IsObject(arrays[b])
    BY DEF IInv, TypeInv
<1>3. /\ arrays' = [b \in Arrays |-> arrays'[b]]
      /\ \A b \in Arrays \ {a} : arrays'[b] = arrays[b]
      /\ arrays'[a] = [arrays[a] EXCEPT !.hasUpdates = TRUE]
    BY <1>1, <1>2
<1>4. /\ SameObject(a) /\ arrays'[a].hasUpdates = TRUE
      /\ arrays'[a] = [header |-> arrays'[a].header, pips |-> arrays'[a].pips,
                       updatedPIPs |-> arrays'[a].updatedPIPs,
                       insertedPIPs |-> arrays'[a].insertedPIPs,
                       inMemArrayPages |-> arrays'[a].inMemArrayPages,
                       hasUpdates |-> arrays'[a].hasUpdates]
    <2> DEFINE A == arrays[a]
               B == arrays'[a]
    <2>1. A = [header |-> A.header, pips |-> A.pips, updatedPIPs |-> A.updatedPIPs,
               insertedPIPs |-> A.insertedPIPs, inMemArrayPages |-> A.inMemArrayPages,
               hasUpdates |-> A.hasUpdates]
        BY <1>2 DEF IsObject
    <2>2. B = [A EXCEPT !.hasUpdates = TRUE]
        BY <1>3
    <2> HIDE DEF A, B
    <2>3. B = [header |-> A.header, pips |-> A.pips, updatedPIPs |-> A.updatedPIPs,
               insertedPIPs |-> A.insertedPIPs, inMemArrayPages |-> A.inMemArrayPages,
               hasUpdates |-> TRUE]
        BY <2>1, <2>2
    <2> QED BY <2>3 DEF A, B, SameObject
<1>5. \A b \in Arrays : SameObject(b)
    BY <1>3, <1>4 DEF SameObject
<1>6. \A b \in Arrays : IsObject(arrays'[b])
    <2> DEFINE A == arrays[a]
               B == arrays'[a]
    <2>1. /\ IsObject(A) /\ B.hasUpdates = TRUE
          /\ B.header = A.header /\ B.pips = A.pips /\ B.updatedPIPs = A.updatedPIPs
          /\ B.insertedPIPs = A.insertedPIPs /\ B.inMemArrayPages = A.inMemArrayPages
          /\ B = [header |-> B.header, pips |-> B.pips, updatedPIPs |-> B.updatedPIPs,
                  insertedPIPs |-> B.insertedPIPs, inMemArrayPages |-> B.inMemArrayPages,
                  hasUpdates |-> B.hasUpdates]
        BY <1>2, <1>4 DEF SameObject
    <2> HIDE DEF A, B
    <2>2. IsObject(B)
        BY <2>1 DEF IsObject
    <2>3. IsObject(arrays'[a])
        BY <2>2 DEF B
    <2> QED BY <1>2, <1>3, <2>3
<1>7. \A b \in Arrays : arrays[b].hasUpdates => arrays'[b].hasUpdates
    BY <1>3, <1>4
<1>8. ASSUME ~UNCHANGED walVersion
      PROVE  /\ i < Content[a].numElements /\ i \div ElementsPerPage \in APsOf(a)
             /\ i % ElementsPerPage \in CellIdxs /\ i \in Nat
             /\ AP(a, i \div ElementsPerPage) \in PageIdxs
             /\ AP(a, i \div ElementsPerPage) < numFilePages
             /\ WritesCell(AP(a, i \div ElementsPerPage), i % ElementsPerPage)
    <2> DEFINE k == i \div ElementsPerPage
               p == WriteAPPage(a, k)
    <2>1. ~(i >= Content[a].numElements)
        BY <1>8, PrefixIs DEF Update
    <2>2. walVersion' = [walVersion EXCEPT ![p] = [VersionToUpdate(p, FALSE) EXCEPT
                             !.cells[i % ElementsPerPage] = arrayTransaction]]
        BY <1>8 DEF Update
    <2>3. Content[a].numElements \in Nat /\ i \in Nat
        BY LayoutIs, Constants
    <2>4. i < Content[a].numElements
        BY <2>1, <2>3
    <2>5. k \in Nat /\ k < Content[a].numAPs /\ i % ElementsPerPage \in CellIdxs
        BY <2>3, <2>4, Constants, CeilIndex, Division, LayoutIs
    <2>6. k \in APsOf(a)
        BY <2>5, LayoutIs DEF APsOf, APIdxs
    <2>7. p = AP(a, k) /\ p \in PageIdxs /\ p < numFilePages
        BY <2>6, WriteAPPageIs, LayoutIs, PageRanges DEF IInv
    <2>8. VersionToUpdate(p, FALSE) = Content[p]
        BY <2>7, VersionToUpdateIs
    <2>9. WritesCell(p, i % ElementsPerPage)
        BY <2>2, <2>8 DEF WritesCell, SetCell
    <2> QED BY <2>3, <2>4, <2>5, <2>6, <2>7, <2>9
<1> QED BY <1>1, <1>3, <1>4, <1>5, <1>6, <1>7, <1>8

\* An update writes to an AP of its array, which is no header and no PIP of an array.
LEMMA UpdateKeepsLayout ==
    ASSUME IInv, NEW a \in Arrays, NEW i \in 0..MaxElements, Update(a, i)
    PROVE  /\ \A b \in Arrays : SameLayout(b) /\ WriteHeader(b)' = WriteHeader(b)
           /\ \A q \in PageIdxs : HasVersion(q) => HasVersion(q)'
           /\ \A q \in PageIdxs : HasVersion(q)' /\ ~HasVersion(q) =>
                  \E k \in APsOf(a) : q = AP(a, k)
           /\ IsFile(walVersion)'
<1>1. /\ \A b \in Arrays : SameObject(b) /\ SamePIPs(b)
      /\ UNCHANGED filePages
    BY UpdateEffect, SameObjectIs
<1>2. CASE UNCHANGED walVersion
    <2>1. Content' = Content
        BY <1>1, <1>2, ContentIsKept
    <2>2. \A q : HasVersion(q)' <=> HasVersion(q)
        BY <1>2 DEF HasVersion
    <2>3. \A b \in Arrays : WriteHeader(b)' = WriteHeader(b)
        BY <1>1, <1>2, <2>2 DEF WriteHeader, SameObject
    <2>4. IsFile(walVersion)'
        BY <1>2 DEF IInv, TypeInv, IsFile
    <2> QED BY <1>1, <2>1, <2>2, <2>3, <2>4 DEF SameLayout
<1>3. CASE ~UNCHANGED walVersion
    <2> DEFINE k == i \div ElementsPerPage
               r == i % ElementsPerPage
    <2>1. /\ k \in APsOf(a) /\ r \in CellIdxs
          /\ AP(a, k) \in PageIdxs /\ AP(a, k) < numFilePages
          /\ WritesCell(AP(a, k), r)
        BY <1>3, UpdateEffect
    <2> HIDE DEF k, r
    <2>2. PICK p \in PageIdxs : p = AP(a, k)
        BY <2>1
    <2>3. p < numFilePages /\ WritesCell(p, r)
        BY <2>1, <2>2
    <2>4. /\ IsFile(walVersion)'
          /\ \A q \in PageIdxs : HasVersion(q)' <=> HasVersion(q) \/ q = p
          /\ \A q \in PageIdxs \ {p} : Content'[q] = Content[q]
          /\ \A q \in PageIdxs \ {p} : walVersion'[q] = walVersion[q]
        BY <1>1, <2>1, <2>3, WritesCellIs
    <2>5. ASSUME NEW b \in Arrays
          PROVE  b \in PageIdxs \ {p}
        <3>1. p \in OwnPages /\ b \notin OwnPages /\ b \in PageIdxs
            BY <2>1, <2>2, LayoutIs, PageRanges DEF IInv
        <3> QED BY <3>1
    <2>6. ASSUME NEW b \in Arrays
          PROVE  SameLayout(b) /\ WriteHeader(b)' = WriteHeader(b)
        <3>1. ASSUME NEW j \in 1..NumPIPs(b) PROVE Content'[PIPs(b)[j]] = Content[PIPs(b)[j]]
            <4>1. PIPs(b)[j] \in PageIdxs
                BY LayoutIs, PageRanges DEF IInv
            <4>2. PIPs(b)[j] # p
                BY <2>1, <2>2 DEF IInv, SeparateInv
            <4> QED BY <2>4, <4>1, <4>2
        <3>2. Content'[b] = Content[b] /\ walVersion'[b] = walVersion[b] /\ HasVersion(b)' = HasVersion(b)
            BY <2>4, <2>5 DEF HasVersion
        <3>3. WriteHeader(b)' = WriteHeader(b)
            BY <1>1, <3>2 DEF WriteHeader, SameObject
        <3> QED BY <1>1, <3>1, <3>2, <3>3 DEF SameLayout
    <2> QED BY <2>1, <2>2, <2>4, <2>6
<1> QED BY <1>2, <1>3

\* An update of an element keeps the invariant.
LEMMA UpdateStep ==
    ASSUME IInv, NEW a \in Arrays, NEW i \in 0..MaxElements, Update(a, i)
    PROVE  IInv'
<1>1. /\ UNCHANGED <<arrayPhase, numFilePages, filePages, todo>> /\ arrayPhase = "active"
      /\ arrays' = [b \in Arrays |-> arrays'[b]]
      /\ \A b \in Arrays : SameObject(b) /\ IsObject(arrays'[b])
      /\ \A b \in Arrays : arrays[b].hasUpdates => arrays'[b].hasUpdates
      /\ arrays'[a].hasUpdates
    BY UpdateEffect
<1>2. /\ \A b \in Arrays : SameLayout(b) /\ WriteHeader(b)' = WriteHeader(b)
      /\ \A q \in PageIdxs : HasVersion(q) => HasVersion(q)'
      /\ \A q \in PageIdxs : HasVersion(q)' /\ ~HasVersion(q) =>
             \E k \in APsOf(a) : q = AP(a, k)
      /\ IsFile(walVersion)'
    BY UpdateKeepsLayout
<1>3. LayoutInv' /\ SeparateInv' /\ \A b \in Arrays : SamePIPs(b) /\ SameAPs(b)
    BY <1>1, <1>2, AllSameLayout
<1>4. MemoryInv' /\ PrefixInv' /\ OldPagesInv'
    BY <1>1, <1>2, <1>3, SameOldPages DEF SameLayout
<1>5. TypeInv'
    BY <1>1, <1>2 DEF IInv, TypeInv, IsFile
<1>6. SizesInv'
    <2>1. \A q \in PageIdxs : HasVersion(q)' => q < numFilePages
        <3>1. \A k \in APsOf(a) : AP(a, k) < numFilePages
            BY LayoutIs, PageRanges DEF IInv
        <3> QED BY <1>2, <3>1 DEF IInv, SizesInv
    <2>2. NumPagesOf(filePages)' = NumPagesOf(filePages)
        BY <1>1 DEF NumPagesOf
    <2> QED BY <1>1, <1>2, <2>1, <2>2 DEF IInv, SizesInv
<1>7. VersionsInv'
    <2>1. Updating = Arrays /\ Updating' = Arrays
        BY <1>1 DEF Updating
    <2> QED BY <1>1, <1>2, <2>1, SameVersions
<1>8. CheckpointInv' /\ RollbackInv'
    BY <1>1 DEF CheckpointInv, RollbackInv
<1> QED BY <1>3, <1>4, <1>5, <1>6, <1>7, <1>8 DEF IInv

-----------------------------------------------------------------------------
(* An addition.                                                             *)

\* The AP and the PIP that pushBack adds to, which may be new, and their pages.
PushAP(a) == Content[a].numElements \div ElementsPerPage
PushPIP(a) == PushAP(a) \div PageIdxsPerPIP
IsNewAP(a) == PushAP(a) = Content[a].numAPs
IsNewPIP(a) == IsNewAP(a) /\ PushPIP(a) = NumPIPs(a)
PushAPPage(a) == IF IsNewAP(a) THEN numFilePages ELSE AP(a, PushAP(a))
PushPIPPage(a) == IF IsNewPIP(a) THEN numFilePages + 1 ELSE PIPs(a)[PushPIP(a) + 1]

\* The element is the next of the last AP, or it is the first of a new one; likewise the AP.
LEMMA PushCases ==
    ASSUME IInv, NEW a \in Arrays
    PROVE  /\ PushAP(a) \in Nat /\ PushPIP(a) \in Nat
           /\ Content[a].numElements % ElementsPerPage \in CellIdxs
           /\ PushAP(a) % PageIdxsPerPIP \in CellIdxs
           /\ PushAP(a) >= Content[a].numAPs <=> IsNewAP(a)
           /\ IsNewAP(a) => Ceil(Content[a].numElements + 1, ElementsPerPage) = Content[a].numAPs + 1
           /\ ~IsNewAP(a) => /\ Ceil(Content[a].numElements + 1, ElementsPerPage) = Content[a].numAPs
                             /\ PushAP(a) \in APsOf(a)
           /\ IsNewAP(a) => (PushPIP(a) >= NumPIPs(a) <=> IsNewPIP(a))
           /\ IsNewPIP(a) => Ceil(Content[a].numAPs + 1, PageIdxsPerPIP) = NumPIPs(a) + 1
           /\ IsNewAP(a) /\ ~IsNewPIP(a) =>
                 /\ Ceil(Content[a].numAPs + 1, PageIdxsPerPIP) = NumPIPs(a)
                 /\ PushPIP(a) + 1 \in 1..NumPIPs(a)
<1> DEFINE n == Content[a].numElements
           c == Content[a].numAPs
           k == PushAP(a)
           j == PushPIP(a)
           m == NumPIPs(a)
           e == ElementsPerPage
           d == PageIdxsPerPIP
<1>1. e \in Nat /\ e > 0 /\ d \in Nat /\ d > 0
      /\ 0..(e - 1) \subseteq CellIdxs /\ 0..(d - 1) \subseteq CellIdxs
    BY Constants
<1>2. n \in Nat /\ c \in Nat /\ c = Ceil(n, e) /\ m \in Nat /\ m = Ceil(c, d)
    BY LayoutIs
<1>3. k = n \div e /\ j = k \div d
    BY DEF PushAP, PushPIP
<1>4. (IsNewAP(a) <=> k = c) /\ (IsNewPIP(a) <=> k = c /\ j = m)
    BY DEF IsNewAP, IsNewPIP
<1>5. APsOf(a) = 0..(c - 1)
    BY DEF APsOf, APIdxs
<1> HIDE DEF n, c, k, j, m, e, d
<1>6. k \in Nat /\ n % e \in 0..(e - 1)
    BY <1>1, <1>2, <1>3, Division
<1>7. j \in Nat /\ k % d \in 0..(d - 1)
    BY <1>1, <1>3, <1>6, Division
<1>8. /\ k <= c
      /\ k = c => Ceil(n + 1, e) = c + 1
      /\ k < c => Ceil(n + 1, e) = c
    BY <1>1, <1>2, <1>3, CeilNext
<1>9. k = c =>
          /\ j <= m
          /\ j = m => Ceil(c + 1, d) = m + 1
          /\ j < m => Ceil(c + 1, d) = m
    BY <1>1, <1>2, <1>3, CeilNext
<1>10. /\ k >= c <=> k = c
       /\ k # c => Ceil(n + 1, e) = c /\ k \in 0..(c - 1)
       /\ k = c => (j >= m <=> j = m)
       /\ k = c /\ j # m => Ceil(c + 1, d) = m /\ j + 1 \in 1..m
    BY <1>2, <1>6, <1>7, <1>8, <1>9
<1>11. n % e \in CellIdxs /\ k % d \in CellIdxs
    BY <1>1, <1>6, <1>7
<1> QED BY <1>4, <1>5, <1>6, <1>7, <1>8, <1>9, <1>10, <1>11 DEF n, c, k, j, m, e, d

\* The fields of a page that an addition changes.
SetHeader(g, n, c, p) == [g EXCEPT !.numElements = n, !.numAPs = c, !.next = p]
SetPIP(g, p, r, v) == [g EXCEPT !.next = p, !.cells[r] = v]
SetNext(g, p) == [g EXCEPT !.next = p]

\* What a page holds when it is linked to another.
LEMMA SetNextIs ==
    ASSUME NEW g, IsPage(g), NEW p, p # NullPage - 2
    PROVE  /\ IsPage(SetNext(g, p))
           /\ SetNext(g, p).next = p
           /\ SetNext(g, p).cells = g.cells
<1> DEFINE gn == g.next
           ge == g.numElements
           gm == g.numAPs
           gc == g.cells
           l == SetNext(g, p)
<1>1. g = [next |-> gn, numElements |-> ge, numAPs |-> gm, cells |-> gc]
    BY DEF IsPage
<1>2. gc = [i \in CellIdxs |-> gc[i]]
    BY DEF IsPage
<1> HIDE DEF gn, ge, gm, gc
<1>3. l = [next |-> p, numElements |-> ge, numAPs |-> gm, cells |-> gc]
    BY <1>1 DEF SetNext
<1> HIDE DEF l
<1>4. /\ IsPage(l) /\ l.next = p /\ l.cells = gc
    BY <1>2, <1>3 DEF IsPage
<1> QED BY <1>4 DEF l, gc

\* What a page holds when the fields of the header are set.
LEMMA SetHeaderIs ==
    ASSUME NEW g, IsPage(g), NEW n, NEW c, NEW p, p # NullPage - 2
    PROVE  /\ IsPage(SetHeader(g, n, c, p))
           /\ SetHeader(g, n, c, p).next = p
           /\ SetHeader(g, n, c, p).numElements = n
           /\ SetHeader(g, n, c, p).numAPs = c
<1> DEFINE gn == g.next
           ge == g.numElements
           gm == g.numAPs
           gc == g.cells
           h == SetHeader(g, n, c, p)
<1>1. g = [next |-> gn, numElements |-> ge, numAPs |-> gm, cells |-> gc]
    BY DEF IsPage
<1>2. gc = [i \in CellIdxs |-> gc[i]]
    BY DEF IsPage
<1> HIDE DEF gn, ge, gm, gc
<1>3. h = [next |-> p, numElements |-> n, numAPs |-> c, cells |-> gc]
    <2> DEFINE x == [g EXCEPT !.numElements = n]
               y == [x EXCEPT !.numAPs = c]
               z == [y EXCEPT !.next = p]
    <2>1. h = z
        BY Zenon DEF SetHeader
    <2>2. x = [next |-> gn, numElements |-> n, numAPs |-> gm, cells |-> gc]
        BY <1>1
    <2> HIDE DEF x
    <2>3. y = [next |-> gn, numElements |-> n, numAPs |-> c, cells |-> gc]
        BY <2>2
    <2> HIDE DEF y
    <2>4. z = [next |-> p, numElements |-> n, numAPs |-> c, cells |-> gc]
        BY <2>3
    <2> QED BY <2>1, <2>4
<1> HIDE DEF h
<1>4. /\ IsPage(h) /\ h.next = p /\ h.numElements = n /\ h.numAPs = c
    BY <1>2, <1>3 DEF IsPage
<1> QED BY <1>4 DEF h

\* The page after this one in the list of PIPs.
LeadsTo(g, p) == g.next = p

\* What a PIP holds when an AP is added to it.
LEMMA SetPIPIs ==
    ASSUME NEW g, IsPage(g), NEW p, p # NullPage - 2, NEW r \in CellIdxs, NEW v
    PROVE  /\ IsPage(SetPIP(g, p, r, v))
           /\ LeadsTo(SetPIP(g, p, r, v), p)
           /\ \A i \in CellIdxs : SetPIP(g, p, r, v).cells[i] = IF i = r THEN v ELSE g.cells[i]
<1> DEFINE l == SetNext(g, p)
<1>1. /\ IsPage(l) /\ l.next = p /\ l.cells = g.cells
    BY SetNextIs
<1>2. SetPIP(g, p, r, v) = SetCell(l, r, v)
    BY Zenon DEF SetPIP, SetCell, SetNext
<1> HIDE DEF l
<1>3. IsPage(SetCell(l, r, v)) /\ SetCell(l, r, v).next = l.next
    BY <1>1, SetCellIs
<1>4. \A i \in CellIdxs : SetCell(l, r, v).cells[i] = IF i = r THEN v ELSE l.cells[i]
    BY <1>1, SetCellIs
<1> QED BY <1>1, <1>2, <1>3, <1>4 DEF LeadsTo

\* What pushBack writes.
PushedHeader(a) ==
    SetHeader(Content[a], Content[a].numElements + 1,
              IF IsNewAP(a) THEN PushAP(a) + 1 ELSE Content[a].numAPs,
              IF IsNewPIP(a) /\ PushPIP(a) = 0 THEN PushPIPPage(a) ELSE Content[a].next)
PushedAP(a) ==
    SetCell(IF IsNewAP(a) THEN GarbagePage ELSE Content[PushAPPage(a)],
            Content[a].numElements % ElementsPerPage, arrayTransaction)
PushedPIP(a) ==
    IF IsNewPIP(a)
    THEN SetPIP(GarbagePage, NullPage, PushAP(a) % PageIdxsPerPIP, numFilePages)
    ELSE SetPIP(Content[PushPIPPage(a)], Content[PushPIPPage(a)].next,
                PushAP(a) % PageIdxsPerPIP, numFilePages)
LinksPIP(a, p) == IsNewPIP(a) /\ PushPIP(a) > 0 /\ p = PIPs(a)[PushPIP(a)]
LinkedPIP(a) == SetNext(Content[PIPs(a)[PushPIP(a)]], PushPIPPage(a))

\* pushBack finds the AP and the PIP of the new element, or sees that they have to be added.
LEMMA PushTarget ==
    ASSUME IInv, NEW a \in Arrays
    PROVE  /\ VersionToUpdate(a, FALSE) = Content[a]
           /\ PIPs(a)[PushPIP(a) + 1] = PIPPage(a, PushPIP(a)) \/ IsNewPIP(a)
           /\ GetAPPageIdxAndAddAPToPIPIfNecessary(a, Content[a], PushAP(a))
              = [isNewAP |-> IsNewAP(a), isNewPIP |-> IsNewPIP(a), apPage |-> PushAPPage(a),
                 pipPage |-> PushPIPPage(a)]
<1>1. VersionToUpdate(a, FALSE) = Content[a]
    BY VersionToUpdateIs, PageRanges DEF IInv
<1> DEFINE k == PushAP(a)
           j == PushPIP(a)
<1>2. /\ k \in Nat /\ j \in Nat
      /\ k >= Content[a].numAPs <=> IsNewAP(a)
      /\ IsNewAP(a) => (j >= NumPIPs(a) <=> IsNewPIP(a))
      /\ IsNewPIP(a) => IsNewAP(a)
      /\ ~IsNewAP(a) => k \in APsOf(a)
      /\ IsNewAP(a) /\ ~IsNewPIP(a) => j + 1 \in 1..NumPIPs(a)
      /\ j = k \div PageIdxsPerPIP
    BY PushCases DEF IsNewPIP, PushPIP
<1>3. ~IsNewAP(a) => j + 1 \in 1..NumPIPs(a) /\ WriteAPPage(a, k) = AP(a, k)
    BY <1>2, LayoutIs, WriteAPPageIs
<1> HIDE DEF k, j
<1>4. ~IsNewPIP(a) => PIPs(a)[j + 1] = PIPPage(a, j)
    <2>1. (j + 1) - 1 = j
        BY <1>2
    <2>2. ~IsNewPIP(a) => PIPs(a)[j + 1] = PIPPage(a, (j + 1) - 1)
        BY <1>2, <1>3, LayoutIs
    <2> QED BY <2>1, <2>2
<1>5. GetAPPageIdxAndAddAPToPIPIfNecessary(a, Content[a], k)
      = [isNewAP |-> IsNewAP(a), isNewPIP |-> IsNewPIP(a), apPage |-> PushAPPage(a),
         pipPage |-> PushPIPPage(a)]
    <2> DEFINE new == k >= Content[a].numAPs
               newPIP == new /\ k \div PageIdxsPerPIP >= Len(arrays[a].pips) + Len(arrays[a].insertedPIPs)
               ap == IF new THEN numFilePages ELSE WriteAPPage(a, k)
               pip == IF newPIP THEN numFilePages + 1 ELSE PIPPage(a, k \div PageIdxsPerPIP)
    <2>1. GetAPPageIdxAndAddAPToPIPIfNecessary(a, Content[a], k)
          = [isNewAP |-> new, isNewPIP |-> newPIP, apPage |-> ap, pipPage |-> pip]
        BY DEF GetAPPageIdxAndAddAPToPIPIfNecessary
    <2>2. new = IsNewAP(a)
        BY <1>2 DEF IsNewAP
    <2>3. newPIP = IsNewPIP(a)
        BY <1>2, <2>2 DEF NumPIPs, IsNewPIP
    <2>4. ap = PushAPPage(a)
        BY <1>3, <2>2 DEF PushAPPage, k
    <2>5. pip = PushPIPPage(a)
        BY <1>2, <1>4, <2>3 DEF PushPIPPage, j
    <2> HIDE DEF new, newPIP, ap, pip
    <2> QED BY <2>1, <2>2, <2>3, <2>4, <2>5
<1> QED BY <1>1, <1>4, <1>5 DEF k, j

\* The versions after pushBack, from its local variables.
VersionsPushed(a, header, k, j, target) ==
    [p \in PageIdxs |->
        IF p = a
        THEN [header EXCEPT !.numElements = header.numElements + 1,
                            !.numAPs = IF target.isNewAP THEN k + 1 ELSE @,
                            !.next = IF target.isNewPIP /\ j = 0 THEN target.pipPage ELSE @]
        ELSE IF p = target.apPage
        THEN [VersionToUpdate(p, target.isNewAP) EXCEPT
                !.cells[header.numElements % ElementsPerPage] = arrayTransaction]
        ELSE IF target.isNewAP /\ p = target.pipPage
        THEN [VersionToUpdate(p, target.isNewPIP) EXCEPT
                !.next = IF target.isNewPIP THEN NullPage ELSE @,
                !.cells[k % PageIdxsPerPIP] = target.apPage]
        ELSE IF target.isNewPIP /\ j > 0 /\ p = PIPPage(a, j - 1)
        THEN [VersionToUpdate(p, FALSE) EXCEPT !.next = target.pipPage]
        ELSE walVersion[p]]
VersionPushed(a, p) ==
    IF p = a THEN PushedHeader(a)
    ELSE IF p = PushAPPage(a) THEN PushedAP(a)
    ELSE IF IsNewAP(a) /\ p = PushPIPPage(a) THEN PushedPIP(a)
    ELSE IF LinksPIP(a, p) THEN LinkedPIP(a)
    ELSE walVersion[p]

\* The versions that pushBack writes.
LEMMA PushBackVersions ==
    ASSUME IInv, NEW a \in Arrays, PushBack(a)
    PROVE  walVersion' = [p \in PageIdxs |-> VersionPushed(a, p)]
<1> DEFINE h == Content[a]
           k == PushAP(a)
           j == PushPIP(a)
           t == [isNewAP |-> IsNewAP(a), isNewPIP |-> IsNewPIP(a), apPage |-> PushAPPage(a),
                 pipPage |-> PushPIPPage(a)]
<1>1. walVersion' = VersionsPushed(a, h, k, j, t)
    <2> DEFINE g == VersionToUpdate(a, FALSE)
               m == g.numElements \div ElementsPerPage
               l == m \div PageIdxsPerPIP
               s == GetAPPageIdxAndAddAPToPIPIfNecessary(a, g, m)
    <2>1. walVersion' = VersionsPushed(a, g, m, l, s)
        BY DEF PushBack, VersionsPushed
    <2>2. g = h
        BY PushTarget
    <2>3. m = k /\ l = j
        BY <2>2 DEF PushAP, PushPIP
    <2>4. s = t
        BY <2>2, <2>3, PushTarget, Zenon
    <2> HIDE DEF g, m, l, s, h, k, j, t
    <2> QED BY <2>1, <2>2, <2>3, <2>4
<1>2. /\ t.isNewAP = IsNewAP(a) /\ t.isNewPIP = IsNewPIP(a)
      /\ t.apPage = PushAPPage(a) /\ t.pipPage = PushPIPPage(a)
    OBVIOUS
<1> HIDE DEF t
<1> DEFINE V(p) ==
        IF p = a
        THEN [h EXCEPT !.numElements = h.numElements + 1,
                       !.numAPs = IF IsNewAP(a) THEN k + 1 ELSE @,
                       !.next = IF IsNewPIP(a) /\ j = 0 THEN PushPIPPage(a) ELSE @]
        ELSE IF p = PushAPPage(a)
        THEN [VersionToUpdate(p, IsNewAP(a)) EXCEPT
                !.cells[h.numElements % ElementsPerPage] = arrayTransaction]
        ELSE IF IsNewAP(a) /\ p = PushPIPPage(a)
        THEN [VersionToUpdate(p, IsNewPIP(a)) EXCEPT
                !.next = IF IsNewPIP(a) THEN NullPage ELSE @,
                !.cells[k % PageIdxsPerPIP] = PushAPPage(a)]
        ELSE IF IsNewPIP(a) /\ j > 0 /\ p = PIPPage(a, j - 1)
        THEN [VersionToUpdate(p, FALSE) EXCEPT !.next = PushPIPPage(a)]
        ELSE walVersion[p]
<1>3. walVersion' = [p \in PageIdxs |-> V(p)]
    BY <1>1, <1>2, Zenon DEF VersionsPushed
<1>4. ASSUME NEW p \in PageIdxs PROVE V(p) = VersionPushed(a, p)
    <2>1. VersionToUpdate(p, FALSE) = Content[p]
        BY VersionToUpdateIs
    <2>2. numFilePages \in Nat /\ \A q \in PageIdxs : HasVersion(q) => q < numFilePages
        BY PageRanges DEF IInv, SizesInv
    <2>3. p = numFilePages \/ p = numFilePages + 1 => VersionToUpdate(p, TRUE) = GarbagePage
        BY <2>2 DEF VersionToUpdate
    <2>4. CASE p = a
        BY <2>4, Zenon DEF VersionPushed, PushedHeader, SetHeader
    <2>5. CASE p # a /\ p = PushAPPage(a)
        <3> DEFINE g == VersionToUpdate(p, IsNewAP(a))
        <3>1. g = IF IsNewAP(a) THEN GarbagePage ELSE Content[PushAPPage(a)]
            <4>1. CASE IsNewAP(a)
                <5>1. IsNewAP(a) = TRUE /\ p = numFilePages
                    BY <2>5, <4>1 DEF PushAPPage, IsNewAP
                <5> QED BY <2>3, <4>1, <5>1
            <4>2. CASE ~IsNewAP(a)
                <5>1. IsNewAP(a) = FALSE
                    BY <4>2 DEF IsNewAP
                <5> QED BY <2>1, <2>5, <4>2, <5>1
            <4> QED BY <4>1, <4>2
        <3>2. V(p) = SetCell(g, h.numElements % ElementsPerPage, arrayTransaction)
            BY <2>5, Zenon DEF SetCell
        <3> HIDE DEF V, g
        <3> QED BY <2>5, <3>1, <3>2, Zenon DEF VersionPushed, PushedAP
    <2>6. CASE p # a /\ p # PushAPPage(a) /\ IsNewAP(a) /\ p = PushPIPPage(a)
        <3>1. PushAPPage(a) = numFilePages
            BY <2>6 DEF PushAPPage
        <3>2. CASE IsNewPIP(a)
            <4>1. IsNewPIP(a) = TRUE /\ p = numFilePages + 1
                BY <2>6, <3>2 DEF PushPIPPage, IsNewPIP, IsNewAP
            <4>2. VersionToUpdate(p, IsNewPIP(a)) = GarbagePage
                BY <2>3, <4>1
            <4>3. V(p) = SetPIP(VersionToUpdate(p, IsNewPIP(a)), NullPage, k % PageIdxsPerPIP, PushAPPage(a))
                BY <2>6, <3>2, Zenon DEF SetPIP
            <4> HIDE DEF V
            <4> QED BY <2>6, <3>1, <3>2, <4>2, <4>3, Zenon DEF VersionPushed, PushedPIP
        <3>3. CASE ~IsNewPIP(a)
            <4>1. IsNewPIP(a) = FALSE
                BY <3>3 DEF IsNewPIP, IsNewAP
            <4>2. VersionToUpdate(p, IsNewPIP(a)) = Content[p]
                BY <2>1, <4>1
            <4>3. V(p) = SetPIP(VersionToUpdate(p, IsNewPIP(a)), VersionToUpdate(p, IsNewPIP(a)).next,
                                k % PageIdxsPerPIP, PushAPPage(a))
                BY <2>6, <3>3, Zenon DEF SetPIP
            <4> HIDE DEF V
            <4> QED BY <2>6, <3>1, <3>3, <4>2, <4>3, Zenon DEF VersionPushed, PushedPIP
        <3> QED BY <3>2, <3>3
    <2>7. CASE p # a /\ p # PushAPPage(a) /\ ~(IsNewAP(a) /\ p = PushPIPPage(a))
        <3>1. IsNewPIP(a) /\ j > 0 => PIPPage(a, j - 1) = PIPs(a)[j]
            <4>1. j \in Nat /\ (IsNewPIP(a) => j = NumPIPs(a))
                BY PushCases DEF IsNewPIP
            <4>2. IsNewPIP(a) /\ j > 0 => j \in 1..NumPIPs(a)
                <5> HIDE DEF j
                <5> QED BY <4>1
            <4> QED BY <4>2, LayoutIs
        <3>2. CASE LinksPIP(a, p)
            <4>1. IsNewPIP(a) /\ j > 0 /\ p = PIPPage(a, j - 1) /\ p = PIPs(a)[j]
                BY <3>1, <3>2 DEF LinksPIP
            <4>2. V(p) = SetNext(VersionToUpdate(p, FALSE), PushPIPPage(a))
                BY <2>7, <4>1, Zenon DEF SetNext
            <4> HIDE DEF V
            <4> QED BY <2>1, <2>7, <3>2, <4>1, <4>2, Zenon DEF VersionPushed, LinkedPIP
        <3>3. CASE ~LinksPIP(a, p)
            <4>1. ~(IsNewPIP(a) /\ j > 0 /\ p = PIPPage(a, j - 1))
                BY <3>1, <3>3 DEF LinksPIP
            <4>2. V(p) = walVersion[p]
                BY <2>7, <4>1, Zenon
            <4> HIDE DEF V
            <4> QED BY <2>7, <3>3, <4>2, Zenon DEF VersionPushed
        <3> QED BY <3>2, <3>3
    <2> QED BY <2>4, <2>5, <2>6, <2>7
<1> HIDE DEF V
<1> QED BY <1>3, <1>4

\* The objects after pushBack.
LEMMA PushBackObjects ==
    ASSUME IInv, NEW a \in Arrays, PushBack(a)
    PROVE  /\ arrayPhase = "active" /\ UNCHANGED <<arrayPhase, filePages, todo>>
           /\ Content[a].numElements < MaxElements
           /\ numFilePages' = numFilePages + (IF IsNewAP(a) THEN 1 ELSE 0)
                                           + (IF IsNewPIP(a) THEN 1 ELSE 0)
           /\ numFilePages' <= MaxPages
           /\ arrays' = [b \in Arrays |-> arrays'[b]]
           /\ \A b \in Arrays \ {a} : arrays'[b] = arrays[b]
           /\ arrays'[a] =
                [header |-> arrays[a].header, pips |-> arrays[a].pips,
                 updatedPIPs |->
                    IF IsNewAP(a)
                    THEN arrays[a].updatedPIPs \cup UpdatedPIPs(a, PushPIP(a), IsNewPIP(a))
                    ELSE arrays[a].updatedPIPs,
                 insertedPIPs |->
                    IF IsNewPIP(a) THEN Append(arrays[a].insertedPIPs, PushPIPPage(a))
                    ELSE arrays[a].insertedPIPs,
                 inMemArrayPages |-> arrays[a].inMemArrayPages, hasUpdates |-> TRUE]
<1> DEFINE g == VersionToUpdate(a, FALSE)
           m == g.numElements \div ElementsPerPage
           l == m \div PageIdxsPerPIP
           s == GetAPPageIdxAndAddAPToPIPIfNecessary(a, g, m)
           U == IF s.isNewAP THEN arrays[a].updatedPIPs \cup UpdatedPIPs(a, l, s.isNewPIP)
                ELSE arrays[a].updatedPIPs
           I == IF s.isNewPIP THEN Append(arrays[a].insertedPIPs, s.pipPage)
                ELSE arrays[a].insertedPIPs
<1>1. g = Content[a]
    BY PushTarget
<1>2. m = PushAP(a) /\ l = PushPIP(a)
    BY <1>1 DEF PushAP, PushPIP
<1>3. /\ s.isNewAP = IsNewAP(a) /\ s.isNewPIP = IsNewPIP(a)
      /\ s.apPage = PushAPPage(a) /\ s.pipPage = PushPIPPage(a)
    <2>1. s = [isNewAP |-> IsNewAP(a), isNewPIP |-> IsNewPIP(a), apPage |-> PushAPPage(a),
               pipPage |-> PushPIPPage(a)]
        BY <1>1, <1>2, PushTarget, ZenonT(40)
    <2> HIDE DEF s
    <2> QED BY <2>1
<1>4. /\ arrayPhase = "active" /\ UNCHANGED <<arrayPhase, filePages, todo>>
      /\ g.numElements < MaxElements
      /\ numFilePages' = numFilePages + (IF s.isNewAP THEN 1 ELSE 0) + (IF s.isNewPIP THEN 1 ELSE 0)
      /\ numFilePages' <= MaxPages
    BY DEF PushBack
<1>5. arrays' = [arrays EXCEPT ![a].hasUpdates = TRUE, ![a].updatedPIPs = U, ![a].insertedPIPs = I]
    BY Zenon DEF PushBack
<1>6. /\ U = IF IsNewAP(a)
             THEN arrays[a].updatedPIPs \cup UpdatedPIPs(a, PushPIP(a), IsNewPIP(a))
             ELSE arrays[a].updatedPIPs
      /\ I = IF IsNewPIP(a) THEN Append(arrays[a].insertedPIPs, PushPIPPage(a))
             ELSE arrays[a].insertedPIPs
    <2> HIDE DEF s, l
    <2> QED BY <1>2, <1>3
<1> HIDE DEF g, m, l, s, U, I
<1>7. /\ arrays' = [b \in Arrays |-> arrays'[b]]
      /\ \A b \in Arrays \ {a} : arrays'[b] = arrays[b]
      /\ arrays'[a] = [header |-> arrays[a].header, pips |-> arrays[a].pips, updatedPIPs |-> U,
                       insertedPIPs |-> I, inMemArrayPages |-> arrays[a].inMemArrayPages,
                       hasUpdates |-> TRUE]
    <2> DEFINE A == arrays[a]
               x == [arrays EXCEPT ![a].hasUpdates = TRUE]
               y == [x EXCEPT ![a].updatedPIPs = U]
               z == [y EXCEPT ![a].insertedPIPs = I]
    <2>1. arrays' = z
        BY <1>5, Zenon
    <2>2. arrays = [b \in Arrays |-> arrays[b]] /\ IsObject(A)
        BY DEF IInv, TypeInv
    <2>3. A = [header |-> A.header, pips |-> A.pips, updatedPIPs |-> A.updatedPIPs,
               insertedPIPs |-> A.insertedPIPs, inMemArrayPages |-> A.inMemArrayPages,
               hasUpdates |-> A.hasUpdates]
        BY <2>2 DEF IsObject
    <2>4. /\ x = [b \in Arrays |-> x[b]] /\ \A b \in Arrays \ {a} : x[b] = arrays[b]
          /\ x[a] = [A EXCEPT !.hasUpdates = TRUE]
        BY <2>2
    <2> HIDE DEF A
    <2>5. x[a] = [header |-> A.header, pips |-> A.pips, updatedPIPs |-> A.updatedPIPs,
                  insertedPIPs |-> A.insertedPIPs, inMemArrayPages |-> A.inMemArrayPages,
                  hasUpdates |-> TRUE]
        <3> HIDE DEF x
        <3> QED BY <2>3, <2>4
    <2> HIDE DEF x
    <2>6. /\ y = [b \in Arrays |-> y[b]] /\ \A b \in Arrays \ {a} : y[b] = x[b]
          /\ y[a] = [x[a] EXCEPT !.updatedPIPs = U]
        BY <2>4
    <2> HIDE DEF y
    <2>7. y[a] = [header |-> A.header, pips |-> A.pips, updatedPIPs |-> U,
                  insertedPIPs |-> A.insertedPIPs, inMemArrayPages |-> A.inMemArrayPages,
                  hasUpdates |-> TRUE]
        BY <2>5, <2>6
    <2>8. /\ z = [b \in Arrays |-> z[b]] /\ \A b \in Arrays \ {a} : z[b] = y[b]
          /\ z[a] = [y[a] EXCEPT !.insertedPIPs = I]
        BY <2>6
    <2> HIDE DEF z
    <2>9. z[a] = [header |-> A.header, pips |-> A.pips, updatedPIPs |-> U,
                  insertedPIPs |-> I, inMemArrayPages |-> A.inMemArrayPages,
                  hasUpdates |-> TRUE]
        BY <2>7, <2>8
    <2> QED BY <2>1, <2>4, <2>6, <2>8, <2>9 DEF A
<1> QED BY <1>1, <1>3, <1>4, <1>6, <1>7

\* The pages that pushBack writes are those of the array, or new.
Touches(a, p) ==
    \/ p = a
    \/ p = PushAPPage(a)
    \/ IsNewAP(a) /\ p = PushPIPPage(a)
    \/ LinksPIP(a, p)

\* Where the pages are that pushBack writes.
LEMMA PushPages ==
    ASSUME IInv, NEW a \in Arrays
    PROVE  /\ numFilePages \in Nat
           /\ IsNewAP(a) => PushAPPage(a) = numFilePages
           /\ ~IsNewAP(a) => PushAPPage(a) = AP(a, PushAP(a)) /\ PushAP(a) \in APsOf(a)
           /\ IsNewPIP(a) => PushPIPPage(a) = numFilePages + 1 /\ IsNewAP(a) /\ PushPIP(a) = NumPIPs(a)
           /\ IsNewAP(a) /\ ~IsNewPIP(a) => /\ PushPIP(a) + 1 \in 1..NumPIPs(a)
                                            /\ PushPIPPage(a) = PIPs(a)[PushPIP(a) + 1]
           /\ \A p : LinksPIP(a, p) => /\ IsNewPIP(a) /\ PushPIP(a) \in 1..NumPIPs(a)
                                       /\ p = PIPs(a)[PushPIP(a)]
           /\ \A b \in Arrays : b \in PageIdxs /\ b < NumArrays /\ b < numFilePages
           /\ \A b \in Arrays : \A j \in 1..NumPIPs(b) :
                 PIPs(b)[j] \in PageIdxs /\ PIPs(b)[j] < numFilePages /\ PIPs(b)[j] >= NumArrays
           /\ \A b \in Arrays : \A k \in APsOf(b) :
                 AP(b, k) \in PageIdxs /\ AP(b, k) < numFilePages /\ AP(b, k) >= NumArrays
<1>1. numFilePages \in Nat
    BY PageRanges DEF IInv
<1>2. \A p : LinksPIP(a, p) => /\ IsNewPIP(a) /\ PushPIP(a) \in 1..NumPIPs(a)
                               /\ p = PIPs(a)[PushPIP(a)]
    <2>1. PushPIP(a) \in Nat
        BY PushCases
    <2> QED BY <2>1 DEF LinksPIP, IsNewPIP
<1>3. \A b \in Arrays : b \in PageIdxs /\ b < NumArrays /\ b < numFilePages
    BY PageRanges DEF IInv
<1>4. \A p \in OwnPages : p \in PageIdxs /\ p < numFilePages /\ p >= NumArrays
    BY <1>1, PageRanges, Constants DEF IInv, OwnPages
<1>5. \A b \in Arrays : \A j \in 1..NumPIPs(b) :
          PIPs(b)[j] \in PageIdxs /\ PIPs(b)[j] < numFilePages /\ PIPs(b)[j] >= NumArrays
    BY <1>4, LayoutIs
<1>6. \A b \in Arrays : \A k \in APsOf(b) :
          AP(b, k) \in PageIdxs /\ AP(b, k) < numFilePages /\ AP(b, k) >= NumArrays
    BY <1>4, LayoutIs
<1>7. /\ IsNewAP(a) => PushAPPage(a) = numFilePages
      /\ ~IsNewAP(a) => PushAPPage(a) = AP(a, PushAP(a)) /\ PushAP(a) \in APsOf(a)
      /\ IsNewPIP(a) => PushPIPPage(a) = numFilePages + 1 /\ IsNewAP(a) /\ PushPIP(a) = NumPIPs(a)
      /\ IsNewAP(a) /\ ~IsNewPIP(a) => /\ PushPIP(a) + 1 \in 1..NumPIPs(a)
                                       /\ PushPIPPage(a) = PIPs(a)[PushPIP(a) + 1]
    BY PushCases DEF PushAPPage, PushPIPPage, IsNewPIP
<1> QED BY <1>1, <1>2, <1>3, <1>5, <1>6, <1>7

\* pushBack writes to no page of another array.
LEMMA PushKeepsOthers ==
    ASSUME IInv, NEW a \in Arrays, NEW b \in Arrays, b # a
    PROVE  /\ ~Touches(a, b)
           /\ \A j \in 1..NumPIPs(b) : ~Touches(a, PIPs(b)[j])
           /\ \A k \in APsOf(b) : ~Touches(a, AP(b, k))
<1> DEFINE N == numFilePages
<1>1. /\ N \in Nat /\ NumArrays \in Nat
      /\ a < NumArrays /\ b < NumArrays /\ b < N /\ a \in Nat /\ b \in Nat
    BY PushPages, Constants, PageRanges DEF IInv
<1>2. PushAPPage(a) = N \/ \E k \in APsOf(a) : PushAPPage(a) = AP(a, k)
    BY PushPages
<1>3. IsNewAP(a) => PushPIPPage(a) = N + 1 \/ \E j \in 1..NumPIPs(a) : PushPIPPage(a) = PIPs(a)[j]
    BY PushPages
<1>4. \A p : LinksPIP(a, p) => \E j \in 1..NumPIPs(a) : p = PIPs(a)[j]
    BY PushPages
<1>5. \A p : Touches(a, p) => \/ p = a \/ p = N \/ p = N + 1
                              \/ \E k \in APsOf(a) : p = AP(a, k)
                              \/ \E j \in 1..NumPIPs(a) : p = PIPs(a)[j]
    BY <1>2, <1>3, <1>4 DEF Touches
<1>6. /\ \A c \in Arrays : \A j \in 1..NumPIPs(c) :
             PIPs(c)[j] \in Nat /\ PIPs(c)[j] < N /\ PIPs(c)[j] >= NumArrays
      /\ \A c \in Arrays : \A k \in APsOf(c) :
             AP(c, k) \in Nat /\ AP(c, k) < N /\ AP(c, k) >= NumArrays
    BY PushPages, PageRanges DEF IInv
<1> HIDE DEF N
<1>7. ~Touches(a, b)
    BY <1>1, <1>5, <1>6
<1>8. ASSUME NEW j \in 1..NumPIPs(b) PROVE ~Touches(a, PIPs(b)[j])
    <2>1. PIPs(b)[j] # a /\ PIPs(b)[j] # N /\ PIPs(b)[j] # N + 1
        BY <1>1, <1>6
    <2>2. \A k \in APsOf(a) : PIPs(b)[j] # AP(a, k)
        BY DEF IInv, SeparateInv
    <2>3. \A i \in 1..NumPIPs(a) : PIPs(b)[j] # PIPs(a)[i]
        BY DEF IInv, SeparateInv
    <2> QED BY <1>5, <2>1, <2>2, <2>3
<1>9. ASSUME NEW k \in APsOf(b) PROVE ~Touches(a, AP(b, k))
    <2>1. AP(b, k) # a /\ AP(b, k) # N /\ AP(b, k) # N + 1
        BY <1>1, <1>6
    <2>2. \A l \in APsOf(a) : AP(b, k) # AP(a, l)
        BY DEF IInv, SeparateInv
    <2>3. \A i \in 1..NumPIPs(a) : AP(b, k) # PIPs(a)[i]
        BY DEF IInv, SeparateInv
    <2> QED BY <1>5, <2>1, <2>2, <2>3
<1> QED BY <1>7, <1>8, <1>9

\* The pages that pushBack writes, field by field.
LEMMA PushedPages ==
    ASSUME IInv, NEW a \in Arrays
    PROVE  /\ IsPage(PushedHeader(a))
           /\ PushedHeader(a).numElements = Content[a].numElements + 1
           /\ PushedHeader(a).numAPs = IF IsNewAP(a) THEN PushAP(a) + 1 ELSE Content[a].numAPs
           /\ PushedHeader(a).next = IF IsNewPIP(a) /\ PushPIP(a) = 0 THEN PushPIPPage(a)
                                     ELSE Content[a].next
           /\ IsPage(PushedAP(a))
           /\ IsNewAP(a) =>
                 /\ IsPage(PushedPIP(a))
                 /\ PushedPIP(a).next = IF IsNewPIP(a) THEN NullPage ELSE Content[PushPIPPage(a)].next
                 /\ PushedPIP(a).cells[PushAP(a) % PageIdxsPerPIP] = numFilePages
                 /\ ~IsNewPIP(a) => \A i \in CellIdxs : i # PushAP(a) % PageIdxsPerPIP =>
                       PushedPIP(a).cells[i] = Content[PushPIPPage(a)].cells[i]
           /\ \A p : LinksPIP(a, p) =>
                 /\ IsPage(LinkedPIP(a))
                 /\ LinkedPIP(a).next = PushPIPPage(a)
                 /\ LinkedPIP(a).cells = Content[p].cells
<1>1. \A p \in PageIdxs : p < numFilePages => IsPage(Content[p]) /\ Content[p].next # NullPage - 2
    BY ContentIs DEF IsPage
<1>2. IsPage(Content[a]) /\ Content[a].next # NullPage - 2
    BY <1>1, PushPages
<1>3. IsNewPIP(a) => PushPIPPage(a) # NullPage - 2
    BY PushPages DEF NullPage
<1>4. NullPage # NullPage - 2
    BY DEF NullPage
<1>5. Content[a].numElements % ElementsPerPage \in CellIdxs /\ PushAP(a) % PageIdxsPerPIP \in CellIdxs
    BY PushCases
<1>6. /\ IsPage(PushedHeader(a))
      /\ PushedHeader(a).numElements = Content[a].numElements + 1
      /\ PushedHeader(a).numAPs = IF IsNewAP(a) THEN PushAP(a) + 1 ELSE Content[a].numAPs
      /\ PushedHeader(a).next = IF IsNewPIP(a) /\ PushPIP(a) = 0 THEN PushPIPPage(a)
                                ELSE Content[a].next
    <2> DEFINE n == Content[a].numElements + 1
               c == IF IsNewAP(a) THEN PushAP(a) + 1 ELSE Content[a].numAPs
               x == IF IsNewPIP(a) /\ PushPIP(a) = 0 THEN PushPIPPage(a) ELSE Content[a].next
    <2>1. PushedHeader(a) = SetHeader(Content[a], n, c, x)
        BY DEF PushedHeader
    <2>2. x # NullPage - 2
        BY <1>2, <1>3
    <2> HIDE DEF n, c, x
    <2>3. /\ IsPage(PushedHeader(a)) /\ PushedHeader(a).numElements = n
          /\ PushedHeader(a).numAPs = c /\ PushedHeader(a).next = x
        BY <1>2, <2>1, <2>2, SetHeaderIs
    <2> QED BY <2>3 DEF n, c, x
<1>7. IsPage(PushedAP(a))
    <2> DEFINE g == IF IsNewAP(a) THEN GarbagePage ELSE Content[PushAPPage(a)]
    <2>1. IsPage(g)
        BY <1>1, PushPages, PagesExist
    <2> HIDE DEF g
    <2>2. IsPage(SetCell(g, Content[a].numElements % ElementsPerPage, arrayTransaction))
        BY <1>5, <2>1, SetCellIs
    <2> QED BY <2>2 DEF PushedAP, g
<1>8. ASSUME IsNewAP(a)
      PROVE  /\ IsPage(PushedPIP(a))
             /\ PushedPIP(a).next = IF IsNewPIP(a) THEN NullPage ELSE Content[PushPIPPage(a)].next
             /\ PushedPIP(a).cells[PushAP(a) % PageIdxsPerPIP] = numFilePages
             /\ ~IsNewPIP(a) => \A i \in CellIdxs : i # PushAP(a) % PageIdxsPerPIP =>
                   PushedPIP(a).cells[i] = Content[PushPIPPage(a)].cells[i]
    <2> DEFINE g == IF IsNewPIP(a) THEN GarbagePage ELSE Content[PushPIPPage(a)]
               x == IF IsNewPIP(a) THEN NullPage ELSE Content[PushPIPPage(a)].next
               r == PushAP(a) % PageIdxsPerPIP
    <2>1. IsPage(g) /\ x # NullPage - 2
        BY <1>1, <1>4, <1>8, PushPages, PagesExist
    <2>2. PushedPIP(a) = SetPIP(g, x, r, numFilePages)
        BY DEF PushedPIP
    <2>3. r \in CellIdxs
        BY <1>5
    <2>4. ~IsNewPIP(a) => g = Content[PushPIPPage(a)]
        OBVIOUS
    <2> HIDE DEF g, x, r
    <2>5. /\ IsPage(PushedPIP(a)) /\ PushedPIP(a).next = x
          /\ \A i \in CellIdxs : PushedPIP(a).cells[i] = IF i = r THEN numFilePages ELSE g.cells[i]
        <3> DEFINE h == SetPIP(g, x, r, numFilePages)
        <3>1. IsPage(SetPIP(g, x, r, numFilePages))
            BY <2>1, <2>3, SetPIPIs
        <3>2. LeadsTo(SetPIP(g, x, r, numFilePages), x)
            BY <2>1, <2>3, SetPIPIs
        <3>3. IsPage(h) /\ h.next = x
            BY <3>1, <3>2 DEF LeadsTo
        <3>4. \A i \in CellIdxs : h.cells[i] = IF i = r THEN numFilePages ELSE g.cells[i]
            BY <2>1, <2>3, SetPIPIs
        <3> HIDE DEF h
        <3>5. PushedPIP(a) = h
            BY <2>2 DEF h
        <3> QED BY <3>3, <3>4, <3>5
    <2>6. PushedPIP(a).cells[r] = numFilePages
        BY <2>3, <2>5
    <2>7. ~IsNewPIP(a) => \A i \in CellIdxs : i # r =>
              PushedPIP(a).cells[i] = Content[PushPIPPage(a)].cells[i]
        BY <2>4, <2>5
    <2> QED BY <2>5, <2>6, <2>7 DEF x, r
<1>9. ASSUME NEW p, LinksPIP(a, p)
      PROVE  /\ IsPage(LinkedPIP(a))
             /\ LinkedPIP(a).next = PushPIPPage(a)
             /\ LinkedPIP(a).cells = Content[p].cells
    <2>1. p = PIPs(a)[PushPIP(a)] /\ IsPage(Content[p]) /\ PushPIPPage(a) # NullPage - 2
        BY <1>1, <1>3, <1>9, PushPages
    <2>2. LinkedPIP(a) = SetNext(Content[p], PushPIPPage(a))
        BY <2>1 DEF LinkedPIP
    <2> QED BY <2>1, <2>2, SetNextIs
<1> QED BY <1>6, <1>7, <1>8, <1>9

\* The content of the pages after pushBack.
LEMMA PushBackPages ==
    ASSUME IInv, NEW a \in Arrays, PushBack(a)
    PROVE  /\ IsFile(walVersion)'
           /\ \A p \in PageIdxs : Touches(a, p) => HasVersion(p)' /\ Content'[p] = VersionPushed(a, p)
           /\ \A p \in PageIdxs : ~Touches(a, p) =>
                 /\ HasVersion(p)' <=> HasVersion(p)
                 /\ Content'[p] = Content[p] /\ walVersion'[p] = walVersion[p]
<1>1. walVersion' = [p \in PageIdxs |-> VersionPushed(a, p)] /\ UNCHANGED filePages
    BY PushBackVersions, PushBackObjects
<1>2. \A p \in PageIdxs : walVersion'[p] = VersionPushed(a, p)
    BY <1>1
<1>3. \A p \in PageIdxs : Touches(a, p) => IsPage(VersionPushed(a, p))
    BY PushedPages DEF Touches, VersionPushed
<1>4. \A p \in PageIdxs : ~Touches(a, p) => VersionPushed(a, p) = walVersion[p]
    BY DEF Touches, VersionPushed
<1>5. \A p \in PageIdxs : Touches(a, p) => VersionPushed(a, p) # NoVersion
    BY <1>3, PagesExist
<1>6. \A p \in PageIdxs : /\ Touches(a, p) => HasVersion(p)'
                          /\ ~Touches(a, p) => (HasVersion(p)' <=> HasVersion(p))
    BY <1>2, <1>4, <1>5 DEF HasVersion
<1>7. \A p \in PageIdxs : Content'[p] = IF HasVersion(p)' THEN walVersion'[p] ELSE filePages[p]
    BY <1>1 DEF Content, ReplayPages
<1>8. IsFile(walVersion)'
    <2>1. \A p \in PageIdxs : walVersion[p] = NoVersion \/ IsPage(walVersion[p])
        BY DEF IInv, TypeInv, IsFile
    <2>2. \A p \in PageIdxs : walVersion'[p] = NoVersion \/ IsPage(walVersion'[p])
        BY <1>2, <1>3, <1>4, <2>1
    <2>3. walVersion' = [p \in PageIdxs |-> walVersion'[p]]
        BY <1>1
    <2> QED BY <2>2, <2>3 DEF IsFile
<1>9. \A p \in PageIdxs : Touches(a, p) => Content'[p] = VersionPushed(a, p)
    BY <1>2, <1>6, <1>7
<1>10. \A p \in PageIdxs : ~Touches(a, p) => Content'[p] = Content[p] /\ walVersion'[p] = walVersion[p]
    BY <1>2, <1>4, <1>6, <1>7, ContentIs
<1> QED BY <1>6, <1>8, <1>9, <1>10

\* The PIPs after pushBack.
LEMMA PushBackPIPs ==
    ASSUME IInv, NEW a \in Arrays, PushBack(a)
    PROVE  /\ \A b \in Arrays : SameReaderObject(b)
           /\ \A b \in Arrays \ {a} : SameObject(b) /\ SamePIPs(b)
           /\ NumPIPs(a)' = IF IsNewPIP(a) THEN NumPIPs(a) + 1 ELSE NumPIPs(a)
           /\ NumPIPs(a)' \in Nat
           /\ \A j \in 1..NumPIPs(a) : PIPs(a)'[j] = PIPs(a)[j]
           /\ IsNewPIP(a) => PIPs(a)'[NumPIPs(a) + 1] = numFilePages + 1
           /\ Len(PIPs(a)') = NumPIPs(a)'
           /\ arrays'[a].hasUpdates
           /\ \A b \in Arrays : IsObject(arrays'[b])
<1> DEFINE A == arrays[a]
           B == arrays'[a]
           I == IF IsNewPIP(a) THEN Append(A.insertedPIPs, PushPIPPage(a)) ELSE A.insertedPIPs
           U == IF IsNewAP(a) THEN A.updatedPIPs \cup UpdatedPIPs(a, PushPIP(a), IsNewPIP(a))
                ELSE A.updatedPIPs
<1>1. /\ \A b \in Arrays \ {a} : arrays'[b] = arrays[b]
      /\ B = [header |-> A.header, pips |-> A.pips, updatedPIPs |-> U, insertedPIPs |-> I,
              inMemArrayPages |-> A.inMemArrayPages, hasUpdates |-> TRUE]
    BY PushBackObjects
<1> HIDE DEF U, I, B
<1>2. /\ B.header = A.header /\ B.pips = A.pips /\ B.inMemArrayPages = A.inMemArrayPages
      /\ B.updatedPIPs = U /\ B.insertedPIPs = I /\ B.hasUpdates = TRUE
    BY <1>1
<1>3. \A b \in Arrays : SameReaderObject(b)
    BY <1>1, <1>2 DEF SameReaderObject, B
<1>4. \A b \in Arrays \ {a} : SameObject(b) /\ SamePIPs(b)
    <2>1. \A b \in Arrays \ {a} : SameObject(b)
        BY <1>1 DEF SameObject
    <2> QED BY <2>1, SameObjectIs
<1>5. /\ A.insertedPIPs \in Seq(PageIdxs) /\ Len(A.pips) \in Nat /\ Len(A.insertedPIPs) \in Nat
      /\ IsObject(A)
    BY LayoutIs DEF IInv, TypeInv, IsObject
<1>6. numFilePages \in Nat /\ numFilePages' <= MaxPages /\ (IsNewPIP(a) => IsNewAP(a))
      /\ numFilePages' = numFilePages + (IF IsNewAP(a) THEN 1 ELSE 0)
                                      + (IF IsNewPIP(a) THEN 1 ELSE 0)
    BY PushBackObjects, PushPages
<1>7. IsNewPIP(a) => PushPIPPage(a) = numFilePages + 1 /\ PushPIPPage(a) \in PageIdxs
    <2>1. IsNewPIP(a) => numFilePages + 1 \in 0..(MaxPages - 1)
        BY <1>6, Constants
    <2> QED BY <2>1, PushPages DEF PageIdxs
<1>8. /\ I \in Seq(PageIdxs)
      /\ Len(I) = IF IsNewPIP(a) THEN Len(A.insertedPIPs) + 1 ELSE Len(A.insertedPIPs)
      /\ \A i \in 1..Len(A.insertedPIPs) : I[i] = A.insertedPIPs[i]
      /\ IsNewPIP(a) => I[Len(A.insertedPIPs) + 1] = numFilePages + 1
    <2> DEFINE s == A.insertedPIPs
               v == PushPIPPage(a)
    <2>1. s \in Seq(PageIdxs)
        BY <1>5
    <2> HIDE DEF s
    <2>2. CASE IsNewPIP(a)
        <3>1. I = Append(s, v) /\ v \in PageIdxs /\ v = numFilePages + 1
            BY <1>7, <2>2 DEF I, s
        <3> HIDE DEF v
        <3>2. /\ Append(s, v) \in Seq(PageIdxs) /\ Len(Append(s, v)) = Len(s) + 1
              /\ \A i \in 1..Len(s) : Append(s, v)[i] = s[i]
              /\ Append(s, v)[Len(s) + 1] = v
            BY <2>1, <3>1, AppendProperties
        <3> QED BY <2>2, <3>1, <3>2 DEF s
    <2>3. CASE ~IsNewPIP(a)
        <3>1. I = s
            BY <2>3 DEF I, s
        <3> QED BY <2>1, <2>3, <3>1 DEF s
    <2> QED BY <2>2, <2>3
<1> DEFINE x == Len(A.pips)
           y == Len(A.insertedPIPs)
           z == Len(I)
<1>9. /\ x \in Nat /\ y \in Nat /\ z = IF IsNewPIP(a) THEN y + 1 ELSE y
      /\ NumPIPs(a) = x + y /\ NumPIPs(a)' = x + z
    BY <1>2, <1>5, <1>8 DEF NumPIPs, B
<1>10. /\ \A j : PIPPage(a, j) = IF j < x THEN A.pips[j + 1].page ELSE A.insertedPIPs[(j - x) + 1]
       /\ \A j : PIPPage(a, j)' = IF j < x THEN A.pips[j + 1].page ELSE I[(j - x) + 1]
    BY <1>2 DEF PIPPage, B
<1>11. /\ \A i \in 1..y : I[i] = A.insertedPIPs[i]
       /\ IsNewPIP(a) => I[y + 1] = numFilePages + 1
    BY <1>8
<1>12. PIPs(a)' = [j \in 1..NumPIPs(a)' |-> PIPPage(a, j - 1)']
    BY DEF PIPs
<1>13. PIPs(a) = [j \in 1..NumPIPs(a) |-> PIPPage(a, j - 1)]
    BY DEF PIPs
<1> HIDE DEF x, y, z, A
<1>14. NumPIPs(a)' = (IF IsNewPIP(a) THEN NumPIPs(a) + 1 ELSE NumPIPs(a)) /\ NumPIPs(a)' \in Nat
    BY <1>9
<1>15. ASSUME NEW j \in 1..NumPIPs(a) PROVE PIPs(a)'[j] = PIPs(a)[j]
    <2>1. j \in Nat /\ j \in 1..NumPIPs(a)'
        BY <1>9, <1>14
    <2>2. PIPs(a)'[j] = PIPPage(a, j - 1)' /\ PIPs(a)[j] = PIPPage(a, j - 1)
        BY <1>12, <1>13, <2>1
    <2>3. CASE j - 1 < x
        BY <1>10, <2>2, <2>3
    <2>4. CASE ~(j - 1 < x)
        <3>1. (j - 1) - x + 1 \in 1..y
            BY <1>9, <2>1, <2>4
        <3> QED BY <1>10, <1>11, <2>2, <2>4, <3>1
    <2> QED BY <2>3, <2>4
<1>16. ASSUME IsNewPIP(a) PROVE PIPs(a)'[NumPIPs(a) + 1] = numFilePages + 1
    <2>1. PICK j : j = NumPIPs(a) + 1
        OBVIOUS
    <2>2. j \in 1..NumPIPs(a)' /\ ~(j - 1 < x) /\ (j - 1) - x + 1 = y + 1
        BY <1>9, <1>14, <1>16, <2>1
    <2>3. PIPs(a)'[j] = PIPPage(a, j - 1)'
        BY <1>12, <2>2
    <2>4. PIPPage(a, j - 1)' = I[y + 1]
        BY <1>10, <2>2
    <2> QED BY <1>11, <1>16, <2>1, <2>3, <2>4
<1>17. Len(PIPs(a)') = NumPIPs(a)'
    BY <1>12, <1>14
<1>18. ASSUME NEW b \in Arrays PROVE IsObject(arrays'[b])
    <2>1. CASE b # a
        BY <1>1, <2>1 DEF IInv, TypeInv
    <2>2. U \subseteq 0..(x - 1)
        <3>1. A.updatedPIPs \subseteq 0..(x - 1)
            BY <1>5 DEF IsObject, x, A
        <3>2. UpdatedPIPs(a, PushPIP(a), IsNewPIP(a)) \subseteq 0..(x - 1)
            BY DEF UpdatedPIPs, x, A
        <3> QED BY <3>1, <3>2 DEF U
    <2>3. B = [header |-> B.header, pips |-> B.pips, updatedPIPs |-> B.updatedPIPs,
               insertedPIPs |-> B.insertedPIPs, inMemArrayPages |-> B.inMemArrayPages,
               hasUpdates |-> B.hasUpdates]
        <3>1. B = [header |-> A.header, pips |-> A.pips, updatedPIPs |-> U, insertedPIPs |-> I,
                   inMemArrayPages |-> A.inMemArrayPages, hasUpdates |-> TRUE]
            BY <1>1 DEF A
        <3> QED BY <3>1
    <2>4. /\ B.header = A.header /\ B.pips = A.pips /\ B.inMemArrayPages = A.inMemArrayPages
          /\ B.updatedPIPs = U /\ B.insertedPIPs = I /\ B.hasUpdates = TRUE
          /\ IsObject(A)
        BY <1>2, <1>5 DEF A
    <2>5. IsObject(B)
        BY <1>8, <2>2, <2>3, <2>4 DEF IsObject, x
    <2> QED BY <2>1, <2>5 DEF B
<1> QED BY <1>2, <1>3, <1>4, <1>14, <1>15, <1>16, <1>17, <1>18 DEF B

\* The PIPs of the array keep their links and cells, except for what is added.
LEMMA PushBackChain ==
    ASSUME IInv, NEW a \in Arrays, PushBack(a)
    PROVE  /\ Content'[a] = PushedHeader(a)
           /\ \A j \in 1..NumPIPs(a) :
                 /\ Content'[PIPs(a)[j]].next =
                        IF IsNewPIP(a) /\ j = NumPIPs(a) THEN numFilePages + 1
                        ELSE Content[PIPs(a)[j]].next
                 /\ \A i \in CellIdxs :
                       Content'[PIPs(a)[j]].cells[i] =
                           IF /\ IsNewAP(a) /\ ~IsNewPIP(a)
                              /\ j = PushPIP(a) + 1 /\ i = PushAP(a) % PageIdxsPerPIP
                           THEN numFilePages ELSE Content[PIPs(a)[j]].cells[i]
           /\ IsNewPIP(a) =>
                 /\ Content'[numFilePages + 1].next = NullPage
                 /\ Content'[numFilePages + 1].cells[PushAP(a) % PageIdxsPerPIP] = numFilePages
<1> DEFINE N == numFilePages
<1>1. /\ N \in Nat /\ NumArrays \in Nat /\ a \in Nat /\ a < NumArrays /\ a < N /\ a \in PageIdxs
      /\ NumPIPs(a) \in Nat /\ PushPIP(a) \in Nat
    BY PushPages, PushCases, LayoutIs, Constants, PageRanges DEF IInv
<1>2. /\ \A p \in PageIdxs : Touches(a, p) => Content'[p] = VersionPushed(a, p)
      /\ \A p \in PageIdxs : ~Touches(a, p) => Content'[p] = Content[p]
    BY PushBackPages
<1>3. Content'[a] = PushedHeader(a)
    BY <1>1, <1>2 DEF Touches, VersionPushed
<1>4. ASSUME NEW j \in 1..NumPIPs(a)
      PROVE  /\ Content'[PIPs(a)[j]].next =
                    IF IsNewPIP(a) /\ j = NumPIPs(a) THEN N + 1 ELSE Content[PIPs(a)[j]].next
             /\ \A i \in CellIdxs :
                   Content'[PIPs(a)[j]].cells[i] =
                       IF /\ IsNewAP(a) /\ ~IsNewPIP(a)
                          /\ j = PushPIP(a) + 1 /\ i = PushAP(a) % PageIdxsPerPIP
                       THEN N ELSE Content[PIPs(a)[j]].cells[i]
    <2> DEFINE p == PIPs(a)[j]
    <2>1. p \in PageIdxs /\ p \in Nat /\ p < N /\ p >= NumArrays
        BY PushPages, PageRanges DEF IInv
    <2>2. p # a /\ p # N /\ p # N + 1
        BY <1>1, <2>1
    <2>3. p # PushAPPage(a)
        <3>1. CASE IsNewAP(a)
            BY <2>2, <3>1, PushPages
        <3>2. CASE ~IsNewAP(a)
            <4>1. PushAPPage(a) = AP(a, PushAP(a)) /\ PushAP(a) \in APsOf(a)
                BY <3>2, PushPages
            <4> QED BY <4>1 DEF IInv, SeparateInv
        <3> QED BY <3>1, <3>2
    <2>4. \A i \in 1..NumPIPs(a) : p = PIPs(a)[i] => i = j
        BY DEF IInv, SeparateInv
    <2>5. CASE IsNewAP(a) /\ ~IsNewPIP(a) /\ j = PushPIP(a) + 1
        <3>1. p = PushPIPPage(a)
            BY <2>5, PushPages
        <3>2. Content'[p] = PushedPIP(a)
            BY <1>2, <2>1, <2>2, <2>3, <2>5, <3>1 DEF Touches, VersionPushed
        <3>3. /\ PushedPIP(a).next = Content[p].next
              /\ PushedPIP(a).cells[PushAP(a) % PageIdxsPerPIP] = N
              /\ \A i \in CellIdxs : i # PushAP(a) % PageIdxsPerPIP =>
                     PushedPIP(a).cells[i] = Content[p].cells[i]
            BY <2>5, <3>1, PushedPages
        <3> HIDE DEF p
        <3>4. /\ Content'[p].next = Content[p].next
              /\ \A i \in CellIdxs : Content'[p].cells[i] =
                    IF i = PushAP(a) % PageIdxsPerPIP THEN N ELSE Content[p].cells[i]
            BY <3>2, <3>3
        <3> QED BY <2>5, <3>4 DEF p
    <2>6. CASE IsNewPIP(a) /\ j = NumPIPs(a)
        <3>1. LinksPIP(a, p) /\ IsNewAP(a) /\ PushPIPPage(a) = N + 1
            BY <1>1, <2>6, PushPages DEF LinksPIP
        <3>2. Content'[p] = LinkedPIP(a)
            BY <1>2, <2>1, <2>2, <2>3, <3>1 DEF Touches, VersionPushed
        <3>3. LinkedPIP(a).next = N + 1 /\ LinkedPIP(a).cells = Content[p].cells
            BY <3>1, PushedPages
        <3> QED BY <2>6, <3>2, <3>3
    <2>7. CASE ~(IsNewAP(a) /\ ~IsNewPIP(a) /\ j = PushPIP(a) + 1) /\ ~(IsNewPIP(a) /\ j = NumPIPs(a))
        <3>1. ~(IsNewAP(a) /\ p = PushPIPPage(a))
            BY <2>2, <2>4, <2>7, PushPages
        <3>2. ~LinksPIP(a, p)
            BY <2>4, <2>7, PushPages
        <3>3. Content'[p] = Content[p]
            BY <1>2, <2>1, <2>2, <2>3, <3>1, <3>2 DEF Touches
        <3> QED BY <2>7, <3>3
    <2> QED BY <2>5, <2>6, <2>7
<1>5. ASSUME IsNewPIP(a)
      PROVE  /\ Content'[N + 1].next = NullPage
             /\ Content'[N + 1].cells[PushAP(a) % PageIdxsPerPIP] = N
    <2>1. PushPIPPage(a) = N + 1 /\ PushAPPage(a) = N /\ IsNewAP(a)
        BY <1>5, PushPages
    <2>2. N + 1 \in PageIdxs
        <3>1. numFilePages' = N + 1 + 1 /\ numFilePages' <= MaxPages
            BY <1>5, <2>1, PushBackObjects
        <3> HIDE DEF N
        <3>2. N + 2 <= MaxPages
            BY <1>1, <3>1
        <3> QED BY <1>1, <3>2, Constants DEF PageIdxs
    <2>3. N + 1 # a /\ N + 1 # N
        BY <1>1
    <2>4. Content'[N + 1] = PushedPIP(a)
        BY <1>2, <2>1, <2>2, <2>3 DEF Touches, VersionPushed
    <2> QED BY <1>5, <2>1, <2>4, PushedPages
<1> QED BY <1>3, <1>4, <1>5

\* The APs after pushBack.
LEMMA PushBackAPs ==
    ASSUME IInv, NEW a \in Arrays, PushBack(a)
    PROVE  /\ Content'[a].numElements = Content[a].numElements + 1
           /\ Content'[a].numAPs = IF IsNewAP(a) THEN Content[a].numAPs + 1 ELSE Content[a].numAPs
           /\ \A k \in APsOf(a) : k \in APsOf(a)' /\ AP(a, k)' = AP(a, k)
           /\ \A k \in APsOf(a)' : k \in APsOf(a) \/ (IsNewAP(a) /\ k = Content[a].numAPs)
           /\ IsNewAP(a) => \A k : k = Content[a].numAPs => k \in APsOf(a)' /\ AP(a, k)' = numFilePages
<1> DEFINE c == Content[a].numAPs
           j == PushPIP(a)
           d == PageIdxsPerPIP
<1>1. /\ c \in Nat /\ NumPIPs(a) \in Nat /\ j \in Nat /\ PushAP(a) \in Nat
      /\ d \in Nat /\ d > 0
      /\ IsNewAP(a) => PushAP(a) = c
      /\ IsNewPIP(a) => IsNewAP(a) /\ j = NumPIPs(a)
      /\ j = PushAP(a) \div d
    BY LayoutIs, PushCases, Constants DEF IsNewAP, IsNewPIP, PushPIP
<1>2. /\ Content'[a].numElements = Content[a].numElements + 1
      /\ Content'[a].numAPs = IF IsNewAP(a) THEN c + 1 ELSE c
    BY <1>1, PushBackChain, PushedPages
<1>3. APsOf(a) = 0..(c - 1) /\ APsOf(a)' = 0..(Content'[a].numAPs - 1)
    BY DEF APsOf, APIdxs
<1> HIDE DEF c, j, d
<1>4. /\ \A k \in APsOf(a) : k \in APsOf(a)'
      /\ \A k \in APsOf(a)' : k \in APsOf(a) \/ (IsNewAP(a) /\ k = c)
      /\ IsNewAP(a) => c \in APsOf(a)'
    BY <1>1, <1>2, <1>3
<1>5. /\ \A i \in 1..NumPIPs(a) : PIPs(a)'[i] = PIPs(a)[i]
      /\ IsNewPIP(a) => PIPs(a)'[NumPIPs(a) + 1] = numFilePages + 1
    BY PushBackPIPs
<1>6. ASSUME NEW k \in APsOf(a) PROVE AP(a, k)' = AP(a, k)
    <2> DEFINE i == k \div PageIdxsPerPIP + 1
               r == k % PageIdxsPerPIP
    <2>1. /\ k \in Nat /\ k < c /\ i \in 1..NumPIPs(a) /\ r \in CellIdxs
          /\ AP(a, k) = Content[PIPs(a)[i]].cells[r]
        <3>1. k \in Nat /\ k < c
            BY <1>1, <1>3
        <3>2. i \in 1..NumPIPs(a) /\ AP(a, k) = Content[PIPs(a)[i]].cells[r]
            BY LayoutIs
        <3>3. r \in CellIdxs
            BY LayoutIs, Constants
        <3> QED BY <3>1, <3>2, <3>3
    <2>2. k \div d \in Nat /\ k = d * (k \div d) + (k % d)
        BY <1>1, <2>1, Division
    <2>3. 1 + k \div PageIdxsPerPIP = i
        BY <2>2 DEF d
    <2>4. AP(a, k)' = Content'[PIPs(a)'[i]].cells[r]
        BY <2>3 DEF AP, APIn
    <2>5. ~(IsNewAP(a) /\ ~IsNewPIP(a) /\ i = j + 1 /\ r = PushAP(a) % PageIdxsPerPIP)
        <3> SUFFICES ASSUME IsNewAP(a), i = j + 1, r = PushAP(a) % PageIdxsPerPIP PROVE FALSE
            OBVIOUS
        <3>1. k \div d = PushAP(a) \div d /\ k % d = PushAP(a) % d
            <4>1. k \div d + 1 = j + 1 /\ k % d = PushAP(a) % d
                BY DEF d
            <4> QED BY <1>1, <2>2, <4>1
        <3>2. PushAP(a) = d * (PushAP(a) \div d) + (PushAP(a) % d)
            BY <1>1, Division
        <3>3. PushAP(a) = k
            BY <2>2, <3>1, <3>2
        <3> QED BY <1>1, <2>1, <3>3
    <2> HIDE DEF i, r
    <2>6. Content'[PIPs(a)[i]].cells[r] = Content[PIPs(a)[i]].cells[r]
        BY <2>1, <2>5, PushBackChain DEF j
    <2> QED BY <1>5, <2>1, <2>4, <2>6
<1>7. ASSUME IsNewAP(a), NEW k, k = c PROVE AP(a, k)' = numFilePages
    <2> DEFINE r == k % PageIdxsPerPIP
    <2>1. k = PushAP(a) /\ k \div PageIdxsPerPIP = j
        BY <1>1, <1>7 DEF d
    <2>2. 1 + k \div PageIdxsPerPIP = j + 1
        BY <1>1, <2>1
    <2>3. AP(a, k)' = Content'[PIPs(a)'[j + 1]].cells[r]
        BY <2>2 DEF AP, APIn
    <2>4. r \in CellIdxs /\ r = PushAP(a) % PageIdxsPerPIP
        BY <2>1, PushCases
    <2>5. CASE IsNewPIP(a)
        <3>1. PIPs(a)'[j + 1] = numFilePages + 1
            BY <1>1, <1>5, <2>5
        <3>2. Content'[numFilePages + 1].cells[r] = numFilePages
            BY <2>4, <2>5, PushBackChain
        <3> QED BY <2>3, <3>1, <3>2
    <2>6. CASE ~IsNewPIP(a)
        <3>1. j + 1 \in 1..NumPIPs(a)
            BY <1>7, <2>6, PushPages DEF j
        <3> HIDE DEF r
        <3>2. Content'[PIPs(a)[j + 1]].cells[r] = numFilePages
            BY <1>7, <2>4, <2>6, <3>1, PushBackChain DEF j
        <3> QED BY <1>5, <2>3, <3>1, <3>2
    <2> QED BY <2>5, <2>6
<1> QED BY <1>2, <1>4, <1>6, <1>7 DEF c

\* After pushBack the header leads to the PIPs, and there are enough of them for one more element.
LEMMA PushBackIsArray ==
    ASSUME IInv, NEW a \in Arrays, PushBack(a)
    PROVE  IsArrayIn(Content, a, PIPs(a))'
<1> DEFINE n == Content[a].numElements
           c == Content[a].numAPs
           m == NumPIPs(a)
           N == numFilePages
           s == PIPs(a)'
           m2 == NumPIPs(a)'
<1>1. /\ n \in Nat /\ c \in Nat /\ m \in Nat /\ N \in Nat
      /\ n < MaxElements /\ MaxElements \in Nat
    BY LayoutIs, PushPages, PushBackObjects, Constants
<1>2. /\ Content'[a].numElements = n + 1
      /\ Content'[a].numAPs = IF IsNewAP(a) THEN c + 1 ELSE c
    BY PushBackAPs
<1>3. /\ m2 = IF IsNewPIP(a) THEN m + 1 ELSE m
      /\ m2 \in Nat /\ Len(s) = m2
      /\ \A j \in 1..m : s[j] = PIPs(a)[j]
      /\ IsNewPIP(a) => s[m + 1] = N + 1
    BY PushBackPIPs
<1>4. n + 1 \in 0..MaxElements
    BY <1>1
<1>5. Content'[a].numAPs = NumAPsFor(n + 1)
    <2>1. Ceil(n + 1, ElementsPerPage) = IF IsNewAP(a) THEN c + 1 ELSE c
        BY PushCases
    <2> QED BY <1>2, <2>1 DEF Ceil, NumAPsFor
<1>6. m2 = NumPIPsFor(n + 1)
    <2>1. ~IsNewAP(a) => Ceil(c, PageIdxsPerPIP) = m /\ ~IsNewPIP(a)
        BY LayoutIs DEF IsNewPIP
    <2>2. IsNewAP(a) => Ceil(c + 1, PageIdxsPerPIP) = IF IsNewPIP(a) THEN m + 1 ELSE m
        BY PushCases
    <2>3. m2 = Ceil(Content'[a].numAPs, PageIdxsPerPIP)
        BY <1>2, <1>3, <2>1, <2>2
    <2> QED BY <1>5, <2>3 DEF Ceil, NumPIPsFor
<1>7. /\ Content[a].next = IF m = 0 THEN NullPage ELSE PIPs(a)[1]
      /\ \A j \in 1..m : Content[PIPs(a)[j]].next = IF j < m THEN PIPs(a)[j + 1] ELSE NullPage
    <2>1. IsArrayIn(Content, a, PIPs(a)) /\ Len(PIPs(a)) = m
        BY LayoutIs DEF IInv, LayoutInv
    <2> QED BY <2>1 DEF IsArrayIn
<1>8. Content'[a].next = IF IsNewPIP(a) /\ m = 0 THEN N + 1 ELSE Content[a].next
    <2>1. Content'[a].next = IF IsNewPIP(a) /\ PushPIP(a) = 0 THEN PushPIPPage(a) ELSE Content[a].next
        BY PushBackChain, PushedPages
    <2>2. IsNewPIP(a) => PushPIP(a) = m /\ PushPIPPage(a) = N + 1
        BY PushPages
    <2> QED BY <2>1, <2>2
<1>9. /\ \A j \in 1..m : Content'[PIPs(a)[j]].next =
                            IF IsNewPIP(a) /\ j = m THEN N + 1 ELSE Content[PIPs(a)[j]].next
      /\ IsNewPIP(a) => Content'[N + 1].next = NullPage
    BY PushBackChain
<1>10. Content'[a].next = IF m2 = 0 THEN NullPage ELSE s[1]
    <2> HIDE DEF n, c, m, N, s, m2
    <2>1. CASE m = 0
        BY <1>3, <1>7, <1>8, <2>1
    <2>2. CASE m # 0
        <3>1. m2 # 0 /\ 1 \in 1..m
            BY <1>1, <1>3, <2>2
        <3> QED BY <1>3, <1>7, <1>8, <2>2, <3>1
    <2> QED BY <2>1, <2>2
<1>11. ASSUME NEW j \in 1..m2
       PROVE  Content'[s[j]].next = IF j < m2 THEN s[j + 1] ELSE NullPage
    <2> HIDE DEF n, c, m, N, s, m2
    <2>1. CASE j \in 1..m
        <3>1. s[j] = PIPs(a)[j]
            BY <1>3, <2>1
        <3>2. CASE IsNewPIP(a) /\ j = m
            <4>1. m2 = m + 1 /\ j < m2 /\ j + 1 = m + 1
                BY <1>1, <1>3, <3>2
            <4>2. s[j + 1] = N + 1
                BY <1>3, <3>2, <4>1
            <4> QED BY <1>9, <2>1, <3>1, <3>2, <4>1, <4>2
        <3>3. CASE ~(IsNewPIP(a) /\ j = m)
            <4>1. Content'[s[j]].next = IF j < m THEN PIPs(a)[j + 1] ELSE NullPage
                BY <1>7, <1>9, <2>1, <3>1, <3>3
            <4>2. j < m <=> j < m2
                BY <1>1, <1>3, <2>1, <3>3
            <4>3. j < m => j + 1 \in 1..m
                BY <1>1, <2>1
            <4>4. j < m => s[j + 1] = PIPs(a)[j + 1]
                BY <1>3, <4>3
            <4> QED BY <4>1, <4>2, <4>4
        <3> QED BY <3>2, <3>3
    <2>2. CASE j \notin 1..m
        <3>1. IsNewPIP(a) /\ j = m + 1 /\ ~(j < m2)
            BY <1>1, <1>3, <2>2
        <3> QED BY <1>3, <1>9, <3>1
    <2> QED BY <2>1, <2>2
<1>12. Content'[a].numAPs = NumAPsFor(Content'[a].numElements)
       /\ Len(s) = NumPIPsFor(Content'[a].numElements)
    BY <1>2, <1>3, <1>5, <1>6
<1> DEFINE file == Content'
<1>13. IsArrayIn(file, a, s)
    <2>1. file[a].numElements \in 0..MaxElements
        BY <1>2, <1>4
    <2> HIDE DEF s, m2, file, m, n, c
    <2>2. /\ file[a].numAPs = NumAPsFor(file[a].numElements)
          /\ Len(s) = NumPIPsFor(file[a].numElements) /\ Len(s) = m2
          /\ file[a].next = IF m2 = 0 THEN NullPage ELSE s[1]
          /\ \A j \in 1..m2 : file[s[j]].next = IF j < m2 THEN s[j + 1] ELSE NullPage
        BY <1>3, <1>10, <1>11, <1>12 DEF file
    <2> QED BY <2>1, <2>2 DEF IsArrayIn
<1> QED BY <1>13 DEF IsArrayIn, NumAPsFor, NumPIPsFor

\* A PIP or an AP after pushBack is an old one or the new one.
IsOldPIP(b, j) == j \in 1..NumPIPs(b) /\ PIPs(b)'[j] = PIPs(b)[j]
IsAddedPIP(a, b, j) ==
    b = a /\ IsNewPIP(a) /\ j = NumPIPs(a) + 1 /\ PIPs(b)'[j] = numFilePages + 1
IsOldAP(b, k) == k \in APsOf(b) /\ AP(b, k)' = AP(b, k)
IsAddedAP(a, b, k) == b = a /\ IsNewAP(a) /\ k = Content[a].numAPs /\ AP(b, k)' = numFilePages

\* After pushBack a PIP or an AP of an array is one it had, or the one that was added.
LEMMA PushBackSlots ==
    ASSUME IInv, NEW a \in Arrays, PushBack(a)
    PROVE  /\ \A b \in Arrays \ {a} : SameLayout(b) /\ SameAPs(b)
           /\ \A b \in Arrays : IsArrayIn(Content, b, PIPs(b))'
           /\ \A b \in Arrays : \A j \in 1..NumPIPs(b)' : IsOldPIP(b, j) \/ IsAddedPIP(a, b, j)
           /\ \A b \in Arrays : \A k \in APsOf(b)' : IsOldAP(b, k) \/ IsAddedAP(a, b, k)
           /\ \A b \in Arrays : \A j \in 1..NumPIPs(b) : j \in 1..NumPIPs(b)' /\ IsOldPIP(b, j)
           /\ \A b \in Arrays : \A k \in APsOf(b) : k \in APsOf(b)' /\ IsOldAP(b, k)
<1>1. ASSUME NEW b \in Arrays \ {a} PROVE SameLayout(b)
    <2>1. SamePIPs(b)
        BY PushBackPIPs
    <2>2. ~Touches(a, b) /\ \A j \in 1..NumPIPs(b) : ~Touches(a, PIPs(b)[j])
        BY PushKeepsOthers
    <2>3. b \in PageIdxs /\ \A j \in 1..NumPIPs(b) : PIPs(b)[j] \in PageIdxs
        BY PushPages
    <2> QED BY <2>1, <2>2, <2>3, PushBackPages DEF SameLayout
<1>2. \A b \in Arrays \ {a} : SamePIPs(b) /\ SameAPs(b) /\ IsArrayIn(Content, b, PIPs(b))'
    BY <1>1, SameLayoutIs DEF SameLayout
<1>3. IsArrayIn(Content, a, PIPs(a))'
    BY PushBackIsArray
<1>4. /\ \A j \in 1..NumPIPs(a) : j \in 1..NumPIPs(a)' /\ IsOldPIP(a, j)
      /\ \A j \in 1..NumPIPs(a)' : IsOldPIP(a, j) \/ IsAddedPIP(a, a, j)
    <2> DEFINE m == NumPIPs(a)
               m2 == NumPIPs(a)'
    <2>1. /\ m \in Nat /\ m2 = IF IsNewPIP(a) THEN m + 1 ELSE m
          /\ \A j \in 1..m : PIPs(a)'[j] = PIPs(a)[j]
          /\ IsNewPIP(a) => PIPs(a)'[m + 1] = numFilePages + 1
        BY PushBackPIPs, LayoutIs
    <2>2. ASSUME NEW j \in 1..m PROVE j \in 1..m2 /\ IsOldPIP(a, j)
        <3> HIDE DEF m2
        <3> QED BY <2>1 DEF IsOldPIP
    <2>3. ASSUME NEW j \in 1..m2 PROVE IsOldPIP(a, j) \/ IsAddedPIP(a, a, j)
        <3>1. j \in 1..m \/ (IsNewPIP(a) /\ j = m + 1)
            <4> HIDE DEF m2, m
            <4> QED BY <2>1
        <3>2. CASE j \in 1..m
            BY <2>1, <3>2 DEF IsOldPIP
        <3>3. CASE IsNewPIP(a) /\ j = m + 1
            BY <2>1, <3>3 DEF IsAddedPIP
        <3> QED BY <3>1, <3>2, <3>3
    <2> QED BY <2>2, <2>3
<1>5. /\ \A k \in APsOf(a) : k \in APsOf(a)' /\ IsOldAP(a, k)
      /\ \A k \in APsOf(a)' : IsOldAP(a, k) \/ IsAddedAP(a, a, k)
    BY PushBackAPs DEF IsOldAP, IsAddedAP
<1>6. ASSUME NEW b \in Arrays \ {a}
      PROVE  /\ \A j \in 1..NumPIPs(b) : j \in 1..NumPIPs(b)' /\ IsOldPIP(b, j)
             /\ \A j \in 1..NumPIPs(b)' : IsOldPIP(b, j)
             /\ \A k \in APsOf(b) : k \in APsOf(b)' /\ IsOldAP(b, k)
             /\ \A k \in APsOf(b)' : IsOldAP(b, k)
    BY <1>2 DEF SamePIPs, SameAPs, IsOldPIP, IsOldAP
<1> QED BY <1>1, <1>2, <1>3, <1>4, <1>5, <1>6

\* After pushBack no page belongs to two arrays: what was added are pages beyond the others.
LEMMA PushBackLayout ==
    ASSUME IInv, NEW a \in Arrays, PushBack(a)
    PROVE  /\ LayoutInv' /\ SeparateInv'
           /\ numFilePages' \in NumArrays..MaxPages /\ numFilePages <= numFilePages'
           /\ IsNewAP(a) => numFilePages < numFilePages'
           /\ IsNewPIP(a) => numFilePages + 1 < numFilePages'
<1> DEFINE N == numFilePages
<1>1. /\ N \in NumArrays..MaxPages /\ NumArrays \in Nat /\ MaxPages \in Nat
      /\ IsNewPIP(a) => IsNewAP(a)
    BY Constants DEF IInv, TypeInv, IsNewPIP
<1>2. /\ N' = N + (IF IsNewAP(a) THEN 1 ELSE 0) + (IF IsNewPIP(a) THEN 1 ELSE 0)
      /\ N' <= MaxPages
    BY PushBackObjects
<1>3. /\ N' \in NumArrays..MaxPages /\ N <= N'
      /\ IsNewAP(a) => N < N' /\ N \in NumArrays..(N' - 1)
      /\ IsNewPIP(a) => N + 1 < N' /\ N + 1 \in NumArrays..(N' - 1)
    BY <1>1, <1>2
<1>4. /\ OwnPages = NumArrays..(N - 1) /\ OwnPages' = NumArrays..(N' - 1)
    BY DEF OwnPages
<1>5. OwnPages \subseteq OwnPages' /\ N \notin OwnPages /\ N + 1 \notin OwnPages /\ N # N + 1
    <2> DEFINE M == numFilePages'
    <2>1. N \in Nat /\ M \in Nat /\ NumArrays \in Nat /\ N <= M
        BY <1>1, <1>3
    <2> HIDE DEF N, M
    <2>2. NumArrays..(N - 1) \subseteq NumArrays..(M - 1) /\ N \notin NumArrays..(N - 1)
          /\ N + 1 \notin NumArrays..(N - 1) /\ N # N + 1
        BY <2>1
    <2> QED BY <1>4, <2>2 DEF N, M
<1>6. /\ \A b \in Arrays : \A j \in 1..NumPIPs(b) : PIPs(b)[j] \in OwnPages
      /\ \A b \in Arrays : \A k \in APsOf(b) : AP(b, k) \in OwnPages
    BY LayoutIs
<1>7. /\ \A b \in Arrays : \A j \in 1..NumPIPs(b)' : IsOldPIP(b, j) \/ IsAddedPIP(a, b, j)
      /\ \A b \in Arrays : \A k \in APsOf(b)' : IsOldAP(b, k) \/ IsAddedAP(a, b, k)
      /\ \A b \in Arrays : IsArrayIn(Content, b, PIPs(b))'
    BY PushBackSlots
<1>8. LayoutInv'
    <2>1. ASSUME NEW b \in Arrays, NEW j \in 1..NumPIPs(b)' PROVE PIPs(b)'[j] \in OwnPages'
        <3>1. CASE IsOldPIP(b, j)
            BY <1>5, <1>6, <3>1 DEF IsOldPIP
        <3>2. CASE IsAddedPIP(a, b, j)
            BY <1>3, <1>4, <3>2 DEF IsAddedPIP
        <3> QED BY <1>7, <3>1, <3>2
    <2>2. ASSUME NEW b \in Arrays, NEW k \in APsOf(b)' PROVE AP(b, k)' \in OwnPages'
        <3>1. CASE IsOldAP(b, k)
            BY <1>5, <1>6, <3>1 DEF IsOldAP
        <3>2. CASE IsAddedAP(a, b, k)
            BY <1>3, <1>4, <3>2 DEF IsAddedAP
        <3> QED BY <1>7, <3>1, <3>2
    <2> QED BY <1>7, <2>1, <2>2 DEF LayoutInv
<1>9. SeparateInv'
    <2>1. ASSUME NEW b \in Arrays, NEW c \in Arrays, NEW i \in 1..NumPIPs(b)', NEW j \in 1..NumPIPs(c)',
                 PIPs(b)'[i] = PIPs(c)'[j]
          PROVE  b = c /\ i = j
        <3>1. CASE IsOldPIP(b, i) /\ IsOldPIP(c, j)
            <4>1. i \in 1..NumPIPs(b) /\ j \in 1..NumPIPs(c) /\ PIPs(b)[i] = PIPs(c)[j]
                BY <2>1, <3>1 DEF IsOldPIP
            <4> QED BY <4>1 DEF IInv, SeparateInv
        <3>2. CASE IsOldPIP(b, i) /\ IsAddedPIP(a, c, j)
            BY <1>5, <1>6, <2>1, <3>2 DEF IsOldPIP, IsAddedPIP
        <3>3. CASE IsAddedPIP(a, b, i) /\ IsOldPIP(c, j)
            BY <1>5, <1>6, <2>1, <3>3 DEF IsOldPIP, IsAddedPIP
        <3>4. CASE IsAddedPIP(a, b, i) /\ IsAddedPIP(a, c, j)
            BY <3>4 DEF IsAddedPIP
        <3> QED BY <1>7, <3>1, <3>2, <3>3, <3>4
    <2>2. ASSUME NEW b \in Arrays, NEW c \in Arrays, NEW k \in APsOf(b)', NEW l \in APsOf(c)',
                 AP(b, k)' = AP(c, l)'
          PROVE  b = c /\ k = l
        <3>1. CASE IsOldAP(b, k) /\ IsOldAP(c, l)
            <4>1. k \in APsOf(b) /\ l \in APsOf(c) /\ AP(b, k) = AP(c, l)
                BY <2>2, <3>1 DEF IsOldAP
            <4> QED BY <4>1 DEF IInv, SeparateInv
        <3>2. CASE IsOldAP(b, k) /\ IsAddedAP(a, c, l)
            BY <1>5, <1>6, <2>2, <3>2 DEF IsOldAP, IsAddedAP
        <3>3. CASE IsAddedAP(a, b, k) /\ IsOldAP(c, l)
            BY <1>5, <1>6, <2>2, <3>3 DEF IsOldAP, IsAddedAP
        <3>4. CASE IsAddedAP(a, b, k) /\ IsAddedAP(a, c, l)
            BY <3>4 DEF IsAddedAP
        <3> QED BY <1>7, <3>1, <3>2, <3>3, <3>4
    <2>3. ASSUME NEW b \in Arrays, NEW c \in Arrays, NEW j \in 1..NumPIPs(b)', NEW l \in APsOf(c)'
          PROVE  PIPs(b)'[j] # AP(c, l)'
        <3>1. CASE IsOldPIP(b, j) /\ IsOldAP(c, l)
            BY <3>1 DEF IInv, SeparateInv, IsOldPIP, IsOldAP
        <3>2. CASE IsOldPIP(b, j) /\ IsAddedAP(a, c, l)
            BY <1>5, <1>6, <3>2 DEF IsOldPIP, IsAddedAP
        <3>3. CASE IsAddedPIP(a, b, j) /\ IsOldAP(c, l)
            BY <1>5, <1>6, <3>3 DEF IsAddedPIP, IsOldAP
        <3>4. CASE IsAddedPIP(a, b, j) /\ IsAddedAP(a, c, l)
            BY <1>5, <3>4 DEF IsAddedPIP, IsAddedAP
        <3> QED BY <1>7, <3>1, <3>2, <3>3, <3>4
    <2> QED BY <2>1, <2>2, <2>3 DEF SeparateInv
<1> QED BY <1>3, <1>8, <1>9

\* The pages that pushBack writes belong to the array afterwards, and what belonged to an array
\* still does.
LEMMA PushBackOwns ==
    ASSUME IInv, NEW a \in Arrays, PushBack(a)
    PROVE  /\ \A b \in Arrays : \A p : Owns(b, p) => Owns(b, p)'
           /\ \A p : Touches(a, p) => Owns(a, p)'
           /\ \A p \in PageIdxs : Touches(a, p) => p < numFilePages'
<1>1. ASSUME NEW b \in Arrays, NEW p, Owns(b, p) PROVE Owns(b, p)'
    <2>1. ASSUME NEW j \in 1..NumPIPs(b), p = PIPs(b)[j]
          PROVE  j \in 1..NumPIPs(b)' /\ p = PIPs(b)'[j]
        BY <2>1, PushBackSlots DEF IsOldPIP
    <2>2. ASSUME NEW k \in APsOf(b), p = AP(b, k)
          PROVE  k \in APsOf(b)' /\ p = AP(b, k)'
        BY <2>2, PushBackSlots DEF IsOldAP
    <2> QED BY <1>1, <2>1, <2>2 DEF Owns
<1>2. ASSUME NEW p, Touches(a, p) PROVE Owns(a, p)'
    <2>1. CASE p = a
        BY <2>1 DEF Owns
    <2>2. CASE p = PushAPPage(a)
        <3>1. CASE IsNewAP(a)
            <4>1. PICK k : k = Content[a].numAPs
                OBVIOUS
            <4>2. k \in APsOf(a)' /\ AP(a, k)' = p
                BY <2>2, <3>1, <4>1, PushBackAPs, PushPages
            <4> QED BY <4>2 DEF Owns
        <3>2. CASE ~IsNewAP(a)
            <4>1. Owns(a, p)
                BY <2>2, <3>2, PushPages DEF Owns
            <4> QED BY <1>1, <4>1
        <3> QED BY <3>1, <3>2
    <2>3. CASE IsNewAP(a) /\ p = PushPIPPage(a)
        <3>1. CASE IsNewPIP(a)
            <4>1. PICK j : j = NumPIPs(a) + 1
                OBVIOUS
            <4>2. NumPIPs(a) \in Nat /\ NumPIPs(a)' = NumPIPs(a) + 1 /\ PIPs(a)'[j] = numFilePages + 1
                BY <3>1, <4>1, LayoutIs, PushBackPIPs
            <4>3. j \in 1..NumPIPs(a)'
                BY <4>1, <4>2
            <4>4. p = PIPs(a)'[j]
                BY <2>3, <3>1, <4>2, PushPages
            <4> QED BY <4>3, <4>4 DEF Owns
        <3>2. CASE ~IsNewPIP(a)
            <4>1. Owns(a, p)
                BY <2>3, <3>2, PushPages DEF Owns
            <4> QED BY <1>1, <4>1
        <3> QED BY <3>1, <3>2
    <2>4. CASE LinksPIP(a, p)
        <3>1. Owns(a, p)
            BY <2>4, PushPages DEF Owns
        <3> QED BY <1>1, <3>1
    <2> QED BY <1>2, <2>1, <2>2, <2>3, <2>4 DEF Touches
<1>3. ASSUME NEW p \in PageIdxs, Touches(a, p) PROVE p < numFilePages'
    <2> DEFINE N == numFilePages
               M == numFilePages'
    <2>1. /\ N \in Nat /\ M \in Nat /\ N <= M /\ (IsNewAP(a) => N < M) /\ (IsNewPIP(a) => N + 1 < M)
          /\ p \in Nat
        BY PushBackLayout, PushPages, Constants, PageRanges DEF IInv
    <2>2. \/ p < N
          \/ p = N /\ IsNewAP(a)
          \/ p = N + 1 /\ IsNewPIP(a)
        BY <1>3, PushPages DEF Touches
    <2> HIDE DEF N, M
    <2>3. p < M
        BY <2>1, <2>2
    <2> QED BY <2>3 DEF M
<1> QED BY <1>1, <1>2, <1>3

\* A PIP gets a version where the array remembers an update.
LEMMA PushBackPIPUpdates ==
    ASSUME IInv, NEW a \in Arrays, PushBack(a), NEW b \in Arrays, NEW j \in 1..NumPIPs(b)'
    PROVE  HasVersion(PIPs(b)[j])' <=> HasPIPUpdates(b, j - 1)'
<1>1. PICK p : p = PIPs(b)'[j]
    OBVIOUS
<1>2. HasVersion(PIPs(b)[j])' <=> HasVersion(p)'
    BY <1>1 DEF HasVersion
<1>3. IsOldPIP(b, j) \/ IsAddedPIP(a, b, j)
    BY PushBackSlots
<1>4. ASSUME IsOldPIP(b, j)
      PROVE  /\ j \in 1..NumPIPs(b) /\ p = PIPs(b)[j] /\ p \in PageIdxs
             /\ HasVersion(p) <=> HasPIPUpdates(b, j - 1)
             /\ HasVersion(p)' <=> HasVersion(p) \/ Touches(a, p)
    <2>1. j \in 1..NumPIPs(b) /\ p = PIPs(b)[j]
        BY <1>1, <1>4 DEF IsOldPIP
    <2>2. p \in PageIdxs
        BY <2>1, PushPages
    <2>3. HasVersion(p) <=> HasPIPUpdates(b, j - 1)
        BY <2>1 DEF IInv, VersionsInv
    <2>4. HasVersion(p)' <=> HasVersion(p) \/ Touches(a, p)
        BY <2>2, PushBackPages
    <2> QED BY <2>1, <2>2, <2>3, <2>4
<1>5. CASE b # a
    <2>1. IsOldPIP(b, j)
        BY <1>3, <1>5 DEF IsAddedPIP
    <2>2. ~Touches(a, p)
        BY <1>4, <1>5, <2>1, PushKeepsOthers
    <2>3. HasPIPUpdates(b, j - 1)' <=> HasPIPUpdates(b, j - 1)
        BY <1>5, PushBackPIPs, SameObjectIs
    <2> QED BY <1>2, <1>4, <2>1, <2>2, <2>3
<1>6. CASE b = a
    <2> DEFINE n == Len(arrays[a].pips)
               u == arrays[a].updatedPIPs
               i == j - 1
    <2>1. /\ n \in Nat /\ NumPIPs(a) \in Nat /\ n <= NumPIPs(a) /\ j \in Nat /\ PushPIP(a) \in Nat
          /\ NumPIPs(a)' \in Nat
        <3>1. n \in Nat /\ Len(arrays[a].insertedPIPs) \in Nat /\ PushPIP(a) \in Nat /\ NumPIPs(a)' \in Nat
            BY LayoutIs, PushCases, PushBackPIPs
        <3> DEFINE m == Len(arrays[a].insertedPIPs)
        <3>2. n \in Nat /\ m \in Nat /\ NumPIPs(a) = n + m
            BY <3>1 DEF NumPIPs
        <3>3. j \in Nat
            BY <1>6, <3>1
        <3> HIDE DEF n, m
        <3>4. NumPIPs(a) \in Nat /\ n <= NumPIPs(a)
            BY <3>2
        <3> QED BY <3>1, <3>2, <3>3, <3>4
    <2>2. /\ arrays'[a].pips = arrays[a].pips
          /\ arrays'[a].updatedPIPs =
                IF IsNewAP(a) THEN u \cup UpdatedPIPs(a, PushPIP(a), IsNewPIP(a)) ELSE u
        <3> DEFINE v == IF IsNewAP(a) THEN u \cup UpdatedPIPs(a, PushPIP(a), IsNewPIP(a)) ELSE u
                   t == IF IsNewPIP(a) THEN Append(arrays[a].insertedPIPs, PushPIPPage(a))
                        ELSE arrays[a].insertedPIPs
        <3>1. arrays'[a] = [header |-> arrays[a].header, pips |-> arrays[a].pips,
                            updatedPIPs |-> v, insertedPIPs |-> t,
                            inMemArrayPages |-> arrays[a].inMemArrayPages, hasUpdates |-> TRUE]
            BY PushBackObjects
        <3> HIDE DEF v, t
        <3>2. arrays'[a].pips = arrays[a].pips /\ arrays'[a].updatedPIPs = v
            BY <3>1
        <3> QED BY <3>2 DEF v
    <2>3. HasPIPUpdates(a, i)' <=>
            \/ i >= n \/ i \in u
            \/ IsNewAP(a) /\ i = (IF IsNewPIP(a) THEN PushPIP(a) - 1 ELSE PushPIP(a)) /\ i \in 0..(n - 1)
        BY <2>2 DEF HasPIPUpdates, UpdatedPIPs
    <2>4. HasPIPUpdates(a, i) <=> i >= n \/ i \in u
        BY DEF HasPIPUpdates
    <2>5. CASE IsOldPIP(a, j)
        <3>1. Touches(a, p) <=> \/ IsNewAP(a) /\ ~IsNewPIP(a) /\ j = PushPIP(a) + 1
                                \/ IsNewPIP(a) /\ j = PushPIP(a)
            <4>1. j \in 1..NumPIPs(a) /\ p = PIPs(a)[j]
                BY <1>4, <1>6, <2>5
            <4>2. \A l \in 1..NumPIPs(a) : PIPs(a)[l] = p => l = j
                BY <4>1 DEF IInv, SeparateInv
            <4>3. p # a /\ p # numFilePages /\ p # numFilePages + 1
                <5>1. p \in Nat /\ p < numFilePages /\ p >= NumArrays /\ a < NumArrays /\ a \in Nat
                      /\ numFilePages \in Nat /\ NumArrays \in Nat
                    BY <4>1, PushPages, PageRanges, Constants DEF IInv
                <5> QED BY <5>1
            <4>4. p # PushAPPage(a)
                <5>1. CASE IsNewAP(a)
                    BY <4>3, <5>1, PushPages
                <5>2. CASE ~IsNewAP(a)
                    BY <4>1, <5>2, PushPages DEF IInv, SeparateInv
                <5> QED BY <5>1, <5>2
            <4>5. IsNewAP(a) /\ p = PushPIPPage(a) <=> IsNewAP(a) /\ ~IsNewPIP(a) /\ j = PushPIP(a) + 1
                BY <4>1, <4>2, <4>3, PushPages
            <4>6. LinksPIP(a, p) <=> IsNewPIP(a) /\ j = PushPIP(a)
                <5>1. j > 0
                    BY <2>1, <4>1
                <5> QED BY <4>1, <4>2, <5>1, PushPages DEF LinksPIP
            <4> QED BY <4>3, <4>4, <4>5, <4>6 DEF Touches
        <3> HIDE DEF n, u
        <3>2. j \in 1..NumPIPs(a) /\ (IsNewPIP(a) => IsNewAP(a))
            BY <1>4, <1>6, <2>5 DEF IsNewPIP
        <3>3. Touches(a, p) <=> IsNewAP(a) /\ i = (IF IsNewPIP(a) THEN PushPIP(a) - 1 ELSE PushPIP(a))
            BY <2>1, <3>1, <3>2
        <3>4. i >= n \/ i \in 0..(n - 1)
            BY <2>1, <3>2
        <3>5. HasPIPUpdates(a, i)' <=> HasPIPUpdates(a, i) \/ Touches(a, p)
            BY <2>3, <2>4, <3>3, <3>4
        <3> QED BY <1>2, <1>4, <1>6, <2>5, <3>5
    <2>6. CASE IsAddedPIP(a, a, j)
        <3>1. IsNewPIP(a) /\ IsNewAP(a) /\ j = NumPIPs(a) + 1 /\ p = numFilePages + 1
              /\ PushPIPPage(a) = p
            BY <1>1, <1>6, <2>6, PushPages DEF IsAddedPIP
        <3>2. p \in PageIdxs
            <4>1. p \in OwnPages'
                BY <1>1, PushBackLayout DEF LayoutInv
            <4>2. NumArrays \in Nat /\ numFilePages' \in Nat /\ numFilePages' <= MaxPages
                BY PushBackLayout, Constants
            <4> DEFINE M == numFilePages'
            <4>3. p \in NumArrays..(M - 1)
                BY <4>1 DEF OwnPages
            <4>4. M \in Nat /\ M <= MaxPages /\ NumArrays \in Nat /\ MaxPages \in Nat
                BY <4>2, Constants
            <4> HIDE DEF M
            <4>5. p \in 0..(MaxPages - 1)
                BY <4>3, <4>4
            <4> QED BY <4>5 DEF PageIdxs
        <3>3. HasVersion(p)'
            BY <3>1, <3>2, PushBackPages DEF Touches
        <3>4. i >= n
            BY <2>1, <3>1
        <3> QED BY <1>2, <1>6, <2>3, <3>3, <3>4
    <2> QED BY <1>3, <1>6, <2>5, <2>6
<1> QED BY <1>5, <1>6

\* After pushBack the array knows of all pages that have versions.
LEMMA PushBackVersionsInv ==
    ASSUME IInv, NEW a \in Arrays, PushBack(a)
    PROVE  VersionsInv'
<1>1. Updating = Arrays /\ Updating' = Arrays
    BY PushBackObjects DEF Updating
<1>2. \A b \in Arrays : arrays[b].hasUpdates => arrays'[b].hasUpdates
    <2>1. arrays'[a].hasUpdates
        BY PushBackPIPs
    <2>2. \A b \in Arrays \ {a} : arrays'[b] = arrays[b]
        BY PushBackObjects
    <2> QED BY <2>1, <2>2
<1>3. ASSUME NEW p \in PageIdxs, HasVersion(p)'
      PROVE  \E b \in Updating' : arrays'[b].hasUpdates /\ Owns(b, p)'
    <2>1. CASE Touches(a, p)
        <3>1. arrays'[a].hasUpdates /\ Owns(a, p)'
            BY <2>1, PushBackPIPs, PushBackOwns
        <3> QED BY <1>1, <3>1
    <2>2. CASE ~Touches(a, p)
        <3>1. HasVersion(p)
            BY <1>3, <2>2, PushBackPages
        <3>2. PICK b \in Arrays : arrays[b].hasUpdates /\ Owns(b, p)
            BY <1>1, <3>1 DEF IInv, VersionsInv
        <3>3. arrays'[b].hasUpdates /\ Owns(b, p)'
            BY <1>2, <3>2, PushBackOwns
        <3> QED BY <1>1, <3>3
    <2> QED BY <2>1, <2>2
<1>4. ASSUME NEW b \in Arrays, NEW k \in NewAPs(b)' PROVE HasVersion(AP(b, k))'
    <2>1. WriteHeader(b)' = Content'[b]
        <3>1. b \in PageIdxs
            BY PushPages
        <3>2. CASE HasVersion(b)'
            BY <3>1, <3>2 DEF WriteHeader, Content, ReplayPages
        <3>3. CASE ~HasVersion(b)'
            <4>1. ~Touches(a, b)
                BY <3>1, <3>3, PushBackPages
            <4>2. ~HasVersion(b) /\ Content'[b] = Content[b]
                BY <3>1, <3>3, <4>1, PushBackPages
            <4>3. WriteHeader(b)' = arrays[b].header /\ WriteHeader(b) = arrays[b].header
                BY <3>3, <4>2, PushBackPIPs DEF WriteHeader, SameReaderObject
            <4> QED BY <4>2, <4>3, PrefixIs
        <3> QED BY <3>2, <3>3
    <2>2. arrays'[b].header = arrays[b].header /\ arrays[b].header.numAPs \in Nat
        BY PushBackPIPs, PrefixIs DEF SameReaderObject
    <2>3. k \in arrays[b].header.numAPs..(Content'[b].numAPs - 1)
        BY <1>4, <2>1, <2>2 DEF NewAPs
    <2>4. k \in APsOf(b)'
        <3>1. Content'[b].numAPs \in Nat
            <4>1. CASE b = a
                BY <4>1, PushBackAPs, LayoutIs
            <4>2. CASE b # a
                BY <4>2, PushBackSlots, LayoutIs DEF SameLayout
            <4> QED BY <4>1, <4>2
        <3> DEFINE h == arrays[b].header.numAPs
                   c == Content'[b].numAPs
        <3>2. h \in Nat /\ c \in Nat /\ k \in h..(c - 1)
            BY <2>2, <2>3, <3>1
        <3> HIDE DEF h, c
        <3>3. k \in 0..(c - 1)
            BY <3>2
        <3> QED BY <3>3 DEF APsOf, APIdxs, c
    <2>5. PICK p : p = AP(b, k)'
        OBVIOUS
    <2>6. HasVersion(AP(b, k))' <=> HasVersion(p)'
        BY <2>5 DEF HasVersion
    <2>7. p \in PageIdxs
        <3>1. p \in OwnPages'
            BY <2>4, <2>5, PushBackLayout DEF LayoutInv
        <3> DEFINE M == numFilePages'
        <3>2. p \in NumArrays..(M - 1) /\ M \in Nat /\ M <= MaxPages /\ NumArrays \in Nat
              /\ MaxPages \in Nat
            BY <3>1, PushBackLayout, Constants DEF OwnPages
        <3> HIDE DEF M
        <3>3. p \in 0..(MaxPages - 1)
            BY <3>2
        <3> QED BY <3>3 DEF PageIdxs
    <2>8. CASE IsOldAP(b, k)
        <3>1. k \in APsOf(b) /\ p = AP(b, k)
            BY <2>5, <2>8 DEF IsOldAP
        <3>2. k \in NewAPs(b)
            <4> DEFINE h == arrays[b].header.numAPs
                       c == Content[b].numAPs
            <4>1. h \in Nat /\ c \in Nat /\ k \in 0..(c - 1) /\ k \in h..(Content'[b].numAPs - 1)
                  /\ NewAPs(b) = h..(c - 1)
                BY <2>3, <3>1, PrefixIs, LayoutIs DEF APsOf, APIdxs
            <4> HIDE DEF h, c
            <4>2. k \in h..(c - 1)
                BY <4>1
            <4> QED BY <4>1, <4>2
        <3>3. HasVersion(p)
            BY <3>1, <3>2 DEF IInv, VersionsInv
        <3> QED BY <2>6, <2>7, <3>3, PushBackPages
    <2>9. CASE IsAddedAP(a, b, k)
        <3>1. Touches(a, p)
            BY <2>5, <2>9, PushPages DEF IsAddedAP, Touches
        <3> QED BY <2>6, <2>7, <3>1, PushBackPages
    <2> QED BY <2>4, <2>8, <2>9, PushBackSlots
<1>5. ASSUME NEW b \in Arrays
      PROVE  /\ \A j \in 1..NumPIPs(b)' : HasVersion(PIPs(b)[j])' <=> HasPIPUpdates(b, j - 1)'
             /\ ~arrays'[b].hasUpdates =>
                    arrays'[b].updatedPIPs = {} /\ arrays'[b].insertedPIPs = <<>>
    <2>1. \A j \in 1..NumPIPs(b)' : HasVersion(PIPs(b)[j])' <=> HasPIPUpdates(b, j - 1)'
        BY PushBackPIPUpdates
    <2>2. b = a => arrays'[b].hasUpdates
        BY PushBackPIPs
    <2>3. b # a => arrays'[b] = arrays[b]
        BY PushBackObjects
    <2> QED BY <2>1, <2>2, <2>3 DEF IInv, VersionsInv
<1> QED BY <1>1, <1>3, <1>4, <1>5 DEF VersionsInv

\* pushBack keeps the invariant.
LEMMA PushBackStep ==
    ASSUME IInv, NEW a \in Arrays, PushBack(a)
    PROVE  IInv'
<1> DEFINE N == numFilePages
           M == numFilePages'
           S == NumPagesOf(filePages)
<1>1. /\ arrayPhase = "active" /\ UNCHANGED <<arrayPhase, filePages, todo>>
      /\ arrays' = [b \in Arrays |-> arrays'[b]]
    BY PushBackObjects
<1>2. /\ LayoutInv' /\ SeparateInv' /\ M \in NumArrays..MaxPages /\ N <= M
      /\ N \in Nat /\ S \in NumArrays..N /\ NumArrays \in Nat /\ M \in Nat /\ S \in Nat
    BY PushBackLayout, PushPages, Constants DEF IInv, SizesInv
<1>3. NumPagesOf(filePages)' = S
    BY <1>1 DEF NumPagesOf
<1>4. TypeInv'
    <2>1. IsFile(walVersion)' /\ \A b \in Arrays : IsObject(arrays'[b])
        BY PushBackPages, PushBackPIPs
    <2>2. IsFile(filePages)'
        BY <1>1 DEF IInv, TypeInv, IsFile
    <2> QED BY <1>1, <1>2, <2>1, <2>2 DEF IInv, TypeInv
<1>5. \A b \in Arrays : SameReader(b)
    <2>1. ASSUME NEW b \in Arrays, NEW k \in 0..(arrays[b].header.numAPs - 1)
          PROVE  AP(b, k)' = AP(b, k)
        <3>1. k \in APsOf(b)
            BY PrefixIs
        <3> QED BY <3>1, PushBackSlots DEF IsOldAP
    <2> QED BY <2>1, PushBackPIPs DEF SameReader
<1>6. \A b \in Arrays : /\ Content'[b].numElements \in Nat
                        /\ Content[b].numElements <= Content'[b].numElements
    <2>1. ASSUME NEW b \in Arrays, b # a PROVE Content'[b].numElements = Content[b].numElements
        BY <2>1, PushBackSlots DEF SameLayout
    <2>2. Content'[a].numElements = Content[a].numElements + 1
        BY PushBackAPs
    <2>3. \A b \in Arrays : Content[b].numElements \in Nat
        BY LayoutIs
    <2> QED BY <2>1, <2>2, <2>3
<1>7. MemoryInv' /\ PrefixInv' /\ \A b \in Arrays : IsArrayIn(filePages, b, OldPIPs(b))'
    <2>1. \A b \in Arrays : arrays[b].header.numElements <= Content'[b].numElements
        <3>1. ASSUME NEW b \in Arrays
              PROVE  /\ arrays[b].header.numElements \in Nat /\ Content[b].numElements \in Nat
                     /\ arrays[b].header.numElements <= Content[b].numElements
            BY PrefixIs, LayoutIs
        <3> QED BY <1>6, <3>1
    <2> QED BY <1>1, <1>5, <1>6, <2>1, SameReaders
<1>8. SizesInv'
    <2>1. S \in NumArrays..M
        <3> HIDE DEF N, M, S
        <3> QED BY <1>2
    <2>2. ASSUME NEW p \in PageIdxs
          PROVE  /\ filePages'[p] # NoVersion <=> p < S
                 /\ HasVersion(p)' => p < M
        <3>1. filePages'[p] # NoVersion <=> p < S
            BY <1>1 DEF IInv, SizesInv
        <3>2. CASE Touches(a, p)
            BY <3>1, <3>2, PushBackOwns
        <3>3. CASE ~Touches(a, p)
            <4>1. HasVersion(p)' => p < N
                BY <3>3, PushBackPages DEF IInv, SizesInv
            <4>2. p \in Nat
                BY PageRanges DEF IInv
            <4> HIDE DEF N, M, S
            <4> QED BY <1>2, <3>1, <4>1, <4>2
        <3> QED BY <3>2, <3>3
    <2>3. ASSUME NEW p \in PageIdxs, p \in S..(M - 1) PROVE HasVersion(p)'
        <3>1. CASE p < N
            <4>1. p \in S..(N - 1)
                <5> HIDE DEF N, M, S
                <5> QED BY <1>2, <2>3, <3>1
            <4>2. HasVersion(p)
                BY <4>1 DEF IInv, SizesInv
            <4> QED BY <4>2, PushBackPages
        <3>2. CASE ~(p < N)
            <4>1. M = N + (IF IsNewAP(a) THEN 1 ELSE 0) + (IF IsNewPIP(a) THEN 1 ELSE 0)
                BY PushBackObjects
            <4>2. IsNewPIP(a) => IsNewAP(a)
                BY DEF IsNewPIP
            <4>3. (IsNewAP(a) /\ p = N) \/ (IsNewPIP(a) /\ p = N + 1)
                <5> HIDE DEF N, M, S
                <5> QED BY <1>2, <2>3, <3>2, <4>1, <4>2
            <4>4. Touches(a, p)
                BY <4>2, <4>3, PushPages DEF Touches
            <4> QED BY <4>4, PushBackPages
        <3> QED BY <3>1, <3>2
    <2> QED BY <1>3, <2>1, <2>2, <2>3 DEF SizesInv
<1>9. OldPagesInv'
    <2>1. ASSUME NEW b \in Arrays, NEW j \in 1..NumPIPs(b)'
          PROVE  PIPs(b)'[j] < S <=> j <= Len(arrays'[b].pips)
        <3>1. arrays'[b].pips = arrays[b].pips
            BY PushBackPIPs DEF SameReaderObject
        <3>2. CASE IsOldPIP(b, j)
            BY <1>1, <3>1, <3>2 DEF IsOldPIP, IInv, OldPagesInv
        <3>3. CASE IsAddedPIP(a, b, j)
            <4>1. b = a /\ j = NumPIPs(a) + 1 /\ PIPs(b)'[j] = N + 1
                BY <3>3 DEF IsAddedPIP
            <4> DEFINE n == Len(arrays[a].pips)
                       m == Len(arrays[a].insertedPIPs)
            <4>2. n \in Nat /\ m \in Nat /\ NumPIPs(a) = n + m
                BY LayoutIs DEF NumPIPs
            <4> HIDE DEF n, m, N, S
            <4>3. ~(N + 1 < S) /\ ~(j <= n)
                BY <1>2, <4>1, <4>2
            <4> QED BY <3>1, <4>1, <4>3 DEF n
        <3> QED BY <3>2, <3>3, PushBackSlots
    <2>2. ASSUME NEW b \in Arrays, NEW k \in APsOf(b)'
          PROVE  AP(b, k)' < S <=> k < arrays'[b].header.numAPs
        <3>1. arrays'[b].header = arrays[b].header
            BY PushBackPIPs DEF SameReaderObject
        <3>2. CASE IsOldAP(b, k)
            BY <1>1, <3>1, <3>2 DEF IsOldAP, IInv, OldPagesInv
        <3>3. CASE IsAddedAP(a, b, k)
            <4>1. b = a /\ k = Content[a].numAPs /\ AP(b, k)' = N
                BY <3>3 DEF IsAddedAP
            <4> DEFINE h == arrays[a].header.numAPs
                       c == Content[a].numAPs
            <4>2. h \in Nat /\ c \in Nat /\ h <= c
                BY PrefixIs, LayoutIs
            <4>3. k = c
                BY <4>1
            <4> HIDE DEF h, c, N, S
            <4>4. ~(N < S) /\ ~(k < h)
                BY <1>2, <4>2, <4>3
            <4> QED BY <3>1, <4>1, <4>4 DEF h
        <3> QED BY <3>2, <3>3, PushBackSlots
    <2> QED BY <1>3, <1>7, <2>1, <2>2 DEF OldPagesInv
<1>10. CheckpointInv' /\ RollbackInv'
    BY <1>1 DEF CheckpointInv, RollbackInv
<1> QED BY <1>2, <1>4, <1>7, <1>8, <1>9, <1>10, PushBackVersionsInv DEF IInv

-----------------------------------------------------------------------------
(* A checkpoint or a rollback reaches an array.                             *)

\* A page belongs to one array.
LEMMA OwnerIsUnique ==
    ASSUME IInv, NEW a \in Arrays, NEW b \in Arrays, NEW p, Owns(a, p), Owns(b, p)
    PROVE  a = b
<1>1. /\ a \notin OwnPages /\ b \notin OwnPages
      /\ \A j \in 1..NumPIPs(a) : PIPs(a)[j] \in OwnPages
      /\ \A k \in APsOf(a) : AP(a, k) \in OwnPages
      /\ \A j \in 1..NumPIPs(b) : PIPs(b)[j] \in OwnPages
      /\ \A k \in APsOf(b) : AP(b, k) \in OwnPages
    BY LayoutIs, PageRanges DEF IInv
<1>2. CASE p = a
    BY <1>1, <1>2 DEF Owns
<1>3. ASSUME NEW i \in 1..NumPIPs(a), p = PIPs(a)[i] PROVE a = b
    <2>1. p # b /\ \A k \in APsOf(b) : p # AP(b, k)
        BY <1>1, <1>3 DEF IInv, SeparateInv
    <2>2. PICK j \in 1..NumPIPs(b) : p = PIPs(b)[j]
        BY <2>1 DEF Owns
    <2>3. PIPs(a)[i] = PIPs(b)[j]
        BY <1>3, <2>2
    <2> QED BY <2>3 DEF IInv, SeparateInv
<1>4. ASSUME NEW k \in APsOf(a), p = AP(a, k) PROVE a = b
    <2>1. p # b /\ \A j \in 1..NumPIPs(b) : p # PIPs(b)[j]
        BY <1>1, <1>4 DEF IInv, SeparateInv
    <2>2. PICK l \in APsOf(b) : p = AP(b, l)
        BY <2>1 DEF Owns
    <2>3. AP(a, k) = AP(b, l)
        BY <1>4, <2>2
    <2> QED BY <2>3 DEF IInv, SeparateInv
<1> QED BY <1>2, <1>3, <1>4 DEF Owns

\* An array that is not updated has no versions.
LEMMA NotUpdated ==
    ASSUME IInv, NEW a \in Arrays, ~arrays[a].hasUpdates, NEW p \in PageIdxs, Owns(a, p)
    PROVE  ~HasVersion(p)
<1> SUFFICES ASSUME HasVersion(p) PROVE FALSE
    OBVIOUS
<1>1. Updating \subseteq Arrays
    BY DEF IInv, TypeInv, Updating
<1>2. PICK b \in Updating : arrays[b].hasUpdates /\ Owns(b, p)
    BY DEF IInv, VersionsInv
<1>3. b \in Arrays
    BY <1>1, <1>2
<1>4. a = b
    BY <1>2, <1>3, OwnerIsUnique
<1> QED BY <1>2, <1>4

\* The pages whose versions the checkpoint or rollback of an array clears are the ones of the
\* array that have a version.
KnownPages(a) ==
    {a} \cup OldAPPages(a) \cup NewAPPages(a) \cup UpdatedPIPPages(a) \cup InsertedPIPPages(a)

\* The inserted PIPs of an array are those that readers do not have.
LEMMA InsertedPIPPagesAre ==
    ASSUME IInv, NEW a \in Arrays
    PROVE  /\ \A p \in InsertedPIPPages(a) :
                 \E j \in 1..NumPIPs(a) : j > Len(arrays[a].pips) /\ p = PIPs(a)[j]
           /\ \A j \in 1..NumPIPs(a) : j > Len(arrays[a].pips) => PIPs(a)[j] \in InsertedPIPPages(a)
<1> DEFINE n == Len(arrays[a].pips)
           s == arrays[a].insertedPIPs
           m == Len(s)
<1>1. n \in Nat /\ m \in Nat /\ NumPIPs(a) = n + m /\ DOMAIN s = 1..m
    BY LayoutIs DEF IInv, TypeInv, IsObject, NumPIPs
<1>2. \A j : PIPPage(a, j) = IF j < n THEN arrays[a].pips[j + 1].page ELSE s[(j - n) + 1]
    BY DEF PIPPage
<1>3. InsertedPIPPages(a) = {s[i] : i \in 1..m}
    BY <1>1 DEF InsertedPIPPages
<1>4. \A j \in 1..NumPIPs(a) : PIPs(a)[j] = PIPPage(a, j - 1)
    BY LayoutIs
<1> HIDE DEF n, m, s
<1>5. ASSUME NEW p \in InsertedPIPPages(a)
      PROVE  \E j \in 1..NumPIPs(a) : j > n /\ p = PIPs(a)[j]
    <2>1. PICK i \in 1..m : p = s[i]
        BY <1>3
    <2>2. PICK j : j = n + i
        OBVIOUS
    <2>3. j \in 1..NumPIPs(a) /\ j > n /\ ~(j - 1 < n) /\ (j - 1 - n) + 1 = i
        BY <1>1, <2>2
    <2>4. PIPs(a)[j] = s[i]
        BY <1>2, <1>4, <2>3
    <2> QED BY <2>1, <2>3, <2>4
<1>6. ASSUME NEW j \in 1..NumPIPs(a), j > n PROVE PIPs(a)[j] \in InsertedPIPPages(a)
    <2>1. ~(j - 1 < n) /\ (j - 1 - n) + 1 \in 1..m
        BY <1>1, <1>6
    <2>2. PIPs(a)[j] = s[(j - 1 - n) + 1]
        BY <1>2, <1>4, <2>1
    <2> QED BY <1>3, <2>1, <2>2
<1> QED BY <1>5, <1>6 DEF n

\* An array knows of all its pages that have versions.
LEMMA KnownPagesAre ==
    ASSUME IInv, NEW a \in Arrays
    PROVE  /\ \A p \in KnownPages(a) : Owns(a, p)
           /\ \A p \in PageIdxs : Owns(a, p) /\ HasVersion(p) => p \in KnownPages(a)
<1> DEFINE n == Len(arrays[a].pips)
           h == arrays[a].header.numAPs
           c == Content[a].numAPs
<1>1. /\ n \in Nat /\ h \in Nat /\ c \in Nat /\ h <= c /\ NumPIPs(a) \in Nat
      /\ NewAPs(a) = h..(c - 1) /\ APsOf(a) = 0..(c - 1)
    BY LayoutIs, PrefixIs DEF APsOf, APIdxs
<1>2. APsOf(a) = (0..(h - 1)) \cup NewAPs(a)
    <2> HIDE DEF h, c
    <2> QED BY <1>1
<1>3. OldAPPages(a) = {AP(a, k) : k \in 0..(h - 1)}
    BY PrefixIs DEF OldAPPages
<1>4. NewAPPages(a) = {AP(a, k) : k \in NewAPs(a)}
    BY <1>2, WriteAPPageIs DEF NewAPPages
<1>5. UpdatedPIPPages(a) = {PIPs(a)[j + 1] : j \in arrays[a].updatedPIPs}
      /\ \A j \in arrays[a].updatedPIPs : j + 1 \in 1..NumPIPs(a) /\ j \in Nat
    <2>1. \A j \in arrays[a].updatedPIPs : j \in Nat /\ j + 1 \in 1..n
        <3>1. arrays[a].updatedPIPs \subseteq 0..(n - 1)
            BY DEF IInv, TypeInv, IsObject
        <3> HIDE DEF n
        <3> QED BY <1>1, <3>1
    <2>2. \A j \in 1..n : j \in 1..NumPIPs(a) /\ PIPs(a)[j] = arrays[a].pips[j].page
        BY PrefixIs
    <2> QED BY <2>1, <2>2 DEF UpdatedPIPPages
<1>6. ASSUME NEW p \in KnownPages(a) PROVE Owns(a, p)
    <2>1. CASE p \in {a}
        BY <2>1 DEF Owns
    <2>2. CASE p \in OldAPPages(a) \cup NewAPPages(a)
        BY <1>2, <1>3, <1>4, <2>2 DEF Owns
    <2>3. CASE p \in UpdatedPIPPages(a)
        BY <1>5, <2>3 DEF Owns
    <2>4. CASE p \in InsertedPIPPages(a)
        BY <2>4, InsertedPIPPagesAre DEF Owns
    <2> QED BY <2>1, <2>2, <2>3, <2>4 DEF KnownPages
<1>7. ASSUME NEW p \in PageIdxs, Owns(a, p), HasVersion(p) PROVE p \in KnownPages(a)
    <2>1. CASE p = a
        BY <2>1 DEF KnownPages
    <2>2. CASE \E k \in APsOf(a) : p = AP(a, k)
        BY <1>2, <1>3, <1>4, <2>2 DEF KnownPages
    <2>3. ASSUME NEW j \in 1..NumPIPs(a), p = PIPs(a)[j] PROVE p \in KnownPages(a)
        <3>1. HasPIPUpdates(a, j - 1)
            BY <1>7, <2>3 DEF IInv, VersionsInv
        <3>2. CASE j > n
            BY <2>3, <3>2, InsertedPIPPagesAre DEF KnownPages
        <3>3. CASE ~(j > n)
            <4>1. ~(j - 1 >= n) /\ (j - 1) + 1 = j
                <5> HIDE DEF n
                <5> QED BY <1>1, <3>3
            <4>2. j - 1 \in arrays[a].updatedPIPs
                BY <3>1, <4>1 DEF HasPIPUpdates
            <4>3. p \in UpdatedPIPPages(a)
                BY <1>5, <2>3, <4>1, <4>2
            <4> QED BY <4>3 DEF KnownPages
        <3> QED BY <3>2, <3>3
    <2> QED BY <1>7, <2>1, <2>2, <2>3 DEF Owns
<1> QED BY <1>6, <1>7

\* What a checkpoint and a rollback have in common: the array is done, and its versions are gone.
Settles(a) ==
    /\ arrayPhase \in {"checkpointing", "rollingBack"} /\ a \in todo
    /\ EndsReplay(a)
    /\ UNCHANGED filePages
    /\ arrays' = [b \in Arrays |-> arrays'[b]]
    /\ \A b \in Arrays \ {a} : arrays'[b] = arrays[b]
    /\ IsObject(arrays'[a])
    /\ arrays'[a].updatedPIPs = {} /\ arrays'[a].insertedPIPs = <<>> /\ ~arrays'[a].hasUpdates
    /\ walVersion' = [p \in PageIdxs |-> walVersion'[p]]
    /\ \A p \in PageIdxs : IF Owns(a, p) THEN walVersion'[p] = NoVersion
                                         ELSE walVersion'[p] = walVersion[p]

\* So it clears all of them when it is checkpointed or rolled back.
LEMMA ClearIs ==
    ASSUME IInv, NEW a \in Arrays, walVersion' = Clear(KnownPages(a), numFilePages)
    PROVE  /\ walVersion' = [p \in PageIdxs |-> walVersion'[p]]
           /\ \A p \in PageIdxs : IF Owns(a, p) THEN walVersion'[p] = NoVersion
                                                ELSE walVersion'[p] = walVersion[p]
<1>1. walVersion' = [p \in PageIdxs |-> IF p \in KnownPages(a) /\ p < numFilePages THEN NoVersion
                                        ELSE walVersion[p]]
    BY DEF Clear
<1>2. ASSUME NEW p \in PageIdxs
      PROVE  IF Owns(a, p) THEN walVersion'[p] = NoVersion ELSE walVersion'[p] = walVersion[p]
    <2>1. walVersion'[p] = IF p \in KnownPages(a) /\ p < numFilePages THEN NoVersion
                           ELSE walVersion[p]
        BY <1>1
    <2>2. CASE ~Owns(a, p)
        BY <2>1, <2>2, KnownPagesAre
    <2>3. CASE Owns(a, p) /\ ~HasVersion(p)
        BY <2>1, <2>3 DEF HasVersion
    <2>4. CASE Owns(a, p) /\ HasVersion(p)
        BY <2>1, <2>4, KnownPagesAre DEF IInv, SizesInv
    <2> QED BY <2>2, <2>3, <2>4
<1> QED BY <1>1, <1>2

\* What is left then of the array, and of the others.
LEMMA SettlesIs ==
    ASSUME IInv, NEW a \in Arrays, Settles(a)
    PROVE  /\ IsFile(walVersion)'
           /\ \A p \in PageIdxs : HasVersion(p)' <=> HasVersion(p) /\ ~Owns(a, p)
           /\ \A p \in PageIdxs : Content'[p] = IF Owns(a, p) THEN filePages[p] ELSE Content[p]
           /\ \A b \in Arrays \ {a} : /\ SameObject(b) /\ SameLayout(b) /\ SameAPs(b)
                                      /\ WriteHeader(b)' = WriteHeader(b)
                                      /\ \A p : Owns(b, p)' <=> Owns(b, p)
           /\ Updating = todo /\ Updating' = todo \ {a} /\ todo' = todo \ {a}
           /\ arrayPhase' \in {arrayPhase, "idle"} /\ (arrayPhase' = "idle" => todo' = {})
           /\ ~HasVersion(a)' /\ WriteHeader(a)' = arrays'[a].header
           /\ NumPIPs(a)' = Len(arrays'[a].pips)
           /\ \A j \in 1..NumPIPs(a)' : PIPs(a)'[j] = arrays'[a].pips[j].page
           /\ Len(PIPs(a)') = NumPIPs(a)' /\ NumPIPs(a)' \in Nat
           /\ numFilePages' \in NumArrays..MaxPages => TypeInv'
<1>1. \A p \in PageIdxs : HasVersion(p)' <=> HasVersion(p) /\ ~Owns(a, p)
    BY DEF Settles, HasVersion
<1>2. IsFile(walVersion)'
    <2>1. \A p \in PageIdxs : walVersion'[p] = NoVersion \/ walVersion'[p] = walVersion[p]
        BY DEF Settles
    <2> QED BY <2>1 DEF IInv, TypeInv, IsFile, Settles
<1>3. ASSUME NEW p \in PageIdxs
      PROVE  Content'[p] = IF Owns(a, p) THEN filePages[p] ELSE Content[p]
    <2>1. Content'[p] = IF HasVersion(p)' THEN walVersion'[p] ELSE filePages'[p]
        BY DEF Content, ReplayPages
    <2>2. Content[p] = IF HasVersion(p) THEN walVersion[p] ELSE filePages[p]
        BY DEF Content, ReplayPages
    <2> QED BY <1>1, <2>1, <2>2 DEF Settles
<1>4. ASSUME NEW b \in Arrays \ {a}
      PROVE  /\ SameObject(b) /\ SameLayout(b) /\ SameAPs(b) /\ WriteHeader(b)' = WriteHeader(b)
             /\ \A p : Owns(b, p)' <=> Owns(b, p)
    <2>1. SameObject(b) /\ SamePIPs(b)
        BY SameObjectIs DEF Settles, SameObject
    <2>2. \A p : Owns(b, p) => ~Owns(a, p)
        BY OwnerIsUnique
    <2>3. b \in PageIdxs /\ Owns(b, b)
        BY PageRanges DEF IInv, Owns
    <2>4. \A j \in 1..NumPIPs(b) : PIPs(b)[j] \in PageIdxs /\ Owns(b, PIPs(b)[j])
        BY LayoutIs, PageRanges DEF IInv, Owns
    <2>5. SameLayout(b)
        BY <1>3, <2>1, <2>2, <2>3, <2>4 DEF SameLayout
    <2>6. SameAPs(b)
        BY <2>5, SameLayoutIs
    <2>7. WriteHeader(b)' = WriteHeader(b)
        BY <1>1, <2>1, <2>2, <2>3 DEF WriteHeader, SameObject, Settles
    <2>8. ASSUME NEW p PROVE Owns(b, p)' <=> Owns(b, p)
        <3>1. (\E j \in 1..NumPIPs(b) : p = PIPs(b)[j])' <=> (\E j \in 1..NumPIPs(b) : p = PIPs(b)[j])
            BY <2>1 DEF SamePIPs
        <3>2. (\E k \in APsOf(b) : p = AP(b, k))' <=> (\E k \in APsOf(b) : p = AP(b, k))
            BY <2>6 DEF SameAPs
        <3> QED BY <3>1, <3>2 DEF Owns
    <2> QED BY <2>1, <2>5, <2>6, <2>7, <2>8
<1>5. /\ Updating = todo /\ Updating' = todo \ {a} /\ todo' = todo \ {a}
      /\ arrayPhase' \in {arrayPhase, "idle"} /\ (arrayPhase' = "idle" => todo' = {})
    BY DEF Settles, EndsReplay, Updating
<1>6. ~HasVersion(a)' /\ WriteHeader(a)' = arrays'[a].header
    <2>1. a \in PageIdxs /\ Owns(a, a)
        BY PageRanges DEF IInv, Owns
    <2> QED BY <1>1, <2>1 DEF WriteHeader
<1>7. NumPIPs(a)' = Len(arrays'[a].pips) + Len(<<>>)
    BY DEF NumPIPs, Settles
<1>8. NumPIPs(a)' = Len(arrays'[a].pips)
    BY <1>7
<1>9. NumPIPs(a)' \in Nat
    BY <1>8 DEF Settles, IsObject
<1>10. PIPs(a)' = [j \in 1..NumPIPs(a)' |-> PIPPage(a, j - 1)']
    BY DEF PIPs
<1>11. Len(PIPs(a)') = NumPIPs(a)'
    BY <1>9, <1>10
<1>12. ASSUME NEW j \in 1..NumPIPs(a)' PROVE PIPs(a)'[j] = arrays'[a].pips[j].page
    <2> DEFINE n == Len(arrays'[a].pips)
    <2>1. n \in Nat /\ j \in 1..n
        BY <1>8, <1>9
    <2>2. PIPPage(a, j - 1)' = IF j - 1 < n THEN arrays'[a].pips[(j - 1) + 1].page
                               ELSE arrays'[a].insertedPIPs[((j - 1) - n) + 1]
        BY DEF PIPPage
    <2> HIDE DEF n
    <2>3. j - 1 < n /\ (j - 1) + 1 = j
        BY <2>1
    <2> QED BY <1>10, <2>2, <2>3
<1>13. ASSUME numFilePages' \in NumArrays..MaxPages PROVE TypeInv'
    <2>1. /\ arrayPhase' \in {"idle", "active", "checkpointing", "rollingBack"}
          /\ todo' \subseteq Arrays
          /\ arrayPhase' \in {"idle", "active"} => todo' = {}
        BY <1>5 DEF IInv, TypeInv, Settles
    <2>2. \A b \in Arrays : IsObject(arrays'[b])
        BY DEF IInv, TypeInv, Settles
    <2>3. IsFile(filePages)'
        BY DEF IInv, TypeInv, IsFile, Settles
    <2> QED BY <1>2, <1>13, <2>1, <2>2, <2>3 DEF TypeInv, Settles
<1> QED BY <1>1, <1>2, <1>3, <1>4, <1>5, <1>6, <1>8, <1>9, <1>11, <1>12, <1>13

\* The versions that remain are those of the arrays that remain.
LEMMA SettledVersions ==
    ASSUME IInv, NEW a \in Arrays, Settles(a),
           \A j \in 1..NumPIPs(a)' : Owns(a, PIPs(a)'[j]) /\ PIPs(a)'[j] \in PageIdxs,
           arrays'[a].header.numAPs \in Nat
    PROVE  VersionsInv'
<1>1. /\ \A p \in PageIdxs : HasVersion(p)' <=> HasVersion(p) /\ ~Owns(a, p)
      /\ \A b \in Arrays \ {a} : /\ SameObject(b) /\ SameLayout(b) /\ SameAPs(b)
                                 /\ WriteHeader(b)' = WriteHeader(b)
                                 /\ \A p : Owns(b, p)' <=> Owns(b, p)
      /\ Updating = todo /\ Updating' = todo \ {a}
      /\ ~HasVersion(a)' /\ WriteHeader(a)' = arrays'[a].header
      /\ NumPIPs(a)' = Len(arrays'[a].pips) /\ NumPIPs(a)' \in Nat
    BY SettlesIs
<1>2. todo \subseteq Arrays
    BY DEF IInv, TypeInv
<1>3. \A b \in Arrays \ {a} : arrays'[b] = arrays[b]
    BY DEF Settles
<1>4. ~arrays'[a].hasUpdates /\ arrays'[a].updatedPIPs = {} /\ arrays'[a].insertedPIPs = <<>>
    BY DEF Settles
<1>5. ASSUME NEW p \in PageIdxs, HasVersion(p)'
      PROVE  \E b \in Updating' : arrays'[b].hasUpdates /\ Owns(b, p)'
    <2>1. HasVersion(p) /\ ~Owns(a, p)
        BY <1>1, <1>5
    <2>2. PICK b \in Updating : arrays[b].hasUpdates /\ Owns(b, p)
        BY <2>1 DEF IInv, VersionsInv
    <2>3. b \in Arrays \ {a} /\ b \in Updating'
        BY <1>1, <1>2, <2>1, <2>2
    <2> QED BY <1>1, <1>3, <2>2, <2>3
<1>6. ASSUME NEW b \in Arrays, NEW j \in 1..NumPIPs(b)'
      PROVE  HasVersion(PIPs(b)[j])' <=> HasPIPUpdates(b, j - 1)'
    <2>1. PICK p : p = PIPs(b)'[j]
        OBVIOUS
    <2>2. HasVersion(PIPs(b)[j])' <=> HasVersion(p)'
        BY <2>1 DEF HasVersion
    <2>3. CASE b = a
        <3>1. ~HasVersion(p)'
            BY <1>1, <1>6, <2>1, <2>3
        <3>2. ~HasPIPUpdates(b, j - 1)'
            <4>1. ~(j - 1 >= NumPIPs(a)')
                BY <1>1, <1>6, <2>3
            <4> QED BY <1>1, <1>4, <2>3, <4>1 DEF HasPIPUpdates
        <3> QED BY <2>2, <3>1, <3>2
    <2>4. CASE b # a
        <3>1. NumPIPs(b)' = NumPIPs(b) /\ PIPs(b)' = PIPs(b)
            BY <1>1, <2>4 DEF SameLayout, SamePIPs
        <3>2. j \in 1..NumPIPs(b) /\ p = PIPs(b)[j]
            BY <1>6, <2>1, <3>1
        <3>3. p \in PageIdxs /\ Owns(b, p)
            BY <3>2, LayoutIs, PageRanges DEF IInv, Owns
        <3>4. ~Owns(a, p)
            BY <2>4, <3>3, OwnerIsUnique
        <3>5. HasVersion(p)' <=> HasVersion(p)
            BY <1>1, <3>3, <3>4
        <3>6. HasVersion(p) <=> HasPIPUpdates(b, j - 1)
            BY <3>2 DEF IInv, VersionsInv
        <3>7. HasPIPUpdates(b, j - 1)' <=> HasPIPUpdates(b, j - 1)
            BY <1>1, <2>4, SameObjectIs
        <3> QED BY <2>2, <3>5, <3>6, <3>7
    <2> QED BY <2>3, <2>4
<1>7. ASSUME NEW b \in Arrays, NEW k \in NewAPs(b)' PROVE HasVersion(AP(b, k))'
    <2>1. b # a
        <3>1. NewAPs(a)' = arrays'[a].header.numAPs..(arrays'[a].header.numAPs - 1)
            BY <1>1 DEF NewAPs
        <3>2. NewAPs(a)' = {}
            BY <3>1
        <3> QED BY <1>7, <3>2
    <2>2. k \in NewAPs(b)
        BY <1>1, <1>7, <2>1 DEF NewAPs, SameObject
    <2>3. k \in APsOf(b)
        <3> DEFINE h == arrays[b].header.numAPs
                   c == Content[b].numAPs
        <3>1. h \in Nat /\ c \in Nat /\ k \in h..(c - 1)
            BY <2>2, LayoutIs, PrefixIs
        <3> HIDE DEF h, c
        <3>2. k \in 0..(c - 1)
            BY <3>1
        <3> QED BY <3>2 DEF APsOf, APIdxs, c
    <2>4. PICK p : p = AP(b, k)
        OBVIOUS
    <2>5. p \in PageIdxs /\ Owns(b, p) /\ HasVersion(p)
        BY <2>2, <2>3, <2>4, LayoutIs, PageRanges DEF IInv, Owns, VersionsInv
    <2>6. ~Owns(a, p)
        BY <2>1, <2>5, OwnerIsUnique
    <2>7. AP(b, k)' = p
        BY <1>1, <2>1, <2>3, <2>4 DEF SameAPs
    <2>8. HasVersion(AP(b, k))' <=> HasVersion(p)'
        BY <2>7 DEF HasVersion
    <2> QED BY <1>1, <2>5, <2>6, <2>8
<1>8. ASSUME NEW b \in Arrays
      PROVE  /\ arrays'[b].hasUpdates => b \in Updating'
             /\ ~arrays'[b].hasUpdates =>
                    arrays'[b].updatedPIPs = {} /\ arrays'[b].insertedPIPs = <<>>
    BY <1>1, <1>3, <1>4 DEF IInv, VersionsInv
<1> QED BY <1>5, <1>6, <1>7, <1>8 DEF VersionsInv

\* After a checkpoint memory has what the file holds.
Fresh(a) ==
    /\ arrays'[a].header = filePages[a]
    /\ Len(arrays'[a].pips) = NumPIPs(a)
    /\ \A j \in 1..NumPIPs(a) : /\ arrays'[a].pips[j].page = PIPs(a)[j]
                                /\ arrays'[a].pips[j].contents = filePages[PIPs(a)[j]]
    /\ \A k \in APsOf(a) : arrays'[a].inMemArrayPages[k + 1] = filePages[AP(a, k)].cells

\* During a checkpoint, what is in memory and has no version is what the file holds.
LEMMA CheckpointMemory ==
    ASSUME IInv, arrayPhase = "checkpointing", NEW a \in Arrays
    PROVE  /\ Content = filePages
           /\ ~HasVersion(a) => arrays[a].header = filePages[a]
           /\ \A j \in 1..Len(arrays[a].pips) :
                 /\ arrays[a].pips[j].page = PIPs(a)[j]
                 /\ ~HasVersion(PIPs(a)[j]) => arrays[a].pips[j].contents = filePages[PIPs(a)[j]]
           /\ \A k \in 0..(arrays[a].header.numAPs - 1) :
                 ~HasVersion(AP(a, k)) =>
                     arrays[a].inMemArrayPages[k + 1] = filePages[AP(a, k)].cells
<1>1. Content = filePages
    BY DEF IInv, CheckpointInv
<1>2. ~HasVersion(a) => arrays[a].header = filePages[a]
    BY DEF IInv, MemoryInv, IsCurrent
<1>3. \A j \in 1..Len(arrays[a].pips) :
         /\ arrays[a].pips[j].page = PIPs(a)[j]
         /\ ~HasVersion(PIPs(a)[j]) => arrays[a].pips[j].contents = filePages[PIPs(a)[j]]
    <2>1. \A j \in 1..Len(arrays[a].pips) :
             PIPs(a)[j] = arrays[a].pips[j].page /\ OldPIPs(a)[j] = PIPs(a)[j]
        BY PrefixIs
    <2>2. \A j \in 1..Len(arrays[a].pips) :
             ~HasVersion(OldPIPs(a)[j]) => arrays[a].pips[j].contents = filePages[OldPIPs(a)[j]]
        BY DEF IInv, MemoryInv, IsCurrent
    <2> QED BY <2>1, <2>2
<1>4. \A k \in 0..(arrays[a].header.numAPs - 1) :
         ~HasVersion(AP(a, k)) => arrays[a].inMemArrayPages[k + 1] = filePages[AP(a, k)].cells
    <2>1. MemoryInv /\ \A p : ~HasVersion(p) => IsCurrent(p)
        BY DEF IInv, IsCurrent
    <2> QED BY <2>1, SMTT(20) DEF MemoryInv
<1> QED BY <1>1, <1>2, <1>3, <1>4

\* A checkpoint reads all PIPs with versions, the inserted ones too.
LEMMA RefreshedPIPsAre ==
    ASSUME IInv, arrayPhase = "checkpointing", NEW a \in Arrays
    PROVE  /\ Len(RefreshedPIPs(a)) = NumPIPs(a)
           /\ RefreshedPIPs(a) =
                 [j \in 1..NumPIPs(a) |-> [page |-> PIPs(a)[j], contents |-> filePages[PIPs(a)[j]]]]
<1> DEFINE n == Len(arrays[a].pips)
           s == arrays[a].insertedPIPs
           m == Len(s)
           f == [i \in 1..n |->
                    IF i - 1 \in arrays[a].updatedPIPs
                    THEN [arrays[a].pips[i] EXCEPT !.contents = filePages[arrays[a].pips[i].page]]
                    ELSE arrays[a].pips[i]]
           g == [i \in 1..m |-> [page |-> s[i], contents |-> filePages[s[i]]]]
           e == [j \in 1..NumPIPs(a) |-> [page |-> PIPs(a)[j], contents |-> filePages[PIPs(a)[j]]]]
<1>1. n \in Nat /\ m \in Nat /\ NumPIPs(a) = n + m /\ DOMAIN s = 1..m
    BY LayoutIs DEF IInv, TypeInv, IsObject, NumPIPs
<1>2. RefreshedPIPs(a) = f \o g
    BY <1>1 DEF RefreshedPIPs
<1>3. ASSUME NEW i \in 1..n PROVE f[i] = e[i]
    <2>1. arrays[a].pips[i] = [page |-> arrays[a].pips[i].page, contents |-> arrays[a].pips[i].contents]
        <3>1. arrays[a].pips = [j \in 1..n |-> [page |-> arrays[a].pips[j].page,
                                                contents |-> arrays[a].pips[j].contents]]
            BY DEF IInv, TypeInv, IsObject
        <3> QED BY <3>1
    <2>2. arrays[a].pips[i].page = PIPs(a)[i] /\ i \in 1..NumPIPs(a)
        BY PrefixIs
    <2>3. e[i] = [page |-> PIPs(a)[i], contents |-> filePages[PIPs(a)[i]]]
        BY <2>2
    <2>4. CASE i - 1 \in arrays[a].updatedPIPs
        <3>1. f[i] = [arrays[a].pips[i] EXCEPT !.contents = filePages[arrays[a].pips[i].page]]
            BY <2>4
        <3> QED BY <2>1, <2>2, <2>3, <3>1
    <2>5. CASE i - 1 \notin arrays[a].updatedPIPs
        <3>1. ~(i - 1 >= n)
            <4> HIDE DEF n
            <4> QED BY <1>1
        <3>2. ~HasPIPUpdates(a, i - 1)
            BY <2>5, <3>1 DEF HasPIPUpdates
        <3>3. ~HasVersion(PIPs(a)[i])
            BY <2>2, <3>2 DEF IInv, VersionsInv
        <3>4. arrays[a].pips[i].contents = filePages[PIPs(a)[i]]
            BY <3>3, CheckpointMemory
        <3>5. f[i] = arrays[a].pips[i]
            BY <2>5
        <3> QED BY <2>1, <2>2, <2>3, <3>4, <3>5
    <2> QED BY <2>4, <2>5
<1>4. ASSUME NEW i \in 1..m PROVE g[i] = e[n + i]
    <2>1. \A j : PIPPage(a, j) = IF j < n THEN arrays[a].pips[j + 1].page ELSE s[(j - n) + 1]
        BY DEF PIPPage
    <2>2. PICK j : j = n + i
        OBVIOUS
    <2> HIDE DEF n, s, m
    <2>3. j \in 1..NumPIPs(a) /\ ~(j - 1 < n) /\ (j - 1 - n) + 1 = i
        BY <1>1, <2>2
    <2>4. PIPs(a)[j] = s[i]
        BY <2>1, <2>3, LayoutIs
    <2>5. e[j] = [page |-> s[i], contents |-> filePages[s[i]]]
        BY <2>3, <2>4
    <2> QED BY <2>2, <2>5
<1>5. f \o g = e
    <2>1. DOMAIN f = 1..n /\ DOMAIN g = 1..m /\ DOMAIN e = 1..(n + m) /\ Len(f) = n /\ Len(g) = m
        BY <1>1
    <2>2. f = [i \in 1..n |-> f[i]] /\ g = [i \in 1..m |-> g[i]] /\ e = [i \in 1..(n + m) |-> e[i]]
        BY <1>1
    <2> HIDE DEF f, g, e, n, m, s
    <2>3. f \o g = [i \in 1..(Len(f) + Len(g)) |-> IF i <= Len(f) THEN f[i] ELSE g[i - Len(f)]]
        BY <1>1, <2>1, <2>2
    <2>4. ASSUME NEW i \in 1..(n + m) PROVE (IF i <= n THEN f[i] ELSE g[i - n]) = e[i]
        <3>1. CASE i <= n
            BY <1>1, <1>3, <3>1
        <3>2. CASE ~(i <= n)
            <4>1. i - n \in 1..m /\ n + (i - n) = i
                BY <1>1, <3>2
            <4> QED BY <1>4, <3>2, <4>1
        <3> QED BY <3>1, <3>2
    <2> QED BY <2>1, <2>2, <2>3, <2>4
<1>6. Len(e) = NumPIPs(a)
    <2>1. NumPIPs(a) \in Nat
        BY LayoutIs
    <2> QED BY <2>1
<1> QED BY <1>2, <1>5, <1>6

\* It reads all APs with versions, and the new ones.
LEMMA RefreshedAPsAre ==
    ASSUME IInv, arrayPhase = "checkpointing", NEW a \in Arrays
    PROVE  RefreshedAPs(a) = [k \in 1..filePages[a].numAPs |-> filePages[AP(a, k - 1)].cells]
<1> DEFINE h == arrays[a].header.numAPs
           c == filePages[a].numAPs
           pages == arrays[a].inMemArrayPages
<1>1. /\ h \in Nat /\ c \in Nat /\ h <= c /\ DOMAIN pages = 1..h
      /\ WriteHeader(a) = filePages[a] /\ Content = filePages /\ APsOf(a) = 0..(c - 1)
    <2>1. Content = filePages
        BY CheckpointMemory
    <2>2. h \in Nat /\ c \in Nat /\ h <= c /\ WriteHeader(a) = filePages[a]
        BY <2>1, LayoutIs, PrefixIs
    <2>3. pages = [k \in 1..h |-> pages[k]]
        BY DEF IInv, TypeInv, IsObject
    <2>4. DOMAIN pages = 1..h
        BY <2>3
    <2> QED BY <2>1, <2>2, <2>4 DEF APsOf, APIdxs
<1>2. RefreshedAPs(a) = [k \in 1..c |->
            IF k \notin 1..h \/ HasVersion(ReadAPPage(a, k - 1))
            THEN filePages[WriteAPPage(a, k - 1)].cells ELSE pages[k]]
    BY <1>1 DEF RefreshedAPs
<1>3. ASSUME NEW k \in 1..c
      PROVE  (IF k \notin 1..h \/ HasVersion(ReadAPPage(a, k - 1))
              THEN filePages[WriteAPPage(a, k - 1)].cells ELSE pages[k])
             = filePages[AP(a, k - 1)].cells
    <2> DEFINE i == k - 1
    <2>1. i \in 0..(c - 1) /\ i + 1 = k /\ (k \in 1..h => i \in 0..(h - 1))
        <3> HIDE DEF c, h
        <3> QED BY <1>1
    <2>2. WriteAPPage(a, i) = AP(a, i)
        BY <1>1, <2>1, WriteAPPageIs
    <2>3. CASE k \in 1..h /\ ~HasVersion(ReadAPPage(a, i))
        <3>1. ReadAPPage(a, i) = AP(a, i)
            BY <2>1, <2>3, PrefixIs
        <3>2. pages[i + 1] = filePages[AP(a, i)].cells
            BY <2>1, <2>3, <3>1, CheckpointMemory
        <3> QED BY <2>1, <2>3, <3>2
    <2> QED BY <2>2, <2>3
<1> HIDE DEF c, h, pages
<1>4. RefreshedAPs(a) = [k \in 1..c |-> filePages[AP(a, k - 1)].cells]
    BY <1>2, <1>3
<1> QED BY <1>4 DEF c

\* Together: the array is settled, and memory has what the file holds.
LEMMA CheckpointEffect ==
    ASSUME IInv, NEW a \in Arrays, CheckpointInMemoryIfNecessary(a)
    PROVE  Settles(a) /\ Fresh(a) /\ UNCHANGED numFilePages /\ arrayPhase = "checkpointing"
<1>1. /\ arrayPhase = "checkpointing" /\ a \in todo /\ EndsReplay(a)
      /\ UNCHANGED <<numFilePages, filePages>>
    BY DEF CheckpointInMemoryIfNecessary, IsNext
<1>2. Content = filePages
    BY <1>1, CheckpointMemory
<1>3. arrays = [b \in Arrays |-> arrays[b]] /\ IsObject(arrays[a])
      /\ walVersion = [p \in PageIdxs |-> walVersion[p]]
    BY DEF IInv, TypeInv, IsFile
<1>4. CASE ~arrays[a].hasUpdates
    <2>1. UNCHANGED <<arrays, walVersion>>
        BY <1>4 DEF CheckpointInMemoryIfNecessary
    <2>2. \A p \in PageIdxs : Owns(a, p) => walVersion[p] = NoVersion
        BY <1>4, NotUpdated DEF HasVersion
    <2>3. arrays[a].updatedPIPs = {} /\ arrays[a].insertedPIPs = <<>>
        BY <1>4 DEF IInv, VersionsInv
    <2>4. Settles(a)
        BY <1>1, <1>3, <1>4, <2>1, <2>2, <2>3 DEF Settles
    <2>5. a \in PageIdxs /\ Owns(a, a)
        BY PageRanges DEF IInv, Owns
    <2>6. \A p \in PageIdxs : Owns(a, p) => ~HasVersion(p)
        BY <1>4, NotUpdated
    <2>7. Len(arrays[a].pips) = NumPIPs(a)
        <3> DEFINE n == Len(arrays[a].pips)
        <3>1. NumPIPs(a) = n + Len(<<>>) /\ n \in Nat
            BY <2>3, LayoutIs DEF NumPIPs
        <3> QED BY <3>1
    <2>8. arrays[a].header = filePages[a]
        BY <1>1, <2>5, <2>6, CheckpointMemory
    <2>9. \A j \in 1..NumPIPs(a) : /\ arrays[a].pips[j].page = PIPs(a)[j]
                                   /\ arrays[a].pips[j].contents = filePages[PIPs(a)[j]]
        <3>1. \A j \in 1..NumPIPs(a) : PIPs(a)[j] \in PageIdxs /\ Owns(a, PIPs(a)[j])
            BY LayoutIs, PageRanges DEF IInv, Owns
        <3> QED BY <1>1, <2>6, <2>7, <3>1, CheckpointMemory
    <2>10. \A k \in APsOf(a) : arrays[a].inMemArrayPages[k + 1] = filePages[AP(a, k)].cells
        <3>1. \A k \in APsOf(a) : AP(a, k) \in PageIdxs /\ Owns(a, AP(a, k))
            BY LayoutIs, PageRanges DEF IInv, Owns
        <3>2. APsOf(a) = 0..(arrays[a].header.numAPs - 1)
            BY <1>2, <2>8 DEF APsOf, APIdxs
        <3> QED BY <1>1, <2>6, <3>1, <3>2, CheckpointMemory
    <2>11. Fresh(a)
        BY <2>1, <2>7, <2>8, <2>9, <2>10 DEF Fresh
    <2> QED BY <1>1, <2>4, <2>11
<1>5. CASE arrays[a].hasUpdates
    <2> DEFINE B == [header |-> filePages[a], pips |-> RefreshedPIPs(a), updatedPIPs |-> {},
                     insertedPIPs |-> <<>>, inMemArrayPages |-> RefreshedAPs(a),
                     hasUpdates |-> FALSE]
    <2>1. arrays' = [arrays EXCEPT ![a] = B] /\ walVersion' = Clear(KnownPages(a), numFilePages)
        BY <1>5 DEF CheckpointInMemoryIfNecessary, KnownPages
    <2>2. /\ B.header = filePages[a] /\ B.pips = RefreshedPIPs(a) /\ B.updatedPIPs = {}
          /\ B.insertedPIPs = <<>> /\ B.inMemArrayPages = RefreshedAPs(a) /\ B.hasUpdates = FALSE
          /\ B = [header |-> B.header, pips |-> B.pips, updatedPIPs |-> B.updatedPIPs,
                  insertedPIPs |-> B.insertedPIPs, inMemArrayPages |-> B.inMemArrayPages,
                  hasUpdates |-> B.hasUpdates]
        OBVIOUS
    <2> HIDE DEF B
    <2>3. /\ arrays' = [b \in Arrays |-> arrays'[b]] /\ arrays'[a] = B
          /\ \A b \in Arrays \ {a} : arrays'[b] = arrays[b]
        BY <1>3, <2>1
    <2>4. /\ Len(B.pips) = NumPIPs(a) /\ NumPIPs(a) \in Nat
          /\ B.pips = [j \in 1..NumPIPs(a) |->
                          [page |-> PIPs(a)[j], contents |-> filePages[PIPs(a)[j]]]]
        BY <1>1, <2>2, RefreshedPIPsAre, LayoutIs
    <2>5. \A j \in 1..NumPIPs(a) : /\ B.pips[j] = [page |-> PIPs(a)[j],
                                                   contents |-> filePages[PIPs(a)[j]]]
                                   /\ B.pips[j].page = PIPs(a)[j]
                                   /\ B.pips[j].contents = filePages[PIPs(a)[j]]
        BY <2>4
    <2>6. B.inMemArrayPages = [k \in 1..filePages[a].numAPs |-> filePages[AP(a, k - 1)].cells]
        BY <1>1, <2>2, RefreshedAPsAre
    <2>7. ASSUME NEW k \in APsOf(a) PROVE B.inMemArrayPages[k + 1] = filePages[AP(a, k)].cells
        <3> DEFINE c == filePages[a].numAPs
        <3>1. c \in Nat /\ k \in 0..(c - 1)
            BY <1>2, LayoutIs DEF APsOf, APIdxs
        <3> HIDE DEF c
        <3>2. k + 1 \in 1..c /\ (k + 1) - 1 = k
            BY <3>1
        <3> QED BY <2>6, <3>2 DEF c
    <2>8. IsObject(B)
        <3>1. B.pips = [j \in 1..Len(B.pips) |-> [page |-> B.pips[j].page,
                                                  contents |-> B.pips[j].contents]]
            BY <2>4, <2>5
        <3>2. B.inMemArrayPages = [k \in 1..B.header.numAPs |-> B.inMemArrayPages[k]]
            BY <2>2, <2>6
        <3>3. B.updatedPIPs \subseteq 0..(Len(B.pips) - 1) /\ Len(B.pips) \in Nat
            BY <2>2, <2>4
        <3>4. B.insertedPIPs \in Seq(PageIdxs)
            <4>1. <<>> \in Seq(PageIdxs)
                OBVIOUS
            <4> QED BY <2>2, <4>1
        <3>5. B.hasUpdates \in BOOLEAN
            BY <2>2, Zenon
        <3> QED BY <2>2, <3>1, <3>2, <3>3, <3>4, <3>5 DEF IsObject
    <2>9. /\ walVersion' = [p \in PageIdxs |-> walVersion'[p]]
          /\ \A p \in PageIdxs : IF Owns(a, p) THEN walVersion'[p] = NoVersion
                                               ELSE walVersion'[p] = walVersion[p]
        BY <2>1, ClearIs
    <2>10. Settles(a)
        BY <1>1, <2>2, <2>3, <2>8, <2>9 DEF Settles
    <2>11. Fresh(a)
        BY <2>2, <2>3, <2>4, <2>5, <2>7 DEF Fresh
    <2> QED BY <1>1, <2>10, <2>11
<1> QED BY <1>4, <1>5

\* Between transactions no version remains, and the arrays of the file are those in memory.
LEMMA IdleOldPages ==
    TypeInv /\ SizesInv /\ LayoutInv /\ VersionsInv /\ MemoryInv /\ arrayPhase = "idle" => OldPagesInv
<1> SUFFICES ASSUME TypeInv, SizesInv, LayoutInv, VersionsInv, MemoryInv, arrayPhase = "idle"
             PROVE  OldPagesInv
    OBVIOUS
<1>1. Updating = {} /\ \A p \in PageIdxs : ~HasVersion(p)
    BY DEF TypeInv, Updating, VersionsInv
<1>2. Content = filePages
    <2>1. Content = [p \in PageIdxs |-> filePages[p]]
        BY <1>1 DEF Content, ReplayPages
    <2> QED BY <2>1 DEF TypeInv, IsFile
<1> DEFINE N == numFilePages
           S == NumPagesOf(filePages)
<1>3. N = S
    <2>1. N \in NumArrays..MaxPages /\ S \in NumArrays..N /\ NumArrays \in Nat /\ MaxPages \in Nat
        BY Constants DEF TypeInv, SizesInv
    <2>2. ASSUME S < N PROVE FALSE
        <3>1. N - 1 \in PageIdxs /\ N - 1 \in S..(N - 1)
            <4> HIDE DEF S
            <4> QED BY <2>1, <2>2 DEF PageIdxs
        <3> QED BY <1>1, <3>1 DEF SizesInv
    <2> HIDE DEF S, N
    <2> QED BY <2>1, <2>2
<1>4. ASSUME NEW a \in Arrays
      PROVE  /\ IsArrayIn(filePages, a, OldPIPs(a))
             /\ \A j \in 1..NumPIPs(a) : PIPs(a)[j] < S <=> j <= Len(arrays[a].pips)
             /\ \A k \in APsOf(a) : AP(a, k) < S <=> k < arrays[a].header.numAPs
    <2> DEFINE n == Len(arrays[a].pips)
    <2>1. ~arrays[a].hasUpdates
        BY <1>1 DEF VersionsInv
    <2>2. arrays[a].insertedPIPs = <<>> /\ n \in Nat
        BY <2>1 DEF VersionsInv, TypeInv, IsObject
    <2>3. NumPIPs(a) = n
        <3>1. NumPIPs(a) = n + Len(<<>>)
            BY <2>2 DEF NumPIPs
        <3> QED BY <2>2, <3>1
    <2>4. PIPs(a) = OldPIPs(a)
        <3>1. PIPs(a) = [j \in 1..n |-> PIPPage(a, j - 1)]
            BY <2>3 DEF PIPs
        <3>2. ASSUME NEW j \in 1..n PROVE PIPPage(a, j - 1) = arrays[a].pips[j].page
            <4>1. PIPPage(a, j - 1) = IF j - 1 < n THEN arrays[a].pips[(j - 1) + 1].page
                                      ELSE arrays[a].insertedPIPs[((j - 1) - n) + 1]
                BY DEF PIPPage
            <4> HIDE DEF n
            <4>2. j - 1 < n /\ (j - 1) + 1 = j
                BY <2>2
            <4> QED BY <4>1, <4>2
        <3> QED BY <3>1, <3>2 DEF OldPIPs
    <2>5. IsArrayIn(filePages, a, OldPIPs(a))
        BY <1>2, <2>4 DEF LayoutInv
    <2>6. a \in PageIdxs /\ OwnPages \subseteq PageIdxs /\ \A p \in OwnPages : p < N
        BY PageRanges
    <2>7. arrays[a].header = filePages[a]
        BY <1>1, <2>6 DEF MemoryInv, IsCurrent
    <2>8. \A k \in APsOf(a) : k < arrays[a].header.numAPs
        <3>1. APsOf(a) = 0..(arrays[a].header.numAPs - 1)
            BY <1>2, <2>7 DEF APsOf, APIdxs
        <3>2. arrays[a].header.numAPs \in Nat
            <4>1. IsArrayIn(filePages, a, OldPIPs(a)) /\ MaxElements \in Nat
                BY <2>5, Constants
            <4>2. filePages[a].numElements \in Nat
                  /\ filePages[a].numAPs = Ceil(filePages[a].numElements, ElementsPerPage)
                BY <4>1 DEF IsArrayIn, NumAPsFor, Ceil
            <4> QED BY <2>7, <4>2, Constants, CeilIs
        <3> QED BY <3>1, <3>2
    <2>9. \A j \in 1..NumPIPs(a) : j <= n
        BY <2>2, <2>3
    <2> QED BY <1>3, <2>5, <2>6, <2>8, <2>9 DEF LayoutInv
<1> QED BY <1>4 DEF OldPagesInv

\* The checkpoint of an array keeps the invariant, and changes nothing for the write transaction.
LEMMA CheckpointStep ==
    ASSUME IInv, NEW a \in Arrays, CheckpointInMemoryIfNecessary(a)
    PROVE  IInv' /\ Content' = Content /\ \A b \in Arrays : SameLayout(b)
<1>1. Settles(a) /\ Fresh(a) /\ UNCHANGED numFilePages /\ arrayPhase = "checkpointing"
    BY CheckpointEffect
<1>2. Content = filePages /\ filePages' = filePages
    BY <1>1, CheckpointMemory DEF Settles
<1>3. /\ \A p \in PageIdxs : HasVersion(p)' <=> HasVersion(p) /\ ~Owns(a, p)
      /\ \A p \in PageIdxs : Content'[p] = IF Owns(a, p) THEN filePages[p] ELSE Content[p]
      /\ \A b \in Arrays \ {a} : /\ SameObject(b) /\ SameLayout(b) /\ SameAPs(b)
                                 /\ WriteHeader(b)' = WriteHeader(b)
      /\ Updating' = todo' /\ arrayPhase' \in {arrayPhase, "idle"}
      /\ arrayPhase' = "idle" => todo' = {}
      /\ ~HasVersion(a)' /\ WriteHeader(a)' = arrays'[a].header
      /\ NumPIPs(a)' = Len(arrays'[a].pips)
      /\ \A j \in 1..NumPIPs(a)' : PIPs(a)'[j] = arrays'[a].pips[j].page
      /\ Len(PIPs(a)') = NumPIPs(a)' /\ NumPIPs(a)' \in Nat
      /\ numFilePages' \in NumArrays..MaxPages => TypeInv'
    BY <1>1, SettlesIs
<1>4. Content' = Content
    <2>1. \A p \in PageIdxs : Content'[p] = Content[p]
        BY <1>2, <1>3
    <2>2. Content' = [p \in PageIdxs |-> Content'[p]] /\ Content = [p \in PageIdxs |-> Content[p]]
        BY DEF Content, ReplayPages
    <2> QED BY <2>1, <2>2
<1>5. TypeInv'
    BY <1>1, <1>3 DEF IInv, TypeInv
<1>6. SamePIPs(a)
    <2>1. NumPIPs(a)' = NumPIPs(a)
        BY <1>1, <1>3 DEF Fresh
    <2>2. PIPs(a)' = [j \in 1..NumPIPs(a)' |-> PIPs(a)'[j]]
        BY DEF PIPs
    <2>3. PIPs(a) = [j \in 1..NumPIPs(a) |-> PIPs(a)[j]]
        BY DEF PIPs
    <2>4. \A j \in 1..NumPIPs(a) : PIPs(a)'[j] = PIPs(a)[j]
        BY <1>1, <1>3, <2>1 DEF Fresh
    <2> QED BY <2>1, <2>2, <2>3, <2>4 DEF SamePIPs
<1>7. \A b \in Arrays : SameLayout(b)
    BY <1>3, <1>4, <1>6 DEF SameLayout
<1>8. /\ LayoutInv' /\ SeparateInv'
      /\ \A b \in Arrays : SamePIPs(b) /\ SameAPs(b)
    BY <1>1, <1>7, AllSameLayout
<1>9. VersionsInv'
    <2>1. \A j \in 1..NumPIPs(a) : Owns(a, PIPs(a)[j]) /\ PIPs(a)[j] \in PageIdxs
        BY LayoutIs, PageRanges DEF IInv, Owns
    <2>2. \A j \in 1..NumPIPs(a)' : Owns(a, PIPs(a)'[j]) /\ PIPs(a)'[j] \in PageIdxs
        BY <1>6, <2>1 DEF SamePIPs
    <2>3. arrays'[a].header.numAPs \in Nat
        BY <1>1, <1>2, LayoutIs DEF Fresh
    <2> QED BY <1>1, <2>2, <2>3, SettledVersions
<1>10. SizesInv'
    <2>1. NumPagesOf(filePages)' = NumPagesOf(filePages)
        BY <1>2 DEF NumPagesOf
    <2> DEFINE N == numFilePages
               S == NumPagesOf(filePages)
    <2>2. N \in NumArrays..MaxPages /\ S \in NumArrays..N /\ NumArrays \in Nat /\ MaxPages \in Nat
        BY Constants DEF IInv, TypeInv, SizesInv
    <2>3. ASSUME NEW p \in PageIdxs PROVE p \notin S..(N - 1)
        <3> SUFFICES ASSUME p \in S..(N - 1) PROVE FALSE
            OBVIOUS
        <3>1. HasVersion(p)
            BY DEF IInv, SizesInv
        <3>2. filePages[p] # NoVersion
            BY <1>2, <3>1, ContentIs DEF HasVersion
        <3>3. p < S
            BY <3>2 DEF IInv, SizesInv
        <3> HIDE DEF S, N
        <3> QED BY <2>2, <3>3
    <2>4. \A p \in PageIdxs : HasVersion(p)' => p < N
        BY <1>3 DEF IInv, SizesInv
    <2> QED BY <1>1, <1>2, <2>1, <2>3, <2>4 DEF IInv, SizesInv
<1>11. \A p : IsCurrent(p)' /\ p \in PageIdxs => ~HasVersion(p)'
    <2>1. CASE arrayPhase' = "checkpointing"
        BY <2>1 DEF IsCurrent
    <2>2. CASE arrayPhase' = "idle"
        BY <1>3, <1>9, <2>2 DEF VersionsInv
    <2> QED BY <1>1, <1>3, <2>1, <2>2
<1>12. ASSUME NEW b \in Arrays, b # a
       PROVE  /\ IsCurrent(b)' => arrays'[b].header = filePages'[b]
              /\ \A j \in 1..Len(arrays'[b].pips) :
                    IsCurrent(OldPIPs(b)[j])' =>
                        arrays'[b].pips[j].contents = filePages'[OldPIPs(b)'[j]]
              /\ \A k \in 0..(arrays'[b].header.numAPs - 1) :
                    IsCurrent(AP(b, k))' =>
                        arrays'[b].inMemArrayPages[k + 1] = filePages'[AP(b, k)'].cells
    <2>1. arrays'[b] = arrays[b] /\ OldPIPs(b)' = OldPIPs(b)
        BY <1>1, <1>3, <1>12, SameObjectIs DEF Settles
    <2>2. \A p : Owns(b, p) => ~Owns(a, p)
        BY <1>12, OwnerIsUnique
    <2>3. \A p \in PageIdxs : IsCurrent(p)' /\ Owns(b, p) => ~HasVersion(p)
        BY <1>3, <1>11, <2>2
    <2>4. IsCurrent(b)' => arrays'[b].header = filePages'[b]
        <3>1. b \in PageIdxs /\ Owns(b, b)
            BY PageRanges DEF IInv, Owns
        <3> QED BY <1>1, <1>2, <2>1, <2>3, <3>1, CheckpointMemory
    <2>5. ASSUME NEW j \in 1..Len(arrays'[b].pips), IsCurrent(OldPIPs(b)[j])'
          PROVE  arrays'[b].pips[j].contents = filePages'[OldPIPs(b)'[j]]
        <3>1. j \in 1..Len(arrays[b].pips)
            BY <2>1
        <3>2. PICK p : p = PIPs(b)[j]
            OBVIOUS
        <3>3. p \in PageIdxs /\ Owns(b, p) /\ OldPIPs(b)[j] = p
            BY <3>1, <3>2, PrefixIs, LayoutIs, PageRanges DEF IInv, Owns
        <3>4. IsCurrent(p)'
            BY <2>1, <2>5, <3>3 DEF IsCurrent, HasVersion
        <3> QED BY <1>1, <1>2, <2>1, <2>3, <3>1, <3>2, <3>3, <3>4, CheckpointMemory
    <2>6. ASSUME NEW k \in 0..(arrays'[b].header.numAPs - 1), IsCurrent(AP(b, k))'
          PROVE  arrays'[b].inMemArrayPages[k + 1] = filePages'[AP(b, k)'].cells
        <3>1. k \in 0..(arrays[b].header.numAPs - 1)
            BY <2>1
        <3>2. PICK p : p = AP(b, k)
            OBVIOUS
        <3>3. k \in APsOf(b)
            BY <3>1, PrefixIs
        <3>4. p \in PageIdxs /\ Owns(b, p) /\ AP(b, k)' = p
            BY <1>8, <3>2, <3>3, LayoutIs, PageRanges DEF IInv, Owns, SameAPs
        <3>5. IsCurrent(p)'
            BY <2>6, <3>4 DEF IsCurrent, HasVersion
        <3> QED BY <1>1, <1>2, <2>1, <2>3, <3>1, <3>2, <3>4, <3>5, CheckpointMemory
    <2> QED BY <2>4, <2>5, <2>6
<1>13. /\ arrays'[a].header = filePages'[a]
       /\ \A j \in 1..Len(arrays'[a].pips) :
             arrays'[a].pips[j].contents = filePages'[OldPIPs(a)'[j]]
       /\ \A k \in 0..(arrays'[a].header.numAPs - 1) :
             arrays'[a].inMemArrayPages[k + 1] = filePages'[AP(a, k)'].cells
    <2>1. \A j \in 1..Len(arrays'[a].pips) : OldPIPs(a)'[j] = PIPs(a)[j]
        BY <1>1 DEF OldPIPs, Fresh
    <2>2. 0..(arrays'[a].header.numAPs - 1) = APsOf(a)
        BY <1>1, <1>2 DEF Fresh, APsOf, APIdxs
    <2>3. \A k \in APsOf(a) : AP(a, k)' = AP(a, k)
        BY <1>8 DEF SameAPs
    <2>4. arrays'[a].header = filePages'[a]
        BY <1>1, <1>2 DEF Fresh
    <2>5. ASSUME NEW j \in 1..Len(arrays'[a].pips)
          PROVE  arrays'[a].pips[j].contents = filePages'[OldPIPs(a)'[j]]
        BY <1>1, <1>2, <2>1 DEF Fresh
    <2>6. ASSUME NEW k \in APsOf(a)
          PROVE  arrays'[a].inMemArrayPages[k + 1] = filePages'[AP(a, k)'].cells
        BY <1>1, <1>2, <2>3 DEF Fresh
    <2> QED BY <2>2, <2>4, <2>5, <2>6
<1>14. MemoryInv'
    BY <1>12, <1>13 DEF MemoryInv
<1>15. PrefixInv'
    <2> SUFFICES ASSUME NEW b \in Arrays
                 PROVE  /\ arrays'[b].header.numElements \in 0..Content'[b].numElements
                        /\ arrays'[b].header.numAPs = NumAPsFor(arrays'[b].header.numElements)
                        /\ Len(arrays'[b].pips) = NumPIPsFor(arrays'[b].header.numElements)
                        /\ \A k \in 0..(arrays'[b].header.numAPs - 1) :
                              ReadAPPage(b, k)' = AP(b, k)'
        BY DEF PrefixInv, NumAPsFor, NumPIPsFor
    <2>1. CASE b # a
        <3>1. SameObject(b) /\ \A k : ReadAPPage(b, k)' = ReadAPPage(b, k)
            BY <1>3, <2>1, SameObjectIs
        <3>2. \A k \in 0..(arrays[b].header.numAPs - 1) : AP(b, k)' = AP(b, k)
            BY <1>8, PrefixIs DEF SameAPs
        <3> QED BY <1>4, <3>1, <3>2 DEF IInv, PrefixInv, SameObject
    <2>2. CASE b = a
        <3>1. IsArrayIn(Content, a, PIPs(a)) /\ Len(PIPs(a)) = NumPIPs(a) /\ Content[a].numElements \in Nat
            BY LayoutIs DEF IInv, LayoutInv
        <3>2. arrays'[a].header = Content[a] /\ Content'[a] = Content[a] /\ Len(arrays'[a].pips) = NumPIPs(a)
            BY <1>1, <1>2, <1>4 DEF Fresh
        <3>3. ASSUME NEW k \in APsOf(a) PROVE ReadAPPage(a, k)' = AP(a, k)'
            <4>1. AP(a, k)' = AP(a, k)
                BY <1>8 DEF SameAPs
            <4> DEFINE j == k \div PageIdxsPerPIP + 1
            <4>2. j \in 1..NumPIPs(a) /\ AP(a, k) = Content[PIPs(a)[j]].cells[k % PageIdxsPerPIP]
                BY LayoutIs
            <4>3. 1 + k \div PageIdxsPerPIP = j
                BY Constants, Division, LayoutIs
            <4>4. ReadAPPage(a, k)' = arrays'[a].pips[j].contents.cells[k % PageIdxsPerPIP]
                BY <4>3 DEF ReadAPPage
            <4> HIDE DEF j
            <4> QED BY <1>1, <1>2, <4>1, <4>2, <4>4 DEF Fresh
        <3>4. 0..(arrays'[a].header.numAPs - 1) = APsOf(a)
            BY <3>2 DEF APsOf, APIdxs
        <3>5. Content[a].numElements \in 0..Content[a].numElements
            BY <3>1
        <3> QED BY <2>2, <3>1, <3>2, <3>3, <3>4, <3>5 DEF IsArrayIn
    <2> QED BY <2>1, <2>2
<1>16. OldPagesInv'
    <2>1. CASE arrayPhase' = "checkpointing"
        BY <2>1 DEF OldPagesInv
    <2>2. CASE arrayPhase' = "idle"
        <3>1. (TypeInv /\ SizesInv /\ LayoutInv /\ VersionsInv /\ MemoryInv /\ arrayPhase = "idle")'
              => OldPagesInv'
            BY IdleOldPages, PTL
        <3> QED BY <1>5, <1>8, <1>9, <1>10, <1>14, <2>2, <3>1
    <2> QED BY <1>1, <1>3, <2>1, <2>2
<1>17. CheckpointInv' /\ RollbackInv'
    BY <1>1, <1>2, <1>3, <1>4 DEF CheckpointInv, RollbackInv
<1> QED BY <1>4, <1>5, <1>7, <1>8, <1>9, <1>10, <1>14, <1>15, <1>16, <1>17 DEF IInv

\* The least element of a set of numbers.
LEMMA MinIs ==
    ASSUME NEW T, T \subseteq Nat, NEW x \in T, \A y \in T : x <= y
    PROVE  Min(T) = x
<1> DEFINE c == CHOOSE y \in T : \A z \in T : y <= z
<1>1. c \in T /\ \A z \in T : c <= z
    OBVIOUS
<1>2. Min(T) = c
    BY DEF Min
<1> HIDE DEF c
<1>3. c \in Nat /\ x \in Nat /\ c <= x /\ x <= c
    BY <1>1
<1> QED BY <1>2, <1>3

\* New pages are beyond the end of the file, and only arrays that have new APs have any.
LEMMA NewPagesAre ==
    ASSUME IInv, arrayPhase # "checkpointing", NEW a \in Arrays
    PROVE  /\ \A k \in NewAPs(a) : /\ k \in APsOf(a) /\ ~(AP(a, k) < NumPagesOf(filePages))
                                   /\ AP(a, k) \in OwnPages
           /\ \A p : Owns(a, p) /\ ~(p < NumPagesOf(filePages)) =>
                 HasNewPages(a) /\ (p \in NewAPPages(a) \/ p \in InsertedPIPPages(a))
           /\ \A p \in InsertedPIPPages(a) : ~(p < NumPagesOf(filePages)) /\ p \in OwnPages
           /\ InsertedPIPPages(a) # {} => HasNewPages(a)
           /\ NewAPPages(a) = {AP(a, k) : k \in NewAPs(a)}
<1> DEFINE h == arrays[a].header.numAPs
           c == Content[a].numAPs
           n == Len(arrays[a].pips)
           m == NumPIPs(a)
           S == NumPagesOf(filePages)
<1>1. /\ h \in Nat /\ c \in Nat /\ n \in Nat /\ m \in Nat /\ h <= c
      /\ NewAPs(a) = h..(c - 1) /\ APsOf(a) = 0..(c - 1)
      /\ n = Ceil(h, PageIdxsPerPIP) /\ m = Ceil(c, PageIdxsPerPIP)
    BY LayoutIs, PrefixIs DEF APsOf, APIdxs
<1>2. /\ \A j \in 1..m : PIPs(a)[j] < S <=> j <= n
      /\ \A k \in APsOf(a) : AP(a, k) < S <=> k < h
    BY DEF IInv, OldPagesInv
<1>3. HasNewPages(a) <=> NewAPs(a) # {}
    BY DEF HasNewPages
<1>4. /\ \A j \in 1..m : PIPs(a)[j] \in OwnPages
      /\ \A k \in APsOf(a) : AP(a, k) \in OwnPages
    BY LayoutIs
<1>5. a < S
    <2>1. S \in NumArrays..numFilePages /\ numFilePages \in Nat /\ NumArrays \in Nat /\ a \in 0..(NumArrays - 1)
        BY Constants, PageRanges DEF IInv, SizesInv
    <2> HIDE DEF S
    <2> QED BY <2>1
<1> HIDE DEF h, c, n, m, S
<1>6. \A k \in NewAPs(a) : k \in APsOf(a) /\ ~(k < h)
    BY <1>1
<1>7. NewAPPages(a) = {AP(a, k) : k \in NewAPs(a)}
    BY <1>6, WriteAPPageIs DEF NewAPPages
<1>8. n < m => NewAPs(a) # {}
    <2>1. h = c => n = m
        BY <1>1
    <2>2. n < m => h < c
        BY <1>1, <2>1
    <2>3. h < c => h \in h..(c - 1)
        BY <1>1
    <2> QED BY <1>1, <2>2, <2>3
<1>9. /\ \A p \in InsertedPIPPages(a) : \E j \in 1..m : j > n /\ p = PIPs(a)[j]
      /\ \A j \in 1..m : j > n => PIPs(a)[j] \in InsertedPIPPages(a)
    BY InsertedPIPPagesAre DEF n, m
<1>10. ASSUME NEW p \in InsertedPIPPages(a) PROVE ~(p < S) /\ p \in OwnPages /\ n < m
    <2>1. PICK j \in 1..m : j > n /\ p = PIPs(a)[j]
        BY <1>9
    <2>2. ~(j <= n) /\ n < m
        BY <1>1, <2>1
    <2> QED BY <1>2, <1>4, <2>1, <2>2
<1>11. ASSUME NEW p, Owns(a, p), ~(p < S)
       PROVE  HasNewPages(a) /\ (p \in NewAPPages(a) \/ p \in InsertedPIPPages(a))
    <2>1. p # a
        BY <1>5, <1>11
    <2>2. ASSUME NEW j \in 1..m, p = PIPs(a)[j] PROVE p \in InsertedPIPPages(a) /\ HasNewPages(a)
        <3>1. j > n
            BY <1>1, <1>2, <1>11, <2>2
        <3> QED BY <1>3, <1>8, <1>9, <1>10, <2>2, <3>1
    <2>3. ASSUME NEW k \in APsOf(a), p = AP(a, k) PROVE p \in NewAPPages(a) /\ HasNewPages(a)
        <3>1. ~(k < h)
            BY <1>2, <1>11, <2>3
        <3>2. k \in NewAPs(a)
            BY <1>1, <3>1
        <3> QED BY <1>3, <1>7, <2>3, <3>2
    <2> QED BY <1>11, <2>1, <2>2, <2>3 DEF Owns, m
<1> QED BY <1>2, <1>3, <1>4, <1>6, <1>7, <1>8, <1>10, <1>11 DEF S

\* A rollback of one array removes all new pages or none.
NumPagesAfter(a) == IF HasNewPages(a) THEN NumPagesOf(filePages) ELSE numFilePages

\* A rollback that is not shared removes all new pages of the array and reads none of them again.
LEMMA RollbackPages ==
    ASSUME IInv, arrayPhase = "rollingBack", NEW a \in Arrays
    PROVE  LET firstPIP == Min({numFilePages} \cup InsertedPIPPages(a))
           IN  /\ InsertedPIPPages(a) \cap {firstPIP} = InsertedPIPPages(a)
               /\ Min({firstPIP} \cup NewAPPages(a)) = NumPagesAfter(a)
               /\ ~ReadsRemovedPIP(a)
<1> DEFINE N == numFilePages
           S == NumPagesOf(filePages)
           I == InsertedPIPPages(a)
           f == Min({N} \cup I)
           A == NewAPPages(a)
<1>1. /\ N \in Nat /\ S \in Nat /\ S <= N /\ OwnPages \subseteq Nat /\ \A p \in OwnPages : p < N
    <2>1. N \in Nat /\ NumArrays \in Nat /\ S \in NumArrays..N
        BY Constants, PageRanges DEF IInv, SizesInv
    <2>2. OwnPages \subseteq Nat /\ \A p \in OwnPages : p < N
        BY PageRanges DEF IInv
    <2> HIDE DEF N, S
    <2> QED BY <2>1, <2>2
<1>2. /\ \A p \in I : ~(p < S) /\ p \in OwnPages
      /\ \A p \in A : ~(p < S) /\ p \in OwnPages
      /\ I # {} => HasNewPages(a)
      /\ HasNewPages(a) <=> A # {}
    <2>1. A = {AP(a, k) : k \in NewAPs(a)}
        BY NewPagesAre
    <2>2. \A p \in A : ~(p < S) /\ p \in OwnPages
        BY <2>1, NewPagesAre
    <2>3. HasNewPages(a) <=> A # {}
        BY <2>1 DEF HasNewPages
    <2> QED BY <2>2, <2>3, NewPagesAre
<1>3. ASSUME NEW p \in I, NEW q \in I PROVE p = q
    <2> DEFINE s == arrays[a].insertedPIPs
               m == Len(s)
    <2>1. m \in Nat /\ m <= 1 /\ DOMAIN s = 1..m
        BY LayoutIs DEF IInv, RollbackInv, TypeInv, IsObject
    <2>2. I = {s[i] : i \in 1..m}
        BY <2>1 DEF InsertedPIPPages
    <2> HIDE DEF s, m
    <2>3. \A i, j \in 1..m : i = j
        BY <2>1
    <2> QED BY <2>2, <2>3
<1> HIDE DEF I, A
<1>4. f \in Nat /\ f \in {N} \cup I /\ f <= N /\ I \cap {f} = I
    <2>1. CASE I = {}
        <3>1. f = N
            BY <1>1, <2>1, MinIs
        <3> QED BY <1>1, <2>1, <3>1
    <2>2. ASSUME NEW q \in I PROVE f \in Nat /\ f \in {N} \cup I /\ f <= N /\ I \cap {f} = I
        <3>1. I = {q}
            BY <1>3
        <3>2. q \in Nat /\ q < N
            BY <1>1, <1>2
        <3>3. f = q
            <4> DEFINE T == {N} \cup I
            <4>1. T \subseteq Nat /\ q \in T /\ \A y \in T : q <= y
                BY <1>1, <3>1, <3>2
            <4> HIDE DEF T
            <4>2. Min(T) = q
                BY <4>1, MinIs
            <4> QED BY <4>2 DEF T
        <3> HIDE DEF f, N
        <3>4. f <= N
            BY <1>1, <3>2, <3>3
        <3> QED BY <3>1, <3>2, <3>3, <3>4
    <2> QED BY <2>1, <2>2
<1> HIDE DEF f
<1>5. Min({f} \cup A) = NumPagesAfter(a)
    <2> DEFINE T == {f} \cup A
    <2>1. T \subseteq Nat
        BY <1>1, <1>2, <1>4
    <2>2. CASE ~HasNewPages(a)
        <3>1. I = {} /\ A = {}
            BY <1>2, <2>2
        <3>2. f = N /\ T = {N}
            BY <1>4, <3>1
        <3>3. N \in T /\ \A y \in T : N <= y
            BY <1>1, <3>2
        <3> HIDE DEF T
        <3>4. Min(T) = N
            BY <2>1, <3>3, MinIs
        <3> QED BY <2>2, <3>4 DEF T, NumPagesAfter
    <2>3. CASE HasNewPages(a)
        <3>1. PICK q \in A : q \in OwnPages /\ ~(q < S)
            BY <1>2, <2>3
        <3>2. S < N
            BY <1>1, <3>1
        <3>3. S \in PageIdxs /\ S \in S..(N - 1)
            <4>1. N <= MaxPages /\ MaxPages \in Nat
                BY Constants DEF IInv, TypeInv
            <4> HIDE DEF S, N
            <4> QED BY <1>1, <3>2, <4>1 DEF PageIdxs
        <3>4. HasVersion(S)
            BY <3>3 DEF IInv, SizesInv
        <3>5. PICK b \in Arrays : Owns(b, S)
            <4>1. Updating \subseteq Arrays
                BY DEF IInv, TypeInv, Updating
            <4> QED BY <3>3, <3>4, <4>1 DEF IInv, VersionsInv
        <3>6. ~(S < S)
            <4> HIDE DEF S
            <4> QED BY <1>1
        <3>7. HasNewPages(b) /\ (S \in NewAPPages(b) \/ S \in InsertedPIPPages(b))
            BY <3>5, <3>6, NewPagesAre
        <3>8. b = a
            BY <2>3, <3>7 DEF IInv, RollbackInv
        <3>9. S \in A \/ S \in I
            BY <3>7, <3>8 DEF A, I
        <3>10. S \in I => f = S
            BY <1>4, <3>9
        <3>11. S \in T /\ \A y \in T : S <= y
            BY <1>1, <1>2, <1>4, <3>9, <3>10
        <3> HIDE DEF T
        <3>12. Min(T) = S
            BY <2>1, <3>11, MinIs
        <3> QED BY <2>3, <3>12 DEF T, NumPagesAfter
    <2> QED BY <2>2, <2>3
<1>6. ~ReadsRemovedPIP(a)
    <2> SUFFICES ASSUME NEW k \in NewAPs(a), PIPPage(a, k \div PageIdxsPerPIP) >= N
                 PROVE  FALSE
        BY DEF ReadsRemovedPIP
    <2> DEFINE j == k \div PageIdxsPerPIP
    <2>1. k \in APsOf(a) /\ j + 1 \in 1..NumPIPs(a) /\ k \in Nat
        BY NewPagesAre, LayoutIs
    <2>2. j \in Nat
        BY <2>1, Constants, Division
    <2> HIDE DEF j
    <2>3. PIPs(a)[j + 1] = PIPPage(a, (j + 1) - 1) /\ PIPs(a)[j + 1] \in OwnPages /\ (j + 1) - 1 = j
        BY <2>1, <2>2, LayoutIs
    <2>4. PIPPage(a, j) \in OwnPages
        BY <2>3
    <2>5. PIPPage(a, j) < N /\ PIPPage(a, j) \in Nat /\ PIPPage(a, j) >= N
        BY <1>1, <2>4 DEF j
    <2> QED BY <1>1, <2>5
<1> QED BY <1>4, <1>5, <1>6 DEF I, A, f

\* A rollback keeps what is in memory and forgets what was added.
LEMMA RollbackEffect ==
    ASSUME IInv, NEW a \in Arrays, RollbackInMemoryIfNecessary(a)
    PROVE  /\ Settles(a) /\ arrayPhase = "rollingBack"
           /\ \A b \in Arrays : SameReaderObject(b)
           /\ numFilePages' = NumPagesAfter(a)
<1>1. /\ arrayPhase = "rollingBack" /\ a \in todo /\ UNCHANGED filePages
    BY DEF RollbackInMemoryIfNecessary, IsNext
<1>2. /\ arrays = [b \in Arrays |-> arrays[b]] /\ IsObject(arrays[a])
      /\ walVersion = [p \in PageIdxs |-> walVersion[p]]
    BY DEF IInv, TypeInv, IsFile
<1>3. CASE ~arrays[a].hasUpdates
    <2>1. UNCHANGED <<arrays, walVersion, numFilePages>> /\ EndsReplay(a)
        BY <1>3 DEF RollbackInMemoryIfNecessary
    <2>2. \A p \in PageIdxs : Owns(a, p) => walVersion[p] = NoVersion
        BY <1>3, NotUpdated DEF HasVersion
    <2>3. arrays[a].updatedPIPs = {} /\ arrays[a].insertedPIPs = <<>>
        BY <1>3 DEF IInv, VersionsInv
    <2>4. Settles(a)
        BY <1>1, <1>2, <1>3, <2>1, <2>2, <2>3 DEF Settles
    <2>5. ~HasNewPages(a)
        <3>1. a \in PageIdxs /\ Owns(a, a)
            BY PageRanges DEF IInv, Owns
        <3>2. WriteHeader(a) = arrays[a].header
            BY <1>3, <3>1, NotUpdated DEF WriteHeader
        <3>3. NewAPs(a) = arrays[a].header.numAPs..(arrays[a].header.numAPs - 1)
            BY <3>2 DEF NewAPs
        <3>4. arrays[a].header.numAPs \in Nat
            BY PrefixIs
        <3> QED BY <3>3, <3>4 DEF HasNewPages
    <2> QED BY <1>1, <2>1, <2>4, <2>5 DEF SameReaderObject, NumPagesAfter
<1>4. CASE arrays[a].hasUpdates
    <2> DEFINE A == arrays[a]
               f == Min({numFilePages} \cup InsertedPIPPages(a))
               B == [header |-> A.header, pips |-> A.pips, updatedPIPs |-> {},
                     insertedPIPs |-> <<>>, inMemArrayPages |-> A.inMemArrayPages,
                     hasUpdates |-> FALSE]
    <2>1. /\ InsertedPIPPages(a) \cap {f} = InsertedPIPPages(a)
          /\ Min({f} \cup NewAPPages(a)) = NumPagesAfter(a)
          /\ ~ReadsRemovedPIP(a)
        BY <1>1, RollbackPages
    <2> HIDE DEF f
    <2>2. /\ EndsReplay(a)
          /\ arrays' = [arrays EXCEPT ![a].updatedPIPs = {}, ![a].insertedPIPs = <<>>,
                                      ![a].hasUpdates = FALSE]
          /\ walVersion' = Clear({a} \cup OldAPPages(a) \cup NewAPPages(a) \cup UpdatedPIPPages(a)
                                 \cup (InsertedPIPPages(a) \cap {f}), numFilePages)
          /\ numFilePages' = Min({f} \cup NewAPPages(a))
        BY <1>4, <2>1 DEF RollbackInMemoryIfNecessary, f
    <2>3. walVersion' = Clear(KnownPages(a), numFilePages) /\ numFilePages' = NumPagesAfter(a)
        BY <2>1, <2>2 DEF KnownPages
    <2>4. /\ arrays' = [b \in Arrays |-> arrays'[b]]
          /\ \A b \in Arrays \ {a} : arrays'[b] = arrays[b]
          /\ arrays'[a] = [[[A EXCEPT !.updatedPIPs = {}] EXCEPT !.insertedPIPs = <<>>]
                           EXCEPT !.hasUpdates = FALSE]
        <3> DEFINE f1 == [arrays EXCEPT ![a].updatedPIPs = {}]
                   f2 == [f1 EXCEPT ![a].insertedPIPs = <<>>]
                   f3 == [f2 EXCEPT ![a].hasUpdates = FALSE]
        <3>1. arrays' = f3
            BY <2>2, Zenon
        <3>2. /\ f1 = [b \in Arrays |-> f1[b]] /\ \A b \in Arrays \ {a} : f1[b] = arrays[b]
              /\ f1[a] = [A EXCEPT !.updatedPIPs = {}]
            BY <1>2
        <3> HIDE DEF f1
        <3>3. /\ f2 = [b \in Arrays |-> f2[b]] /\ \A b \in Arrays \ {a} : f2[b] = f1[b]
              /\ f2[a] = [f1[a] EXCEPT !.insertedPIPs = <<>>]
            BY <3>2
        <3> HIDE DEF f2
        <3>4. /\ f3 = [b \in Arrays |-> f3[b]] /\ \A b \in Arrays \ {a} : f3[b] = f2[b]
              /\ f3[a] = [f2[a] EXCEPT !.hasUpdates = FALSE]
            BY <3>3
        <3> HIDE DEF f3, A
        <3> QED BY <3>1, <3>2, <3>3, <3>4
    <2>5. A = [header |-> A.header, pips |-> A.pips, updatedPIPs |-> A.updatedPIPs,
               insertedPIPs |-> A.insertedPIPs, inMemArrayPages |-> A.inMemArrayPages,
               hasUpdates |-> A.hasUpdates]
        BY <1>2 DEF IsObject
    <2>6. arrays'[a] = B
        <3> HIDE DEF A
        <3> DEFINE g1 == [header |-> A.header, pips |-> A.pips, updatedPIPs |-> {},
                          insertedPIPs |-> A.insertedPIPs, inMemArrayPages |-> A.inMemArrayPages,
                          hasUpdates |-> A.hasUpdates]
                   g2 == [header |-> A.header, pips |-> A.pips, updatedPIPs |-> {},
                          insertedPIPs |-> <<>>, inMemArrayPages |-> A.inMemArrayPages,
                          hasUpdates |-> A.hasUpdates]
        <3>1. [A EXCEPT !.updatedPIPs = {}] = g1
            BY <2>5
        <3>2. [g1 EXCEPT !.insertedPIPs = <<>>] = g2
            OBVIOUS
        <3>3. PICK g : g = g2
            OBVIOUS
        <3>4. g = [header |-> A.header, pips |-> A.pips, updatedPIPs |-> {},
                   insertedPIPs |-> <<>>, inMemArrayPages |-> A.inMemArrayPages,
                   hasUpdates |-> A.hasUpdates]
            BY <3>3
        <3> HIDE DEF g2
        <3>5. [g EXCEPT !.hasUpdates = FALSE] = B
            <4>1. PICK h, p, u, i, m, w, v :
                      /\ h = A.header /\ p = A.pips /\ u = {} /\ i = <<>>
                      /\ m = A.inMemArrayPages /\ w = A.hasUpdates /\ v = FALSE
                OBVIOUS
            <4>2. g = [header |-> h, pips |-> p, updatedPIPs |-> u, insertedPIPs |-> i,
                       inMemArrayPages |-> m, hasUpdates |-> w]
                BY <3>4, <4>1, Zenon
            <4>3. [g EXCEPT !.hasUpdates = v] =
                      [header |-> h, pips |-> p, updatedPIPs |-> u, insertedPIPs |-> i,
                       inMemArrayPages |-> m, hasUpdates |-> v]
                BY <4>2
            <4> QED BY <4>1, <4>3, Zenon
        <3> HIDE DEF g1, B
        <3> QED BY <2>4, <3>1, <3>2, <3>3, <3>5
    <2>7. /\ B.header = A.header /\ B.pips = A.pips /\ B.updatedPIPs = {} /\ B.insertedPIPs = <<>>
          /\ B.inMemArrayPages = A.inMemArrayPages /\ B.hasUpdates = FALSE
          /\ B = [header |-> B.header, pips |-> B.pips, updatedPIPs |-> B.updatedPIPs,
                  insertedPIPs |-> B.insertedPIPs, inMemArrayPages |-> B.inMemArrayPages,
                  hasUpdates |-> B.hasUpdates]
        OBVIOUS
    <2> HIDE DEF B
    <2>8. IsObject(B)
        <3>1. <<>> \in Seq(PageIdxs)
            OBVIOUS
        <3>2. B.insertedPIPs \in Seq(PageIdxs) /\ B.updatedPIPs \subseteq 0..(Len(B.pips) - 1)
            BY <2>7, <3>1
        <3>3. B.hasUpdates \in BOOLEAN
            BY <2>7, Zenon
        <3>4. /\ Len(B.pips) \in Nat
              /\ B.pips = [j \in 1..Len(B.pips) |->
                              [page |-> B.pips[j].page, contents |-> B.pips[j].contents]]
              /\ B.inMemArrayPages = [k \in 1..B.header.numAPs |-> B.inMemArrayPages[k]]
            BY <1>2, <2>7 DEF IsObject
        <3> QED BY <2>7, <3>2, <3>3, <3>4 DEF IsObject
    <2>9. /\ walVersion' = [p \in PageIdxs |-> walVersion'[p]]
          /\ \A p \in PageIdxs : IF Owns(a, p) THEN walVersion'[p] = NoVersion
                                               ELSE walVersion'[p] = walVersion[p]
        BY <2>3, ClearIs
    <2>10. Settles(a)
        BY <1>1, <2>2, <2>4, <2>6, <2>7, <2>8, <2>9 DEF Settles
    <2>11. \A b \in Arrays : SameReaderObject(b)
        BY <2>4, <2>6, <2>7 DEF SameReaderObject
    <2> QED BY <1>1, <2>3, <2>10, <2>11
<1> QED BY <1>3, <1>4

\* What the array keeps is what readers see.
LEMMA RollbackLayout ==
    ASSUME IInv, NEW a \in Arrays, RollbackInMemoryIfNecessary(a)
    PROVE  /\ NumPIPs(a)' = Len(arrays[a].pips)
           /\ \A j \in 1..NumPIPs(a)' : j \in 1..NumPIPs(a) /\ PIPs(a)'[j] = PIPs(a)[j]
           /\ PIPs(a)' = OldPIPs(a)
           /\ Content'[a] = filePages[a] /\ filePages[a] = arrays[a].header
           /\ APsOf(a)' = 0..(arrays[a].header.numAPs - 1)
           /\ \A k \in APsOf(a)' : k \in APsOf(a) /\ AP(a, k)' = AP(a, k)
           /\ IsArrayIn(Content, a, PIPs(a))'
<1> DEFINE n == Len(arrays[a].pips)
<1>1. /\ Settles(a) /\ arrayPhase = "rollingBack" /\ SameReaderObject(a)
    BY RollbackEffect
<1>2. /\ \A p \in PageIdxs : Content'[p] = IF Owns(a, p) THEN filePages[p] ELSE Content[p]
      /\ NumPIPs(a)' = n /\ NumPIPs(a)' \in Nat /\ Len(PIPs(a)') = NumPIPs(a)'
      /\ \A j \in 1..NumPIPs(a)' : PIPs(a)'[j] = arrays'[a].pips[j].page
    BY <1>1, SettlesIs DEF SameReaderObject
<1>3. \A j \in 1..n : /\ j \in 1..NumPIPs(a) /\ PIPs(a)'[j] = PIPs(a)[j]
                      /\ OldPIPs(a)[j] = PIPs(a)[j]
    BY <1>1, <1>2, PrefixIs DEF SameReaderObject
<1>4. PIPs(a)' = OldPIPs(a) /\ Len(OldPIPs(a)) = n
    <2>1. PIPs(a)' = [j \in 1..NumPIPs(a)' |-> PIPs(a)'[j]]
        BY DEF PIPs
    <2>2. OldPIPs(a) = [j \in 1..n |-> OldPIPs(a)[j]]
        BY DEF OldPIPs
    <2>3. PIPs(a)' = OldPIPs(a)
        BY <1>2, <1>3, <2>1, <2>2
    <2> QED BY <1>2, <2>3
<1>5. \A j \in 1..n : OldPIPs(a)[j] \in PageIdxs /\ Content'[OldPIPs(a)[j]] = filePages[OldPIPs(a)[j]]
    <2>1. \A j \in 1..NumPIPs(a) : PIPs(a)[j] \in PageIdxs /\ Owns(a, PIPs(a)[j])
        BY LayoutIs, PageRanges DEF IInv, Owns
    <2> QED BY <1>2, <1>3, <2>1
<1>6. Content'[a] = filePages[a] /\ filePages[a] = arrays[a].header
    <2>1. a \in PageIdxs /\ Owns(a, a)
        BY PageRanges DEF IInv, Owns
    <2> QED BY <1>1, <1>2, <2>1, OldAPs
<1>7. APsOf(a)' = 0..(arrays[a].header.numAPs - 1)
    BY <1>6 DEF APsOf, APIdxs
<1>8. ASSUME NEW k \in APsOf(a)' PROVE k \in APsOf(a) /\ AP(a, k)' = AP(a, k)
    <2>1. k \in APsOf(a) /\ k \in Nat /\ k \div PageIdxsPerPIP + 1 \in 1..n
          /\ APIn(filePages, OldPIPs(a), k) = AP(a, k)
        BY <1>1, <1>7, PrefixIs, OldAPs
    <2>2. 1 + k \div PageIdxsPerPIP = k \div PageIdxsPerPIP + 1
        BY <2>1, Constants, Division
    <2>3. AP(a, k)' = Content'[OldPIPs(a)[1 + k \div PageIdxsPerPIP]].cells[k % PageIdxsPerPIP]
        BY <1>4 DEF AP, APIn
    <2>4. Content'[OldPIPs(a)[1 + k \div PageIdxsPerPIP]]
            = filePages[OldPIPs(a)[1 + k \div PageIdxsPerPIP]]
        BY <1>5, <2>1, <2>2
    <2> QED BY <2>1, <2>3, <2>4 DEF APIn
<1>9. IsArrayIn(Content, a, PIPs(a))'
    <2> DEFINE g == Content'
    <2>1. IsArrayIn(filePages, a, OldPIPs(a))
        BY <1>1 DEF IInv, OldPagesInv
    <2>2. g[a] = filePages[a] /\ \A j \in 1..Len(OldPIPs(a)) : g[OldPIPs(a)[j]] = filePages[OldPIPs(a)[j]]
        BY <1>4, <1>5, <1>6
    <2> HIDE DEF g
    <2>3. IsArrayIn(g, a, OldPIPs(a))
        BY <2>1, <2>2 DEF IsArrayIn
    <2> QED BY <1>4, <2>3 DEF IsArrayIn, NumAPsFor, NumPIPsFor, g
<1> QED BY <1>2, <1>3, <1>4, <1>6, <1>7, <1>8, <1>9

\* The rollback of an array keeps the invariant, and changes nothing for readers.
LEMMA RollbackStep ==
    ASSUME IInv, NEW a \in Arrays, RollbackInMemoryIfNecessary(a)
    PROVE  /\ IInv'
           /\ \A b \in Arrays : ReadArray(b)' = ReadArray(b)
<1> DEFINE N == numFilePages
           M == numFilePages'
           S == NumPagesOf(filePages)
<1>1. /\ Settles(a) /\ arrayPhase = "rollingBack"
      /\ \A b \in Arrays : SameReaderObject(b)
      /\ M = NumPagesAfter(a)
      /\ filePages' = filePages
    BY RollbackEffect DEF Settles
<1>2. /\ \A p \in PageIdxs : HasVersion(p)' <=> HasVersion(p) /\ ~Owns(a, p)
      /\ \A b \in Arrays \ {a} : /\ SameObject(b) /\ SameLayout(b) /\ SameAPs(b)
                                 /\ WriteHeader(b)' = WriteHeader(b)
                                 /\ \A p : Owns(b, p)' <=> Owns(b, p)
      /\ arrayPhase' \in {arrayPhase, "idle"}
      /\ M \in NumArrays..MaxPages => TypeInv'
      /\ ~HasVersion(a)' /\ WriteHeader(a)' = arrays'[a].header
    BY <1>1, SettlesIs
<1>3. /\ NumPIPs(a)' = Len(arrays[a].pips)
      /\ \A j \in 1..NumPIPs(a)' : j \in 1..NumPIPs(a) /\ PIPs(a)'[j] = PIPs(a)[j]
      /\ Content'[a] = filePages[a] /\ filePages[a] = arrays[a].header
      /\ APsOf(a)' = 0..(arrays[a].header.numAPs - 1)
      /\ \A k \in APsOf(a)' : k \in APsOf(a) /\ AP(a, k)' = AP(a, k)
      /\ IsArrayIn(Content, a, PIPs(a))'
    BY RollbackLayout
<1>4. /\ \A b \in Arrays : \A j \in 1..NumPIPs(b)' : j \in 1..NumPIPs(b) /\ PIPs(b)'[j] = PIPs(b)[j]
      /\ \A b \in Arrays : \A k \in APsOf(b)' : k \in APsOf(b) /\ AP(b, k)' = AP(b, k)
      /\ \A b \in Arrays : IsArrayIn(Content, b, PIPs(b))'
    <2>1. ASSUME NEW b \in Arrays, b # a
          PROVE  /\ \A j \in 1..NumPIPs(b)' : j \in 1..NumPIPs(b) /\ PIPs(b)'[j] = PIPs(b)[j]
                 /\ \A k \in APsOf(b)' : k \in APsOf(b) /\ AP(b, k)' = AP(b, k)
                 /\ IsArrayIn(Content, b, PIPs(b))'
        BY <1>2, <2>1, SameLayoutIs DEF SameLayout, SamePIPs, SameAPs
    <2> QED BY <1>3, <2>1
<1>5. /\ N \in Nat /\ S \in Nat /\ S <= N /\ NumArrays \in Nat /\ NumArrays <= S /\ N <= MaxPages
      /\ MaxPages \in Nat
    <2>1. N \in Nat /\ NumArrays \in Nat /\ S \in NumArrays..N /\ N <= MaxPages /\ MaxPages \in Nat
        BY Constants, PageRanges DEF IInv, SizesInv, TypeInv
    <2> HIDE DEF N, S
    <2> QED BY <2>1
<1>6. /\ M = IF HasNewPages(a) THEN S ELSE N
      /\ M \in Nat /\ S <= M /\ M <= N /\ M \in NumArrays..MaxPages
    <2>1. M = IF HasNewPages(a) THEN S ELSE N
        BY <1>1 DEF NumPagesAfter
    <2> HIDE DEF M, N, S
    <2> QED BY <1>5, <2>1
<1>7. TypeInv'
    BY <1>2, <1>6
<1>8. \A b \in Arrays \ {a} : \A p \in PageIdxs : Owns(b, p) => p < M
    <2> SUFFICES ASSUME NEW b \in Arrays \ {a}, NEW p \in PageIdxs, Owns(b, p) PROVE p < M
        OBVIOUS
    <2>1. p < N
        BY LayoutIs, PageRanges DEF IInv, Owns
    <2>2. HasNewPages(a) => ~HasNewPages(b)
        BY <1>1 DEF IInv, RollbackInv
    <2>3. HasNewPages(a) => p < S
        BY <1>1, <2>2, NewPagesAre
    <2> QED BY <1>6, <2>1, <2>3
<1>9. \A p \in PageIdxs : Owns(a, p) /\ ~HasNewPages(a) => p < S
    BY <1>1, NewPagesAre
<1>10. ASSUME NEW b \in Arrays
       PROVE  /\ \A j \in 1..NumPIPs(b)' : PIPs(b)[j] \in NumArrays..(M - 1)
              /\ \A k \in APsOf(b)' : AP(b, k) \in NumArrays..(M - 1)
    <2>1. \A p : p \in OwnPages => p \in Nat /\ NumArrays <= p
        BY <1>5 DEF OwnPages
    <2>2. \A p : p \in OwnPages /\ p < M => p \in NumArrays..(M - 1)
        <3> HIDE DEF M
        <3> QED BY <1>5, <1>6, <2>1
    <2>3. OwnPages \subseteq PageIdxs
        BY PageRanges DEF IInv
    <2>4. ASSUME NEW j \in 1..NumPIPs(b)' PROVE PIPs(b)[j] < M
        <3>1. j \in 1..NumPIPs(b) /\ PIPs(b)[j] \in OwnPages
            BY <1>4, LayoutIs
        <3>2. CASE b # a
            BY <1>8, <2>3, <3>1, <3>2 DEF Owns
        <3>3. CASE b = a
            <4>1. j <= Len(arrays[a].pips)
                <5>1. j \in 1..Len(arrays[a].pips) /\ Len(arrays[a].pips) \in Nat
                    BY <1>3, <3>3, LayoutIs
                <5> QED BY <5>1
            <4>2. PIPs(a)[j] < S
                BY <1>1, <3>1, <3>3, <4>1 DEF IInv, OldPagesInv
            <4>3. PIPs(a)[j] \in Nat
                BY <2>1, <3>1, <3>3
            <4> HIDE DEF M, S
            <4> QED BY <1>5, <1>6, <3>3, <4>2, <4>3
        <3> QED BY <3>2, <3>3
    <2>5. ASSUME NEW k \in APsOf(b)' PROVE AP(b, k) < M
        <3>1. k \in APsOf(b) /\ AP(b, k) \in OwnPages
            BY <1>4, LayoutIs
        <3>2. CASE b # a
            BY <1>8, <2>3, <3>1, <3>2 DEF Owns
        <3>3. CASE b = a
            <4>1. k < arrays[a].header.numAPs
                <5>1. k \in 0..(arrays[a].header.numAPs - 1) /\ arrays[a].header.numAPs \in Nat
                    BY <1>3, <3>3, PrefixIs
                <5> QED BY <5>1
            <4>2. AP(a, k) < S
                BY <1>1, <3>1, <3>3, <4>1 DEF IInv, OldPagesInv
            <4>3. AP(a, k) \in Nat
                BY <2>1, <3>1, <3>3
            <4> HIDE DEF M, S
            <4> QED BY <1>5, <1>6, <3>3, <4>2, <4>3
        <3> QED BY <3>2, <3>3
    <2> QED BY <1>4, <2>2, <2>4, <2>5, LayoutIs
<1>11. LayoutInv'
    <2>1. OwnPages' = NumArrays..(M - 1)
        BY DEF OwnPages
    <2>2. ASSUME NEW b \in Arrays
          PROVE  /\ \A j \in 1..NumPIPs(b)' : PIPs(b)'[j] \in OwnPages'
                 /\ \A k \in APsOf(b)' : AP(b, k)' \in OwnPages'
        BY <1>4, <1>10, <2>1
    <2> QED BY <1>4, <2>2 DEF LayoutInv
<1>12. SeparateInv'
    <2>1. ASSUME NEW b \in Arrays, NEW c \in Arrays, NEW i \in 1..NumPIPs(b)', NEW j \in 1..NumPIPs(c)',
                 PIPs(b)'[i] = PIPs(c)'[j]
          PROVE  b = c /\ i = j
        <3>1. i \in 1..NumPIPs(b) /\ j \in 1..NumPIPs(c) /\ PIPs(b)[i] = PIPs(c)[j]
            BY <1>4, <2>1
        <3> QED BY <3>1 DEF IInv, SeparateInv
    <2>2. ASSUME NEW b \in Arrays, NEW c \in Arrays, NEW k \in APsOf(b)', NEW l \in APsOf(c)',
                 AP(b, k)' = AP(c, l)'
          PROVE  b = c /\ k = l
        <3>1. k \in APsOf(b) /\ l \in APsOf(c) /\ AP(b, k) = AP(c, l)
            BY <1>4, <2>2
        <3> QED BY <3>1 DEF IInv, SeparateInv
    <2>3. ASSUME NEW b \in Arrays, NEW c \in Arrays, NEW j \in 1..NumPIPs(b)', NEW l \in APsOf(c)'
          PROVE  PIPs(b)'[j] # AP(c, l)'
        <3>1. j \in 1..NumPIPs(b) /\ l \in APsOf(c) /\ PIPs(b)'[j] = PIPs(b)[j] /\ AP(c, l)' = AP(c, l)
            BY <1>4
        <3> QED BY <3>1 DEF IInv, SeparateInv
    <2> QED BY <2>1, <2>2, <2>3 DEF SeparateInv
<1>13. SizesInv'
    <2>1. NumPagesOf(filePages)' = S
        BY <1>1 DEF NumPagesOf
    <2>2. S \in NumArrays..M
        <3> HIDE DEF M, S
        <3> QED BY <1>5, <1>6
    <2>3. Updating \subseteq Arrays
        BY DEF IInv, TypeInv, Updating
    <2>4. ASSUME NEW p \in PageIdxs, HasVersion(p)' PROVE p < M
        <3>1. HasVersion(p) /\ ~Owns(a, p)
            BY <1>2, <2>4
        <3>2. PICK b \in Arrays : Owns(b, p)
            BY <2>3, <3>1 DEF IInv, VersionsInv
        <3> QED BY <1>8, <3>1, <3>2
    <2>5. ASSUME NEW p \in PageIdxs, p \in S..(M - 1) PROVE HasVersion(p)'
        <3>1. p \in Nat
            BY PageRanges DEF IInv
        <3>2. ~HasNewPages(a) /\ p \in S..(N - 1) /\ ~(p < S)
            <4> HIDE DEF M, N, S
            <4> QED BY <1>5, <1>6, <2>5, <3>1
        <3>3. HasVersion(p)
            BY <3>2 DEF IInv, SizesInv
        <3>4. ~Owns(a, p)
            BY <1>9, <3>2
        <3> QED BY <1>2, <3>3, <3>4
    <2>6. \A p \in PageIdxs : filePages'[p] # NoVersion <=> p < S
        BY <1>1 DEF IInv, SizesInv
    <2> QED BY <2>1, <2>2, <2>4, <2>5, <2>6 DEF SizesInv
<1>14. /\ MemoryInv' /\ PrefixInv'
       /\ \A b \in Arrays : IsArrayIn(filePages, b, OldPIPs(b))' /\ ReadArray(b)' = ReadArray(b)
    <2>1. ASSUME NEW b \in Arrays
          PROVE  /\ SameReader(b) /\ Content'[b].numElements \in Nat
                 /\ arrays[b].header.numElements <= Content'[b].numElements
        <3>1. CASE b = a
            <4>1. \A k \in 0..(arrays[a].header.numAPs - 1) : AP(a, k)' = AP(a, k)
                BY <1>3
            <4>2. Content'[a].numElements = arrays[a].header.numElements
                  /\ arrays[a].header.numElements \in Nat
                BY <1>3, PrefixIs
            <4> QED BY <1>1, <3>1, <4>1, <4>2 DEF SameReader
        <3>2. CASE b # a
            <4>1. \A k \in 0..(arrays[b].header.numAPs - 1) : AP(b, k)' = AP(b, k)
                BY <1>2, <3>2, PrefixIs DEF SameAPs
            <4>2. Content'[b] = Content[b] /\ SameReaderObject(b)
                BY <1>1, <1>2, <3>2 DEF SameLayout
            <4> QED BY <4>1, <4>2, PrefixIs, LayoutIs DEF SameReader
        <3> QED BY <3>1, <3>2
    <2>2. arrayPhase # "checkpointing" /\ arrayPhase' # "checkpointing"
        BY <1>1, <1>2
    <2> QED BY <1>1, <2>1, <2>2, SameReaders
<1>15. OldPagesInv'
    <2>1. NumPagesOf(filePages)' = S
        BY <1>1 DEF NumPagesOf
    <2>2. ASSUME NEW b \in Arrays
          PROVE  /\ \A j \in 1..NumPIPs(b)' : PIPs(b)'[j] < S <=> j <= Len(arrays'[b].pips)
                 /\ \A k \in APsOf(b)' : AP(b, k)' < S <=> k < arrays'[b].header.numAPs
        <3>1. arrays'[b].pips = arrays[b].pips /\ arrays'[b].header = arrays[b].header
            BY <1>1 DEF SameReaderObject
        <3>2. ASSUME NEW j \in 1..NumPIPs(b)' PROVE PIPs(b)'[j] < S <=> j <= Len(arrays'[b].pips)
            <4>1. j \in 1..NumPIPs(b) /\ PIPs(b)'[j] = PIPs(b)[j]
                BY <1>4
            <4> QED BY <1>1, <3>1, <4>1 DEF IInv, OldPagesInv
        <3>3. ASSUME NEW k \in APsOf(b)' PROVE AP(b, k)' < S <=> k < arrays'[b].header.numAPs
            <4>1. k \in APsOf(b) /\ AP(b, k)' = AP(b, k)
                BY <1>4
            <4> QED BY <1>1, <3>1, <4>1 DEF IInv, OldPagesInv
        <3> QED BY <3>2, <3>3
    <2> QED BY <1>14, <2>1, <2>2 DEF OldPagesInv
<1>16. VersionsInv'
    <2>1. ASSUME NEW j \in 1..NumPIPs(a)' PROVE Owns(a, PIPs(a)'[j]) /\ PIPs(a)'[j] \in PageIdxs
        <3>1. PICK p : p = PIPs(a)[j]
            OBVIOUS
        <3>2. j \in 1..NumPIPs(a) /\ PIPs(a)'[j] = p
            BY <1>3, <3>1
        <3>3. Owns(a, p) /\ p \in PageIdxs
            BY <3>1, <3>2, LayoutIs, PageRanges DEF IInv, Owns
        <3> QED BY <3>2, <3>3
    <2>2. arrays'[a].header.numAPs \in Nat
        BY <1>1, PrefixIs DEF SameReaderObject
    <2> QED BY <1>1, <2>1, <2>2, SettledVersions
<1>17. RollbackInv'
    <2>1. ASSUME NEW b \in Arrays, HasNewPages(b)' PROVE b # a /\ HasNewPages(b)
        <3>1. ~HasNewPages(a)'
            <4>1. NewAPs(a)' = arrays'[a].header.numAPs..(arrays'[a].header.numAPs - 1)
                BY <1>2 DEF NewAPs
            <4>2. arrays'[a].header.numAPs \in Nat
                BY <1>1, PrefixIs DEF SameReaderObject
            <4>3. NewAPs(a)' = {}
                BY <4>1, <4>2
            <4> QED BY <4>3 DEF HasNewPages
        <3>2. b # a
            BY <2>1, <3>1
        <3>3. NewAPs(b)' = NewAPs(b)
            BY <1>2, <3>2 DEF NewAPs, SameObject
        <3> QED BY <2>1, <3>2, <3>3 DEF HasNewPages
    <2>2. ASSUME NEW b \in Arrays PROVE Len(arrays'[b].insertedPIPs) <= 1
        <3>1. CASE b = a
            <4>1. Len(<<>>) <= 1
                OBVIOUS
            <4> QED BY <1>1, <3>1, <4>1 DEF Settles
        <3>2. CASE b # a
            BY <1>1, <3>2 DEF Settles, IInv, RollbackInv
        <3> QED BY <3>1, <3>2
    <2> QED BY <1>1, <2>1, <2>2 DEF IInv, RollbackInv
<1>18. CheckpointInv'
    BY <1>1, <1>2 DEF CheckpointInv
<1> QED BY <1>7, <1>11, <1>12, <1>13, <1>14, <1>15, <1>16, <1>17, <1>18 DEF IInv

-----------------------------------------------------------------------------
(* Loading an array from a file.                                            *)

\* The chain of PIPs, as a recursive function, exists.
IsChain(file, a, f, m) ==
    f = [n \in 1..m |-> IF n = 1 THEN file[a].next ELSE file[f[n - 1]].next]

\* There is such a sequence, for every length.
LEMMA ChainExists ==
    ASSUME NEW file, NEW a, NEW m \in Nat
    PROVE  \E f : IsChain(file, a, f, m)
<1> DEFINE G == {n \in Nat : \E f : IsChain(file, a, f, n)}
<1>1. 0 \in G
    <2> DEFINE f == [n \in 1..0 |-> 0]
    <2>1. \A g : f = [n \in 1..0 |-> IF n = 1 THEN file[a].next ELSE file[g[n - 1]].next]
        OBVIOUS
    <2>2. IsChain(file, a, f, 0)
        BY <2>1 DEF IsChain
    <2> QED BY <2>2
<1>2. ASSUME NEW n \in Nat, n \in G PROVE n + 1 \in G
    <2>1. PICK f : IsChain(file, a, f, n)
        BY <1>2
    <2> DEFINE V(g, i) == IF i = 1 THEN file[a].next ELSE file[g[i - 1]].next
               g == [i \in 1..(n + 1) |-> V(f, i)]
    <2>2. f = [i \in 1..n |-> V(f, i)]
        BY <2>1 DEF IsChain
    <2>3. ASSUME NEW i \in 1..(n + 1) PROVE V(f, i) = V(g, i)
        <3>1. i # 1 => i - 1 \in 1..n /\ i - 1 \in 1..(n + 1)
            OBVIOUS
        <3> HIDE DEF V
        <3>2. i # 1 => f[i - 1] = V(f, i - 1) /\ g[i - 1] = V(f, i - 1)
            BY <2>2, <3>1
        <3> QED BY <3>2 DEF V
    <2> HIDE DEF V
    <2>4. g = [i \in 1..(n + 1) |-> V(g, i)]
        BY <2>3
    <2> HIDE DEF g
    <2>5. IsChain(file, a, g, n + 1)
        BY <2>4 DEF IsChain, V
    <2> QED BY <2>5
<1> HIDE DEF G
<1>3. Nat \subseteq G
    BY <1>1, <1>2, NatSetInduction
<1> QED BY <1>3 DEF G

\* So the recursive function that follows the links is one.
LEMMA ChainIs ==
    ASSUME NEW file, NEW a
    PROVE  IsChain(file, a, PIPChain(file, a), MaxPages)
<1>1. PIPChain(file, a) = CHOOSE f : IsChain(file, a, f, MaxPages)
    BY DEF PIPChain, IsChain
<1>2. \E f : IsChain(file, a, f, MaxPages)
    BY ChainExists, Constants
<1> QED BY <1>1, <1>2

\* It leads from the header through the PIPs.
LEMMA PIPPagesOnDiskAre ==
    ASSUME NEW file, NEW a, NEW pips, Len(pips) \in Nat, Len(pips) < MaxPages,
           IsArrayIn(file, a, pips),
           \A j \in 1..Len(pips) : pips[j] # NullPage
    PROVE  PIPPagesOnDisk(file, a) = [j \in 1..Len(pips) |-> pips[j]]
<1> DEFINE m == Len(pips)
           chain == PIPChain(file, a)
<1>1. m \in Nat /\ MaxPages \in Nat /\ m < MaxPages
    BY Constants
<1>2. \A n \in 1..MaxPages : chain[n] = IF n = 1 THEN file[a].next ELSE file[chain[n - 1]].next
    <2>1. IsChain(file, a, chain, MaxPages)
        BY ChainIs
    <2> HIDE DEF chain
    <2> QED BY <2>1 DEF IsChain
<1>3. /\ file[a].next = IF m = 0 THEN NullPage ELSE pips[1]
      /\ \A j \in 1..m : file[pips[j]].next = IF j < m THEN pips[j + 1] ELSE NullPage
    BY DEF IsArrayIn
<1> HIDE DEF m, chain
<1> DEFINE P(j) == IF j < m THEN pips[j + 1] ELSE NullPage
           G == {n \in Nat : n <= m => chain[n + 1] = P(n)}
<1>4. 0 \in G
    <2>1. chain[1] = file[a].next
        BY <1>1, <1>2
    <2> QED BY <1>1, <1>3, <2>1
<1>5. ASSUME NEW n \in Nat, n \in G PROVE n + 1 \in G
    <2> SUFFICES ASSUME n + 1 <= m PROVE chain[(n + 1) + 1] = P(n + 1)
        BY <1>1
    <2>1. chain[n + 1] = pips[n + 1]
        BY <1>1, <1>5
    <2>2. chain[(n + 1) + 1] = file[chain[n + 1]].next
        <3>1. (n + 1) + 1 \in 1..MaxPages /\ (n + 1) + 1 # 1 /\ ((n + 1) + 1) - 1 = n + 1
            BY <1>1
        <3> QED BY <1>2, <3>1
    <2>3. file[pips[n + 1]].next = P(n + 1)
        BY <1>1, <1>3
    <2> QED BY <2>1, <2>2, <2>3
<1> HIDE DEF G
<1>6. Nat \subseteq G
    BY <1>4, <1>5, NatSetInduction
<1>7. chain[m + 1] = NullPage /\ \A j \in 1..m : chain[j] = pips[j]
    <2>1. chain[m + 1] = NullPage
        BY <1>1, <1>6 DEF G
    <2>2. ASSUME NEW j \in 1..m PROVE chain[j] = pips[j]
        <3>1. j - 1 \in Nat /\ j - 1 < m /\ (j - 1) + 1 = j
            BY <1>1
        <3> DEFINE i == j - 1
        <3> HIDE DEF i
        <3>2. i \in Nat /\ i < m /\ i + 1 = j
            BY <3>1 DEF i
        <3>3. chain[i + 1] = P(i)
            BY <1>1, <1>6, <3>2 DEF G
        <3> QED BY <3>2, <3>3
    <2> QED BY <2>1, <2>2
<1> DEFINE L(n) == chain[n + 1] = NullPage /\ \A i \in 1..n : chain[i] # NullPage
           length == CHOOSE n \in 0..(MaxPages - 1) : L(n)
<1>8. m \in 0..(MaxPages - 1) /\ L(m)
    BY <1>1, <1>7 DEF m
<1>9. ASSUME NEW n \in 0..(MaxPages - 1), L(n) PROVE n = m
    <2>1. ~(n < m)
        <3>1. n < m => n + 1 \in 1..m
            BY <1>1
        <3> QED BY <1>8, <1>9, <3>1
    <2>2. ~(m < n)
        <3>1. m < n => m + 1 \in 1..n
            BY <1>1
        <3> QED BY <1>8, <1>9, <3>1
    <2> QED BY <1>1, <2>1, <2>2
<1>10. length = m
    BY <1>8, <1>9
<1>11. PIPPagesOnDisk(file, a) = [i \in 1..length |-> chain[i]]
    BY DEF PIPPagesOnDisk, chain
<1> HIDE DEF length
<1>12. PIPPagesOnDisk(file, a) = [i \in 1..m |-> pips[i]]
    BY <1>7, <1>10, <1>11
<1> QED BY <1>12 DEF m

\* A file of n pages that holds the arrays, with these PIPs.
HoldsArray(file, n, a, pips) ==
    /\ Len(pips) \in Nat
    /\ pips = [j \in 1..Len(pips) |-> pips[j]]
    /\ IsArrayIn(file, a, pips)
    /\ \A j \in 1..Len(pips) : pips[j] \in NumArrays..(n - 1)
    /\ \A k \in APIdxs(file, a) : APIn(file, pips, k) \in NumArrays..(n - 1)
AreSeparate(file, pips) ==
    \A a, b \in Arrays :
        /\ \A i \in 1..Len(pips[a]), j \in 1..Len(pips[b]) : pips[a][i] = pips[b][j] => a = b /\ i = j
        /\ \A k \in APIdxs(file, a), l \in APIdxs(file, b) :
              APIn(file, pips[a], k) = APIn(file, pips[b], l) => a = b /\ k = l
        /\ \A j \in 1..Len(pips[a]), l \in APIdxs(file, b) : pips[a][j] # APIn(file, pips[b], l)
IsLayout(file, n, pips) ==
    /\ IsFile(file)
    /\ n \in NumArrays..MaxPages
    /\ \A p \in PageIdxs : file[p] # NoVersion <=> p < n
    /\ \A a \in Arrays : HoldsArray(file, n, a, pips[a])
    /\ AreSeparate(file, pips)

\* What the constructor of an array finds in such a file.
LEMMA LoadedIs ==
    ASSUME NEW file, NEW n, NEW pips, IsLayout(file, n, pips), NEW a \in Arrays
    PROVE  LoadedArray(file, a) =
               [header |-> file[a],
                pips |-> [j \in 1..Len(pips[a]) |->
                             [page |-> pips[a][j], contents |-> file[pips[a][j]]]],
                updatedPIPs |-> {},
                insertedPIPs |-> <<>>,
                inMemArrayPages |-> [k \in 1..file[a].numAPs |->
                                        file[APIn(file, pips[a], k - 1)].cells],
                hasUpdates |-> FALSE]
<1>1. PICK s : s = pips[a]
    OBVIOUS
<1>2. HoldsArray(file, n, a, s) /\ n \in NumArrays..MaxPages
    BY <1>1 DEF IsLayout
<1>3. \A i, j \in 1..Len(s) : s[i] = s[j] => i = j
    BY <1>1 DEF IsLayout, AreSeparate
<1>4. Len(s) \in Nat /\ s = [j \in 1..Len(s) |-> s[j]] /\ IsArrayIn(file, a, s)
    BY <1>2 DEF HoldsArray
<1>5. NumArrays \in Nat /\ NumArrays > 0 /\ MaxPages \in Nat /\ n \in Nat
    BY <1>2, Constants
<1>6. \A j \in 1..Len(s) : s[j] \in NumArrays..(n - 1)
    BY <1>2 DEF HoldsArray
<1>7. Len(s) < MaxPages
    <2> DEFINE m == Len(s)
               T == NumArrays..(n - 1)
    <2>1. m \in Nat
        BY <1>4
    <2>2. s \in [1..m -> T]
        BY <1>4, <1>6
    <2>3. s \in Injection(1..m, T)
        BY <1>3, <2>2 DEF Injection, IsInjective
    <2>4. /\ IsFiniteSet(T)
          /\ Cardinality(T) = IF NumArrays > n - 1 THEN 0 ELSE (n - 1) - NumArrays + 1
        BY <1>5, FS_Interval
    <2> HIDE DEF m, T
    <2>5. Cardinality(1..m) <= Cardinality(T)
        BY <2>3, <2>4, FS_Injection
    <2>6. Cardinality(1..m) = IF 1 > m THEN 0 ELSE m - 1 + 1
        BY <2>1, FS_Interval
    <2>7. m < MaxPages
        BY <1>2, <1>5, <2>1, <2>4, <2>5, <2>6
    <2> QED BY <2>7 DEF m
<1>8. \A j \in 1..Len(s) : s[j] # NullPage
    BY <1>5, <1>6 DEF NullPage
<1>9. PIPPagesOnDisk(file, a) = s
    BY <1>4, <1>7, <1>8, PIPPagesOnDiskAre
<1> QED
    BY <1>1, <1>9 DEF LoadedArray, APIn

\* A state in which nothing is under way and memory is as loaded from the file.
IsClean ==
    /\ arrayPhase = "idle"
    /\ \E n, pips : IsLayout(filePages, n, pips)
    /\ numFilePages = NumPagesOf(filePages)
    /\ walVersion = [p \in PageIdxs |-> NoVersion]
    /\ arrays = [a \in Arrays |-> LoadedArray(filePages, a)]
    /\ todo = {}

\* The array object after loading.
IsLoaded(a, s) ==
    /\ arrays[a].header = filePages[a]
    /\ Len(s) \in Nat /\ s = [j \in 1..Len(s) |-> s[j]]
    /\ Len(arrays[a].pips) = Len(s)
    /\ \A j \in 1..Len(s) : /\ arrays[a].pips[j].page = s[j]
                            /\ arrays[a].pips[j].contents = filePages[s[j]]
    /\ arrays[a].updatedPIPs = {} /\ arrays[a].insertedPIPs = <<>>
    /\ ~arrays[a].hasUpdates
    /\ arrays[a].inMemArrayPages =
          [k \in 1..filePages[a].numAPs |-> filePages[APIn(filePages, s, k - 1)].cells]
    /\ IsObject(arrays[a])
    /\ NumPIPs(a) = Len(s) /\ PIPs(a) = s /\ OldPIPs(a) = s

\* In a clean state the objects are the arrays of the file.
LEMMA CleanObjects ==
    ASSUME NEW n, NEW pips, IsLayout(filePages, n, pips), IsClean, NEW a \in Arrays
    PROVE  IsLoaded(a, pips[a])
<1>1. PICK s : s = pips[a]
    OBVIOUS
<1>2. PICK A : A = arrays[a]
    OBVIOUS
<1> DEFINE P == [j \in 1..Len(s) |-> [page |-> s[j], contents |-> filePages[s[j]]]]
           M == [k \in 1..filePages[a].numAPs |-> filePages[APIn(filePages, s, k - 1)].cells]
<1>3. A = [header |-> filePages[a], pips |-> P, updatedPIPs |-> {}, insertedPIPs |-> <<>>,
           inMemArrayPages |-> M, hasUpdates |-> FALSE]
    BY <1>1, <1>2, LoadedIs DEF IsClean
<1>4. Len(s) \in Nat /\ s = [j \in 1..Len(s) |-> s[j]]
    BY <1>1 DEF IsLayout, HoldsArray
<1>5. /\ Len(P) = Len(s)
      /\ P = [j \in 1..Len(P) |-> [page |-> P[j].page, contents |-> P[j].contents]]
      /\ \A j \in 1..Len(s) : P[j].page = s[j] /\ P[j].contents = filePages[s[j]]
    BY <1>4
<1>6. M = [k \in 1..filePages[a].numAPs |-> M[k]]
    OBVIOUS
<1> HIDE DEF P, M
<1>7. /\ A.header = filePages[a] /\ A.pips = P /\ A.updatedPIPs = {} /\ A.insertedPIPs = <<>>
      /\ A.inMemArrayPages = M
    BY <1>3
<1>8. ~A.hasUpdates /\ A.hasUpdates \in BOOLEAN
    BY <1>3, Zenon
<1>9. A = [header |-> A.header, pips |-> A.pips, updatedPIPs |-> A.updatedPIPs,
           insertedPIPs |-> A.insertedPIPs, inMemArrayPages |-> A.inMemArrayPages,
           hasUpdates |-> A.hasUpdates]
    BY <1>3, Zenon
<1>10. IsObject(A)
    <2>1. A.insertedPIPs \in Seq(PageIdxs)
        BY <1>7
    <2>2. A.updatedPIPs \subseteq 0..(Len(A.pips) - 1) /\ Len(A.pips) \in Nat
        BY <1>4, <1>5, <1>7
    <2>3. A.pips = [j \in 1..Len(A.pips) |-> [page |-> A.pips[j].page, contents |-> A.pips[j].contents]]
        BY <1>5, <1>7
    <2>4. A.inMemArrayPages = [k \in 1..A.header.numAPs |-> A.inMemArrayPages[k]]
        BY <1>6, <1>7
    <2> QED BY <1>8, <1>9, <2>1, <2>2, <2>3, <2>4, Zenon DEF IsObject
<1>11. NumPIPs(a) = Len(s)
    <2>1. NumPIPs(a) = Len(s) + Len(<<>>)
        BY <1>2, <1>5, <1>7 DEF NumPIPs
    <2> QED BY <1>4, <2>1
<1>12. PIPs(a) = s
    <2>1. PIPs(a) = [j \in 1..Len(s) |-> PIPPage(a, j - 1)]
        BY <1>11 DEF PIPs
    <2>2. ASSUME NEW j \in 1..Len(s) PROVE PIPPage(a, j - 1) = s[j]
        <3>1. j - 1 < Len(s) /\ (j - 1) + 1 = j
            BY <1>4
        <3>2. PIPPage(a, j - 1) = P[j].page
            BY <1>2, <1>5, <1>7, <3>1 DEF PIPPage
        <3> QED BY <1>5, <3>2
    <2>3. [j \in 1..Len(s) |-> PIPPage(a, j - 1)] = [j \in 1..Len(s) |-> s[j]]
        BY <2>2
    <2> QED BY <1>4, <2>1, <2>3
<1>13. OldPIPs(a) = s
    <2>1. OldPIPs(a) = [j \in 1..Len(s) |-> P[j].page]
        BY <1>2, <1>5, <1>7 DEF OldPIPs
    <2>2. [j \in 1..Len(s) |-> P[j].page] = [j \in 1..Len(s) |-> s[j]]
        BY <1>5
    <2> QED BY <1>4, <2>1, <2>2
<1>14. /\ Len(A.pips) = Len(s)
       /\ \A j \in 1..Len(s) : A.pips[j].page = s[j] /\ A.pips[j].contents = filePages[s[j]]
    BY <1>5, <1>7
<1> QED
    BY <1>1, <1>2, <1>4, <1>7, <1>8, <1>10, <1>11, <1>12, <1>13, <1>14, Zenon DEF M, IsLoaded

\* Such a state satisfies the invariant.
LEMMA CleanIsInv ==
    IsClean => IInv
<1> SUFFICES ASSUME IsClean PROVE IInv
    OBVIOUS
<1>1. PICK n, pips : IsLayout(filePages, n, pips)
    BY DEF IsClean
<1>2. /\ IsFile(filePages) /\ n \in NumArrays..MaxPages
      /\ \A p \in PageIdxs : filePages[p] # NoVersion <=> p < n
    BY <1>1 DEF IsLayout
<1>3. NumArrays \in Nat /\ NumArrays > 0 /\ MaxPages \in Nat /\ n \in Nat /\ n \in 0..MaxPages
    BY <1>2, Constants
<1>4. NumPagesOf(filePages) = n /\ numFilePages = n
    BY <1>2, <1>3, NumPagesIs DEF IsClean
<1>5. \A p \in PageIdxs : ~HasVersion(p) /\ walVersion[p] = NoVersion
    BY DEF IsClean, HasVersion
<1>6. IsFile(walVersion)
    BY <1>5 DEF IsFile, IsClean
<1>7. Content = filePages
    <2>1. Content = [p \in PageIdxs |-> filePages[p]]
        BY <1>5 DEF Content, ReplayPages
    <2> QED BY <1>2, <2>1 DEF IsFile
<1>8. TypeInv
    <2>1. \A a \in Arrays : IsObject(arrays[a])
        BY <1>1, CleanObjects DEF IsLoaded
    <2>2. arrays = [a \in Arrays |-> arrays[a]]
        BY DEF IsClean
    <2>3. arrayPhase = "idle" /\ todo = {}
        BY DEF IsClean
    <2> QED BY <1>2, <1>4, <1>6, <2>1, <2>2, <2>3 DEF TypeInv
<1>9. SizesInv
    <2>1. n \in NumArrays..n
        BY <1>2, <1>3
    <2>2. \A p \in PageIdxs : p \in Nat /\ p \notin n..(n - 1)
        BY <1>3 DEF PageIdxs
    <2> QED BY <1>2, <1>4, <1>5, <2>1, <2>2 DEF SizesInv
<1>10. \A a \in Arrays :
          /\ NumPIPs(a) = Len(pips[a]) /\ PIPs(a) = pips[a] /\ OldPIPs(a) = pips[a]
          /\ Len(arrays[a].pips) = Len(pips[a])
          /\ arrays[a].header = filePages[a]
    <2> TAKE a \in Arrays
    <2>1. PICK s : s = pips[a]
        OBVIOUS
    <2>2. IsLoaded(a, s)
        BY <1>1, <2>1, CleanObjects
    <2>3. /\ NumPIPs(a) = Len(s) /\ PIPs(a) = s /\ OldPIPs(a) = s
          /\ Len(arrays[a].pips) = Len(s)
          /\ arrays[a].header = filePages[a]
        BY <2>2 DEF IsLoaded
    <2> QED BY <2>1, <2>3
<1>11. \A a \in Arrays : /\ APsOf(a) = APIdxs(filePages, a)
                         /\ \A k : AP(a, k) = APIn(filePages, pips[a], k)
    BY <1>7, <1>10 DEF APsOf, AP
<1>12. OwnPages = NumArrays..(n - 1)
    BY <1>4 DEF OwnPages
<1>13. \A a \in Arrays : HoldsArray(filePages, n, a, pips[a])
    BY <1>1 DEF IsLayout
<1>14. LayoutInv
    <2> SUFFICES ASSUME NEW a \in Arrays
                 PROVE  /\ IsArrayIn(Content, a, PIPs(a))
                        /\ \A j \in 1..NumPIPs(a) : PIPs(a)[j] \in OwnPages
                        /\ \A k \in APsOf(a) : AP(a, k) \in OwnPages
        BY DEF LayoutInv
    <2>1. PICK s : s = pips[a]
        OBVIOUS
    <2>2. HoldsArray(filePages, n, a, s)
        BY <1>13, <2>1
    <2>3. /\ IsArrayIn(filePages, a, s)
          /\ \A j \in 1..Len(s) : s[j] \in NumArrays..(n - 1)
          /\ \A k \in APIdxs(filePages, a) : APIn(filePages, s, k) \in NumArrays..(n - 1)
        BY <2>2 DEF HoldsArray
    <2>4. /\ NumPIPs(a) = Len(s) /\ PIPs(a) = s /\ APsOf(a) = APIdxs(filePages, a)
          /\ \A k : AP(a, k) = APIn(filePages, s, k)
        BY <1>10, <1>11, <2>1
    <2> QED BY <1>7, <1>12, <2>3, <2>4
<1>15. SeparateInv
    BY <1>1, <1>10, <1>11 DEF SeparateInv, IsLayout, AreSeparate
<1>16. \A a \in Arrays : /\ arrays[a].header.numElements \in Nat
                         /\ arrays[a].header.numElements = Content[a].numElements
                         /\ arrays[a].header.numAPs = NumAPsFor(arrays[a].header.numElements)
                         /\ arrays[a].header.numAPs \in Nat
                         /\ Len(arrays[a].pips) = NumPIPsFor(arrays[a].header.numElements)
                         /\ Len(arrays[a].pips) = Ceil(arrays[a].header.numAPs, PageIdxsPerPIP)
                         /\ Len(arrays[a].pips) \in Nat
    <2> TAKE a \in Arrays
    <2>1. IsArrayIn(filePages, a, pips[a]) /\ Len(pips[a]) \in Nat
        BY <1>13 DEF HoldsArray
    <2>2. /\ filePages[a].numElements \in 0..MaxElements
          /\ filePages[a].numAPs = NumAPsFor(filePages[a].numElements)
          /\ Len(pips[a]) = NumPIPsFor(filePages[a].numElements)
        BY <2>1 DEF IsArrayIn
    <2>3. filePages[a].numElements \in Nat
        BY <2>2, Constants
    <2>4. /\ NumAPsFor(filePages[a].numElements) = Ceil(filePages[a].numElements, ElementsPerPage)
          /\ NumPIPsFor(filePages[a].numElements) = Ceil(filePages[a].numAPs, PageIdxsPerPIP)
        BY <2>2 DEF NumAPsFor, NumPIPsFor, Ceil
    <2>5. filePages[a].numAPs \in Nat
        BY <2>2, <2>3, <2>4, Constants, CeilIs
    <2> QED BY <1>7, <1>10, <2>1, <2>2, <2>3, <2>4, <2>5
<1>17. ASSUME NEW a \in Arrays, NEW k \in 0..(arrays[a].header.numAPs - 1)
       PROVE  /\ k \in Nat /\ k \in APsOf(a) /\ AP(a, k) \in PageIdxs
              /\ ReadAPPage(a, k) = AP(a, k)
              /\ arrays[a].inMemArrayPages[k + 1] = filePages[AP(a, k)].cells
    <2>1. PICK c, m, s : c = arrays[a].header.numAPs /\ m = Len(arrays[a].pips) /\ s = pips[a]
        OBVIOUS
    <2>2. c \in Nat /\ m \in Nat /\ m = Ceil(c, PageIdxsPerPIP) /\ m = Len(s)
        BY <1>10, <1>16, <2>1
    <2>3. k \in Nat /\ k < c /\ k + 1 \in 1..c /\ (k + 1) - 1 = k
        BY <2>1, <2>2
    <2>4. k \div PageIdxsPerPIP \in Nat /\ k \div PageIdxsPerPIP < m
        <3>1. PageIdxsPerPIP \in Nat /\ PageIdxsPerPIP > 0
            BY Constants
        <3>2. k \div PageIdxsPerPIP \in Nat /\ k \div PageIdxsPerPIP < Ceil(c, PageIdxsPerPIP)
            BY <2>2, <2>3, <3>1, CeilIndex
        <3> QED BY <2>2, <3>2
    <2> DEFINE j == 1 + k \div PageIdxsPerPIP
               r == k % PageIdxsPerPIP
    <2>5. j \in 1..m
        BY <2>2, <2>4
    <2>6. k \in APsOf(a) /\ AP(a, k) = APIn(filePages, s, k)
        BY <1>10, <1>11, <2>1 DEF APIdxs
    <2>7. AP(a, k) \in NumArrays..(n - 1)
        BY <1>12, <1>14, <2>6 DEF LayoutInv
    <2>8. IsLoaded(a, s)
        BY <1>1, <2>1, CleanObjects
    <2>9. ReadAPPage(a, k) = arrays[a].pips[j].contents.cells[r]
        BY DEF ReadAPPage
    <2> HIDE DEF j
    <2>10. arrays[a].pips[j].contents = filePages[s[j]]
        BY <2>2, <2>5, <2>8 DEF IsLoaded
    <2>11. APIn(filePages, s, k) = filePages[s[j]].cells[r]
        BY DEF APIn, j
    <2>12. arrays[a].inMemArrayPages = [i \in 1..c |-> filePages[APIn(filePages, s, i - 1)].cells]
        BY <1>10, <2>1, <2>8 DEF IsLoaded
    <2>13. arrays[a].inMemArrayPages[k + 1] = filePages[APIn(filePages, s, k)].cells
        BY <2>3, <2>12
    <2>14. AP(a, k) \in PageIdxs
        BY <1>2, <1>3, <2>7 DEF PageIdxs
    <2> QED BY <2>3, <2>6, <2>9, <2>10, <2>11, <2>13, <2>14
<1>18. PrefixInv
    <2> SUFFICES ASSUME NEW a \in Arrays
                 PROVE  /\ arrays[a].header.numElements \in 0..Content[a].numElements
                        /\ arrays[a].header.numAPs = NumAPsFor(arrays[a].header.numElements)
                        /\ Len(arrays[a].pips) = NumPIPsFor(arrays[a].header.numElements)
                        /\ \A k \in 0..(arrays[a].header.numAPs - 1) : ReadAPPage(a, k) = AP(a, k)
        BY DEF PrefixInv
    <2>1. arrays[a].header.numElements \in 0..Content[a].numElements
        BY <1>16
    <2> QED BY <1>16, <1>17, <2>1
<1>19. VersionsInv
    <2>1. ASSUME NEW a \in Arrays
          PROVE  /\ \A j \in 1..NumPIPs(a) : HasVersion(PIPs(a)[j]) <=> HasPIPUpdates(a, j - 1)
                 /\ \A k \in NewAPs(a) : HasVersion(AP(a, k))
                 /\ ~arrays[a].hasUpdates
                 /\ arrays[a].updatedPIPs = {} /\ arrays[a].insertedPIPs = <<>>
        <3>1. ~arrays[a].hasUpdates /\ arrays[a].updatedPIPs = {} /\ arrays[a].insertedPIPs = <<>>
            BY <1>1, CleanObjects DEF IsLoaded
        <3>2. NewAPs(a) = {}
            <4>1. a \in PageIdxs
                BY <1>8, PageRanges
            <4>2. WriteHeader(a) = arrays[a].header
                BY <1>5, <4>1 DEF WriteHeader
            <4>3. arrays[a].header.numAPs \in Nat
                BY <1>16
            <4>4. NewAPs(a) = arrays[a].header.numAPs..(arrays[a].header.numAPs - 1)
                BY <4>2 DEF NewAPs
            <4> QED BY <4>3, <4>4
        <3>3. ASSUME NEW j \in 1..NumPIPs(a) PROVE ~HasVersion(PIPs(a)[j]) /\ ~HasPIPUpdates(a, j - 1)
            <4>1. PIPs(a)[j] \in OwnPages
                BY <1>14 DEF LayoutInv
            <4>2. PIPs(a)[j] \in PageIdxs
                BY <1>8, <4>1, PageRanges
            <4>3. NumPIPs(a) = Len(arrays[a].pips) /\ Len(arrays[a].pips) \in Nat
                BY <1>10, <1>16
            <4>4. ~(j - 1 >= Len(arrays[a].pips))
                BY <4>3
            <4> QED BY <1>5, <3>1, <4>2, <4>4 DEF HasPIPUpdates
        <3> QED BY <3>1, <3>2, <3>3
    <2> QED BY <1>5, <2>1 DEF VersionsInv
<1>20. MemoryInv
    <2> SUFFICES ASSUME NEW a \in Arrays
                 PROVE  /\ arrays[a].header = filePages[a]
                        /\ \A j \in 1..Len(arrays[a].pips) :
                              arrays[a].pips[j].contents = filePages[OldPIPs(a)[j]]
                        /\ \A k \in 0..(arrays[a].header.numAPs - 1) :
                              arrays[a].inMemArrayPages[k + 1] = filePages[AP(a, k)].cells
        BY DEF MemoryInv
    <2>1. \A j \in 1..Len(pips[a]) : arrays[a].pips[j].contents = filePages[pips[a][j]]
        <3>1. PICK s : s = pips[a]
            OBVIOUS
        <3>2. IsLoaded(a, s)
            BY <1>1, <3>1, CleanObjects
        <3> QED BY <3>1, <3>2 DEF IsLoaded
    <2> QED BY <1>10, <1>17, <2>1
<1>21. OldPagesInv
    BY <1>8, <1>9, <1>14, <1>19, <1>20, IdleOldPages DEF IsClean
<1>22. CheckpointInv /\ RollbackInv
    BY DEF CheckpointInv, RollbackInv, IsClean
<1> QED BY <1>8, <1>9, <1>14, <1>15, <1>18, <1>19, <1>20, <1>21, <1>22 DEF IInv

\* In it readers and the write transaction see the arrays of the file.
SeesFile ==
    \A n, pips : IsLayout(filePages, n, pips) =>
        \A a \in Arrays : /\ ReadArray(a) = ElementsIn(filePages, a, pips[a])
                          /\ WriteArray(a) = ElementsIn(filePages, a, pips[a])

\* Readers and the write transaction see them.
LEMMA CleanReads ==
    IsClean => SeesFile
<1> SUFFICES ASSUME IsClean, NEW n, NEW pips, IsLayout(filePages, n, pips), NEW a \in Arrays
             PROVE  /\ ReadArray(a) = ElementsIn(filePages, a, pips[a])
                    /\ WriteArray(a) = ElementsIn(filePages, a, pips[a])
    BY DEF SeesFile
<1>1. IInv /\ arrayPhase = "idle"
    BY CleanIsInv DEF IsClean
<1>2. PICK s : s = pips[a]
    OBVIOUS
<1>3. IsLoaded(a, s)
    BY <1>2, CleanObjects
<1>4. PIPs(a) = s /\ OldPIPs(a) = s
    BY <1>3 DEF IsLoaded
<1>5. Content = filePages
    <2>1. \A p \in PageIdxs : ~HasVersion(p)
        BY DEF IsClean, HasVersion
    <2>2. Content = [p \in PageIdxs |-> filePages[p]]
        BY <2>1 DEF Content, ReplayPages
    <2> QED BY <1>1, <2>2 DEF IInv, TypeInv, IsFile
<1>6. ReadArray(a) = ElementsIn(filePages, a, OldPIPs(a))
    BY <1>1, ReadArrayIs
<1>7. WriteArray(a) = ElementsIn(Content, a, PIPs(a))
    BY <1>1, WriteArrayIs
<1> QED BY <1>2, <1>4, <1>5, <1>6, <1>7

\* The file holds the arrays of the last checkpoint, or of the one under way.
FilePIPs == [a \in Arrays |-> IF arrayPhase = "checkpointing" THEN PIPs(a) ELSE OldPIPs(a)]

\* In every state the file holds arrays on separate pages: a restart finds these.
LEMMA FileLayout ==
    ASSUME IInv
    PROVE  /\ IsLayout(filePages, NumPagesOf(filePages), FilePIPs)
           /\ arrayPhase = "checkpointing" => NumPagesOf(filePages) = numFilePages
<1> DEFINE N == numFilePages
           S == NumPagesOf(filePages)
<1>1. /\ N \in NumArrays..MaxPages /\ S \in NumArrays..N /\ IsFile(filePages)
      /\ \A p \in PageIdxs : filePages[p] # NoVersion <=> p < S
    BY DEF IInv, TypeInv, SizesInv
<1>2. NumArrays \in Nat /\ NumArrays > 0 /\ MaxPages \in Nat /\ N \in Nat /\ S \in Nat
    BY <1>1, Constants
<1>3. \A a \in Arrays : /\ Len(PIPs(a)) = NumPIPs(a) /\ NumPIPs(a) \in Nat
                        /\ PIPs(a) = [j \in 1..Len(PIPs(a)) |-> PIPs(a)[j]]
    <2> TAKE a \in Arrays
    <2>1. Len(PIPs(a)) = NumPIPs(a) /\ NumPIPs(a) \in Nat
        BY LayoutIs
    <2>2. PIPs(a) = [j \in 1..NumPIPs(a) |-> PIPs(a)[j]]
        BY DEF PIPs
    <2> QED BY <2>1, <2>2
<1> HIDE DEF N, S
<1>4. CASE arrayPhase = "checkpointing"
    <2>1. Content = filePages
        BY <1>4 DEF IInv, CheckpointInv
    <2>2. N = S
        <3> SUFFICES ASSUME S < N PROVE FALSE
            BY <1>1, <1>2
        <3>1. S \in PageIdxs
            BY <1>1, <1>2 DEF PageIdxs
        <3>2. IsPage(filePages[S])
            BY <2>1, <3>1, ContentIs DEF N
        <3>3. S < S
            BY <1>1, <3>1, <3>2, PagesExist
        <3> QED BY <1>2, <3>3
    <2>3. \A a \in Arrays : FilePIPs[a] = PIPs(a)
        BY <1>4 DEF FilePIPs
    <2>4. OwnPages = NumArrays..(S - 1)
        BY <2>2 DEF OwnPages, N
    <2>5. \A a \in Arrays : APsOf(a) = APIdxs(filePages, a) /\ \A k : AP(a, k) = APIn(filePages, PIPs(a), k)
        BY <2>1 DEF APsOf, AP
    <2>6. ASSUME NEW a \in Arrays PROVE HoldsArray(filePages, S, a, FilePIPs[a])
        <3>1. PICK s : s = PIPs(a)
            OBVIOUS
        <3>2. Len(s) \in Nat /\ s = [j \in 1..Len(s) |-> s[j]] /\ Len(s) = NumPIPs(a)
            BY <1>3, <3>1
        <3>3. /\ IsArrayIn(filePages, a, s)
              /\ \A j \in 1..Len(s) : s[j] \in NumArrays..(S - 1)
              /\ \A k \in APIdxs(filePages, a) : APIn(filePages, s, k) \in NumArrays..(S - 1)
            BY <2>1, <2>4, <2>5, <3>1, <3>2 DEF IInv, LayoutInv
        <3>4. HoldsArray(filePages, S, a, s)
            BY <3>2, <3>3 DEF HoldsArray
        <3> QED BY <2>3, <3>1, <3>4
    <2>7. AreSeparate(filePages, FilePIPs)
        <3>1. \A a \in Arrays : Len(PIPs(a)) = NumPIPs(a)
            BY <1>3
        <3> QED BY <2>3, <2>5, <3>1 DEF IInv, SeparateInv, AreSeparate
    <2> QED BY <1>1, <1>2, <2>2, <2>6, <2>7 DEF IsLayout, N, S
<1>5. CASE arrayPhase # "checkpointing"
    <2>1. \A a \in Arrays : FilePIPs[a] = OldPIPs(a)
        BY <1>5 DEF FilePIPs
    <2>2. ASSUME NEW a \in Arrays
          PROVE  /\ Len(OldPIPs(a)) \in Nat /\ OldPIPs(a) = [j \in 1..Len(OldPIPs(a)) |-> OldPIPs(a)[j]]
                 /\ Len(OldPIPs(a)) = Len(arrays[a].pips)
                 /\ \A j \in 1..Len(OldPIPs(a)) : /\ j \in 1..NumPIPs(a) /\ OldPIPs(a)[j] = PIPs(a)[j]
                                                  /\ PIPs(a)[j] \in NumArrays..(S - 1)
        <3>1. PICK m : m = Len(arrays[a].pips)
            OBVIOUS
        <3>2. m \in Nat /\ \A j \in 1..m : j \in 1..NumPIPs(a) /\ OldPIPs(a)[j] = PIPs(a)[j]
            BY <3>1, LayoutIs, PrefixIs
        <3>3. Len(OldPIPs(a)) = m /\ OldPIPs(a) = [j \in 1..m |-> OldPIPs(a)[j]]
            BY <3>1, <3>2 DEF OldPIPs
        <3>4. ASSUME NEW j \in 1..m PROVE PIPs(a)[j] \in NumArrays..(S - 1)
            <4>1. PIPs(a)[j] \in NumArrays..(N - 1)
                BY <3>2, LayoutIs DEF OwnPages, N
            <4>2. PIPs(a)[j] < S
                BY <1>5, <3>1, <3>2 DEF IInv, OldPagesInv, S
            <4> QED BY <1>2, <4>1, <4>2
        <3> QED BY <3>1, <3>2, <3>3, <3>4
    <2>3. ASSUME NEW a \in Arrays, NEW k \in APIdxs(filePages, a)
          PROVE  /\ k \in APsOf(a) /\ APIn(filePages, OldPIPs(a), k) = AP(a, k)
                 /\ AP(a, k) \in NumArrays..(S - 1)
        <3>1. k \in 0..(arrays[a].header.numAPs - 1)
            BY <1>5, OldAPs DEF APIdxs
        <3>2. k \in APsOf(a) /\ APIn(filePages, OldPIPs(a), k) = AP(a, k)
            BY <1>5, <3>1, OldAPs, PrefixIs
        <3>3. AP(a, k) \in NumArrays..(N - 1)
            BY <3>2, LayoutIs DEF OwnPages, N
        <3>4. k < arrays[a].header.numAPs
            BY <3>1, PrefixIs
        <3>5. AP(a, k) < S
            BY <1>5, <3>2, <3>4 DEF IInv, OldPagesInv, S
        <3> QED BY <1>2, <3>2, <3>3, <3>5
    <2>4. ASSUME NEW a \in Arrays PROVE HoldsArray(filePages, S, a, FilePIPs[a])
        <3>1. PICK s : s = OldPIPs(a)
            OBVIOUS
        <3>2. /\ Len(s) \in Nat /\ s = [j \in 1..Len(s) |-> s[j]]
              /\ \A j \in 1..Len(s) : s[j] \in NumArrays..(S - 1)
            BY <2>2, <3>1
        <3>3. /\ IsArrayIn(filePages, a, s)
              /\ \A k \in APIdxs(filePages, a) : APIn(filePages, s, k) \in NumArrays..(S - 1)
            BY <1>5, <2>3, <3>1 DEF IInv, OldPagesInv
        <3>4. HoldsArray(filePages, S, a, s)
            BY <3>2, <3>3 DEF HoldsArray
        <3> QED BY <2>1, <3>1, <3>4
    <2>5. AreSeparate(filePages, FilePIPs)
        BY <2>1, <2>2, <2>3, SMTT(20) DEF IInv, SeparateInv, AreSeparate
    <2>6. S \in NumArrays..MaxPages
        BY <1>1, <1>2
    <2> QED BY <1>1, <1>5, <2>4, <2>5, <2>6 DEF IsLayout, S
<1> QED BY <1>4, <1>5

\* A restart loads the arrays of the last checkpoint, or of the one under way.
LEMMA ReopenStep ==
    ASSUME IInv, Reopen
    PROVE  /\ IInv'
           /\ arrayPhase = "checkpointing" =>
                 \A a \in Arrays : ReadArray(a)' = WriteArray(a) /\ WriteArray(a)' = WriteArray(a)
           /\ arrayPhase # "checkpointing" =>
                 \A a \in Arrays : ReadArray(a)' = ReadArray(a) /\ WriteArray(a)' = ReadArray(a)
<1>1. filePages' = filePages
    <2>1. arrayPhase = "checkpointing" => ReplayPages(filePages) = filePages
        BY DEF IInv, CheckpointInv, Content
    <2> QED BY <2>1 DEF Reopen
<1>2. PICK n, pips : n = NumPagesOf(filePages) /\ pips = FilePIPs
    OBVIOUS
<1>3. IsLayout(filePages, n, pips) /\ IsLayout(filePages', n, pips)
    BY <1>1, <1>2, FileLayout
<1>4. IsClean'
    <2>1. \E m, s : IsLayout(filePages', m, s)
        BY <1>3
    <2> QED BY <2>1 DEF Reopen, IsClean, NumPagesOf
<1>5. IInv'
    BY <1>4, CleanIsInv, PTL
<1>6. \A m, s : IsLayout(filePages', m, s) =>
          \A a \in Arrays : /\ ReadArray(a)' = ElementsIn(filePages', a, s[a])
                            /\ WriteArray(a)' = ElementsIn(filePages', a, s[a])
    <2>1. SeesFile'
        BY <1>4, CleanReads, PTL
    <2> QED BY <2>1 DEF SeesFile
<1>7. \A a \in Arrays : /\ ReadArray(a)' = ElementsIn(filePages, a, pips[a])
                        /\ WriteArray(a)' = ElementsIn(filePages, a, pips[a])
    BY <1>1, <1>3, <1>6
<1>8. CASE arrayPhase = "checkpointing"
    <2>1. \A a \in Arrays : pips[a] = PIPs(a)
        BY <1>2, <1>8 DEF FilePIPs
    <2>2. Content = filePages
        BY <1>8 DEF IInv, CheckpointInv
    <2>3. \A a \in Arrays : WriteArray(a) = ElementsIn(filePages, a, pips[a])
        BY <2>1, <2>2, WriteArrayIs
    <2> QED BY <1>5, <1>7, <1>8, <2>3
<1>9. CASE arrayPhase # "checkpointing"
    <2>1. \A a \in Arrays : pips[a] = OldPIPs(a)
        BY <1>2, <1>9 DEF FilePIPs
    <2>2. \A a \in Arrays : ReadArray(a) = ElementsIn(filePages, a, pips[a])
        BY <1>9, <2>1, ReadArrayIs
    <2> QED BY <1>5, <1>7, <1>9, <2>2
<1> QED BY <1>8, <1>9

\* Memory between transactions is what a restart would load.
LEMMA MemoryIsLoaded ==
    ASSUME IInv, arrayPhase = "idle", NEW a \in Arrays
    PROVE  ReadArray(a) = LET A == LoadedArray(filePages, a) IN
              [i \in 1..A.header.numElements |->
                 A.inMemArrayPages[1 + (i - 1) \div ElementsPerPage][(i - 1) % ElementsPerPage]]
<1>1. PICK n, pips, s : n = NumPagesOf(filePages) /\ pips = FilePIPs /\ s = pips[a]
    OBVIOUS
<1>2. IsLayout(filePages, n, pips) /\ s = OldPIPs(a)
    BY <1>1, FileLayout DEF FilePIPs
<1>3. PICK A : A = LoadedArray(filePages, a)
    OBVIOUS
<1> DEFINE c == filePages[a].numAPs
           e == filePages[a].numElements
           P == [j \in 1..Len(s) |-> [page |-> s[j], contents |-> filePages[s[j]]]]
           M == [k \in 1..c |-> filePages[APIn(filePages, s, k - 1)].cells]
<1>4. A = [header |-> filePages[a], pips |-> P, updatedPIPs |-> {}, insertedPIPs |-> <<>>,
           inMemArrayPages |-> M, hasUpdates |-> FALSE]
    BY <1>1, <1>2, <1>3, LoadedIs
<1> HIDE DEF P, M
<1>5. A.header = filePages[a] /\ A.inMemArrayPages = M
    BY <1>4
<1>6. arrays[a].header = filePages[a]
    BY OldAPs
<1>7. e \in Nat /\ c = Ceil(e, ElementsPerPage)
    BY <1>6, PrefixIs
<1>8. ASSUME NEW i \in 1..e
      PROVE  M[1 + (i - 1) \div ElementsPerPage] =
                 filePages[APIn(filePages, s, (i - 1) \div ElementsPerPage)].cells
    <2>1. PICK k : k = (i - 1) \div ElementsPerPage
        OBVIOUS
    <2>2. k \in 0..(c - 1) /\ k \in Nat
        BY <1>7, <2>1, ElementIsInAP
    <2>3. c \in Nat
        BY <1>7, CeilIs, Constants
    <2>4. 1 + k \in 1..c /\ (1 + k) - 1 = k
        BY <2>2, <2>3
    <2> HIDE DEF c
    <2>5. M[1 + k] = filePages[APIn(filePages, s, (1 + k) - 1)].cells
        BY <2>4 DEF M
    <2> QED BY <2>1, <2>4, <2>5
<1> DEFINE V(i) == filePages[APIn(filePages, s, (i - 1) \div ElementsPerPage)]
                       .cells[(i - 1) % ElementsPerPage]
           W(i) == M[1 + (i - 1) \div ElementsPerPage][(i - 1) % ElementsPerPage]
<1>9. ReadArray(a) = [i \in 1..e |-> V(i)]
    BY <1>2, ReadArrayIs DEF ElementsIn
<1>10. \A i \in 1..e : W(i) = V(i)
    BY <1>8
<1>11. (LET B == LoadedArray(filePages, a) IN
              [i \in 1..B.header.numElements |->
                 B.inMemArrayPages[1 + (i - 1) \div ElementsPerPage][(i - 1) % ElementsPerPage]])
       = [i \in 1..e |-> W(i)]
    BY <1>3, <1>5
<1> HIDE DEF V, W, e
<1>12. [i \in 1..e |-> W(i)] = [i \in 1..e |-> V(i)]
    BY <1>10
<1> QED BY <1>9, <1>11, <1>12

\* Between transactions no array has updates, so no page has a version.
LEMMA CleanSlate ==
    ASSUME IInv PROVE NothingIsLeft
<1> SUFFICES ASSUME arrayPhase = "idle"
             PROVE  /\ \A p \in PageIdxs : ~HasVersion(p)
                    /\ numFilePages = NumPagesOf(filePages)
    BY MemoryIsLoaded DEF NothingIsLeft
<1>1. Updating = {} /\ \A p \in PageIdxs : ~HasVersion(p)
    BY DEF IInv, TypeInv, Updating, VersionsInv
<1> DEFINE N == numFilePages
           S == NumPagesOf(filePages)
<1>2. N \in NumArrays..MaxPages /\ S \in NumArrays..N /\ NumArrays \in Nat /\ MaxPages \in Nat
    BY Constants DEF IInv, TypeInv, SizesInv
<1> HIDE DEF N, S
<1>3. ASSUME S < N PROVE FALSE
    <2>1. N - 1 \in PageIdxs /\ N - 1 \in S..(N - 1)
        BY <1>2, <1>3 DEF PageIdxs
    <2> QED BY <1>1, <2>1 DEF IInv, SizesInv, N, S
<1>4. N = S
    BY <1>2, <1>3
<1> QED BY <1>1, <1>4 DEF N, S

-----------------------------------------------------------------------------
(* The file after loading.                                                  *)

\* The pages that a builder takes for c APs and m PIPs are different, and in order.
AreBuiltPages(f, c, m) ==
    /\ m \in Nat
    /\ \A k \in 0..(c - 1) : BuiltAPPage(f, k) \in f..(f + c + m - 1)
    /\ \A j \in 0..(m - 1) : BuiltPIPPage(f, j) \in f..(f + c + m - 1)
    /\ \A k, l \in 0..(c - 1) : BuiltAPPage(f, k) = BuiltAPPage(f, l) => k = l
    /\ \A i, j \in 0..(m - 1) : BuiltPIPPage(f, i) = BuiltPIPPage(f, j) => i = j
    /\ \A k \in 0..(c - 1), j \in 0..(m - 1) : BuiltPIPPage(f, j) # BuiltAPPage(f, k)

\* They are all different, and lie between the first and the last page of the array.
LEMMA BuiltPagesAre ==
    ASSUME NEW f \in Nat, NEW c \in Nat, NEW m, m = Ceil(c, PageIdxsPerPIP)
    PROVE  AreBuiltPages(f, c, m)
<1> DEFINE P == PageIdxsPerPIP
           A(k) == BuiltAPPage(f, k)
           Q(j) == BuiltPIPPage(f, j)
<1>1. P \in Nat /\ P > 0
    BY Constants
<1> HIDE DEF P
<1>2. m \in Nat /\ P * m \in Nat /\ c <= P * m /\ P * m < c + P
    BY <1>1, CeilIs DEF P
<1>3. ASSUME NEW k \in Nat PROVE A(k) = f + k + Ceil(k, P) /\ Ceil(k, P) \in Nat
    <2>1. Ceil(k, P) \in Nat
        BY <1>1, CeilIs
    <2>2. A(k) = f + k + Ceil(k, P)
        BY DEF BuiltAPPage, Ceil, P
    <2> QED BY <2>1, <2>2
<1>4. ASSUME NEW k \in Nat, NEW l \in Nat, k <= l PROVE Ceil(k, P) <= Ceil(l, P)
    BY <1>1, <1>4, CeilIsMonotone
<1>5. ASSUME NEW j \in Nat
      PROVE  /\ j * P \in Nat /\ Ceil(j * P, P) = j
             /\ Q(j) = (f + j * P + j) + 1
    <2>1. j * P \in Nat /\ j * P = P * j /\ P * (j + 1) = P * j + P
        BY <1>1
    <2> DEFINE x == j * P
    <2>2. Q(j) = A(x) + 1
        BY DEF BuiltPIPPage, P
    <2>3. x \in Nat /\ x = P * j /\ P * (j + 1) = x + P
        BY <2>1
    <2> HIDE DEF x
    <2> DEFINE d == Ceil(x, P)
    <2>4. d \in Nat /\ P * d \in Nat /\ x <= P * d /\ P * d < x + P
        BY <1>1, <2>3, CeilIs
    <2>5. A(x) = f + x + d
        BY <1>3, <2>3
    <2> HIDE DEF d
    <2>6. P * d < P * (j + 1) /\ ~(P * d < P * j)
        BY <1>1, <2>3, <2>4
    <2>7. d < j + 1
        BY <1>1, <2>4, <2>6, Products
    <2>8. ~(d < j)
        BY <1>1, <2>4, <2>6, CeilCounts
    <2>9. d = j
        BY <2>4, <2>7, <2>8
    <2>10. Q(j) = (f + x + j) + 1
        BY <2>2, <2>5, <2>9
    <2> QED BY <2>3, <2>9, <2>10 DEF x, d
<1>6. ASSUME NEW i \in Nat, NEW j \in Nat, i <= j PROVE i * P <= j * P
    <2>1. (j - i) * P \in Nat /\ (j - i) * P = j * P - i * P /\ j * P \in Nat /\ i * P \in Nat
        BY <1>1, <1>6
    <2> QED BY <2>1
<1> HIDE DEF A, Q
<1>7. ASSUME NEW k \in 0..(c - 1) PROVE A(k) \in f..(f + c + m - 1)
    <2>1. k \in Nat /\ k <= c
        OBVIOUS
    <2>2. Ceil(k, P) <= m /\ Ceil(k, P) \in Nat /\ A(k) = f + k + Ceil(k, P)
        BY <1>3, <1>4, <2>1 DEF P
    <2> QED BY <1>2, <2>2
<1>8. ASSUME NEW j \in 0..(m - 1) PROVE Q(j) \in f..(f + c + m - 1)
    <2>1. j \in Nat /\ j <= m - 1 /\ m - 1 \in Nat
        BY <1>2
    <2>2. j * P <= (m - 1) * P
        BY <1>6, <2>1
    <2>3. (m - 1) * P = P * m - P
        BY <1>1, <1>2
    <2>4. j * P \in Nat /\ Q(j) = (f + j * P + j) + 1
        BY <1>5, <2>1
    <2>5. j * P < c
        BY <1>1, <1>2, <2>2, <2>3, <2>4
    <2> DEFINE x == j * P
    <2>6. x \in Nat /\ Q(j) = (f + x + j) + 1 /\ x < c
        BY <2>4, <2>5
    <2> HIDE DEF x
    <2> QED BY <1>2, <2>1, <2>6
<1>9. ASSUME NEW k \in 0..(c - 1), NEW l \in 0..(c - 1), k < l PROVE A(k) # A(l)
    <2>1. k \in Nat /\ l \in Nat /\ k <= l
        BY <1>9
    <2>2. Ceil(k, P) <= Ceil(l, P)
        BY <1>4, <2>1
    <2>3. /\ Ceil(k, P) \in Nat /\ Ceil(l, P) \in Nat
          /\ A(k) = f + k + Ceil(k, P) /\ A(l) = f + l + Ceil(l, P)
        BY <1>3, <2>1
    <2> QED BY <1>9, <2>1, <2>2, <2>3
<1>10. ASSUME NEW i \in 0..(m - 1), NEW j \in 0..(m - 1), i < j PROVE Q(i) # Q(j)
    <2>1. i \in Nat /\ j \in Nat /\ i <= j
        BY <1>10
    <2> DEFINE x == i * P
               y == j * P
    <2>2. /\ x <= y /\ x \in Nat /\ y \in Nat
          /\ Q(i) = (f + x + i) + 1 /\ Q(j) = (f + y + j) + 1
        BY <1>5, <1>6, <2>1
    <2> HIDE DEF x, y
    <2> QED BY <1>10, <2>1, <2>2
<1>11. ASSUME NEW k \in 0..(c - 1), NEW j \in 0..(m - 1) PROVE Q(j) # A(k)
    <2> DEFINE x == j * P
               d == Ceil(k, P)
    <2>1. k \in Nat /\ j \in Nat
        OBVIOUS
    <2>2. /\ x \in Nat /\ Ceil(x, P) = j /\ Q(j) = (f + x + j) + 1
          /\ d \in Nat /\ A(k) = f + k + d
        BY <1>3, <1>5, <2>1
    <2>3. k <= x => d <= Ceil(x, P)
        BY <1>4, <2>1, <2>2
    <2>4. P * d \in Nat /\ k <= P * d /\ x = P * j
        <3>1. P * d \in Nat /\ k <= P * d
            BY <1>1, <2>1, CeilIs
        <3>2. x = P * j
            BY <1>1, <2>1
        <3> QED BY <3>1, <3>2
    <2> HIDE DEF x, d
    <2>5. k > x => j < d
        <3> SUFFICES ASSUME k > x PROVE j < d
            OBVIOUS
        <3>1. P * j < P * d
            BY <2>1, <2>2, <2>4
        <3> QED BY <1>1, <2>1, <2>2, <3>1, Products
    <2> QED BY <2>1, <2>2, <2>3, <2>5
<1>12. \A k, l \in 0..(c - 1) : A(k) = A(l) => k = l
    <2> SUFFICES ASSUME NEW k \in 0..(c - 1), NEW l \in 0..(c - 1), A(k) = A(l) PROVE k = l
        OBVIOUS
    <2>1. ~(k < l) /\ ~(l < k)
        BY <1>9
    <2> QED BY <2>1
<1>13. \A i, j \in 0..(m - 1) : Q(i) = Q(j) => i = j
    <2> SUFFICES ASSUME NEW i \in 0..(m - 1), NEW j \in 0..(m - 1), Q(i) = Q(j) PROVE i = j
        OBVIOUS
    <2>1. ~(i < j) /\ ~(j < i)
        BY <1>10
    <2> QED BY <2>1
<1> QED BY <1>2, <1>7, <1>8, <1>11, <1>12, <1>13 DEF A, Q, AreBuiltPages

\* The sizes and first pages of arrays that were built one after the other.
AreSizes(size, first) ==
    /\ size \in [Arrays -> InitialElements]
    /\ first \in [0..NumArrays -> 0..MaxPages]
    /\ AreBuiltInOrder(size, first)

\* The number of pages of an array that is built.
LEMMA SizesAre ==
    ASSUME NEW size, NEW first, AreSizes(size, first), NEW a \in Arrays
    PROVE  /\ size[a] \in 0..MaxElements /\ size[a] \in Nat
           /\ NumAPsFor(size[a]) \in Nat
           /\ NumAPsFor(size[a]) = Ceil(size[a], ElementsPerPage)
           /\ NumPIPsFor(size[a]) = Ceil(NumAPsFor(size[a]), PageIdxsPerPIP)
           /\ NumPIPsFor(size[a]) \in Nat
           /\ a \in Nat /\ a + 1 \in 0..NumArrays /\ a \in 0..NumArrays
           /\ first[a] \in Nat /\ first[a + 1] \in Nat
           /\ first[a + 1] = first[a] + NumAPsFor(size[a]) + NumPIPsFor(size[a])
<1>1. size[a] \in 0..MaxElements
    BY DiskArrayAssumption DEF AreSizes
<1>2. size[a] \in Nat
    BY <1>1, Constants
<1>3. NumAPsFor(size[a]) = Ceil(size[a], ElementsPerPage) /\ NumAPsFor(size[a]) \in Nat
    <2>1. NumAPsFor(size[a]) = Ceil(size[a], ElementsPerPage)
        BY DEF NumAPsFor, Ceil
    <2> QED BY <1>2, <2>1, Constants, CeilIs
<1>4. /\ NumPIPsFor(size[a]) = Ceil(NumAPsFor(size[a]), PageIdxsPerPIP)
      /\ NumPIPsFor(size[a]) \in Nat
    <2>1. NumPIPsFor(size[a]) = Ceil(NumAPsFor(size[a]), PageIdxsPerPIP)
        BY DEF NumPIPsFor, Ceil
    <2> QED BY <1>3, <2>1, Constants, CeilIs
<1>5. a \in Nat /\ a + 1 \in 0..NumArrays /\ a \in 0..NumArrays
    BY Constants DEF Arrays
<1>6. first[a] \in Nat /\ first[a + 1] \in Nat
    BY <1>5, Constants DEF AreSizes
<1>7. first[a + 1] = first[a] + BuiltPages(size[a])
    BY DEF AreSizes, AreBuiltInOrder
<1>8. first[a + 1] = first[a] + NumAPsFor(size[a]) + NumPIPsFor(size[a])
    <2>1. PICK x, y : x = NumAPsFor(size[a]) /\ y = NumPIPsFor(size[a])
        OBVIOUS
    <2>2. BuiltPages(size[a]) = x + y
        BY <2>1 DEF BuiltPages
    <2> QED BY <1>3, <1>4, <1>6, <1>7, <2>1, <2>2
<1> QED BY <1>1, <1>2, <1>3, <1>4, <1>5, <1>6, <1>8

\* The pages of the arrays follow each other and leave out none.
LEMMA BuiltInOrder ==
    ASSUME NEW size, NEW first, AreSizes(size, first)
    PROVE  /\ first[0] = NumArrays /\ first[NumArrays] \in NumArrays..MaxPages
           /\ \A a \in Arrays : /\ NumArrays <= first[a] /\ first[a] <= first[a + 1]
                                /\ first[a + 1] <= first[NumArrays]
           /\ \A a, b \in Arrays : a < b => first[a + 1] <= first[b]
           /\ \A p \in NumArrays..(first[NumArrays] - 1) :
                 \E a \in Arrays : p \in first[a]..(first[a + 1] - 1)
<1>1. /\ NumArrays \in Nat /\ MaxPages \in Nat /\ first[0] = NumArrays
      /\ \A a \in 0..NumArrays : first[a] \in 0..MaxPages
    BY Constants DEF AreSizes, AreBuiltInOrder
<1>2. \A a \in 0..NumArrays : first[a] \in Nat
    BY <1>1
<1>3. \A a \in Nat : a + 1 <= NumArrays => first[a] <= first[a + 1] /\ a \in Arrays
    <2> SUFFICES ASSUME NEW a \in Nat, a + 1 <= NumArrays PROVE first[a] <= first[a + 1] /\ a \in Arrays
        OBVIOUS
    <2>1. a \in Arrays
        BY <1>1 DEF Arrays
    <2>2. PICK x, y : x = NumAPsFor(size[a]) /\ y = NumPIPsFor(size[a])
        OBVIOUS
    <2>3. /\ x \in Nat /\ y \in Nat /\ first[a] \in Nat /\ first[a + 1] \in Nat
          /\ first[a + 1] = first[a] + x + y
        BY <2>1, <2>2, SizesAre
    <2> QED BY <2>1, <2>3
<1>4. ASSUME NEW a \in 0..NumArrays, NEW b \in 0..NumArrays, a <= b PROVE first[a] <= first[b]
    <2> DEFINE G == {d \in Nat : a + d <= NumArrays => first[a] <= first[a + d]}
    <2>1. 0 \in G
        BY <1>2
    <2>2. ASSUME NEW d \in Nat, d \in G PROVE d + 1 \in G
        <3> SUFFICES ASSUME a + (d + 1) <= NumArrays PROVE first[a] <= first[a + (d + 1)]
            OBVIOUS
        <3>1. a + d \in Nat /\ (a + d) + 1 = a + (d + 1) /\ a + d \in 0..NumArrays
              /\ a + (d + 1) \in 0..NumArrays
            BY <1>1
        <3>2. first[a] <= first[a + d] /\ first[a + d] <= first[a + (d + 1)]
            BY <1>1, <1>3, <2>2, <3>1
        <3>3. first[a] \in Nat /\ first[a + d] \in Nat /\ first[a + (d + 1)] \in Nat
            BY <1>2, <3>1
        <3> QED BY <3>2, <3>3
    <2> HIDE DEF G
    <2>3. Nat \subseteq G
        BY <2>1, <2>2, NatSetInduction
    <2>4. b - a \in Nat /\ a + (b - a) = b
        BY <1>1, <1>4
    <2>5. b - a \in G
        BY <2>3, <2>4
    <2> QED BY <1>1, <2>4, <2>5 DEF G
<1>5. \A a \in Arrays : a \in 0..NumArrays /\ a + 1 \in 0..NumArrays /\ a \in Nat
    BY <1>1 DEF Arrays
<1>6. 0 \in 0..NumArrays /\ NumArrays \in 0..NumArrays
    BY <1>1
<1>7. ASSUME NEW a \in Arrays
      PROVE  /\ NumArrays <= first[a] /\ first[a] <= first[a + 1]
             /\ first[a + 1] <= first[NumArrays]
    <2>1. 0 <= a /\ a <= a + 1 /\ a + 1 <= NumArrays
        BY <1>1, <1>5
    <2> QED BY <1>1, <1>4, <1>5, <1>6, <2>1
<1>8. ASSUME NEW a \in Arrays, NEW b \in Arrays, a < b PROVE first[a + 1] <= first[b]
    <2>1. a + 1 <= b
        BY <1>5, <1>8
    <2> QED BY <1>4, <1>5, <2>1
<1>9. ASSUME NEW p \in NumArrays..(first[NumArrays] - 1)
      PROVE  \E a \in Arrays : p \in first[a]..(first[a + 1] - 1)
    <2> DEFINE G == {b \in Nat : b <= NumArrays /\ p < first[b] =>
                                     \E a \in Arrays : p \in first[a]..(first[a + 1] - 1)}
    <2>1. p \in Nat
        BY <1>1
    <2>2. 0 \in G
        BY <1>1, <2>1
    <2>3. ASSUME NEW b \in Nat, b \in G PROVE b + 1 \in G
        <3> SUFFICES ASSUME b + 1 <= NumArrays, p < first[b + 1]
                     PROVE  \E a \in Arrays : p \in first[a]..(first[a + 1] - 1)
            OBVIOUS
        <3>1. b \in Arrays /\ b <= NumArrays
            BY <1>1, <1>3
        <3>2. first[b] \in Nat /\ first[b + 1] \in Nat
            BY <1>2, <1>5, <3>1
        <3>3. CASE p < first[b]
            BY <2>3, <3>1, <3>3
        <3>4. CASE ~(p < first[b])
            <4>1. p \in first[b]..(first[b + 1] - 1)
                BY <2>1, <3>2, <3>4
            <4> QED BY <3>1, <4>1
        <3> QED BY <3>3, <3>4
    <2> HIDE DEF G
    <2>4. Nat \subseteq G
        BY <2>2, <2>3, NatSetInduction
    <2>5. p < first[NumArrays]
        BY <1>2, <1>6, <2>1
    <2>6. NumArrays \in G
        BY <1>1, <2>4
    <2> QED BY <1>1, <2>5, <2>6 DEF G
<1>10. first[NumArrays] \in NumArrays..MaxPages
    <2>1. first[0] <= first[NumArrays]
        BY <1>1, <1>4, <1>6
    <2> QED BY <1>1, <1>6, <2>1
<1> QED BY <1>1, <1>7, <1>8, <1>9, <1>10

\* A page has one array that takes it, if it is not beyond the last array.
LEMMA PagesAreTaken ==
    ASSUME NEW size, NEW first, AreSizes(size, first), NEW p \in PageIdxs
    PROVE  /\ \A a, b \in Arrays : TakesPage(first, a, p) /\ TakesPage(first, b, p) => a = b
           /\ p < first[NumArrays] <=> \E a \in Arrays : TakesPage(first, a, p)
<1>1. /\ NumArrays \in Nat /\ NumArrays > 0 /\ MaxPages \in Nat /\ p \in Nat
      /\ \A a \in Arrays : a \in Nat /\ a < NumArrays
    BY Constants DEF PageIdxs, Arrays
<1>2. /\ first[NumArrays] \in NumArrays..MaxPages
      /\ \A a \in Arrays : /\ NumArrays <= first[a] /\ first[a] <= first[a + 1]
                           /\ first[a + 1] <= first[NumArrays]
      /\ \A a, b \in Arrays : a < b => first[a + 1] <= first[b]
      /\ \A q \in NumArrays..(first[NumArrays] - 1) :
            \E a \in Arrays : q \in first[a]..(first[a + 1] - 1)
    BY BuiltInOrder
<1>3. \A a \in Arrays : first[a] \in Nat /\ first[a + 1] \in Nat
    BY SizesAre
<1>4. ASSUME NEW a \in Arrays, NEW b \in Arrays, TakesPage(first, a, p), TakesPage(first, b, p)
      PROVE  ~(a < b)
    <2> SUFFICES ASSUME a < b PROVE FALSE
        OBVIOUS
    <2>1. first[a + 1] <= first[b] /\ NumArrays <= first[b] /\ NumArrays <= first[a]
        BY <1>2
    <2>2. /\ p = a \/ (first[a] <= p /\ p < first[a + 1])
          /\ p = b \/ (first[b] <= p /\ p < first[b + 1])
        BY <1>1, <1>3, <1>4 DEF TakesPage
    <2> QED BY <1>1, <1>3, <2>1, <2>2
<1>5. ASSUME NEW a \in Arrays, NEW b \in Arrays, TakesPage(first, a, p), TakesPage(first, b, p)
      PROVE  a = b
    <2>1. ~(a < b) /\ ~(b < a)
        BY <1>4, <1>5
    <2> QED BY <1>1, <2>1
<1>6. ASSUME p < first[NumArrays] PROVE \E a \in Arrays : TakesPage(first, a, p)
    <2>1. CASE p < NumArrays
        <3>1. p \in Arrays
            BY <1>1, <2>1 DEF Arrays
        <3> QED BY <3>1 DEF TakesPage
    <2>2. CASE ~(p < NumArrays)
        <3>1. p \in NumArrays..(first[NumArrays] - 1)
            BY <1>1, <1>2, <1>6, <2>2
        <3> QED BY <1>2, <3>1 DEF TakesPage
    <2> QED BY <2>1, <2>2
<1>7. ASSUME NEW a \in Arrays, TakesPage(first, a, p) PROVE p < first[NumArrays]
    <2>1. first[a + 1] <= first[NumArrays] /\ first[NumArrays] \in Nat /\ NumArrays <= first[NumArrays]
        BY <1>1, <1>2
    <2>2. p = a \/ (first[a] <= p /\ p < first[a + 1])
        BY <1>1, <1>3, <1>7 DEF TakesPage
    <2> QED BY <1>1, <1>3, <2>1, <2>2
<1> QED BY <1>5, <1>6, <1>7

\* What saveToDisk writes: the header, the PIPs and the APs.
SetCells(g, c) == [g EXCEPT !.cells = c]
BuiltHeader(f, n) ==
    SetHeader(GarbagePage, n, NumAPsFor(n), IF n = 0 THEN NullPage ELSE BuiltPIPPage(f, 0))
BuiltNext(f, n, j) == IF j + 1 < NumPIPsFor(n) THEN BuiltPIPPage(f, j + 1) ELSE NullPage
BuiltCells(f, n, j) ==
    [i \in CellIdxs |-> LET k == j * PageIdxsPerPIP + i
                        IN  IF k < NumAPsFor(n) THEN BuiltAPPage(f, k) ELSE Garbage]
BuiltPIP(f, n, j) == SetCells(SetNext(GarbagePage, BuiltNext(f, n, j)), BuiltCells(f, n, j))
BuiltElements(n, k) ==
    [i \in CellIdxs |-> IF k * ElementsPerPage + i < n THEN 1 ELSE Garbage]
BuiltAP(n, k) == SetCells(GarbagePage, BuiltElements(n, k))

\* What a page holds when all of its cells are set.
LEMMA SetCellsIs ==
    ASSUME NEW g, IsPage(g), NEW c, c = [i \in CellIdxs |-> c[i]]
    PROVE  /\ IsPage(SetCells(g, c))
           /\ SetCells(g, c).next = g.next
           /\ SetCells(g, c).cells = c
<1> DEFINE gn == g.next
           ge == g.numElements
           gm == g.numAPs
           gc == g.cells
           l == SetCells(g, c)
<1>1. g = [next |-> gn, numElements |-> ge, numAPs |-> gm, cells |-> gc] /\ gn # NullPage - 2
    BY DEF IsPage
<1> HIDE DEF gn, ge, gm, gc
<1>2. l = [next |-> gn, numElements |-> ge, numAPs |-> gm, cells |-> c]
    BY <1>1 DEF SetCells
<1> HIDE DEF l
<1>3. /\ IsPage(l) /\ l.next = gn /\ l.cells = c
    BY <1>1, <1>2 DEF IsPage
<1> QED BY <1>3 DEF l, gn

\* What saveToDisk writes to the header, the PIPs and the APs.
LEMMA SaveToDiskIs ==
    ASSUME NEW a, NEW f, NEW n, NEW p
    PROVE  /\ p = a => SaveToDisk(a, f, n, p) = BuiltHeader(f, n)
           /\ \A j \in 0..(NumPIPsFor(n) - 1) :
                 /\ p # a /\ p = BuiltPIPPage(f, j)
                 /\ \A i \in 0..(NumPIPsFor(n) - 1) : BuiltPIPPage(f, i) = BuiltPIPPage(f, j) => i = j
                 => SaveToDisk(a, f, n, p) = BuiltPIP(f, n, j)
           /\ \/ SaveToDisk(a, f, n, p) = BuiltHeader(f, n)
              \/ \E j \in 0..(NumPIPsFor(n) - 1) : /\ p = BuiltPIPPage(f, j)
                                                   /\ SaveToDisk(a, f, n, p) = BuiltPIP(f, n, j)
              \/ \E k : SaveToDisk(a, f, n, p) = BuiltAP(n, k)
<1> DEFINE J == 0..(NumPIPsFor(n) - 1)
           IsPIP == \E j \in J : p = BuiltPIPPage(f, j)
           j0 == CHOOSE i \in J : p = BuiltPIPPage(f, i)
           k0 == CHOOSE i \in 0..(NumAPsFor(n) - 1) : p = BuiltAPPage(f, i)
           H == [GarbagePage EXCEPT !.next = IF n = 0 THEN NullPage ELSE BuiltPIPPage(f, 0),
                                    !.numElements = n, !.numAPs = NumAPsFor(n)]
           C(j, D) == [i \in D |-> LET k == j * PageIdxsPerPIP + i
                                   IN  IF k < NumAPsFor(n) THEN BuiltAPPage(f, k) ELSE Garbage]
           Q(j) == [GarbagePage EXCEPT
                      !.next = IF j + 1 < NumPIPsFor(n) THEN BuiltPIPPage(f, j + 1) ELSE NullPage,
                      !.cells = [i \in DOMAIN @ |->
                              LET k == j * PageIdxsPerPIP + i
                              IN  IF k < NumAPsFor(n) THEN BuiltAPPage(f, k) ELSE Garbage]]
           E(k) == [GarbagePage EXCEPT !.cells = [i \in DOMAIN @ |->
                      IF k * ElementsPerPage + i < n THEN 1 ELSE Garbage]]
<1>1. SaveToDisk(a, f, n, p) = IF p = a THEN H ELSE IF IsPIP THEN Q(j0) ELSE E(k0)
    BY Zenon DEF SaveToDisk
<1>2. DOMAIN GarbagePage.cells = CellIdxs
    BY DEF GarbagePage, CellIdxs
<1>3. H = BuiltHeader(f, n)
    <2>1. PICK x, y : x = NumAPsFor(n) /\ y = IF n = 0 THEN NullPage ELSE BuiltPIPPage(f, 0)
        OBVIOUS
    <2>2. BuiltHeader(f, n) = [GarbagePage EXCEPT !.numElements = n, !.numAPs = x, !.next = y]
        BY <2>1, Zenon DEF BuiltHeader, SetHeader
    <2>3. H = [GarbagePage EXCEPT !.next = y, !.numElements = n, !.numAPs = x]
        BY <2>1, Zenon
    <2>4. [GarbagePage EXCEPT !.next = y, !.numElements = n, !.numAPs = x] =
          [GarbagePage EXCEPT !.numElements = n, !.numAPs = x, !.next = y]
        BY DEF GarbagePage
    <2> QED BY <2>2, <2>3, <2>4
<1>4. ASSUME NEW j PROVE Q(j) = BuiltPIP(f, n, j)
    <2> DEFINE g == SetNext(GarbagePage, BuiltNext(f, n, j))
    <2>1. g.cells = GarbagePage.cells
        BY DEF GarbagePage, SetNext
    <2>2. Q(j) = SetCells(g, C(j, DOMAIN g.cells))
        BY Zenon DEF BuiltNext, SetCells, SetNext
    <2>3. C(j, DOMAIN g.cells) = BuiltCells(f, n, j)
        BY <1>2, <2>1, Zenon DEF BuiltCells
    <2> QED BY <2>2, <2>3, Zenon DEF BuiltPIP
<1>5. ASSUME NEW k PROVE E(k) = BuiltAP(n, k)
    BY <1>2, Zenon DEF BuiltAP, BuiltElements, SetCells
<1> HIDE DEF H, Q, E, J
<1>6. IsPIP => j0 \in J /\ p = BuiltPIPPage(f, j0)
    BY Zenon
<1>7. ASSUME NEW j \in J, p = BuiltPIPPage(f, j),
             \A i \in J : BuiltPIPPage(f, i) = BuiltPIPPage(f, j) => i = j
      PROVE  IsPIP /\ j0 = j
    <2>1. IsPIP
        BY <1>7
    <2> HIDE DEF j0
    <2> QED BY <1>6, <1>7, <2>1
<1> HIDE DEF j0, k0, IsPIP
<1>8. p = a => SaveToDisk(a, f, n, p) = BuiltHeader(f, n)
    BY <1>1, <1>3
<1>9. \A j \in J : /\ p # a /\ p = BuiltPIPPage(f, j)
                   /\ \A i \in J : BuiltPIPPage(f, i) = BuiltPIPPage(f, j) => i = j
                   => SaveToDisk(a, f, n, p) = BuiltPIP(f, n, j)
    BY <1>1, <1>4, <1>7
<1>10. \/ SaveToDisk(a, f, n, p) = BuiltHeader(f, n)
       \/ \E j \in J : p = BuiltPIPPage(f, j) /\ SaveToDisk(a, f, n, p) = BuiltPIP(f, n, j)
       \/ \E k : SaveToDisk(a, f, n, p) = BuiltAP(n, k)
    BY <1>1, <1>3, <1>4, <1>5, <1>6
<1> QED BY <1>8, <1>9, <1>10 DEF J

\* No elements need no pages, and any need some.
LEMMA CeilOfZero ==
    ASSUME NEW n \in Nat, NEW d \in Nat, d > 0
    PROVE  Ceil(n, d) = 0 <=> n = 0
<1> DEFINE c == Ceil(n, d)
<1>1. c \in Nat /\ d * c \in Nat /\ n <= d * c /\ d * c < n + d
    BY CeilIs
<1> HIDE DEF c
<1>2. c = 0 => n = 0
    BY <1>1
<1>3. n = 0 => c = 0
    <2> SUFFICES ASSUME n = 0 PROVE c < 1
        BY <1>1
    <2>1. d * c < d * 1
        BY <1>1
    <2> QED BY <1>1, <2>1, Products
<1> QED BY <1>2, <1>3 DEF c

\* The pages of an array, by what BuiltPagesAre says of them.
LEMMA BuiltArrayIs ==
    ASSUME NEW size, NEW first, AreSizes(size, first), NEW a \in Arrays
    PROVE  LET f == first[a]
               c == NumAPsFor(size[a])
               m == NumPIPsFor(size[a])
           IN  /\ \A k \in 0..(c - 1) : BuiltAPPage(f, k) \in f..(first[a + 1] - 1)
               /\ \A j \in 0..(m - 1) : BuiltPIPPage(f, j) \in f..(first[a + 1] - 1)
               /\ \A k, l \in 0..(c - 1) : BuiltAPPage(f, k) = BuiltAPPage(f, l) => k = l
               /\ \A i, j \in 0..(m - 1) : BuiltPIPPage(f, i) = BuiltPIPPage(f, j) => i = j
               /\ \A k \in 0..(c - 1), j \in 0..(m - 1) : BuiltPIPPage(f, j) # BuiltAPPage(f, k)
               /\ f..(first[a + 1] - 1) \subseteq NumArrays..(first[NumArrays] - 1)
               /\ m = 0 <=> size[a] = 0
<1>1. PICK n, f, g, c, m : /\ n = size[a] /\ f = first[a] /\ g = first[a + 1]
                           /\ c = NumAPsFor(size[a]) /\ m = NumPIPsFor(size[a])
    OBVIOUS
<1>2. /\ n \in Nat /\ c \in Nat /\ m \in Nat /\ f \in Nat /\ g \in Nat /\ g = f + c + m
      /\ c = Ceil(n, ElementsPerPage) /\ m = Ceil(c, PageIdxsPerPIP)
    BY <1>1, SizesAre
<1>3. /\ \A k \in 0..(c - 1) : BuiltAPPage(f, k) \in f..(f + c + m - 1)
      /\ \A j \in 0..(m - 1) : BuiltPIPPage(f, j) \in f..(f + c + m - 1)
      /\ \A k, l \in 0..(c - 1) : BuiltAPPage(f, k) = BuiltAPPage(f, l) => k = l
      /\ \A i, j \in 0..(m - 1) : BuiltPIPPage(f, i) = BuiltPIPPage(f, j) => i = j
      /\ \A k \in 0..(c - 1), j \in 0..(m - 1) : BuiltPIPPage(f, j) # BuiltAPPage(f, k)
    <2>1. AreBuiltPages(f, c, m)
        BY <1>2, BuiltPagesAre
    <2> QED BY <2>1 DEF AreBuiltPages
<1>4. f + c + m - 1 = g - 1
    BY <1>2
<1>5. m = 0 <=> n = 0
    BY <1>2, CeilOfZero, Constants
<1>6. f..(g - 1) \subseteq NumArrays..(first[NumArrays] - 1)
    <2>1. NumArrays <= f /\ g <= first[NumArrays] /\ first[NumArrays] \in NumArrays..MaxPages
        BY <1>1, BuiltInOrder
    <2>2. NumArrays \in Nat /\ MaxPages \in Nat
        BY Constants
    <2> QED BY <1>2, <2>1, <2>2
<1> QED BY <1>1, <1>3, <1>4, <1>5, <1>6

\* What is in the file.
LEMMA BuiltFileIs ==
    ASSUME NEW size, NEW first, AreSizes(size, first), NEW file, file = BuiltFile(size, first)
    PROVE  /\ file = [p \in PageIdxs |-> file[p]]
           /\ \A p \in PageIdxs, a \in Arrays : TakesPage(first, a, p) =>
                 file[p] = SaveToDisk(a, first[a], size[a], p)
           /\ \A p \in PageIdxs : ~(p < first[NumArrays]) => file[p] = NoVersion
<1> DEFINE T(p) == \E a \in Arrays : TakesPage(first, a, p)
           b(p) == CHOOSE a \in Arrays : TakesPage(first, a, p)
           S(a, p) == SaveToDisk(a, first[a], size[a], p)
<1>1. file = [p \in PageIdxs |-> IF T(p) THEN S(b(p), p) ELSE NoVersion]
    BY Zenon DEF BuiltFile
<1>2. \A p \in PageIdxs, a \in Arrays : TakesPage(first, a, p) => T(p) /\ b(p) = a
    BY PagesAreTaken
<1>3. \A p \in PageIdxs : ~(p < first[NumArrays]) => ~T(p)
    BY PagesAreTaken
<1> HIDE DEF T, b, S
<1>4. /\ file = [p \in PageIdxs |-> file[p]]
      /\ \A p \in PageIdxs : file[p] = IF T(p) THEN S(b(p), p) ELSE NoVersion
    BY <1>1
<1>5. \A p \in PageIdxs, a \in Arrays : TakesPage(first, a, p) => file[p] = S(a, p)
    BY <1>2, <1>4
<1> QED BY <1>3, <1>4, <1>5 DEF S

\* The pages that are written have the form of pages.
LEMMA BuiltPagesExist ==
    ASSUME NEW size, NEW first, AreSizes(size, first), NEW a \in Arrays
    PROVE  LET f == first[a]
               n == size[a]
           IN  /\ IsPage(BuiltHeader(f, n))
               /\ LeadsTo(BuiltHeader(f, n), IF n = 0 THEN NullPage ELSE BuiltPIPPage(f, 0))
               /\ BuiltHeader(f, n).numElements = n
               /\ BuiltHeader(f, n).numAPs = NumAPsFor(n)
               /\ \A j \in 0..(NumPIPsFor(n) - 1) :
                     /\ IsPage(BuiltPIP(f, n, j))
                     /\ LeadsTo(BuiltPIP(f, n, j), BuiltNext(f, n, j))
                     /\ BuiltPIP(f, n, j).cells = BuiltCells(f, n, j)
               /\ \A k : IsPage(BuiltAP(n, k))
               /\ \A p : IsPage(SaveToDisk(a, f, n, p))
<1>1. PICK f, n, c, m, g : /\ f = first[a] /\ n = size[a] /\ g = first[a + 1]
                           /\ c = NumAPsFor(size[a]) /\ m = NumPIPsFor(size[a])
    OBVIOUS
<1>2. f \in Nat /\ m \in Nat /\ g \in Nat /\ c = NumAPsFor(n) /\ m = NumPIPsFor(n)
    BY <1>1, SizesAre
<1>3. /\ \A j \in 0..(m - 1) : BuiltPIPPage(f, j) \in f..(g - 1)
      /\ m = 0 <=> n = 0
    BY <1>1, BuiltArrayIs
<1>4. \A j \in 0..(m - 1) : BuiltPIPPage(f, j) # NullPage - 2
    BY <1>2, <1>3 DEF NullPage
<1>5. IsPage(GarbagePage) /\ NullPage # NullPage - 2
    BY PagesExist DEF NullPage
<1>6. /\ IsPage(BuiltHeader(f, n))
      /\ LeadsTo(BuiltHeader(f, n), IF n = 0 THEN NullPage ELSE BuiltPIPPage(f, 0))
      /\ BuiltHeader(f, n).numElements = n
      /\ BuiltHeader(f, n).numAPs = c
    <2>1. PICK x : x = IF n = 0 THEN NullPage ELSE BuiltPIPPage(f, 0)
        OBVIOUS
    <2>2. n # 0 => 0 \in 0..(m - 1)
        BY <1>2, <1>3
    <2>3. x # NullPage - 2
        BY <1>4, <1>5, <2>1, <2>2
    <2>4. BuiltHeader(f, n) = SetHeader(GarbagePage, n, c, x)
        BY <1>2, <2>1 DEF BuiltHeader
    <2>5. PICK h : h = SetHeader(GarbagePage, n, c, x)
        OBVIOUS
    <2>6. IsPage(h) /\ h.next = x /\ h.numElements = n /\ h.numAPs = c
        BY <1>5, <2>3, <2>5, SetHeaderIs
    <2> QED BY <2>1, <2>4, <2>5, <2>6 DEF LeadsTo
<1>7. ASSUME NEW j \in 0..(m - 1)
      PROVE  /\ IsPage(BuiltPIP(f, n, j))
             /\ LeadsTo(BuiltPIP(f, n, j), BuiltNext(f, n, j))
             /\ BuiltPIP(f, n, j).cells = BuiltCells(f, n, j)
    <2>1. PICK x, y : x = BuiltNext(f, n, j) /\ y = BuiltCells(f, n, j)
        OBVIOUS
    <2>2. j + 1 < m => j + 1 \in 0..(m - 1)
        BY <1>2
    <2>3. x # NullPage - 2
        BY <1>2, <1>4, <1>5, <2>1, <2>2 DEF BuiltNext
    <2>4. y = [i \in CellIdxs |-> y[i]]
        BY <2>1 DEF BuiltCells
    <2>5. PICK l : l = SetNext(GarbagePage, x)
        OBVIOUS
    <2>6. IsPage(l) /\ l.next = x
        BY <1>5, <2>3, <2>5, SetNextIs
    <2>7. PICK h : h = SetCells(l, y)
        OBVIOUS
    <2>8. IsPage(h) /\ h.next = x /\ h.cells = y
        BY <2>4, <2>6, <2>7, SetCellsIs
    <2>9. BuiltPIP(f, n, j) = h
        BY <2>1, <2>5, <2>7 DEF BuiltPIP
    <2> QED BY <2>1, <2>8, <2>9 DEF LeadsTo
<1>8. ASSUME NEW k PROVE IsPage(BuiltAP(n, k))
    <2>1. PICK y : y = BuiltElements(n, k)
        OBVIOUS
    <2>2. y = [i \in CellIdxs |-> y[i]]
        BY <2>1 DEF BuiltElements
    <2> QED BY <1>5, <2>1, <2>2, SetCellsIs DEF BuiltAP
<1>9. ASSUME NEW p PROVE IsPage(SaveToDisk(a, f, n, p))
    BY <1>2, <1>6, <1>7, <1>8, SaveToDiskIs
<1> QED BY <1>1, <1>2, <1>6, <1>7, <1>8, <1>9

\* The PIPs of the arrays after loading, and the file that holds them.
BuiltPIPs(size, first) ==
    [a \in Arrays |-> [j \in 1..NumPIPsFor(size[a]) |-> BuiltPIPPage(first[a], j - 1)]]

\* The file holds each array with these PIPs.
LEMMA BuiltArray ==
    ASSUME NEW size, NEW first, AreSizes(size, first), NEW file, file = BuiltFile(size, first),
           NEW a \in Arrays, NEW s, s = BuiltPIPs(size, first)[a]
    PROVE  /\ Len(s) = NumPIPsFor(size[a]) /\ Len(s) \in Nat /\ s = [j \in 1..Len(s) |-> s[j]]
           /\ \A j \in 1..Len(s) : /\ j - 1 \in 0..(NumPIPsFor(size[a]) - 1)
                                   /\ s[j] = BuiltPIPPage(first[a], j - 1)
           /\ IsArrayIn(file, a, s)
           /\ APIdxs(file, a) = 0..(NumAPsFor(size[a]) - 1)
           /\ \A k \in APIdxs(file, a) : APIn(file, s, k) = BuiltAPPage(first[a], k)
<1>1. PICK f, n, c, m, g : /\ f = first[a] /\ n = size[a] /\ g = first[a + 1]
                           /\ c = NumAPsFor(size[a]) /\ m = NumPIPsFor(size[a])
    OBVIOUS
<1>2. /\ f \in Nat /\ m \in Nat /\ g \in Nat /\ c \in Nat /\ n \in 0..MaxElements
      /\ c = NumAPsFor(n) /\ m = NumPIPsFor(n) /\ m = Ceil(c, PageIdxsPerPIP)
    BY <1>1, SizesAre
<1>3. s = [j \in 1..m |-> BuiltPIPPage(f, j - 1)]
    BY <1>1 DEF BuiltPIPs
<1>4. Len(s) = m /\ s = [j \in 1..m |-> s[j]]
    BY <1>2, <1>3
<1>5. \A j \in 1..m : j - 1 \in 0..(m - 1) /\ s[j] = BuiltPIPPage(f, j - 1)
    BY <1>2, <1>3
<1>6. /\ NumArrays \in Nat /\ MaxPages \in Nat /\ first[NumArrays] \in NumArrays..MaxPages
      /\ a \in Nat /\ a < NumArrays
    <2>1. first[NumArrays] \in NumArrays..MaxPages
        BY BuiltInOrder
    <2> QED BY <2>1, Constants DEF Arrays
<1>7. /\ \A j \in 0..(m - 1) : BuiltPIPPage(f, j) \in f..(g - 1)
      /\ \A i, j \in 0..(m - 1) : BuiltPIPPage(f, i) = BuiltPIPPage(f, j) => i = j
      /\ f..(g - 1) \subseteq NumArrays..(first[NumArrays] - 1)
      /\ m = 0 <=> n = 0
    BY <1>1, BuiltArrayIs
<1>8. \A p \in PageIdxs : TakesPage(first, a, p) => file[p] = SaveToDisk(a, f, n, p)
    BY <1>1, BuiltFileIs
<1>9. file[a] = BuiltHeader(f, n)
    <2>1. a \in PageIdxs /\ TakesPage(first, a, a)
        BY <1>6 DEF PageIdxs, TakesPage
    <2> QED BY <1>8, <2>1, SaveToDiskIs
<1>10. ASSUME NEW j \in 0..(m - 1) PROVE file[BuiltPIPPage(f, j)] = BuiltPIP(f, n, j)
    <2>1. PICK p : p = BuiltPIPPage(f, j)
        OBVIOUS
    <2>2. p \in f..(g - 1) /\ p \in NumArrays..(first[NumArrays] - 1)
        BY <1>7, <2>1
    <2>3. p \in PageIdxs /\ p # a /\ TakesPage(first, a, p)
        BY <1>1, <1>6, <2>2 DEF PageIdxs, TakesPage
    <2>4. \A i \in 0..(m - 1) : BuiltPIPPage(f, i) = BuiltPIPPage(f, j) => i = j
        BY <1>7
    <2>5. SaveToDisk(a, f, n, p) = BuiltPIP(f, n, j)
        <3>1. /\ j \in 0..(NumPIPsFor(n) - 1)
              /\ \A i \in 0..(NumPIPsFor(n) - 1) : BuiltPIPPage(f, i) = BuiltPIPPage(f, j) => i = j
            BY <1>2, <2>4
        <3>2. \A l \in 0..(NumPIPsFor(n) - 1) :
                 /\ p # a /\ p = BuiltPIPPage(f, l)
                 /\ \A i \in 0..(NumPIPsFor(n) - 1) : BuiltPIPPage(f, i) = BuiltPIPPage(f, l) => i = l
                 => SaveToDisk(a, f, n, p) = BuiltPIP(f, n, l)
            BY SaveToDiskIs
        <3> QED BY <2>1, <2>3, <3>1, <3>2
    <2> QED BY <1>8, <2>1, <2>3, <2>5
<1>11. /\ LeadsTo(file[a], IF n = 0 THEN NullPage ELSE BuiltPIPPage(f, 0))
       /\ file[a].numElements = n /\ file[a].numAPs = c
       /\ \A j \in 0..(m - 1) : /\ LeadsTo(file[BuiltPIPPage(f, j)], BuiltNext(f, n, j))
                                /\ file[BuiltPIPPage(f, j)].cells = BuiltCells(f, n, j)
    <2>1. /\ LeadsTo(BuiltHeader(f, n), IF n = 0 THEN NullPage ELSE BuiltPIPPage(f, 0))
          /\ BuiltHeader(f, n).numElements = n /\ BuiltHeader(f, n).numAPs = c
        BY <1>1, BuiltPagesExist
    <2>2. \A j \in 0..(m - 1) : /\ LeadsTo(BuiltPIP(f, n, j), BuiltNext(f, n, j))
                                /\ BuiltPIP(f, n, j).cells = BuiltCells(f, n, j)
        BY <1>1, BuiltPagesExist
    <2> QED BY <1>9, <1>10, <2>1, <2>2
<1>12. IsArrayIn(file, a, s)
    <2>1. file[a].next = IF Len(s) = 0 THEN NullPage ELSE s[1]
        <3>1. m # 0 => 1 \in 1..m /\ 1 - 1 = 0
            BY <1>2
        <3>2. m # 0 => s[1] = BuiltPIPPage(f, 0)
            BY <1>5, <3>1
        <3> QED BY <1>4, <1>7, <1>11, <3>2 DEF LeadsTo
    <2>2. ASSUME NEW j \in 1..m PROVE file[s[j]].next = IF j < m THEN s[j + 1] ELSE NullPage
        <3>1. s[j] = BuiltPIPPage(f, j - 1) /\ j - 1 \in 0..(m - 1) /\ (j - 1) + 1 = j
            BY <1>2, <1>5
        <3>2. file[s[j]].next = BuiltNext(f, n, j - 1)
            BY <1>11, <3>1 DEF LeadsTo
        <3>3. BuiltNext(f, n, j - 1) = IF j < m THEN BuiltPIPPage(f, j) ELSE NullPage
            BY <1>2, <3>1 DEF BuiltNext
        <3>4. j < m => j + 1 \in 1..m /\ (j + 1) - 1 = j
            BY <1>2
        <3>5. j < m => s[j + 1] = BuiltPIPPage(f, j)
            BY <1>5, <3>4
        <3> QED BY <3>2, <3>3, <3>5
    <2> QED BY <1>2, <1>4, <1>11, <2>1, <2>2 DEF IsArrayIn
<1>13. APIdxs(file, a) = 0..(c - 1)
    BY <1>11 DEF APIdxs
<1>14. ASSUME NEW k \in 0..(c - 1) PROVE APIn(file, s, k) = BuiltAPPage(f, k)
    <2> DEFINE P == PageIdxsPerPIP
    <2>1. P \in Nat /\ P > 0 /\ 0..(P - 1) \subseteq CellIdxs
        BY Constants
    <2>2. k \in Nat /\ k < c
        BY <1>2
    <2>3. PICK q, r : q = k \div P /\ r = k % P
        OBVIOUS
    <2>4. q \in Nat /\ r \in 0..(P - 1) /\ k = P * q + r
        BY <2>1, <2>2, <2>3, Division
    <2>5. q < m
        BY <1>2, <2>1, <2>2, <2>3, CeilIndex
    <2>6. 1 + q \in 1..m /\ (1 + q) - 1 = q /\ q \in 0..(m - 1)
        BY <1>2, <2>4, <2>5
    <2>7. s[1 + q] = BuiltPIPPage(f, q)
        BY <1>5, <2>6
    <2>8. APIn(file, s, k) = BuiltCells(f, n, q)[r]
        BY <1>11, <2>3, <2>6, <2>7 DEF APIn
    <2>9. q * P + r = k
        BY <2>1, <2>4
    <2>10. r \in CellIdxs
        BY <2>1, <2>4
    <2>11. BuiltCells(f, n, q)[r] = IF q * P + r < NumAPsFor(n) THEN BuiltAPPage(f, q * P + r) ELSE Garbage
        BY <2>10 DEF BuiltCells
    <2> HIDE DEF P
    <2> QED BY <1>2, <2>2, <2>8, <2>9, <2>11
<1> QED BY <1>1, <1>2, <1>4, <1>5, <1>12, <1>13, <1>14

\* And the arrays are on separate pages.
LEMMA BuiltLayout ==
    ASSUME NEW size, NEW first, AreSizes(size, first), NEW file, file = BuiltFile(size, first)
    PROVE  IsLayout(file, first[NumArrays], BuiltPIPs(size, first))
<1>1. PICK n, pips : n = first[NumArrays] /\ pips = BuiltPIPs(size, first)
    OBVIOUS
<1>2. n \in NumArrays..MaxPages
    BY <1>1, BuiltInOrder
<1>3. /\ file = [p \in PageIdxs |-> file[p]]
      /\ \A p \in PageIdxs, a \in Arrays : TakesPage(first, a, p) =>
            file[p] = SaveToDisk(a, first[a], size[a], p)
      /\ \A p \in PageIdxs : ~(p < n) => file[p] = NoVersion
    BY <1>1, BuiltFileIs
<1>4. \A p \in PageIdxs : p < n => IsPage(file[p])
    <2> SUFFICES ASSUME NEW p \in PageIdxs, p < n PROVE IsPage(file[p])
        OBVIOUS
    <2>1. PICK a \in Arrays : TakesPage(first, a, p)
        BY <1>1, PagesAreTaken
    <2>2. IsPage(SaveToDisk(a, first[a], size[a], p))
        BY BuiltPagesExist
    <2> QED BY <1>3, <2>1, <2>2
<1>5. IsFile(file) /\ \A p \in PageIdxs : file[p] # NoVersion <=> p < n
    BY <1>3, <1>4, PagesExist DEF IsFile
<1>6. NumArrays \in Nat /\ MaxPages \in Nat /\ n \in Nat
    BY <1>2, Constants
<1>7. ASSUME NEW a \in Arrays
      PROVE  /\ HoldsArray(file, n, a, pips[a])
             /\ \A j \in 1..Len(pips[a]) : pips[a][j] \in PageIdxs /\ TakesPage(first, a, pips[a][j])
             /\ \A k \in APIdxs(file, a) : /\ APIn(file, pips[a], k) \in PageIdxs
                                           /\ TakesPage(first, a, APIn(file, pips[a], k))
             /\ \A i, j \in 1..Len(pips[a]) : pips[a][i] = pips[a][j] => i = j
             /\ \A k, l \in APIdxs(file, a) : APIn(file, pips[a], k) = APIn(file, pips[a], l) => k = l
             /\ \A j \in 1..Len(pips[a]), k \in APIdxs(file, a) : pips[a][j] # APIn(file, pips[a], k)
    <2>1. PICK f, g, c, m, s : /\ f = first[a] /\ g = first[a + 1] /\ s = pips[a]
                               /\ c = NumAPsFor(size[a]) /\ m = NumPIPsFor(size[a])
        OBVIOUS
    <2>2. s = BuiltPIPs(size, first)[a]
        BY <1>1, <2>1
    <2>3. /\ Len(s) = m /\ Len(s) \in Nat /\ s = [j \in 1..Len(s) |-> s[j]]
          /\ IsArrayIn(file, a, s)
          /\ APIdxs(file, a) = 0..(c - 1)
        BY <2>1, <2>2, BuiltArray
    <2>4. \A j \in 1..m : j - 1 \in 0..(m - 1) /\ s[j] = BuiltPIPPage(f, j - 1)
        BY <2>1, <2>2, <2>3, BuiltArray
    <2>5. \A k \in 0..(c - 1) : APIn(file, s, k) = BuiltAPPage(f, k)
        <3>1. \A k \in APIdxs(file, a) : APIn(file, s, k) = BuiltAPPage(first[a], k)
            BY <2>2, BuiltArray
        <3> QED BY <2>1, <2>3, <3>1
    <2>6. /\ \A k \in 0..(c - 1) : BuiltAPPage(f, k) \in f..(g - 1)
          /\ \A j \in 0..(m - 1) : BuiltPIPPage(f, j) \in f..(g - 1)
          /\ \A k, l \in 0..(c - 1) : BuiltAPPage(f, k) = BuiltAPPage(f, l) => k = l
          /\ \A i, j \in 0..(m - 1) : BuiltPIPPage(f, i) = BuiltPIPPage(f, j) => i = j
          /\ \A k \in 0..(c - 1), j \in 0..(m - 1) : BuiltPIPPage(f, j) # BuiltAPPage(f, k)
          /\ f..(g - 1) \subseteq NumArrays..(n - 1)
        BY <1>1, <2>1, BuiltArrayIs
    <2>7. \A p \in f..(g - 1) : p \in NumArrays..(n - 1) /\ p \in PageIdxs /\ TakesPage(first, a, p)
        <3>1. NumArrays..(n - 1) \subseteq PageIdxs
            BY <1>2, <1>6 DEF PageIdxs
        <3> QED BY <2>1, <2>6, <3>1 DEF TakesPage
    <2>8. HoldsArray(file, n, a, s)
        BY <2>3, <2>4, <2>5, <2>6, <2>7 DEF HoldsArray
    <2>9. \A i, j \in 1..m : s[i] = s[j] => i = j
        <3> SUFFICES ASSUME NEW i \in 1..m, NEW j \in 1..m, s[i] = s[j] PROVE i = j
            OBVIOUS
        <3>1. i - 1 = j - 1
            BY <2>4, <2>6
        <3> QED BY <2>3, <3>1
    <2>10. \A k, l \in 0..(c - 1) : APIn(file, s, k) = APIn(file, s, l) => k = l
        BY <2>5, <2>6
    <2>11. \A j \in 1..m, k \in 0..(c - 1) : s[j] # APIn(file, s, k)
        BY <2>4, <2>5, <2>6
    <2>12. /\ \A j \in 1..m : s[j] \in PageIdxs /\ TakesPage(first, a, s[j])
           /\ \A k \in 0..(c - 1) : APIn(file, s, k) \in PageIdxs /\ TakesPage(first, a, APIn(file, s, k))
        BY <2>4, <2>5, <2>6, <2>7
    <2> QED BY <2>1, <2>3, <2>8, <2>9, <2>10, <2>11, <2>12
<1>8. \A a, b \in Arrays, p \in PageIdxs : TakesPage(first, a, p) /\ TakesPage(first, b, p) => a = b
    BY PagesAreTaken
<1>9. AreSeparate(file, pips)
    BY <1>7, <1>8 DEF AreSeparate
<1>10. IsLayout(file, n, pips)
    BY <1>2, <1>5, <1>7, <1>9 DEF IsLayout
<1> QED BY <1>1, <1>10

\* So the state after loading is clean.
LEMMA InitIsClean ==
    ASSUME DiskArrayInit
    PROVE  IsClean
<1>1. PICK size \in [Arrays -> InitialElements], first \in [0..NumArrays -> 0..MaxPages] :
          AreBuiltInOrder(size, first) /\ filePages = BuiltFile(size, first)
    BY DEF DiskArrayInit
<1>2. AreSizes(size, first)
    BY <1>1 DEF AreSizes
<1>3. IsLayout(filePages, first[NumArrays], BuiltPIPs(size, first))
    BY <1>1, <1>2, BuiltLayout
<1> QED BY <1>3 DEF DiskArrayInit, IsClean

-----------------------------------------------------------------------------
(* What the steps do to the arrays.                                         *)

\* An element, as the write transaction sees it.
ElementAt(a, i) == Content[AP(a, (i - 1) \div ElementsPerPage)].cells[(i - 1) % ElementsPerPage]
HasElements(a) ==
    /\ Content[a].numElements \in Nat
    /\ WriteArray(a) = [i \in 1..Content[a].numElements |-> ElementAt(a, i)]

HaveElements == \A a \in Arrays : HasElements(a)

\* The write transaction sees what the APs of the array hold.
LEMMA Elements ==
    IInv => HaveElements
<1> SUFFICES ASSUME IInv, NEW a \in Arrays PROVE HasElements(a)
    BY DEF HaveElements
<1>1. WriteArray(a) = ElementsIn(Content, a, PIPs(a))
    BY WriteArrayIs
<1>2. Content[a].numElements \in Nat
    BY LayoutIs
<1> QED BY <1>1, <1>2 DEF ElementsIn, ElementAt, AP, HasElements

\* For readers and the write transaction an array without updates is the same.
NotUpdatedAreSame ==
    \A a \in Arrays : ~arrays[a].hasUpdates => ReadArray(a) = WriteArray(a)

\* The write transaction sees what readers see of an array that it has not updated.
LEMMA ReadsWrites ==
    IInv => NotUpdatedAreSame
<1> SUFFICES ASSUME IInv, NEW a \in Arrays, ~arrays[a].hasUpdates
             PROVE  ReadArray(a) = WriteArray(a)
    BY DEF NotUpdatedAreSame
<1>1. a \in PageIdxs /\ ~HasVersion(a)
    <2>1. a \in PageIdxs /\ Owns(a, a)
        BY PageRanges DEF IInv, Owns
    <2> QED BY <2>1, NotUpdated
<1>2. WriteHeader(a) = arrays[a].header
    BY <1>1 DEF WriteHeader
<1> DEFINE n == arrays[a].header.numElements
           V(i) == arrays[a].inMemArrayPages[1 + (i - 1) \div ElementsPerPage]
                       [(i - 1) % ElementsPerPage]
           W(i) == LET k == (i - 1) \div ElementsPerPage
                       p == WriteAPPage(a, k)
                   IN  IF HasVersion(p) THEN walVersion[p].cells[(i - 1) % ElementsPerPage]
                       ELSE arrays[a].inMemArrayPages[k + 1][(i - 1) % ElementsPerPage]
<1>3. ReadArray(a) = [i \in 1..n |-> V(i)] /\ WriteArray(a) = [i \in 1..n |-> W(i)]
    BY <1>2 DEF ReadArray, WriteArray
<1>4. ASSUME NEW i \in 1..n PROVE V(i) = W(i)
    <2>1. n \in Nat /\ Content[a].numAPs = Ceil(n, ElementsPerPage)
        BY <1>2, LayoutIs, PrefixIs
    <2>2. PICK k : k = (i - 1) \div ElementsPerPage
        OBVIOUS
    <2>3. k \in APsOf(a) /\ k \in Nat
        BY <2>1, <2>2, ElementIsInAP DEF APsOf, APIdxs
    <2>4. PICK p : p = AP(a, k)
        OBVIOUS
    <2>5. WriteAPPage(a, k) = p /\ p \in PageIdxs /\ Owns(a, p)
        BY <2>3, <2>4, WriteAPPageIs, LayoutIs, PageRanges DEF IInv, Owns
    <2>6. ~HasVersion(p)
        BY <2>5, NotUpdated
    <2>7. 1 + k = k + 1
        BY <2>3
    <2> QED BY <2>2, <2>5, <2>6, <2>7
<1> HIDE DEF V, W
<1>5. [i \in 1..n |-> V(i)] = [i \in 1..n |-> W(i)]
    BY <1>4
<1> QED BY <1>3, <1>5

\* A step that keeps the APs and their content keeps the array.
KeepsAPs(b) ==
    \A k \in APsOf(b) : AP(b, k)' = AP(b, k) /\ Content'[AP(b, k)] = Content[AP(b, k)]

\* It sees the same elements if the APs and what they hold are the same.
LEMMA KeepsElements ==
    ASSUME IInv, IInv', NEW b \in Arrays, KeepsAPs(b),
           Content'[b].numElements = Content[b].numElements
    PROVE  WriteArray(b)' = WriteArray(b)
<1>1. HasElements(b) /\ HasElements(b)'
    <2>1. HaveElements'
        BY Elements, PTL
    <2> QED BY <2>1, Elements DEF HaveElements
<1> DEFINE n == Content[b].numElements
           V(i) == ElementAt(b, i)
           W(i) == ElementAt(b, i)'
<1>2. n \in Nat /\ WriteArray(b) = [i \in 1..n |-> V(i)] /\ WriteArray(b)' = [i \in 1..n |-> W(i)]
    BY <1>1 DEF HasElements
<1>3. ASSUME NEW i \in 1..n PROVE W(i) = V(i)
    <2>1. PICK k, r : k = (i - 1) \div ElementsPerPage /\ r = (i - 1) % ElementsPerPage
        OBVIOUS
    <2>2. k \in APsOf(b)
        BY <1>2, <2>1, ElementIsInAP, LayoutIs DEF APsOf, APIdxs
    <2>3. V(i) = Content[AP(b, k)].cells[r] /\ W(i) = Content'[AP(b, k)'].cells[r]
        BY <2>1 DEF ElementAt
    <2> HIDE DEF V, W
    <2> QED BY <2>2, <2>3 DEF KeepsAPs
<1> HIDE DEF V, W
<1>4. [i \in 1..n |-> W(i)] = [i \in 1..n |-> V(i)]
    BY <1>3
<1> QED BY <1>2, <1>4

\* An update replaces an element or none, and readers do not notice.
Replaces(a) ==
    /\ Len(WriteArray(a)') = Len(WriteArray(a))
    /\ \E i \in 1..Len(WriteArray(a)) :
          \A j \in 1..Len(WriteArray(a)) \ {i} : WriteArray(a)'[j] = WriteArray(a)[j]

\* An update replaces an element or none, and readers do not notice.
LEMMA UpdateArrays ==
    ASSUME IInv, NEW a \in Arrays, NEW i \in 0..MaxElements, Update(a, i)
    PROVE  /\ \A b \in Arrays : ReadArray(b)' = ReadArray(b)
           /\ \A b \in Arrays \ {a} : WriteArray(b)' = WriteArray(b)
           /\ WriteArray(a)' = WriteArray(a) \/ Replaces(a)
<1>1. IInv'
    BY UpdateStep
<1>2. \A b \in Arrays : SameObject(b) /\ SameLayout(b)
    BY UpdateEffect, UpdateKeepsLayout
<1>3. \A b \in Arrays : ReadArray(b)' = ReadArray(b)
    BY <1>2, SameObjectIs
<1>4. \A b \in Arrays : SameAPs(b) /\ Content'[b] = Content[b]
    BY <1>2, SameLayoutIs DEF SameLayout
<1>5. CASE UNCHANGED walVersion
    <2>1. Content' = Content
        BY <1>5, ContentIsKept, UpdateEffect
    <2>2. \A b \in Arrays : KeepsAPs(b)
        BY <1>4, <2>1 DEF KeepsAPs, SameAPs
    <2> QED BY <1>1, <1>3, <1>4, <2>2, KeepsElements
<1>6. CASE ~UNCHANGED walVersion
    <2>1. PICK k0, r0, p : /\ k0 = i \div ElementsPerPage /\ r0 = i % ElementsPerPage
                           /\ p = AP(a, k0)
        OBVIOUS
    <2>2. /\ i < Content[a].numElements /\ k0 \in APsOf(a) /\ r0 \in CellIdxs /\ i \in Nat
          /\ p \in PageIdxs /\ p < numFilePages /\ WritesCell(p, r0) /\ UNCHANGED filePages
        BY <1>6, <2>1, UpdateEffect
    <2>3. /\ \A q \in PageIdxs \ {p} : Content'[q] = Content[q]
          /\ Content'[p] = SetCell(Content[p], r0, arrayTransaction)
        BY <2>2, WritesCellIs
    <2>4. IsPage(Content[p])
        BY <2>2, ContentIs
    <2>5. \A r \in CellIdxs : r # r0 => Content'[p].cells[r] = Content[p].cells[r]
        BY <2>2, <2>3, <2>4, SetCellIs
    <2>6. \A b \in Arrays : \A k \in APsOf(b) : AP(b, k) \in PageIdxs
        BY LayoutIs, PageRanges DEF IInv
    <2>7. \A b \in Arrays : \A k \in APsOf(b) : AP(b, k) = p => b = a /\ k = k0
        BY <2>1, <2>2 DEF IInv, SeparateInv
    <2>8. ASSUME NEW b \in Arrays \ {a} PROVE WriteArray(b)' = WriteArray(b)
        <3>1. KeepsAPs(b)
            BY <1>4, <2>3, <2>6, <2>7 DEF KeepsAPs, SameAPs
        <3> QED BY <1>1, <1>4, <3>1, KeepsElements
    <2>9. Replaces(a)
        <3>1. HasElements(a) /\ HasElements(a)'
            <4>1. HaveElements'
                BY <1>1, Elements, PTL
            <4> QED BY <4>1, Elements DEF HaveElements
        <3> DEFINE n == Content[a].numElements
                   V(j) == ElementAt(a, j)
                   W(j) == ElementAt(a, j)'
        <3>2. n \in Nat /\ WriteArray(a) = [j \in 1..n |-> V(j)] /\ WriteArray(a)' = [j \in 1..n |-> W(j)]
            BY <1>4, <3>1 DEF HasElements
        <3>3. ASSUME NEW j \in 1..n, j # i + 1 PROVE W(j) = V(j)
            <4>1. PICK k, r : k = (j - 1) \div ElementsPerPage /\ r = (j - 1) % ElementsPerPage
                OBVIOUS
            <4>2. k \in APsOf(a) /\ r \in 0..(ElementsPerPage - 1) /\ r \in CellIdxs
                BY <3>2, <4>1, ElementIsInAP, LayoutIs, Constants DEF APsOf, APIdxs
            <4>3. AP(a, k)' = AP(a, k) /\ AP(a, k) \in PageIdxs
                BY <1>4, <2>6, <4>2 DEF SameAPs
            <4>4. V(j) = Content[AP(a, k)].cells[r] /\ W(j) = Content'[AP(a, k)].cells[r]
                BY <4>1, <4>3 DEF ElementAt
            <4>5. k = k0 => r # r0
                <5> SUFFICES ASSUME k = k0, r = r0 PROVE FALSE
                    OBVIOUS
                <5>1. j - 1 \in Nat /\ ElementsPerPage \in Nat /\ ElementsPerPage > 0
                    BY <3>2, Constants
                <5>2. j - 1 = ElementsPerPage * k + r
                    BY <4>1, <5>1, Division
                <5>3. i = ElementsPerPage * k0 + r0
                    BY <2>1, <2>2, <5>1, Division
                <5>4. j - 1 = i
                    BY <5>2, <5>3
                <5> QED BY <2>2, <3>2, <3>3, <5>4
            <4>6. CASE AP(a, k) = p
                BY <2>5, <2>7, <4>2, <4>4, <4>5, <4>6
            <4>7. CASE AP(a, k) # p
                BY <2>3, <4>3, <4>4, <4>7
            <4> QED BY <4>6, <4>7
        <3>4. i + 1 \in 1..n
            BY <2>2, <3>2
        <3> HIDE DEF V, W, n
        <3>5. Len(WriteArray(a)) = n /\ Len(WriteArray(a)') = n
            BY <3>2
        <3>6. \A j \in 1..n \ {i + 1} : WriteArray(a)'[j] = WriteArray(a)[j]
            BY <3>2, <3>3
        <3> QED BY <3>4, <3>5, <3>6 DEF Replaces
    <2> QED BY <1>3, <2>8, <2>9
<1> QED BY <1>5, <1>6

\* An addition appends an element, and readers do not notice.
Appends(a) ==
    /\ Len(WriteArray(a)') = Len(WriteArray(a)) + 1
    /\ SubSeq(WriteArray(a)', 1, Len(WriteArray(a))) = WriteArray(a)

\* A sequence with one more element has the other as a prefix.
LEMMA PrefixOf ==
    ASSUME NEW n \in Nat, NEW v, v = [i \in 1..n |-> v[i]], NEW w, w = [i \in 1..(n + 1) |-> w[i]],
           \A i \in 1..n : w[i] = v[i]
    PROVE  Len(v) = n /\ Len(w) = n + 1 /\ SubSeq(w, 1, n) = v
<1> DEFINE T == {w[i] : i \in 1..(n + 1)}
           u == SubSeq(w, 1, n)
<1>1. Len(v) = n /\ Len(w) = n + 1
    OBVIOUS
<1>2. \A i \in 1..n : w[i] \in T
    OBVIOUS
<1>3. /\ u \in Seq(T) /\ Len(u) = IF 1 <= n THEN n - 1 + 1 ELSE 0
      /\ \A i \in 1..(n - 1 + 1) : u[i] = w[1 + i - 1]
    BY <1>2, SubSeqProperties
<1> HIDE DEF T, u
<1>4. Len(u) = n /\ \A i \in 1..n : u[i] = w[i]
    <2>1. n - 1 + 1 = n /\ (~(1 <= n) => n = 0) /\ \A i \in 1..n : 1 + i - 1 = i
        OBVIOUS
    <2>2. Len(u) = n
        BY <1>3, <2>1
    <2>3. ASSUME NEW i \in 1..n PROVE u[i] = w[i]
        <3>1. u[i] = w[1 + i - 1]
            BY <1>3, <2>1
        <3> QED BY <2>1, <3>1
    <2> QED BY <2>2, <2>3
<1>5. u = [i \in 1..n |-> u[i]]
    BY <1>3, <1>4
<1>6. u = v
    <2>1. u = [i \in 1..n |-> v[i]]
        BY <1>4, <1>5
    <2> QED BY <2>1
<1> QED BY <1>1, <1>6 DEF u

\* pushBack appends an element, and readers do not notice.
LEMMA PushBackArrays ==
    ASSUME IInv, NEW a \in Arrays, PushBack(a)
    PROVE  /\ \A b \in Arrays : ReadArray(b)' = ReadArray(b)
           /\ \A b \in Arrays \ {a} : WriteArray(b)' = WriteArray(b)
           /\ Appends(a)
<1>1. IInv'
    BY PushBackStep
<1>2. \A b \in Arrays : ReadArray(b)' = ReadArray(b)
    BY PushBackPIPs DEF SameReaderObject, ReadArray
<1>3. \A b \in Arrays : \A k \in APsOf(b) : AP(b, k) \in PageIdxs
    BY LayoutIs, PageRanges DEF IInv
<1>4. ASSUME NEW b \in Arrays \ {a} PROVE WriteArray(b)' = WriteArray(b)
    <2>1. /\ ~Touches(a, b)
          /\ \A j \in 1..NumPIPs(b) : ~Touches(a, PIPs(b)[j])
          /\ \A k \in APsOf(b) : ~Touches(a, AP(b, k))
        BY PushKeepsOthers
    <2>2. \A p \in PageIdxs : ~Touches(a, p) => Content'[p] = Content[p]
        BY PushBackPages
    <2>3. b \in PageIdxs /\ \A j \in 1..NumPIPs(b) : PIPs(b)[j] \in PageIdxs
        BY PushPages
    <2>4. SameLayout(b)
        BY <2>1, <2>2, <2>3, PushBackPIPs DEF SameLayout
    <2>5. SameAPs(b) /\ Content'[b] = Content[b]
        BY <2>4, SameLayoutIs DEF SameLayout
    <2>6. KeepsAPs(b)
        BY <1>3, <2>1, <2>2, <2>5 DEF KeepsAPs, SameAPs
    <2> QED BY <1>1, <2>5, <2>6, KeepsElements
<1>5. Appends(a)
    <2>1. HasElements(a) /\ HasElements(a)'
        <3>1. HaveElements'
            BY <1>1, Elements, PTL
        <3> QED BY <3>1, Elements DEF HaveElements
    <2> DEFINE n == Content[a].numElements
               V(j) == ElementAt(a, j)
               W(j) == ElementAt(a, j)'
    <2>2. /\ n \in Nat /\ Content'[a].numElements = n + 1
          /\ \A k \in APsOf(a) : AP(a, k)' = AP(a, k)
        BY <2>1, PushBackAPs DEF HasElements
    <2>3. /\ WriteArray(a) = [j \in 1..n |-> V(j)]
          /\ WriteArray(a)' = [j \in 1..(n + 1) |-> W(j)]
        BY <2>1, <2>2 DEF HasElements
    <2>4. ASSUME NEW j \in 1..n PROVE W(j) = V(j)
        <3>1. PICK k, r : k = (j - 1) \div ElementsPerPage /\ r = (j - 1) % ElementsPerPage
            OBVIOUS
        <3>2. k \in APsOf(a) /\ r \in 0..(ElementsPerPage - 1) /\ r \in CellIdxs
            BY <2>2, <3>1, ElementIsInAP, LayoutIs, Constants DEF APsOf, APIdxs
        <3>3. PICK p \in PageIdxs : p = AP(a, k)
            BY <1>3, <3>2
        <3>4. V(j) = Content[p].cells[r] /\ W(j) = Content'[p].cells[r]
            BY <2>2, <3>1, <3>2, <3>3 DEF ElementAt
        <3>5. CASE ~Touches(a, p)
            BY <3>4, <3>5, PushBackPages
        <3>6. CASE Touches(a, p)
            <4>1. p < numFilePages /\ p >= NumArrays /\ numFilePages \in Nat /\ p \in Nat
                  /\ a < NumArrays /\ a \in Nat /\ NumArrays \in Nat
                BY <3>2, <3>3, PushPages, PageRanges, Constants DEF IInv
            <4>2. \A l \in 1..NumPIPs(a) : p # PIPs(a)[l]
                BY <3>2, <3>3 DEF IInv, SeparateInv
            <4>3. p = PushAPPage(a) /\ p # a
                <5>1. p # a /\ p # numFilePages + 1
                    BY <4>1
                <5>2. ~LinksPIP(a, p)
                    BY <4>2, PushPages
                <5>3. ~(IsNewAP(a) /\ p = PushPIPPage(a))
                    BY <4>2, <5>1, PushPages
                <5> QED BY <3>6, <5>1, <5>2, <5>3 DEF Touches
            <4>4. ~IsNewAP(a)
                BY <4>1, <4>3, PushPages
            <4>5. p = AP(a, PushAP(a)) /\ PushAP(a) \in APsOf(a)
                BY <4>3, <4>4, PushPages
            <4>6. k = PushAP(a)
                BY <3>2, <3>3, <4>5 DEF IInv, SeparateInv
            <4>7. PICK s : s = n % ElementsPerPage
                OBVIOUS
            <4>8. s \in CellIdxs
                BY <4>7, PushCases
            <4>9. Content'[p] = SetCell(Content[p], s, arrayTransaction)
                <5>1. Content'[p] = PushedAP(a)
                    BY <3>6, <4>3, PushBackPages DEF VersionPushed
                <5> QED BY <4>3, <4>4, <4>7, <5>1 DEF PushedAP
            <4>10. r # s
                <5> SUFFICES ASSUME r = s PROVE FALSE
                    OBVIOUS
                <5>1. j - 1 \in Nat /\ ElementsPerPage \in Nat /\ ElementsPerPage > 0
                    BY <2>2, Constants
                <5>2. j - 1 = ElementsPerPage * k + r
                    BY <3>1, <5>1, Division
                <5>3. n = ElementsPerPage * k + s
                    BY <2>2, <4>6, <4>7, <5>1, Division DEF PushAP
                <5>4. j - 1 = n
                    BY <5>2, <5>3
                <5> HIDE DEF n
                <5> QED BY <2>2, <5>4
            <4>11. IsPage(Content[p])
                BY <4>1, ContentIs
            <4>12. Content'[p].cells[r] = Content[p].cells[r]
                BY <3>2, <4>8, <4>9, <4>10, <4>11, SetCellIs
            <4> QED BY <3>4, <4>12
        <3> QED BY <3>5, <3>6
    <2> HIDE DEF V, W, n
    <2>5. PICK v, w : v = WriteArray(a) /\ w = WriteArray(a)'
        OBVIOUS
    <2>6. /\ v = [j \in 1..n |-> v[j]] /\ w = [j \in 1..(n + 1) |-> w[j]]
          /\ \A j \in 1..n : w[j] = v[j]
        <3>1. n + 1 \in Nat /\ \A j \in 1..n : j \in 1..(n + 1)
            BY <2>2
        <3> QED BY <2>3, <2>4, <2>5, <3>1
    <2>7. Len(v) = n /\ Len(w) = n + 1 /\ SubSeq(w, 1, n) = v
        BY <2>2, <2>6, PrefixOf
    <2> QED BY <2>5, <2>7 DEF Appends
<1> QED BY <1>2, <1>4, <1>5

\* A checkpoint shows readers what the write transaction sees.
LEMMA CheckpointArrays ==
    ASSUME IInv, NEW a \in Arrays, CheckpointInMemoryIfNecessary(a)
    PROVE  /\ \A b \in Arrays : WriteArray(b)' = WriteArray(b)
           /\ \A b \in Arrays \ {a} : ReadArray(b)' = ReadArray(b)
           /\ ReadArray(a)' = WriteArray(a)
<1>1. IInv' /\ Content' = Content /\ \A b \in Arrays : SameLayout(b)
    BY CheckpointStep
<1>2. ASSUME NEW b \in Arrays PROVE WriteArray(b)' = WriteArray(b)
    <2>1. SameAPs(b)
        BY <1>1, SameLayoutIs
    <2>2. KeepsAPs(b)
        BY <1>1, <2>1 DEF KeepsAPs, SameAPs
    <2> QED BY <1>1, <2>2, KeepsElements
<1>3. Settles(a)
    BY CheckpointEffect
<1>4. \A b \in Arrays \ {a} : ReadArray(b)' = ReadArray(b)
    BY <1>3 DEF Settles, ReadArray
<1>5. ReadArray(a)' = WriteArray(a)'
    <2>1. NotUpdatedAreSame'
        BY <1>1, ReadsWrites, PTL
    <2>2. ~arrays'[a].hasUpdates
        BY <1>3 DEF Settles
    <2> QED BY <2>1, <2>2 DEF NotUpdatedAreSame
<1> QED BY <1>2, <1>4, <1>5

\* A rollback shows the write transaction what readers see.
LEMMA RollbackArrays ==
    ASSUME IInv, NEW a \in Arrays, RollbackInMemoryIfNecessary(a)
    PROVE  /\ \A b \in Arrays : ReadArray(b)' = ReadArray(b)
           /\ \A b \in Arrays \ {a} : WriteArray(b)' = WriteArray(b)
           /\ WriteArray(a)' = ReadArray(a)
<1>1. IInv' /\ \A b \in Arrays : ReadArray(b)' = ReadArray(b)
    BY RollbackStep
<1>2. Settles(a)
    BY RollbackEffect
<1>3. ASSUME NEW b \in Arrays \ {a} PROVE WriteArray(b)' = WriteArray(b)
    <2>1. /\ SameLayout(b) /\ SameAPs(b)
          /\ \A p \in PageIdxs : Content'[p] = IF Owns(a, p) THEN filePages[p] ELSE Content[p]
        BY <1>2, SettlesIs
    <2>2. ASSUME NEW k \in APsOf(b) PROVE AP(b, k) \in PageIdxs /\ ~Owns(a, AP(b, k))
        <3>1. AP(b, k) \in PageIdxs /\ Owns(b, AP(b, k))
            BY LayoutIs, PageRanges DEF IInv, Owns
        <3> QED BY <3>1, OwnerIsUnique
    <2>3. KeepsAPs(b)
        BY <2>1, <2>2 DEF KeepsAPs, SameAPs
    <2>4. Content'[b] = Content[b]
        BY <2>1 DEF SameLayout
    <2> QED BY <1>1, <2>3, <2>4, KeepsElements
<1>4. WriteArray(a)' = ReadArray(a)'
    <2>1. NotUpdatedAreSame'
        BY <1>1, ReadsWrites, PTL
    <2>2. ~arrays'[a].hasUpdates
        BY <1>2 DEF Settles
    <2> QED BY <2>1, <2>2 DEF NotUpdatedAreSame
<1> QED BY <1>1, <1>3, <1>4

-----------------------------------------------------------------------------
(* The theorems.                                                            *)

\* A step that changes nothing keeps the invariant: what it says is said of what is the same.
LEMMA StutterStep ==
    ASSUME IInv, UNCHANGED diskArrayVars
    PROVE  IInv'
<1>1. KeepsPages /\ UNCHANGED <<arrayPhase, filePages, todo>>
    BY DEF diskArrayVars, KeepsPages
<1>2. Content' = Content
    BY <1>1, ContentIsKept DEF KeepsPages
<1>3. /\ \A b \in Arrays : /\ SameObject(b) /\ SameLayout(b) /\ SameAPs(b)
                           /\ WriteHeader(b)' = WriteHeader(b) /\ NewAPs(b)' = NewAPs(b)
      /\ \A p : HasVersion(p)' <=> HasVersion(p)
      /\ LayoutInv' /\ SeparateInv'
    BY <1>1, <1>2, KeepsPagesIs
<1>4. TypeInv'
    BY <1>1 DEF IInv, TypeInv, KeepsPages, IsFile, IsObject
<1>5. SizesInv'
    BY <1>1 DEF IInv, SizesInv, KeepsPages, NumPagesOf, HasVersion
<1>6. VersionsInv'
    <2>1. Updating' = Updating /\ Updating \subseteq Arrays
        BY <1>1 DEF IInv, TypeInv, Updating
    <2>2. \A b \in Arrays : arrays[b].hasUpdates <=> arrays'[b].hasUpdates
        BY Zenon DEF diskArrayVars
    <2>3. \A b \in Arrays : arrays'[b].hasUpdates => b \in Updating'
        BY <2>1, <2>2 DEF IInv, VersionsInv
    <2>4. /\ Updating \subseteq Updating' /\ Updating' \subseteq Arrays
          /\ UNCHANGED numFilePages
        BY <1>1, <2>1 DEF KeepsPages
    <2> QED BY <1>3, <2>2, <2>3, <2>4, SameVersions
<1>7. PrefixInv'
    <2> SUFFICES ASSUME NEW b \in Arrays
                 PROVE  /\ arrays'[b].header.numElements \in 0..Content'[b].numElements
                        /\ arrays'[b].header.numAPs = NumAPsFor(arrays'[b].header.numElements)
                        /\ Len(arrays'[b].pips) = NumPIPsFor(arrays'[b].header.numElements)
                        /\ \A k \in 0..(arrays'[b].header.numAPs - 1) :
                              ReadAPPage(b, k)' = AP(b, k)'
        BY DEF PrefixInv, NumAPsFor, NumPIPsFor
    <2>1. \A k : ReadAPPage(b, k)' = ReadAPPage(b, k)
        BY <1>3, SameObjectIs
    <2>2. \A k \in 0..(arrays[b].header.numAPs - 1) : AP(b, k)' = AP(b, k)
        BY <1>3, PrefixIs DEF SameAPs
    <2> QED BY <1>2, <1>3, <2>1, <2>2 DEF IInv, PrefixInv, SameObject
<1>8. MemoryInv'
    <2>1. \A p : IsCurrent(p)' <=> IsCurrent(p)
        BY <1>1, <1>3 DEF IsCurrent
    <2> SUFFICES ASSUME NEW b \in Arrays
                 PROVE  /\ IsCurrent(b)' => arrays'[b].header = filePages'[b]
                        /\ \A j \in 1..Len(arrays'[b].pips) :
                              IsCurrent(OldPIPs(b)[j])' =>
                                  arrays'[b].pips[j].contents = filePages'[OldPIPs(b)'[j]]
                        /\ \A k \in 0..(arrays'[b].header.numAPs - 1) :
                              IsCurrent(AP(b, k))' =>
                                  arrays'[b].inMemArrayPages[k + 1] = filePages'[AP(b, k)'].cells
        BY DEF MemoryInv
    <2>2. IsCurrent(b)' => arrays'[b].header = filePages'[b]
        BY <1>1, <1>3, <2>1 DEF IInv, MemoryInv, SameObject
    <2>3. OldPIPs(b)' = OldPIPs(b)
        BY <1>3, SameObjectIs
    <2>4. ASSUME NEW j \in 1..Len(arrays'[b].pips), IsCurrent(OldPIPs(b)[j])'
          PROVE  arrays'[b].pips[j].contents = filePages'[OldPIPs(b)'[j]]
        <3>1. j \in 1..Len(arrays[b].pips)
            BY <1>3 DEF SameObject
        <3>2. PICK p : p = OldPIPs(b)[j]
            OBVIOUS
        <3>3. IsCurrent(p)'
            BY <2>3, <2>4, <3>2 DEF IsCurrent, HasVersion
        <3>4. arrays[b].pips[j].contents = filePages[p]
            BY <2>1, <3>1, <3>2, <3>3 DEF IInv, MemoryInv
        <3> QED BY <1>1, <1>3, <2>3, <3>2, <3>4 DEF SameObject
    <2>5. ASSUME NEW k \in 0..(arrays'[b].header.numAPs - 1), IsCurrent(AP(b, k))'
          PROVE  arrays'[b].inMemArrayPages[k + 1] = filePages'[AP(b, k)'].cells
        <3>1. k \in 0..(arrays[b].header.numAPs - 1)
            BY <1>3 DEF SameObject
        <3>2. PICK p : p = AP(b, k)
            OBVIOUS
        <3>3. AP(b, k)' = p
            BY <1>3, <3>1, <3>2, PrefixIs DEF SameAPs
        <3>4. IsCurrent(p)'
            BY <2>5, <3>3 DEF IsCurrent, HasVersion
        <3>5. arrays[b].inMemArrayPages[k + 1] = filePages[p].cells
            BY <2>1, <3>1, <3>2, <3>4 DEF IInv, MemoryInv
        <3> QED BY <1>1, <1>3, <3>3, <3>5 DEF SameObject
    <2> QED BY <2>2, <2>4, <2>5
<1>9. OldPagesInv'
    <2>1. CASE arrayPhase = "checkpointing"
        BY <1>1, <2>1 DEF OldPagesInv
    <2>2. CASE arrayPhase # "checkpointing"
        <3>1. UNCHANGED filePages /\ arrayPhase' # "checkpointing"
            BY <1>1, <2>2
        <3>2. \A b \in Arrays : /\ SameObject(b) /\ SamePIPs(b) /\ SameAPs(b)
                                /\ Content'[b].numElements = Content[b].numElements
            BY <1>2, <1>3, SameObjectIs
        <3> QED BY <2>2, <3>1, <3>2, SameOldPages
    <2> QED BY <2>1, <2>2
<1>10. CheckpointInv' /\ RollbackInv'
    BY <1>1, <1>2, <1>3 DEF IInv, CheckpointInv, RollbackInv, HasNewPages, KeepsPages
<1> QED BY <1>3, <1>4, <1>5, <1>6, <1>7, <1>8, <1>9, <1>10 DEF IInv

\* The invariant holds of the state after loading.
LEMMA InitIsInv ==
    DiskArrayInit => IInv
BY InitIsClean, CleanIsInv

\* Every step of an array, or of a restart, keeps it.
LEMMA StepKeepsInv ==
    ASSUME ~RollbackShared, IInv, [DiskArrayNext]_diskArrayVars
    PROVE  IInv'
<1>1. CASE BeginArrayTransaction
    BY <1>1, BeginStep
<1>2. ASSUME NEW a \in Arrays, NEW i \in 0..MaxElements, Update(a, i) PROVE IInv'
    BY <1>2, UpdateStep
<1>3. ASSUME NEW a \in Arrays, PushBack(a) PROVE IInv'
    BY <1>3, PushBackStep
<1>4. CASE StartArrayCheckpoint
    BY <1>4, StartCheckpointStep
<1>5. CASE StartArrayRollback
    BY <1>5, StartRollbackStep
<1>6. ASSUME NEW a \in Arrays, CheckpointInMemoryIfNecessary(a) PROVE IInv'
    BY <1>6, CheckpointStep
<1>7. ASSUME NEW a \in Arrays, RollbackInMemoryIfNecessary(a) PROVE IInv'
    BY <1>7, RollbackStep
<1>8. CASE Reopen
    BY <1>8, ReopenStep
<1>9. CASE UNCHANGED diskArrayVars
    BY <1>9, StutterStep
<1> QED
    BY <1>1, <1>2, <1>3, <1>4, <1>5, <1>6, <1>7, <1>8, <1>9 DEF DiskArrayNext

\* BaseDiskArray::update, pushBack and checkpointOrRollbackInMemoryIfNecessaryNoLock keep the
\* arrays on separate pages, their PIPs linked, memory equal to the file and every page version
\* known to its array, in any order, and so does a restart, as long as no rollback is shared.
THEOREM DiskArrayInvariance ==
    ASSUME ~RollbackShared
    PROVE  DiskArraySpec => []IInv
<1>1. DiskArrayInit => IInv
    BY InitIsInv
<1>2. IInv /\ [DiskArrayNext]_diskArrayVars => IInv'
    BY StepKeepsInv
<1> QED BY <1>1, <1>2, PTL DEF DiskArraySpec

\* Between transactions nothing is left of the last one: no page has a version, the file handle
\* has as many pages as the file and memory has what a restart would load, whatever updates,
\* appends, checkpoints, rollbacks (not shared) and restarts came before.
THEOREM NothingIsLeftBetweenTransactions ==
    ASSUME ~RollbackShared
    PROVE  DiskArraySpec => []NothingIsLeft
<1>1. IInv => NothingIsLeft
    BY CleanSlate
<1> QED BY <1>1, DiskArrayInvariance, PTL

\* After loading, readers and the write transaction see the same arrays.
LEMMA InitImplements ==
    ASSUME DiskArrayInit
    PROVE  Abstract!ArrayInit
<1>1. IsClean
    BY InitIsClean
<1>2. PICK n, pips : IsLayout(filePages, n, pips)
    BY <1>1 DEF IsClean
<1>3. \A a \in Arrays : WriteArray(a) = ReadArray(a)
    BY <1>1, <1>2, CleanReads DEF SeesFile
<1>4. [a \in Arrays |-> WriteArray(a)] = [a \in Arrays |-> ReadArray(a)]
    BY <1>3
<1> QED BY <1>4 DEF Abstract!ArrayInit

\* Every step is one of the transactional arrays, or not visible in what they hold.
LEMMA StepImplements ==
    ASSUME ~RollbackShared, IInv, [DiskArrayNext]_diskArrayVars
    PROVE  [Abstract!ArrayNext]_(Abstract!arrayVars)
<1> DEFINE R == [a \in Arrays |-> ReadArray(a)]
           W == [a \in Arrays |-> WriteArray(a)]
<1>1. ASSUME \A b \in Arrays : ReadArray(b)' = ReadArray(b) /\ WriteArray(b)' = WriteArray(b)
      PROVE  UNCHANGED Abstract!arrayVars
    <2>1. R' = R /\ W' = W
        BY <1>1
    <2> QED BY <2>1 DEF Abstract!arrayVars
<1>2. ASSUME KeepsPages, Content' = Content PROVE UNCHANGED Abstract!arrayVars
    BY <1>1, <1>2, KeepsPagesIs
<1>3. CASE BeginArrayTransaction
    <2>1. KeepsPages /\ Content' = Content
        BY <1>3, ContentIsKept DEF BeginArrayTransaction, KeepsPages
    <2> QED BY <1>2, <2>1
<1>4. CASE StartArrayCheckpoint
    <2>1. KeepsPages /\ Content' = Content
        BY <1>4, StartCheckpointStep DEF StartArrayCheckpoint, KeepsPages
    <2> QED BY <1>2, <2>1
<1>5. CASE StartArrayRollback
    <2>1. KeepsPages /\ Content' = Content
        BY <1>5, ContentIsKept DEF StartArrayRollback, KeepsPages
    <2> QED BY <1>2, <2>1
<1>6. ASSUME NEW a \in Arrays, \A b \in Arrays : ReadArray(b)' = ReadArray(b),
             \A b \in Arrays \ {a} : WriteArray(b)' = WriteArray(b), Replaces(a) \/ Appends(a)
      PROVE  Abstract!ArrayNext
    <2>1. R' = R
        BY <1>6
    <2>2. \A b \in Arrays \ {a} : W'[b] = W[b]
        BY <1>6
    <2>3. W[a] = WriteArray(a) /\ W'[a] = WriteArray(a)'
        OBVIOUS
    <2> HIDE DEF R, W
    <2>4. \/ /\ Len(W'[a]) = Len(W[a]) + 1
             /\ SubSeq(W'[a], 1, Len(W[a])) = W[a]
          \/ /\ Len(W'[a]) = Len(W[a])
             /\ \E i \in 1..Len(W[a]) : \A j \in 1..Len(W[a]) \ {i} : W'[a][j] = W[a][j]
        BY <1>6, <2>3, Zenon DEF Replaces, Appends
    <2>5. Abstract!ArrayWrite(a)
        BY <2>1, <2>2, <2>4, Zenon DEF Abstract!ArrayWrite, R, W
    <2> QED BY <2>5 DEF Abstract!ArrayNext
<1>7. ASSUME NEW a \in Arrays, NEW i \in 0..MaxElements, Update(a, i)
      PROVE  Abstract!ArrayNext \/ UNCHANGED Abstract!arrayVars
    <2>1. /\ \A b \in Arrays : ReadArray(b)' = ReadArray(b)
          /\ \A b \in Arrays \ {a} : WriteArray(b)' = WriteArray(b)
          /\ WriteArray(a)' = WriteArray(a) \/ Replaces(a)
        BY <1>7, UpdateArrays
    <2> QED BY <1>1, <1>6, <2>1
<1>8. ASSUME NEW a \in Arrays, PushBack(a) PROVE Abstract!ArrayNext
    BY <1>6, <1>8, PushBackArrays
<1>9. ASSUME NEW a \in Arrays, CheckpointInMemoryIfNecessary(a) PROVE Abstract!ArrayNext
    <2>1. /\ \A b \in Arrays : WriteArray(b)' = WriteArray(b)
          /\ \A b \in Arrays \ {a} : ReadArray(b)' = ReadArray(b)
          /\ ReadArray(a)' = WriteArray(a)
        BY <1>9, CheckpointArrays
    <2>2. W' = W /\ R' = [R EXCEPT ![a] = W[a]]
        BY <2>1
    <2>3. Abstract!ArrayCheckpoint(a)
        BY <2>2 DEF Abstract!ArrayCheckpoint
    <2> QED BY <2>3 DEF Abstract!ArrayNext
<1>10. ASSUME NEW a \in Arrays, RollbackInMemoryIfNecessary(a) PROVE Abstract!ArrayNext
    <2>1. /\ \A b \in Arrays : ReadArray(b)' = ReadArray(b)
          /\ \A b \in Arrays \ {a} : WriteArray(b)' = WriteArray(b)
          /\ WriteArray(a)' = ReadArray(a)
        BY <1>10, RollbackArrays
    <2>2. R' = R /\ W' = [W EXCEPT ![a] = R[a]]
        BY <2>1
    <2>3. Abstract!ArrayRollback(a)
        BY <2>2 DEF Abstract!ArrayRollback
    <2> QED BY <2>3 DEF Abstract!ArrayNext
<1>11. CASE Reopen
    <2>1. CASE arrayPhase = "checkpointing"
        <3>1. R' = W /\ W' = W
            BY <1>11, <2>1, ReopenStep
        <3>2. Abstract!ArrayRecover
            BY <3>1 DEF Abstract!ArrayRecover
        <3> QED BY <3>2 DEF Abstract!ArrayNext
    <2>2. CASE arrayPhase # "checkpointing"
        <3>1. R' = R /\ W' = R
            BY <1>11, <2>2, ReopenStep
        <3>2. Abstract!ArrayRecover
            BY <3>1 DEF Abstract!ArrayRecover
        <3> QED BY <3>2 DEF Abstract!ArrayNext
    <2> QED BY <2>1, <2>2
<1>12. CASE UNCHANGED diskArrayVars
    <2>1. KeepsPages /\ Content' = Content
        BY <1>12, ContentIsKept DEF diskArrayVars, KeepsPages
    <2> QED BY <1>2, <2>1
<1> QED
    BY <1>3, <1>4, <1>5, <1>7, <1>8, <1>9, <1>10, <1>11, <1>12 DEF DiskArrayNext

\* The disk arrays of a file are transactional arrays: readers see the arrays of the last commit
\* while the write transaction sees its updates and appends; the checkpoint of an array shows
\* them to readers and its rollback takes them back, and a restart keeps what was committed.
THEOREM DiskArraysAreTransactional ==
    ASSUME ~RollbackShared
    PROVE  DiskArraySpec => IsATransactionalArray
<1>1. DiskArrayInit => Abstract!ArrayInit
    BY InitImplements
<1>2. IInv /\ [DiskArrayNext]_diskArrayVars => [Abstract!ArrayNext]_(Abstract!arrayVars)
    BY StepImplements
<1> QED
    BY <1>1, <1>2, DiskArrayInvariance, PTL
       DEF DiskArraySpec, IsATransactionalArray, Abstract!ArraySpec

=============================================================================
