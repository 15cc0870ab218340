----------------------------- MODULE DiskArray ------------------------------
(***************************************************************************)
(* InMemDiskArray: arrays that share a file.  The header page of an array  *)
(* has a fixed index and leads to a chain of page index pages (PIPs),      *)
(* which hold the indices of the array pages (APs).  Headers, PIPs and APs *)
(* are also kept in memory, for readers; the write transaction updates WAL *)
(* versions of the pages, and additions take new pages of the file.  A     *)
(* checkpoint or rollback brings memory, versions and file together again, *)
(* array by array, in the order of their headers.                          *)
(*                                                                         *)
(* Transaction t writes the value t; elements of a page that were never    *)
(* written are Garbage.                                                    *)
(***************************************************************************)
EXTENDS Integers, Sequences, FiniteSets, FiniteSetsExt

CONSTANTS
    NumArrays,              \* arrays in the file; array a has its header in page a
    ElementsPerPage,        \* elements of an AP
    PageIdxsPerPIP,         \* NUM_PAGE_IDXS_PER_PIP
    InitialElements,        \* the numbers of elements of an array after loading
    MaxElements,            \* bound on the elements of an array
    MaxPages,               \* bound on the pages of the file
    MaxArrayTransactions,   \* bound on write transactions
    RollbackShared          \* a rollback may find new pages of several arrays or several
                            \* new PIPs

ASSUME DiskArrayAssumption ==
    /\ NumArrays \in Nat \ {0}
    /\ ElementsPerPage \in Nat \ {0}
    /\ PageIdxsPerPIP \in Nat \ {0}
    /\ InitialElements \subseteq 0..MaxElements
    /\ {MaxElements, MaxPages} \subseteq Nat
    /\ RollbackShared \in BOOLEAN

VARIABLES
    arrayPhase,     \* "idle", "active", "checkpointing", "rollingBack" or "crashed"
    numFilePages,   \* of the file handle: pages from it on have no lock
    walVersion,     \* the WAL version of each page, or NoVersion
    filePages,      \* the file on disk
    arrays,         \* the objects in memory
    todo,           \* arrays that the checkpoint or rollback has not reached
    arrayTransaction

diskArrayVars == <<arrayPhase, numFilePages, walVersion, filePages, arrays, todo,
                   arrayTransaction>>

Arrays == 0..(NumArrays - 1)
Garbage == -2
NullPage == -1          \* NULL_PAGE_IDX
NumAPsFor(n) == (n + ElementsPerPage - 1) \div ElementsPerPage
NumPIPsFor(n) == (NumAPsFor(n) + PageIdxsPerPIP - 1) \div PageIdxsPerPIP
PageIdxs == 0..(MaxPages - 1)

\* A page, as a header (next is firstPIPPageIdx), as a PIP (next and cells) or as an AP.
GarbagePage == [next |-> Garbage, numElements |-> Garbage, numAPs |-> Garbage,
                cells |-> [i \in 0..(Max({ElementsPerPage, PageIdxsPerPIP}) - 1) |-> Garbage]]
NoVersion == [GarbagePage EXCEPT !.next = NullPage - 2]

-----------------------------------------------------------------------------
(* Loading: InMemDiskArrayBuilder and the constructor from a file.          *)

\* addNewArrayPageForBuilding takes a page for the AP and, when the last PIP is full, a
\* page for a new PIP after it; first is the first page that is free for the array.
BuiltAPPage(first, k) == first + k + (k + PageIdxsPerPIP - 1) \div PageIdxsPerPIP
BuiltPIPPage(first, j) == BuiltAPPage(first, j * PageIdxsPerPIP) + 1

\* saveToDisk of an array with n elements of value 1: what it writes to page p.
SaveToDisk(a, first, n, p) ==
    IF p = a
    THEN [GarbagePage EXCEPT !.next = IF n = 0 THEN NullPage ELSE BuiltPIPPage(first, 0),
                             !.numElements = n, !.numAPs = NumAPsFor(n)]
    ELSE IF \E j \in 0..(NumPIPsFor(n) - 1) : p = BuiltPIPPage(first, j)
    THEN LET j == CHOOSE i \in 0..(NumPIPsFor(n) - 1) : p = BuiltPIPPage(first, i)
         IN  [GarbagePage EXCEPT
                !.next = IF j + 1 < NumPIPsFor(n) THEN BuiltPIPPage(first, j + 1) ELSE NullPage,
                !.cells = [i \in DOMAIN @ |->
                              LET k == j * PageIdxsPerPIP + i
                              IN  IF k < NumAPsFor(n) THEN BuiltAPPage(first, k) ELSE Garbage]]
    ELSE LET k == CHOOSE i \in 0..(NumAPsFor(n) - 1) : p = BuiltAPPage(first, i)
         IN  [GarbagePage EXCEPT !.cells = [i \in DOMAIN @ |->
                 IF k * ElementsPerPage + i < n THEN 1 ELSE Garbage]]

\* The arrays are built one after the other: array a takes the pages from first[a] on.
BuiltPages(n) == NumAPsFor(n) + NumPIPsFor(n)
AreBuiltInOrder(size, first) ==
    /\ first[0] = NumArrays
    /\ \A a \in Arrays : first[a + 1] = first[a] + BuiltPages(size[a])
TakesPage(first, a, p) == p = a \/ p \in first[a]..(first[a + 1] - 1)
BuiltFile(size, first) ==
    [p \in PageIdxs |->
        IF \E a \in Arrays : TakesPage(first, a, p)
        THEN LET a == CHOOSE b \in Arrays : TakesPage(first, b, p)
             IN  SaveToDisk(a, first[a], size[a], p)
        ELSE NoVersion]

\* The chain of PIPs of an array in the file.
PIPChain(file, a) ==
    LET chain[n \in 1..MaxPages] ==
            IF n = 1 THEN file[a].next ELSE file[chain[n - 1]].next
    IN  chain
PIPPagesOnDisk(file, a) ==
    LET chain == PIPChain(file, a)
        length == CHOOSE n \in 0..(MaxPages - 1) :
                      /\ chain[n + 1] = NullPage
                      /\ \A m \in 1..n : chain[m] # NullPage
    IN  [i \in 1..length |-> chain[i]]

\* The constructor reads the header, the PIPs of the chain and the APs.
LoadedArray(file, a) ==
    LET pages == PIPPagesOnDisk(file, a)
        AP(k) == file[pages[1 + k \div PageIdxsPerPIP]].cells[k % PageIdxsPerPIP]
    IN  [header |-> file[a],
         pips |-> [i \in 1..Len(pages) |-> [page |-> pages[i], contents |-> file[pages[i]]]],
         updatedPIPs |-> {},
         insertedPIPs |-> <<>>,
         inMemArrayPages |-> [k \in 1..file[a].numAPs |-> file[AP(k - 1)].cells],
         hasUpdates |-> FALSE]

NumPagesOf(file) == Cardinality({p \in PageIdxs : file[p] # NoVersion})

DiskArrayInit ==
    /\ arrayPhase = "idle"
    /\ \E size \in [Arrays -> InitialElements], first \in [0..NumArrays -> 0..MaxPages] :
          AreBuiltInOrder(size, first) /\ filePages = BuiltFile(size, first)
    /\ numFilePages = NumPagesOf(filePages)
    /\ walVersion = [p \in PageIdxs |-> NoVersion]
    /\ arrays = [a \in Arrays |-> LoadedArray(filePages, a)]
    /\ todo = {}
    /\ arrayTransaction = 1

-----------------------------------------------------------------------------
(* The two versions.                                                        *)

HasVersion(p) == walVersion[p] # NoVersion
WriteHeader(a) == IF HasVersion(a) THEN walVersion[a] ELSE arrays[a].header

\* getUpdatedPageIdxOfPipNoLock and hasPIPUpdatesNoLock, for the PIP with index j.
PIPPage(a, j) ==
    LET A == arrays[a]
    IN  IF j < Len(A.pips) THEN A.pips[j + 1].page ELSE A.insertedPIPs[j - Len(A.pips) + 1]

HasPIPUpdates(a, j) == j >= Len(arrays[a].pips) \/ j \in arrays[a].updatedPIPs

\* getAPPageIdxNoLock of the AP with index k.
ReadAPPage(a, k) ==
    arrays[a].pips[1 + k \div PageIdxsPerPIP].contents.cells[k % PageIdxsPerPIP]
WriteAPPage(a, k) ==
    LET j == k \div PageIdxsPerPIP
    IN  IF HasPIPUpdates(a, j) THEN walVersion[PIPPage(a, j)].cells[k % PageIdxsPerPIP]
        ELSE ReadAPPage(a, k)

\* get and getNumElements of a READ_ONLY and of the WRITE transaction, as whole arrays.
ReadArray(a) ==
    [i \in 1..arrays[a].header.numElements |->
        arrays[a].inMemArrayPages[1 + (i - 1) \div ElementsPerPage][(i - 1) % ElementsPerPage]]
WriteArray(a) ==
    [i \in 1..WriteHeader(a).numElements |->
        LET k == (i - 1) \div ElementsPerPage
            p == WriteAPPage(a, k)
        IN  IF HasVersion(p) THEN walVersion[p].cells[(i - 1) % ElementsPerPage]
            ELSE arrays[a].inMemArrayPages[k + 1][(i - 1) % ElementsPerPage]]

-----------------------------------------------------------------------------
(* Updates of the write transaction.                                        *)

\* createWALVersionIfNecessaryAndPinPage: an inserted page is not read from the file.
VersionToUpdate(p, isInsert) ==
    IF HasVersion(p) THEN walVersion[p] ELSE IF isInsert THEN GarbagePage ELSE filePages[p]

BeginArrayTransaction ==
    /\ arrayPhase = "idle"
    /\ arrayTransaction < MaxArrayTransactions
    /\ arrayPhase' = "active"
    /\ arrayTransaction' = arrayTransaction + 1
    /\ UNCHANGED <<numFilePages, walVersion, filePages, arrays, todo>>

\* update: an index out of range throws, but the array counts as updated.
Update(a, i) ==
    /\ arrayPhase = "active"
    /\ arrays' = [arrays EXCEPT ![a].hasUpdates = TRUE]
    /\ IF i >= WriteHeader(a).numElements
       THEN UNCHANGED walVersion
       ELSE LET p == WriteAPPage(a, i \div ElementsPerPage)
            IN  walVersion' = [walVersion EXCEPT ![p] =
                   [VersionToUpdate(p, FALSE) EXCEPT
                        !.cells[i % ElementsPerPage] = arrayTransaction]]
    /\ UNCHANGED <<arrayPhase, numFilePages, filePages, todo, arrayTransaction>>

\* Mutant: the PIP before a new one is not remembered as updated.
UpdatedPIPs_ForgetsPrevious(a, j, isNewPIP) ==
    IF ~isNewPIP /\ j < Len(arrays[a].pips) THEN {j} ELSE {}
\* The PIPs of the last checkpoint that an addition to PIP j changes: the PIP itself, or the
\* one before a new PIP, which is linked to it (setNextPIPPageIDxOfPIPNoLock).
UpdatedPIPs(a, j, isNewPIP) ==
    {k \in {IF isNewPIP THEN j - 1 ELSE j} : k \in 0..(Len(arrays[a].pips) - 1)}

\* getAPPageIdxAndAddAPToPIPIfNecessaryForWriteTrxNoLock for the AP with index k: a new AP
\* takes a page, and a full last PIP makes a second one necessary.
GetAPPageIdxAndAddAPToPIPIfNecessary(a, header, k) ==
    LET j == k \div PageIdxsPerPIP
        isNewAP == k >= header.numAPs
        isNewPIP == isNewAP /\ j >= Len(arrays[a].pips) + Len(arrays[a].insertedPIPs)
    IN  [isNewAP |-> isNewAP,
         isNewPIP |-> isNewPIP,
         apPage |-> IF isNewAP THEN numFilePages ELSE WriteAPPage(a, k),
         pipPage |-> IF isNewPIP THEN numFilePages + 1 ELSE PIPPage(a, j)]

\* pushBack; a new PIP is linked to the PIP before it or to the header.
PushBack(a) ==
    LET header == VersionToUpdate(a, FALSE)
        i == header.numElements
        k == i \div ElementsPerPage
        j == k \div PageIdxsPerPIP
        target == GetAPPageIdxAndAddAPToPIPIfNecessary(a, header, k)
        isNewAP == target.isNewAP
        isNewPIP == target.isNewPIP
        apPage == target.apPage
        pipPage == target.pipPage
    IN  /\ arrayPhase = "active"
        /\ i < MaxElements
        /\ numFilePages' = numFilePages + (IF isNewAP THEN 1 ELSE 0) + (IF isNewPIP THEN 1 ELSE 0)
        /\ numFilePages' <= MaxPages
        /\ arrays' = [arrays EXCEPT
                ![a].hasUpdates = TRUE,
                ![a].updatedPIPs = IF isNewAP THEN @ \cup UpdatedPIPs(a, j, isNewPIP) ELSE @,
                ![a].insertedPIPs = IF isNewPIP THEN Append(@, pipPage) ELSE @]
        /\ walVersion' = [p \in PageIdxs |->
                IF p = a
                THEN [header EXCEPT !.numElements = i + 1,
                                    !.numAPs = IF isNewAP THEN k + 1 ELSE @,
                                    !.next = IF isNewPIP /\ j = 0 THEN pipPage ELSE @]
                ELSE IF p = apPage
                THEN [VersionToUpdate(p, isNewAP) EXCEPT
                        !.cells[i % ElementsPerPage] = arrayTransaction]
                ELSE IF isNewAP /\ p = pipPage
                THEN [VersionToUpdate(p, isNewPIP) EXCEPT
                        !.next = IF isNewPIP THEN NullPage ELSE @,
                        !.cells[k % PageIdxsPerPIP] = apPage]
                ELSE IF isNewPIP /\ j > 0 /\ p = PIPPage(a, j - 1)
                THEN [VersionToUpdate(p, FALSE) EXCEPT !.next = pipPage]
                ELSE walVersion[p]]
        /\ UNCHANGED <<arrayPhase, filePages, todo, arrayTransaction>>

-----------------------------------------------------------------------------
(* Checkpoint and rollback.                                                 *)

\* The WAL replayer copies the versions to the file before the arrays are told.
ReplayPages(file) == [p \in PageIdxs |-> IF HasVersion(p) THEN walVersion[p] ELSE file[p]]

StartArrayCheckpoint ==
    /\ arrayPhase = "active"
    /\ filePages' = ReplayPages(filePages)
    /\ arrayPhase' = "checkpointing"
    /\ todo' = Arrays
    /\ UNCHANGED <<numFilePages, walVersion, arrays, arrayTransaction>>

NewAPs(a) == arrays[a].header.numAPs..(WriteHeader(a).numAPs - 1)
HasNewPages(a) == NewAPs(a) # {}

StartArrayRollback ==
    /\ arrayPhase = "active"
    /\ RollbackShared \/ /\ Cardinality({a \in Arrays : HasNewPages(a)}) <= 1
                         /\ \A a \in Arrays : Len(arrays[a].insertedPIPs) <= 1
    /\ arrayPhase' = "rollingBack"
    /\ todo' = Arrays
    /\ UNCHANGED <<numFilePages, walVersion, filePages, arrays, arrayTransaction>>

IsNext(a) == a \in todo /\ \A b \in todo : a <= b
EndsReplay(a) ==
    /\ todo' = todo \ {a}
    /\ arrayPhase' = IF todo = {a} THEN "idle" ELSE arrayPhase

\* The pages whose version the array knows of.
OldAPPages(a) == {ReadAPPage(a, k) : k \in 0..(arrays[a].header.numAPs - 1)}
NewAPPages(a) == {WriteAPPage(a, k) : k \in NewAPs(a)}
UpdatedPIPPages(a) == {arrays[a].pips[j + 1].page : j \in arrays[a].updatedPIPs}
InsertedPIPPages(a) == {arrays[a].insertedPIPs[i] : i \in DOMAIN arrays[a].insertedPIPs}

\* clearWALPageVersionIfNecessary keeps the version of a page beyond the end of the file.
Clear(pages, numPages) ==
    [p \in PageIdxs |-> IF p \in pages /\ p < numPages THEN NoVersion ELSE walVersion[p]]

\* A checkpoint reads the updated PIPs again and appends the inserted ones.
RefreshedPIPs(a) ==
    LET A == arrays[a]
    IN  [i \in 1..Len(A.pips) |->
            IF i - 1 \in A.updatedPIPs
            THEN [A.pips[i] EXCEPT !.contents = filePages[A.pips[i].page]] ELSE A.pips[i]]
        \o [i \in DOMAIN A.insertedPIPs |->
            [page |-> A.insertedPIPs[i], contents |-> filePages[A.insertedPIPs[i]]]]

\* Mutant: only the pages that the transaction added are read.
RefreshedAPs_AppendsOnly(a) ==
    arrays[a].inMemArrayPages
    \o [i \in 1..(WriteHeader(a).numAPs - Len(arrays[a].inMemArrayPages)) |->
           filePages[WriteAPPage(a, Len(arrays[a].inMemArrayPages) + i - 1)].cells]
\* So are the APs that have a version.
RefreshedAPs(a) ==
    LET pages == arrays[a].inMemArrayPages
    IN  [k \in 1..WriteHeader(a).numAPs |->
            IF k \notin DOMAIN pages \/ HasVersion(ReadAPPage(a, k - 1))
            THEN filePages[WriteAPPage(a, k - 1)].cells ELSE pages[k]]

CheckpointInMemoryIfNecessary(a) ==
    LET A == arrays[a]
    IN  /\ arrayPhase = "checkpointing"
        /\ IsNext(a)
        /\ EndsReplay(a)
        /\ IF ~A.hasUpdates
           THEN UNCHANGED <<arrays, walVersion>>
           ELSE /\ arrays' = [arrays EXCEPT ![a] =
                    [header |-> filePages[a],
                     pips |-> RefreshedPIPs(a),
                     updatedPIPs |-> {},
                     insertedPIPs |-> <<>>,
                     inMemArrayPages |-> RefreshedAPs(a),
                     hasUpdates |-> FALSE]]
                /\ walVersion' = Clear({a} \cup OldAPPages(a) \cup NewAPPages(a)
                                       \cup UpdatedPIPPages(a) \cup InsertedPIPPages(a),
                                       numFilePages)
        /\ UNCHANGED <<numFilePages, filePages, arrayTransaction>>

\* The index of a new AP is read from the WAL version of its PIP, whose lock must exist.
ReadsRemovedPIP(a) ==
    \E k \in NewAPs(a) : LET j == k \div PageIdxsPerPIP
                         IN  HasPIPUpdates(a, j) /\ PIPPage(a, j) >= numFilePages

\* The versions of the array are cleared, then each new PIP is removed with the pages after
\* it, so that a second new PIP keeps its version; last, the new APs are removed.  Reading a
\* removed PIP goes through a lock that is no longer there.
RollbackInMemoryIfNecessary(a) ==
    LET A == arrays[a]
        firstPIP == Min({numFilePages} \cup InsertedPIPPages(a))
    IN  /\ arrayPhase = "rollingBack"
        /\ IsNext(a)
        /\ IF ~A.hasUpdates
           THEN EndsReplay(a) /\ UNCHANGED <<arrays, walVersion, numFilePages>>
           ELSE IF ReadsRemovedPIP(a)
           THEN arrayPhase' = "crashed" /\ UNCHANGED <<arrays, walVersion, numFilePages, todo>>
           ELSE /\ EndsReplay(a)
                /\ arrays' = [arrays EXCEPT ![a].updatedPIPs = {}, ![a].insertedPIPs = <<>>,
                                            ![a].hasUpdates = FALSE]
                /\ walVersion' = Clear({a} \cup OldAPPages(a) \cup NewAPPages(a)
                                       \cup UpdatedPIPPages(a)
                                       \cup (InsertedPIPPages(a) \cap {firstPIP}), numFilePages)
                /\ numFilePages' = Min({firstPIP} \cup NewAPPages(a))
        /\ UNCHANGED <<filePages, arrayTransaction>>

\* The process stops and starts again: a transaction that was being checkpointed is replayed
\* from the WAL, any other is lost, and the arrays are loaded from the file.
Reopen ==
    /\ arrayPhase # "crashed"
    /\ filePages' = IF arrayPhase = "checkpointing" THEN ReplayPages(filePages) ELSE filePages
    /\ numFilePages' = NumPagesOf(filePages')
    /\ walVersion' = [p \in PageIdxs |-> NoVersion]
    /\ arrays' = [a \in Arrays |-> LoadedArray(filePages', a)]
    /\ arrayPhase' = "idle"
    /\ todo' = {}
    /\ UNCHANGED arrayTransaction

DiskArrayNext ==
    \/ BeginArrayTransaction
    \/ \E a \in Arrays, i \in 0..MaxElements : Update(a, i)
    \/ \E a \in Arrays : PushBack(a)
    \/ StartArrayCheckpoint
    \/ StartArrayRollback
    \/ \E a \in Arrays : \/ CheckpointInMemoryIfNecessary(a)
                         \/ RollbackInMemoryIfNecessary(a)
    \/ Reopen

DiskArraySpec == DiskArrayInit /\ [][DiskArrayNext]_diskArrayVars

-----------------------------------------------------------------------------
(* Properties.                                                              *)

Abstract == INSTANCE TransactionalArray WITH
    committed <- [a \in Arrays |-> ReadArray(a)],
    current <- [a \in Arrays |-> WriteArray(a)]

\* A disk array implements a transactional array: readers see the last checkpoint whatever
\* the write transaction does, the write transaction sees its own writes, and checkpoint,
\* rollback and restart from the file make the two agree, although memory, WAL versions and
\* file change in separate steps.
IsATransactionalArray == Abstract!ArraySpec

\* Between transactions the file handle has the pages of the arrays and no others, no page has
\* a WAL version, and memory is what a restart would load from the file: the next transaction
\* starts from a clean slate whether the last one was committed or rolled back.
NothingIsLeft ==
    arrayPhase = "idle" =>
        /\ \A p \in PageIdxs : ~HasVersion(p)
        /\ numFilePages = NumPagesOf(filePages)
        /\ \A a \in Arrays : ReadArray(a) = LET A == LoadedArray(filePages, a) IN
              [i \in 1..A.header.numElements |->
                 A.inMemArrayPages[1 + (i - 1) \div ElementsPerPage][(i - 1) % ElementsPerPage]]
=============================================================================
