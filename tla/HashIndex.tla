----------------------------- MODULE HashIndex ------------------------------
(***************************************************************************)
(* The hash index on primary keys.  An InMemHashIndex is built by the      *)
(* threads of a COPY, with a mutex for every primary slot, and flushed; a  *)
(* HashIndex reads the file, and keeps the changes of a write transaction  *)
(* in two further InMemHashIndexes, its local storage.  Linear hashing:    *)
(* 2^level + nextSplit primary slots, each with a chain of overflow slots. *)
(* Slots lie in pages that are found through two mappers.                  *)
(*                                                                         *)
(* A key is a number and its own hash.  Strings that are keys have one     *)
(* length.                                                                 *)
(***************************************************************************)
EXTENDS Integers, Sequences, FiniteSets, SequencesExt

CONSTANTS
    SlotCapacity,           \* SLOT_CAPACITY
    SlotsPerPage,           \* numSlotsPerPage
    MapperCapacity,         \* page indices in a mapper page
    CopyThreads,            \* threads that append the keys of a COPY
    IndexKeys,              \* keys, as naturals
    NumRows,                \* rows of the CSV file; one append each
    MaxLocalOps,            \* bound on the updates of the write transaction
    StringKeys,             \* the keys are strings and not integers
    DeletedKeysReturn       \* a transaction inserts keys again that it deleted from the file,
                            \* and deletes keys that it does not find

ASSUME HashIndexAssumption ==
    /\ {SlotCapacity, SlotsPerPage, MapperCapacity} \subseteq Nat \ {0}
    /\ IndexKeys \subseteq Nat
    /\ {NumRows, MaxLocalOps} \subseteq Nat
    /\ {StringKeys, DeletedKeysReturn} \subseteq BOOLEAN

VARIABLES
    indexPhase,     \* "reserve", "build" or "open"
    building,       \* the InMemHashIndex of the COPY
    slotMutex,      \* the thread that holds the mutex of each primary slot, or NoThread
    appender,       \* the append that each thread is in
    rowsTaken,
    persistent,     \* the file: its pages, with the index header in page 0
    localInsertion, localDeletion,  \* HashIndexLocalStorage
    keyOffsets,     \* history: the offset of each key, for readers and for the writer
    localOps

hashIndexVars == <<indexPhase, building, slotMutex, appender, rowsTaken, persistent,
                   localInsertion, localDeletion, keyOffsets, localOps>>

NoEntry == <<>>
NoKey == -1
NoThread == 0
EntryPositions == 0..(SlotCapacity - 1)
EmptySlot == [entries |-> [i \in EntryPositions |-> NoEntry], next |-> 0]
SlotPage == [i \in 0..(SlotsPerPage - 1) |-> EmptySlot]
HeaderPage == <<"header">>

NumEntriesIn(slot) == Cardinality({i \in EntryPositions : slot.entries[i] # NoEntry})
IsFull(slot) == NumEntriesIn(slot) = SlotCapacity
FreePosition(slot) ==
    CHOOSE i \in EntryPositions :
        slot.entries[i] = NoEntry /\ \A j \in 0..(i - 1) : slot.entries[j] # NoEntry
WithEntry(slot, entry) == [slot EXCEPT !.entries[FreePosition(slot)] = entry]

-----------------------------------------------------------------------------
(* Slots.  A slot is named by its array, "pSlots" or "oSlots", and its ID.  *)

\* getPageCursorForSlotWithoutLock and getSlot.
PageOfSlot(index, slot) == index[slot[1]].mapper[1 + slot[2] \div SlotsPerPage]
SlotAt(index, slot) == index.pages[1 + PageOfSlot(index, slot)][slot[2] % SlotsPerPage]
WithSlot(index, slot, contents) ==
    [index EXCEPT !.pages[1 + PageOfSlot(index, slot)][slot[2] % SlotsPerPage] = contents]

AddNewPages(index, array, n) ==
    [index EXCEPT ![array].mapper = @ \o [i \in 1..n |-> Len(index.pages) + i - 1],
                  !.pages = @ \o [i \in 1..n |-> SlotPage]]

\* allocateSlotWithoutLock; the ID of the new slot is the old nextSlotId.
AllocateSlot(index, array) ==
    LET grown == IF index[array].nextSlotId % SlotsPerPage = 0 THEN AddNewPages(index, array, 1)
                 ELSE index
    IN  [grown EXCEPT ![array].nextSlotId = @ + 1]

\* The constructor: two primary slots, and the first overflow slot is never used.
NewIndex ==
    LET empty == [level |-> 1, nextSplit |-> 0, numEntries |-> 0, pages |-> <<HeaderPage>>,
                  pSlots |-> [mapper |-> <<>>, nextSlotId |-> 0],
                  oSlots |-> [mapper |-> <<>>, nextSlotId |-> 0]]
        primary == [AddNewPages(empty, "pSlots", 1) EXCEPT !.pSlots.nextSlotId = 2]
    IN  AllocateSlot(primary, "oSlots")

PrimarySlotID(level, nextSplit, hash) ==
    IF hash % 2^level < nextSplit THEN hash % 2^(level + 1) ELSE hash % 2^level
PrimarySlot(index, key) == <<"pSlots", PrimarySlotID(index.level, index.nextSplit, key)>>

\* The primary slot and the overflow slots after it.
Chain(index, first) ==
    LET slot[n \in 0..index.oSlots.nextSlotId] ==
            IF n = 0 THEN first ELSE <<"oSlots", SlotAt(index, slot[n - 1]).next>>
        length == CHOOSE n \in 0..index.oSlots.nextSlotId :
                      /\ SlotAt(index, slot[n]).next = 0
                      /\ \A m \in 0..(n - 1) : SlotAt(index, slot[m]).next # 0
    IN  [i \in 1..(length + 1) |-> slot[i - 1]]

\* findMatchedEntryInSlotWithoutLock and lookupOrExistsInSlotWithoutLock.
Matches(slot, key) ==
    {i \in EntryPositions : slot.entries[i] # NoEntry /\ slot.entries[i][1] = key}
FirstMatch(slot, key) ==
    CHOOSE i \in Matches(slot, key) : \A j \in Matches(slot, key) : i <= j

-----------------------------------------------------------------------------
(* Operations of an InMemHashIndex.                                         *)

\* lookupInternalWithoutLock and lookupInPersistentIndex: an offset or NoKey.
Lookup(index, key) ==
    LET chain == Chain(index, PrimarySlot(index, key))
        found == {n \in 1..Len(chain) : Matches(SlotAt(index, chain[n]), key) # {}}
        first == CHOOSE n \in found : \A m \in found : n <= m
        slot == SlotAt(index, chain[first])
    IN  IF found = {} THEN NoKey ELSE slot.entries[FirstMatch(slot, key)][2]

\* numRequiredEntries: 1.5 times the entries.
RequiredEntries(n) == (3 * n + 1) \div 2

\* bulkReserve; nextSplit is unsigned, here below zero when fewer than two slots are required.
BulkReserve(index, n) ==
    LET slots == (RequiredEntries(index.numEntries + n) + SlotCapacity - 1) \div SlotCapacity
        level == CHOOSE l \in index.level..(index.level + slots) :
                     /\ 2^(l + 1) >= slots
                     /\ \A m \in index.level..(l - 1) : 2^(m + 1) < slots
        pages == (slots + SlotsPerPage - 1) \div SlotsPerPage
    IN  [AddNewPages(index, "pSlots", pages) EXCEPT
            !.level = level,
            !.nextSplit = IF slots >= 2^level THEN slots - 2^level ELSE 2^level,
            !.pSlots.nextSlotId = slots]

\* The loop of appendInternal stops at the first slot that has the key or has room, or at the
\* last slot of the chain.
AppendTarget(index, key) ==
    LET chain == Chain(index, PrimarySlot(index, key))
        Stops(n) == Matches(SlotAt(index, chain[n]), key) # {} \/ ~IsFull(SlotAt(index, chain[n]))
        stops == {n \in 1..Len(chain) : Stops(n)} \cup {Len(chain)}
    IN  chain[CHOOSE n \in stops : \A m \in stops : n <= m]

\* insertToSlotWithoutLock and copyEntryToSlotWithoutLock: a full slot gets a new next slot.
InsertToSlot(index, slot, entry) ==
    LET contents == SlotAt(index, slot)
        new == <<"oSlots", index.oSlots.nextSlotId>>
        linked == WithSlot(AllocateSlot(index, "oSlots"), slot, [contents EXCEPT !.next = new[2]])
    IN  IF IsFull(contents) THEN WithSlot(linked, new, WithEntry(SlotAt(linked, new), entry))
        ELSE WithSlot(index, slot, WithEntry(contents, entry))
CopyEntryToSlot(index, first, entry) ==
    LET chain == Chain(index, first)
        stops == {n \in 1..Len(chain) : ~IsFull(SlotAt(index, chain[n]))} \cup {Len(chain)}
    IN  InsertToSlot(index, chain[CHOOSE n \in stops : \A m \in stops : n <= m], entry)

\* The hash function given the bytes of a stored entry: those of an integer key are the key,
\* those of a string begin with its length, and read as a string they are the length alone.
HashOfEntry(entry) == IF StringKeys THEN 0 ELSE entry[1]

\* rehashSlotsWithoutLock: each slot of the chain is emptied and its entries are copied to the
\* chain that the higher level gives them.
RehashSlots(index) ==
    LET Rehash(idx, slot) ==
            LET entries == SelectSeq([i \in 1..SlotCapacity |-> SlotAt(idx, slot).entries[i - 1]],
                                     LAMBDA e : e # NoEntry)
            IN  FoldLeft(LAMBDA x, e :
                            CopyEntryToSlot(x, <<"pSlots", HashOfEntry(e) % 2^(index.level + 1)>>, e),
                         WithSlot(idx, slot, EmptySlot), entries)
    IN  FoldLeft(Rehash, index, Chain(index, <<"pSlots", index.nextSplit>>))

IncrementNextSplit(index) ==
    IF index.nextSplit < 2^index.level - 1 THEN [index EXCEPT !.nextSplit = @ + 1]
    ELSE [index EXCEPT !.level = @ + 1, !.nextSplit = 0]
\* Mutant: the entries of the slot are not distributed.
SplitSlot_KeepsEntries(index) == IncrementNextSplit(AllocateSlot(index, "pSlots"))
SplitSlot(index) == IncrementNextSplit(RehashSlots(AllocateSlot(index, "pSlots")))

MustSplit(index) ==
    RequiredEntries(index.numEntries + 1) > index.pSlots.nextSlotId * SlotCapacity
\* One more entry requires at most two more slots.
SplitIfNecessary(index) ==
    LET split[n \in 0..2] ==
            IF n = 0 THEN index ELSE IF MustSplit(split[n - 1]) THEN SplitSlot(split[n - 1])
            ELSE split[n - 1]
    IN  split[2]

\* appendInternal and deleteInternal of one thread.
Append1(index, key, offset) ==
    LET ready == SplitIfNecessary(index)
        target == AppendTarget(ready, key)
    IN  IF Matches(SlotAt(ready, target), key) # {} THEN ready
        ELSE [InsertToSlot(ready, target, <<key, offset>>) EXCEPT !.numEntries = @ + 1]
Delete1(index, key) ==
    LET chain == Chain(index, PrimarySlot(index, key))
        found == {n \in 1..Len(chain) : Matches(SlotAt(index, chain[n]), key) # {}}
        target == chain[CHOOSE n \in found : \A m \in found : n <= m]
        slot == SlotAt(index, target)
    IN  IF found = {} THEN index
        ELSE [WithSlot(index, target, [slot EXCEPT !.entries[FirstMatch(slot, key)] = NoEntry])
                 EXCEPT !.numEntries = @ - 1]

-----------------------------------------------------------------------------
(* Building.                                                                *)

Idle == [pc |-> "idle", key |-> NoKey, offset |-> 0, slot |-> <<>>, target |-> <<>>]
Primaries == 0..(2 * NumRows + 2)

HashIndexInit ==
    /\ indexPhase = "reserve"
    /\ building = NewIndex
    /\ slotMutex = [s \in Primaries |-> NoThread]
    /\ appender = [t \in CopyThreads |-> Idle]
    /\ rowsTaken = 0
    /\ persistent = <<>>
    /\ localInsertion = NewIndex
    /\ localDeletion = NewIndex
    /\ keyOffsets = [type \in {"read", "write"} |-> [k \in IndexKeys |-> NoKey]]
    /\ localOps = 0

Reserve ==
    /\ indexPhase = "reserve"
    /\ building' = BulkReserve(building, NumRows)
    /\ indexPhase' = "build"
    /\ UNCHANGED <<slotMutex, appender, rowsTaken, persistent, localInsertion, localDeletion,
                   keyOffsets, localOps>>

\* A thread takes a row with key k: the primary slot, then its mutex.  There is room for every
\* row, so nothing is split.
StartAppend(t, k) ==
    /\ indexPhase = "build"
    /\ appender[t].pc = "idle"
    /\ rowsTaken < NumRows
    /\ rowsTaken' = rowsTaken + 1
    /\ appender' = [appender EXCEPT ![t] =
            [Idle EXCEPT !.pc = "lock", !.key = k, !.offset = rowsTaken,
                         !.slot = PrimarySlot(building, k)]]
    /\ UNCHANGED <<indexPhase, building, slotMutex, persistent, localInsertion, localDeletion,
                   keyOffsets, localOps>>

\* Mutant: the mutex is not waited for.
MutexIsFree_Always(s) == TRUE
MutexIsFree(s) == slotMutex[s] = NoThread
LockSlot(t) ==
    /\ appender[t].pc = "lock"
    /\ MutexIsFree(appender[t].slot[2])
    /\ slotMutex' = [slotMutex EXCEPT ![appender[t].slot[2]] = t]
    /\ appender' = [appender EXCEPT ![t].pc = "walk"]
    /\ UNCHANGED <<indexPhase, building, rowsTaken, persistent, localInsertion, localDeletion,
                   keyOffsets, localOps>>

\* The walk along the chain; a key that exists ends the append, and the COPY fails for it.
Walk(t) ==
    LET a == appender[t]
        target == AppendTarget(building, a.key)
    IN  /\ a.pc = "walk"
        /\ IF Matches(SlotAt(building, target), a.key) # {}
           THEN /\ appender' = [appender EXCEPT ![t] = Idle]
                /\ slotMutex' = [slotMutex EXCEPT ![a.slot[2]] = NoThread]
           ELSE /\ appender' = [appender EXCEPT ![t].pc = "insert", ![t].target = target]
                /\ UNCHANGED slotMutex
        /\ UNCHANGED <<indexPhase, building, rowsTaken, persistent, localInsertion,
                       localDeletion, keyOffsets, localOps>>

InsertAndUnlock(t) ==
    LET a == appender[t]
    IN  /\ a.pc = "insert"
        /\ building' = [InsertToSlot(building, a.target, <<a.key, a.offset>>)
                           EXCEPT !.numEntries = @ + 1]
        /\ slotMutex' = [slotMutex EXCEPT ![a.slot[2]] = NoThread]
        /\ appender' = [appender EXCEPT ![t] = Idle]
        /\ keyOffsets' = [type \in {"read", "write"} |->
                             [keyOffsets[type] EXCEPT ![a.key] = a.offset]]
        /\ UNCHANGED <<indexPhase, rowsTaken, persistent, localInsertion, localDeletion, localOps>>

-----------------------------------------------------------------------------
(* The file.                                                                *)

\* writeLogicalToPhysicalMapper: the mapper in a list of pages from page first on, each with
\* the index of the next one or NoKey.
MapperPages(mapper, first) ==
    LET n == (Len(mapper) + MapperCapacity - 1) \div MapperCapacity
    IN  [i \in 1..n |->
            [elements |-> SubSeq(mapper, (i - 1) * MapperCapacity + 1,
                                 IF i < n THEN i * MapperCapacity ELSE Len(mapper)),
             next |-> IF i < n THEN first + i ELSE NoKey]]
FlushedFile(index) ==
    LET firstP == Len(index.pages)
        withP == index.pages \o MapperPages(index.pSlots.mapper, firstP)
        firstO == Len(withP)
        all == withP \o MapperPages(index.oSlots.mapper, firstO)
    IN  [all EXCEPT ![1] = [level |-> index.level, nextSplit |-> index.nextSplit,
                            pMapper |-> firstP, oMapper |-> firstO]]

\* readPageMapper, and the index as initializeFileAndHeader sets it up.
ReadPageMapper(file, first) ==
    LET read[n \in 0..Len(file)] ==
            IF n = 0 THEN [page |-> first, mapper |-> <<>>]
            ELSE IF read[n - 1].page = NoKey THEN read[n - 1]
            ELSE LET page == file[1 + read[n - 1].page]
                 IN  [page |-> page.next, mapper |-> read[n - 1].mapper \o page.elements]
    IN  read[Len(file)].mapper
OpenedIndex(file) ==
    [level |-> file[1].level, nextSplit |-> file[1].nextSplit, pages |-> file,
     pSlots |-> [mapper |-> ReadPageMapper(file, file[1].pMapper)],
     oSlots |-> [mapper |-> ReadPageMapper(file, file[1].oMapper), nextSlotId |-> Len(file) * SlotsPerPage]]

Flush ==
    /\ indexPhase = "build"
    /\ rowsTaken = NumRows
    /\ \A t \in CopyThreads : appender[t].pc = "idle"
    /\ persistent' = FlushedFile(building)
    /\ building' = NewIndex
    /\ indexPhase' = "open"
    /\ UNCHANGED <<slotMutex, appender, rowsTaken, localInsertion, localDeletion, keyOffsets, localOps>>

-----------------------------------------------------------------------------
(* The write transaction.  Nothing brings its changes to the file.          *)

LocalState(key) ==
    IF Lookup(localDeletion, key) # NoKey THEN "deleted"
    ELSE IF Lookup(localInsertion, key) # NoKey THEN "found" ELSE "not_exist"
ReaderLookup(key) == Lookup(OpenedIndex(persistent), key)
WriterLookup(key) ==
    CASE LocalState(key) = "found" -> Lookup(localInsertion, key)
      [] LocalState(key) = "deleted" -> NoKey
      [] OTHER -> ReaderLookup(key)

LocalUpdate ==
    /\ indexPhase = "open"
    /\ localOps < MaxLocalOps
    /\ localOps' = localOps + 1
    /\ UNCHANGED <<indexPhase, building, slotMutex, appender, rowsTaken, persistent>>

\* insertInternal and HashIndexLocalStorage::insert, with the result of the append.
InsertKey(key) ==
    LET offset == NumRows + localOps
        appended == Append1(localInsertion, key, offset)
        refused == \/ LocalState(key) = "found"
                   \/ LocalState(key) = "not_exist" /\ ReaderLookup(key) # NoKey
    IN  /\ LocalUpdate
        /\ DeletedKeysReturn \/ LocalState(key) # "deleted"
        /\ IF refused THEN UNCHANGED <<localInsertion, localDeletion, keyOffsets>>
           ELSE /\ localDeletion' = Delete1(localDeletion, key)
                /\ localInsertion' = appended
                /\ keyOffsets' = IF appended.numEntries = localInsertion.numEntries THEN keyOffsets
                                 ELSE [keyOffsets EXCEPT !.write[key] = offset]

\* deleteInternal and HashIndexLocalStorage::deleteKey: whether the key exists is not looked up.
DeleteKey(key) ==
    LET deleted == Delete1(localInsertion, key)
    IN  /\ LocalUpdate
        /\ DeletedKeysReturn \/ WriterLookup(key) # NoKey
        /\ localInsertion' = deleted
        /\ localDeletion' = IF deleted.numEntries < localInsertion.numEntries THEN localDeletion
                            ELSE Append1(localDeletion, key, NumRows + MaxLocalOps)
        /\ keyOffsets' = [keyOffsets EXCEPT !.write[key] = NoKey]

HashIndexNext ==
    \/ Reserve
    \/ \E t \in CopyThreads : \/ \E k \in IndexKeys : StartAppend(t, k)
                              \/ LockSlot(t)
                              \/ Walk(t)
                              \/ InsertAndUnlock(t)
    \/ Flush
    \/ \E k \in IndexKeys : InsertKey(k) \/ DeleteKey(k)

HashIndexSpec == HashIndexInit /\ [][HashIndexNext]_hashIndexVars

-----------------------------------------------------------------------------
(* Properties.                                                              *)

\* A key has one node: of the rows with the same key that several threads append, one is taken,
\* and the index, while it is built and when it is read back from its file, leads to that one.
KeysLeadToTheirNode ==
    \A k \in IndexKeys :
        /\ indexPhase = "build" => Lookup(building, k) = keyOffsets.read[k]
        /\ indexPhase = "build" =>
              Cardinality({<<p, s, i>> \in (2..Len(building.pages)) \X (0..(SlotsPerPage - 1)) \X EntryPositions :
                              LET entry == building.pages[p][s].entries[i]
                              IN  entry # NoEntry /\ entry[1] = k}) <= 1
        /\ indexPhase = "open" => ReaderLookup(k) = keyOffsets.read[k]

\* The write transaction finds the keys that it inserted or that were there and not the ones
\* that it deleted last, whatever the slots of the local storage went through: overflow, holes,
\* splits.  Fails for strings, which a split moves to a slot where nobody looks for them, and
\* for a key of the file that is deleted, inserted and deleted again, which returns.
WriterSeesItsKeys ==
    indexPhase = "open" => \A k \in IndexKeys : WriterLookup(k) = keyOffsets.write[k]
=============================================================================
