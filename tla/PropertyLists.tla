--------------------------- MODULE PropertyLists ----------------------------
(***************************************************************************)
(* The unstructured property lists of a node table.  The small lists of a  *)
(* chunk of nodes lie one behind the other in the pages of the chunk; a    *)
(* list that exceeds a page has pages of its own.  A list is found through *)
(* four disk arrays: its header, the heads of the page lists of the chunks *)
(* and of the large lists, and the page lists, kept in linked groups.      *)
(*                                                                         *)
(* The write transaction collects changed lists in memory; when it commits *)
(* an iterator writes them, in the order of the nodes, and slides the      *)
(* other small lists of their chunks.  Each disk array has the two         *)
(* versions that TransactionalArray promises, and so has each list page.   *)
(***************************************************************************)
EXTENDS Integers, Sequences, SequencesExt

CONSTANTS
    ChunkSize,              \* LISTS_CHUNK_SIZE: nodes of a chunk
    ListPageSize,           \* DEFAULT_PAGE_SIZE, in bytes
    PageListGroupSize,      \* PAGE_LIST_GROUP_SIZE
    LenModulus,             \* 2 to the bits of the length in a small list's header
    LengthsAreCut,          \* whether lists fit in a page whose length does not fit in those bits
    PropertyKeys,
    PropertySizes,          \* bytes of a property of each type, its header included
    InitialNodes,           \* nodes without properties at the start
    MaxNodes,               \* bound on the nodes
    MaxListOps,             \* bound on the updates of a transaction
    MaxListTransactions     \* bound on write transactions

ASSUME PropertyListsAssumption ==
    /\ {ChunkSize, ListPageSize, PageListGroupSize, LenModulus} \subseteq Nat \ {0}
    /\ LenModulus <= ListPageSize      \* 2^11 and 4096 bytes
    /\ LengthsAreCut \in BOOLEAN
    /\ PropertySizes \subseteq Nat \ {0}
    /\ InitialNodes \in 0..MaxNodes

VARIABLES
    listPhase,          \* "idle", "active", "preparing", "prepared" or "failed"
    listArrays,         \* the disk arrays; every one a record of its two versions
    listPages,          \* the .lists file, likewise
    localUpdatedLists,  \* the lists that the write transaction changed
    iterator,           \* UnstructuredPropertyListsUpdateIterator
    committedLists,     \* history: the list of every node after the last commit
    listOps,            \* updates of the transaction
    listTransaction

propertyListVars == <<listPhase, listArrays, listPages, localUpdatedLists, iterator,
                      committedLists, listOps, listTransaction>>

NullIdx == -1           \* NULL_PAGE_IDX, NULL_CHUNK_OR_LARGE_LIST_HEAD_IDX, UINT64_MAX
UnwrittenByte == <<>>
UnwrittenPage == [i \in 0..(ListPageSize - 1) |-> UnwrittenByte]

-----------------------------------------------------------------------------
(* A list as the transaction sees it is a sequence of properties, and as    *)
(* the pages hold it the sequence of their bytes.                           *)

PropertyBytes(p) == [i \in 1..p.type |-> <<p, i>>]
ListBytes(list) == FlattenSeq([i \in DOMAIN list |-> PropertyBytes(list[i])])
HasKey(list, key) == \E i \in DOMAIN list : list[i].key = key
FirstWith(list, key) == SelectInSeq(list, LAMBDA p : p.key = key)

\* The value of an existing property is overwritten, and its type stays what it was.
WithProperty(list, key, type) ==
    IF HasKey(list, key)
    THEN [list EXCEPT ![FirstWith(list, key)].value = <<type, listTransaction>>]
    ELSE Append(list, [key |-> key, type |-> type, value |-> <<type, listTransaction>>])
WithoutProperty(list, key) ==
    IF HasKey(list, key) THEN RemoveAt(list, FirstWith(list, key)) ELSE list

-----------------------------------------------------------------------------
(* Headers and page lists; v is "read" or "write", the version looked at.   *)

\* The code keeps 11 bits of the length, whatever the length is.
SmallListHeader(csrOffset, len) == [isLarge |-> FALSE, pos |-> csrOffset, len |-> len % LenModulus]
LargeListHeader(idx) == [isLarge |-> TRUE, pos |-> idx, len |-> 0]
Header(v, n) == listArrays.headers[v][n + 1]
ChunkOf(n) == n \div ChunkSize
ChunkEnd(c) == (c + 1) * ChunkSize - 1

\* The beginning of the group with index g of a page list: getPageIdxFromAPageList and the
\* loop of findListPageIdxAndInsertListPageToPageListIfNecessary.
PageGroup(pageLists, head, g) ==
    LET group[i \in 0..g] ==
            IF i = 0 THEN head
            ELSE IF group[i - 1] = NullIdx THEN NullIdx
            ELSE pageLists[group[i - 1] + PageListGroupSize + 1]
    IN  group[g]
PageOf(v, head, idx) ==
    listArrays.pageLists[v][PageGroup(listArrays.pageLists[v], head, idx \div PageListGroupSize)
                            + (idx % PageListGroupSize) + 1]

\* getListInfo and fillUnstrPropListFromPrimaryStore: the bytes of the list of node n.
ReadList(v, n) ==
    LET header == Header(v, n)
        head == IF header.isLarge THEN listArrays.largeHeads[v][2 * header.pos + 1]
                ELSE listArrays.chunkHeads[v][ChunkOf(n) + 1]
        len == IF header.isLarge THEN listArrays.largeHeads[v][2 * header.pos + 2] ELSE header.len
        begin == IF header.isLarge THEN 0 ELSE header.pos
        Byte(o) == listPages[v][PageOf(v, head, o \div ListPageSize) + 1][o % ListPageSize]
    IN  [i \in 1..len |-> Byte(begin + i - 1)]

-----------------------------------------------------------------------------
NumHeaders(v) == Len(listArrays.headers[v])
Versions(s) == [read |-> s, write |-> s]
NoIterator == [chunk |-> NullIdx, node |-> 0, csrOffset |-> 0, bytes |-> <<>>, idx |-> 0,
               offset |-> 0, head |-> NullIdx]

PropertyListsInit ==
    /\ listPhase = "idle"
    /\ listArrays = [headers |-> Versions([i \in 1..InitialNodes |-> SmallListHeader(0, 0)]),
                     chunkHeads |-> Versions([i \in 1..((InitialNodes + ChunkSize - 1) \div ChunkSize)
                                                 |-> NullIdx]),
                     largeHeads |-> Versions(<<>>),
                     pageLists |-> Versions(<<>>)]
    /\ listPages = Versions(<<>>)
    /\ localUpdatedLists = <<>>
    /\ iterator = NoIterator
    /\ committedLists = [i \in 1..InitialNodes |-> <<>>]
    /\ listOps = 0
    /\ listTransaction = 0

BeginListTransaction ==
    /\ listPhase = "idle"
    /\ listTransaction < MaxListTransactions
    /\ listPhase' = "active"
    /\ listTransaction' = listTransaction + 1
    /\ listOps' = 0
    /\ UNCHANGED <<listArrays, listPages, localUpdatedLists, iterator, committedLists>>

UpdatedNodes == DOMAIN localUpdatedLists
NodesOfTransaction == 0..(NumHeaders("read") - 1) \cup UpdatedNodes
\* A list shorter than this modulus is kept whole by its header, and so is one beyond a page.
LengthIsKept(list) == Len(ListBytes(list)) \notin LenModulus..ListPageSize
WithLocalList(n, list) ==
    /\ LengthsAreCut \/ LengthIsKept(list)
    /\ localUpdatedLists' = [m \in UpdatedNodes \cup {n} |->
                                IF m = n THEN list ELSE localUpdatedLists[m]]
\* A list is copied into localUpdatedLists when it is first changed.
CurrentList(n) == IF n \in UpdatedNodes THEN localUpdatedLists[n] ELSE committedLists[n + 1]

ListOp ==
    /\ listPhase = "active"
    /\ listOps < MaxListOps
    /\ listOps' = listOps + 1
    /\ UNCHANGED <<listPhase, listArrays, listPages, iterator, committedLists, listTransaction>>

\* A new node is the next one, or one whose offset was freed.
SetPropertyListEmpty(n) ==
    /\ ListOp
    /\ n = 0 \/ {n - 1, n} \cap NodesOfTransaction # {}
    /\ WithLocalList(n, <<>>)

SetProperty(n, key, type) ==
    /\ ListOp
    /\ n \in NodesOfTransaction
    /\ WithLocalList(n, WithProperty(CurrentList(n), key, type))

\* A list that does not hold the key is not copied.
RemoveProperty(n, key) ==
    /\ ListOp
    /\ n \in NodesOfTransaction
    /\ HasKey(CurrentList(n), key)
    /\ WithLocalList(n, WithoutProperty(CurrentList(n), key))

-----------------------------------------------------------------------------
(* prepareCommitOrRollbackIfNecessary: the iterator visits the nodes of the *)
(* changed chunks in order.                                                 *)

PrepareCommit ==
    /\ listPhase = "active"
    /\ listPhase' = IF UpdatedNodes = {} THEN "prepared" ELSE "preparing"
    /\ iterator' = NoIterator
    /\ UNCHANGED <<listArrays, listPages, localUpdatedLists, committedLists, listOps,
                   listTransaction>>

PendingNodes == {n \in UpdatedNodes : n >= iterator.node}
NextUpdate == Min(PendingNodes)
\* seekToNodeOffsetAndSlideListsIfNecessary and doneUpdating: lists slide up to this node.
SlideEnd ==
    IF PendingNodes = {}
    THEN Min({NumHeaders("write"), ChunkEnd(iterator.chunk) + 1})
    ELSE IF ChunkOf(NextUpdate) = iterator.chunk THEN NextUpdate ELSE ChunkEnd(iterator.chunk) + 1

IteratorIsFree == listPhase = "preparing" /\ iterator.bytes = <<>>
IteratorOnly ==
    UNCHANGED <<localUpdatedLists, committedLists, listOps, listTransaction>>

SeekToChunk ==
    /\ IteratorIsFree
    /\ PendingNodes # {}
    /\ iterator.chunk # ChunkOf(NextUpdate)
    /\ iterator.chunk = NullIdx \/ iterator.node = SlideEnd
    /\ iterator' = [NoIterator EXCEPT !.chunk = ChunkOf(NextUpdate),
                                      !.node = ChunkOf(NextUpdate) * ChunkSize]
    /\ IteratorOnly /\ UNCHANGED <<listPhase, listArrays, listPages>>

NewGroup == [i \in 1..(PageListGroupSize + 1) |-> NullIdx]

\* The head of the chunk's page list; reading one beyond the end of the array throws.
\* Mutant: a chunk that does not exist yet is read as well.
ChunkHead_NoNewChunk(arrays, c) ==
    LET heads == arrays.chunkHeads.write
    IN  [throws |-> c >= Len(heads),
         heads |-> heads,
         head |-> IF c < Len(heads) THEN heads[c + 1] ELSE NullIdx]
ChunkHead(arrays, c) ==
    LET heads == arrays.chunkHeads.write
    IN  [throws |-> c > Len(heads),
         heads |-> IF c = Len(heads) THEN Append(heads, NullIdx) ELSE heads,
         head |-> IF c < Len(heads) THEN heads[c + 1] ELSE NullIdx]

\* updateSmallListAndCurCSROffset of the iterator's node: the header, and for a list that is
\* not empty the head of the chunk and its first group; the pages are written next.
UpdateSmallList(arrays, bytes) ==
    LET n == iterator.node
        withHeader == [arrays EXCEPT !.headers.write[n + 1] =
                          SmallListHeader(iterator.csrOffset, Len(bytes))]
        chunk == ChunkHead(arrays, iterator.chunk)
        isNewHead == chunk.head = NullIdx
        newHead == Len(arrays.pageLists.write)
    IN  IF bytes = <<>>
        THEN /\ listArrays' = withHeader
             /\ iterator' = [iterator EXCEPT !.node = n + 1]
             /\ UNCHANGED listPhase
        ELSE IF chunk.throws
        THEN listPhase' = "failed" /\ listArrays' = withHeader /\ UNCHANGED iterator
        ELSE /\ listArrays' = [withHeader EXCEPT
                    !.chunkHeads.write = IF isNewHead
                        THEN [chunk.heads EXCEPT ![iterator.chunk + 1] = newHead] ELSE @,
                    !.pageLists.write = IF isNewHead THEN @ \o NewGroup ELSE @]
             /\ iterator' = [iterator EXCEPT
                    !.node = n + 1,
                    !.csrOffset = @ + Len(bytes),
                    !.bytes = bytes,
                    !.idx = iterator.csrOffset \div ListPageSize,
                    !.offset = iterator.csrOffset % ListPageSize,
                    !.head = IF isNewHead THEN newHead ELSE chunk.head]
             /\ UNCHANGED listPhase

\* updateLargeList: a list that becomes large gets an index, a head and a first group.
UpdateLargeList(arrays, oldHeader, bytes) ==
    LET idx == IF oldHeader.isLarge THEN oldHeader.pos ELSE Len(arrays.largeHeads.write) \div 2
        newHead == Len(arrays.pageLists.write)
        head == IF oldHeader.isLarge THEN arrays.largeHeads.read[2 * idx + 1] ELSE newHead
    IN  /\ listArrays' =
              IF oldHeader.isLarge
              THEN [arrays EXCEPT !.largeHeads.write[2 * idx + 2] = Len(bytes)]
              ELSE [arrays EXCEPT !.headers.write[iterator.node + 1] = LargeListHeader(idx),
                                  !.largeHeads.write = @ \o <<newHead, Len(bytes)>>,
                                  !.pageLists.write = @ \o NewGroup]
        /\ iterator' = [iterator EXCEPT !.node = @ + 1, !.bytes = bytes, !.idx = 0, !.offset = 0,
                                        !.head = head]
        /\ UNCHANGED listPhase

\* Mutant: a list whose length does not change is taken to stay where it is.
NeedsToSlide_Length(oldHeader) == oldHeader.len # SmallListHeader(iterator.csrOffset, oldHeader.len).len
NeedsToSlide(oldHeader) == oldHeader # SmallListHeader(iterator.csrOffset, oldHeader.len)

\* slideListsIfNecessary, for one node: the old place is read from the read version.
SlideList ==
    LET n == iterator.node
        oldHeader == Header("read", n)
    IN  /\ IteratorIsFree
        /\ iterator.chunk # NullIdx
        /\ n < SlideEnd
        /\ IF ~oldHeader.isLarge /\ NeedsToSlide(oldHeader)
           THEN UpdateSmallList(listArrays, ReadList("read", n))
           ELSE /\ iterator' = [iterator EXCEPT !.node = n + 1,
                                    !.csrOffset = IF oldHeader.isLarge THEN @ ELSE @ + oldHeader.len]
                /\ UNCHANGED <<listPhase, listArrays>>
        /\ IteratorOnly /\ UNCHANGED listPages

UpdateList ==
    LET n == iterator.node
        bytes == ListBytes(localUpdatedLists[n])
        arrays == IF n = NumHeaders("write")
                  THEN [listArrays EXCEPT !.headers.write = Append(@, SmallListHeader(0, 0))]
                  ELSE listArrays
        oldHeader == arrays.headers.write[n + 1]
    IN  /\ IteratorIsFree
        /\ iterator.chunk # NullIdx
        /\ PendingNodes # {}
        /\ n = NextUpdate /\ iterator.chunk = ChunkOf(n)
        /\ IF oldHeader.isLarge \/ Len(bytes) > ListPageSize
           THEN UpdateLargeList(arrays, oldHeader, bytes)
           ELSE UpdateSmallList(arrays, bytes)
        /\ IteratorOnly /\ UNCHANGED listPages

NewListPage == Len(listPages.write)

\* One turn of the loop of writeListToListPages: a page of the list is found, or a new group
\* and a new page are added, and filled.  The code asserts that at most one group is missing.
WriteListPage ==
    LET pageLists == listArrays.pageLists.write
        g == iterator.idx \div PageListGroupSize
        group == PageGroup(pageLists, iterator.head, g)
        previous == IF g = 0 THEN iterator.head ELSE PageGroup(pageLists, iterator.head, g - 1)
        withGroup == IF group # NullIdx THEN pageLists
                     ELSE [pageLists EXCEPT ![previous + PageListGroupSize + 1] = Len(pageLists)]
                          \o NewGroup
        slot == (IF group # NullIdx THEN group ELSE Len(pageLists))
                + (iterator.idx % PageListGroupSize) + 1
        isNewPage == withGroup[slot] = NullIdx
        page == IF isNewPage THEN NewListPage ELSE withGroup[slot]
        pages == IF isNewPage THEN Append(listPages.write, UnwrittenPage) ELSE listPages.write
        written == Min({Len(iterator.bytes), ListPageSize - iterator.offset})
    IN  /\ listPhase = "preparing"
        /\ iterator.bytes # <<>>
        /\ IF previous = NullIdx
           THEN listPhase' = "failed" /\ UNCHANGED <<listArrays, listPages, iterator>>
           ELSE /\ listArrays' = [listArrays EXCEPT
                        !.pageLists.write = [withGroup EXCEPT ![slot] = page]]
                /\ listPages' = [listPages EXCEPT !.write = [pages EXCEPT ![page + 1] =
                        [i \in 0..(ListPageSize - 1) |->
                            IF i \in iterator.offset..(iterator.offset + written - 1)
                            THEN iterator.bytes[i - iterator.offset + 1] ELSE @[i]]]]
                /\ iterator' = [iterator EXCEPT !.idx = @ + 1, !.offset = 0,
                        !.bytes = SubSeq(@, written + 1, Len(@))]
                /\ UNCHANGED listPhase
        /\ IteratorOnly

DoneUpdating ==
    /\ IteratorIsFree
    /\ PendingNodes = {}
    /\ iterator.node >= SlideEnd
    /\ listPhase' = "prepared"
    /\ IteratorOnly /\ UNCHANGED <<listArrays, listPages, iterator>>

-----------------------------------------------------------------------------
ToVersion(v) ==
    /\ listArrays' = [a \in DOMAIN listArrays |-> Versions(listArrays[a][v])]
    /\ listPages' = Versions(listPages[v])
    /\ localUpdatedLists' = <<>>
    /\ iterator' = NoIterator
    /\ listPhase' = "idle"
    /\ UNCHANGED <<listOps, listTransaction>>

CheckpointLists ==
    /\ listPhase = "prepared"
    /\ ToVersion("write")
    /\ committedLists' = [i \in 1..(Max(NodesOfTransaction \cup {-1}) + 1) |-> CurrentList(i - 1)]

\* A transaction is rolled back at its own request, or because its commit failed: a list
\* could not be written, or the readers did not leave in time.
RollbackLists ==
    /\ listPhase \in {"active", "prepared", "failed"}
    /\ ToVersion("read")
    /\ UNCHANGED committedLists

PropertyListsNext ==
    \/ BeginListTransaction
    \/ \E n \in 0..(MaxNodes - 1) :
          \/ SetPropertyListEmpty(n)
          \/ \E key \in PropertyKeys : \/ RemoveProperty(n, key)
                                       \/ \E type \in PropertySizes : SetProperty(n, key, type)
    \/ PrepareCommit
    \/ SeekToChunk \/ SlideList \/ UpdateList \/ WriteListPage \/ DoneUpdating
    \/ CheckpointLists
    \/ RollbackLists

PropertyListsSpec == PropertyListsInit /\ [][PropertyListsNext]_propertyListVars

-----------------------------------------------------------------------------
(* Properties.                                                              *)

\* A reader finds the properties of every node as the last committed transaction left them,
\* however often lists were slid, became large or lost their properties, and while the lists
\* of the next transaction are written to other versions of the same pages.
ReadersSeeCommittedLists ==
    \A n \in 0..(NumHeaders("read") - 1) : ReadList("read", n) = ListBytes(committedLists[n + 1])

\* The lists of a transaction can be written when it commits: the chunk of a list has a head, or
\* is the next one to get it, and the page that a list is written to is on a group of its page
\* list, or on the first group that is missing, as lists_update_iterator.cpp asserts.
ListsCanBeWritten == listPhase # "failed"
=============================================================================
