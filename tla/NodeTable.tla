----------------------------- MODULE NodeTable ------------------------------
(***************************************************************************)
(* The nodes of a node table: which offsets exist, which of them are       *)
(* deleted, how an insertion reuses them, and how the workers of a query   *)
(* scan them in morsels.  The statistics have a read version and, once the *)
(* write transaction touches them, a write version; relationship tables    *)
(* keep their counts the same way.  A commit logs one record for the two   *)
(* kinds of statistics, and the checkpoint or rollback acts on it.         *)
(***************************************************************************)
EXTENDS Integers, FiniteSets, FiniteSetsExt

CONSTANTS
    MorselSize,         \* DEFAULT_VECTOR_CAPACITY
    OffsetModulus,      \* 2 to the width of an offset
    CopiedNodes,        \* numbers of nodes of the CSV file of a COPY
    NodesWithEdges,     \* offsets that have a relationship of an adjacency column
    ScanWorkers,        \* the threads that run a scan
    MaxMaskers,         \* bound on the semi maskers of a scan
    MaxOffset,          \* bound on node offsets
    MaxNodeTransactions,    \* bound on write transactions
    MayInsertIntoEmpty, \* a CREATE may meet a table that no COPY has filled
    ErasedKeyIsKept     \* the allocator leaves the key of an erased entry of a map as it was

ASSUME NodeTableAssumption ==
    /\ {MorselSize, OffsetModulus} \subseteq Nat \ {0}
    /\ MaxOffset \in 0..(OffsetModulus - 4)   \* offsets stay clear of UINT64_MAX
    /\ CopiedNodes \subseteq 1..(MaxOffset + 1)
    /\ ScanWorkers # {}                       \* a pipeline has at least one thread
    /\ {MayInsertIntoEmpty, ErasedKeyIsKept} \subseteq BOOLEAN

VARIABLES
    nodeStatistics,     \* NodesStatisticsAndDeletedIDs: the two versions and the file
    relStatistics,      \* RelsStatistics, likewise: the number of relationships
    nodeTx,             \* the state of the write transaction
    liveNodes,          \* history: the nodes that exist, by version
    scan                \* ScanNodeIDSharedState, its workers and what they returned

nodeTableVars == <<nodeStatistics, relStatistics, nodeTx, liveNodes, scan>>

U64Max == OffsetModulus - 1     \* UINT64_MAX
NoWriteVersion == [numTuples |-> 0, hasDeleted |-> <<>>, deleted |-> {}]
NoRels == -1                    \* no write version of the relationship counts
Offsets == 0..MaxOffset
MorselOf(n) == n \div MorselSize
NumMorsels(maxNodeOffset) ==
    IF maxNodeOffset = U64Max THEN 0 ELSE MorselOf(maxNodeOffset) + 1

-----------------------------------------------------------------------------
(* The statistics of the table.  hasDeleted is a vector of Booleans by      *)
(* morsel; a morsel past its end reads as anything.                         *)

MaxNodeOffset(table) ==
    IF table.numTuples = U64Max THEN U64Max ELSE (table.numTuples - 1) % OffsetModulus
DeletedIn(table, morsel) == {n \in table.deleted : MorselOf(n) = morsel}
HasDeletedValues(table, morsel) ==
    IF morsel + 1 \in DOMAIN table.hasDeleted THEN {table.hasDeleted[morsel + 1]} ELSE BOOLEAN
WithFlag(table, morsel, flag) ==
    [i \in DOMAIN table.hasDeleted |-> IF i = morsel + 1 THEN flag ELSE table.hasDeleted[i]]

\* The constructor, which a start runs on what the file holds.
LoadedTable(maxNodeOffset, deleted) ==
    [numTuples |-> IF maxNodeOffset = U64Max THEN U64Max ELSE maxNodeOffset + 1,
     hasDeleted |-> [i \in 1..NumMorsels(maxNodeOffset) |->
                        \E n \in deleted : MorselOf(n) = i - 1],
     deleted |-> deleted]
EmptyTable == LoadedTable(U64Max, {})

\* The version that the write transaction works on: a copy is made when it is first needed.
WriteVersion ==
    IF nodeStatistics.write = NoWriteVersion THEN nodeStatistics.read ELSE nodeStatistics.write
Version(type) == IF type = "write" THEN WriteVersion ELSE nodeStatistics.read
WithWrite(table) == nodeStatistics' = [nodeStatistics EXCEPT !.write = table]

NoScan == [type |-> "none"]
NoRange == <<>>
EmptyRange == <<0, 0>>      \* a worker that gets it is done
NodeTableInit ==
    /\ nodeStatistics = [read |-> EmptyTable, write |-> NoWriteVersion, file |-> EmptyTable]
    /\ relStatistics = [read |-> 0, write |-> NoRels, file |-> 0]
    /\ nodeTx = [phase |-> "idle", number |-> 0]
    /\ liveNodes = [read |-> {}, write |-> {}]
    /\ scan = NoScan

-----------------------------------------------------------------------------
(* Statements of the write transaction.  A scan of a statement is separated *)
(* from its updates by an accumulation.                                     *)

BeginNodeTransaction ==
    /\ nodeTx.phase = "idle"
    /\ nodeTx.number < MaxNodeTransactions
    /\ nodeTx' = [phase |-> "active", number |-> nodeTx.number + 1]
    /\ UNCHANGED <<nodeStatistics, relStatistics, liveNodes, scan>>

Updating == nodeTx.phase = "active" /\ scan.type # "write"

\* Mutant: the last deleted offset of the table is reused, but its morsel is taken to be clean.
ReusedOffset_Forgets(table, n, key) ==
    [table EXCEPT !.deleted = @ \ {n}, !.hasDeleted = WithFlag(table, MorselOf(n), FALSE)]
\* The entry of a morsel without deleted offsets is erased from the map, and its key, the morsel
\* whose flag is cleared, is then read from the erased entry.
ReusedOffset(table, n, key) ==
    [table EXCEPT !.deleted = @ \ {n},
        !.hasDeleted = IF DeletedIn(table, MorselOf(n)) = {n}
                       THEN WithFlag(table, key, FALSE) ELSE @]
ErasedKeys(n) == IF ErasedKeyIsKept THEN {MorselOf(n)} ELSE 0..(MorselOf(MaxOffset) + 1)

AddNode ==
    LET table == WriteVersion
        first == MorselOf(Min(table.deleted))
        reused == Max(DeletedIn(table, first))
        grown == [table EXCEPT !.numTuples = (@ + 1) % OffsetModulus]
        IsAdded(n) == liveNodes' = [liveNodes EXCEPT !.write = @ \cup {n}]
    IN  /\ Updating
        /\ MayInsertIntoEmpty \/ table.numTuples # U64Max
        /\ \/ /\ table.deleted = {}
              /\ MaxNodeOffset(grown) \in Offsets \cup {U64Max}
              /\ WithWrite(grown) /\ IsAdded(MaxNodeOffset(grown))
           \/ /\ table.deleted # {}
              /\ \E key \in ErasedKeys(reused) : WithWrite(ReusedOffset(table, reused, key))
              /\ IsAdded(reused)
        /\ UNCHANGED <<relStatistics, nodeTx, scan>>

\* A deletion of a node that is past the end, deleted or has edges throws, and so does one
\* that finds the flag of its morsel set and no set of deleted offsets.
DeleteNode(n) ==
    LET table == WriteVersion
        morsel == MorselOf(n)
        maxNodeOffset == MaxNodeOffset(table)
    IN  /\ Updating
        /\ \E flag \in HasDeletedValues(table, morsel) :
              LET throws == \/ maxNodeOffset = U64Max \/ n > maxNodeOffset
                            \/ n \in table.deleted \cup NodesWithEdges
                            \/ (flag /\ DeletedIn(table, morsel) = {})
              IN  /\ WithWrite(IF throws THEN table
                               ELSE [table EXCEPT !.deleted = @ \cup {n},
                                        !.hasDeleted = WithFlag(table, morsel, TRUE)])
                  /\ nodeTx' = [nodeTx EXCEPT !.phase = IF throws THEN "failed" ELSE @]
                  /\ liveNodes' = IF throws THEN liveNodes
                                  ELSE [liveNodes EXCEPT !.write = @ \ {n}]
        /\ UNCHANGED <<relStatistics, scan>>

\* COPY of a CSV file into the empty table: setMaxNodeOffsetForTable.
CopyNodes(count) ==
    /\ Updating
    /\ liveNodes.write = {} /\ WriteVersion = EmptyTable
    /\ WithWrite(LoadedTable(count - 1, {}))
    /\ liveNodes' = [liveNodes EXCEPT !.write = 0..(count - 1)]
    /\ UNCHANGED <<relStatistics, nodeTx, scan>>

\* COPY of a relationship table: a transaction of its own.
CopyRels ==
    /\ Updating
    /\ nodeStatistics.write = NoWriteVersion
    /\ relStatistics' = [relStatistics EXCEPT !.write = relStatistics.read + 1]
    /\ UNCHANGED <<nodeStatistics, nodeTx, liveNodes, scan>>

-----------------------------------------------------------------------------
(* The end of the transaction.  Of the two kinds of statistics the record   *)
(* names the node tables if they have a write version.                      *)

\* The checkpoint replays the record when the readers have left.
CommitNodes ==
    /\ nodeTx.phase = "active"
    /\ scan.type = "none"
    /\ IF nodeStatistics.write # NoWriteVersion
       THEN /\ nodeStatistics' = [read |-> nodeStatistics.write, write |-> NoWriteVersion,
                                  file |-> nodeStatistics.write]
            /\ UNCHANGED relStatistics
       ELSE IF relStatistics.write # NoRels
       THEN /\ relStatistics' = [read |-> relStatistics.write, write |-> NoRels,
                                 file |-> relStatistics.write]
            /\ UNCHANGED nodeStatistics
       ELSE UNCHANGED <<nodeStatistics, relStatistics>>
    /\ liveNodes' = [liveNodes EXCEPT !.read = liveNodes.write]
    /\ nodeTx' = [nodeTx EXCEPT !.phase = "idle"]
    /\ UNCHANGED scan

\* A rollback asked for, after a statement that failed, or after a commit that did not get
\* the readers out.  It drops the write version of the node tables only.
RollbackNodes ==
    /\ nodeTx.phase \in {"active", "failed"}
    /\ scan.type # "write"
    /\ nodeStatistics' = [nodeStatistics EXCEPT !.write = NoWriteVersion]
    /\ liveNodes' = [liveNodes EXCEPT !.write = liveNodes.read]
    /\ nodeTx' = [nodeTx EXCEPT !.phase = "idle"]
    /\ UNCHANGED <<relStatistics, scan>>

\* The process ends and starts again from the files.
RestartNodes ==
    /\ scan.type = "none"
    /\ nodeStatistics' = [nodeStatistics EXCEPT
            !.read = LoadedTable(MaxNodeOffset(nodeStatistics.file), nodeStatistics.file.deleted),
            !.write = NoWriteVersion]
    /\ relStatistics' = [relStatistics EXCEPT !.read = relStatistics.file, !.write = NoRels]
    /\ liveNodes' = [liveNodes EXCEPT !.write = liveNodes.read]
    /\ nodeTx' = [nodeTx EXCEPT !.phase = "idle"]
    /\ UNCHANGED scan

-----------------------------------------------------------------------------
(* A scan.  The pipelines of its semi maskers run first, one after the      *)
(* other; the workers then take ranges under the mutex of the shared state. *)

\* A masker raises the nodes it selects, and their morsels, from its index to the next one.
NodeIsMasked(maskers, n) == \A s \in maskers : n \in s
MorselIsMasked(maskers, morsel) == \A s \in maskers : \E n \in s : MorselOf(n) = morsel

StartScan(type, maskers) ==
    /\ scan.type = "none"
    /\ type = "write" => nodeTx.phase = "active"
    /\ Cardinality(maskers) <= MaxMaskers
    /\ scan' = [type |-> type,
                maskers |-> maskers,
                maxNodeOffset |-> MaxNodeOffset(Version(type)),
                next |-> 0,
                range |-> [w \in ScanWorkers |-> NoRange],
                returned |-> [n \in Offsets |-> 0],
                underflow |-> FALSE]
    /\ UNCHANGED <<nodeStatistics, relStatistics, nodeTx, liveNodes>>

\* With a mask the next range starts at a morsel that is masked, or at the last node.
FirstOffset ==
    LET morsels == {m \in MorselOf(scan.next)..MorselOf(scan.maxNodeOffset) :
                       MorselIsMasked(scan.maskers, m)}
        morsel == IF morsels = {} THEN MorselOf(scan.maxNodeOffset) + 1 ELSE Min(morsels)
    IN  IF scan.maskers = {} THEN scan.next ELSE Min({morsel * MorselSize, scan.maxNodeOffset})

RangeEnd(start) == Min({start + MorselSize, scan.maxNodeOffset + 1})

GetNextRangeToRead(w) ==
    /\ scan.type # "none"
    /\ scan.range[w] = NoRange
    /\ IF scan.next > scan.maxNodeOffset \/ scan.maxNodeOffset = U64Max
       THEN scan' = [scan EXCEPT !.range[w] = EmptyRange]
       ELSE scan' = [scan EXCEPT !.range[w] = <<FirstOffset, RangeEnd(FirstOffset)>>,
                                 !.next = RangeEnd(FirstOffset)]
    /\ UNCHANGED <<nodeStatistics, relStatistics, nodeTx, liveNodes>>

\* setDeletedNodeOffsetsForMorsel: the positions that are not deleted, as many of them as the
\* range has nodes less the deleted nodes of the morsel; a mask is overwritten.
SelectedSize(table, start, end) == end - start - Cardinality(DeletedIn(table, MorselOf(start)))
NotDeleted(table, start, end) ==
    LET positions == {p \in 0..(end - start - 1) :
                         p + MorselOf(start) * MorselSize \notin table.deleted}
    IN  {start + p : p \in {q \in positions :
                Cardinality({r \in positions : r < q}) < SelectedSize(table, start, end)}}
Unmasked(start, end) == {n \in start..(end - 1) : NodeIsMasked(scan.maskers, n)}

\* The selection of a range; its nodes go to the next operator.
ReturnNodes(w) ==
    LET start == scan.range[w][1]
        end == scan.range[w][2]
        table == Version(scan.type)
    IN  /\ scan.type # "none"
        /\ scan.range[w] \notin {NoRange, EmptyRange}
        /\ \E flag \in HasDeletedValues(table, MorselOf(start)) :
              LET selected == IF flag THEN NotDeleted(table, start, end) ELSE Unmasked(start, end)
              IN  scan' = [scan EXCEPT
                      !.range[w] = NoRange,
                      !.returned = [n \in Offsets |-> @[n] + IF n \in selected THEN 1 ELSE 0],
                      !.underflow = @ \/ (flag /\ SelectedSize(table, start, end) < 0)]
        /\ UNCHANGED <<nodeStatistics, relStatistics, nodeTx, liveNodes>>

ScanIsDone == scan.type # "none" /\ \A w \in ScanWorkers : scan.range[w] = EmptyRange
EndScan ==
    /\ ScanIsDone
    /\ scan' = NoScan
    /\ UNCHANGED <<nodeStatistics, relStatistics, nodeTx, liveNodes>>

NodeTableNext ==
    \/ BeginNodeTransaction
    \/ AddNode
    \/ \E n \in Offsets : DeleteNode(n)
    \/ \E count \in CopiedNodes : CopyNodes(count)
    \/ CopyRels
    \/ CommitNodes
    \/ RollbackNodes
    \/ RestartNodes
    \/ \E type \in {"read", "write"} :
          \/ StartScan(type, {})
          \/ \E s1 \in SUBSET liveNodes[type] :
                \E s2 \in SUBSET liveNodes[type] : StartScan(type, {s1, s2})
    \/ \E w \in ScanWorkers : GetNextRangeToRead(w) \/ ReturnNodes(w)
    \/ EndScan

NodeTableSpec == NodeTableInit /\ [][NodeTableNext]_nodeTableVars

-----------------------------------------------------------------------------
(* Properties.                                                              *)

\* A finished scan has returned every node of its transaction's version that its maskers let
\* through, no node that does not exist, and none twice, whatever morsels its workers took and
\* whatever the write transaction did meanwhile; unless a mask made it start a range inside a
\* morsel with more deleted nodes than the range has nodes.
ScansReturnLiveNodes ==
    ScanIsDone /\ ~scan.underflow =>
        /\ \A n \in Offsets : /\ scan.returned[n] <= 1
                              /\ scan.returned[n] = 1 => n \in liveNodes[scan.type]
        /\ \A n \in liveNodes[scan.type] :
              NodeIsMasked(scan.maskers, n) => n \in Offsets /\ scan.returned[n] = 1
=============================================================================
