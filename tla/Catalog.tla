------------------------------ MODULE Catalog -------------------------------
(***************************************************************************)
(* DDL and COPY statements: CREATE NODE TABLE, CREATE REL, DROP TABLE and  *)
(* COPY FROM, each in a write transaction of its own.  A statement changes *)
(* the write version of the catalog and of the table statistics and logs   *)
(* a record; the commit writes both to .wal files, logs a record for each  *)
(* and replays the log, which creates, replaces or removes the files of    *)
(* the table.  The process may stop at any point, also in the recovery     *)
(* that replays the log at the next start.                                 *)
(*                                                                         *)
(* One file stands for the files of a table.  Its contents, and the count  *)
(* of the table in the statistics, is the number of the COPY that wrote it *)
(* or 0.  Records are flushed as a whole (module WAL has the pages), and a *)
(* file is copied, renamed or removed in one step.                         *)
(***************************************************************************)
EXTENDS Integers, Sequences, FiniteSets, Functions

CONSTANTS
    NodeTableNames,
    RelTableNames,
    MaxStatements,      \* bound on statements
    MaxCrashes,         \* bound on stops of the process
    GoOnAfterFailure,   \* a process runs statements after one that was rolled back
    DropsLeaveGaps      \* a table is dropped that is not the one with the highest ID

ASSUME CatalogAssumption ==
    /\ {MaxStatements, MaxCrashes} \subseteq Nat
    /\ {GoOnAfterFailure, DropsLeaveGaps} \subseteq BOOLEAN

VARIABLES
    dbPhase,    \* "idle", "commit", "replay", "rollback", "clear", "stopped", "recover",
                \* "broken" (the process died of a fault) or "unopenable"
    disk,       \* the files, and the log as far as it is flushed
    memory,     \* catalog, statistics, tables and log of the running process
    replayPos,  \* records replayed
    committed,  \* history: the tables and the COPY that filled each
    statements, crashes

catalogVars == <<dbPhase, disk, memory, replayPos, committed, statements, crashes>>

\* An optional value is a sequence of at most one.
None == <<>>
Else(option, default) == IF option = None THEN default ELSE option[1]
Kinds == {"node", "rel"}
EmptyCatalog == [node |-> <<>>, rel |-> <<>>]
EmptyStatistics == [node |-> <<>>, rel |-> <<>>]
With(f, x, y) == [a \in DOMAIN f \cup {x} |-> IF a = x THEN y ELSE f[a]]
Without(f, x) == Restrict(f, DOMAIN f \ {x})
Merged(f, g) == [a \in DOMAIN f \cup DOMAIN g |-> IF a \in DOMAIN g THEN g[a] ELSE f[a]]

-----------------------------------------------------------------------------
(* Catalog contents: schemas by kind and ID.                                *)

Names(content, kind) == {content[kind][id].name : id \in DOMAIN content[kind]}
IDFromName(content, kind, name) ==
    CHOOSE id \in DOMAIN content[kind] : content[kind][id].name = name

NodeTableSchema(name) == [name |-> name, unstructured |-> 0, fwd |-> {}, bwd |-> {}]
RelTableSchema(name, src, dst) == [name |-> name, src |-> src, dst |-> dst]

\* The ID of a new table is the number of tables of its kind.
NextTableID(content, kind) == Cardinality(DOMAIN content[kind])

AddNodeTableSchema(content, name) ==
    [content EXCEPT !.node = With(@, NextTableID(content, "node"), NodeTableSchema(name))]
AddRelTableSchema(content, name, src, dst) ==
    LET id == NextTableID(content, "rel")
        Bound(set, ends, n) == IF n \in ends THEN set \cup {id} ELSE set
    IN  [node |-> [n \in DOMAIN content.node |->
                      [content.node[n] EXCEPT !.fwd = Bound(@, src, n), !.bwd = Bound(@, dst, n)]],
         rel |-> With(content.rel, id, RelTableSchema(name, src, dst))]

\* The sets fwd and bwd of the node tables keep the ID of a removed table.
RemoveTableSchema(content, kind, id) == [content EXCEPT ![kind] = Without(@, id)]

\* readFromFile adds the schemas of the file to the ones that are there.
ReadOver(content, file) == [kind \in Kinds |-> Merged(content[kind], file[kind])]

-----------------------------------------------------------------------------
EmptyMemory ==
    [catalog |-> EmptyCatalog, catalogWrite |-> None,
     statistics |-> EmptyStatistics, statisticsWrite |-> [node |-> None, rel |-> None],
     tables |-> {}, log |-> <<>>]

CatalogInit ==
    /\ dbPhase = "idle"
    /\ disk = [catalog |-> EmptyCatalog, catalogWAL |-> None,
               statistics |-> EmptyStatistics, statisticsWAL |-> [node |-> None, rel |-> None],
               files |-> <<>>, filesWAL |-> <<>>, log |-> <<>>]
    /\ memory = EmptyMemory
    /\ replayPos = 0
    /\ committed = [kind \in Kinds |-> <<>>]
    /\ statements = 0
    /\ crashes = 0

\* initCatalogContentForWriteTrxIfNecessary, initTableStatisticPerTableForWriteTrxIfNecessary.
WriteContent == Else(memory.catalogWrite, memory.catalog)
WriteStatistics(kind) == Else(memory.statisticsWrite[kind], memory.statistics[kind])

\* What a statement that was rolled back left in the write versions is there until the process stops.
NothingIsLeftOver ==
    memory.catalogWrite = None /\ \A kind \in Kinds : memory.statisticsWrite[kind] = None
MayExecute == dbPhase = "idle" /\ statements < MaxStatements /\ (GoOnAfterFailure \/ NothingIsLeftOver)

\* A statement that was bound begins its transaction and is executed; tables are the ones that
\* there are once it is committed.
Execute(content, kind, statistics, record, tables) ==
    /\ MayExecute
    /\ statements' = statements + 1
    /\ memory' = [memory EXCEPT !.catalogWrite = content, !.statisticsWrite[kind] = statistics,
                                !.log = <<record, [type |-> "tables", tables |-> tables]>>]
    /\ dbPhase' = "commit"
    /\ UNCHANGED <<replayPos, committed, crashes>>

CreateNodeTable(name) ==
    LET content == <<AddNodeTableSchema(WriteContent, name)>>
        id == NextTableID(WriteContent, "node")
    IN  /\ name \notin Names(memory.catalog, "node")
        /\ Execute(content, "node", <<With(WriteStatistics("node"), id, 0)>>,
                   [type |-> "NODE_TABLE", kind |-> "node", id |-> id],
                   [committed EXCEPT !.node = With(@, name, 0)])
        /\ UNCHANGED disk

CreateRelTable(name, src, dst) ==
    LET content == <<AddRelTableSchema(WriteContent, name, src, dst)>>
        id == NextTableID(WriteContent, "rel")
    IN  /\ name \notin Names(memory.catalog, "rel")
        /\ src # {} /\ dst # {}
        /\ Execute(content, "rel", <<With(WriteStatistics("rel"), id, 0)>>,
                   [type |-> "REL_TABLE", kind |-> "rel", id |-> id],
                   [committed EXCEPT !.rel = With(@, name, 0)])
        /\ UNCHANGED disk

\* bindDropTable refuses a node table with edges.
HasEdge(id) ==
    \E r \in DOMAIN memory.catalog.rel : id \in memory.catalog.rel[r].src \cup memory.catalog.rel[r].dst
DropTable(kind, id) ==
    /\ kind = "node" => ~HasEdge(id)
    /\ DropsLeaveGaps \/ \A other \in DOMAIN memory.catalog[kind] : other <= id
    /\ Execute(<<RemoveTableSchema(WriteContent, kind, id)>>, kind, memory.statisticsWrite[kind],
               [type |-> "DROP_TABLE", kind |-> kind, id |-> id],
               [committed EXCEPT ![kind] = Without(@, memory.catalog[kind][id].name)])
    /\ UNCHANGED disk

\* The copier writes .wal files for the table.  Of a node table it adds the unstructured
\* properties to the schema.
CopiedContent(kind, id) ==
    IF kind = "rel" THEN memory.catalogWrite ELSE <<[WriteContent EXCEPT !.node[id].unstructured = @ + 1]>>
CopyCSV(kind, id) ==
    LET copy == statements + 1
    IN  /\ id \in DOMAIN WriteContent[kind]
        /\ Execute(CopiedContent(kind, id), kind, <<With(WriteStatistics(kind), id, copy)>>,
                   [type |-> "COPY", kind |-> kind, id |-> id],
                   [committed EXCEPT ![kind] = [@ EXCEPT ![memory.catalog[kind][id].name] = copy]])
        /\ disk' = [disk EXCEPT !.filesWAL = With(@, <<kind, id>>, copy)]

\* It fails in a later block of the CSV file: nothing is logged.
CopyFails(kind, id) ==
    /\ MayExecute
    /\ id \in DOMAIN WriteContent[kind]
    /\ statements' = statements + 1
    /\ memory' = [memory EXCEPT !.catalogWrite = CopiedContent(kind, id),
                                !.statisticsWrite[kind] = IF kind = "rel" THEN <<WriteStatistics(kind)>> ELSE @]
    /\ dbPhase' = "rollback"
    /\ UNCHANGED <<disk, replayPos, committed, crashes>>

-----------------------------------------------------------------------------
(* Commit and rollback: commitAndCheckpointOrRollback.                      *)

StatisticsRecords ==
    LET updated == {kind \in Kinds : memory.statisticsWrite[kind] # None}
    IN  IF updated = {} THEN <<>>
        ELSE <<[type |-> "TABLE_STATISTICS", kind |-> IF "node" \in updated THEN "node" ELSE "rel"]>>
CatalogRecords == IF memory.catalogWrite = None THEN <<>> ELSE <<[type |-> "CATALOG"]>>

\* Mutant: the statistics of a COPY are not logged.
CommitRecords_NotOfCopy(record) ==
    <<record>> \o (IF record.type = "COPY" THEN <<>> ELSE StatisticsRecords)
        \o CatalogRecords \o <<[type |-> "COMMIT"]>>
CommitRecords(record) == <<record>> \o StatisticsRecords \o CatalogRecords \o <<[type |-> "COMMIT"]>>

WALFilesWritten ==
    LET kinds == {r.kind : r \in {StatisticsRecords[i] : i \in DOMAIN StatisticsRecords}}
    IN  [disk EXCEPT !.catalogWAL = IF memory.catalogWrite = None THEN @ ELSE memory.catalogWrite,
                     !.statisticsWAL = [kind \in Kinds |->
                         IF kind \in kinds THEN memory.statisticsWrite[kind] ELSE @[kind]]]

\* prepareUnstructuredPropertyListsToCommitOrRollbackIfNecessary takes the IDs of the node
\* tables to be 0 to their number.
ListsArePrepared ==
    LET ids == {t[2] : t \in {table \in memory.tables : table[1] = "node"}}
    IN  ids = 0..(Cardinality(ids) - 1)

\* The .wal files are written, readers leave, and the log is flushed with its COMMIT record.
CommitDDL ==
    /\ dbPhase = "commit"
    /\ IF ListsArePrepared
       THEN /\ disk' = [WALFilesWritten EXCEPT !.log = CommitRecords(memory.log[1])]
            /\ committed' = memory.log[2].tables
            /\ dbPhase' = "replay"
       ELSE /\ dbPhase' = "broken"
            /\ disk' = WALFilesWritten
            /\ UNCHANGED committed
    /\ UNCHANGED <<memory, replayPos, statements, crashes>>

\* Readers do not leave in time.
CommitTimesOut ==
    /\ dbPhase = "commit"
    /\ disk' = WALFilesWritten
    /\ dbPhase' = IF ListsArePrepared THEN "rollback" ELSE "broken"
    /\ UNCHANGED <<memory, replayPos, committed, statements, crashes>>

\* Of the records of a DDL statement only that of the statistics has a rollback, which is the one
\* of the node tables whatever the record is about.
RollbackDDL ==
    /\ dbPhase = "rollback"
    /\ memory' = [memory EXCEPT !.log = <<>>,
                     !.statisticsWrite.node = IF StatisticsRecords # <<>> THEN None ELSE @]
    /\ dbPhase' = "clear"
    /\ UNCHANGED <<disk, replayPos, committed, statements, crashes>>

-----------------------------------------------------------------------------
(* Replaying a record: what it does to the files, and to the memory of a    *)
(* process that is not recovering.                                          *)

\* Catalogs that are read for one record.
CatalogWithWALVersion == ReadOver(disk.catalog, disk.catalogWAL[1])

Replayed(record) ==
    CASE record.type \in {"NODE_TABLE", "REL_TABLE"} ->
             [disk EXCEPT !.files = With(@, <<record.kind, record.id>>, 0)]
      [] record.type = "DROP_TABLE" -> [disk EXCEPT !.files = Without(@, <<record.kind, record.id>>)]
      [] record.type = "COPY" ->
             LET file == <<record.kind, record.id>>
             IN  IF file \notin DOMAIN disk.filesWAL THEN disk
                 ELSE [disk EXCEPT !.files = With(@, file, disk.filesWAL[file]),
                                   !.filesWAL = Without(@, file)]
      [] record.type = "TABLE_STATISTICS" ->
             [disk EXCEPT !.statistics[record.kind] = Else(disk.statisticsWAL[record.kind], @)]
      [] record.type = "CATALOG" -> [disk EXCEPT !.catalog = Else(disk.catalogWAL, @)]
      [] OTHER -> disk

\* The schema that the record needs; a table that is not there ends the process.
SchemaIsFound(record, catalog) ==
    CASE record.type \in {"NODE_TABLE", "REL_TABLE"} ->
             record.id \in DOMAIN CatalogWithWALVersion[record.kind]
      [] record.type \in {"DROP_TABLE", "COPY"} -> record.id \in DOMAIN catalog[record.kind]
      [] OTHER -> TRUE

Reloaded(record) ==
    CASE record.type \in {"NODE_TABLE", "REL_TABLE"} ->
             [memory EXCEPT !.tables = @ \cup {<<record.kind, record.id>>}]
      [] record.type = "DROP_TABLE" ->
             [memory EXCEPT !.tables = @ \ {<<record.kind, record.id>>},
                            !.statistics[record.kind] = Without(@, record.id)]
      [] record.type = "TABLE_STATISTICS" ->
             [memory EXCEPT !.statistics[record.kind] = memory.statisticsWrite[record.kind][1],
                            !.statisticsWrite[record.kind] = None]
      [] record.type = "CATALOG" ->
             [memory EXCEPT !.catalog = memory.catalogWrite[1], !.catalogWrite = None]
      [] OTHER -> memory

ReplayDDL ==
    LET record == disk.log[replayPos + 1]
    IN  /\ dbPhase = "replay"
        /\ replayPos < Len(disk.log)
        /\ IF SchemaIsFound(record, memory.catalog)
           THEN /\ disk' = Replayed(record)
                /\ memory' = Reloaded(record)
                /\ replayPos' = replayPos + 1
                /\ UNCHANGED dbPhase
           ELSE dbPhase' = "broken" /\ UNCHANGED <<disk, memory, replayPos>>
        /\ UNCHANGED <<committed, statements, crashes>>

\* clearWAL: the log, and then the .wal files.
ClearLog ==
    /\ \/ dbPhase \in {"replay", "recover"} /\ replayPos = Len(disk.log) /\ disk.log # <<>>
       \/ dbPhase = "clear" /\ disk.log # <<>>
    /\ disk' = [disk EXCEPT !.log = <<>>]
    /\ memory' = [memory EXCEPT !.log = <<>>]
    /\ replayPos' = 0
    /\ UNCHANGED <<dbPhase, committed, statements, crashes>>
RemovedWALFiles ==
    [disk EXCEPT !.catalogWAL = None, !.statisticsWAL = [node |-> None, rel |-> None], !.filesWAL = <<>>]
RemoveWALFiles ==
    /\ dbPhase \in {"replay", "clear"} /\ disk.log = <<>>
    /\ disk' = RemovedWALFiles
    /\ dbPhase' = "idle"
    /\ UNCHANGED <<memory, replayPos, committed, statements, crashes>>

-----------------------------------------------------------------------------
(* Stop and start.                                                          *)

Crash ==
    /\ dbPhase \notin {"stopped", "unopenable"}
    /\ crashes < MaxCrashes
    /\ crashes' = crashes + 1
    /\ dbPhase' = "stopped"
    /\ memory' = EmptyMemory
    /\ replayPos' = 0
    /\ UNCHANGED <<disk, committed, statements>>

\* An empty log is not cleared, and leaves .wal files where they are.
StartDatabase ==
    /\ dbPhase = "stopped"
    /\ dbPhase' = "recover"
    /\ UNCHANGED <<disk, memory, replayPos, committed, statements, crashes>>

RecoverDDL ==
    LET record == disk.log[replayPos + 1]
    IN  /\ dbPhase = "recover"
        /\ replayPos < Len(disk.log)
        /\ IF SchemaIsFound(record, disk.catalog)
           THEN disk' = Replayed(record) /\ replayPos' = replayPos + 1 /\ UNCHANGED dbPhase
           ELSE dbPhase' = "unopenable" /\ UNCHANGED <<disk, replayPos>>
        /\ UNCHANGED <<memory, committed, statements, crashes>>

\* The catalog, the stores and the statistics are loaded from their files.
OpenDatabase ==
    LET tables == {<<kind, id>> : kind \in Kinds, id \in DOMAIN disk.catalog.node \cup DOMAIN disk.catalog.rel}
        loaded == {t \in tables : t[2] \in DOMAIN disk.catalog[t[1]]}
    IN  /\ dbPhase = "recover"
        /\ disk.log = <<>>
        /\ dbPhase' = IF loaded \subseteq DOMAIN disk.files THEN "idle" ELSE "unopenable"
        /\ memory' = [memory EXCEPT !.catalog = disk.catalog, !.statistics = disk.statistics,
                                    !.tables = loaded]
        /\ UNCHANGED <<disk, replayPos, committed, statements, crashes>>

CatalogNext ==
    \/ \E name \in NodeTableNames : CreateNodeTable(name)
    \/ \E name \in RelTableNames : \E src, dst \in SUBSET DOMAIN memory.catalog.node :
          CreateRelTable(name, src, dst)
    \/ \E kind \in Kinds : \E id \in DOMAIN memory.catalog[kind] :
          DropTable(kind, id) \/ CopyCSV(kind, id) \/ CopyFails(kind, id)
    \/ CommitDDL \/ CommitTimesOut \/ RollbackDDL
    \/ ReplayDDL \/ ClearLog \/ RemoveWALFiles
    \/ Crash \/ StartDatabase \/ RecoverDDL \/ OpenDatabase

CatalogSpec == CatalogInit /\ [][CatalogNext]_catalogVars

-----------------------------------------------------------------------------
(* Properties.                                                              *)

\* When a database is open and no statement runs, it has the tables of the statements that were
\* committed and no others, each under its name with its files, its in-memory table and its
\* count, filled by the COPY that was committed last: whatever statement, commit or recovery a
\* crash cut short, and whatever .wal files it left behind.
TablesAreWhole ==
    dbPhase = "idle" =>
        \A kind \in Kinds :
            /\ Names(memory.catalog, kind) = DOMAIN committed[kind]
            /\ \A id \in DOMAIN memory.catalog[kind] :
                  LET copy == committed[kind][memory.catalog[kind][id].name]
                  IN  /\ <<kind, id>> \in memory.tables
                      /\ <<kind, id>> \in DOMAIN disk.files /\ disk.files[<<kind, id>>] = copy
                      /\ id \in DOMAIN memory.statistics[kind] /\ memory.statistics[kind][id] = copy
=============================================================================
