--------------------------- MODULE CatalogProofs ---------------------------
(***************************************************************************)
(* DDL and COPY statements leave whole tables, for any set of names and    *)
(* any number of statements and crashes, as long as a process runs no      *)
(* statement after one that failed and only the newest table of a kind is  *)
(* dropped.  (Without these hypotheses the code fails: catalog.cpp:213,    *)
(* connection.cpp:284.)                                                    *)
(***************************************************************************)
EXTENDS Catalog, FiniteSetTheorems, TLAPS

-----------------------------------------------------------------------------
(* The inductive invariant.                                                 *)

\* Schemas and records.
NodeTableSchemas ==
    [name : NodeTableNames, unstructured : Nat, fwd : SUBSET Nat, bwd : SUBSET Nat]
RelTableSchemas == [name : RelTableNames, src : SUBSET Nat, dst : SUBSET Nat]
StatementTypes == {"NODE_TABLE", "REL_TABLE", "DROP_TABLE", "COPY"}
StatementRecords == [type : StatementTypes, kind : Kinds, id : Nat]
StatisticsRecordsOf == [type : {"TABLE_STATISTICS"}, kind : Kinds]
OtherRecords == [type : {"CATALOG", "COMMIT"}]
LogRecords == StatementRecords \cup StatisticsRecordsOf \cup OtherRecords

\* A value for each kind of table.
IsByKind(x) == x = [node |-> x.node, rel |-> x.rel]

\* The tables of a kind have the IDs from 0 on, and names of their own.
AreTables(tables, Schemas) ==
    /\ IsFiniteSet(DOMAIN tables)
    /\ DOMAIN tables = 0..(Cardinality(DOMAIN tables) - 1)
    /\ tables \in [DOMAIN tables -> Schemas]
    /\ \A i, j \in DOMAIN tables : tables[i].name = tables[j].name => i = j
IsCatalog(content) ==
    /\ IsByKind(content)
    /\ AreTables(content.node, NodeTableSchemas)
    /\ AreTables(content.rel, RelTableSchemas)

\* The tables of a kind, their statistics and files are those of copies.
Agree(kind, tables, statistics, files, copies) ==
    /\ {tables[id].name : id \in DOMAIN tables} = DOMAIN copies
    /\ \A id \in DOMAIN tables :
           LET copy == copies[tables[id].name]
           IN  /\ <<kind, id>> \in DOMAIN files /\ files[<<kind, id>>] = copy
               /\ id \in DOMAIN statistics /\ statistics[id] = copy
AreWhole(content, statistics, files, copies) ==
    \A kind \in Kinds : Agree(kind, content[kind], statistics[kind], files, copies[kind])

\* What the files of a database are once its log has been replayed.
FilesAfter(record, files, filesWAL) ==
    LET file == <<record.kind, record.id>>
    IN  CASE record.type \in {"NODE_TABLE", "REL_TABLE"} -> With(files, file, 0)
          [] record.type = "DROP_TABLE" -> Without(files, file)
          [] record.type = "COPY" ->
                 IF file \in DOMAIN filesWAL THEN With(files, file, filesWAL[file]) ELSE files
HasCatalog(log) == \E i \in DOMAIN log : log[i].type = "CATALOG"
HasStatistics(log, kind) ==
    \E i \in DOMAIN log : log[i].type = "TABLE_STATISTICS" /\ log[i].kind = kind
FinalFiles(d) == IF d.log = <<>> THEN d.files ELSE FilesAfter(d.log[1], d.files, d.filesWAL)
FinalCatalog(d) == IF HasCatalog(d.log) THEN d.catalogWAL[1] ELSE d.catalog
FinalStatistics(d) ==
    [kind \in Kinds |-> IF HasStatistics(d.log, kind) THEN d.statisticsWAL[kind][1]
                                                      ELSE d.statistics[kind]]

IsDisk(d) ==
    /\ d = [catalog |-> d.catalog, catalogWAL |-> d.catalogWAL,
            statistics |-> d.statistics, statisticsWAL |-> d.statisticsWAL,
            files |-> d.files, filesWAL |-> d.filesWAL, log |-> d.log]
    /\ IsByKind(d.statistics) /\ IsByKind(d.statisticsWAL)
    /\ d.log \in Seq(LogRecords)
IsMemory(m) ==
    /\ m = [catalog |-> m.catalog, catalogWrite |-> m.catalogWrite,
            statistics |-> m.statistics, statisticsWrite |-> m.statisticsWrite,
            tables |-> m.tables, log |-> m.log]
    /\ IsByKind(m.statistics) /\ IsByKind(m.statisticsWrite)

TypeOK ==
    /\ dbPhase \in {"idle", "commit", "replay", "rollback", "clear", "stopped", "recover",
                    "broken", "unopenable"}
    /\ IsDisk(disk)
    /\ IsMemory(memory)
    /\ IsByKind(committed)
    /\ statements \in Nat
    /\ replayPos \in 0..Len(disk.log)

\* The log begins with the record of the statement, and has one record of each type.
IsLog(log) ==
    /\ log # <<>> => log[1] \in StatementRecords
    /\ \A i \in DOMAIN log : i > 1 => log[i] \in StatisticsRecordsOf \cup OtherRecords
    /\ \A i, j \in DOMAIN log : log[i].type = log[j].type => i = j
LogInv == IsLog(disk.log)

\* However far the log has been replayed, and however often that has begun, replaying the rest
\* of it makes the tables that are committed.
LeadsTo(d, copies) ==
    /\ IsCatalog(FinalCatalog(d))
    /\ AreWhole(FinalCatalog(d), FinalStatistics(d), FinalFiles(d), copies)
    /\ d.log # <<>> /\ d.log[1].type = "DROP_TABLE" =>
           d.log[1].id \notin DOMAIN FinalCatalog(d)[d.log[1].kind]
    /\ HasCatalog(d.log) => d.catalogWAL # None
    /\ \A kind \in Kinds : HasStatistics(d.log, kind) => d.statisticsWAL[kind] # None
DiskInv == LeadsTo(disk, committed)

\* The records that have been replayed need not be replayed again.
IsReplayed(d, i) ==
    /\ i = 1 => d.files = FinalFiles(d)
    /\ d.log[i].type = "TABLE_STATISTICS" =>
           d.statistics[d.log[i].kind] = d.statisticsWAL[d.log[i].kind][1]
    /\ d.log[i].type = "CATALOG" => d.catalog = d.catalogWAL[1]
ReplayInv == \A i \in 1..replayPos : IsReplayed(disk, i)

IsMade(record, table) ==
    record.type \in {"NODE_TABLE", "REL_TABLE"} /\ table = <<record.kind, record.id>>

\* The memory of a process that replays its log is brought to the same state.
IsPending(log, pos, kind) ==
    \E i \in DOMAIN log :
        i > pos /\ log[i].type = "TABLE_STATISTICS" /\ log[i].kind = kind
PendingStatistics(d, m, pos) ==
    [kind \in Kinds |-> IF IsPending(d.log, pos, kind) THEN m.statisticsWrite[kind][1]
                                                       ELSE m.statistics[kind]]
Follows(d, m, pos, copies) ==
    /\ AreWhole(FinalCatalog(d), PendingStatistics(d, m, pos), FinalFiles(d), copies)
    /\ ~HasCatalog(d.log) => m.catalog = d.catalog
    /\ \A i \in DOMAIN d.log : d.log[i].type = "CATALOG" =>
           IF i <= pos THEN m.catalog = d.catalog ELSE m.catalogWrite[1] = d.catalogWAL[1]
    /\ \A kind \in Kinds : \A id \in DOMAIN FinalCatalog(d)[kind] :
           <<kind, id>> \in m.tables \/ (pos = 0 /\ IsMade(d.log[1], <<kind, id>>))
CheckpointInv ==
    dbPhase = "replay" /\ disk.log # <<>> => Follows(disk, memory, replayPos, committed)

\* A process that does not replay has the tables that are committed.
HasTables(d, m, copies) ==
    /\ d.log = <<>>
    /\ m.catalog = d.catalog
    /\ AreWhole(m.catalog, m.statistics, d.files, copies)
    /\ \A kind \in Kinds : \A id \in DOMAIN m.catalog[kind] : <<kind, id>> \in m.tables
IsRunning ==
    dbPhase \in {"idle", "commit", "rollback", "clear"} \/ (dbPhase = "replay" /\ disk.log = <<>>)
MemoryInv == IsRunning => HasTables(disk, memory, committed)

\* What a statement has written makes the tables that its commit will say there are.
Written(write, statistics) == [kind \in Kinds |-> Else(write[kind], statistics[kind])]
IsReady(d, m) ==
    LET record == m.log[1]
        content == Else(m.catalogWrite, m.catalog)
        files == FilesAfter(record, d.files, d.filesWAL)
        tables == m.log[2].tables
    IN  /\ record \in StatementRecords
        /\ IsByKind(tables)
        /\ IsCatalog(content)
        /\ AreWhole(content, Written(m.statisticsWrite, m.statistics), files, tables)
        /\ AreWhole(content, Written(m.statisticsWrite, d.statistics), files, tables)
        /\ m.statisticsWrite.node = None \/ m.statisticsWrite.rel = None
        /\ record.type = "DROP_TABLE" => record.id \notin DOMAIN content[record.kind]
        /\ \A kind \in Kinds : \A id \in DOMAIN content[kind] :
               <<kind, id>> \in m.tables \/ IsMade(record, <<kind, id>>)
StatementInv == dbPhase = "commit" => IsReady(disk, memory)

IInv ==
    /\ TypeOK
    /\ LogInv
    /\ DiskInv
    /\ ReplayInv
    /\ CheckpointInv
    /\ MemoryInv
    /\ StatementInv

-----------------------------------------------------------------------------
(* Tables, their statistics and their files under the operations of a       *)
(* statement.                                                               *)

\* The domain and the values of a function without one of its arguments.
LEMMA FunctionWithout ==
    ASSUME NEW f, NEW x
    PROVE  /\ DOMAIN Without(f, x) = DOMAIN f \ {x}
           /\ \A a \in DOMAIN f : a # x => Without(f, x)[a] = f[a]
BY DEF Without, Restrict

\* The next ID is free.
LEMMA NextIsFree ==
    ASSUME NEW tables, NEW Schemas, AreTables(tables, Schemas)
    PROVE  /\ Cardinality(DOMAIN tables) \in Nat
           /\ Cardinality(DOMAIN tables) \notin DOMAIN tables
           /\ DOMAIN tables \subseteq Nat
<1>1. Cardinality(DOMAIN tables) \in Nat
    BY FS_CardinalityType DEF AreTables
<1> DEFINE n == Cardinality(DOMAIN tables)
<1>2. DOMAIN tables = 0..(n - 1)
    BY DEF AreTables
<1> HIDE DEF n
<1>3. n \in Nat
    BY <1>1 DEF n
<1>4. n \notin DOMAIN tables /\ DOMAIN tables \subseteq Nat
    BY <1>2, <1>3
<1> QED BY <1>3, <1>4 DEF n

\* A new table of a kind gets the next ID, and the tables keep their form.
LEMMA TableIsAdded ==
    ASSUME NEW tables, NEW Schemas, AreTables(tables, Schemas), NEW schema \in Schemas,
           \A id \in DOMAIN tables : tables[id].name # schema.name
    PROVE  AreTables(With(tables, Cardinality(DOMAIN tables), schema), Schemas)
<1> DEFINE n == Cardinality(DOMAIN tables)
           new == With(tables, n, schema)
<1>1. n \in Nat /\ n \notin DOMAIN tables /\ DOMAIN tables = 0..(n - 1)
    BY NextIsFree DEF AreTables
<1>2. /\ DOMAIN new = DOMAIN tables \cup {n} /\ new[n] = schema
      /\ \A a \in DOMAIN tables : a # n => new[a] = tables[a]
    BY DEF With
<1>3. IsFiniteSet(DOMAIN new) /\ Cardinality(DOMAIN new) = n + 1
    BY <1>1, <1>2, FS_AddElement DEF AreTables
<1> HIDE DEF n
<1>4. DOMAIN new = 0..((n + 1) - 1)
    BY <1>1, <1>2
<1>5. new \in [DOMAIN new -> Schemas]
    <2>1. \A a \in DOMAIN new : new[a] \in Schemas
        BY <1>1, <1>2 DEF AreTables
    <2>2. new = [a \in DOMAIN new |-> new[a]]
        BY <1>2 DEF With
    <2> QED BY <2>1, <2>2
<1>6. \A i, j \in DOMAIN new : new[i].name = new[j].name => i = j
    BY <1>1, <1>2 DEF AreTables
<1> QED BY <1>3, <1>4, <1>5, <1>6 DEF AreTables, n

\* The newest table is removed.
LEMMA TableIsRemoved ==
    ASSUME NEW tables, NEW Schemas, AreTables(tables, Schemas), NEW id \in DOMAIN tables,
           \A other \in DOMAIN tables : other <= id
    PROVE  AreTables(Without(tables, id), Schemas)
<1> DEFINE n == Cardinality(DOMAIN tables)
           new == Without(tables, id)
<1>1. n \in Nat /\ DOMAIN tables = 0..(n - 1)
    BY NextIsFree DEF AreTables
<1>2. /\ DOMAIN new = DOMAIN tables \ {id}
      /\ \A a \in DOMAIN tables : a # id => new[a] = tables[a]
    BY FunctionWithout, Zenon
<1>3. IsFiniteSet(DOMAIN new) /\ Cardinality(DOMAIN new) = n - 1
    BY <1>2, FS_RemoveElement DEF AreTables
<1> HIDE DEF n
<1>4. id = n - 1 /\ n > 0
    <2>1. id \in 0..(n - 1) /\ n - 1 \in 0..(n - 1)
        BY <1>1
    <2>2. n - 1 <= id
        BY <1>1, <2>1
    <2> QED BY <1>1, <2>1, <2>2
<1>5. DOMAIN new = 0..((n - 1) - 1)
    BY <1>1, <1>2, <1>4
<1>6. new \in [DOMAIN new -> Schemas]
    <2>1. \A a \in DOMAIN new : new[a] \in Schemas
        BY <1>2 DEF AreTables
    <2>2. new = [a \in DOMAIN new |-> new[a]]
        BY <1>2 DEF Without, Restrict
    <2> QED BY <2>1, <2>2
<1>7. \A i, j \in DOMAIN new : new[i].name = new[j].name => i = j
    BY <1>2 DEF AreTables
<1> QED BY <1>3, <1>5, <1>6, <1>7 DEF AreTables, n

\* Schemas change and their names do not.
LEMMA TablesAreKept ==
    ASSUME NEW tables, NEW Schemas, AreTables(tables, Schemas),
           NEW new \in [DOMAIN tables -> Schemas],
           \A id \in DOMAIN tables : new[id].name = tables[id].name
    PROVE  AreTables(new, Schemas)
<1>1. DOMAIN new = DOMAIN tables
    OBVIOUS
<1> QED BY <1>1 DEF AreTables

\* CREATE: the new table is empty, in the statistics and in its files.
LEMMA CreatedAgrees ==
    ASSUME NEW kind, NEW tables, NEW statistics, NEW files, NEW copies,
           Agree(kind, tables, statistics, files, copies),
           NEW id, id \notin DOMAIN tables, NEW schema,
           \A other \in DOMAIN tables : tables[other].name # schema.name
    PROVE  Agree(kind, With(tables, id, schema), With(statistics, id, 0),
                 With(files, <<kind, id>>, 0), With(copies, schema.name, 0))
<1> DEFINE t == With(tables, id, schema)
           s == With(statistics, id, 0)
           f == With(files, <<kind, id>>, 0)
           c == With(copies, schema.name, 0)
<1>1. /\ DOMAIN t = DOMAIN tables \cup {id} /\ t[id] = schema
      /\ \A a \in DOMAIN tables : t[a] = tables[a]
    BY DEF With
<1>2. /\ DOMAIN s = DOMAIN statistics \cup {id} /\ s[id] = 0
      /\ \A a \in DOMAIN statistics : a # id => s[a] = statistics[a]
    BY DEF With
<1>3. /\ DOMAIN f = DOMAIN files \cup {<<kind, id>>} /\ f[<<kind, id>>] = 0
      /\ \A a \in DOMAIN files : a # <<kind, id>> => f[a] = files[a]
    BY DEF With
<1>4. /\ DOMAIN c = DOMAIN copies \cup {schema.name} /\ c[schema.name] = 0
      /\ \A a \in DOMAIN copies : a # schema.name => c[a] = copies[a]
    BY DEF With
<1> HIDE DEF t, s, f, c
<1>5. {t[a].name : a \in DOMAIN t} = DOMAIN c
    BY <1>1, <1>4 DEF Agree
<1>6. ASSUME NEW a \in DOMAIN t
      PROVE  /\ <<kind, a>> \in DOMAIN f /\ f[<<kind, a>>] = c[t[a].name]
             /\ a \in DOMAIN s /\ s[a] = c[t[a].name]
    <2>1. CASE a = id
        BY <2>1, <1>1, <1>2, <1>3, <1>4
    <2>2. CASE a # id
        <3>1. a \in DOMAIN tables /\ t[a] = tables[a] /\ tables[a].name # schema.name
            BY <2>2, <1>1, <1>6
        <3>2. tables[a].name \in DOMAIN copies
            BY <3>1 DEF Agree
        <3>3. <<kind, a>> # <<kind, id>>
            BY <2>2
        <3>4. /\ <<kind, a>> \in DOMAIN files /\ files[<<kind, a>>] = copies[tables[a].name]
              /\ a \in DOMAIN statistics /\ statistics[a] = copies[tables[a].name]
            BY <3>1 DEF Agree
        <3> QED BY <3>1, <3>2, <3>3, <3>4, <2>2, <1>2, <1>3, <1>4
    <2> QED BY <2>1, <2>2
<1> QED BY <1>5, <1>6 DEF Agree, t, s, f, c

\* DROP: the files go, the statistics may stay.
LEMMA DroppedAgrees ==
    ASSUME NEW kind, NEW tables, NEW statistics, NEW files, NEW copies,
           Agree(kind, tables, statistics, files, copies),
           NEW id \in DOMAIN tables,
           \A i, j \in DOMAIN tables : tables[i].name = tables[j].name => i = j
    PROVE  Agree(kind, Without(tables, id), statistics,
                 Without(files, <<kind, id>>), Without(copies, tables[id].name))
<1> DEFINE t == Without(tables, id)
           f == Without(files, <<kind, id>>)
           c == Without(copies, tables[id].name)
<1>1. /\ DOMAIN t = DOMAIN tables \ {id}
      /\ \A a \in DOMAIN tables : a # id => t[a] = tables[a]
    BY FunctionWithout, Zenon
<1>2. /\ DOMAIN f = DOMAIN files \ {<<kind, id>>}
      /\ \A a \in DOMAIN files : a # <<kind, id>> => f[a] = files[a]
    BY FunctionWithout, Zenon
<1>3. /\ DOMAIN c = DOMAIN copies \ {tables[id].name}
      /\ \A a \in DOMAIN copies : a # tables[id].name => c[a] = copies[a]
    BY FunctionWithout, Zenon
<1> HIDE DEF t, f, c
<1>4. {t[a].name : a \in DOMAIN t} = DOMAIN c
    BY <1>1, <1>3 DEF Agree
<1>5. ASSUME NEW a \in DOMAIN t
      PROVE  /\ <<kind, a>> \in DOMAIN f /\ f[<<kind, a>>] = c[t[a].name]
             /\ a \in DOMAIN statistics /\ statistics[a] = c[t[a].name]
    <2>1. a \in DOMAIN tables /\ a # id /\ t[a] = tables[a] /\ tables[a].name # tables[id].name
        BY <1>1, <1>5
    <2>2. tables[a].name \in DOMAIN copies
        BY <2>1 DEF Agree
    <2>3. <<kind, a>> # <<kind, id>>
        BY <2>1
    <2>4. /\ <<kind, a>> \in DOMAIN files /\ files[<<kind, a>>] = copies[tables[a].name]
          /\ a \in DOMAIN statistics /\ statistics[a] = copies[tables[a].name]
        BY <2>1 DEF Agree
    <2> QED BY <2>1, <2>2, <2>3, <2>4, <1>2, <1>3
<1> QED BY <1>4, <1>5 DEF Agree, t, f, c

\* COPY: the files and the statistics are those of the COPY, and the schema keeps its name.
LEMMA CopiedAgrees ==
    ASSUME NEW kind, NEW tables, NEW statistics, NEW files, NEW copies,
           Agree(kind, tables, statistics, files, copies),
           NEW id \in DOMAIN tables, NEW copy, NEW new, DOMAIN new = DOMAIN tables,
           \A a \in DOMAIN tables : new[a].name = tables[a].name,
           \A i, j \in DOMAIN tables : tables[i].name = tables[j].name => i = j
    PROVE  Agree(kind, new, With(statistics, id, copy), With(files, <<kind, id>>, copy),
                 [copies EXCEPT ![tables[id].name] = copy])
<1> DEFINE s == With(statistics, id, copy)
           f == With(files, <<kind, id>>, copy)
           c == [copies EXCEPT ![tables[id].name] = copy]
<1>2. /\ DOMAIN s = DOMAIN statistics \cup {id} /\ s[id] = copy
      /\ \A a \in DOMAIN statistics : a # id => s[a] = statistics[a]
    BY DEF With
<1>3. /\ DOMAIN f = DOMAIN files \cup {<<kind, id>>} /\ f[<<kind, id>>] = copy
      /\ \A a \in DOMAIN files : a # <<kind, id>> => f[a] = files[a]
    BY DEF With
<1>4. tables[id].name \in DOMAIN copies
    BY DEF Agree
<1>5. /\ DOMAIN c = DOMAIN copies /\ c[tables[id].name] = copy
      /\ \A a \in DOMAIN copies : a # tables[id].name => c[a] = copies[a]
    BY <1>4
<1> HIDE DEF s, f, c
<1>6. {new[a].name : a \in DOMAIN new} = DOMAIN c
    <2>1. {new[a].name : a \in DOMAIN new} = {tables[a].name : a \in DOMAIN tables}
        OBVIOUS
    <2> QED BY <2>1, <1>5 DEF Agree
<1>7. ASSUME NEW a \in DOMAIN new
      PROVE  /\ <<kind, a>> \in DOMAIN f /\ f[<<kind, a>>] = c[new[a].name]
             /\ a \in DOMAIN s /\ s[a] = c[new[a].name]
    <2>1. CASE a = id
        BY <2>1, <1>2, <1>3, <1>5
    <2>2. CASE a # id
        <3>1. a \in DOMAIN tables /\ new[a].name = tables[a].name /\ tables[a].name # tables[id].name
            BY <2>2, <1>7
        <3>2. tables[a].name \in DOMAIN copies
            BY <3>1 DEF Agree
        <3>3. <<kind, a>> # <<kind, id>>
            BY <2>2
        <3>4. /\ <<kind, a>> \in DOMAIN files /\ files[<<kind, a>>] = copies[tables[a].name]
              /\ a \in DOMAIN statistics /\ statistics[a] = copies[tables[a].name]
            BY <3>1 DEF Agree
        <3> QED BY <3>1, <3>2, <3>3, <3>4, <2>2, <1>2, <1>3, <1>5
    <2> QED BY <2>1, <2>2
<1> QED BY <1>6, <1>7 DEF Agree, s, f, c

\* A database has the files of a kind that another one has.
HasFilesOf(kind, files, g) ==
    \A id : <<kind, id>> \in DOMAIN files =>
                <<kind, id>> \in DOMAIN g /\ g[<<kind, id>>] = files[<<kind, id>>]

\* Only the files of the tables of a kind, and the names of its schemas, matter.
LEMMA OthersAgree ==
    ASSUME NEW kind, NEW tables, NEW statistics, NEW files, NEW copies,
           Agree(kind, tables, statistics, files, copies),
           NEW new, DOMAIN new = DOMAIN tables,
           \A a \in DOMAIN tables : new[a].name = tables[a].name,
           NEW g, HasFilesOf(kind, files, g)
    PROVE  Agree(kind, new, statistics, g, copies)
<1>1. {new[a].name : a \in DOMAIN new} = {tables[a].name : a \in DOMAIN tables}
    OBVIOUS
<1> QED BY <1>1 DEF Agree, HasFilesOf

\* The files of another kind are not those of a record.
LEMMA OtherFilesStay ==
    ASSUME NEW record \in StatementRecords, NEW files, NEW filesWAL, NEW kind,
           kind # record.kind
    PROVE  HasFilesOf(kind, files, FilesAfter(record, files, filesWAL))
<1> SUFFICES ASSUME NEW id, <<kind, id>> \in DOMAIN files
             PROVE  /\ <<kind, id>> \in DOMAIN FilesAfter(record, files, filesWAL)
                    /\ FilesAfter(record, files, filesWAL)[<<kind, id>>] = files[<<kind, id>>]
    BY DEF HasFilesOf
<1> DEFINE file == <<record.kind, record.id>>
<1>1. <<kind, id>> # file
    OBVIOUS
<1>2. /\ \A y : /\ <<kind, id>> \in DOMAIN With(files, file, y)
                /\ With(files, file, y)[<<kind, id>>] = files[<<kind, id>>]
      /\ <<kind, id>> \in DOMAIN Without(files, file)
      /\ Without(files, file)[<<kind, id>>] = files[<<kind, id>>]
    BY <1>1 DEF With, Without, Restrict
<1>3. record.type \in StatementTypes
    BY DEF StatementRecords
<1> HIDE DEF file
<1>4. FilesAfter(record, files, filesWAL)
          \in {With(files, file, 0), Without(files, file), With(files, file, filesWAL[file]), files}
    BY <1>3 DEF FilesAfter, StatementTypes, file
<1> QED BY <1>2, <1>4

-----------------------------------------------------------------------------
(* Steps while the log is empty.                                            *)

\* Nothing is left to be replayed of an empty log.
LEMMA EmptyLogIsFinal ==
    ASSUME NEW d, d.log = <<>>
    PROVE  /\ FinalFiles(d) = d.files
           /\ FinalCatalog(d) = d.catalog
           /\ \A kind \in Kinds : FinalStatistics(d)[kind] = d.statistics[kind]
           /\ ~HasCatalog(d.log) /\ \A kind \in Kinds : ~HasStatistics(d.log, kind)
<1>1. DOMAIN d.log = {}
    OBVIOUS
<1>2. ~HasCatalog(d.log) /\ \A kind \in Kinds : ~HasStatistics(d.log, kind)
    BY <1>1, Zenon DEF HasCatalog, HasStatistics
<1> QED BY <1>2 DEF FinalFiles, FinalCatalog, FinalStatistics

\* AreWhole looks at the statistics of each kind, and at nothing else of them.
LEMMA SameStatistics ==
    ASSUME NEW content, NEW s, NEW t, NEW files, NEW copies,
           \A kind \in Kinds : s[kind] = t[kind]
    PROVE  AreWhole(content, s, files, copies) <=> AreWhole(content, t, files, copies)
BY Zenon DEF AreWhole

\* The files of a database with an empty log are what it leads to.
LEMMA EmptyLogLeads ==
    ASSUME NEW d, NEW copies, d.log = <<>>
    PROVE  LeadsTo(d, copies) <=> /\ IsCatalog(d.catalog)
                                  /\ AreWhole(d.catalog, d.statistics, d.files, copies)
<1>1. AreWhole(d.catalog, FinalStatistics(d), d.files, copies)
          <=> AreWhole(d.catalog, d.statistics, d.files, copies)
    BY EmptyLogIsFinal, SameStatistics, Zenon
<1> QED BY <1>1, EmptyLogIsFinal, Zenon DEF LeadsTo

\* A step that leaves the files and the empty log as they are.
LEMMA QuietDisk ==
    ASSUME IInv, disk.log = <<>>, IsDisk(disk'), disk'.log = <<>>,
           disk'.catalog = disk.catalog, disk'.statistics = disk.statistics,
           disk'.files = disk.files, committed' = committed, replayPos' = 0
    PROVE  LogInv' /\ DiskInv' /\ ReplayInv' /\ CheckpointInv' /\ replayPos' \in 0..Len(disk'.log)
<1>1. LogInv'
    BY DEF LogInv, IsLog
<1>2. DiskInv'
    BY EmptyLogLeads, Zenon DEF IInv, DiskInv
<1>3. ReplayInv'
    BY DEF ReplayInv
<1>4. CheckpointInv'
    BY Zenon DEF CheckpointInv
<1>5. replayPos' \in 0..Len(disk'.log)
    OBVIOUS
<1> QED BY <1>1, <1>2, <1>3, <1>4, <1>5

\* ... and the tables in memory.
LEMMA QuietMemory ==
    ASSUME MemoryInv, IsRunning, disk'.log = <<>>,
           disk'.catalog = disk.catalog, disk'.files = disk.files, committed' = committed,
           memory'.catalog = memory.catalog, memory'.statistics = memory.statistics,
           memory'.tables = memory.tables
    PROVE  MemoryInv'
<1>1. HasTables(disk, memory, committed)
    BY DEF MemoryInv
<1>2. HasTables(disk', memory', committed')
    BY <1>1, Zenon DEF HasTables
<1> QED BY <1>2, Zenon DEF MemoryInv

\* A process that runs has position 0.
LEMMA RunningPosition ==
    ASSUME TypeOK, disk.log = <<>>
    PROVE  replayPos = 0
BY DEF TypeOK

\* A COPY that fails leaves write versions that no later statement of the process meets.
LEMMA CopyFailsStep ==
    ASSUME IInv, NEW kind \in Kinds, NEW id, CopyFails(kind, id)
    PROVE  IInv'
<1> USE DEF CopyFails, MayExecute
<1>1. IsRunning /\ disk.log = <<>> /\ replayPos = 0
    BY RunningPosition DEF IInv, MemoryInv, IsRunning, HasTables
<1>2. /\ IsMemory(memory')
      /\ memory'.catalog = memory.catalog /\ memory'.statistics = memory.statistics
      /\ memory'.tables = memory.tables
    BY DEF IInv, TypeOK, IsMemory, IsByKind, Kinds
<1>3. LogInv' /\ DiskInv' /\ ReplayInv' /\ CheckpointInv' /\ replayPos' \in 0..Len(disk'.log)
    BY <1>1, QuietDisk DEF IInv, TypeOK
<1>4. MemoryInv'
    BY <1>1, <1>2, QuietMemory DEF IInv
<1>5. TypeOK'
    BY <1>2, <1>3 DEF IInv, TypeOK
<1>6. StatementInv'
    BY DEF StatementInv
<1> QED BY <1>3, <1>4, <1>5, <1>6 DEF IInv

\* A commit writes the .wal files of the catalog and of statistics, and nothing else.
LEMMA WALFiles ==
    ASSUME IsDisk(disk)
    PROVE  /\ IsDisk(WALFilesWritten)
           /\ WALFilesWritten.catalog = disk.catalog
           /\ WALFilesWritten.statistics = disk.statistics
           /\ WALFilesWritten.files = disk.files
           /\ WALFilesWritten.filesWAL = disk.filesWAL
           /\ WALFilesWritten.log = disk.log
           /\ memory.catalogWrite # None => WALFilesWritten.catalogWAL = memory.catalogWrite
           /\ \A kind \in Kinds :
                  (\E i \in DOMAIN StatisticsRecords : StatisticsRecords[i].kind = kind) =>
                      WALFilesWritten.statisticsWAL[kind] = memory.statisticsWrite[kind]
<1> DEFINE kinds == {r.kind : r \in {StatisticsRecords[i] : i \in DOMAIN StatisticsRecords}}
           write == [kind \in Kinds |-> IF kind \in kinds THEN memory.statisticsWrite[kind]
                                                          ELSE disk.statisticsWAL[kind]]
           catalogWAL == IF memory.catalogWrite = None THEN disk.catalogWAL ELSE memory.catalogWrite
<1>1. WALFilesWritten = [disk EXCEPT !.catalogWAL = catalogWAL, !.statisticsWAL = write]
    BY DEF WALFilesWritten, IsDisk
<1>2. IsByKind(write)
    <2> HIDE DEF kinds
    <2> QED BY DEF IsByKind, Kinds
<1>3. \A kind \in Kinds :
          (\E i \in DOMAIN StatisticsRecords : StatisticsRecords[i].kind = kind) =>
              write[kind] = memory.statisticsWrite[kind]
    OBVIOUS
<1>4. memory.catalogWrite # None => catalogWAL = memory.catalogWrite
    OBVIOUS
<1> HIDE DEF write, catalogWAL
<1> QED BY <1>1, <1>2, <1>3, <1>4 DEF IsDisk

\* A commit that times out has written .wal files that the log does not name.
LEMMA CommitTimesOutStep ==
    ASSUME IInv, CommitTimesOut
    PROVE  IInv'
<1> USE DEF CommitTimesOut
<1>1. IsRunning /\ disk.log = <<>> /\ replayPos = 0
    BY RunningPosition DEF IInv, MemoryInv, IsRunning, HasTables
<1>2. /\ IsDisk(disk') /\ disk'.log = <<>> /\ disk'.catalog = disk.catalog
      /\ disk'.statistics = disk.statistics /\ disk'.files = disk.files
    BY <1>1, WALFiles DEF IInv, TypeOK
<1>3. LogInv' /\ DiskInv' /\ ReplayInv' /\ CheckpointInv' /\ replayPos' \in 0..Len(disk'.log)
    BY <1>1, <1>2, QuietDisk
<1>4. MemoryInv'
    BY <1>1, <1>2, QuietMemory DEF IInv
<1>5. TypeOK'
    BY <1>2, <1>3 DEF IInv, TypeOK
<1>6. StatementInv'
    BY DEF StatementInv
<1> QED BY <1>3, <1>4, <1>5, <1>6 DEF IInv

\* The rollback touches nothing that is committed.
LEMMA RollbackStep ==
    ASSUME IInv, RollbackDDL
    PROVE  IInv'
<1> USE DEF RollbackDDL
<1>1. IsRunning /\ disk.log = <<>> /\ replayPos = 0
    BY RunningPosition DEF IInv, MemoryInv, IsRunning, HasTables
<1>2. /\ IsMemory(memory')
      /\ memory'.catalog = memory.catalog /\ memory'.statistics = memory.statistics
      /\ memory'.tables = memory.tables
    BY DEF IInv, TypeOK, IsMemory, IsByKind
<1>3. LogInv' /\ DiskInv' /\ ReplayInv' /\ CheckpointInv' /\ replayPos' \in 0..Len(disk'.log)
    BY <1>1, QuietDisk DEF IInv, TypeOK
<1>4. MemoryInv'
    BY <1>1, <1>2, QuietMemory DEF IInv
<1>5. TypeOK'
    BY <1>2, <1>3 DEF IInv, TypeOK
<1>6. StatementInv'
    BY DEF StatementInv
<1> QED BY <1>3, <1>4, <1>5, <1>6 DEF IInv

\* The .wal files are removed once the log that names them is gone.
LEMMA RemoveWALFilesStep ==
    ASSUME IInv, RemoveWALFiles
    PROVE  IInv'
<1> USE DEF RemoveWALFiles
<1>1. IsRunning /\ disk.log = <<>> /\ replayPos = 0
    BY RunningPosition DEF IInv, IsRunning
<1>2. /\ IsDisk(disk') /\ disk'.log = <<>> /\ disk'.catalog = disk.catalog
      /\ disk'.statistics = disk.statistics /\ disk'.files = disk.files
    BY <1>1 DEF IInv, TypeOK, IsDisk, IsByKind, RemovedWALFiles
<1>3. LogInv' /\ DiskInv' /\ ReplayInv' /\ CheckpointInv' /\ replayPos' \in 0..Len(disk'.log)
    BY <1>1, <1>2, QuietDisk
<1>4. MemoryInv'
    BY <1>1, <1>2, QuietMemory DEF IInv
<1>5. TypeOK'
    BY <1>2, <1>3 DEF IInv, TypeOK
<1>6. StatementInv'
    BY DEF StatementInv
<1> QED BY <1>3, <1>4, <1>5, <1>6 DEF IInv

\* The memory of a process that has stopped.
LEMMA EmptyMemoryType == IsMemory(EmptyMemory)
BY DEF IsMemory, EmptyMemory, EmptyStatistics, IsByKind

\* A crash at any point leaves files that lead to the tables that are committed.
LEMMA CrashStep ==
    ASSUME IInv, Crash
    PROVE  IInv'
<1> USE DEF Crash
<1>1. TypeOK'
    BY EmptyMemoryType DEF IInv, TypeOK, IsDisk
<1>2. LogInv' /\ DiskInv'
    BY DEF IInv, LogInv, DiskInv
<1>3. ReplayInv'
    BY DEF ReplayInv
<1>4. CheckpointInv' /\ MemoryInv' /\ StatementInv'
    BY DEF CheckpointInv, MemoryInv, StatementInv, IsRunning
<1> QED BY <1>1, <1>2, <1>3, <1>4 DEF IInv

\* A database starts with a recovery.
LEMMA StartStep ==
    ASSUME IInv, StartDatabase
    PROVE  IInv'
<1> USE DEF StartDatabase
<1>1. TypeOK'
    BY DEF IInv, TypeOK
<1>2. LogInv' /\ DiskInv' /\ ReplayInv'
    BY DEF IInv, LogInv, DiskInv, ReplayInv
<1>3. CheckpointInv' /\ MemoryInv' /\ StatementInv'
    BY DEF CheckpointInv, MemoryInv, StatementInv, IsRunning
<1> QED BY <1>1, <1>2, <1>3 DEF IInv

\* A database that is opened has the tables of its files.
LEMMA OpenStep ==
    ASSUME IInv, OpenDatabase
    PROVE  IInv'
<1> DEFINE tables == {<<kind, id>> : kind \in Kinds,
                                     id \in DOMAIN disk.catalog.node \cup DOMAIN disk.catalog.rel}
           loaded == {t \in tables : t[2] \in DOMAIN disk.catalog[t[1]]}
<1>1. /\ dbPhase = "recover" /\ disk.log = <<>>
      /\ memory' = [memory EXCEPT !.catalog = disk.catalog, !.statistics = disk.statistics,
                                  !.tables = loaded]
      /\ dbPhase' \in {"idle", "unopenable"}
      /\ UNCHANGED <<disk, replayPos, committed, statements, crashes>>
    BY DEF OpenDatabase
<1>2. replayPos = 0
    BY <1>1, RunningPosition DEF IInv
<1> HIDE DEF loaded
<1>3. /\ IsMemory(memory')
      /\ memory'.catalog = disk.catalog /\ memory'.statistics = disk.statistics
      /\ memory'.tables = loaded
    BY <1>1 DEF IInv, TypeOK, IsMemory, IsDisk
<1>4. LogInv' /\ DiskInv' /\ ReplayInv' /\ CheckpointInv' /\ replayPos' \in 0..Len(disk'.log)
    BY <1>1, <1>2, QuietDisk DEF IInv, TypeOK
<1>5. IsCatalog(disk.catalog) /\ AreWhole(disk.catalog, disk.statistics, disk.files, committed)
    BY <1>1, EmptyLogLeads DEF IInv, DiskInv
<1>6. ASSUME NEW kind \in Kinds, NEW id \in DOMAIN disk.catalog[kind]
      PROVE  <<kind, id>> \in loaded
    <2>1. id \in DOMAIN disk.catalog.node \cup DOMAIN disk.catalog.rel
        BY <1>6 DEF Kinds
    <2>2. <<kind, id>> \in tables
        BY <2>1
    <2> HIDE DEF tables
    <2> QED BY <2>2, <1>6 DEF loaded
<1>7. HasTables(disk', memory', committed')
    BY <1>1, <1>3, <1>5, <1>6 DEF HasTables
<1>8. MemoryInv'
    BY <1>7 DEF MemoryInv
<1>9. TypeOK'
    BY <1>1, <1>3, <1>4 DEF IInv, TypeOK
<1>10. StatementInv'
    BY <1>1 DEF StatementInv
<1> QED BY <1>4, <1>8, <1>9, <1>10 DEF IInv

\* When every record has been replayed nothing is left.
LEMMA AllIsReplayed ==
    ASSUME NEW d, IsDisk(d), d.log # <<>>, \A i \in 1..Len(d.log) : IsReplayed(d, i)
    PROVE  /\ FinalFiles(d) = d.files
           /\ FinalCatalog(d) = d.catalog
           /\ \A kind \in Kinds : FinalStatistics(d)[kind] = d.statistics[kind]
<1>1. DOMAIN d.log = 1..Len(d.log) /\ Len(d.log) \in Nat /\ Len(d.log) > 0
    BY DEF IsDisk
<1>2. FinalFiles(d) = d.files
    <2>1. 1 \in 1..Len(d.log)
        BY <1>1
    <2> QED BY <2>1, Zenon DEF IsReplayed
<1>3. FinalCatalog(d) = d.catalog
    BY <1>1 DEF IsReplayed, FinalCatalog, HasCatalog
<1>4. ASSUME NEW kind \in Kinds PROVE FinalStatistics(d)[kind] = d.statistics[kind]
    BY <1>1 DEF IsReplayed, FinalStatistics, HasStatistics
<1> QED BY <1>2, <1>3, <1>4

\* The log is cleared once all of it has been replayed, or before anything is committed.
LEMMA ClearLogStep ==
    ASSUME IInv, ClearLog
    PROVE  IInv'
<1>1. /\ dbPhase \in {"replay", "recover"} /\ replayPos = Len(disk.log) /\ disk.log # <<>>
      /\ disk' = [disk EXCEPT !.log = <<>>] /\ memory' = [memory EXCEPT !.log = <<>>]
      /\ replayPos' = 0 /\ UNCHANGED <<dbPhase, committed, statements, crashes>>
    BY DEF ClearLog, IInv, MemoryInv, IsRunning, HasTables
<1>2. /\ IsDisk(disk') /\ disk'.log = <<>> /\ disk'.catalog = disk.catalog
      /\ disk'.statistics = disk.statistics /\ disk'.files = disk.files
    BY <1>1 DEF IInv, TypeOK, IsDisk
<1>3. /\ IsMemory(memory')
      /\ memory'.catalog = memory.catalog /\ memory'.statistics = memory.statistics
      /\ memory'.tables = memory.tables
    BY <1>1 DEF IInv, TypeOK, IsMemory
<1>4. /\ FinalFiles(disk) = disk.files
      /\ FinalCatalog(disk) = disk.catalog
      /\ \A kind \in Kinds : FinalStatistics(disk)[kind] = disk.statistics[kind]
    BY <1>1, AllIsReplayed DEF IInv, TypeOK, ReplayInv
<1>5. IsCatalog(disk.catalog) /\ AreWhole(disk.catalog, disk.statistics, disk.files, committed)
    <2>1. IsCatalog(disk.catalog) /\ AreWhole(disk.catalog, FinalStatistics(disk), disk.files, committed)
        BY <1>4, Zenon DEF IInv, DiskInv, LeadsTo
    <2> QED BY <2>1, <1>4, SameStatistics, Zenon
<1>6. DiskInv'
    BY <1>1, <1>2, <1>5, EmptyLogLeads, Zenon DEF DiskInv
<1>7. LogInv' /\ ReplayInv' /\ CheckpointInv' /\ replayPos' \in 0..Len(disk'.log)
    BY <1>1, <1>2 DEF LogInv, IsLog, ReplayInv, CheckpointInv
<1>8. MemoryInv'
    <2> SUFFICES ASSUME dbPhase = "replay" PROVE HasTables(disk', memory', committed')
        BY <1>1 DEF MemoryInv, IsRunning
    <2>1. Follows(disk, memory, replayPos, committed)
        BY <1>1 DEF IInv, CheckpointInv
    <2>2. DOMAIN disk.log = 1..Len(disk.log) /\ Len(disk.log) \in Nat /\ Len(disk.log) > 0
        BY <1>1 DEF IInv, TypeOK, IsDisk
    <2>3. \A kind \in Kinds : PendingStatistics(disk, memory, replayPos)[kind] = memory.statistics[kind]
        BY <1>1, <2>2 DEF PendingStatistics, IsPending
    <2>4. memory.catalog = disk.catalog
        BY <1>1, <2>1, <2>2 DEF Follows, HasCatalog
    <2>5. AreWhole(disk.catalog, memory.statistics, disk.files, committed)
        <3>1. AreWhole(disk.catalog, PendingStatistics(disk, memory, replayPos), disk.files, committed)
            BY <2>1, <1>4, Zenon DEF Follows
        <3> QED BY <3>1, <2>3, SameStatistics, Zenon
    <2>6. \A kind \in Kinds : \A id \in DOMAIN disk.catalog[kind] : <<kind, id>> \in memory.tables
        <3>1. replayPos # 0
            BY <1>1, <2>2
        <3> QED BY <3>1, <1>4, <2>1, Zenon DEF Follows
    <2> QED BY <1>1, <1>2, <1>3, <2>4, <2>5, <2>6, Zenon DEF HasTables
<1>9. TypeOK'
    BY <1>1, <1>2, <1>3, <1>7 DEF IInv, TypeOK
<1>10. StatementInv'
    BY <1>1 DEF StatementInv
<1> QED BY <1>6, <1>7, <1>8, <1>9, <1>10 DEF IInv

-----------------------------------------------------------------------------
(* The commit: the log is written.                                          *)

\* A sequence and one record more.
LEMMA OneMore ==
    ASSUME NEW S, NEW s \in Seq(S), NEW x \in S, NEW n \in Nat, Len(s) = n
    PROVE  /\ s \o <<x>> \in Seq(S) /\ Len(s \o <<x>>) = n + 1
           /\ (s \o <<x>>)[n + 1] = x
           /\ \A i \in 1..n : (s \o <<x>>)[i] = s[i]
OBVIOUS

\* A sequence and nothing.
LEMMA NoMore == ASSUME NEW S, NEW s \in Seq(S) PROVE s \o <<>> = s
OBVIOUS

\* The records of a commit: that of the statement, and one for each .wal file.
LEMMA CommitLog ==
    ASSUME NEW record \in StatementRecords
    PROVE  LET log == CommitRecords(record)
           IN  /\ log \in Seq(LogRecords) /\ log # <<>> /\ log[1] = record
               /\ IsLog(log)
               /\ HasCatalog(log) <=> memory.catalogWrite # None
               /\ \A kind \in Kinds : HasStatistics(log, kind) <=>
                      \E i \in DOMAIN StatisticsRecords : StatisticsRecords[i].kind = kind
<1> DEFINE log == CommitRecords(record)
           commit == [type |-> "COMMIT"]
           catalog == [type |-> "CATALOG"]
           kindOf == IF "node" \in {kind \in Kinds : memory.statisticsWrite[kind] # None}
                     THEN "node" ELSE "rel"
           statistics == [type |-> "TABLE_STATISTICS", kind |-> kindOf]
<1>1. record.type \in StatementTypes /\ record \in LogRecords
    BY DEF StatementRecords, LogRecords
<1>2. kindOf \in Kinds
    BY DEF Kinds
<1> HIDE DEF kindOf
<1>3. /\ statistics \in StatisticsRecordsOf /\ statistics \in LogRecords
      /\ statistics.type = "TABLE_STATISTICS" /\ statistics.kind = kindOf
    BY <1>2 DEF StatisticsRecordsOf, LogRecords
<1>4. /\ commit \in OtherRecords /\ commit \in LogRecords /\ commit.type = "COMMIT"
      /\ catalog \in OtherRecords /\ catalog \in LogRecords /\ catalog.type = "CATALOG"
    BY DEF OtherRecords, LogRecords
<1>5. StatisticsRecords = <<>> \/ StatisticsRecords = <<statistics>>
    BY DEF StatisticsRecords, kindOf
<1>6. \/ memory.catalogWrite = None /\ CatalogRecords = <<>>
      \/ memory.catalogWrite # None /\ CatalogRecords = <<catalog>>
    BY DEF CatalogRecords
<1> HIDE DEF statistics, commit, catalog
<1> DEFINE s1 == <<record>>
           s2 == s1 \o StatisticsRecords
           s3 == s2 \o CatalogRecords
<1>7. log = s3 \o <<commit>>
    BY DEF CommitRecords, commit
<1>8. s1 \in Seq(LogRecords) /\ Len(s1) = 1 /\ s1[1] = record
    BY <1>1
<1> HIDE DEF log, s1, s2, s3
<1> USE DEF StatementTypes, IsLog, HasCatalog, HasStatistics
<1>9. CASE StatisticsRecords = <<>> /\ memory.catalogWrite = None /\ CatalogRecords = <<>>
    <2>1. /\ s2 \in Seq(LogRecords) /\ Len(s2) = 1 /\ s2[1] = record
        BY <1>1, <1>3, <1>8, <1>9, NoMore DEF s2
    <2>2. /\ s3 \in Seq(LogRecords) /\ Len(s3) = 1 /\ s3[1] = record
        BY <1>4, <2>1, <1>9, NoMore DEF s3
    <2>3. /\ log \in Seq(LogRecords) /\ Len(log) = 2
          /\ log[1] = record /\ log[2] = commit
        BY <1>4, <1>7, <2>2, OneMore
    <2>4. log # <<>> /\ DOMAIN log = 1..2
        BY <2>3
    <2> QED BY <2>3, <2>4, <1>1, <1>3, <1>4, <1>9 DEF log
<1>10. CASE StatisticsRecords = <<>> /\ memory.catalogWrite # None /\ CatalogRecords = <<catalog>>
    <2>1. /\ s2 \in Seq(LogRecords) /\ Len(s2) = 1 /\ s2[1] = record
        BY <1>1, <1>3, <1>8, <1>10, NoMore DEF s2
    <2>2. /\ s3 \in Seq(LogRecords) /\ Len(s3) = 2 /\ s3[1] = record /\ s3[2] = catalog
        BY <1>4, <2>1, <1>10, OneMore DEF s3
    <2>3. /\ log \in Seq(LogRecords) /\ Len(log) = 3
          /\ log[1] = record /\ log[2] = catalog /\ log[3] = commit
        BY <1>4, <1>7, <2>2, OneMore
    <2>4. log # <<>> /\ DOMAIN log = 1..3
        BY <2>3
    <2> QED BY <2>3, <2>4, <1>1, <1>3, <1>4, <1>10 DEF log
<1>11. CASE StatisticsRecords = <<statistics>> /\ memory.catalogWrite = None /\ CatalogRecords = <<>>
    <2>1. /\ s2 \in Seq(LogRecords) /\ Len(s2) = 2 /\ s2[1] = record /\ s2[2] = statistics
        BY <1>1, <1>3, <1>8, <1>11, OneMore DEF s2
    <2>2. /\ s3 \in Seq(LogRecords) /\ Len(s3) = 2 /\ s3[1] = record /\ s3[2] = statistics
        BY <1>4, <2>1, <1>11, NoMore DEF s3
    <2>3. /\ log \in Seq(LogRecords) /\ Len(log) = 3
          /\ log[1] = record /\ log[2] = statistics /\ log[3] = commit
        BY <1>4, <1>7, <2>2, OneMore
    <2>4. log # <<>> /\ DOMAIN log = 1..3
        BY <2>3
    <2> QED BY <2>3, <2>4, <1>1, <1>3, <1>4, <1>11 DEF log
<1>12. CASE StatisticsRecords = <<statistics>> /\ memory.catalogWrite # None
             /\ CatalogRecords = <<catalog>>
    <2>1. /\ s2 \in Seq(LogRecords) /\ Len(s2) = 2 /\ s2[1] = record /\ s2[2] = statistics
        BY <1>1, <1>3, <1>8, <1>12, OneMore DEF s2
    <2>2. /\ s3 \in Seq(LogRecords) /\ Len(s3) = 3 /\ s3[1] = record /\ s3[2] = statistics /\ s3[3] = catalog
        <3>1. s2 \in Seq(LogRecords) /\ Len(s2) = 2 /\ catalog \in LogRecords /\ 2 \in Nat
            BY <1>4, <2>1
        <3>2. s3 = s2 \o <<catalog>>
            BY <1>12 DEF s3
        <3>3. /\ s3 \in Seq(LogRecords) /\ Len(s3) = 2 + 1 /\ s3[2 + 1] = catalog
              /\ \A k \in 1..2 : s3[k] = s2[k]
            BY <3>1, <3>2, OneMore
        <3> QED BY <2>1, <3>3
    <2>3. /\ log \in Seq(LogRecords) /\ Len(log) = 4
          /\ log[1] = record /\ log[2] = statistics /\ log[3] = catalog /\ log[4] = commit
        BY <1>4, <1>7, <2>2, OneMore
    <2>4. log # <<>> /\ DOMAIN log = 1..4
        BY <2>3
    <2> QED BY <2>3, <2>4, <1>1, <1>3, <1>4, <1>12 DEF log
<1> QED BY <1>5, <1>6, <1>9, <1>10, <1>11, <1>12

\* The statistics that are logged are those that the statement has updated.
LEMMA LoggedStatistics ==
    ASSUME memory.statisticsWrite.node = None \/ memory.statisticsWrite.rel = None,
           NEW kind \in Kinds
    PROVE  (\E i \in DOMAIN StatisticsRecords : StatisticsRecords[i].kind = kind)
               <=> memory.statisticsWrite[kind] # None
<1> DEFINE updated == {k \in Kinds : memory.statisticsWrite[k] # None}
           kindOf == IF "node" \in updated THEN "node" ELSE "rel"
<1>1. CASE updated = {}
    <2>1. StatisticsRecords = <<>>
        BY <1>1 DEF StatisticsRecords
    <2> QED BY <1>1, <2>1
<1>2. CASE updated # {}
    <2>1. StatisticsRecords = <<[type |-> "TABLE_STATISTICS", kind |-> kindOf]>>
        BY <1>2 DEF StatisticsRecords
    <2>2. kind = kindOf <=> memory.statisticsWrite[kind] # None
        BY <1>2 DEF Kinds
    <2> HIDE DEF kindOf
    <2> QED BY <2>1, <2>2
<1> QED BY <1>1, <1>2

\* The flush of the log commits: from then on its replay leads to the tables of the statement.
LEMMA CommitStep ==
    ASSUME IInv, CommitDDL
    PROVE  IInv'
<1>1. /\ dbPhase = "commit"
      /\ IsRunning /\ disk.log = <<>> /\ replayPos = 0 /\ IsDisk(disk)
      /\ UNCHANGED <<memory, replayPos, statements, crashes>>
    BY RunningPosition DEF CommitDDL, IInv, TypeOK, MemoryInv, IsRunning, HasTables
<1>2. CASE ~ListsArePrepared
    <2>1. disk' = WALFilesWritten /\ dbPhase' = "broken" /\ committed' = committed
        BY <1>2, Zenon DEF CommitDDL
    <2>2. /\ IsDisk(disk') /\ disk'.log = <<>> /\ disk'.catalog = disk.catalog
          /\ disk'.statistics = disk.statistics /\ disk'.files = disk.files
        BY <1>1, <2>1, WALFiles
    <2>3. LogInv' /\ DiskInv' /\ ReplayInv' /\ CheckpointInv' /\ replayPos' \in 0..Len(disk'.log)
        BY <1>1, <2>1, <2>2, QuietDisk
    <2>4. MemoryInv' /\ StatementInv'
        BY <2>1 DEF MemoryInv, StatementInv, IsRunning
    <2>5. TypeOK'
        BY <1>1, <2>1, <2>2, <2>3 DEF IInv, TypeOK
    <2> QED BY <2>3, <2>4, <2>5 DEF IInv
<1>3. CASE ListsArePrepared
    <2> DEFINE record == memory.log[1]
               log == CommitRecords(record)
               content == Else(memory.catalogWrite, memory.catalog)
               tables == memory.log[2].tables
    <2>1. /\ disk' = [WALFilesWritten EXCEPT !.log = log]
          /\ dbPhase' = "replay" /\ committed' = tables
        BY <1>3, Zenon DEF CommitDDL
    <2>2. IsReady(disk, memory)
        BY <1>1 DEF IInv, StatementInv
    <2>3. record \in StatementRecords
        BY <2>2, Zenon DEF IsReady
    <2>4. /\ log \in Seq(LogRecords) /\ log # <<>> /\ log[1] = record
          /\ IsLog(log)
          /\ HasCatalog(log) <=> memory.catalogWrite # None
        BY <2>3, CommitLog, Zenon
    <2>5. \A kind \in Kinds : HasStatistics(log, kind) <=> memory.statisticsWrite[kind] # None
        BY <2>2, <2>3, CommitLog, LoggedStatistics, Zenon DEF IsReady
    <2> HIDE DEF log
    <2>6. /\ IsDisk(disk') /\ disk'.log = log /\ disk'.catalog = disk.catalog
          /\ disk'.statistics = disk.statistics /\ disk'.files = disk.files
          /\ disk'.filesWAL = disk.filesWAL
          /\ disk'.catalogWAL = WALFilesWritten.catalogWAL
          /\ disk'.statisticsWAL = WALFilesWritten.statisticsWAL
        BY <1>1, <2>1, <2>4, WALFiles DEF IsDisk
    <2>7. /\ memory.catalogWrite # None => disk'.catalogWAL = memory.catalogWrite
          /\ \A kind \in Kinds : memory.statisticsWrite[kind] # None =>
                 disk'.statisticsWAL[kind] = memory.statisticsWrite[kind]
        BY <1>1, <2>2, <2>6, WALFiles, LoggedStatistics, Zenon DEF IsReady
    <2>8. FinalFiles(disk') = FilesAfter(record, disk.files, disk.filesWAL)
        BY <2>4, <2>6, Zenon DEF FinalFiles
    <2>9. FinalCatalog(disk') = content
        BY <1>1, <2>4, <2>6, <2>7, Zenon DEF FinalCatalog, Else, IInv, MemoryInv, HasTables
    <2>10. \A kind \in Kinds :
              FinalStatistics(disk')[kind] = Written(memory.statisticsWrite, disk.statistics)[kind]
        BY <2>5, <2>6, <2>7 DEF FinalStatistics, Written, Else
    <2>11. \A kind \in Kinds : PendingStatistics(disk', memory, 0)[kind]
                                   = Written(memory.statisticsWrite, memory.statistics)[kind]
        <3>1. \A kind \in Kinds : IsPending(disk'.log, 0, kind) <=> HasStatistics(disk'.log, kind)
            BY <2>6 DEF IsPending, HasStatistics, IsDisk
        <3> QED BY <3>1, <2>5, <2>6 DEF PendingStatistics, Written, Else
    <2>12. LeadsTo(disk', tables)
        <3>1. AreWhole(content, FinalStatistics(disk'), FinalFiles(disk'), tables)
            BY <2>2, <2>8, <2>10, SameStatistics, Zenon DEF IsReady
        <3>2. disk'.log[1].type = "DROP_TABLE" =>
                  disk'.log[1].id \notin DOMAIN FinalCatalog(disk')[disk'.log[1].kind]
            BY <2>2, <2>4, <2>6, <2>9, Zenon DEF IsReady
        <3>3. IsCatalog(FinalCatalog(disk'))
            BY <2>2, <2>9, Zenon DEF IsReady
        <3>4. /\ HasCatalog(disk'.log) => disk'.catalogWAL # None
              /\ \A kind \in Kinds : HasStatistics(disk'.log, kind) => disk'.statisticsWAL[kind] # None
            BY <2>4, <2>5, <2>6, <2>7, Zenon
        <3> QED BY <3>1, <3>2, <3>3, <3>4, <2>9, Zenon DEF LeadsTo
    <2>13. Follows(disk', memory, 0, tables)
        <3>1. AreWhole(content, PendingStatistics(disk', memory, 0), FinalFiles(disk'), tables)
            BY <2>2, <2>8, <2>11, SameStatistics, Zenon DEF IsReady
        <3>2. ~HasCatalog(disk'.log) => memory.catalog = disk'.catalog
            BY <1>1, <2>6, Zenon DEF IInv, MemoryInv, HasTables
        <3>3. \A i \in DOMAIN disk'.log : disk'.log[i].type = "CATALOG" =>
                  ~(i <= 0) /\ memory.catalogWrite[1] = disk'.catalogWAL[1]
            BY <2>4, <2>6, <2>7 DEF HasCatalog, IsDisk
        <3>4. \A kind \in Kinds : \A id \in DOMAIN FinalCatalog(disk')[kind] :
                  <<kind, id>> \in memory.tables \/ IsMade(disk'.log[1], <<kind, id>>)
            BY <2>2, <2>4, <2>6, <2>9, Zenon DEF IsReady
        <3> QED BY <3>1, <3>2, <3>3, <3>4, <2>9, Zenon DEF Follows
    <2>14. LogInv' /\ DiskInv' /\ CheckpointInv'
        BY <1>1, <2>1, <2>4, <2>6, <2>12, <2>13, Zenon DEF LogInv, DiskInv, CheckpointInv
    <2>15. ReplayInv'
        BY <1>1 DEF ReplayInv
    <2>16. MemoryInv' /\ StatementInv'
        BY <2>1, <2>4, <2>6 DEF MemoryInv, StatementInv, IsRunning
    <2>17. TypeOK'
        <3>1. IsByKind(committed')
            BY <2>1, <2>2, Zenon DEF IsReady
        <3>2. 0 \in 0..Len(disk'.log)
            BY <2>4, <2>6
        <3> QED BY <3>1, <3>2, <1>1, <2>1, <2>6 DEF IInv, TypeOK
    <2> QED BY <2>14, <2>15, <2>16, <2>17 DEF IInv
<1> QED BY <1>2, <1>3

-----------------------------------------------------------------------------
(* The replay of a record.                                                  *)

\* Doing something twice is doing it once.
LEMMA WithTwice == ASSUME NEW f, NEW x, NEW y PROVE With(With(f, x, y), x, y) = With(f, x, y)
BY DEF With

\* ... also for a removal.
LEMMA WithoutTwice == ASSUME NEW f, NEW x PROVE Without(Without(f, x), x) = Without(f, x)
BY DEF Without, Restrict

\* What FilesAfter is for each type of record.
LEMMA FilesAfterIs ==
    ASSUME NEW record, NEW files, NEW filesWAL
    PROVE  LET file == <<record.kind, record.id>>
               after == FilesAfter(record, files, filesWAL)
           IN  /\ record.type \in {"NODE_TABLE", "REL_TABLE"} => after = With(files, file, 0)
               /\ record.type = "DROP_TABLE" => after = Without(files, file)
               /\ record.type = "COPY" /\ file \in DOMAIN filesWAL =>
                      after = With(files, file, filesWAL[file])
               /\ record.type = "COPY" /\ file \notin DOMAIN filesWAL => after = files
BY Zenon DEF FilesAfter

\* What Replayed is for each type of record.
LEMMA ReplayedIs ==
    ASSUME NEW record
    PROVE  LET file == <<record.kind, record.id>>
           IN  /\ record.type \in {"NODE_TABLE", "REL_TABLE"} =>
                      Replayed(record) = [disk EXCEPT !.files = With(@, file, 0)]
               /\ record.type = "DROP_TABLE" =>
                      Replayed(record) = [disk EXCEPT !.files = Without(@, file)]
               /\ record.type = "COPY" /\ file \notin DOMAIN disk.filesWAL => Replayed(record) = disk
               /\ record.type = "COPY" /\ file \in DOMAIN disk.filesWAL =>
                      Replayed(record) = [disk EXCEPT !.files = With(@, file, disk.filesWAL[file]),
                                                      !.filesWAL = Without(@, file)]
               /\ record.type = "TABLE_STATISTICS" =>
                      Replayed(record) =
                          [disk EXCEPT !.statistics[record.kind] = Else(disk.statisticsWAL[record.kind], @)]
               /\ record.type = "CATALOG" =>
                      Replayed(record) = [disk EXCEPT !.catalog = Else(disk.catalogWAL, @)]
               /\ record.type = "COMMIT" => Replayed(record) = disk
BY Zenon DEF Replayed

\* What Reloaded is for each type of record.
LEMMA ReloadedIs ==
    ASSUME NEW record
    PROVE  /\ record.type \in {"NODE_TABLE", "REL_TABLE"} =>
                  Reloaded(record) = [memory EXCEPT !.tables = @ \cup {<<record.kind, record.id>>}]
           /\ record.type = "DROP_TABLE" =>
                  Reloaded(record) = [memory EXCEPT !.tables = @ \ {<<record.kind, record.id>>},
                                          !.statistics[record.kind] = Without(@, record.id)]
           /\ record.type = "TABLE_STATISTICS" =>
                  Reloaded(record) =
                      [memory EXCEPT !.statistics[record.kind] = memory.statisticsWrite[record.kind][1],
                                     !.statisticsWrite[record.kind] = None]
           /\ record.type = "CATALOG" =>
                  Reloaded(record) = [memory EXCEPT !.catalog = memory.catalogWrite[1],
                                                    !.catalogWrite = None]
           /\ record.type \in {"COPY", "COMMIT"} => Reloaded(record) = memory
BY Zenon DEF Reloaded

\* The record of a statement makes the files what they will be in the end.
LEMMA StatementIsReplayed ==
    ASSUME IsDisk(disk), NEW record \in StatementRecords
    PROVE  LET d == Replayed(record)
           IN  /\ IsDisk(d) /\ d.log = disk.log /\ d.catalog = disk.catalog
               /\ d.catalogWAL = disk.catalogWAL /\ d.statistics = disk.statistics
               /\ d.statisticsWAL = disk.statisticsWAL
               /\ d.files = FilesAfter(record, disk.files, disk.filesWAL)
               /\ FilesAfter(record, d.files, d.filesWAL) = d.files
<1> DEFINE d == Replayed(record)
           file == <<record.kind, record.id>>
<1>1. record.type \in StatementTypes
    BY DEF StatementRecords
<1>2. CASE record.type \in {"NODE_TABLE", "REL_TABLE"}
    <2>1. d = [disk EXCEPT !.files = With(@, file, 0)]
        BY <1>2, ReplayedIs, Zenon
    <2>2. /\ IsDisk(d) /\ d.log = disk.log /\ d.catalog = disk.catalog
          /\ d.catalogWAL = disk.catalogWAL /\ d.statistics = disk.statistics
          /\ d.statisticsWAL = disk.statisticsWAL /\ d.files = With(disk.files, file, 0)
        BY <2>1 DEF IsDisk
    <2>3. \A f, w : FilesAfter(record, f, w) = With(f, file, 0)
        BY <1>2, FilesAfterIs, Zenon
    <2>4. With(With(disk.files, file, 0), file, 0) = With(disk.files, file, 0)
        BY WithTwice
    <2>5. FilesAfter(record, d.files, d.filesWAL) = With(d.files, file, 0)
        BY <2>3, Zenon
    <2> HIDE DEF d, file
    <2>6. FilesAfter(record, d.files, d.filesWAL) = d.files
        BY <2>2, <2>4, <2>5
    <2> QED BY <2>2, <2>3, <2>6, Zenon DEF d
<1>3. CASE record.type = "DROP_TABLE"
    <2>1. d = [disk EXCEPT !.files = Without(@, file)]
        BY <1>3, ReplayedIs, Zenon
    <2>2. /\ IsDisk(d) /\ d.log = disk.log /\ d.catalog = disk.catalog
          /\ d.catalogWAL = disk.catalogWAL /\ d.statistics = disk.statistics
          /\ d.statisticsWAL = disk.statisticsWAL /\ d.files = Without(disk.files, file)
        BY <2>1 DEF IsDisk
    <2>3. \A f, w : FilesAfter(record, f, w) = Without(f, file)
        BY <1>3, FilesAfterIs, Zenon
    <2> QED BY <2>2, <2>3, WithoutTwice, ZenonT(30)
<1>4. CASE record.type = "COPY" /\ file \notin DOMAIN disk.filesWAL
    <2>1. d = disk
        BY <1>4, ReplayedIs, Zenon
    <2>2. FilesAfter(record, disk.files, disk.filesWAL) = disk.files
        BY <1>4, FilesAfterIs, Zenon
    <2> QED BY <2>1, <2>2, Zenon
<1>5. CASE record.type = "COPY" /\ file \in DOMAIN disk.filesWAL
    <2>1. d = [disk EXCEPT !.files = With(@, file, disk.filesWAL[file]), !.filesWAL = Without(@, file)]
        BY <1>5, ReplayedIs, Zenon
    <2>2. /\ IsDisk(d) /\ d.log = disk.log /\ d.catalog = disk.catalog
          /\ d.catalogWAL = disk.catalogWAL /\ d.statistics = disk.statistics
          /\ d.statisticsWAL = disk.statisticsWAL
          /\ d.files = With(disk.files, file, disk.filesWAL[file])
          /\ d.filesWAL = Without(disk.filesWAL, file)
        BY <2>1 DEF IsDisk
    <2>3. file \notin DOMAIN d.filesWAL
        BY <2>2 DEF Without, Restrict
    <2>4. FilesAfter(record, disk.files, disk.filesWAL) = With(disk.files, file, disk.filesWAL[file])
        BY <1>5, FilesAfterIs, Zenon
    <2>5. FilesAfter(record, d.files, d.filesWAL) = d.files
        BY <1>5, <2>3, FilesAfterIs, Zenon
    <2> QED BY <2>2, <2>4, <2>5, Zenon
<1> QED BY <1>1, <1>2, <1>3, <1>4, <1>5 DEF StatementTypes

\* What a record does to the files does not change what they lead to, and need not be done again.
LEMMA RecordIsReplayed ==
    ASSUME IInv, replayPos < Len(disk.log), NEW d, d = Replayed(disk.log[replayPos + 1])
    PROVE  /\ IsDisk(d) /\ d.log = disk.log
           /\ d.catalogWAL = disk.catalogWAL /\ d.statisticsWAL = disk.statisticsWAL
           /\ FinalFiles(d) = FinalFiles(disk) /\ FinalCatalog(d) = FinalCatalog(disk)
           /\ LeadsTo(d, committed)
           /\ \A i \in 1..(replayPos + 1) : IsReplayed(d, i)
           /\ disk.log[replayPos + 1].type # "CATALOG" => d.catalog = disk.catalog
<1> DEFINE pos == replayPos + 1
           record == disk.log[pos]
<1>1. /\ IsDisk(disk) /\ replayPos \in Nat /\ Len(disk.log) \in Nat
      /\ DOMAIN disk.log = 1..Len(disk.log) /\ disk.log # <<>> /\ pos \in DOMAIN disk.log
    BY DEF IInv, TypeOK, IsDisk
<1>2. /\ disk.log[1] \in StatementRecords
      /\ pos > 1 => record \in StatisticsRecordsOf \cup OtherRecords
      /\ \A i, j \in DOMAIN disk.log : disk.log[i].type = disk.log[j].type => i = j
    BY <1>1 DEF IInv, LogInv, IsLog
<1>3. \A i \in 1..replayPos : IsReplayed(disk, i)
    BY DEF IInv, ReplayInv
<1>4. LeadsTo(disk, committed)
    BY DEF IInv, DiskInv
<1>5. SUFFICES /\ IsDisk(d) /\ d.log = disk.log
               /\ d.catalogWAL = disk.catalogWAL /\ d.statisticsWAL = disk.statisticsWAL
               /\ FinalFiles(d) = FinalFiles(disk) /\ FinalCatalog(d) = FinalCatalog(disk)
               /\ \A kind \in Kinds : FinalStatistics(d)[kind] = FinalStatistics(disk)[kind]
               /\ \A i \in 1..pos : IsReplayed(d, i)
               /\ record.type # "CATALOG" => d.catalog = disk.catalog
    <2>1. AreWhole(FinalCatalog(d), FinalStatistics(d), FinalFiles(d), committed)
        <3>1. AreWhole(FinalCatalog(d), FinalStatistics(disk), FinalFiles(d), committed)
            BY <1>4, <1>5, Zenon DEF LeadsTo
        <3> QED BY <3>1, <1>5, SameStatistics, Zenon
    <2>2. LeadsTo(d, committed)
        BY <1>4, <1>5, <2>1, Zenon DEF LeadsTo
    <2> QED BY <1>5, <2>2
<1>6. CASE pos = 1
    <2>1. /\ IsDisk(d) /\ d.log = disk.log /\ d.catalog = disk.catalog
          /\ d.catalogWAL = disk.catalogWAL /\ d.statistics = disk.statistics
          /\ d.statisticsWAL = disk.statisticsWAL
          /\ d.files = FilesAfter(record, disk.files, disk.filesWAL)
          /\ FilesAfter(record, d.files, d.filesWAL) = d.files
        BY <1>1, <1>2, <1>6, StatementIsReplayed
    <2>2. FinalFiles(d) = FinalFiles(disk) /\ d.files = FinalFiles(d)
        BY <1>1, <1>6, <2>1 DEF FinalFiles
    <2>3. /\ FinalCatalog(d) = FinalCatalog(disk)
          /\ \A kind \in Kinds : FinalStatistics(d)[kind] = FinalStatistics(disk)[kind]
        BY <2>1, Zenon DEF FinalCatalog, FinalStatistics
    <2>4. record.type # "TABLE_STATISTICS" /\ record.type # "CATALOG"
        BY <1>2, <1>6 DEF StatementRecords, StatementTypes
    <2>5. \A i \in 1..pos : IsReplayed(d, i)
        BY <1>6, <2>1, <2>2, <2>4 DEF IsReplayed
    <2> QED BY <2>1, <2>2, <2>3, <2>5
<1>7. CASE pos > 1
    <2>1. CASE record \in StatisticsRecordsOf
        <3>1. record.type = "TABLE_STATISTICS" /\ record.kind \in Kinds
            BY <2>1 DEF StatisticsRecordsOf
        <3>2. HasStatistics(disk.log, record.kind)
            BY <1>1, <3>1 DEF HasStatistics
        <3>3. disk.statisticsWAL[record.kind] # None
            BY <1>4, <3>1, <3>2 DEF LeadsTo
        <3>4. d = [disk EXCEPT !.statistics[record.kind] = disk.statisticsWAL[record.kind][1]]
            BY <3>1, <3>3, ReplayedIs, Zenon DEF Else
        <3>5. /\ IsDisk(d) /\ d.log = disk.log /\ d.catalog = disk.catalog
              /\ d.catalogWAL = disk.catalogWAL /\ d.statisticsWAL = disk.statisticsWAL
              /\ d.files = disk.files /\ d.filesWAL = disk.filesWAL
              /\ \A kind \in Kinds : d.statistics[kind] =
                     IF kind = record.kind THEN disk.statisticsWAL[kind][1] ELSE disk.statistics[kind]
            BY <1>1, <3>1, <3>4 DEF IsDisk, IsByKind, Kinds
        <3>6. FinalFiles(d) = FinalFiles(disk) /\ FinalCatalog(d) = FinalCatalog(disk)
            BY <3>5, Zenon DEF FinalFiles, FinalCatalog
        <3>7. \A kind \in Kinds : FinalStatistics(d)[kind] = FinalStatistics(disk)[kind]
            BY <3>2, <3>5 DEF FinalStatistics
        <3>8. ASSUME NEW i \in 1..pos PROVE IsReplayed(d, i)
            <4>1. CASE i = pos
                BY <1>7, <3>1, <3>5, <4>1 DEF IsReplayed
            <4>2. CASE i # pos
                <5>1. IsReplayed(disk, i) /\ i \in DOMAIN disk.log
                    BY <1>1, <1>3, <3>8, <4>2
                <5>2. disk.log[i].type # "TABLE_STATISTICS"
                    BY <1>1, <1>2, <3>1, <4>2, <5>1
                <5> QED BY <3>5, <3>6, <5>1, <5>2 DEF IsReplayed
            <4> QED BY <4>1, <4>2
        <3> QED BY <3>5, <3>6, <3>7, <3>8
    <2>2. CASE record.type = "CATALOG"
        <3>1. HasCatalog(disk.log)
            BY <1>1, <2>2 DEF HasCatalog
        <3>2. disk.catalogWAL # None
            BY <1>4, <3>1 DEF LeadsTo
        <3>3. d = [disk EXCEPT !.catalog = disk.catalogWAL[1]]
            BY <2>2, <3>2, ReplayedIs, Zenon DEF Else
        <3>4. /\ IsDisk(d) /\ d.log = disk.log /\ d.catalog = disk.catalogWAL[1]
              /\ d.catalogWAL = disk.catalogWAL /\ d.statisticsWAL = disk.statisticsWAL
              /\ d.files = disk.files /\ d.filesWAL = disk.filesWAL
              /\ d.statistics = disk.statistics
            BY <1>1, <3>3 DEF IsDisk
        <3>5. /\ FinalFiles(d) = FinalFiles(disk) /\ FinalCatalog(d) = FinalCatalog(disk)
              /\ \A kind \in Kinds : FinalStatistics(d)[kind] = FinalStatistics(disk)[kind]
            BY <3>1, <3>4, Zenon DEF FinalFiles, FinalCatalog, FinalStatistics
        <3>6. ASSUME NEW i \in 1..pos PROVE IsReplayed(d, i)
            <4>1. CASE i = pos
                BY <1>7, <2>2, <3>4, <4>1 DEF IsReplayed
            <4>2. CASE i # pos
                <5>1. IsReplayed(disk, i)
                    BY <1>1, <1>3, <3>6, <4>2
                <5> QED BY <3>4, <3>5, <5>1 DEF IsReplayed
            <4> QED BY <4>1, <4>2
        <3> QED BY <2>2, <3>4, <3>5, <3>6
    <2>3. CASE record.type = "COMMIT"
        <3>1. d = disk
            BY <2>3, ReplayedIs, Zenon
        <3>2. ASSUME NEW i \in 1..pos PROVE IsReplayed(d, i)
            <4>1. CASE i = pos
                BY <1>7, <2>3, <3>1, <4>1 DEF IsReplayed
            <4>2. CASE i # pos
                BY <1>1, <1>3, <3>1, <3>2, <4>2
            <4> QED BY <4>1, <4>2
        <3> QED BY <1>1, <3>1, <3>2
    <2> QED BY <1>2, <1>7, <2>1, <2>2, <2>3 DEF OtherRecords
<1> QED BY <1>1, <1>6, <1>7

\* A recovery replays one record of the log, which an earlier process may have replayed already.
LEMMA RecoverStep ==
    ASSUME IInv, RecoverDDL
    PROVE  IInv'
<1> DEFINE record == disk.log[replayPos + 1]
<1>1. /\ dbPhase = "recover" /\ replayPos < Len(disk.log)
      /\ UNCHANGED <<memory, committed, statements, crashes>>
    BY DEF RecoverDDL
<1>2. CASE SchemaIsFound(record, disk.catalog)
    <2>1. disk' = Replayed(record) /\ replayPos' = replayPos + 1 /\ dbPhase' = dbPhase
        BY <1>2, Zenon DEF RecoverDDL
    <2>2. /\ IsDisk(disk') /\ disk'.log = disk.log /\ LeadsTo(disk', committed)
          /\ \A i \in 1..(replayPos + 1) : IsReplayed(disk', i)
        BY <1>1, <2>1, RecordIsReplayed
    <2>3. LogInv' /\ DiskInv' /\ ReplayInv'
        BY <1>1, <2>1, <2>2 DEF IInv, LogInv, DiskInv, ReplayInv
    <2>4. CheckpointInv' /\ MemoryInv' /\ StatementInv'
        BY <1>1, <2>1 DEF CheckpointInv, MemoryInv, StatementInv, IsRunning
    <2>5. replayPos' \in 0..Len(disk'.log)
        BY <1>1, <2>1, <2>2 DEF IInv, TypeOK, IsDisk
    <2>6. TypeOK'
        BY <1>1, <2>1, <2>2, <2>5 DEF IInv, TypeOK
    <2> QED BY <2>3, <2>4, <2>6 DEF IInv
<1>3. CASE ~SchemaIsFound(record, disk.catalog)
    <2>1. dbPhase' = "unopenable" /\ disk' = disk /\ replayPos' = replayPos
        BY <1>3, Zenon DEF RecoverDDL
    <2>2. TypeOK'
        BY <1>1, <2>1 DEF IInv, TypeOK
    <2>3. LogInv' /\ DiskInv' /\ ReplayInv'
        BY <1>1, <2>1 DEF IInv, LogInv, DiskInv, ReplayInv
    <2>4. CheckpointInv' /\ MemoryInv' /\ StatementInv'
        BY <2>1 DEF CheckpointInv, MemoryInv, StatementInv, IsRunning
    <2> QED BY <2>2, <2>3, <2>4 DEF IInv
<1> QED BY <1>2, <1>3

\* A record by kind is a function on the kinds.
LEMMA ByKindIsAFunction == ASSUME NEW x PROVE IsByKind(x) <=> x = [kind \in Kinds |-> x[kind]]
<1>1. IsByKind(x) => x = [kind \in Kinds |-> x[kind]]
    BY DEF IsByKind, Kinds
<1>2. x = [kind \in Kinds |-> x[kind]] => IsByKind(x)
    BY DEF IsByKind, Kinds
<1> QED BY <1>1, <1>2

\* A new value for one kind.
ForKind(x, kind, y) == [x EXCEPT ![kind] = y]
LEMMA ByKind ==
    ASSUME NEW x, IsByKind(x), NEW kind \in Kinds, NEW y
    PROVE  /\ IsByKind(ForKind(x, kind, y))
           /\ \A k \in Kinds : ForKind(x, kind, y)[k] = IF k = kind THEN y ELSE x[k]
<1> DEFINE new == ForKind(x, kind, y)
<1>1. x = [k \in Kinds |-> x[k]]
    BY ByKindIsAFunction, Zenon
<1>2. new = [k \in Kinds |-> IF k = kind THEN y ELSE x[k]]
    BY <1>1 DEF ForKind
<1>3. \A k \in Kinds : new[k] = IF k = kind THEN y ELSE x[k]
    BY <1>2
<1>4. new = [k \in Kinds |-> new[k]]
    BY <1>2
<1> QED BY <1>3, <1>4, ByKindIsAFunction, Zenon

\* Statistics of a table that is not there do not matter.
LEMMA SpareStatistics ==
    ASSUME NEW kind, NEW tables, NEW statistics, NEW files, NEW copies, NEW id,
           Agree(kind, tables, statistics, files, copies), id \notin DOMAIN tables
    PROVE  Agree(kind, tables, Without(statistics, id), files, copies)
<1>1. /\ DOMAIN Without(statistics, id) = DOMAIN statistics \ {id}
      /\ \A a \in DOMAIN statistics : a # id => Without(statistics, id)[a] = statistics[a]
    BY FunctionWithout, Zenon
<1> QED BY <1>1 DEF Agree

\* What a record does to the memory of the process keeps it in step with the files.
LEMMA RecordIsReloaded ==
    ASSUME IInv, dbPhase = "replay", replayPos < Len(disk.log),
           NEW d, d = Replayed(disk.log[replayPos + 1]),
           NEW m, m = Reloaded(disk.log[replayPos + 1])
    PROVE  IsMemory(m) /\ Follows(d, m, replayPos + 1, committed)
<1> DEFINE pos == replayPos + 1
           record == disk.log[pos]
<1>1. /\ IsDisk(disk) /\ IsMemory(memory) /\ replayPos \in Nat /\ Len(disk.log) \in Nat
      /\ DOMAIN disk.log = 1..Len(disk.log) /\ disk.log # <<>> /\ pos \in DOMAIN disk.log
    BY DEF IInv, TypeOK, IsDisk
<1>2. /\ disk.log[1] \in StatementRecords
      /\ pos > 1 => record \in StatisticsRecordsOf \cup OtherRecords
      /\ \A i, j \in DOMAIN disk.log : disk.log[i].type = disk.log[j].type => i = j
    BY <1>1 DEF IInv, LogInv, IsLog
<1>3. Follows(disk, memory, replayPos, committed)
    BY <1>1 DEF IInv, CheckpointInv
<1>4. /\ d.log = disk.log /\ d.catalogWAL = disk.catalogWAL
      /\ FinalFiles(d) = FinalFiles(disk) /\ FinalCatalog(d) = FinalCatalog(disk)
      /\ \A i \in 1..pos : IsReplayed(d, i)
      /\ record.type # "CATALOG" => d.catalog = disk.catalog
    BY RecordIsReplayed
<1> DEFINE CatalogFollows ==
               /\ ~HasCatalog(d.log) => m.catalog = d.catalog
               /\ \A i \in DOMAIN d.log : d.log[i].type = "CATALOG" =>
                      IF i <= pos THEN m.catalog = d.catalog
                                  ELSE m.catalogWrite[1] = d.catalogWAL[1]
           TablesFollow ==
               \A kind \in Kinds : \A id \in DOMAIN FinalCatalog(disk)[kind] : <<kind, id>> \in m.tables
<1>5. ASSUME record.type # "CATALOG", m.catalog = memory.catalog,
             m.catalogWrite = memory.catalogWrite
      PROVE  CatalogFollows
    <2>1. ~HasCatalog(d.log) => m.catalog = d.catalog
        BY <1>3, <1>4, <1>5, Zenon DEF Follows
    <2>2. ASSUME NEW i \in DOMAIN d.log, d.log[i].type = "CATALOG"
          PROVE  IF i <= pos THEN m.catalog = d.catalog ELSE m.catalogWrite[1] = d.catalogWAL[1]
        <3>1. i # pos /\ i \in DOMAIN disk.log /\ disk.log[i].type = "CATALOG"
            BY <1>4, <1>5, <2>2
        <3>2. IF i <= replayPos THEN memory.catalog = disk.catalog
                                ELSE memory.catalogWrite[1] = disk.catalogWAL[1]
            BY <1>3, <3>1 DEF Follows
        <3> QED BY <1>1, <1>4, <1>5, <3>1, <3>2
    <2> QED BY <2>1, <2>2
<1>6. ASSUME record.type # "TABLE_STATISTICS", NEW kind \in Kinds
      PROVE  IsPending(d.log, pos, kind) <=> IsPending(disk.log, replayPos, kind)
    BY <1>1, <1>4, <1>6 DEF IsPending
<1>7. ASSUME pos > 1, m.tables = memory.tables PROVE TablesFollow
    <2>1. replayPos # 0
        BY <1>1, <1>7
    <2> QED BY <1>3, <1>7, <2>1, Zenon DEF Follows
<1>8. SUFFICES /\ IsMemory(m) /\ CatalogFollows /\ TablesFollow
               /\ AreWhole(FinalCatalog(disk), PendingStatistics(d, m, pos), FinalFiles(disk), committed)
    BY <1>4, <1>8, Zenon DEF Follows
<1>9. ASSUME record.type # "TABLE_STATISTICS", m.statistics = memory.statistics,
             m.statisticsWrite = memory.statisticsWrite
      PROVE  AreWhole(FinalCatalog(disk), PendingStatistics(d, m, pos), FinalFiles(disk), committed)
    <2>1. \A kind \in Kinds :
              PendingStatistics(d, m, pos)[kind] = PendingStatistics(disk, memory, replayPos)[kind]
        BY <1>6, <1>9 DEF PendingStatistics
    <2> QED BY <1>3, <2>1, SameStatistics, Zenon DEF Follows
<1> HIDE DEF CatalogFollows, TablesFollow
<1>10. CASE pos = 1
    <2>1. /\ record.type \in StatementTypes /\ record.kind \in Kinds
          /\ record.type # "TABLE_STATISTICS" /\ record.type # "CATALOG"
        BY <1>2, <1>10 DEF StatementRecords, StatementTypes
    <2>2. \A kind \in Kinds : \A id \in DOMAIN FinalCatalog(disk)[kind] :
              <<kind, id>> \in memory.tables \/ IsMade(record, <<kind, id>>)
        BY <1>3, <1>10, Zenon DEF Follows
    <2>3. CASE record.type \in {"NODE_TABLE", "REL_TABLE"}
        <3>1. m = [memory EXCEPT !.tables = @ \cup {<<record.kind, record.id>>}]
            BY <2>3, ReloadedIs, Zenon
        <3>2. /\ IsMemory(m) /\ m.catalog = memory.catalog /\ m.catalogWrite = memory.catalogWrite
              /\ m.statistics = memory.statistics /\ m.statisticsWrite = memory.statisticsWrite
              /\ m.tables = memory.tables \cup {<<record.kind, record.id>>}
            BY <1>1, <3>1 DEF IsMemory
        <3>3. TablesFollow
            BY <2>2, <3>2, Zenon DEF IsMade, TablesFollow
        <3> QED BY <1>5, <1>9, <2>1, <3>2, <3>3
    <2>4. CASE record.type = "DROP_TABLE"
        <3>1. m = [memory EXCEPT !.tables = @ \ {<<record.kind, record.id>>},
                                 !.statistics[record.kind] = Without(@, record.id)]
            BY <2>4, ReloadedIs, Zenon
        <3>2. /\ IsMemory(m) /\ m.catalog = memory.catalog /\ m.catalogWrite = memory.catalogWrite
              /\ m.statisticsWrite = memory.statisticsWrite
              /\ m.tables = memory.tables \ {<<record.kind, record.id>>}
              /\ \A kind \in Kinds : m.statistics[kind] =
                     IF kind = record.kind THEN Without(memory.statistics[kind], record.id)
                                           ELSE memory.statistics[kind]
            <4> HIDE DEF record
            <4>1. /\ m.catalog = memory.catalog /\ m.catalogWrite = memory.catalogWrite
                  /\ m.statisticsWrite = memory.statisticsWrite /\ m.log = memory.log
                  /\ m.tables = memory.tables \ {<<record.kind, record.id>>}
                  /\ m.statistics = ForKind(memory.statistics, record.kind,
                                           Without(memory.statistics[record.kind], record.id))
                  /\ m = [catalog |-> m.catalog, catalogWrite |-> m.catalogWrite,
                          statistics |-> m.statistics, statisticsWrite |-> m.statisticsWrite,
                          tables |-> m.tables, log |-> m.log]
                BY <1>1, <3>1 DEF IsMemory, ForKind
            <4>2. /\ IsByKind(m.statistics)
                  /\ \A kind \in Kinds : m.statistics[kind] =
                         IF kind = record.kind THEN Without(memory.statistics[kind], record.id)
                                               ELSE memory.statistics[kind]
                <5>1. IsByKind(memory.statistics)
                    BY <1>1 DEF IsMemory
                <5>2. m.statistics = ForKind(memory.statistics, record.kind,
                                             Without(memory.statistics[record.kind], record.id))
                    BY <4>1
                <5>3. /\ IsByKind(m.statistics)
                      /\ \A kind \in Kinds : m.statistics[kind] =
                             IF kind = record.kind
                             THEN Without(memory.statistics[record.kind], record.id)
                             ELSE memory.statistics[kind]
                    BY <2>1, <5>1, <5>2, ByKind, SMT
                <5> QED BY <5>3
            <4> QED BY <1>1, <4>1, <4>2 DEF IsMemory
        <3>3. record.id \notin DOMAIN FinalCatalog(disk)[record.kind]
            BY <1>1, <1>10, <2>4 DEF IInv, DiskInv, LeadsTo
        <3>4. TablesFollow
            <4>1. \A kind \in Kinds : \A id \in DOMAIN FinalCatalog(disk)[kind] :
                      <<kind, id>> # <<record.kind, record.id>>
                BY <3>3
            <4> QED BY <2>2, <2>4, <3>2, <4>1 DEF IsMade, TablesFollow
        <3>5. ASSUME NEW kind \in Kinds
              PROVE  Agree(kind, FinalCatalog(disk)[kind], PendingStatistics(d, m, pos)[kind],
                           FinalFiles(disk), committed[kind])
            <4>1. Agree(kind, FinalCatalog(disk)[kind], PendingStatistics(disk, memory, replayPos)[kind],
                        FinalFiles(disk), committed[kind])
                BY <1>3, Zenon DEF Follows, AreWhole
            <4>2. \/ PendingStatistics(d, m, pos)[kind] = PendingStatistics(disk, memory, replayPos)[kind]
                  \/ /\ kind = record.kind
                     /\ PendingStatistics(d, m, pos)[kind] =
                            Without(PendingStatistics(disk, memory, replayPos)[kind], record.id)
                BY <1>6, <2>1, <3>2 DEF PendingStatistics
            <4>3. CASE kind = record.kind
                BY <3>3, <4>1, <4>2, <4>3, SpareStatistics, Zenon
            <4>4. CASE kind # record.kind
                BY <4>1, <4>2, <4>4, Zenon
            <4> QED BY <4>3, <4>4
        <3> QED BY <1>5, <2>1, <3>2, <3>4, <3>5, Zenon DEF AreWhole
    <2>5. CASE record.type = "COPY"
        <3>1. m = memory
            BY <2>5, ReloadedIs, Zenon
        <3>2. TablesFollow
            BY <2>2, <2>5, <3>1 DEF IsMade, TablesFollow
        <3> QED BY <1>1, <1>5, <1>9, <2>1, <3>1, <3>2
    <2> QED BY <2>1, <2>3, <2>4, <2>5 DEF StatementTypes
<1>11. CASE pos > 1
    <2>1. CASE record \in StatisticsRecordsOf
        <3>1. record.type = "TABLE_STATISTICS" /\ record.kind \in Kinds
            BY <2>1 DEF StatisticsRecordsOf
        <3>2. m = [memory EXCEPT !.statistics[record.kind] = memory.statisticsWrite[record.kind][1],
                                 !.statisticsWrite[record.kind] = None]
            BY <3>1, ReloadedIs, Zenon
        <3>3. /\ IsMemory(m) /\ m.catalog = memory.catalog /\ m.catalogWrite = memory.catalogWrite
              /\ m.tables = memory.tables
              /\ \A kind \in Kinds : m.statistics[kind] =
                     IF kind = record.kind THEN memory.statisticsWrite[kind][1]
                                           ELSE memory.statistics[kind]
            <4> HIDE DEF record
            <4>1. /\ m.catalog = memory.catalog /\ m.catalogWrite = memory.catalogWrite
                  /\ m.tables = memory.tables /\ m.log = memory.log
                  /\ m.statistics = ForKind(memory.statistics, record.kind,
                                           memory.statisticsWrite[record.kind][1])
                  /\ m.statisticsWrite = ForKind(memory.statisticsWrite, record.kind, None)
                  /\ m = [catalog |-> m.catalog, catalogWrite |-> m.catalogWrite,
                          statistics |-> m.statistics, statisticsWrite |-> m.statisticsWrite,
                          tables |-> m.tables, log |-> m.log]
                BY <1>1, <3>2 DEF IsMemory, ForKind
            <4>2. /\ IsByKind(m.statistics) /\ IsByKind(m.statisticsWrite)
                  /\ \A kind \in Kinds : m.statistics[kind] =
                         IF kind = record.kind THEN memory.statisticsWrite[kind][1]
                                               ELSE memory.statistics[kind]
                <5>1. IsByKind(memory.statistics) /\ IsByKind(memory.statisticsWrite)
                    BY <1>1 DEF IsMemory
                <5>2. m.statisticsWrite = ForKind(memory.statisticsWrite, record.kind, None)
                    BY <4>1
                <5>3. m.statistics = ForKind(memory.statistics, record.kind,
                                             memory.statisticsWrite[record.kind][1])
                    BY <4>1
                <5>4. /\ IsByKind(m.statistics)
                      /\ \A kind \in Kinds : m.statistics[kind] =
                             IF kind = record.kind THEN memory.statisticsWrite[record.kind][1]
                                                   ELSE memory.statistics[kind]
                    BY <3>1, <5>1, <5>3, ByKind, SMT
                <5>5. IsByKind(m.statisticsWrite)
                    BY <3>1, <5>1, <5>2, ByKind, SMT
                <5> QED BY <5>4, <5>5
            <4> QED BY <4>1, <4>2 DEF IsMemory
        <3>4. \A kind \in Kinds : /\ ~IsPending(d.log, pos, kind)
                                  /\ IsPending(disk.log, replayPos, kind) <=> kind = record.kind
            BY <1>1, <1>2, <1>4, <3>1 DEF IsPending
        <3>5. \A kind \in Kinds :
                  PendingStatistics(d, m, pos)[kind] = PendingStatistics(disk, memory, replayPos)[kind]
            BY <3>3, <3>4 DEF PendingStatistics
        <3>6. AreWhole(FinalCatalog(disk), PendingStatistics(d, m, pos), FinalFiles(disk), committed)
            BY <1>3, <3>5, SameStatistics, Zenon DEF Follows
        <3> QED BY <1>5, <1>7, <1>11, <3>1, <3>3, <3>6
    <2>2. CASE record.type = "CATALOG"
        <3>1. m = [memory EXCEPT !.catalog = memory.catalogWrite[1], !.catalogWrite = None]
            BY <2>2, ReloadedIs, Zenon
        <3>2. /\ IsMemory(m) /\ m.catalog = memory.catalogWrite[1] /\ m.tables = memory.tables
              /\ m.statistics = memory.statistics /\ m.statisticsWrite = memory.statisticsWrite
            BY <1>1, <3>1 DEF IsMemory
        <3>3. memory.catalogWrite[1] = disk.catalogWAL[1]
            <4>1. ~(pos <= replayPos)
                BY <1>1
            <4> QED BY <1>1, <1>3, <2>2, <4>1 DEF Follows
        <3>4. d.catalog = d.catalogWAL[1]
            BY <1>1, <1>4, <2>2 DEF IsReplayed
        <3>5. CatalogFollows
            <4>1. m.catalog = d.catalog
                BY <1>4, <3>2, <3>3, <3>4
            <4>2. \A i \in DOMAIN d.log : d.log[i].type = "CATALOG" => i <= pos
                BY <1>1, <1>2, <1>4, <2>2
            <4> QED BY <4>1, <4>2, Zenon DEF CatalogFollows
        <3> QED BY <1>7, <1>9, <1>11, <2>2, <3>2, <3>5
    <2>3. CASE record.type = "COMMIT"
        <3>1. m = memory
            BY <2>3, ReloadedIs, Zenon
        <3> QED BY <1>1, <1>5, <1>7, <1>9, <1>11, <2>3, <3>1
    <2> QED BY <1>2, <1>11, <2>1, <2>2, <2>3 DEF OtherRecords
<1> QED BY <1>1, <1>10, <1>11

\* A checkpoint replays one record, in the files and in memory.
LEMMA ReplayStep ==
    ASSUME IInv, ReplayDDL
    PROVE  IInv'
<1> DEFINE record == disk.log[replayPos + 1]
<1>1. /\ dbPhase = "replay" /\ replayPos < Len(disk.log)
      /\ UNCHANGED <<committed, statements, crashes>>
    BY DEF ReplayDDL
<1>2. CASE SchemaIsFound(record, memory.catalog)
    <2>1. /\ disk' = Replayed(record) /\ memory' = Reloaded(record)
          /\ replayPos' = replayPos + 1 /\ dbPhase' = dbPhase
        BY <1>2, Zenon DEF ReplayDDL
    <2>2. /\ IsDisk(disk') /\ disk'.log = disk.log /\ LeadsTo(disk', committed)
          /\ \A i \in 1..(replayPos + 1) : IsReplayed(disk', i)
        BY <1>1, <2>1, RecordIsReplayed
    <2>3. IsMemory(memory') /\ Follows(disk', memory', replayPos', committed')
        BY <1>1, <2>1, RecordIsReloaded
    <2>4. LogInv' /\ DiskInv' /\ ReplayInv'
        BY <1>1, <2>1, <2>2 DEF IInv, LogInv, DiskInv, ReplayInv
    <2>5. disk'.log # <<>> /\ replayPos' \in 0..Len(disk'.log)
        BY <1>1, <2>1, <2>2 DEF IInv, TypeOK, IsDisk
    <2>6. CheckpointInv' /\ MemoryInv' /\ StatementInv'
        BY <1>1, <2>1, <2>3, <2>5, Zenon DEF CheckpointInv, MemoryInv, StatementInv, IsRunning
    <2>7. TypeOK'
        BY <1>1, <2>1, <2>2, <2>3, <2>5 DEF IInv, TypeOK
    <2> QED BY <2>4, <2>6, <2>7 DEF IInv
<1>3. CASE ~SchemaIsFound(record, memory.catalog)
    <2>1. dbPhase' = "broken" /\ disk' = disk /\ memory' = memory /\ replayPos' = replayPos
        BY <1>3, Zenon DEF ReplayDDL
    <2>2. TypeOK'
        BY <1>1, <2>1 DEF IInv, TypeOK
    <2>3. LogInv' /\ DiskInv' /\ ReplayInv'
        BY <1>1, <2>1 DEF IInv, LogInv, DiskInv, ReplayInv
    <2>4. CheckpointInv' /\ MemoryInv' /\ StatementInv'
        BY <2>1 DEF CheckpointInv, MemoryInv, StatementInv, IsRunning
    <2> QED BY <2>2, <2>3, <2>4 DEF IInv
<1> QED BY <1>2, <1>3

-----------------------------------------------------------------------------
(* Statements.                                                              *)

\* A statement of a process in which none has failed, that changes the tables of its kind as
\* its record and its statistics say and leaves those of the other kind their names.
LEMMA ExecuteStep ==
    ASSUME IInv, ~GoOnAfterFailure,
           NEW content, NEW kind \in Kinds, NEW statistics, NEW record \in StatementRecords, NEW tables,
           Execute(content, kind, statistics, record, tables), record.kind = kind,
           NEW new, new = Else(content, memory.catalog), IsCatalog(new), IsByKind(tables),
           IsDisk(disk'), disk'.log = disk.log, disk'.catalog = disk.catalog,
           disk'.statistics = disk.statistics, disk'.files = disk.files,
           \A k \in Kinds : k # kind =>
               /\ DOMAIN new[k] = DOMAIN memory.catalog[k]
               /\ \A id \in DOMAIN new[k] : new[k][id].name = memory.catalog[k][id].name
               /\ tables[k] = committed[k],
           NEW files, files = FilesAfter(record, disk.files, disk'.filesWAL),
           \A old : Agree(kind, memory.catalog[kind], old, disk.files, committed[kind]) =>
                        Agree(kind, new[kind], Else(statistics, old), files, tables[kind]),
           record.type = "DROP_TABLE" => record.id \notin DOMAIN new[kind],
           \A id \in DOMAIN new[kind] :
               id \in DOMAIN memory.catalog[kind] \/ IsMade(record, <<kind, id>>)
    PROVE  IInv'
<1>1. /\ dbPhase = "idle" /\ dbPhase' = "commit" /\ statements' = statements + 1
      /\ memory' = [memory EXCEPT !.catalogWrite = content, !.statisticsWrite[kind] = statistics,
                                  !.log = <<record, [type |-> "tables", tables |-> tables]>>]
      /\ UNCHANGED <<replayPos, committed, crashes>>
      /\ memory.catalogWrite = None /\ \A k \in Kinds : memory.statisticsWrite[k] = None
    BY DEF Execute, MayExecute, NothingIsLeftOver
<1>2. IsRunning /\ disk.log = <<>> /\ replayPos = 0 /\ IsMemory(memory)
    BY <1>1, RunningPosition DEF IInv, TypeOK, MemoryInv, IsRunning, HasTables
<1>3. /\ memory'.catalog = memory.catalog /\ memory'.catalogWrite = content
      /\ memory'.statistics = memory.statistics /\ memory'.tables = memory.tables
      /\ memory'.statisticsWrite = ForKind(memory.statisticsWrite, kind, statistics)
      /\ memory'.log = <<record, [type |-> "tables", tables |-> tables]>>
    BY <1>1, <1>2 DEF IsMemory, ForKind
<1>4. memory' = [catalog |-> memory'.catalog, catalogWrite |-> memory'.catalogWrite,
                 statistics |-> memory'.statistics, statisticsWrite |-> memory'.statisticsWrite,
                 tables |-> memory'.tables, log |-> memory'.log]
    BY <1>1, <1>2 DEF IsMemory
<1>5. /\ IsByKind(memory'.statisticsWrite)
      /\ \A k \in Kinds : memory'.statisticsWrite[k] = IF k = kind THEN statistics ELSE None
    <2>1. IsByKind(memory.statisticsWrite)
        BY <1>2 DEF IsMemory
    <2>2. memory'.statisticsWrite = ForKind(memory.statisticsWrite, kind, statistics)
        BY <1>3
    <2>3. IsByKind(memory'.statisticsWrite)
        BY <2>1, <2>2, ByKind, SMT
    <2>4. \A k \in Kinds : memory'.statisticsWrite[k] =
              IF k = kind THEN statistics ELSE memory.statisticsWrite[k]
        BY <2>1, <2>2, ByKind, SMT
    <2> QED BY <1>1, <2>3, <2>4
<1>6. IsMemory(memory')
    BY <1>2, <1>3, <1>4, <1>5 DEF IsMemory
<1>7. LogInv' /\ DiskInv' /\ ReplayInv' /\ CheckpointInv' /\ replayPos' \in 0..Len(disk'.log)
    BY <1>1, <1>2, QuietDisk
<1>8. MemoryInv'
    BY <1>1, <1>2, <1>3, QuietMemory DEF IInv
<1>9. TypeOK'
    BY <1>1, <1>6, <1>7 DEF IInv, TypeOK
<1>10. HasTables(disk, memory, committed)
    BY <1>2 DEF IInv, MemoryInv
<1>11. AreWhole(memory.catalog, disk.statistics, disk.files, committed)
    BY <1>2, <1>10, EmptyLogLeads DEF IInv, DiskInv, HasTables
<1>12. ASSUME NEW base, AreWhole(memory.catalog, base, disk.files, committed)
       PROVE  AreWhole(new, Written(memory'.statisticsWrite, base), files, tables)
    <2> SUFFICES ASSUME NEW k \in Kinds
                 PROVE  Agree(k, new[k], Written(memory'.statisticsWrite, base)[k], files, tables[k])
        BY DEF AreWhole
    <2>1. Agree(k, memory.catalog[k], base[k], disk.files, committed[k])
        BY <1>12 DEF AreWhole
    <2>2. Written(memory'.statisticsWrite, base)[k] = Else(memory'.statisticsWrite[k], base[k])
        BY DEF Written
    <2>3. CASE k = kind
        <3>1. Agree(kind, memory.catalog[kind], base[kind], disk.files, committed[kind])
            BY <2>1, <2>3
        <3>2. Agree(kind, new[kind], Else(statistics, base[kind]), files, tables[kind])
            BY <3>1
        <3>3. Written(memory'.statisticsWrite, base)[k] = Else(statistics, base[kind])
            BY <1>5, <2>2, <2>3
        <3> QED BY <2>3, <3>2, <3>3
    <2>4. CASE k # kind
        <3>1. Written(memory'.statisticsWrite, base)[k] = base[k]
            BY <1>5, <2>2, <2>4 DEF Else
        <3>2. /\ DOMAIN new[k] = DOMAIN memory.catalog[k] /\ tables[k] = committed[k]
              /\ \A a \in DOMAIN memory.catalog[k] : new[k][a].name = memory.catalog[k][a].name
            BY <2>4
        <3>3. HasFilesOf(k, disk.files, files)
            BY <2>4, OtherFilesStay
        <3>4. Agree(k, new[k], base[k], files, committed[k])
            BY <2>1, <3>2, <3>3, OthersAgree
        <3> QED BY <3>1, <3>2, <3>4
    <2> QED BY <2>3, <2>4
<1>13. IsReady(disk', memory')
    <2>1. memory'.log[1] = record /\ memory'.log[2].tables = tables
        BY <1>3
    <2>2. Else(memory'.catalogWrite, memory'.catalog) = new
        BY <1>3
    <2>3. /\ AreWhole(new, Written(memory'.statisticsWrite, memory'.statistics), files, tables)
          /\ AreWhole(new, Written(memory'.statisticsWrite, disk'.statistics), files, tables)
        BY <1>3, <1>10, <1>11, <1>12 DEF HasTables
    <2>4. memory'.statisticsWrite.node = None \/ memory'.statisticsWrite.rel = None
        BY <1>5 DEF Kinds
    <2>5. ASSUME NEW k \in Kinds, NEW id \in DOMAIN new[k]
          PROVE  <<k, id>> \in memory'.tables \/ IsMade(record, <<k, id>>)
        BY <1>3, <1>10, <2>5 DEF HasTables
    <2>6. FilesAfter(record, disk'.files, disk'.filesWAL) = files
        OBVIOUS
    <2> QED BY <2>1, <2>2, <2>3, <2>4, <2>5, <2>6, Zenon DEF IsReady
<1>14. StatementInv'
    BY <1>1, <1>13 DEF StatementInv
<1> QED BY <1>7, <1>8, <1>9, <1>14 DEF IInv

\* What holds when a statement begins.
LEMMA StatementBegins ==
    ASSUME IInv, MayExecute, ~GoOnAfterFailure
    PROVE  /\ WriteContent = memory.catalog /\ IsCatalog(memory.catalog)
           /\ \A kind \in Kinds : WriteStatistics(kind) = memory.statistics[kind]
           /\ \A kind \in Kinds : Agree(kind, memory.catalog[kind], memory.statistics[kind],
                                        disk.files, committed[kind])
           /\ IsByKind(committed) /\ IsDisk(disk) /\ memory.catalogWrite = None
<1>1. /\ dbPhase = "idle" /\ memory.catalogWrite = None
      /\ \A kind \in Kinds : memory.statisticsWrite[kind] = None
    BY DEF MayExecute, NothingIsLeftOver
<1>2. HasTables(disk, memory, committed)
    BY <1>1 DEF IInv, MemoryInv, IsRunning
<1>3. IsCatalog(memory.catalog)
    BY <1>2, EmptyLogLeads DEF IInv, DiskInv, HasTables
<1>4. \A kind \in Kinds : Agree(kind, memory.catalog[kind], memory.statistics[kind],
                                disk.files, committed[kind])
    BY <1>2 DEF HasTables, AreWhole
<1> QED BY <1>1, <1>3, <1>4 DEF WriteContent, WriteStatistics, Else, IInv, TypeOK

\* CREATE NODE TABLE.
LEMMA CreateNodeTableStep ==
    ASSUME IInv, ~GoOnAfterFailure, NEW name \in NodeTableNames, CreateNodeTable(name)
    PROVE  IInv'
<1> DEFINE old == memory.catalog
           n == Cardinality(DOMAIN old.node)
           schema == NodeTableSchema(name)
           new == AddNodeTableSchema(old, name)
           record == [type |-> "NODE_TABLE", kind |-> "node", id |-> n]
           tables == [committed EXCEPT !.node = With(@, name, 0)]
           statistics == With(memory.statistics.node, n, 0)
           files == With(disk.files, <<"node", n>>, 0)
<1>1. /\ WriteContent = old /\ IsCatalog(old) /\ WriteStatistics("node") = memory.statistics.node
      /\ Agree("node", old.node, memory.statistics.node, disk.files, committed.node)
      /\ IsByKind(committed) /\ IsDisk(disk)
    BY StatementBegins DEF CreateNodeTable, Execute, Kinds
<1>2. /\ name \notin Names(old, "node")
      /\ Execute(<<new>>, "node", <<statistics>>, record, tables)
      /\ disk' = disk
    BY <1>1 DEF CreateNodeTable, NextTableID
<1>3. /\ new = [node |-> With(old.node, n, schema), rel |-> old.rel]
      /\ IsByKind(new) /\ new["node"] = With(old.node, n, schema) /\ new["rel"] = old["rel"]
    BY <1>1 DEF AddNodeTableSchema, NextTableID, IsCatalog, IsByKind
<1>4. schema \in NodeTableSchemas /\ schema.name = name
    BY DEF NodeTableSchema, NodeTableSchemas
<1>5. \A id \in DOMAIN old.node : old.node[id].name # name
    BY <1>2 DEF Names
<1>6. AreTables(With(old.node, n, schema), NodeTableSchemas)
    BY <1>1, <1>4, <1>5, TableIsAdded DEF IsCatalog
<1>7. IsCatalog(new)
    BY <1>1, <1>3, <1>6 DEF IsCatalog
<1>8. n \in Nat /\ n \notin DOMAIN old.node
    BY <1>1, NextIsFree DEF IsCatalog
<1>9. record \in StatementRecords
    BY <1>8 DEF StatementRecords, StatementTypes, Kinds
<1>10. IsByKind(tables) /\ tables["node"] = With(committed.node, name, 0) /\ tables["rel"] = committed["rel"]
    BY <1>1 DEF IsByKind
<1>11. FilesAfter(record, disk.files, disk'.filesWAL) = files
    BY FilesAfterIs
<1>12. Agree("node", new["node"], statistics, files, tables["node"])
    BY <1>1, <1>3, <1>4, <1>5, <1>8, <1>10, CreatedAgrees
<1>13. \A id \in DOMAIN new["node"] : id \in DOMAIN old["node"] \/ IsMade(record, <<"node", id>>)
    BY <1>3 DEF With, IsMade
<1>14. \A k \in Kinds : k # "node" =>
           /\ DOMAIN new[k] = DOMAIN old[k]
           /\ \A id \in DOMAIN new[k] : new[k][id].name = old[k][id].name
           /\ tables[k] = committed[k]
    BY <1>3, <1>10 DEF Kinds
<1>15. Else(<<new>>, old) = new /\ \A s : Else(<<statistics>>, s) = statistics
    BY DEF Else, None
<1>16. record.kind = "node" /\ record.type # "DROP_TABLE"
    OBVIOUS
<1>17. "node" \in Kinds
    BY DEF Kinds
<1> HIDE DEF old, n, schema, new, record, tables, statistics, files
<1> QED BY <1>1, <1>2, <1>7, <1>9, <1>10, <1>11, <1>12, <1>13, <1>14, <1>15, <1>16, <1>17, ExecuteStep
           DEF old

\* The schema of a node table that a relationship table may be bound to.
BoundTo(set, ends, node, id) == IF node \in ends THEN set \cup {id} ELSE set
BoundNode(schema, src, dst, node, id) ==
    [schema EXCEPT !.fwd = BoundTo(@, src, node, id), !.bwd = BoundTo(@, dst, node, id)]
\* Binding a node table keeps its name and the form of its schema.
LEMMA BoundNodeIsASchema ==
    ASSUME NEW schema \in NodeTableSchemas, NEW src, NEW dst, NEW node, NEW id \in Nat
    PROVE  /\ BoundNode(schema, src, dst, node, id) \in NodeTableSchemas
           /\ BoundNode(schema, src, dst, node, id).name = schema.name
<1>1. /\ BoundTo(schema.fwd, src, node, id) \in SUBSET Nat
      /\ BoundTo(schema.bwd, dst, node, id) \in SUBSET Nat
    BY DEF NodeTableSchemas, BoundTo
<1> QED BY <1>1 DEF NodeTableSchemas, BoundNode

\* CREATE REL.
LEMMA CreateRelTableStep ==
    ASSUME IInv, ~GoOnAfterFailure, NEW name \in RelTableNames,
           NEW src \in SUBSET DOMAIN memory.catalog.node, NEW dst \in SUBSET DOMAIN memory.catalog.node,
           CreateRelTable(name, src, dst)
    PROVE  IInv'
<1> DEFINE old == memory.catalog
           n == Cardinality(DOMAIN old.rel)
           schema == RelTableSchema(name, src, dst)
           new == AddRelTableSchema(old, name, src, dst)
           record == [type |-> "REL_TABLE", kind |-> "rel", id |-> n]
           tables == [committed EXCEPT !.rel = With(@, name, 0)]
           statistics == With(memory.statistics.rel, n, 0)
           files == With(disk.files, <<"rel", n>>, 0)
<1>1. /\ WriteContent = old /\ IsCatalog(old) /\ WriteStatistics("rel") = memory.statistics.rel
      /\ Agree("rel", old.rel, memory.statistics.rel, disk.files, committed.rel)
      /\ IsByKind(committed) /\ IsDisk(disk)
    BY StatementBegins DEF CreateRelTable, Execute, Kinds
<1>2. /\ name \notin Names(old, "rel")
      /\ Execute(<<new>>, "rel", <<statistics>>, record, tables)
      /\ disk' = disk
    BY <1>1 DEF CreateRelTable, NextTableID
<1>3. /\ IsByKind(new) /\ new["rel"] = With(old.rel, n, schema)
      /\ DOMAIN new["node"] = DOMAIN old["node"]
    BY DEF AddRelTableSchema, NextTableID, IsByKind
<1>4. schema \in RelTableSchemas /\ schema.name = name
    BY <1>1, NextIsFree DEF RelTableSchema, RelTableSchemas, IsCatalog
<1>5. \A id \in DOMAIN old.rel : old.rel[id].name # name
    BY <1>2 DEF Names
<1>6. AreTables(With(old.rel, n, schema), RelTableSchemas)
    BY <1>1, <1>4, <1>5, TableIsAdded DEF IsCatalog
<1>7. n \in Nat /\ n \notin DOMAIN old.rel
    BY <1>1, NextIsFree DEF IsCatalog
<1>8. /\ AreTables(new.node, NodeTableSchemas)
      /\ \A id \in DOMAIN new["node"] : new["node"][id].name = old["node"][id].name
    <2>1. new.node = [id \in DOMAIN old.node |-> BoundNode(old.node[id], src, dst, id, n)]
        BY DEF AddRelTableSchema, NextTableID, BoundNode, BoundTo
    <2> HIDE DEF new, old, n
    <2>2. ASSUME NEW id \in DOMAIN old.node
          PROVE  new.node[id] \in NodeTableSchemas /\ new.node[id].name = old.node[id].name
        <3>1. old.node[id] \in NodeTableSchemas
            BY <1>1, <2>2 DEF IsCatalog, AreTables
        <3>2. new.node[id] = BoundNode(old.node[id], src, dst, id, n)
            BY <2>1, <2>2
        <3> QED BY <3>1, <3>2, <1>7, BoundNodeIsASchema
    <2>3. new.node \in [DOMAIN old.node -> NodeTableSchemas]
        <3>1. DOMAIN new.node = DOMAIN old.node /\ new.node = [id \in DOMAIN new.node |-> new.node[id]]
            BY <2>1
        <3> QED BY <2>2, <3>1
    <2> QED BY <1>1, <1>3, <2>2, <2>3, TablesAreKept DEF IsCatalog
<1>9. IsCatalog(new)
    BY <1>3, <1>6, <1>8 DEF IsCatalog
<1>10. record \in StatementRecords
    BY <1>7 DEF StatementRecords, StatementTypes, Kinds
<1>11. IsByKind(tables) /\ tables["rel"] = With(committed.rel, name, 0) /\ tables["node"] = committed["node"]
    BY <1>1 DEF IsByKind
<1>12. FilesAfter(record, disk.files, disk'.filesWAL) = files
    BY FilesAfterIs
<1>13. Agree("rel", new["rel"], statistics, files, tables["rel"])
    BY <1>1, <1>3, <1>4, <1>5, <1>7, <1>11, CreatedAgrees
<1>14. \A id \in DOMAIN new["rel"] : id \in DOMAIN old["rel"] \/ IsMade(record, <<"rel", id>>)
    BY <1>3 DEF With, IsMade
<1>15. \A k \in Kinds : k # "rel" =>
           /\ DOMAIN new[k] = DOMAIN old[k]
           /\ \A id \in DOMAIN new[k] : new[k][id].name = old[k][id].name
           /\ tables[k] = committed[k]
    BY <1>3, <1>8, <1>11 DEF Kinds
<1>16. Else(<<new>>, old) = new /\ \A s : Else(<<statistics>>, s) = statistics
    BY DEF Else, None
<1>17. record.kind = "rel" /\ record.type # "DROP_TABLE" /\ "rel" \in Kinds
    BY DEF Kinds
<1> HIDE DEF old, n, schema, new, record, tables, statistics, files
<1> QED BY <1>1, <1>2, <1>9, <1>10, <1>11, <1>12, <1>13, <1>14, <1>15, <1>16, <1>17, ExecuteStep
           DEF old

\* DROP TABLE, of the newest table of its kind.
LEMMA DropTableStep ==
    ASSUME IInv, ~GoOnAfterFailure, ~DropsLeaveGaps, NEW kind \in Kinds,
           NEW id \in DOMAIN memory.catalog[kind], DropTable(kind, id)
    PROVE  IInv'
<1> DEFINE old == memory.catalog
           new == RemoveTableSchema(old, kind, id)
           record == [type |-> "DROP_TABLE", kind |-> kind, id |-> id]
           tables == [committed EXCEPT ![kind] = Without(@, old[kind][id].name)]
           files == Without(disk.files, <<kind, id>>)
<1>1. /\ WriteContent = old /\ IsCatalog(old) /\ IsByKind(committed) /\ IsDisk(disk)
      /\ memory.statisticsWrite[kind] = None
    BY StatementBegins DEF DropTable, Execute, MayExecute, NothingIsLeftOver
<1>2. /\ Execute(<<new>>, kind, None, record, tables) /\ disk' = disk
      /\ \A other \in DOMAIN old[kind] : other <= id
    BY <1>1 DEF DropTable
<1>3. /\ IsByKind(new) /\ new[kind] = Without(old[kind], id)
      /\ \A k \in Kinds : k # kind => new[k] = old[k]
    <2>1. new = ForKind(old, kind, Without(old[kind], id))
        BY DEF RemoveTableSchema, ForKind
    <2>2. IsByKind(old)
        BY <1>1 DEF IsCatalog
    <2> HIDE DEF new, old
    <2>3. IsByKind(new)
        BY <2>1, <2>2, ByKind, SMT
    <2>4. \A k \in Kinds : new[k] = IF k = kind THEN Without(old[kind], id) ELSE old[k]
        BY <2>1, <2>2, ByKind, SMT
    <2> QED BY <2>3, <2>4
<1>4. /\ IsByKind(tables) /\ tables[kind] = Without(committed[kind], old[kind][id].name)
      /\ \A k \in Kinds : k # kind => tables[k] = committed[k]
    <2>1. tables = ForKind(committed, kind, Without(committed[kind], old[kind][id].name))
        BY DEF ForKind
    <2> HIDE DEF tables, old
    <2>2. IsByKind(tables)
        BY <1>1, <2>1, ByKind, SMT
    <2>3. \A k \in Kinds : tables[k] =
              IF k = kind THEN Without(committed[kind], old[kind][id].name) ELSE committed[k]
        BY <1>1, <2>1, ByKind, SMT
    <2> QED BY <2>2, <2>3
<1>5. \E Schemas : AreTables(old[kind], Schemas) /\ (AreTables(new[kind], Schemas) => IsCatalog(new))
    <2>1. CASE kind = "node"
        BY <1>1, <1>3, <2>1 DEF IsCatalog, Kinds
    <2>2. CASE kind = "rel"
        BY <1>1, <1>3, <2>2 DEF IsCatalog, Kinds
    <2> QED BY <2>1, <2>2 DEF Kinds
<1>6. PICK Schemas : AreTables(old[kind], Schemas) /\ (AreTables(new[kind], Schemas) => IsCatalog(new))
    BY <1>5
<1>7. IsCatalog(new)
    BY <1>2, <1>3, <1>6, TableIsRemoved
<1>8. record \in StatementRecords
    BY <1>6, NextIsFree DEF StatementRecords, StatementTypes
<1>9. FilesAfter(record, disk.files, disk'.filesWAL) = files
    BY FilesAfterIs
<1>10. ASSUME NEW s, Agree(kind, old[kind], s, disk.files, committed[kind])
       PROVE  Agree(kind, new[kind], Else(None, s), files, tables[kind])
    <2>1. Else(None, s) = s
        BY DEF Else
    <2>2. \A i, j \in DOMAIN old[kind] : old[kind][i].name = old[kind][j].name => i = j
        BY <1>6 DEF AreTables
    <2> HIDE DEF new, tables
    <2> QED BY <1>3, <1>4, <1>10, <2>1, <2>2, DroppedAgrees
<1>11. /\ \A a \in DOMAIN new[kind] : a \in DOMAIN old[kind]
       /\ id \notin DOMAIN new[kind]
    <2>1. DOMAIN new[kind] = DOMAIN old[kind] \ {id}
        BY <1>3, FunctionWithout, Zenon
    <2> QED BY <2>1
<1>12. Else(<<new>>, old) = new
    BY DEF Else, None
<1>13. record.kind = kind /\ record.id = id
    OBVIOUS
<1> HIDE DEF old, new, record, tables, files
<1> QED BY <1>1, <1>2, <1>3, <1>4, <1>7, <1>8, <1>9, <1>10, <1>11, <1>12, <1>13, ExecuteStep
           DEF old

\* The schemas after a COPY are those before it, but for the unstructured properties of one.
LEMMA CopiedSchemas ==
    ASSUME NEW old, IsCatalog(old), NEW id \in DOMAIN old.node,
           NEW new, new = [old EXCEPT !.node[id].unstructured = @ + 1]
    PROVE  /\ IsCatalog(new)
           /\ \A k \in Kinds : /\ DOMAIN new[k] = DOMAIN old[k]
                                /\ \A a \in DOMAIN old[k] : new[k][a].name = old[k][a].name
<1> DEFINE more == [old.node[id] EXCEPT !.unstructured = @ + 1]
<1>1. old.node \in [DOMAIN old.node -> NodeTableSchemas]
    BY DEF IsCatalog, AreTables
<1>2. more \in NodeTableSchemas /\ more.name = old.node[id].name
    BY <1>1 DEF NodeTableSchemas
<1>3. IsByKind(new) /\ new["rel"] = old["rel"] /\ new["node"] = [old.node EXCEPT ![id] = more]
    BY DEF IsCatalog, IsByKind
<1> HIDE DEF more
<1>4. /\ new["node"] \in [DOMAIN old.node -> NodeTableSchemas]
      /\ \A a \in DOMAIN old.node : new["node"][a].name = old.node[a].name
    BY <1>1, <1>2, <1>3
<1>5. AreTables(new.node, NodeTableSchemas)
    BY <1>4, TablesAreKept DEF IsCatalog
<1>6. IsCatalog(new)
    BY <1>3, <1>5 DEF IsCatalog
<1>7. DOMAIN new["node"] = DOMAIN old["node"]
    BY <1>4
<1> QED BY <1>3, <1>4, <1>6, <1>7 DEF Kinds

\* COPY.
LEMMA CopyCSVStep ==
    ASSUME IInv, ~GoOnAfterFailure, NEW kind \in Kinds,
           NEW id \in DOMAIN memory.catalog[kind], CopyCSV(kind, id)
    PROVE  IInv'
<1> DEFINE old == memory.catalog
           copy == statements + 1
           content == CopiedContent(kind, id)
           new == Else(content, old)
           record == [type |-> "COPY", kind |-> kind, id |-> id]
           copies == [committed[kind] EXCEPT ![old[kind][id].name] = copy]
           tables == [committed EXCEPT ![kind] = copies]
           statistics == With(memory.statistics[kind], id, copy)
           files == With(disk.files, <<kind, id>>, copy)
<1>1. /\ WriteContent = old /\ IsCatalog(old) /\ WriteStatistics(kind) = memory.statistics[kind]
      /\ Agree(kind, old[kind], memory.statistics[kind], disk.files, committed[kind])
      /\ IsByKind(committed) /\ IsDisk(disk) /\ memory.catalogWrite = None
    BY StatementBegins DEF CopyCSV, Execute
<1>2. /\ Execute(content, kind, <<statistics>>, record, tables)
      /\ disk' = [disk EXCEPT !.filesWAL = With(@, <<kind, id>>, copy)]
    BY <1>1 DEF CopyCSV
<1>3. /\ IsDisk(disk') /\ disk'.log = disk.log /\ disk'.catalog = disk.catalog
      /\ disk'.statistics = disk.statistics /\ disk'.files = disk.files
      /\ disk'.filesWAL = With(disk.filesWAL, <<kind, id>>, copy)
    BY <1>1, <1>2 DEF IsDisk
<1>4. /\ IsCatalog(new)
      /\ \A k \in Kinds : /\ DOMAIN new[k] = DOMAIN old[k]
                           /\ \A a \in DOMAIN old[k] : new[k][a].name = old[k][a].name
    <2>1. CASE kind = "rel"
        <3>1. new = old
            BY <1>1, <2>1 DEF CopiedContent, Else
        <3> HIDE DEF new
        <3> QED BY <1>1, <3>1
    <2>2. CASE kind = "node"
        <3>1. new = [old EXCEPT !.node[id].unstructured = @ + 1]
            BY <1>1, <2>2 DEF CopiedContent, Else, None
        <3>2. id \in DOMAIN old.node
            BY <2>2
        <3> HIDE DEF new, old
        <3> QED BY <1>1, <3>1, <3>2, CopiedSchemas, SMTT(20)
    <2> QED BY <2>1, <2>2 DEF Kinds
<1>5. /\ id \in Nat
      /\ \A i, j \in DOMAIN old[kind] : old[kind][i].name = old[kind][j].name => i = j
    <2>1. CASE kind = "rel"
        BY <1>1, <2>1, NextIsFree DEF IsCatalog, AreTables
    <2>2. CASE kind = "node"
        BY <1>1, <2>2, NextIsFree DEF IsCatalog, AreTables
    <2> QED BY <2>1, <2>2 DEF Kinds
<1>6. record \in StatementRecords
    BY <1>5 DEF StatementRecords, StatementTypes
<1>7. /\ IsByKind(tables) /\ tables[kind] = copies
      /\ \A k \in Kinds : k # kind => tables[k] = committed[k]
    <2>1. tables = ForKind(committed, kind, copies)
        BY DEF ForKind
    <2> HIDE DEF tables, copies
    <2>2. IsByKind(tables)
        BY <1>1, <2>1, ByKind, SMT
    <2>3. \A k \in Kinds : tables[k] = IF k = kind THEN copies ELSE committed[k]
        BY <1>1, <2>1, ByKind, SMT
    <2> QED BY <2>2, <2>3
<1>8. FilesAfter(record, disk.files, disk'.filesWAL) = files
    <2> DEFINE file == <<kind, id>>
    <2>1. file \in DOMAIN disk'.filesWAL /\ disk'.filesWAL[file] = copy
        BY <1>3 DEF With
    <2>2. record.type = "COPY" /\ <<record.kind, record.id>> = file
        OBVIOUS
    <2> HIDE DEF file, copy, record
    <2>3. FilesAfter(record, disk.files, disk'.filesWAL) = With(disk.files, file, disk'.filesWAL[file])
        BY <2>1, <2>2, FilesAfterIs, Zenon
    <2> QED BY <2>1, <2>3 DEF file
<1>9. Agree(kind, new[kind], statistics, files, tables[kind])
    <2>1. Agree(kind, new[kind], statistics, files, copies)
        <3> HIDE DEF new, old, copy
        <3> QED BY <1>1, <1>4, <1>5, CopiedAgrees DEF old
    <2> QED BY <2>1, <1>7
<1>10. \A s : Else(<<statistics>>, s) = statistics
    BY DEF Else, None
<1>11. record.kind = kind /\ record.type # "DROP_TABLE"
    OBVIOUS
<1> HIDE DEF old, new, record, tables, files, statistics, content
<1> QED BY <1>1, <1>2, <1>3, <1>4, <1>6, <1>7, <1>8, <1>9, <1>10, <1>11, ExecuteStep
           DEF old, new

-----------------------------------------------------------------------------
(* The theorems.                                                            *)

\* An empty database satisfies the invariant.
LEMMA InitIInv ==
    ASSUME CatalogInit PROVE IInv
<1> USE DEF CatalogInit
<1>1. TypeOK
    <2>1. IsDisk(disk)
        BY DEF IsDisk, IsByKind, EmptyCatalog, EmptyStatistics
    <2>2. IsMemory(memory)
        BY EmptyMemoryType
    <2>3. IsByKind(committed)
        BY DEF IsByKind, Kinds
    <2> QED BY <2>1, <2>2, <2>3 DEF TypeOK
<1>2. LogInv /\ ReplayInv /\ CheckpointInv /\ StatementInv
    BY DEF LogInv, IsLog, ReplayInv, CheckpointInv, StatementInv
<1>3. AreTables(<<>>, NodeTableSchemas) /\ AreTables(<<>>, RelTableSchemas)
    BY FS_EmptySet DEF AreTables
<1>4. IsCatalog(EmptyCatalog)
    BY <1>3 DEF IsCatalog, IsByKind, EmptyCatalog
<1>5. AreWhole(EmptyCatalog, EmptyStatistics, <<>>, committed)
    BY DEF AreWhole, Agree, Kinds, EmptyCatalog
<1>6. DiskInv
    BY <1>4, <1>5, EmptyLogLeads DEF DiskInv
<1>7. HasTables(disk, memory, committed)
    BY <1>5 DEF HasTables, EmptyMemory, Kinds, EmptyCatalog
<1> QED BY <1>1, <1>2, <1>6, <1>7 DEF IInv, MemoryInv

\* Every step of the specification keeps the invariant.
LEMMA NextIInv ==
    ASSUME IInv, ~GoOnAfterFailure, ~DropsLeaveGaps, [CatalogNext]_catalogVars
    PROVE  IInv'
<1>1. ASSUME NEW name \in NodeTableNames, CreateNodeTable(name) PROVE IInv'
    BY <1>1, CreateNodeTableStep
<1>2. ASSUME NEW name \in RelTableNames, NEW src \in SUBSET DOMAIN memory.catalog.node,
             NEW dst \in SUBSET DOMAIN memory.catalog.node, CreateRelTable(name, src, dst)
      PROVE  IInv'
    BY <1>2, CreateRelTableStep
<1>3. ASSUME NEW kind \in Kinds, NEW id \in DOMAIN memory.catalog[kind],
             DropTable(kind, id) \/ CopyCSV(kind, id) \/ CopyFails(kind, id)
      PROVE  IInv'
    <2>1. CASE DropTable(kind, id)
        BY <2>1, DropTableStep
    <2>2. CASE CopyCSV(kind, id)
        BY <2>2, CopyCSVStep
    <2>3. CASE CopyFails(kind, id)
        BY <2>3, CopyFailsStep
    <2> QED BY <1>3, <2>1, <2>2, <2>3
<1>4. CASE CommitDDL
    BY <1>4, CommitStep
<1>5. CASE CommitTimesOut
    BY <1>5, CommitTimesOutStep
<1>6. CASE RollbackDDL
    BY <1>6, RollbackStep
<1>7. CASE ReplayDDL
    BY <1>7, ReplayStep
<1>8. CASE ClearLog
    BY <1>8, ClearLogStep
<1>9. CASE RemoveWALFiles
    BY <1>9, RemoveWALFilesStep
<1>10. CASE Crash
    BY <1>10, CrashStep
<1>11. CASE StartDatabase
    BY <1>11, StartStep
<1>12. CASE RecoverDDL
    BY <1>12, RecoverStep
<1>13. CASE OpenDatabase
    BY <1>13, OpenStep
<1>14. CASE UNCHANGED catalogVars
    BY <1>14, Zenon DEF catalogVars, IInv, TypeOK, LogInv, DiskInv, ReplayInv, CheckpointInv,
                        MemoryInv, StatementInv, IsRunning
<1> QED BY <1>1, <1>2, <1>3, <1>4, <1>5, <1>6, <1>7, <1>8, <1>9, <1>10, <1>11, <1>12, <1>13, <1>14,
           Zenon DEF CatalogNext

\* IInv is an inductive invariant of statements, commits, checkpoints, rollbacks, crashes and
\* recoveries.
THEOREM CatalogInvariance ==
    ASSUME ~GoOnAfterFailure, ~DropsLeaveGaps
    PROVE  CatalogSpec => []IInv
<1>1. CatalogInit => IInv
    BY InitIInv
<1>2. IInv /\ [CatalogNext]_catalogVars => IInv'
    BY NextIInv
<1> QED BY <1>1, <1>2, PTL DEF CatalogSpec

\* An open database in which no statement runs has the tables of the statements that were
\* committed and no others, each with its files, its in-memory table and its count, whatever
\* statement, commit, checkpoint or recovery a crash cut short.  It is proved for processes that
\* run no statement after one that was rolled back, and that drop only the table of a kind with
\* the highest ID: in the other cases the code does lose tables.
THEOREM TablesSurvive ==
    ASSUME ~GoOnAfterFailure, ~DropsLeaveGaps
    PROVE  CatalogSpec => []TablesAreWhole
<1>1. IInv => TablesAreWhole
    <2> SUFFICES ASSUME IInv, dbPhase = "idle" PROVE TablesAreWhole
        BY DEF TablesAreWhole
    <2>1. HasTables(disk, memory, committed)
        BY DEF IInv, MemoryInv, IsRunning
    <2> QED BY <2>1 DEF HasTables, AreWhole, Agree, TablesAreWhole, Names
<1> QED BY <1>1, CatalogInvariance, PTL

=============================================================================
