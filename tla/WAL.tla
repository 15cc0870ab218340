-------------------------------- MODULE WAL --------------------------------
(***************************************************************************)
(* The write-ahead log as a file of pages, with the transactions that      *)
(* write it, the checkpoint that replays it, process crashes and the       *)
(* recovery of the next start.                                             *)
(*                                                                         *)
(* Page 0 of the file is the first header page; a header page holds up to  *)
(* RecordsPerHeaderPage records and the index of the next header page, the *)
(* other pages hold the new versions of updated pages.  The current header *)
(* page is kept in memory, new versions in frames of the buffer pool.  A   *)
(* page the process wrote survives a crash of the process; a page below    *)
(* the end of the file that was never written reads as zeros.              *)
(*                                                                         *)
(* The contents of a page are the write transaction that has updated it    *)
(* last and the number of its updates that are in the page; pages hold     *)
(* <<1, 0>> at first, and <<0, 0>> is a page of zeros.                     *)
(***************************************************************************)
EXTENDS Integers, Sequences, Functions

CONSTANTS
    Pages,                  \* pages of the database files
    RecordsPerHeaderPage,   \* (WAL_HEADER_PAGE_SIZE - prefix) / sizeof(WALRecord)
    MayEvict,               \* the buffer pool is small enough to evict WAL pages
    UpdatesEvicted,         \* a page may be updated again after its WAL page was evicted: TRUE
                            \* is the code
    CrashPhases,            \* the phases in which the process may crash
    MaxTransactions,        \* bound on write transactions
    MaxUpdates,             \* bound on updates of a page, per transaction
    MaxAuxRecords,          \* bound on records without a page, per transaction
    MaxCrashes              \* bound on crashes

ASSUME WALAssumption ==
    /\ RecordsPerHeaderPage \in Nat \ {0}
    /\ MayEvict \in BOOLEAN
    /\ UpdatesEvicted \in BOOLEAN
    /\ MaxTransactions \in Nat
    /\ MaxUpdates \in Nat
    /\ MaxAuxRecords \in Nat
    /\ MaxCrashes \in Nat

VARIABLES
    phase,
    numPages,                   \* of the WAL file handle
    header, currentHeaderPageIdx, offsetInCurrentHeaderPage, isLastLoggedRecordCommit,
    frames,                     \* updated WAL pages in frames of the buffer pool
    unmarked,                   \* those whose frame is not marked dirty
    version,                    \* the WAL page of each updated page, or NoPage
    iterator,                   \* the header page it reads and the records read of it
    pageBuffer,                 \* buffer of the WALReplayer
    isRecovering, isCheckpoint, \* parameters of the WALReplayer
    file,                       \* the WAL file on disk
    original,                   \* the database files on disk
    log, replayed,              \* history: records logged since the last clear, and replayed
    chain,                      \* history: the header pages, and the records before each
    transaction, updates,       \* history: the last write transaction, its updates per page
    committed, durable, crashes,    \* history: what the last durable commit made, the durable
                                \* commits
    torn                        \* history: the process has crashed before a flush was complete

memory == <<numPages, header, currentHeaderPageIdx, offsetInCurrentHeaderPage,
            isLastLoggedRecordCommit, frames, unmarked, version>>
replayer == <<iterator, pageBuffer, isRecovering, isCheckpoint, replayed>>
logged == <<log, chain>>
history == <<transaction, updates, committed, durable, crashes, torn>>
vars == <<phase, memory, replayer, file, original, logged, history>>

NoPage == -1

\* A page of the WAL file: as a header page (numRecords, next, records) and as the page of a
\* database file with n updates of transaction t.
DataPage(t, n) ==
    [numRecords |-> 0, next |-> 0, records |-> <<>>, data |-> t, numUpdates |-> n]
ZeroPage == DataPage(0, 0)
EmptyHeader == [ZeroPage EXCEPT !.next = NoPage]
Contents(page) == <<page.data, page.numUpdates>>

\* The chain of header pages of an empty WAL.
FirstHeader == <<[page |-> 0, first |-> 0]>>

\* The offset is counted in records; INT64_MAX of a WAL opened on an existing file is beyond
\* the end of a header page.
InvalidOffset == RecordsPerHeaderPage + 1

AuxRecord == [type |-> "AUX"]
CommitRecord == [type |-> "COMMIT"]
PageRecord(p, i) == [type |-> "PAGE", page |-> p, pageIdxInWAL |-> i]

\* FileUtils::writeToFile beyond the end leaves a hole of zeros.
WritePage(f, i, content) ==
    [k \in 1..(IF i < Len(f) THEN Len(f) ELSE i + 1) |->
        IF k = i + 1 THEN content ELSE IF k <= Len(f) THEN f[k] ELSE ZeroPage]

\* FileUtils::readFromFile throws beyond the end of the file, but reads nothing and leaves
\* the buffer as it was when the page starts exactly at the end.
CanRead(i) == i <= Len(file)
ReadPage(buffer, i) == IF i = Len(file) THEN buffer ELSE file[i + 1]

IsEmptyWAL == currentHeaderPageIdx = 0 /\ header.numRecords = 0

Init ==
    /\ phase = "ready"
    /\ numPages = 1
    /\ header = EmptyHeader
    /\ currentHeaderPageIdx = 0
    /\ offsetInCurrentHeaderPage = 0
    /\ isLastLoggedRecordCommit = FALSE
    /\ frames = <<>>
    /\ unmarked = {}
    /\ version = [p \in Pages |-> NoPage]
    /\ iterator = [header |-> EmptyHeader, numRead |-> 0]
    /\ pageBuffer = ZeroPage
    /\ isRecovering = FALSE
    /\ isCheckpoint = FALSE
    /\ file = <<>>
    /\ original = [p \in Pages |-> <<1, 0>>]
    /\ log = <<>>
    /\ replayed = <<>>
    /\ chain = FirstHeader
    /\ transaction = 1
    /\ updates = [p \in Pages |-> 0]
    /\ committed = [p \in Pages |-> <<1, 0>>]
    /\ durable = {1}
    /\ crashes = 0
    /\ torn = FALSE

-----------------------------------------------------------------------------
(* Logging.                                                                *)

\* Mutant: the new header page takes the page that was added for the record.
AddNewWALRecord_ReusesPage(record, extra) ==
    LET full == offsetInCurrentHeaderPage + 1 > RecordsPerHeaderPage
        next == numPages
        base == IF full THEN EmptyHeader ELSE header
    IN  /\ numPages' = IF full THEN next + 1 ELSE next
        /\ file' = IF full
                   THEN WritePage(file, currentHeaderPageIdx, [header EXCEPT !.next = next])
                   ELSE file
        /\ currentHeaderPageIdx' = IF full THEN next ELSE currentHeaderPageIdx
        /\ offsetInCurrentHeaderPage' = IF full THEN 1 ELSE offsetInCurrentHeaderPage + 1
        /\ header' = [base EXCEPT !.numRecords = @ + 1, !.records = Append(@, record)]
        /\ isLastLoggedRecordCommit' = (record.type = "COMMIT")
        /\ log' = Append(log, record)
        /\ chain' = IF full THEN Append(chain, [page |-> next, first |-> Len(log)]) ELSE chain

\* addNewWALRecordNoLock, after extra pages have been added to the file handle: a full
\* header page is linked to a new one and written.
AddNewWALRecord(record, extra) ==
    LET full == offsetInCurrentHeaderPage + 1 > RecordsPerHeaderPage
        next == numPages + extra
        base == IF full THEN EmptyHeader ELSE header
    IN  /\ numPages' = IF full THEN next + 1 ELSE next
        /\ file' = IF full
                   THEN WritePage(file, currentHeaderPageIdx, [header EXCEPT !.next = next])
                   ELSE file
        /\ currentHeaderPageIdx' = IF full THEN next ELSE currentHeaderPageIdx
        /\ offsetInCurrentHeaderPage' = IF full THEN 1 ELSE offsetInCurrentHeaderPage + 1
        /\ header' = [base EXCEPT !.numRecords = @ + 1, !.records = Append(@, record)]
        /\ isLastLoggedRecordCommit' = (record.type = "COMMIT")
        /\ log' = Append(log, record)
        /\ chain' = IF full THEN Append(chain, [page |-> next, first |-> Len(log)]) ELSE chain

\* A statement of transaction t begins to update: the next transaction number.
BeginWriteTransaction ==
    /\ phase = "ready"
    /\ log = <<>>
    /\ transaction < MaxTransactions
    /\ transaction' = transaction + 1
    /\ updates' = [p \in Pages |-> 0]
    /\ phase' = "active"
    /\ UNCHANGED <<memory, replayer, file, original, logged, committed, durable, crashes, torn>>

\* The first update of a page logs it and creates its WAL version in a frame.
UpdatePage(p) ==
    /\ phase = "active"
    /\ version[p] = NoPage
    /\ AddNewWALRecord(PageRecord(p, numPages), 1)
    /\ version' = [version EXCEPT ![p] = numPages]
    /\ frames' = [i \in DOMAIN frames \cup {numPages} |->
                     IF i = numPages THEN DataPage(transaction, 1) ELSE frames[i]]
    /\ updates' = [updates EXCEPT ![p] = 1]
    /\ UNCHANGED <<phase, replayer, original, unmarked, transaction, committed, durable, crashes,
                   torn>>

\* A further update of a page is written to its WAL version, which is read from the WAL file
\* when it has left its frame: only the first update marks the frame.
UpdatePageAgain(p) ==
    LET i == version[p]
        page == IF i \in DOMAIN frames THEN frames[i] ELSE ReadPage(ZeroPage, i)
    IN  /\ phase = "active"
        /\ i # NoPage
        /\ updates[p] < MaxUpdates
        /\ i \in DOMAIN frames \/ (UpdatesEvicted /\ i < numPages /\ CanRead(i))
        /\ frames' = [j \in DOMAIN frames \cup {i} |->
                         IF j = i THEN DataPage(transaction, page.numUpdates + 1) ELSE frames[j]]
        /\ unmarked' = IF i \in DOMAIN frames THEN unmarked ELSE unmarked \cup {i}
        /\ updates' = [updates EXCEPT ![p] = @ + 1]
        /\ UNCHANGED <<phase, replayer, file, original, logged, numPages, header,
                       currentHeaderPageIdx, offsetInCurrentHeaderPage, isLastLoggedRecordCommit,
                       version, transaction, committed, durable, crashes, torn>>

NumAuxRecords == Len(SelectSeq(log, LAMBDA r : r.type = "AUX"))

\* Statistics, catalog, table, overflow position, copy and drop records have no page.
LogAuxRecord ==
    /\ phase = "active"
    /\ NumAuxRecords < MaxAuxRecords
    /\ AddNewWALRecord(AuxRecord, 0)
    /\ UNCHANGED <<phase, replayer, original, history, frames, unmarked, version>>

\* A WAL page leaves its frame: it is written to the file only if the frame is marked.
LeaveFrame(i) ==
    /\ file' = IF i \in unmarked THEN file ELSE WritePage(file, i, frames[i])
    /\ frames' = Restrict(frames, DOMAIN frames \ {i})
    /\ unmarked' = unmarked \ {i}

\* The clock replacement of the buffer pool.
EvictWALPage(i) ==
    /\ MayEvict
    /\ phase \in {"active", "committing", "flushing"}
    /\ i \in DOMAIN frames
    /\ LeaveFrame(i)
    /\ UNCHANGED <<phase, replayer, original, logged, history, numPages, header,
                   currentHeaderPageIdx, offsetInCurrentHeaderPage, isLastLoggedRecordCommit,
                   version>>

LogCommit ==
    /\ phase = "active"
    /\ AddNewWALRecord(CommitRecord, 0)
    /\ phase' = "committing"
    /\ UNCHANGED <<replayer, original, history, frames, unmarked, version>>

\* What the pages contain once transaction t is committed.
Updated ==
    [p \in Pages |-> IF updates[p] # 0 THEN <<transaction, updates[p]>> ELSE committed[p]]

-----------------------------------------------------------------------------
(* WAL::flushAllPages: the current header page, then the dirty frames.      *)

FlushHeaderPages ==
    /\ phase = "committing"
    /\ file' = WritePage(file, currentHeaderPageIdx, header)
    /\ committed' = Updated
    /\ durable' = durable \cup {transaction}
    /\ phase' = "flushing"
    /\ UNCHANGED <<memory, replayer, original, logged, transaction, updates, crashes, torn>>

\* flushAllDirtyPagesInFrames also empties the frames that are not marked.
FlushDirtyPage(i) ==
    /\ phase = "flushing"
    /\ i \in DOMAIN frames
    /\ LeaveFrame(i)
    /\ UNCHANGED <<phase, replayer, original, logged, history, numPages, header,
                   currentHeaderPageIdx, offsetInCurrentHeaderPage, isLastLoggedRecordCommit,
                   version>>

-----------------------------------------------------------------------------
(* WALReplayer::replay, for a checkpoint, a rollback or a recovery.         *)

\* getIterator writes the current header page if there are records and reads page 0.
StartReplay(recovering, checkpoint) ==
    /\ file' = IF IsEmptyWAL THEN file ELSE WritePage(file, currentHeaderPageIdx, header)
    /\ iterator' = [header |-> IF file' = <<>> THEN EmptyHeader ELSE file'[1], numRead |-> 0]
    /\ pageBuffer' = ZeroPage
    /\ isRecovering' = recovering
    /\ isCheckpoint' = checkpoint
    /\ replayed' = <<>>
    /\ phase' = "replaying"

\* Mutant: the pages in dirty frames are not flushed before the checkpoint.
StartCheckpoint_Unflushed ==
    /\ phase = "flushing"
    /\ StartReplay(FALSE, TRUE)
    /\ UNCHANGED <<memory, original, logged, history>>

StartCheckpoint ==
    /\ phase = "flushing"
    /\ DOMAIN frames = {}
    /\ StartReplay(FALSE, TRUE)
    /\ UNCHANGED <<memory, original, logged, history>>

StartRollback ==
    /\ phase = "active"
    /\ StartReplay(FALSE, FALSE)
    /\ UNCHANGED <<memory, original, logged, history>>

HasNextRecord == iterator.numRead < iterator.header.numRecords
NextRecord == iterator.header.records[iterator.numRead + 1]

\* Mutant: the next header page is read with the count of the previous one.
GetNextRecord_KeepsCount ==
    LET read == iterator.numRead + 1
        next == iterator.header.next
    IN  /\ HasNextRecord
        /\ IF read = iterator.header.numRecords /\ next # NoPage
           THEN /\ CanRead(next)
                /\ iterator' = [header |-> ReadPage(iterator.header, next), numRead |-> read]
           ELSE iterator' = [iterator EXCEPT !.numRead = read]

\* Mutant: the count is reset but the next header page is not read.
GetNextRecord_RereadsPage ==
    LET read == iterator.numRead + 1
        next == iterator.header.next
    IN  /\ HasNextRecord
        /\ IF read = iterator.header.numRecords /\ next # NoPage
           THEN /\ CanRead(next)
                /\ iterator' = [header |-> iterator.header, numRead |-> 0]
           ELSE iterator' = [iterator EXCEPT !.numRead = read]

\* WALIterator::getNextRecord: after the last record of a header page the next one is read.
GetNextRecord ==
    LET read == iterator.numRead + 1
        next == iterator.header.next
    IN  /\ HasNextRecord
        /\ IF read = iterator.header.numRecords /\ next # NoPage
           THEN /\ CanRead(next)
                /\ iterator' = [header |-> ReadPage(iterator.header, next), numRead |-> 0]
           ELSE iterator' = [iterator EXCEPT !.numRead = read]

\* The read of the next header page, or of the page of a record, throws.
GetNextRecordThrows ==
    /\ HasNextRecord
    /\ iterator.numRead + 1 = iterator.header.numRecords
    /\ iterator.header.next # NoPage
    /\ ~CanRead(iterator.header.next)
ReplayRecordThrows ==
    /\ HasNextRecord
    /\ isCheckpoint
    /\ NextRecord.type = "PAGE"
    /\ ~CanRead(NextRecord.pageIdxInWAL)

\* Mutant: a rollback leaves the WAL versions.
ReplayRecord_KeepsVersions ==
    /\ phase = "replaying"
    /\ ~ReplayRecordThrows
    /\ GetNextRecord
    /\ replayed' = Append(replayed, NextRecord)
    /\ IF NextRecord.type = "PAGE"
       THEN /\ pageBuffer' = IF isCheckpoint
                             THEN ReadPage(pageBuffer, NextRecord.pageIdxInWAL) ELSE pageBuffer
            /\ original' = IF isCheckpoint
                           THEN [original EXCEPT ![NextRecord.page] = Contents(pageBuffer')]
                           ELSE original
            /\ version' = IF isRecovering \/ ~isCheckpoint
                          THEN version ELSE [version EXCEPT ![NextRecord.page] = NoPage]
       ELSE UNCHANGED <<pageBuffer, original, version>>
    /\ UNCHANGED <<phase, isRecovering, isCheckpoint, file, logged, history, numPages, header,
                   currentHeaderPageIdx, offsetInCurrentHeaderPage, isLastLoggedRecordCommit,
                   frames, unmarked>>

\* replayWALRecord of a page: a checkpoint copies the WAL page to the database file; outside
\* recovery the page loses its WAL version.
ReplayRecord ==
    /\ phase = "replaying"
    /\ ~ReplayRecordThrows
    /\ GetNextRecord
    /\ replayed' = Append(replayed, NextRecord)
    /\ IF NextRecord.type = "PAGE"
       THEN /\ pageBuffer' = IF isCheckpoint
                             THEN ReadPage(pageBuffer, NextRecord.pageIdxInWAL) ELSE pageBuffer
            /\ original' = IF isCheckpoint
                           THEN [original EXCEPT ![NextRecord.page] = Contents(pageBuffer')]
                           ELSE original
            /\ version' = IF isRecovering
                          THEN version ELSE [version EXCEPT ![NextRecord.page] = NoPage]
       ELSE UNCHANGED <<pageBuffer, original, version>>
    /\ UNCHANGED <<phase, isRecovering, isCheckpoint, file, logged, history, numPages, header,
                   currentHeaderPageIdx, offsetInCurrentHeaderPage, isLastLoggedRecordCommit,
                   frames, unmarked>>

\* WAL::clearWAL with initCurrentPage: frames dropped, file truncated, a fresh header page.
ClearWAL ==
    /\ frames' = <<>>
    /\ unmarked' = {}
    /\ file' = <<>>
    /\ numPages' = 1
    /\ header' = EmptyHeader
    /\ currentHeaderPageIdx' = 0
    /\ offsetInCurrentHeaderPage' = 0
    /\ isLastLoggedRecordCommit' = FALSE
    /\ log' = <<>>
    /\ chain' = FirstHeader
    /\ phase' = "ready"
    /\ UNCHANGED version

FinishReplay ==
    /\ phase = "replaying"
    /\ ~HasNextRecord
    /\ ClearWAL
    /\ UNCHANGED <<replayer, original, history>>

-----------------------------------------------------------------------------
(* Crash and restart.                                                      *)

\* What a process keeps in memory ends with it.
LoseMemory ==
    /\ phase' = "down"
    /\ numPages' = 0
    /\ header' = ZeroPage
    /\ currentHeaderPageIdx' = 0
    /\ offsetInCurrentHeaderPage' = InvalidOffset
    /\ isLastLoggedRecordCommit' = FALSE
    /\ frames' = <<>>
    /\ unmarked' = {}
    /\ version' = [p \in Pages |-> NoPage]
    /\ iterator' = [header |-> ZeroPage, numRead |-> 0]
    /\ pageBuffer' = ZeroPage
    /\ isRecovering' = FALSE
    /\ isCheckpoint' = FALSE
    /\ replayed' = <<>>

\* Outside these phases the WAL may hold records or pages that are only in memory.
FlushedPhases == {"ready", "replaying", "down", "scanning"}

Crash ==
    /\ phase \in CrashPhases
    /\ crashes < MaxCrashes
    /\ crashes' = crashes + 1
    /\ torn' = (torn \/ phase \notin FlushedPhases)
    /\ LoseMemory
    /\ UNCHANGED <<file, original, logged, transaction, updates, committed, durable>>

\* The destructor of WAL writes the current header page of a non-empty WAL and no other.
Shutdown ==
    /\ phase \in {"ready", "active"}
    /\ crashes < MaxCrashes
    /\ crashes' = crashes + 1
    /\ file' = IF IsEmptyWAL THEN file ELSE WritePage(file, currentHeaderPageIdx, header)
    /\ LoseMemory
    /\ UNCHANGED <<original, logged, transaction, updates, committed, durable, torn>>

\* The constructor of WAL on an empty file: nothing to recover.
OpenEmpty ==
    /\ phase = "down"
    /\ file = <<>>
    /\ ClearWAL
    /\ UNCHANGED <<replayer, original, history>>

\* On an existing file page 0 is read, and an iterator looks for the last record.
OpenExisting ==
    /\ phase = "down"
    /\ file # <<>>
    /\ numPages' = Len(file)
    /\ header' = file[1]
    /\ currentHeaderPageIdx' = 0
    /\ offsetInCurrentHeaderPage' = InvalidOffset
    /\ isLastLoggedRecordCommit' = FALSE
    /\ iterator' = [header |-> file[1], numRead |-> 0]
    /\ phase' = "scanning"
    /\ UNCHANGED <<frames, unmarked, version, pageBuffer, isRecovering, isCheckpoint, replayed, file,
                   original, logged, history>>

\* setIsLastRecordCommit.
ScanRecord ==
    /\ phase = "scanning"
    /\ GetNextRecord
    /\ isLastLoggedRecordCommit' = (NextRecord.type = "COMMIT")
    /\ UNCHANGED <<phase, numPages, header, currentHeaderPageIdx, offsetInCurrentHeaderPage,
                   frames, unmarked, version, pageBuffer, isRecovering, isCheckpoint, replayed, file,
                   original, logged, history>>

\* Database::recoverIfNecessary: an empty WAL is used as it is.
RecoverEmpty ==
    /\ phase = "scanning"
    /\ ~HasNextRecord
    /\ IsEmptyWAL
    /\ log' = <<>>
    /\ chain' = FirstHeader
    /\ phase' = "ready"
    /\ UNCHANGED <<memory, replayer, file, original, history>>

\* Mutant: a start replays a committed WAL with the flag of a rollback.
RecoverCommitted_RollsBack ==
    /\ phase = "scanning"
    /\ ~HasNextRecord
    /\ ~IsEmptyWAL
    /\ isLastLoggedRecordCommit
    /\ StartReplay(TRUE, FALSE)
    /\ UNCHANGED <<memory, original, logged, history>>

RecoverCommitted ==
    /\ phase = "scanning"
    /\ ~HasNextRecord
    /\ ~IsEmptyWAL
    /\ isLastLoggedRecordCommit
    /\ StartReplay(TRUE, TRUE)
    /\ UNCHANGED <<memory, original, logged, history>>

\* Mutant: a WAL whose last record is not a commit is replayed too.
RecoverUncommitted_Replays ==
    /\ phase = "scanning"
    /\ ~HasNextRecord
    /\ ~IsEmptyWAL
    /\ ~isLastLoggedRecordCommit
    /\ StartReplay(TRUE, TRUE)
    /\ UNCHANGED <<memory, original, logged, history>>

RecoverUncommitted ==
    /\ phase = "scanning"
    /\ ~HasNextRecord
    /\ ~IsEmptyWAL
    /\ ~isLastLoggedRecordCommit
    /\ ClearWAL
    /\ UNCHANGED <<replayer, original, history>>

\* An exception in the constructor of Database: the process can only start again.
OpenThrows ==
    /\ \/ phase = "scanning" /\ GetNextRecordThrows
       \/ phase = "replaying" /\ isRecovering /\ (GetNextRecordThrows \/ ReplayRecordThrows)
    /\ LoseMemory
    /\ UNCHANGED <<file, original, logged, history>>

-----------------------------------------------------------------------------
Transaction ==
    \/ BeginWriteTransaction
    \/ \E p \in Pages : UpdatePage(p) \/ UpdatePageAgain(p)
    \/ LogAuxRecord
    \/ LogCommit
    \/ StartRollback

Commit ==
    \/ FlushHeaderPages
    \/ \E i \in DOMAIN frames : FlushDirtyPage(i)
    \/ StartCheckpoint

Replay ==
    \/ ReplayRecord
    \/ FinishReplay

Open ==
    \/ OpenEmpty
    \/ OpenExisting
    \/ ScanRecord
    \/ RecoverEmpty
    \/ RecoverCommitted
    \/ RecoverUncommitted
    \/ OpenThrows

Next ==
    \/ Transaction
    \/ \E i \in DOMAIN frames : EvictWALPage(i)
    \/ Commit
    \/ Replay
    \/ Open
    \/ Shutdown
    \/ Crash

Spec == Init /\ [][Next]_vars

\* A commit in progress, a replay and a start keep running.
FairSpec == Spec /\ WF_vars(Commit \/ Replay \/ Open)
-----------------------------------------------------------------------------
Phases == {"ready", "active", "committing", "flushing", "replaying", "down", "scanning"}
Records == {AuxRecord, CommitRecord} \cup [type : {"PAGE"}, page : Pages, pageIdxInWAL : Nat]
HeaderAndDataPages ==
    [numRecords : 0..RecordsPerHeaderPage, next : Nat \cup {NoPage}, records : Seq(Records),
     data : Nat, numUpdates : Nat]
Positions == [page : Nat, first : Nat]

TypeOK ==
    /\ phase \in Phases
    /\ numPages \in Nat
    /\ header \in HeaderAndDataPages
    /\ currentHeaderPageIdx \in Nat
    /\ offsetInCurrentHeaderPage \in 0..InvalidOffset
    /\ isLastLoggedRecordCommit \in BOOLEAN
    /\ \A i \in DOMAIN frames : i \in 1..(numPages - 1) /\ frames[i] \in HeaderAndDataPages
    /\ unmarked \subseteq DOMAIN frames
    /\ version \in [Pages -> (Nat \ {0}) \cup {NoPage}]
    /\ iterator \in [header : HeaderAndDataPages, numRead : 0..RecordsPerHeaderPage]
    /\ pageBuffer \in HeaderAndDataPages
    /\ isRecovering \in BOOLEAN
    /\ isCheckpoint \in BOOLEAN
    /\ file \in Seq(HeaderAndDataPages)
    /\ original \in [Pages -> Nat \X Nat]
    /\ log \in Seq(Records)
    /\ replayed \in Seq(Records)
    /\ chain \in Seq(Positions)
    /\ transaction \in Nat
    /\ updates \in [Pages -> Nat]
    /\ committed \in [Pages -> Nat \X Nat]
    /\ durable \subseteq Nat
    /\ crashes \in Nat
    /\ torn \in BOOLEAN

\* A database that is open and not replaying has on disk exactly what the commits made whose
\* commit record reached the WAL file: all of each of them, nothing of any other transaction,
\* after any number of restarts and of crashes after the flush of a commit, inside its
\* checkpoint and inside recoveries (recoverIfNecessary, replay, clearWAL).
FilesAreCommitted == ~torn /\ phase \in {"ready", "active"} => original = committed

\* A replay that ends has met the records that were logged, each once and in order, through
\* the chain of header pages on disk (addNewWALRecordNoLock against WALIterator).
ReplayMeetsTheLog == ~torn /\ phase = "replaying" /\ ~HasNextRecord => replayed = log

\* Between transactions no page is left in its WAL version (clearWALPageVersionIfNecessary
\* for every record): a reader would miss, and the next writer would lose, its contents.
NoVersionIsLeft == ~torn /\ phase = "ready" => \A p \in Pages : version[p] = NoPage

\* The WAL version of a page, in its frame or else in the WAL file, has all the updates that
\* the transaction has made of the page, and no header page was put in its place.
VersionsAreReadable ==
    ~torn /\ phase \in {"active", "committing", "flushing"} =>
        \A p \in Pages : version[p] # NoPage =>
            IF version[p] \in DOMAIN frames
            THEN Contents(frames[version[p]]) = <<transaction, updates[p]>>
            ELSE /\ version[p] < Len(file)
                 /\ Contents(file[version[p] + 1]) = <<transaction, updates[p]>>

\* Wherever the process crashes, no update of a transaction without a durable commit record
\* reaches the database files; what can reach them besides is zeros (a page of the WAL that
\* was never written).
NothingUncommittedIsWritten == \A p \in Pages : original[p][1] \in durable \cup {0}

\* A database that is down opens again: the scan and the replay of the WAL end without an
\* exception ("found a non-empty WAL but last record is not commit. Clearing the WAL.",
\* database.cpp:62-63), unless a crash has torn the WAL.
Reopens == phase = "down" ~> phase = "ready" \/ torn

\* Readers are out from the flush of a commit to the end of its checkpoint, and before the
\* end of a start; a rollback runs beside them.
IsReadable ==
    \/ phase \in {"ready", "active", "committing"}
    \/ phase = "replaying" /\ ~isCheckpoint
IsUpdating == phase \in {"active", "committing"}

Durable == INSTANCE DurablePages WITH
    contents <- committed,
    visible <- IF IsReadable THEN {original} ELSE {},
    running <- IsUpdating,
    written <- IF IsUpdating THEN updates ELSE [p \in Pages |-> 0],
    damaged <- torn

\* The WAL with its replays implements pages that change by whole transactions: a commit is
\* the one write of its last header page, whatever the flush, the checkpoint, crashes in it
\* and any number of recoveries do to the files after it, one page at a time, and what readers
\* find when they come back is what the commits made, and nothing of a transaction that was
\* rolled back or cut off by a shutdown.
IsADurableStore == Durable!PagesSpec

-----------------------------------------------------------------------------
(* What a message of the repository says, and the code does not do.        *)

\* "Starting up StorageManager and found a non-empty WAL with a committed transaction.
\* Replaying to checkpoint." (database.cpp:58-59): a commit record on disk is a commit that
\* a start can replay, wherever the process crashed.
DurableCommitsAreReplayed == phase \in {"ready", "active"} => original = committed

\* "Commits and checkpoints a write transaction [...]" (database.h:88): when the checkpoint of
\* a commit ends, no crash being involved, the database files have every update of it.
CommitsAreCheckpointed == crashes = 0 /\ phase = "ready" => original = committed
-----------------------------------------------------------------------------
(* The inductive invariant.  Its first part holds wherever the process      *)
(* crashes; the second as long as no crash has torn the WAL.  What it says  *)
(* of the contents of pages needs that no page is updated after its WAL     *)
(* page was evicted.                                                        *)

Working == {"active", "committing", "flushing"}

\* A page knows the number of its records; a page in a frame has none, and a process that
\* is down has no frames.
IsWhole(page) == page.numRecords = Len(page.records)
WholeInv ==
    /\ IsWhole(header) /\ IsWhole(iterator.header)
    /\ \A k \in DOMAIN file : IsWhole(file[k])
    /\ \A i \in DOMAIN frames : frames[i].numRecords = 0 /\ frames[i].records = <<>>
    /\ offsetInCurrentHeaderPage \in {header.numRecords, InvalidOffset}
    /\ IF phase = "down" THEN frames = <<>> ELSE numPages >= 1

\* Pages hold nothing but what the last transaction wrote, and a commit record is only on
\* disk, or in the page of an iterator, if the commit is durable.
HasCommit(page) == \E j \in DOMAIN page.records : page.records[j] = CommitRecord
OneTransaction ==
    /\ \A k \in DOMAIN file : file[k].data \in {0, transaction}
    /\ \A i \in DOMAIN frames : frames[i].data = transaction
    /\ header.data \in {0, transaction}
    /\ phase = "replaying" => pageBuffer.data \in {0, transaction}
    /\ transaction \notin durable =>
           /\ \A k \in DOMAIN file : ~HasCommit(file[k])
           /\ HasCommit(header) => phase = "committing"
           /\ phase = "scanning" => ~HasCommit(iterator.header) /\ ~isLastLoggedRecordCommit
           /\ phase = "replaying" => ~isCheckpoint
    /\ phase = "ready" => file = <<>> /\ frames = <<>> /\ header = EmptyHeader

\* A WAL that was opened on a page 0 without records: its records are never read again.
IsDead ==
    /\ file # <<>>
    /\ file[1].numRecords = 0
    /\ phase \in Working \cup {"ready"} /\ currentHeaderPageIdx = 0 =>
           header.numRecords = 0 /\ offsetInCurrentHeaderPage = InvalidOffset
    /\ phase \in {"scanning", "replaying"} => iterator.header.numRecords = 0
    /\ phase = "scanning" => header.numRecords = 0 /\ ~isLastLoggedRecordCommit

UncommittedInv ==
    /\ durable \subseteq 0..transaction
    /\ phase \in {"active", "committing"} => transaction \notin durable
    /\ phase = "flushing" => transaction \in durable
    /\ phase = "scanning" => /\ file # <<>> /\ header = file[1] /\ currentHeaderPageIdx = 0
                             /\ offsetInCurrentHeaderPage = InvalidOffset
    /\ OneTransaction \/ IsDead

\* h is the k-th header page of the log.
IsHeader(h, k) ==
    /\ h.numRecords = (IF k < Len(chain) THEN chain[k + 1].first ELSE Len(log)) - chain[k].first
    /\ h.next = IF k < Len(chain) THEN chain[k + 1].page ELSE NoPage
    /\ Len(h.records) = h.numRecords
    /\ \A j \in 1..h.numRecords : h.records[j] = log[chain[k].first + j]

AreOnDisk(n) ==
    \A k \in 1..n : chain[k].page < Len(file) /\ IsHeader(file[chain[k].page + 1], k)

\* The chain of header pages: it begins at page 0, and every page but the first has records
\* before it.
ChainInv ==
    /\ chain # <<>> /\ chain[1] = [page |-> 0, first |-> 0]
    /\ \A j, k \in DOMAIN chain : j < k =>
           chain[j].page < chain[k].page /\ chain[j].first < chain[k].first
    /\ \A k \in DOMAIN chain : chain[k].first <= Len(log)

\* The current header page is in memory, those before it are on disk.
MemoryInv ==
    phase \in Working \cup {"ready"} =>
        /\ currentHeaderPageIdx = chain[Len(chain)].page
        /\ IsHeader(header, Len(chain))
        /\ offsetInCurrentHeaderPage = header.numRecords
        /\ \A k \in DOMAIN chain : chain[k].page < numPages
        /\ AreOnDisk(Len(chain) - 1)

\* From the flush on all of them are on disk.
DiskInv ==
    /\ phase = "ready" => log = <<>>
    /\ phase \in {"ready", "active"} /\ log = <<>> => file = <<>> /\ frames = <<>>
    /\ phase \in {"flushing", "replaying", "down", "scanning"} =>
           \/ log # <<>> /\ AreOnDisk(Len(chain))
           \/ log = <<>> /\ file = <<>> /\ phase \in {"replaying", "down"}
    /\ phase \in {"ready", "down", "scanning"} \/ (phase = "replaying" /\ isRecovering) =>
           \A p \in Pages : version[p] = NoPage

\* The pages of the records are different ones and no header pages; they are in frames or on
\* disk, with all the updates of the transaction.
PageRecords == {j \in DOMAIN log : log[j].type = "PAGE"}
IsLogged(p) == \E j \in PageRecords : log[j].page = p
AreAllUpdates(contents, p) == UpdatesEvicted \/ contents = <<transaction, updates[p]>>
IsWritten(j) ==
    /\ log[j].pageIdxInWAL < Len(file)
    /\ AreAllUpdates(Contents(file[log[j].pageIdxInWAL + 1]), log[j].page)
PagesInv ==
    /\ \A i \in DOMAIN frames :
           frames[i].data = transaction /\ \A k \in DOMAIN chain : chain[k].page # i
    /\ \A j \in PageRecords, k \in DOMAIN chain : chain[k].page # log[j].pageIdxInWAL
    /\ \A i \in unmarked : i < Len(file)
    /\ \A j, k \in PageRecords : j # k =>
           log[j].page # log[k].page /\ log[j].pageIdxInWAL # log[k].pageIdxInWAL
    /\ phase \in Working =>
           /\ \A j \in PageRecords :
                  /\ log[j].pageIdxInWAL < numPages
                  /\ log[j].pageIdxInWAL \in DOMAIN frames \/ IsWritten(j)
                  /\ log[j].pageIdxInWAL \in DOMAIN frames =>
                         AreAllUpdates(Contents(frames[log[j].pageIdxInWAL]), log[j].page)
           /\ \A p \in Pages : updates[p] # 0 <=> IsLogged(p)
           /\ \A p \in Pages : version[p] # NoPage =>
                  \E j \in PageRecords : log[j].page = p /\ log[j].pageIdxInWAL = version[p]
           /\ \A j \in PageRecords : version[log[j].page] # NoPage
    /\ phase \in {"ready", "active", "replaying"} =>
           \A p \in Pages : version[p] # NoPage => IsLogged(p)

\* The last record of a log is the commit record from the commit on.
IsCommitted == log # <<>> /\ log[Len(log)] = CommitRecord
CommitInv ==
    /\ \A j \in DOMAIN log : log[j] = CommitRecord => j = Len(log)
    /\ phase \in {"ready", "active"} => ~IsCommitted
    /\ phase \in {"committing", "flushing"} => IsCommitted
    /\ phase = "replaying" => (isCheckpoint <=> IsCommitted)
    /\ phase \notin {"active", "committing", "flushing"} /\ IsCommitted =>
           \A j \in PageRecords : IsWritten(j)
    /\ IsCommitted /\ phase # "committing" =>
           \A p \in Pages : IF IsLogged(p) THEN committed[p] = <<transaction, updates[p]>>
                                           ELSE UpdatesEvicted \/ committed[p] = original[p]
    /\ ~IsCommitted \/ phase = "committing" => UpdatesEvicted \/ original = committed

\* An iterator stands before the record that follows the first n of the log.
StandsAfter(n) ==
    \/ log = <<>> /\ n = 0 /\ iterator.numRead = 0 /\ iterator.header.numRecords = 0
    \/ /\ log # <<>>
       /\ \E k \in DOMAIN chain :
              /\ IsHeader(iterator.header, k)
              /\ n = chain[k].first + iterator.numRead
              /\ iterator.numRead <= iterator.header.numRecords
              /\ k < Len(chain) => iterator.numRead < iterator.header.numRecords

ReplayInv ==
    /\ phase = "replaying" =>
           /\ StandsAfter(Len(replayed))
           /\ \A j \in DOMAIN replayed : replayed[j] = log[j]
           /\ \A j \in PageRecords : j <= Len(replayed) =>
                  /\ isCheckpoint => AreAllUpdates(original[log[j].page], log[j].page)
                  /\ version[log[j].page] = NoPage
    /\ phase = "scanning" =>
           \E n \in 0..Len(log) :
               /\ StandsAfter(n)
               /\ isLastLoggedRecordCommit <=> n > 0 /\ log[n] = CommitRecord

UntornInv ==
    ChainInv /\ MemoryInv /\ DiskInv /\ PagesInv /\ CommitInv /\ ReplayInv

IInv ==
    /\ TypeOK
    /\ WholeInv
    /\ UncommittedInv
    /\ NothingUncommittedIsWritten
    /\ ~UpdatesEvicted => unmarked = {}
    /\ ~torn => UntornInv
=============================================================================
