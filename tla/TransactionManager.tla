------------------------- MODULE TransactionManager -------------------------
(***************************************************************************)
(* The transaction manager, the connections that call it and the commit    *)
(* procedure of Database, at the granularity of the two mutexes of         *)
(* TransactionManager.  A connection serialises its own calls with its     *)
(* mutex mtx, so one connection is one thread of control with a program    *)
(* counter.  A critical section under mtxForSerializingPublicFunctionCalls *)
(* is one step; only the stop of a commit holds that mutex over several    *)
(* steps, because it waits inside.                                         *)
(*                                                                         *)
(* The data a transaction writes is its own ID.  walUpdates is the set of  *)
(* transactions with records in the log (their pages, tables, files and    *)
(* node statistics), checkpointed the set of those whose records have been *)
(* replayed to the original files.  catalogUpdates is the set of those in  *)
(* the write versions of the catalog and of the relationship statistics,   *)
(* which DDL and COPY statements make in memory and every commit writes,   *)
(* checkpointedCatalog the set of those it has written.                    *)
(***************************************************************************)
EXTENDS Naturals, FiniteSets

CONSTANTS
    Connections,        \* Connection objects (slots: a closed one may be reopened)
    Writers,            \* the connections whose clients ask for updates
    MayClose,           \* the connections whose clients destroy the Connection
    MaxTransactions,    \* bound on the transactions begun in a behaviour
    None                \* no owner of a mutex

ASSUME ConnectionsAssumption ==
    /\ None \notin Connections
    /\ Writers \subseteq Connections
    /\ MayClose \subseteq Connections

ASSUME MaxTransactionsAssumption == MaxTransactions \in Nat

VARIABLES
    lastTransactionID, lastCommitID,
    activeWriteTransactionID, activeReadOnlyTransactionIDs,
    newTransactionLck,      \* owner of mtxForStartingNewTransactions
    publicFunctionLck,      \* owner of mtxForSerializingPublicFunctionCalls
    transactionMode, activeTransaction,     \* per connection
    pc, statement,          \* per connection: where its call is, and the kind of the call
    walUpdates, checkpointed, catalogUpdates, checkpointedCatalog,
    snapshot, updated, rolledBack, abandoned    \* history

tmVars == <<lastTransactionID, lastCommitID, activeWriteTransactionID,
            activeReadOnlyTransactionIDs>>
lockVars == <<newTransactionLck, publicFunctionLck>>
connVars == <<transactionMode, activeTransaction>>
dataVars == <<walUpdates, checkpointed, catalogUpdates, checkpointedCatalog>>
historyVars == <<snapshot, updated, rolledBack, abandoned>>
vars == <<tmVars, lockVars, connVars, pc, statement, dataVars, historyVars>>

TransactionTypes == {"READ_ONLY", "WRITE"}

\* The kinds of statement: "DDL" is a DDL or COPY statement that was let through.
Statements == TransactionTypes \cup {"DDL"}

\* IDs are handed out by ++lastTransactionID, so 0 is never one of them; it stands for the
\* INT64_MAX of an absent active write transaction and for a null activeTransaction.
NoID == 0
NoTransaction == [type |-> "READ_ONLY", ID |-> NoID]
Transactions == [type : TransactionTypes, ID : Nat]

HasTransaction(c) == activeTransaction[c].ID # NoID
IsWriter(c) == HasTransaction(c) /\ activeTransaction[c].type = "WRITE"
IsReader(c) == HasTransaction(c) /\ activeTransaction[c].type = "READ_ONLY"

\* The points of a call at which it may wait or another thread may step in.
Locations == {"idle", "prepare", "begin", "begin_public", "execute", "leave",
              "stop", "stop_new", "wait", "keep_active", "checkpoint", "clear_active",
              "allow", "rollback", "clear_rolled_back", "close", "closed"}

\* Locations of a commit after its stop has succeeded.
Committing == {"keep_active", "checkpoint", "clear_active", "allow"}

Goto(c, l) == pc' = [pc EXCEPT ![c] = l]

TypeOK ==
    /\ lastTransactionID \in Nat
    /\ lastCommitID \in Nat
    /\ activeWriteTransactionID \in Nat
    /\ activeReadOnlyTransactionIDs \subseteq Nat
    /\ newTransactionLck \in Connections \cup {None}
    /\ publicFunctionLck \in Connections \cup {None}
    /\ transactionMode \in [Connections -> {"AUTO_COMMIT", "MANUAL"}]
    /\ activeTransaction \in [Connections -> Transactions]
    /\ pc \in [Connections -> Locations]
    /\ statement \in [Connections -> Statements]
    /\ walUpdates \subseteq Nat
    /\ checkpointed \subseteq Nat
    /\ catalogUpdates \subseteq Nat
    /\ checkpointedCatalog \subseteq Nat
    /\ snapshot \in [Connections -> SUBSET Nat]
    /\ updated \subseteq Nat
    /\ rolledBack \subseteq Nat
    /\ abandoned \subseteq Nat

Init ==
    /\ lastTransactionID = 0
    /\ lastCommitID = 0
    /\ activeWriteTransactionID = NoID
    /\ activeReadOnlyTransactionIDs = {}
    /\ newTransactionLck = None
    /\ publicFunctionLck = None
    /\ transactionMode = [c \in Connections |-> "AUTO_COMMIT"]
    /\ activeTransaction = [c \in Connections |-> NoTransaction]
    /\ pc = [c \in Connections |-> "idle"]
    /\ statement = [c \in Connections |-> "READ_ONLY"]
    /\ walUpdates = {}
    /\ checkpointed = {}
    /\ catalogUpdates = {}
    /\ checkpointedCatalog = {}
    /\ snapshot = [c \in Connections |-> {}]
    /\ updated = {}
    /\ rolledBack = {}
    /\ abandoned = {}

-----------------------------------------------------------------------------
(* Calls of a client of connection c.                                      *)

\* Bound: a call that may begin a transaction is made only while an ID is left for it.
MayBegin(c) ==
    \/ HasTransaction(c)
    \/ lastTransactionID
         + Cardinality({d \in Connections : pc[d] \in {"prepare", "begin", "begin_public"}})
       < MaxTransactions

StatementTypes(c) == IF c \in Writers THEN TransactionTypes ELSE {"READ_ONLY"}

\* Connection::begin[ReadOnly|Write]Transaction: the mode is MANUAL before
\* beginTransactionNoLock throws for a connection that has a transaction.
BeginTransaction(c, type) ==
    /\ pc[c] = "idle"
    /\ MayBegin(c)
    /\ type \in StatementTypes(c)
    /\ transactionMode' = [transactionMode EXCEPT ![c] = "MANUAL"]
    /\ IF HasTransaction(c)
       THEN UNCHANGED <<pc, statement>>
       ELSE Goto(c, "begin") /\ statement' = [statement EXCEPT ![c] = type]
    /\ UNCHANGED <<tmVars, lockVars, activeTransaction, dataVars, historyVars>>

\* Connection::query: parsing, binding and planning read the catalog and the statistics.
Query(c, type) ==
    /\ pc[c] = "idle"
    /\ MayBegin(c)
    /\ type \in StatementTypes(c)
    /\ Goto(c, "prepare")
    /\ statement' = [statement EXCEPT ![c] = type]
    /\ UNCHANGED <<tmVars, lockVars, connVars, dataVars, historyVars>>

\* commitOrRollbackNoLock: what follows for the connection's active transaction, if any.
CommitLocation(c) ==
    CASE IsWriter(c) -> "stop" [] IsReader(c) -> "leave" [] OTHER -> "idle"
RollbackLocation(c) ==
    CASE IsWriter(c) -> "rollback" [] IsReader(c) -> "leave" [] OTHER -> "idle"

Commit(c) ==
    /\ pc[c] = "idle"
    /\ HasTransaction(c)
    /\ Goto(c, CommitLocation(c))
    /\ UNCHANGED <<tmVars, lockVars, connVars, statement, dataVars, historyVars>>

Rollback(c) ==
    /\ pc[c] = "idle"
    /\ HasTransaction(c)
    /\ Goto(c, RollbackLocation(c))
    /\ UNCHANGED <<tmVars, lockVars, connVars, statement, dataVars, historyVars>>

\* The destructor rolls an active transaction back in the transaction manager.
Destroy(c) ==
    /\ pc[c] = "idle"
    /\ c \in MayClose
    /\ Goto(c, IF HasTransaction(c) THEN "close" ELSE "closed")
    /\ UNCHANGED <<tmVars, lockVars, connVars, statement, dataVars, historyVars>>

\* Another Connection object is constructed in the slot.
Construct(c) ==
    /\ pc[c] = "closed"
    /\ Goto(c, "idle")
    /\ transactionMode' = [transactionMode EXCEPT ![c] = "AUTO_COMMIT"]
    /\ UNCHANGED <<tmVars, lockVars, activeTransaction, statement, dataVars, historyVars>>

-----------------------------------------------------------------------------
(* The body of a query.                                                    *)

\* Compilation fails: the error is returned and no transaction is touched.
PrepareFails(c) ==
    /\ pc[c] = "prepare"
    /\ Goto(c, "idle")
    /\ UNCHANGED <<tmVars, lockVars, connVars, statement, dataVars, historyVars>>

\* Entry of executeAndAutoCommitIfNecessaryNoLock.  A DDL or COPY statement inside a
\* transaction, and any statement in MANUAL mode without one, throw: the handler rolls
\* back what there is.  The type of the statement is not compared with the transaction's.
StartStatement(c, isDDL) ==
    /\ pc[c] = "prepare"
    /\ isDDL => statement[c] = "WRITE"
    /\ Goto(c, CASE isDDL /\ HasTransaction(c) -> RollbackLocation(c)
                 [] transactionMode[c] = "AUTO_COMMIT" -> "begin"
                 [] ~HasTransaction(c) -> RollbackLocation(c)
                 [] OTHER -> "execute")
    /\ statement' = IF isDDL /\ transactionMode[c] = "AUTO_COMMIT"
                    THEN [statement EXCEPT ![c] = "DDL"] ELSE statement
    /\ UNCHANGED <<tmVars, lockVars, connVars, dataVars, historyVars>>

\* What the plan of c's statement adds to the log, and to the catalog.
Logged(c) == IF statement[c] = "READ_ONLY" THEN {} ELSE {activeTransaction[c].ID}
Defined(c) == IF statement[c] = "DDL" THEN {activeTransaction[c].ID} ELSE {}

\* The query processor runs the plan; updates go to the WAL and the write versions.
Execute(c) ==
    /\ pc[c] = "execute"
    /\ walUpdates' = walUpdates \cup Logged(c)
    /\ catalogUpdates' = catalogUpdates \cup Defined(c)
    /\ updated' = updated \cup Logged(c)
    /\ Goto(c, IF transactionMode[c] = "AUTO_COMMIT" THEN CommitLocation(c) ELSE "idle")
    /\ UNCHANGED <<tmVars, lockVars, connVars, statement, checkpointed, checkpointedCatalog,
                   snapshot, rolledBack, abandoned>>

\* The plan throws, possibly after some of its updates: the handler rolls back.
ExecuteFails(c) ==
    /\ pc[c] = "execute"
    /\ walUpdates' \in {walUpdates, walUpdates \cup Logged(c)}
    /\ catalogUpdates' \in {catalogUpdates, catalogUpdates \cup Defined(c)}
    /\ Goto(c, RollbackLocation(c))
    /\ UNCHANGED <<tmVars, lockVars, connVars, statement, checkpointed, checkpointedCatalog,
                   historyVars>>

-----------------------------------------------------------------------------
(* TransactionManager::begin[ReadOnly|Write]Transaction.                   *)

LockNewTransactions(c) ==
    /\ pc[c] = "begin"
    /\ newTransactionLck = None
    /\ newTransactionLck' = c
    /\ Goto(c, "begin_public")
    /\ UNCHANGED <<tmVars, publicFunctionLck, connVars, statement, dataVars, historyVars>>

\* Where a call goes on after its transaction has begun.
AfterBegin(c) == IF transactionMode[c] = "AUTO_COMMIT" THEN "execute" ELSE "idle"

BeginReadOnlyTransaction(c) ==
    /\ pc[c] = "begin_public"
    /\ publicFunctionLck = None
    /\ statement[c] = "READ_ONLY"
    /\ lastTransactionID' = lastTransactionID + 1
    /\ activeReadOnlyTransactionIDs' = activeReadOnlyTransactionIDs \cup {lastTransactionID'}
    /\ activeTransaction' = [activeTransaction EXCEPT ![c] =
                                [type |-> "READ_ONLY", ID |-> lastTransactionID']]
    /\ snapshot' = [snapshot EXCEPT ![c] = checkpointed]
    /\ newTransactionLck' = None
    /\ Goto(c, AfterBegin(c))
    /\ UNCHANGED <<lastCommitID, activeWriteTransactionID, publicFunctionLck, transactionMode,
                   statement, dataVars, updated, rolledBack, abandoned>>

BeginWriteTransaction(c) ==
    /\ pc[c] = "begin_public"
    /\ publicFunctionLck = None
    /\ statement[c] # "READ_ONLY"
    /\ activeWriteTransactionID = NoID
    /\ lastTransactionID' = lastTransactionID + 1
    /\ activeWriteTransactionID' = lastTransactionID'
    /\ activeTransaction' = [activeTransaction EXCEPT ![c] =
                                [type |-> "WRITE", ID |-> lastTransactionID']]
    /\ snapshot' = [snapshot EXCEPT ![c] = checkpointed]
    /\ newTransactionLck' = None
    /\ Goto(c, AfterBegin(c))
    /\ UNCHANGED <<lastCommitID, activeReadOnlyTransactionIDs, publicFunctionLck,
                   transactionMode, statement, dataVars, updated, rolledBack, abandoned>>

\* There is a write transaction: the exception leaves both locks and the connection as it
\* was, its mode included; the handler of a query has no transaction to roll back.
BeginWriteTransactionThrows(c) ==
    /\ pc[c] = "begin_public"
    /\ publicFunctionLck = None
    /\ statement[c] # "READ_ONLY"
    /\ activeWriteTransactionID # NoID
    /\ newTransactionLck' = None
    /\ Goto(c, "idle")
    /\ UNCHANGED <<tmVars, publicFunctionLck, connVars, statement, dataVars, historyVars>>

-----------------------------------------------------------------------------
(* The end of a read-only transaction: commit and rollback erase its ID.    *)

ResetTransaction(c) ==
    /\ activeTransaction' = [activeTransaction EXCEPT ![c] = NoTransaction]
    /\ transactionMode' = [transactionMode EXCEPT ![c] = "AUTO_COMMIT"]

\* Mutant: the ID is not erased.
LeaveReadOnlyTransaction_KeepsID(c) ==
    /\ pc[c] = "leave"
    /\ publicFunctionLck = None
    /\ ResetTransaction(c)
    /\ Goto(c, "idle")
    /\ UNCHANGED <<tmVars, lockVars, statement, dataVars, historyVars>>

LeaveReadOnlyTransaction(c) ==
    /\ pc[c] = "leave"
    /\ publicFunctionLck = None
    /\ activeReadOnlyTransactionIDs' = activeReadOnlyTransactionIDs \ {activeTransaction[c].ID}
    /\ ResetTransaction(c)
    /\ Goto(c, "idle")
    /\ UNCHANGED <<lastTransactionID, lastCommitID, activeWriteTransactionID, lockVars,
                   statement, dataVars, historyVars>>

\* TransactionManager::rollback from the destructor of a connection.
CloseReadOnlyTransaction(c) ==
    /\ pc[c] = "close"
    /\ publicFunctionLck = None
    /\ IsReader(c)
    /\ activeReadOnlyTransactionIDs' = activeReadOnlyTransactionIDs \ {activeTransaction[c].ID}
    /\ activeTransaction' = [activeTransaction EXCEPT ![c] = NoTransaction]
    /\ Goto(c, "closed")
    /\ UNCHANGED <<lastTransactionID, lastCommitID, activeWriteTransactionID, lockVars,
                   transactionMode, statement, dataVars, historyVars>>

\* The active write transaction is cleared; the WAL and the write versions keep its updates.
CloseWriteTransaction(c) ==
    /\ pc[c] = "close"
    /\ publicFunctionLck = None
    /\ IsWriter(c)
    /\ activeWriteTransactionID = activeTransaction[c].ID
    /\ activeWriteTransactionID' = NoID
    /\ abandoned' = abandoned \cup {activeTransaction[c].ID}
    /\ activeTransaction' = [activeTransaction EXCEPT ![c] = NoTransaction]
    /\ Goto(c, "closed")
    /\ UNCHANGED <<lastTransactionID, lastCommitID, activeReadOnlyTransactionIDs, lockVars,
                   transactionMode, statement, dataVars, snapshot, updated, rolledBack>>

-----------------------------------------------------------------------------
(* Database::commitAndCheckpointOrRollback for a commit.                   *)

StopLockPublicFunctions(c) ==
    /\ pc[c] = "stop"
    /\ publicFunctionLck = None
    /\ publicFunctionLck' = c
    /\ Goto(c, "stop_new")
    /\ UNCHANGED <<tmVars, newTransactionLck, connVars, statement, dataVars, historyVars>>

StopLockNewTransactions(c) ==
    /\ pc[c] = "stop_new"
    /\ newTransactionLck = None
    /\ newTransactionLck' = c
    /\ Goto(c, "wait")
    /\ UNCHANGED <<tmVars, publicFunctionLck, connVars, statement, dataVars, historyVars>>

\* Mutant: the readers are not waited for.
AllReadTransactionsLeft_NoWait(c) ==
    /\ pc[c] = "wait"
    /\ publicFunctionLck' = None
    /\ Goto(c, "keep_active")
    /\ UNCHANGED <<tmVars, newTransactionLck, connVars, statement, dataVars, historyVars>>

\* Mutant: the lock on the public functions is not scoped to the stop.
AllReadTransactionsLeft_KeepsLock(c) ==
    /\ pc[c] = "wait"
    /\ activeReadOnlyTransactionIDs = {}
    /\ Goto(c, "keep_active")
    /\ UNCHANGED <<tmVars, lockVars, connVars, statement, dataVars, historyVars>>

AllReadTransactionsLeft(c) ==
    /\ pc[c] = "wait"
    /\ activeReadOnlyTransactionIDs = {}
    /\ publicFunctionLck' = None
    /\ Goto(c, "keep_active")
    /\ UNCHANGED <<tmVars, newTransactionLck, connVars, statement, dataVars, historyVars>>

\* Mutant: after the timeout the commit goes on.
WaitTimeout_GoesOn(c) ==
    /\ pc[c] = "wait"
    /\ activeReadOnlyTransactionIDs # {}
    /\ publicFunctionLck' = None
    /\ Goto(c, "keep_active")
    /\ UNCHANGED <<tmVars, newTransactionLck, connVars, statement, dataVars, historyVars>>

\* The exception releases the scoped lock, not mtxForStartingNewTransactions.  The handler
\* of an AUTO_COMMIT statement rolls back; Connection::commit passes it to the client.
WaitTimeout(c) ==
    /\ pc[c] = "wait"
    /\ activeReadOnlyTransactionIDs # {}
    /\ publicFunctionLck' = None
    /\ Goto(c, IF transactionMode[c] = "AUTO_COMMIT" THEN RollbackLocation(c) ELSE "idle")
    /\ UNCHANGED <<tmVars, newTransactionLck, connVars, statement, dataVars, historyVars>>

\* commitButKeepActiveWriteTransaction: the commit record is logged.
CommitButKeepActiveWriteTransaction(c) ==
    /\ pc[c] = "keep_active"
    /\ publicFunctionLck = None
    /\ activeWriteTransactionID = activeTransaction[c].ID
    /\ lastCommitID' = lastCommitID + 1
    /\ Goto(c, "checkpoint")
    /\ UNCHANGED <<lastTransactionID, activeWriteTransactionID, activeReadOnlyTransactionIDs,
                   lockVars, connVars, statement, dataVars, historyVars>>

\* Mutant: the WAL is cleared before it is replayed.
CheckpointAndClearWAL_ClearsFirst(c) ==
    /\ pc[c] = "checkpoint"
    /\ walUpdates' = {}
    /\ checkpointed' = checkpointed \cup walUpdates'
    /\ checkpointedCatalog' = checkpointedCatalog \cup catalogUpdates
    /\ catalogUpdates' = {}
    /\ Goto(c, "clear_active")
    /\ UNCHANGED <<tmVars, lockVars, connVars, statement, historyVars>>

\* flushAllPages, replay of every record of the WAL, clearWAL.  There is a record of the
\* catalog, or of the statistics, if their write version has updates, whoever made them.
CheckpointAndClearWAL(c) ==
    /\ pc[c] = "checkpoint"
    /\ checkpointed' = checkpointed \cup walUpdates
    /\ walUpdates' = {}
    /\ checkpointedCatalog' = checkpointedCatalog \cup catalogUpdates
    /\ catalogUpdates' = {}
    /\ Goto(c, "clear_active")
    /\ UNCHANGED <<tmVars, lockVars, connVars, statement, historyVars>>

ManuallyClearActiveWriteTransaction(c) ==
    /\ pc[c] = "clear_active"
    /\ publicFunctionLck = None
    /\ activeWriteTransactionID = activeTransaction[c].ID
    /\ activeWriteTransactionID' = NoID
    /\ Goto(c, "allow")
    /\ UNCHANGED <<lastTransactionID, lastCommitID, activeReadOnlyTransactionIDs, lockVars,
                   connVars, statement, dataVars, historyVars>>

AllowReceivingNewTransactions(c) ==
    /\ pc[c] = "allow"
    /\ newTransactionLck' = None
    /\ ResetTransaction(c)
    /\ Goto(c, "idle")
    /\ UNCHANGED <<tmVars, publicFunctionLck, statement, dataVars, historyVars>>

-----------------------------------------------------------------------------
(* Database::commitAndCheckpointOrRollback for a rollback.                 *)

\* Mutant: the WAL keeps its records, as it does when a connection is destroyed.
RollbackAndClearWAL_KeepsWAL(c) ==
    /\ pc[c] = "rollback"
    /\ rolledBack' = rolledBack \cup {activeTransaction[c].ID}
    /\ Goto(c, "clear_rolled_back")
    /\ UNCHANGED <<tmVars, lockVars, connVars, statement, dataVars, snapshot, updated,
                   abandoned>>

\* The records of pages and of node statistics are undone, whoever wrote them; those of
\* tables, files, catalog and relationship statistics are passed over.  The log is cleared;
\* the write versions of the catalog and of the relationship statistics stay as they are.
RollbackAndClearWAL(c) ==
    /\ pc[c] = "rollback"
    /\ rolledBack' = rolledBack \cup {activeTransaction[c].ID}
    /\ walUpdates' = {}
    /\ Goto(c, "clear_rolled_back")
    /\ UNCHANGED <<tmVars, lockVars, connVars, statement, checkpointed, catalogUpdates,
                   checkpointedCatalog, snapshot, updated, abandoned>>

ClearRolledBackTransaction(c) ==
    /\ pc[c] = "clear_rolled_back"
    /\ publicFunctionLck = None
    /\ activeWriteTransactionID = activeTransaction[c].ID
    /\ activeWriteTransactionID' = NoID
    /\ ResetTransaction(c)
    /\ Goto(c, "idle")
    /\ UNCHANGED <<lastTransactionID, lastCommitID, activeReadOnlyTransactionIDs, lockVars,
                   statement, dataVars, historyVars>>

-----------------------------------------------------------------------------
\* The steps a call takes by itself once it has been made.
CallStep(c) ==
    \/ \E isDDL \in BOOLEAN : StartStatement(c, isDDL)
    \/ PrepareFails(c)
    \/ Execute(c)
    \/ ExecuteFails(c)
    \/ LockNewTransactions(c)
    \/ BeginReadOnlyTransaction(c)
    \/ BeginWriteTransaction(c)
    \/ BeginWriteTransactionThrows(c)
    \/ LeaveReadOnlyTransaction(c)
    \/ CloseReadOnlyTransaction(c)
    \/ CloseWriteTransaction(c)
    \/ StopLockPublicFunctions(c)
    \/ StopLockNewTransactions(c)
    \/ AllReadTransactionsLeft(c)
    \/ WaitTimeout(c)
    \/ CommitButKeepActiveWriteTransaction(c)
    \/ CheckpointAndClearWAL(c)
    \/ ManuallyClearActiveWriteTransaction(c)
    \/ AllowReceivingNewTransactions(c)
    \/ RollbackAndClearWAL(c)
    \/ ClearRolledBackTransaction(c)

\* The calls a client may make, at any time its connection is idle, or never.
ClientCall(c) ==
    \/ \E type \in TransactionTypes : BeginTransaction(c, type)
    \/ \E type \in TransactionTypes : Query(c, type)
    \/ Commit(c)
    \/ Rollback(c)
    \/ Destroy(c)
    \/ Construct(c)

Next == \E c \in Connections : CallStep(c) \/ ClientCall(c)

Spec == Init /\ [][Next]_vars

\* Every thread inside a call keeps running; a client need not call again.
FairSpec == Spec /\ \A c \in Connections : WF_vars(CallStep(c))
-----------------------------------------------------------------------------
(* What the system promises and keeps.                                     *)

\* Between the successful stop of a commit and the end of its checkpoint no other
\* connection has a transaction: the checkpoint overwrites the pages readers use
\* (commitAndCheckpointOrRollback, database.h:128-156).
CheckpointExcludesTransactions ==
    \A c \in Connections : pc[c] \in Committing =>
        /\ activeReadOnlyTransactionIDs = {}
        /\ \A d \in Connections \ {c} : ~HasTransaction(d)

\* The IDs the manager keeps are those of the transactions the connections hold, whatever
\* ends them: commit, rollback, an exception or the destructor.  In particular
\* assertActiveWriteTransationIsCorrectNoLock never throws.
ActiveTransactionsAgree ==
    /\ activeReadOnlyTransactionIDs =
           {activeTransaction[c].ID : c \in {d \in Connections : IsReader(d)}}
    /\ {activeWriteTransactionID} \ {NoID} =
           {activeTransaction[c].ID : c \in {d \in Connections : IsWriter(d) /\ pc[d] # "allow"}}

\* No transaction sees the original files change under it: what was checkpointed when it
\* began is what is checkpointed now, up to its own checkpoint.
SnapshotsAreStable ==
    \A c \in Connections :
        HasTransaction(c) /\ pc[c] \notin {"clear_active", "allow"} => snapshot[c] = checkpointed

\* Nothing that a write transaction has put in the log (pages, node statistics, new, copied
\* and dropped tables) is ever checkpointed once it was rolled back, by the client, by the
\* failure of a statement or by the timeout of its commit.  The write versions of the catalog
\* and of the relationship statistics are not in the log: see UndoneIsNeverCheckpointed.
RolledBackIsNeverCheckpointed == rolledBack \cap checkpointed = {}

\* A commit that returns has checkpointed the updates of its transaction, those of a DDL or
\* COPY statement to the catalog too.
CommitIsCheckpointed ==
    \A c \in Connections :
        pc[c] \in {"clear_active", "allow"} /\ activeTransaction[c].ID \in updated =>
            /\ activeTransaction[c].ID \in checkpointed
            /\ statement[c] = "DDL" => activeTransaction[c].ID \in checkpointedCatalog

\* The mutex for new transactions is owned outside a begin and the stop-to-allow span of a
\* commit: the timeout of a commit has left it locked.
MutexIsLeaked ==
    \E c \in Connections :
        newTransactionLck = c /\ pc[c] \notin {"begin_public", "wait"} \cup Committing

\* Two threads each own the mutex the other waits for: a begin takes the mutex for new
\* transactions first, a stop the one for public functions.
LockOrderCycle ==
    \E c, d \in Connections :
        /\ pc[c] = "begin_public" /\ publicFunctionLck = d
        /\ pc[d] = "stop_new" /\ newTransactionLck = c

\* A call that does not return has met one of these two: there is no third way to hang.
HangsOnlyOnMutexes ==
    \A c \in Connections :
        pc[c] # "idle" ~> pc[c] \in {"idle", "closed"} \/ MutexIsLeaked \/ LockOrderCycle

-----------------------------------------------------------------------------
(* The inductive invariant from which the safety properties follow.         *)

\* A thread past the acquisition of a mutex owns it.
LocksInv ==
    \A c \in Connections :
        /\ pc[c] \in {"begin_public", "wait"} \cup Committing => newTransactionLck = c
        /\ pc[c] \in {"stop_new", "wait"} => publicFunctionLck = c

\* What the location of a call says of the transaction of its connection.
LocationsInv ==
    \A c \in Connections :
        /\ pc[c] \in {"begin", "begin_public", "closed"} => ~HasTransaction(c)
        /\ pc[c] \in {"execute", "close"} => HasTransaction(c)
        /\ pc[c] = "leave" => IsReader(c)
        /\ pc[c] \in {"stop", "stop_new", "wait", "rollback", "clear_rolled_back"} \cup Committing
               => IsWriter(c)
        /\ transactionMode[c] = "AUTO_COMMIT" /\ pc[c] \in {"idle", "prepare"}
               => ~HasTransaction(c)
        /\ statement[c] = "DDL" => transactionMode[c] = "AUTO_COMMIT"

\* Transactions have distinct IDs, none of them from the future.
IDsInv ==
    /\ \A c \in Connections : activeTransaction[c].ID <= lastTransactionID
    /\ \A c, d \in Connections :
           HasTransaction(c) /\ activeTransaction[c].ID = activeTransaction[d].ID => c = d
    /\ \A i \in walUpdates \cup checkpointed \cup rolledBack \cup updated : i <= lastTransactionID

\* ActiveTransactionsAgree, ID by ID.
AgreementInv ==
    /\ \A i \in activeReadOnlyTransactionIDs :
           \E c \in Connections : IsReader(c) /\ activeTransaction[c].ID = i
    /\ \A c \in Connections :
           IsReader(c) => activeTransaction[c].ID \in activeReadOnlyTransactionIDs
    /\ \A c \in Connections :
           IsWriter(c) /\ pc[c] # "allow" => activeTransaction[c].ID = activeWriteTransactionID
    /\ activeWriteTransactionID # NoID =>
           \E c \in Connections : /\ IsWriter(c) /\ pc[c] # "allow"
                                  /\ activeTransaction[c].ID = activeWriteTransactionID

\* A transaction that has not ended has left no trace of an end.
OutcomesInv ==
    /\ rolledBack \cap (walUpdates \cup checkpointed) = {}
    /\ \A c \in Connections : HasTransaction(c) =>
           /\ pc[c] # "clear_rolled_back" => activeTransaction[c].ID \notin rolledBack
           /\ pc[c] \notin {"clear_active", "allow"} =>
                  activeTransaction[c].ID \notin checkpointed

\* The updates of a write transaction are in the WAL until it ends one way or the other.
UpdatesInv ==
    \A c \in Connections : IsWriter(c) /\ activeTransaction[c].ID \in updated =>
        /\ pc[c] \notin {"clear_active", "allow", "clear_rolled_back"} =>
               activeTransaction[c].ID \in walUpdates
        /\ pc[c] \in {"clear_active", "allow"} => activeTransaction[c].ID \in checkpointed
        /\ statement[c] = "DDL" /\ pc[c] \notin {"clear_active", "allow", "clear_rolled_back"} =>
               activeTransaction[c].ID \in catalogUpdates
        /\ statement[c] = "DDL" /\ pc[c] \in {"clear_active", "allow"} =>
               activeTransaction[c].ID \in checkpointedCatalog

IInv ==
    /\ TypeOK
    /\ LocksInv
    /\ LocationsInv
    /\ IDsInv
    /\ AgreementInv
    /\ OutcomesInv
    /\ UpdatesInv
    /\ CheckpointExcludesTransactions
    /\ SnapshotsAreStable

-----------------------------------------------------------------------------
(* What comments and messages of the repository say, and the code does not do. *)

\* A begin that cannot obtain the lock for new transactions does not restrict the other
\* public functions (transaction_manager.cpp:11-12), nor they it: no two threads each
\* own the mutex the other waits for.
NoLockOrderCycle == ~LockOrderCycle

\* "Commits and checkpoints a write transaction or rolls that transaction back" (database.h:88),
\* and a transaction that is active when its connection is destroyed is rolled back
\* (connection.h:46-47): nothing of a transaction that was rolled back or abandoned is ever
\* checkpointed.  The catalog of a DDL or COPY statement that failed, or whose commit timed
\* out, is, and so are the updates of a destroyed connection.
UndoneIsNeverCheckpointed ==
    (rolledBack \cup abandoned) \cap (checkpointed \cup checkpointedCatalog) = {}
=============================================================================
