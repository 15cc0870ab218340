---------------------- MODULE TransactionManagerProofs ----------------------
(***************************************************************************)
(* Proofs about TransactionManager for any set of connections.  IInv is    *)
(* inductive; one lemma per conjunct shows that every action keeps it, and *)
(* the theorems combine them.                                              *)
(***************************************************************************)
EXTENDS TransactionManager, TLAPS

\* The owner "None" of a free mutex is no connection.
LEMMA NoneNotAConnection == None \notin Connections
BY ConnectionsAssumption

\* Every step of a call or a client keeps the types.
LEMMA TypeStep ==
    ASSUME TypeOK,
           NEW c \in Connections, CallStep(c) \/ ClientCall(c)
    PROVE  TypeOK'
<1> USE NoneNotAConnection DEF Goto, TypeOK, Transactions, TransactionTypes, Statements,
        NoTransaction, NoID, Locations, StatementTypes, CommitLocation, RollbackLocation,
        tmVars, lockVars,
        connVars, dataVars, historyVars
<1>1. ASSUME NEW isDDL \in BOOLEAN, StartStatement(c, isDDL) PROVE TypeOK'
    BY <1>1 DEF StartStatement
<1>2. CASE PrepareFails(c) BY <1>2 DEF PrepareFails
<1>3. CASE Execute(c) BY <1>3 DEF Execute, Logged, Defined
<1>4. CASE ExecuteFails(c) BY <1>4 DEF ExecuteFails, Logged, Defined
<1>5. CASE LockNewTransactions(c) BY <1>5 DEF LockNewTransactions
<1>6. CASE BeginReadOnlyTransaction(c) BY <1>6 DEF BeginReadOnlyTransaction, AfterBegin
<1>7. CASE BeginWriteTransaction(c) BY <1>7 DEF BeginWriteTransaction, AfterBegin
<1>8. CASE BeginWriteTransactionThrows(c) BY <1>8 DEF BeginWriteTransactionThrows
<1>9. CASE LeaveReadOnlyTransaction(c) BY <1>9 DEF LeaveReadOnlyTransaction, ResetTransaction
<1>10. CASE CloseReadOnlyTransaction(c) BY <1>10 DEF CloseReadOnlyTransaction
<1>11. CASE CloseWriteTransaction(c) BY <1>11 DEF CloseWriteTransaction
<1>12. CASE StopLockPublicFunctions(c) BY <1>12 DEF StopLockPublicFunctions
<1>13. CASE StopLockNewTransactions(c) BY <1>13 DEF StopLockNewTransactions
<1>14. CASE AllReadTransactionsLeft(c) BY <1>14 DEF AllReadTransactionsLeft
<1>15. CASE WaitTimeout(c) BY <1>15 DEF WaitTimeout
<1>16. CASE CommitButKeepActiveWriteTransaction(c)
    BY <1>16 DEF CommitButKeepActiveWriteTransaction
<1>17. CASE CheckpointAndClearWAL(c) BY <1>17 DEF CheckpointAndClearWAL
<1>18. CASE ManuallyClearActiveWriteTransaction(c)
    BY <1>18 DEF ManuallyClearActiveWriteTransaction
<1>19. CASE AllowReceivingNewTransactions(c)
    BY <1>19 DEF AllowReceivingNewTransactions, ResetTransaction
<1>20. CASE RollbackAndClearWAL(c) BY ZenonT(30), <1>20 DEF RollbackAndClearWAL
<1>21. CASE ClearRolledBackTransaction(c)
    BY <1>21 DEF ClearRolledBackTransaction, ResetTransaction
<1>22. ASSUME NEW type \in TransactionTypes, BeginTransaction(c, type) PROVE TypeOK'
    BY <1>22 DEF BeginTransaction
<1>23. ASSUME NEW type \in TransactionTypes, Query(c, type) PROVE TypeOK' BY <1>23 DEF Query
<1>24. CASE Commit(c) BY <1>24 DEF Commit
<1>25. CASE Rollback(c) BY <1>25 DEF Rollback
<1>26. CASE Destroy(c) BY <1>26 DEF Destroy
<1>27. CASE Construct(c) BY <1>27 DEF Construct
<1> QED BY <1>1, <1>2, <1>3, <1>4, <1>5, <1>6, <1>7, <1>8, <1>9, <1>10, <1>11, <1>12, <1>13,
    <1>14, <1>15, <1>16, <1>17, <1>18, <1>19, <1>20, <1>21, <1>22, <1>23, <1>24, <1>25,
    <1>26, <1>27
    DEF CallStep, ClientCall

\* The mutexes are owned by the threads past their acquisition.
LEMMA LocksStep ==
    ASSUME TypeOK, LocksInv,
           NEW c \in Connections, CallStep(c) \/ ClientCall(c)
    PROVE  LocksInv'
<1> USE NoneNotAConnection DEF Goto, TypeOK, LocksInv, Committing, CommitLocation,
        RollbackLocation, AfterBegin, tmVars, lockVars, connVars, dataVars, historyVars
<1>1. ASSUME NEW isDDL \in BOOLEAN, StartStatement(c, isDDL) PROVE LocksInv'
    BY <1>1 DEF StartStatement
<1>2. CASE PrepareFails(c) BY <1>2 DEF PrepareFails
<1>3. CASE Execute(c) BY <1>3 DEF Execute, Logged, Defined
<1>4. CASE ExecuteFails(c) BY <1>4 DEF ExecuteFails, Logged, Defined
<1>5. CASE LockNewTransactions(c) BY <1>5 DEF LockNewTransactions
<1>6. CASE BeginReadOnlyTransaction(c) BY <1>6 DEF BeginReadOnlyTransaction
<1>7. CASE BeginWriteTransaction(c) BY <1>7 DEF BeginWriteTransaction
<1>8. CASE BeginWriteTransactionThrows(c) BY <1>8 DEF BeginWriteTransactionThrows
<1>9. CASE LeaveReadOnlyTransaction(c) BY <1>9 DEF LeaveReadOnlyTransaction, ResetTransaction
<1>10. CASE CloseReadOnlyTransaction(c) BY <1>10 DEF CloseReadOnlyTransaction
<1>11. CASE CloseWriteTransaction(c) BY <1>11 DEF CloseWriteTransaction
<1>12. CASE StopLockPublicFunctions(c) BY <1>12 DEF StopLockPublicFunctions
<1>13. CASE StopLockNewTransactions(c) BY <1>13 DEF StopLockNewTransactions
<1>14. CASE AllReadTransactionsLeft(c) BY <1>14 DEF AllReadTransactionsLeft
<1>15. CASE WaitTimeout(c) BY <1>15 DEF WaitTimeout
<1>16. CASE CommitButKeepActiveWriteTransaction(c)
    BY <1>16 DEF CommitButKeepActiveWriteTransaction
<1>17. CASE CheckpointAndClearWAL(c) BY <1>17 DEF CheckpointAndClearWAL
<1>18. CASE ManuallyClearActiveWriteTransaction(c)
    BY <1>18 DEF ManuallyClearActiveWriteTransaction
<1>19. CASE AllowReceivingNewTransactions(c)
    BY <1>19 DEF AllowReceivingNewTransactions, ResetTransaction
<1>20. CASE RollbackAndClearWAL(c) BY <1>20 DEF RollbackAndClearWAL
<1>21. CASE ClearRolledBackTransaction(c)
    BY <1>21 DEF ClearRolledBackTransaction, ResetTransaction
<1>22. ASSUME NEW type \in TransactionTypes, BeginTransaction(c, type) PROVE LocksInv'
    BY <1>22 DEF BeginTransaction
<1>23. ASSUME NEW type \in TransactionTypes, Query(c, type) PROVE LocksInv' BY <1>23 DEF Query
<1>24. CASE Commit(c) BY <1>24 DEF Commit
<1>25. CASE Rollback(c) BY <1>25 DEF Rollback
<1>26. CASE Destroy(c) BY <1>26 DEF Destroy
<1>27. CASE Construct(c) BY <1>27 DEF Construct
<1> QED BY <1>1, <1>2, <1>3, <1>4, <1>5, <1>6, <1>7, <1>8, <1>9, <1>10, <1>11, <1>12, <1>13,
    <1>14, <1>15, <1>16, <1>17, <1>18, <1>19, <1>20, <1>21, <1>22, <1>23, <1>24, <1>25,
    <1>26, <1>27
    DEF CallStep, ClientCall

\* The location of a call fits the transaction of its connection.
LEMMA LocationsStep ==
    ASSUME TypeOK, LocationsInv,
           NEW c \in Connections, CallStep(c) \/ ClientCall(c)
    PROVE  LocationsInv'
<1> USE NoneNotAConnection DEF Goto, TypeOK, LocationsInv, Committing, CommitLocation,
        RollbackLocation, tmVars, lockVars, connVars, dataVars, historyVars, IsReader,
        IsWriter, HasTransaction, Transactions, NoTransaction, TransactionTypes, Statements, NoID
<1>1. ASSUME NEW isDDL \in BOOLEAN, StartStatement(c, isDDL) PROVE LocationsInv'
    BY <1>1 DEF StartStatement
<1>2. CASE PrepareFails(c) BY <1>2 DEF PrepareFails
<1>3. CASE Execute(c) BY <1>3 DEF Execute, Logged, Defined
<1>4. CASE ExecuteFails(c) BY <1>4 DEF ExecuteFails, Logged, Defined
<1>5. CASE LockNewTransactions(c) BY <1>5 DEF LockNewTransactions
<1>6. CASE BeginReadOnlyTransaction(c) BY <1>6 DEF BeginReadOnlyTransaction, AfterBegin
<1>7. CASE BeginWriteTransaction(c) BY <1>7 DEF BeginWriteTransaction, AfterBegin
<1>8. CASE BeginWriteTransactionThrows(c) BY <1>8 DEF BeginWriteTransactionThrows
<1>9. CASE LeaveReadOnlyTransaction(c) BY <1>9 DEF LeaveReadOnlyTransaction, ResetTransaction
<1>10. CASE CloseReadOnlyTransaction(c) BY <1>10 DEF CloseReadOnlyTransaction
<1>11. CASE CloseWriteTransaction(c) BY <1>11 DEF CloseWriteTransaction
<1>12. CASE StopLockPublicFunctions(c) BY <1>12 DEF StopLockPublicFunctions
<1>13. CASE StopLockNewTransactions(c) BY <1>13 DEF StopLockNewTransactions
<1>14. CASE AllReadTransactionsLeft(c) BY <1>14 DEF AllReadTransactionsLeft
<1>15. CASE WaitTimeout(c) BY <1>15 DEF WaitTimeout
<1>16. CASE CommitButKeepActiveWriteTransaction(c)
    BY <1>16 DEF CommitButKeepActiveWriteTransaction
<1>17. CASE CheckpointAndClearWAL(c) BY <1>17 DEF CheckpointAndClearWAL
<1>18. CASE ManuallyClearActiveWriteTransaction(c)
    BY <1>18 DEF ManuallyClearActiveWriteTransaction
<1>19. CASE AllowReceivingNewTransactions(c)
    BY <1>19 DEF AllowReceivingNewTransactions, ResetTransaction
<1>20. CASE RollbackAndClearWAL(c) BY <1>20 DEF RollbackAndClearWAL
<1>21. CASE ClearRolledBackTransaction(c)
    BY <1>21 DEF ClearRolledBackTransaction, ResetTransaction
<1>22. ASSUME NEW type \in TransactionTypes, BeginTransaction(c, type) PROVE LocationsInv'
    BY <1>22 DEF BeginTransaction
<1>23. ASSUME NEW type \in TransactionTypes, Query(c, type) PROVE LocationsInv'
    BY <1>23 DEF Query
<1>24. CASE Commit(c) BY <1>24 DEF Commit
<1>25. CASE Rollback(c) BY <1>25 DEF Rollback
<1>26. CASE Destroy(c) BY <1>26 DEF Destroy
<1>27. CASE Construct(c) BY <1>27 DEF Construct
<1> QED BY <1>1, <1>2, <1>3, <1>4, <1>5, <1>6, <1>7, <1>8, <1>9, <1>10, <1>11, <1>12, <1>13,
    <1>14, <1>15, <1>16, <1>17, <1>18, <1>19, <1>20, <1>21, <1>22, <1>23, <1>24, <1>25,
    <1>26, <1>27
    DEF CallStep, ClientCall

\* Transaction IDs are fresh and distinct.
LEMMA IDsStep ==
    ASSUME TypeOK, IDsInv,
           NEW c \in Connections, CallStep(c) \/ ClientCall(c)
    PROVE  IDsInv'
<1> USE NoneNotAConnection DEF Goto, TypeOK, IDsInv, HasTransaction, Transactions,
        NoTransaction, TransactionTypes, Statements, NoID, tmVars, lockVars, connVars, dataVars,
        historyVars
<1>1. ASSUME NEW isDDL \in BOOLEAN, StartStatement(c, isDDL) PROVE IDsInv'
    BY <1>1 DEF StartStatement, RollbackLocation
<1>2. CASE PrepareFails(c) BY <1>2 DEF PrepareFails
<1>3. CASE Execute(c) BY <1>3 DEF Execute, Logged, Defined, CommitLocation
<1>4. CASE ExecuteFails(c) BY <1>4 DEF ExecuteFails, Logged, Defined, RollbackLocation
<1>5. CASE LockNewTransactions(c) BY <1>5 DEF LockNewTransactions
<1>6. CASE BeginReadOnlyTransaction(c) BY <1>6 DEF BeginReadOnlyTransaction, AfterBegin
<1>7. CASE BeginWriteTransaction(c) BY <1>7 DEF BeginWriteTransaction, AfterBegin
<1>8. CASE BeginWriteTransactionThrows(c) BY <1>8 DEF BeginWriteTransactionThrows
<1>9. CASE LeaveReadOnlyTransaction(c) BY <1>9 DEF LeaveReadOnlyTransaction, ResetTransaction
<1>10. CASE CloseReadOnlyTransaction(c) BY <1>10 DEF CloseReadOnlyTransaction
<1>11. CASE CloseWriteTransaction(c) BY <1>11 DEF CloseWriteTransaction
<1>12. CASE StopLockPublicFunctions(c) BY <1>12 DEF StopLockPublicFunctions
<1>13. CASE StopLockNewTransactions(c) BY <1>13 DEF StopLockNewTransactions
<1>14. CASE AllReadTransactionsLeft(c) BY <1>14 DEF AllReadTransactionsLeft
<1>15. CASE WaitTimeout(c) BY <1>15 DEF WaitTimeout, RollbackLocation
<1>16. CASE CommitButKeepActiveWriteTransaction(c)
    BY <1>16 DEF CommitButKeepActiveWriteTransaction
<1>17. CASE CheckpointAndClearWAL(c) BY <1>17 DEF CheckpointAndClearWAL
<1>18. CASE ManuallyClearActiveWriteTransaction(c)
    BY <1>18 DEF ManuallyClearActiveWriteTransaction
<1>19. CASE AllowReceivingNewTransactions(c)
    BY <1>19 DEF AllowReceivingNewTransactions, ResetTransaction
<1>20. CASE RollbackAndClearWAL(c) BY <1>20 DEF RollbackAndClearWAL
<1>21. CASE ClearRolledBackTransaction(c)
    BY <1>21 DEF ClearRolledBackTransaction, ResetTransaction
<1>22. ASSUME NEW type \in TransactionTypes, BeginTransaction(c, type) PROVE IDsInv'
    BY <1>22 DEF BeginTransaction
<1>23. ASSUME NEW type \in TransactionTypes, Query(c, type) PROVE IDsInv' BY <1>23 DEF Query
<1>24. CASE Commit(c) BY <1>24 DEF Commit, CommitLocation
<1>25. CASE Rollback(c) BY <1>25 DEF Rollback, RollbackLocation
<1>26. CASE Destroy(c) BY <1>26 DEF Destroy
<1>27. CASE Construct(c) BY <1>27 DEF Construct
<1> QED BY <1>1, <1>2, <1>3, <1>4, <1>5, <1>6, <1>7, <1>8, <1>9, <1>10, <1>11, <1>12, <1>13,
    <1>14, <1>15, <1>16, <1>17, <1>18, <1>19, <1>20, <1>21, <1>22, <1>23, <1>24, <1>25,
    <1>26, <1>27
    DEF CallStep, ClientCall

\* The IDs of the manager follow the transactions of the connections.
LEMMA AgreementStep ==
    ASSUME TypeOK, LocksInv, LocationsInv, IDsInv, AgreementInv,
           NEW c \in Connections, CallStep(c) \/ ClientCall(c)
    PROVE  AgreementInv'
<1> USE NoneNotAConnection DEF Goto, TypeOK, LocationsInv, IDsInv, AgreementInv, Committing,
        CommitLocation, RollbackLocation, tmVars, lockVars, connVars, dataVars, historyVars,
        IsReader, IsWriter, HasTransaction, Transactions, NoTransaction, TransactionTypes,
        Statements, NoID
<1>1. ASSUME NEW isDDL \in BOOLEAN, StartStatement(c, isDDL) PROVE AgreementInv'
    BY <1>1 DEF StartStatement
<1>2. CASE PrepareFails(c) BY <1>2 DEF PrepareFails
<1>3. CASE Execute(c) BY <1>3 DEF Execute, Logged, Defined
<1>4. CASE ExecuteFails(c) BY <1>4 DEF ExecuteFails, Logged, Defined
<1>5. CASE LockNewTransactions(c) BY <1>5 DEF LockNewTransactions
<1>6. CASE BeginReadOnlyTransaction(c) BY <1>6 DEF BeginReadOnlyTransaction, AfterBegin
<1>7. CASE BeginWriteTransaction(c) BY <1>7 DEF BeginWriteTransaction, AfterBegin
<1>8. CASE BeginWriteTransactionThrows(c) BY <1>8 DEF BeginWriteTransactionThrows
<1>9. CASE LeaveReadOnlyTransaction(c) BY <1>9 DEF LeaveReadOnlyTransaction, ResetTransaction
<1>10. CASE CloseReadOnlyTransaction(c) BY <1>10 DEF CloseReadOnlyTransaction
<1>11. CASE CloseWriteTransaction(c) BY <1>11 DEF CloseWriteTransaction
<1>12. CASE StopLockPublicFunctions(c) BY <1>12 DEF StopLockPublicFunctions
<1>13. CASE StopLockNewTransactions(c) BY <1>13 DEF StopLockNewTransactions
<1>14. CASE AllReadTransactionsLeft(c) BY <1>14 DEF AllReadTransactionsLeft
<1>15. CASE WaitTimeout(c) BY <1>15 DEF WaitTimeout
<1>16. CASE CommitButKeepActiveWriteTransaction(c)
    BY <1>16 DEF CommitButKeepActiveWriteTransaction
<1>17. CASE CheckpointAndClearWAL(c) BY <1>17 DEF CheckpointAndClearWAL
<1>18. CASE ManuallyClearActiveWriteTransaction(c)
    BY <1>18 DEF ManuallyClearActiveWriteTransaction
<1>19. CASE AllowReceivingNewTransactions(c)
    BY <1>19 DEF AllowReceivingNewTransactions, ResetTransaction
<1>20. CASE RollbackAndClearWAL(c) BY <1>20 DEF RollbackAndClearWAL
<1>21. CASE ClearRolledBackTransaction(c)
    BY <1>21 DEF ClearRolledBackTransaction, ResetTransaction
<1>22. ASSUME NEW type \in TransactionTypes, BeginTransaction(c, type) PROVE AgreementInv'
    BY <1>22 DEF BeginTransaction
<1>23. ASSUME NEW type \in TransactionTypes, Query(c, type) PROVE AgreementInv'
    BY <1>23 DEF Query
<1>24. CASE Commit(c) BY <1>24 DEF Commit
<1>25. CASE Rollback(c) BY <1>25 DEF Rollback
<1>26. CASE Destroy(c) BY <1>26 DEF Destroy
<1>27. CASE Construct(c) BY <1>27 DEF Construct
<1> HIDE DEF AgreementInv, TypeOK, LocationsInv, IDsInv
<1> QED BY <1>1, <1>2, <1>3, <1>4, <1>5, <1>6, <1>7, <1>8, <1>9, <1>10, <1>11, <1>12,
    <1>13, <1>14, <1>15, <1>16, <1>17, <1>18, <1>19, <1>20, <1>21, <1>22, <1>23, <1>24, <1>25,
    <1>26, <1>27
    DEF CallStep, ClientCall

\* Updates end where their transaction ends.
LEMMA OutcomesStep ==
    ASSUME TypeOK, LocksInv, LocationsInv, IDsInv, OutcomesInv, CheckpointExcludesTransactions,
           NEW c \in Connections, CallStep(c) \/ ClientCall(c)
    PROVE  OutcomesInv'
<1> USE NoneNotAConnection DEF Goto, TypeOK, LocationsInv, IDsInv, OutcomesInv,
        CheckpointExcludesTransactions, Committing, CommitLocation, RollbackLocation,
        tmVars, lockVars, connVars, dataVars, historyVars, IsReader, IsWriter,
        HasTransaction, Transactions, NoTransaction, TransactionTypes, Statements, NoID
<1>1. ASSUME NEW isDDL \in BOOLEAN, StartStatement(c, isDDL) PROVE OutcomesInv'
    BY <1>1 DEF StartStatement
<1>2. CASE PrepareFails(c) BY <1>2 DEF PrepareFails
<1>3. CASE Execute(c) BY <1>3 DEF Execute, Logged, Defined
<1>4. CASE ExecuteFails(c) BY <1>4 DEF ExecuteFails, Logged, Defined
<1>5. CASE LockNewTransactions(c) BY <1>5 DEF LockNewTransactions
<1>6. CASE BeginReadOnlyTransaction(c) BY <1>6 DEF BeginReadOnlyTransaction, AfterBegin
<1>7. CASE BeginWriteTransaction(c) BY <1>7 DEF BeginWriteTransaction, AfterBegin
<1>8. CASE BeginWriteTransactionThrows(c) BY <1>8 DEF BeginWriteTransactionThrows
<1>9. CASE LeaveReadOnlyTransaction(c) BY <1>9 DEF LeaveReadOnlyTransaction, ResetTransaction
<1>10. CASE CloseReadOnlyTransaction(c) BY <1>10 DEF CloseReadOnlyTransaction
<1>11. CASE CloseWriteTransaction(c) BY <1>11 DEF CloseWriteTransaction
<1>12. CASE StopLockPublicFunctions(c) BY <1>12 DEF StopLockPublicFunctions
<1>13. CASE StopLockNewTransactions(c) BY <1>13 DEF StopLockNewTransactions
<1>14. CASE AllReadTransactionsLeft(c) BY <1>14 DEF AllReadTransactionsLeft
<1>15. CASE WaitTimeout(c) BY <1>15 DEF WaitTimeout
<1>16. CASE CommitButKeepActiveWriteTransaction(c)
    BY <1>16 DEF CommitButKeepActiveWriteTransaction
<1>17. CASE CheckpointAndClearWAL(c) BY <1>17 DEF CheckpointAndClearWAL
<1>18. CASE ManuallyClearActiveWriteTransaction(c)
    BY <1>18 DEF ManuallyClearActiveWriteTransaction
<1>19. CASE AllowReceivingNewTransactions(c)
    BY <1>19 DEF AllowReceivingNewTransactions, ResetTransaction
<1>20. CASE RollbackAndClearWAL(c) BY <1>20 DEF RollbackAndClearWAL
<1>21. CASE ClearRolledBackTransaction(c)
    BY <1>21 DEF ClearRolledBackTransaction, ResetTransaction
<1>22. ASSUME NEW type \in TransactionTypes, BeginTransaction(c, type) PROVE OutcomesInv'
    BY <1>22 DEF BeginTransaction
<1>23. ASSUME NEW type \in TransactionTypes, Query(c, type) PROVE OutcomesInv'
    BY <1>23 DEF Query
<1>24. CASE Commit(c) BY <1>24 DEF Commit
<1>25. CASE Rollback(c) BY <1>25 DEF Rollback
<1>26. CASE Destroy(c) BY <1>26 DEF Destroy
<1>27. CASE Construct(c) BY <1>27 DEF Construct
<1> QED BY <1>1, <1>2, <1>3, <1>4, <1>5, <1>6, <1>7, <1>8, <1>9, <1>10, <1>11, <1>12, <1>13,
    <1>14, <1>15, <1>16, <1>17, <1>18, <1>19, <1>20, <1>21, <1>22, <1>23, <1>24, <1>25,
    <1>26, <1>27
    DEF CallStep, ClientCall

\* A commit past its stop stays alone: a begin needs the mutex it owns.
LEMMA ExclusionStep ==
    ASSUME TypeOK, LocksInv, LocationsInv, IDsInv, AgreementInv, CheckpointExcludesTransactions,
           NEW c \in Connections, CallStep(c) \/ ClientCall(c)
    PROVE  CheckpointExcludesTransactions'
<1> USE NoneNotAConnection DEF Goto, TypeOK, LocksInv, LocationsInv, IDsInv, AgreementInv,
        CheckpointExcludesTransactions, Committing, CommitLocation, RollbackLocation,
        tmVars, lockVars, connVars, dataVars, historyVars, IsReader, IsWriter,
        HasTransaction, Transactions, NoTransaction, TransactionTypes, Statements, NoID
<1>1. ASSUME NEW isDDL \in BOOLEAN, StartStatement(c, isDDL) PROVE CheckpointExcludesTransactions'
    BY <1>1 DEF StartStatement
<1>2. CASE PrepareFails(c) BY <1>2 DEF PrepareFails
<1>3. CASE Execute(c) BY <1>3 DEF Execute, Logged, Defined
<1>4. CASE ExecuteFails(c) BY <1>4 DEF ExecuteFails, Logged, Defined
<1>5. CASE LockNewTransactions(c) BY <1>5 DEF LockNewTransactions
<1>6. CASE BeginReadOnlyTransaction(c) BY <1>6 DEF BeginReadOnlyTransaction, AfterBegin
<1>7. CASE BeginWriteTransaction(c) BY <1>7 DEF BeginWriteTransaction, AfterBegin
<1>8. CASE BeginWriteTransactionThrows(c) BY <1>8 DEF BeginWriteTransactionThrows
<1>9. CASE LeaveReadOnlyTransaction(c) BY <1>9 DEF LeaveReadOnlyTransaction, ResetTransaction
<1>10. CASE CloseReadOnlyTransaction(c) BY <1>10 DEF CloseReadOnlyTransaction
<1>11. CASE CloseWriteTransaction(c) BY <1>11 DEF CloseWriteTransaction
<1>12. CASE StopLockPublicFunctions(c) BY <1>12 DEF StopLockPublicFunctions
<1>13. CASE StopLockNewTransactions(c) BY <1>13 DEF StopLockNewTransactions
<1>14. CASE AllReadTransactionsLeft(c) BY <1>14 DEF AllReadTransactionsLeft
<1>15. CASE WaitTimeout(c) BY <1>15 DEF WaitTimeout
<1>16. CASE CommitButKeepActiveWriteTransaction(c)
    BY <1>16 DEF CommitButKeepActiveWriteTransaction
<1>17. CASE CheckpointAndClearWAL(c) BY <1>17 DEF CheckpointAndClearWAL
<1>18. CASE ManuallyClearActiveWriteTransaction(c)
    BY <1>18 DEF ManuallyClearActiveWriteTransaction
<1>19. CASE AllowReceivingNewTransactions(c)
    BY <1>19 DEF AllowReceivingNewTransactions, ResetTransaction
<1>20. CASE RollbackAndClearWAL(c) BY <1>20 DEF RollbackAndClearWAL
<1>21. CASE ClearRolledBackTransaction(c)
    BY <1>21 DEF ClearRolledBackTransaction, ResetTransaction
<1>22. ASSUME NEW type \in TransactionTypes, BeginTransaction(c, type) PROVE CheckpointExcludesTransactions'
    BY <1>22 DEF BeginTransaction
<1>23. ASSUME NEW type \in TransactionTypes, Query(c, type) PROVE CheckpointExcludesTransactions'
    BY <1>23 DEF Query
<1>24. CASE Commit(c) BY <1>24 DEF Commit
<1>25. CASE Rollback(c) BY <1>25 DEF Rollback
<1>26. CASE Destroy(c) BY <1>26 DEF Destroy
<1>27. CASE Construct(c) BY <1>27 DEF Construct
<1> QED BY <1>1, <1>2, <1>3, <1>4, <1>5, <1>6, <1>7, <1>8, <1>9, <1>10, <1>11, <1>12, <1>13,
    <1>14, <1>15, <1>16, <1>17, <1>18, <1>19, <1>20, <1>21, <1>22, <1>23, <1>24, <1>25,
    <1>26, <1>27
    DEF CallStep, ClientCall

\* Only a checkpoint changes the original files, and it is alone.
LEMMA SnapshotsStep ==
    ASSUME TypeOK, LocationsInv, CheckpointExcludesTransactions, SnapshotsAreStable,
           NEW c \in Connections, CallStep(c) \/ ClientCall(c)
    PROVE  SnapshotsAreStable'
<1> USE NoneNotAConnection DEF Goto, TypeOK, LocationsInv, CheckpointExcludesTransactions,
        SnapshotsAreStable, Committing, tmVars, lockVars, connVars, dataVars, historyVars,
        IsReader, IsWriter, HasTransaction, Transactions, NoTransaction, TransactionTypes,
        Statements, NoID
<1>1. ASSUME NEW isDDL \in BOOLEAN, StartStatement(c, isDDL) PROVE SnapshotsAreStable'
    BY <1>1 DEF StartStatement, RollbackLocation
<1>2. CASE PrepareFails(c) BY <1>2 DEF PrepareFails
<1>3. CASE Execute(c) BY <1>3 DEF Execute, Logged, Defined, CommitLocation
<1>4. CASE ExecuteFails(c) BY <1>4 DEF ExecuteFails, Logged, Defined, RollbackLocation
<1>5. CASE LockNewTransactions(c) BY <1>5 DEF LockNewTransactions
<1>6. CASE BeginReadOnlyTransaction(c) BY <1>6 DEF BeginReadOnlyTransaction, AfterBegin
<1>7. CASE BeginWriteTransaction(c) BY <1>7 DEF BeginWriteTransaction, AfterBegin
<1>8. CASE BeginWriteTransactionThrows(c) BY <1>8 DEF BeginWriteTransactionThrows
<1>9. CASE LeaveReadOnlyTransaction(c) BY <1>9 DEF LeaveReadOnlyTransaction, ResetTransaction
<1>10. CASE CloseReadOnlyTransaction(c) BY <1>10 DEF CloseReadOnlyTransaction
<1>11. CASE CloseWriteTransaction(c) BY <1>11 DEF CloseWriteTransaction
<1>12. CASE StopLockPublicFunctions(c) BY <1>12 DEF StopLockPublicFunctions
<1>13. CASE StopLockNewTransactions(c) BY <1>13 DEF StopLockNewTransactions
<1>14. CASE AllReadTransactionsLeft(c) BY <1>14 DEF AllReadTransactionsLeft
<1>15. CASE WaitTimeout(c) BY <1>15 DEF WaitTimeout, RollbackLocation
<1>16. CASE CommitButKeepActiveWriteTransaction(c)
    BY <1>16 DEF CommitButKeepActiveWriteTransaction
<1>17. CASE CheckpointAndClearWAL(c) BY <1>17 DEF CheckpointAndClearWAL
<1>18. CASE ManuallyClearActiveWriteTransaction(c)
    BY <1>18 DEF ManuallyClearActiveWriteTransaction
<1>19. CASE AllowReceivingNewTransactions(c)
    BY <1>19 DEF AllowReceivingNewTransactions, ResetTransaction
<1>20. CASE RollbackAndClearWAL(c) BY <1>20 DEF RollbackAndClearWAL
<1>21. CASE ClearRolledBackTransaction(c)
    BY <1>21 DEF ClearRolledBackTransaction, ResetTransaction
<1>22. ASSUME NEW type \in TransactionTypes, BeginTransaction(c, type) PROVE SnapshotsAreStable'
    BY <1>22 DEF BeginTransaction
<1>23. ASSUME NEW type \in TransactionTypes, Query(c, type) PROVE SnapshotsAreStable'
    BY <1>23 DEF Query
<1>24. CASE Commit(c) BY <1>24 DEF Commit, CommitLocation
<1>25. CASE Rollback(c) BY <1>25 DEF Rollback, RollbackLocation
<1>26. CASE Destroy(c) BY <1>26 DEF Destroy
<1>27. CASE Construct(c) BY <1>27 DEF Construct
<1> QED BY <1>1, <1>2, <1>3, <1>4, <1>5, <1>6, <1>7, <1>8, <1>9, <1>10, <1>11, <1>12, <1>13,
    <1>14, <1>15, <1>16, <1>17, <1>18, <1>19, <1>20, <1>21, <1>22, <1>23, <1>24, <1>25,
    <1>26, <1>27
    DEF CallStep, ClientCall

\* No other connection's rollback clears the updates of a live write transaction.
LEMMA UpdatesStep ==
    ASSUME TypeOK, LocksInv, LocationsInv, IDsInv, AgreementInv, UpdatesInv,
           NEW c \in Connections, CallStep(c) \/ ClientCall(c)
    PROVE  UpdatesInv'
<1> USE NoneNotAConnection DEF Goto, TypeOK, LocksInv, LocationsInv, IDsInv, AgreementInv,
        UpdatesInv, Committing, CommitLocation, RollbackLocation, tmVars, lockVars,
        connVars, dataVars, historyVars, IsReader, IsWriter, HasTransaction, Transactions,
        NoTransaction, TransactionTypes, Statements, NoID
<1>1. ASSUME NEW isDDL \in BOOLEAN, StartStatement(c, isDDL) PROVE UpdatesInv'
    BY <1>1 DEF StartStatement
<1>2. CASE PrepareFails(c) BY <1>2 DEF PrepareFails
<1>3. CASE Execute(c)
  <2>1. /\ Logged(c) = IF statement[c] = "READ_ONLY" THEN {} ELSE {activeTransaction[c].ID}
        /\ Defined(c) = IF statement[c] = "DDL" THEN {activeTransaction[c].ID} ELSE {}
      BY DEF Logged, Defined
  <2>2. /\ walUpdates' = walUpdates \cup Logged(c) /\ updated' = updated \cup Logged(c)
        /\ catalogUpdates' = catalogUpdates \cup Defined(c)
        /\ pc[c] = "execute" /\ pc' = [pc EXCEPT ![c] = pc'[c]]
        /\ pc'[c] \notin {"clear_active", "allow", "clear_rolled_back"}
        /\ UNCHANGED <<activeTransaction, statement, checkpointed, checkpointedCatalog>>
      BY <1>3 DEF Execute
  <2>3. ASSUME NEW d \in Connections, IsWriter(d)', (activeTransaction[d].ID \in updated)'
        PROVE  /\ IsWriter(d) /\ activeTransaction'[d] = activeTransaction[d]
               /\ d # c => activeTransaction[d].ID \in updated /\ pc'[d] = pc[d]
      BY <2>1, <2>2, <2>3
  <2> HIDE DEF IsWriter, LocksInv, LocationsInv, IDsInv, AgreementInv, TypeOK
  <2>4. ASSUME NEW d \in Connections, IsWriter(d)', (activeTransaction[d].ID \in updated)'
        PROVE  /\ pc'[d] \notin {"clear_active", "allow", "clear_rolled_back"} =>
                      activeTransaction'[d].ID \in walUpdates'
               /\ pc'[d] \in {"clear_active", "allow"} =>
                      activeTransaction'[d].ID \in checkpointed'
               /\ statement'[d] = "DDL"
                    /\ pc'[d] \notin {"clear_active", "allow", "clear_rolled_back"} =>
                      activeTransaction'[d].ID \in catalogUpdates'
               /\ statement'[d] = "DDL" /\ pc'[d] \in {"clear_active", "allow"} =>
                      activeTransaction'[d].ID \in checkpointedCatalog'
      <3>1. CASE d # c BY <2>2, <2>3, <2>4, <3>1
      <3>2. CASE d = c BY <2>1, <2>2, <2>3, <2>4, <3>2
      <3> QED BY <3>1, <3>2
  <2> QED BY <2>4
<1>4. CASE ExecuteFails(c) BY <1>4 DEF ExecuteFails, Logged, Defined
<1>5. CASE LockNewTransactions(c) BY <1>5 DEF LockNewTransactions
<1>6. CASE BeginReadOnlyTransaction(c) BY <1>6 DEF BeginReadOnlyTransaction, AfterBegin
<1>7. CASE BeginWriteTransaction(c) BY <1>7 DEF BeginWriteTransaction, AfterBegin
<1>8. CASE BeginWriteTransactionThrows(c) BY <1>8 DEF BeginWriteTransactionThrows
<1>9. CASE LeaveReadOnlyTransaction(c) BY <1>9 DEF LeaveReadOnlyTransaction, ResetTransaction
<1>10. CASE CloseReadOnlyTransaction(c) BY <1>10 DEF CloseReadOnlyTransaction
<1>11. CASE CloseWriteTransaction(c) BY <1>11 DEF CloseWriteTransaction
<1>12. CASE StopLockPublicFunctions(c) BY <1>12 DEF StopLockPublicFunctions
<1>13. CASE StopLockNewTransactions(c) BY <1>13 DEF StopLockNewTransactions
<1>14. CASE AllReadTransactionsLeft(c) BY <1>14 DEF AllReadTransactionsLeft
<1>15. CASE WaitTimeout(c) BY <1>15 DEF WaitTimeout
<1>16. CASE CommitButKeepActiveWriteTransaction(c)
    BY <1>16 DEF CommitButKeepActiveWriteTransaction
<1>17. CASE CheckpointAndClearWAL(c) BY <1>17 DEF CheckpointAndClearWAL
<1>18. CASE ManuallyClearActiveWriteTransaction(c)
    BY <1>18 DEF ManuallyClearActiveWriteTransaction
<1>19. CASE AllowReceivingNewTransactions(c)
    BY <1>19 DEF AllowReceivingNewTransactions, ResetTransaction
<1>20. CASE RollbackAndClearWAL(c) BY <1>20 DEF RollbackAndClearWAL
<1>21. CASE ClearRolledBackTransaction(c)
    BY <1>21 DEF ClearRolledBackTransaction, ResetTransaction
<1>22. ASSUME NEW type \in TransactionTypes, BeginTransaction(c, type) PROVE UpdatesInv'
    BY <1>22 DEF BeginTransaction
<1>23. ASSUME NEW type \in TransactionTypes, Query(c, type) PROVE UpdatesInv'
    BY <1>23 DEF Query
<1>24. CASE Commit(c) BY <1>24 DEF Commit
<1>25. CASE Rollback(c) BY <1>25 DEF Rollback
<1>26. CASE Destroy(c) BY <1>26 DEF Destroy
<1>27. CASE Construct(c) BY <1>27 DEF Construct
<1> QED BY <1>1, <1>2, <1>3, <1>4, <1>5, <1>6, <1>7, <1>8, <1>9, <1>10, <1>11, <1>12, <1>13,
    <1>14, <1>15, <1>16, <1>17, <1>18, <1>19, <1>20, <1>21, <1>22, <1>23, <1>24, <1>25,
    <1>26, <1>27
    DEF CallStep, ClientCall

\* The initial state satisfies the inductive invariant.
LEMMA InitIInv == Init => IInv
BY DEF Init, IInv, TypeOK, LocksInv, LocationsInv, IDsInv, AgreementInv, OutcomesInv, UpdatesInv,
    CheckpointExcludesTransactions, SnapshotsAreStable, Committing, Locations, Transactions,
    TransactionTypes, Statements, NoTransaction, NoID, HasTransaction, IsReader, IsWriter

\* Every step keeps the inductive invariant.
LEMMA NextIInv == IInv /\ [Next]_vars => IInv'
<1> SUFFICES ASSUME IInv, [Next]_vars PROVE IInv'
    OBVIOUS
<1>1. CASE Next
  <2>1. PICK c \in Connections : CallStep(c) \/ ClientCall(c)
        BY <1>1 DEF Next
  <2>2. TypeOK' BY <2>1, TypeStep DEF IInv
  <2>3. LocksInv' BY <2>1, LocksStep DEF IInv
  <2>4. LocationsInv' BY <2>1, LocationsStep DEF IInv
  <2>5. IDsInv' BY <2>1, IDsStep DEF IInv
  <2>6. AgreementInv' BY <2>1, AgreementStep DEF IInv
  <2>7. OutcomesInv' BY <2>1, OutcomesStep DEF IInv
  <2>8. CheckpointExcludesTransactions' BY <2>1, ExclusionStep DEF IInv
  <2>9. SnapshotsAreStable' BY <2>1, SnapshotsStep DEF IInv
  <2>10. UpdatesInv' BY <2>1, UpdatesStep DEF IInv
  <2> QED BY <2>2, <2>3, <2>4, <2>5, <2>6, <2>7, <2>8, <2>9, <2>10 DEF IInv
<1>2. CASE UNCHANGED vars
    BY <1>2 DEF IInv, vars, tmVars, lockVars, connVars, dataVars, historyVars, TypeOK, LocksInv,
        LocationsInv, IDsInv, AgreementInv, OutcomesInv, UpdatesInv,
        CheckpointExcludesTransactions,
        SnapshotsAreStable, HasTransaction, IsReader, IsWriter
<1> QED BY <1>1, <1>2

\* The inductive invariant holds in every reachable state, for any number of connections,
\* of transactions and of destroyed connections.
THEOREM Invariance == Spec => []IInv
<1>1. Init => IInv BY InitIInv
<1>2. IInv /\ [Next]_vars => IInv' BY NextIInv
<1> QED BY <1>1, <1>2, PTL DEF Spec

\* Type correctness of the manager, the connections and the commit procedure.
THEOREM TypeCorrect == Spec => []TypeOK
<1>1. IInv => TypeOK BY DEF IInv
<1> QED BY <1>1, Invariance, PTL

\* While a commit checkpoints, no other connection has a transaction.
THEOREM ExclusiveCheckpoint == Spec => []CheckpointExcludesTransactions
<1>1. IInv => CheckpointExcludesTransactions BY DEF IInv
<1> QED BY <1>1, Invariance, PTL

\* The original files do not change under a transaction.
THEOREM StableSnapshots == Spec => []SnapshotsAreStable
<1>1. IInv => SnapshotsAreStable BY DEF IInv
<1> QED BY <1>1, Invariance, PTL

\* Nothing that a rolled back transaction had in the log is checkpointed.
THEOREM RollbackIsFinal == Spec => []RolledBackIsNeverCheckpointed
<1>1. IInv => RolledBackIsNeverCheckpointed
    BY DEF IInv, OutcomesInv, RolledBackIsNeverCheckpointed
<1> QED BY <1>1, Invariance, PTL

\* A commit that returns has checkpointed the updates of its transaction, to the catalog too.
THEOREM DurableCommit == Spec => []CommitIsCheckpointed
<1>1. IInv => CommitIsCheckpointed
    BY DEF IInv, LocationsInv, UpdatesInv, Committing, CommitIsCheckpointed
<1> QED BY <1>1, Invariance, PTL

\* The IDs of the manager are those of the transactions the connections hold.
THEOREM Agreement == Spec => []ActiveTransactionsAgree
<1>1. IInv => ActiveTransactionsAgree
  <2> SUFFICES ASSUME IInv PROVE ActiveTransactionsAgree
      OBVIOUS
  <2>1. activeReadOnlyTransactionIDs =
            {activeTransaction[c].ID : c \in {d \in Connections : IsReader(d)}}
      BY DEF IInv, AgreementInv
  <2>2. {activeWriteTransactionID} \ {NoID} =
            {activeTransaction[c].ID :
                c \in {d \in Connections : IsWriter(d) /\ pc[d] # "allow"}}
      BY DEF IInv, AgreementInv, IsWriter, HasTransaction
  <2> QED BY <2>1, <2>2 DEF ActiveTransactionsAgree
<1> QED BY <1>1, Invariance, PTL
=============================================================================
