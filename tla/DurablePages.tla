---------------------------- MODULE DurablePages ----------------------------
(***************************************************************************)
(* What the WAL promises the write transactions and the readers of a       *)
(* database: pages that change by whole transactions, and that a shutdown, *)
(* a crash or a rollback leaves as the last commit made them.  The promise *)
(* ends when the process crashes before what a transaction wrote to the    *)
(* WAL is flushed.                                                         *)
(***************************************************************************)
EXTENDS Naturals

CONSTANT Pages

VARIABLES
    contents,       \* what the durable commits made of the pages
    visible,        \* the contents that readers find: none while the database is closed
    transaction,    \* the last write transaction; it writes its number and that of its write
    running,        \* it has not ended
    written,        \* the number of times it has written each page
    damaged         \* the promise has ended

NotWritten == [p \in Pages |-> 0]

pageVars == <<contents, visible, transaction, running, written, damaged>>

PagesInit ==
    /\ contents \in [Pages -> Nat \X Nat]
    /\ visible = {contents}
    /\ transaction \in Nat
    /\ running = FALSE
    /\ written = NotWritten
    /\ damaged = FALSE

BeginWrite ==
    /\ ~running /\ visible # {}
    /\ transaction' = transaction + 1
    /\ running' = TRUE
    /\ UNCHANGED <<contents, visible, written>>

Write(p) ==
    /\ running
    /\ written' = [written EXCEPT ![p] = @ + 1]
    /\ UNCHANGED <<contents, visible, transaction, running>>

\* All of the transaction at once; readers wait for the checkpoint that follows.
CommitWrite ==
    /\ running
    /\ contents' = [p \in Pages |-> IF written[p] # 0 THEN <<transaction, written[p]>>
                                                        ELSE contents[p]]
    /\ visible' = {}
    /\ running' = FALSE
    /\ written' = NotWritten
    /\ UNCHANGED transaction

\* Readers do not notice.
RollbackWrite ==
    /\ running
    /\ running' = FALSE
    /\ written' = NotWritten
    /\ UNCHANGED <<contents, visible, transaction>>

\* A shutdown or a crash.
Close ==
    /\ visible' = {}
    /\ running' = FALSE
    /\ written' = NotWritten
    /\ UNCHANGED <<contents, transaction>>

\* The end of a checkpoint, or of a start.
Reopen ==
    /\ visible = {}
    /\ visible' = {contents}
    /\ UNCHANGED <<contents, transaction, running, written>>

PagesStep ==
    \/ BeginWrite
    \/ \E p \in Pages : Write(p)
    \/ CommitWrite
    \/ RollbackWrite
    \/ Close
    \/ Reopen

PagesNext ==
    \/ ~damaged /\ ~damaged' /\ PagesStep
    \/ damaged'

PagesSpec == PagesInit /\ [][PagesNext]_pageVars
=============================================================================
