------------------------- MODULE TransactionalArray -------------------------
(***************************************************************************)
(* What a disk array promises its users: readers see the array of the last *)
(* checkpoint, the write transaction sees its own updates and additions,   *)
(* and a checkpoint or a rollback makes the two agree.                     *)
(***************************************************************************)
EXTENDS Sequences, Naturals

CONSTANT Arrays

VARIABLES
    committed,  \* committed[a]: the array that READ_ONLY transactions see
    current     \* current[a]: the array that the WRITE transaction sees

arrayVars == <<committed, current>>

ArrayInit == current = committed

\* An element is added at the end or replaced; readers do not notice.
ArrayWrite(a) ==
    /\ \/ /\ Len(current'[a]) = Len(current[a]) + 1
          /\ SubSeq(current'[a], 1, Len(current[a])) = current[a]
       \/ /\ Len(current'[a]) = Len(current[a])
          /\ \E i \in 1..Len(current[a]) :
                \A j \in 1..Len(current[a]) \ {i} : current'[a][j] = current[a][j]
    /\ \A b \in Arrays \ {a} : current'[b] = current[b]
    /\ UNCHANGED committed

ArrayCheckpoint(a) ==
    /\ committed' = [committed EXCEPT ![a] = current[a]]
    /\ UNCHANGED current

ArrayRollback(a) ==
    /\ current' = [current EXCEPT ![a] = committed[a]]
    /\ UNCHANGED committed

\* After a crash all arrays are those of the last durable commit: the transaction that was
\* under way, or the one that was being checkpointed.
ArrayRecover ==
    \/ current' = committed /\ UNCHANGED committed
    \/ committed' = current /\ UNCHANGED current

ArrayNext ==
    \/ \E a \in Arrays : ArrayWrite(a) \/ ArrayCheckpoint(a) \/ ArrayRollback(a)
    \/ ArrayRecover

ArraySpec == ArrayInit /\ [][ArrayNext]_arrayVars
=============================================================================
