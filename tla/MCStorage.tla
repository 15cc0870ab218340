----------------------------- MODULE MCStorage ------------------------------
(***************************************************************************)
(* Instances of the storage structures.  They do not share state, so each  *)
(* behaviour runs one of them, the subject, and leaves the others alone.   *)
(***************************************************************************)
EXTENDS DiskArray, PropertyLists, NodeTable, Column, HashIndex

CONSTANT Subjects

VARIABLE subject

CopiedLists == {<<0, 4>>, <<6>>}
ListsOfShortest == {<<ShortLength>>}

storageVars == <<subject, diskArrayVars, propertyListVars, nodeTableVars, columnVars, hashIndexVars>>

Init ==
    /\ subject \in Subjects
    /\ DiskArrayInit
    /\ PropertyListsInit
    /\ NodeTableInit
    /\ ColumnInit
    /\ HashIndexInit
    /\ subject # "arrays" => \A a \in Arrays : arrays[a].header.numElements = 0
    /\ subject # "column" => columnType = "STRING"

Next ==
    /\ \/ /\ subject = "arrays" /\ DiskArrayNext
          /\ UNCHANGED <<propertyListVars, nodeTableVars, columnVars, hashIndexVars>>
       \/ /\ subject = "lists" /\ PropertyListsNext
          /\ UNCHANGED <<diskArrayVars, nodeTableVars, columnVars, hashIndexVars>>
       \/ /\ subject = "nodes" /\ NodeTableNext
          /\ UNCHANGED <<diskArrayVars, propertyListVars, columnVars, hashIndexVars>>
       \/ /\ subject = "column" /\ ColumnNext
          /\ UNCHANGED <<diskArrayVars, propertyListVars, nodeTableVars, hashIndexVars>>
       \/ /\ subject = "index" /\ HashIndexNext
          /\ UNCHANGED <<diskArrayVars, propertyListVars, nodeTableVars, columnVars>>
    /\ UNCHANGED subject

Spec == Init /\ [][Next]_storageVars
=============================================================================
