-------------------------- MODULE NodeTableProofs --------------------------
(***************************************************************************)
(* Scans return the nodes that exist, for any number of workers, any size  *)
(* of morsels and any masks, as long as the nodes of a COPY reach into the *)
(* last morsel that insertions may reach.  (Otherwise a deletion indexes   *)
(* past the end of the vector of morsels,                                  *)
(* nodes_statistics_and_deleted_ids.cpp:65.)                               *)
(***************************************************************************)
EXTENDS NodeTable, InductionLemmas, FiniteSetTheorems

\* Insertions stay in the morsels that the COPY has made, meet a table that it has filled, and
\* read the key of the entry that they erased as it was (nodes_statistics_and_deleted_ids.cpp:42).
InsertionsStayInMorsels ==
    /\ ~MayInsertIntoEmpty
    /\ ErasedKeyIsKept
    /\ \A count \in CopiedNodes : MorselOf(count - 1) = MorselOf(MaxOffset)

-----------------------------------------------------------------------------
(* The inductive invariant.                                                 *)

\* The vector of flags says which morsels have deleted nodes.
LastMorsel == MorselOf(MaxOffset)
IsFilledTable(t) ==
    /\ t = [numTuples |-> t.numTuples, hasDeleted |-> t.hasDeleted, deleted |-> t.deleted]
    /\ t.numTuples \in 1..(MaxOffset + 1)
    /\ MorselOf(t.numTuples - 1) = LastMorsel
    /\ t.deleted \subseteq 0..(t.numTuples - 1)
    /\ t.hasDeleted = [i \in 1..(LastMorsel + 1) |-> DeletedIn(t, i - 1) # {}]
IsTable(t) == t = EmptyTable \/ IsFilledTable(t)

\* The nodes of a version.
Live(t) == IF t.numTuples = U64Max THEN {} ELSE (0..(t.numTuples - 1)) \ t.deleted

VersionsInv ==
    /\ nodeStatistics = [read |-> nodeStatistics.read, write |-> nodeStatistics.write,
                         file |-> nodeStatistics.file]
    /\ liveNodes = [read |-> liveNodes.read, write |-> liveNodes.write]
    /\ IsTable(nodeStatistics.read)
    /\ nodeStatistics.file = nodeStatistics.read
    /\ nodeStatistics.write = NoWriteVersion \/ IsTable(nodeStatistics.write)
    /\ liveNodes.read = Live(nodeStatistics.read)
    /\ liveNodes.write = Live(WriteVersion)

\* A scan of nodes up to last: ranges are morsels from their beginning on, or the last node
\* when no morsel is masked any more.
IsScanRange(r, last, maskers) ==
    /\ r = <<r[1], r[2]>>
    /\ r[1] \in 0..last /\ r[2] \in 1..(last + 1)
    /\ r[1] < r[2]
    /\ \/ /\ r[1] = MorselOf(r[1]) * MorselSize
          /\ r[2] <= r[1] + MorselSize
          /\ r[2] = r[1] + MorselSize \/ r[2] = last + 1
       \/ /\ r[1] = last
          /\ ~NodeIsMasked(maskers, last)
IsIn(n, r) == r \notin {NoRange, EmptyRange} /\ r[1] <= n /\ n < r[2]

IsScan(s, last) ==
    /\ s = [type |-> s.type, maskers |-> s.maskers, maxNodeOffset |-> s.maxNodeOffset,
            next |-> s.next, range |-> s.range, returned |-> s.returned, underflow |-> s.underflow]
    /\ s.type \in {"read", "write"}
    /\ s.maxNodeOffset = last
    /\ s.next \in Nat
    /\ s.range = [w \in ScanWorkers |-> s.range[w]]
    /\ s.returned \in [Offsets -> {0, 1}]
\* The next range begins with a morsel.
NextInv(s, last) ==
    /\ last = U64Max => s.next = 0
    /\ last # U64Max => s.next > last \/ s.next = MorselOf(s.next) * MorselSize
    /\ \A w \in ScanWorkers : s.range[w] = EmptyRange => last = U64Max \/ s.next > last
\* Workers have different ranges, of nodes before next.
RangesInv(s, last) ==
    /\ \A w \in ScanWorkers : s.range[w] \notin {NoRange, EmptyRange} =>
           last # U64Max /\ IsScanRange(s.range[w], last, s.maskers) /\ s.range[w][2] <= s.next
    /\ \A v, w \in ScanWorkers : \A n \in Offsets :
           IsIn(n, s.range[v]) /\ IsIn(n, s.range[w]) => v = w
\* A node before next has been returned, or is in the range of a worker.
ReturnedInv(s, live) ==
    /\ \A n \in Offsets : s.returned[n] = 1 =>
           n \in live /\ n < s.next /\ \A w \in ScanWorkers : ~IsIn(n, s.range[w])
    /\ \A n \in live : NodeIsMasked(s.maskers, n) /\ n < s.next =>
           s.returned[n] = 1 \/ \E w \in ScanWorkers : IsIn(n, s.range[w])
ScanIs(s, table, live) ==
    s # NoScan =>
        /\ IsScan(s, MaxNodeOffset(table))
        /\ NextInv(s, MaxNodeOffset(table))
        /\ RangesInv(s, MaxNodeOffset(table))
        /\ ReturnedInv(s, live)
ScanInv == ScanIs(scan, Version(scan.type), liveNodes[scan.type])

IInv == VersionsInv /\ ScanInv

-----------------------------------------------------------------------------
(* Morsels.                                                                 *)

\* A morsel is a range of nodes.
LEMMA Morsels ==
    ASSUME NEW n \in Nat
    PROVE  /\ MorselOf(n) \in Nat
           /\ MorselOf(n) * MorselSize \in Nat
           /\ MorselOf(n) * MorselSize <= n
           /\ n < MorselOf(n) * MorselSize + MorselSize
<1> DEFINE d == MorselSize
           q == n \div d
<1>1. d \in Nat /\ d > 0
    BY NodeTableAssumption
<1> HIDE DEF d
<1>2. q \in Nat /\ n = d * q + (n % d) /\ n % d \in 0..(d - 1)
    BY <1>1
<1> HIDE DEF q
<1>3. d * q = q * d /\ q * d \in Nat
    BY <1>1, <1>2
<1> QED BY <1>1, <1>2, <1>3 DEF MorselOf, d, q

\* A node is in one morsel.
LEMMA OneMorsel ==
    ASSUME NEW n \in Nat, NEW m \in Nat, m * MorselSize <= n, n < m * MorselSize + MorselSize
    PROVE  MorselOf(n) = m
<1> DEFINE d == MorselSize
           q == MorselOf(n)
<1>1. d \in Nat /\ d > 0
    BY NodeTableAssumption
<1>2. q \in Nat /\ q * d <= n /\ n < q * d + d
    BY Morsels
<1> HIDE DEF d, q
<1>3. m * d <= n /\ n < m * d + d
    BY DEF d
<1>4. CASE q < m
    <2>1. q + 1 <= m
        BY <1>2, <1>4
    <2>2. (q + 1) * d <= m * d
        BY <1>1, <1>2, <2>1
    <2>3. (q + 1) * d = q * d + d
        BY <1>1, <1>2
    <2> QED BY <1>1, <1>2, <1>3, <2>2, <2>3
<1>5. CASE m < q
    <2>1. m + 1 <= q
        BY <1>2, <1>5
    <2>2. (m + 1) * d <= q * d
        BY <1>1, <1>2, <2>1
    <2>3. (m + 1) * d = m * d + d
        BY <1>1
    <2> QED BY <1>1, <1>2, <1>3, <2>2, <2>3
<1> QED BY <1>2, <1>4, <1>5 DEF q

\* Later nodes are in later morsels.
LEMMA MorselsAreOrdered ==
    ASSUME NEW m \in Nat, NEW n \in Nat, m <= n
    PROVE  MorselOf(m) <= MorselOf(n)
<1> DEFINE d == MorselSize
           p == MorselOf(m)
           q == MorselOf(n)
<1>1. d \in Nat /\ d > 0
    BY NodeTableAssumption
<1>2. p \in Nat /\ p * d <= m /\ q \in Nat /\ n < q * d + d
    BY Morsels
<1> HIDE DEF d, p, q
<1>3. CASE q < p
    <2>1. q + 1 <= p
        BY <1>2, <1>3
    <2>2. (q + 1) * d <= p * d
        BY <1>1, <1>2, <2>1
    <2>3. (q + 1) * d = q * d + d
        BY <1>1, <1>2
    <2> QED BY <1>1, <1>2, <2>2, <2>3
<1> QED BY <1>2, <1>3 DEF p, q

\* The constants.
LEMMA Constants ==
    /\ MorselSize \in Nat /\ MorselSize > 0
    /\ OffsetModulus \in Nat /\ MaxOffset \in Nat /\ U64Max \in Nat /\ MaxOffset + 2 < U64Max
    /\ \A count \in CopiedNodes : count \in 1..(MaxOffset + 1)
    /\ LastMorsel \in Nat
<1>1. /\ MorselSize \in Nat /\ MorselSize > 0
      /\ OffsetModulus \in Nat /\ MaxOffset \in Nat /\ U64Max \in Nat /\ MaxOffset + 2 < U64Max
      /\ \A count \in CopiedNodes : count \in 1..(MaxOffset + 1)
    BY NodeTableAssumption DEF U64Max
<1> QED BY <1>1, Morsels DEF LastMorsel

\* The least and the greatest number of a set.
LEMMA LeastAndGreatest ==
    ASSUME NEW S, NEW n \in Nat, S \subseteq 0..n, S # {}
    PROVE  /\ Min(S) \in S /\ \A x \in S : Min(S) <= x
           /\ Max(S) \in S /\ \A x \in S : x <= Max(S)
<1>1. \E x \in S : \A y \in S : x <= y
    <2>1. S \subseteq Nat
        OBVIOUS
    <2> QED BY <2>1, LeastNat
<1>2. \E x \in S : \A y \in S : x >= y
    <2> DEFINE T == {n - x : x \in S}
    <2>1. T \subseteq Nat /\ T # {}
        OBVIOUS
    <2>2. PICK t \in T : \A u \in T : t <= u
        BY <2>1, LeastNat
    <2>3. PICK x \in S : t = n - x
        BY <2>2
    <2>4. \A y \in S : x >= y
        BY <2>2, <2>3
    <2> QED BY <2>4
<1> QED BY <1>1, <1>2 DEF Min, Max

-----------------------------------------------------------------------------
(* Versions of the statistics.                                              *)

\* The marker for an empty table is no number of nodes.
LEMMA EmptyTableIs ==
    /\ EmptyTable # NoWriteVersion /\ EmptyTable.numTuples = U64Max /\ EmptyTable.deleted = {}
    /\ MaxNodeOffset(EmptyTable) = U64Max /\ Live(EmptyTable) = {}
<1>1. EmptyTable.numTuples = U64Max /\ EmptyTable.deleted = {}
    BY DEF EmptyTable, LoadedTable
<1>2. EmptyTable # NoWriteVersion
    BY <1>1, Constants DEF NoWriteVersion
<1> QED BY <1>1, <1>2 DEF MaxNodeOffset, Live

\* The nodes of a table that has been filled.
LEMMA FilledTableIs ==
    ASSUME NEW t, IsFilledTable(t)
    PROVE  /\ t # NoWriteVersion /\ t.numTuples # U64Max /\ t.numTuples \in Nat
           /\ MaxNodeOffset(t) = t.numTuples - 1 /\ MaxNodeOffset(t) \in Offsets
           /\ MaxNodeOffset(t) # U64Max
           /\ Live(t) = (0..MaxNodeOffset(t)) \ t.deleted
<1>1. t.numTuples \in 1..(MaxOffset + 1)
    BY DEF IsFilledTable
<1>2. t # NoWriteVersion
    BY <1>1, Constants DEF NoWriteVersion
<1>3. t.numTuples # U64Max /\ t.numTuples \in Nat
    BY <1>1, Constants
<1>4. /\ t.numTuples - 1 \in 0..(OffsetModulus - 1)
      /\ t.numTuples - 1 \in Offsets /\ t.numTuples - 1 # U64Max
    BY <1>1, Constants DEF Offsets, U64Max
<1>5. \A a \in 0..(OffsetModulus - 1) : a % OffsetModulus = a
    BY Constants
<1>6. MaxNodeOffset(t) = t.numTuples - 1
    BY <1>3, <1>4, <1>5 DEF MaxNodeOffset
<1> QED BY <1>2, <1>3, <1>4, <1>6 DEF Live

\* The flag of a morsel is read as it is: the vector has it.
LEMMA FlagsAreRead ==
    ASSUME NEW t, IsFilledTable(t), NEW n \in 0..MaxOffset
    PROVE  HasDeletedValues(t, MorselOf(n)) = {DeletedIn(t, MorselOf(n)) # {}}
<1>1. MorselOf(n) \in 0..LastMorsel
    <2>1. n \in Nat /\ MaxOffset \in Nat /\ n <= MaxOffset
        BY Constants
    <2>2. MorselOf(n) \in Nat /\ MorselOf(n) <= MorselOf(MaxOffset)
        BY <2>1, Morsels, MorselsAreOrdered
    <2> QED BY <2>2, Constants DEF LastMorsel
<1>2. /\ DOMAIN t.hasDeleted = 1..(LastMorsel + 1)
      /\ \A i \in 1..(LastMorsel + 1) : t.hasDeleted[i] = (DeletedIn(t, i - 1) # {})
    BY DEF IsFilledTable
<1>3. MorselOf(n) + 1 \in 1..(LastMorsel + 1) /\ (MorselOf(n) + 1) - 1 = MorselOf(n)
    BY <1>1, Constants
<1> QED BY <1>2, <1>3 DEF HasDeletedValues

\* What a start makes of the file is what was in memory.
LEMMA LoadedTableIs ==
    ASSUME NEW t, IsTable(t)
    PROVE  LoadedTable(MaxNodeOffset(t), t.deleted) = t
<1>1. CASE t = EmptyTable
    <2>1. MaxNodeOffset(t) = U64Max /\ t.deleted = {}
        BY <1>1, EmptyTableIs
    <2> QED BY <1>1, <2>1 DEF EmptyTable
<1>2. CASE IsFilledTable(t)
    <2> DEFINE last == MaxNodeOffset(t)
    <2>1. last = t.numTuples - 1 /\ last # U64Max /\ t.numTuples \in Nat
        BY <1>2, FilledTableIs
    <2>2. NumMorsels(last) = LastMorsel + 1
        BY <1>2, <2>1 DEF NumMorsels, IsFilledTable
    <2>3. \A m : (\E n \in t.deleted : MorselOf(n) = m) = (DeletedIn(t, m) # {})
        BY DEF DeletedIn
    <2>4. t.hasDeleted = [i \in 1..(LastMorsel + 1) |-> \E n \in t.deleted : MorselOf(n) = i - 1]
        BY <1>2, <2>3 DEF IsFilledTable
    <2>5. last + 1 = t.numTuples
        BY <2>1
    <2>6. t = [numTuples |-> t.numTuples, hasDeleted |-> t.hasDeleted, deleted |-> t.deleted]
        BY <1>2 DEF IsFilledTable
    <2> HIDE DEF last
    <2> QED BY <2>1, <2>2, <2>4, <2>5, <2>6 DEF LoadedTable, last
<1> QED BY <1>1, <1>2 DEF IsTable

\* COPY.
LEMMA CopiedTable ==
    ASSUME InsertionsStayInMorsels, NEW count \in CopiedNodes
    PROVE  /\ IsTable(LoadedTable(count - 1, {}))
           /\ Live(LoadedTable(count - 1, {})) = 0..(count - 1)
<1> DEFINE t == LoadedTable(count - 1, {})
<1>1. count \in 1..(MaxOffset + 1) /\ count - 1 # U64Max /\ (count - 1) + 1 = count /\ count # U64Max
    BY Constants
<1>2. NumMorsels(count - 1) = LastMorsel + 1
    BY <1>1 DEF NumMorsels, InsertionsStayInMorsels, LastMorsel
<1>3. /\ t.numTuples = count /\ t.deleted = {}
      /\ t = [numTuples |-> t.numTuples, hasDeleted |-> t.hasDeleted, deleted |-> t.deleted]
      /\ t.hasDeleted = [i \in 1..(LastMorsel + 1) |-> FALSE]
    BY <1>1, <1>2 DEF LoadedTable
<1> HIDE DEF t
<1>4. \A m : DeletedIn(t, m) = {}
    BY <1>3 DEF DeletedIn
<1>5. IsFilledTable(t)
    BY <1>1, <1>3, <1>4 DEF IsFilledTable, InsertionsStayInMorsels, LastMorsel
<1>6. Live(t) = 0..(count - 1)
    BY <1>1, <1>3 DEF Live
<1> QED BY <1>5, <1>6 DEF IsTable, t

\* An insertion at the end.
LEMMA GrownTable ==
    ASSUME NEW t, IsFilledTable(t), t.deleted = {},
           NEW grown, grown = [t EXCEPT !.numTuples = (@ + 1) % OffsetModulus],
           MaxNodeOffset(grown) \in Offsets \cup {U64Max}
    PROVE  /\ IsFilledTable(grown)
           /\ Live(grown) = Live(t) \cup {MaxNodeOffset(grown)}
<1> DEFINE k == t.numTuples
<1>1. k \in 1..(MaxOffset + 1) /\ MorselOf(k - 1) = LastMorsel
    BY DEF IsFilledTable
<1>2. \A a \in 0..(OffsetModulus - 1) : a % OffsetModulus = a
    BY Constants
<1>3. /\ k + 1 \in 0..(OffsetModulus - 1) /\ k \in 0..(OffsetModulus - 1)
      /\ k + 1 # U64Max /\ k # U64Max /\ (k + 1) - 1 = k
    BY <1>1, Constants DEF U64Max
<1>4. /\ grown.numTuples = k + 1 /\ grown.deleted = {} /\ grown.hasDeleted = t.hasDeleted
      /\ grown = [numTuples |-> grown.numTuples, hasDeleted |-> grown.hasDeleted,
                  deleted |-> grown.deleted]
    BY <1>2, <1>3 DEF IsFilledTable
<1>5. MaxNodeOffset(grown) = k
    BY <1>2, <1>3, <1>4 DEF MaxNodeOffset
<1>6. k \in 0..MaxOffset
    BY <1>3, <1>5 DEF Offsets
<1>7. MorselOf(k) = LastMorsel
    <2>1. k \in Nat /\ k - 1 \in Nat /\ k - 1 <= k /\ k <= MaxOffset /\ MaxOffset \in Nat
        BY <1>1, <1>6, Constants
    <2>2. MorselOf(k - 1) <= MorselOf(k) /\ MorselOf(k) <= MorselOf(MaxOffset) /\ MorselOf(k) \in Nat
        BY <2>1, MorselsAreOrdered, Morsels
    <2> QED BY <1>1, <2>2, Constants DEF LastMorsel
<1>8. \A m : DeletedIn(t, m) = {} /\ DeletedIn(grown, m) = {}
    BY <1>4 DEF DeletedIn
<1>9. IsFilledTable(grown)
    <2>1. t.hasDeleted = [i \in 1..(LastMorsel + 1) |-> DeletedIn(t, i - 1) # {}]
        BY DEF IsFilledTable
    <2>2. grown.hasDeleted = [i \in 1..(LastMorsel + 1) |-> DeletedIn(grown, i - 1) # {}]
        <3>1. grown.hasDeleted = t.hasDeleted
            BY <1>4
        <3>2. \A i \in 1..(LastMorsel + 1) : DeletedIn(t, i - 1) = DeletedIn(grown, i - 1)
            BY <1>8
        <3> QED BY <2>1, <3>1, <3>2, Zenon
    <2>3. grown.numTuples \in 1..(MaxOffset + 1) /\ MorselOf(grown.numTuples - 1) = LastMorsel
        BY <1>3, <1>4, <1>6, <1>7, Constants
    <2> QED BY <1>4, <2>2, <2>3 DEF IsFilledTable
<1>10. Live(grown) = Live(t) \cup {k}
    <2>1. Live(grown) = 0..k /\ Live(t) = 0..(k - 1)
        BY <1>3, <1>4 DEF Live
    <2> QED BY <1>1, <2>1, Constants
<1> QED BY <1>5, <1>9, <1>10

\* An insertion that reuses an offset.
LEMMA ReusedTable ==
    ASSUME NEW t, IsFilledTable(t), NEW n \in t.deleted
    PROVE  /\ IsFilledTable(ReusedOffset(t, n, MorselOf(n)))
           /\ Live(ReusedOffset(t, n, MorselOf(n))) = Live(t) \cup {n}
<1> DEFINE new == ReusedOffset(t, n, MorselOf(n))
           m == MorselOf(n)
<1>1. /\ new.deleted = t.deleted \ {n} /\ new.numTuples = t.numTuples
      /\ new.hasDeleted = IF DeletedIn(t, m) = {n} THEN WithFlag(t, m, FALSE) ELSE t.hasDeleted
      /\ new = [numTuples |-> new.numTuples, hasDeleted |-> new.hasDeleted, deleted |-> new.deleted]
    <2>1. t = [numTuples |-> t.numTuples, hasDeleted |-> t.hasDeleted, deleted |-> t.deleted]
        BY DEF IsFilledTable
    <2> DEFINE d == t.deleted \ {n}
               h == IF DeletedIn(t, m) = {n} THEN WithFlag(t, m, FALSE) ELSE t.hasDeleted
    <2>2. new = [t EXCEPT !.deleted = d, !.hasDeleted = h]
        BY DEF ReusedOffset
    <2> HIDE DEF new, d, h
    <2>3. /\ new.deleted = d /\ new.numTuples = t.numTuples /\ new.hasDeleted = h
          /\ new = [numTuples |-> t.numTuples, hasDeleted |-> h, deleted |-> d]
        BY <2>1, <2>2
    <2> QED BY <2>3 DEF d, h
<1> HIDE DEF new
<1>2. t.hasDeleted = [i \in 1..(LastMorsel + 1) |-> DeletedIn(t, i - 1) # {}]
    BY DEF IsFilledTable
<1>3. \A k : DeletedIn(new, k) = DeletedIn(t, k) \ {n}
    BY <1>1 DEF DeletedIn
<1>4. n \in DeletedIn(t, m) /\ \A k : k # m => n \notin DeletedIn(t, k)
    BY DEF DeletedIn
<1>5. n \in Nat /\ m \in Nat
    BY Morsels DEF IsFilledTable
<1> HIDE DEF m
<1>6. new.hasDeleted = [i \in 1..(LastMorsel + 1) |-> DeletedIn(new, i - 1) # {}]
    <2>1. CASE DeletedIn(t, m) = {n}
        <3>1. new.hasDeleted = [i \in 1..(LastMorsel + 1) |->
                                   IF i = m + 1 THEN FALSE ELSE DeletedIn(t, i - 1) # {}]
            BY <1>1, <1>2, <2>1 DEF WithFlag
        <3>2. ASSUME NEW i \in 1..(LastMorsel + 1)
              PROVE  (IF i = m + 1 THEN FALSE ELSE DeletedIn(t, i - 1) # {}) = (DeletedIn(new, i - 1) # {})
            <4>1. CASE i = m + 1
                <5>1. i - 1 = m
                    BY <1>5, <4>1
                <5> QED BY <1>3, <2>1, <4>1, <5>1
            <4>2. CASE i # m + 1
                <5>1. i - 1 # m
                    BY <1>5, <4>2, Constants
                <5> QED BY <1>3, <1>4, <4>2, <5>1
            <4> QED BY <4>1, <4>2
        <3> QED BY <3>1, <3>2
    <2>2. CASE DeletedIn(t, m) # {n}
        <3>1. \A k : (DeletedIn(new, k) # {}) = (DeletedIn(t, k) # {})
            BY <1>3, <1>4, <2>2
        <3> QED BY <1>1, <1>2, <2>2, <3>1
    <2> QED BY <2>1, <2>2
<1>7. IsFilledTable(new)
    BY <1>1, <1>6 DEF IsFilledTable
<1>8. Live(new) = Live(t) \cup {n}
    <2>1. n \in 0..(t.numTuples - 1) /\ t.numTuples # U64Max
        BY FilledTableIs DEF IsFilledTable
    <2> QED BY <1>1, <2>1 DEF Live
<1> QED BY <1>7, <1>8 DEF new

\* A deletion.
WithoutNode(t, n) ==
    [t EXCEPT !.deleted = @ \cup {n}, !.hasDeleted = WithFlag(t, MorselOf(n), TRUE)]
LEMMA DeletedTable ==
    ASSUME NEW t, IsFilledTable(t), NEW n \in 0..(t.numTuples - 1)
    PROVE  /\ IsFilledTable(WithoutNode(t, n))
           /\ Live(WithoutNode(t, n)) = Live(t) \ {n}
<1> DEFINE new == WithoutNode(t, n)
           m == MorselOf(n)
<1>1. /\ new.deleted = t.deleted \cup {n} /\ new.numTuples = t.numTuples
      /\ new.hasDeleted = WithFlag(t, m, TRUE)
      /\ new = [numTuples |-> new.numTuples, hasDeleted |-> new.hasDeleted, deleted |-> new.deleted]
    <2>1. t = [numTuples |-> t.numTuples, hasDeleted |-> t.hasDeleted, deleted |-> t.deleted]
        BY DEF IsFilledTable
    <2> DEFINE d == t.deleted \cup {n}
               h == WithFlag(t, m, TRUE)
    <2>2. new = [t EXCEPT !.deleted = d, !.hasDeleted = h]
        BY DEF WithoutNode
    <2> HIDE DEF new, d, h
    <2>3. /\ new.deleted = d /\ new.numTuples = t.numTuples /\ new.hasDeleted = h
          /\ new = [numTuples |-> t.numTuples, hasDeleted |-> h, deleted |-> d]
        BY <2>1, <2>2
    <2> QED BY <2>3 DEF d, h
<1> HIDE DEF new
<1>2. t.hasDeleted = [i \in 1..(LastMorsel + 1) |-> DeletedIn(t, i - 1) # {}]
    BY DEF IsFilledTable
<1>3. /\ DeletedIn(new, m) = DeletedIn(t, m) \cup {n}
      /\ \A k : k # m => DeletedIn(new, k) = DeletedIn(t, k)
    BY <1>1 DEF DeletedIn
<1>4. n \in Nat /\ m \in Nat
    BY Morsels DEF IsFilledTable
<1> HIDE DEF m
<1>5. new.hasDeleted = [i \in 1..(LastMorsel + 1) |-> DeletedIn(new, i - 1) # {}]
    <2>1. new.hasDeleted = [i \in 1..(LastMorsel + 1) |->
                               IF i = m + 1 THEN TRUE ELSE DeletedIn(t, i - 1) # {}]
        BY <1>1, <1>2 DEF WithFlag
    <2>2. ASSUME NEW i \in 1..(LastMorsel + 1)
          PROVE  (IF i = m + 1 THEN TRUE ELSE DeletedIn(t, i - 1) # {}) = (DeletedIn(new, i - 1) # {})
        <3>1. CASE i = m + 1
            <4>1. i - 1 = m
                BY <1>4, <3>1
            <4> QED BY <1>3, <3>1, <4>1
        <3>2. CASE i # m + 1
            <4>1. i - 1 # m
                BY <1>4, <3>2, Constants
            <4> QED BY <1>3, <3>2, <4>1
        <3> QED BY <3>1, <3>2
    <2> QED BY <2>1, <2>2
<1>6. IsFilledTable(new)
    BY <1>1, <1>5 DEF IsFilledTable
<1>7. Live(new) = Live(t) \ {n}
    BY <1>1, FilledTableIs DEF Live
<1> QED BY <1>6, <1>7 DEF new

-----------------------------------------------------------------------------
(* The transaction.                                                         *)

\* A step that leaves the version of a scan alone leaves the scan right.
LEMMA ScanIsKept ==
    ASSUME ScanInv, scan' = scan,
           scan # NoScan => /\ Version(scan.type)' = Version(scan.type)
                            /\ liveNodes'[scan.type] = liveNodes[scan.type]
    PROVE  ScanInv'
<1>1. CASE scan = NoScan
    BY <1>1 DEF ScanInv, ScanIs
<1>2. CASE scan # NoScan
    BY <1>2, Zenon DEF ScanInv, ScanIs
<1> QED BY <1>1, <1>2

\* A scan that runs is one of a read or of the write transaction.
LEMMA ScanTypes == ASSUME ScanInv PROVE scan = NoScan \/ scan.type \in {"read", "write"}
BY DEF ScanInv, ScanIs, IsScan

\* The write transaction changes its version.
LEMMA WriteStep ==
    ASSUME IInv, Updating, NEW t, IsTable(t), WithWrite(t), scan' = scan,
           liveNodes' = [liveNodes EXCEPT !.write = Live(t)]
    PROVE  IInv'
<1>1. /\ nodeStatistics'.read = nodeStatistics.read /\ nodeStatistics'.file = nodeStatistics.file
      /\ nodeStatistics'.write = t
      /\ nodeStatistics' = [read |-> nodeStatistics'.read, write |-> nodeStatistics'.write,
                            file |-> nodeStatistics'.file]
    BY DEF WithWrite, IInv, VersionsInv
<1>2. /\ liveNodes'.read = liveNodes.read /\ liveNodes'.write = Live(t)
      /\ liveNodes' = [read |-> liveNodes'.read, write |-> liveNodes'.write]
    BY DEF IInv, VersionsInv
<1>3. t # NoWriteVersion
    BY EmptyTableIs, FilledTableIs DEF IsTable
<1>4. WriteVersion' = t
    BY <1>1, <1>3 DEF WriteVersion
<1>5. VersionsInv'
    BY <1>1, <1>2, <1>4 DEF IInv, VersionsInv
<1>6. scan = NoScan \/ scan.type = "read"
    BY ScanTypes DEF IInv, Updating
<1>7. scan # NoScan => /\ Version(scan.type)' = Version(scan.type)
                       /\ liveNodes'[scan.type] = liveNodes[scan.type]
    BY <1>1, <1>2, <1>6 DEF Version
<1>8. ScanInv'
    BY <1>7, ScanIsKept DEF IInv
<1> QED BY <1>5, <1>8 DEF IInv

\* CREATE.
LEMMA AddNodeStep ==
    ASSUME IInv, InsertionsStayInMorsels, AddNode
    PROVE  IInv'
<1> DEFINE table == WriteVersion
           first == MorselOf(Min(table.deleted))
           reused == Max(DeletedIn(table, first))
           grown == [table EXCEPT !.numTuples = (@ + 1) % OffsetModulus]
           new == ReusedOffset(table, reused, MorselOf(reused))
<1>1. IsFilledTable(table) /\ liveNodes.write = Live(table)
    BY EmptyTableIs DEF IInv, VersionsInv, WriteVersion, IsTable, AddNode, InsertionsStayInMorsels
<1>2. Updating /\ scan' = scan
    BY DEF AddNode
<1>3. CASE /\ table.deleted = {} /\ MaxNodeOffset(grown) \in Offsets \cup {U64Max}
           /\ WithWrite(grown)
           /\ liveNodes' = [liveNodes EXCEPT !.write = @ \cup {MaxNodeOffset(grown)}]
    <2>1. IsFilledTable(grown) /\ Live(grown) = Live(table) \cup {MaxNodeOffset(grown)}
        BY <1>1, <1>3, GrownTable
    <2>2. liveNodes' = [liveNodes EXCEPT !.write = Live(grown)]
        BY <1>1, <1>3, <2>1
    <2> QED BY <1>2, <1>3, <2>1, <2>2, WriteStep DEF IsTable
<1>4. CASE /\ table.deleted # {} /\ WithWrite(new)
           /\ liveNodes' = [liveNodes EXCEPT !.write = @ \cup {reused}]
    <2>1. table.deleted \subseteq 0..MaxOffset
        BY <1>1, Constants DEF IsFilledTable
    <2>2. Min(table.deleted) \in table.deleted
        BY <1>4, <2>1, Constants, LeastAndGreatest
    <2>3. DeletedIn(table, first) # {} /\ DeletedIn(table, first) \subseteq table.deleted
        BY <2>2 DEF DeletedIn
    <2>4. reused \in table.deleted
        BY <2>1, <2>3, Constants, LeastAndGreatest
    <2> HIDE DEF table, reused
    <2>5. IsFilledTable(new) /\ Live(new) = Live(table) \cup {reused}
        BY <1>1, <2>4, ReusedTable DEF new
    <2>6. liveNodes' = [liveNodes EXCEPT !.write = Live(new)]
        BY <1>1, <1>4, <2>5
    <2> QED BY <1>2, <1>4, <2>5, <2>6, WriteStep DEF IsTable
<1> QED BY <1>3, <1>4 DEF AddNode, ErasedKeys, InsertionsStayInMorsels

\* DELETE.
LEMMA DeleteNodeStep ==
    ASSUME IInv, NEW n \in Offsets, DeleteNode(n)
    PROVE  IInv'
<1> DEFINE table == WriteVersion
<1>1. IsTable(table) /\ liveNodes.write = Live(table)
    BY DEF IInv, VersionsInv, WriteVersion
<1>2. Updating /\ scan' = scan
    BY DEF DeleteNode
<1>3. \/ WithWrite(table) /\ liveNodes' = liveNodes
      \/ /\ MaxNodeOffset(table) # U64Max /\ ~(n > MaxNodeOffset(table))
         /\ WithWrite(WithoutNode(table, n)) /\ liveNodes' = [liveNodes EXCEPT !.write = @ \ {n}]
    BY DEF DeleteNode, WithoutNode
<1>4. CASE WithWrite(table) /\ liveNodes' = liveNodes
    <2>1. liveNodes' = [liveNodes EXCEPT !.write = Live(table)]
        BY <1>1, <1>4 DEF IInv, VersionsInv
    <2> QED BY <1>1, <1>2, <1>4, <2>1, WriteStep
<1>5. CASE /\ MaxNodeOffset(table) # U64Max /\ ~(n > MaxNodeOffset(table))
           /\ WithWrite(WithoutNode(table, n)) /\ liveNodes' = [liveNodes EXCEPT !.write = @ \ {n}]
    <2>1. IsFilledTable(table)
        BY <1>1, <1>5, EmptyTableIs DEF IsTable
    <2>2. MaxNodeOffset(table) = table.numTuples - 1 /\ MaxNodeOffset(table) \in Offsets
        BY <2>1, FilledTableIs
    <2>3. n \in 0..(table.numTuples - 1)
        BY <1>5, <2>2, Constants DEF Offsets
    <2> HIDE DEF table
    <2>4. IsFilledTable(WithoutNode(table, n)) /\ Live(WithoutNode(table, n)) = Live(table) \ {n}
        BY <2>1, <2>3, DeletedTable
    <2>5. liveNodes' = [liveNodes EXCEPT !.write = Live(WithoutNode(table, n))]
        BY <1>1, <1>5, <2>4
    <2> QED BY <1>2, <1>5, <2>4, <2>5, WriteStep DEF IsTable
<1> QED BY <1>3, <1>4, <1>5

\* COPY.
LEMMA CopyNodesStep ==
    ASSUME IInv, InsertionsStayInMorsels, NEW count \in CopiedNodes, CopyNodes(count)
    PROVE  IInv'
<1> DEFINE t == LoadedTable(count - 1, {})
<1>1. Updating /\ WithWrite(t) /\ scan' = scan /\ liveNodes' = [liveNodes EXCEPT !.write = 0..(count - 1)]
    BY DEF CopyNodes
<1>2. IsTable(t) /\ Live(t) = 0..(count - 1)
    BY CopiedTable
<1> HIDE DEF t
<1>3. liveNodes' = [liveNodes EXCEPT !.write = Live(t)]
    BY <1>1, <1>2
<1> QED BY <1>1, <1>2, <1>3, WriteStep

\* Steps that concern neither the nodes nor a scan.
LEMMA OtherStep ==
    ASSUME IInv, UNCHANGED <<nodeStatistics, liveNodes, scan>>
    PROVE  IInv'
BY Zenon DEF IInv, VersionsInv, ScanInv, Version, WriteVersion

\* The checkpoint makes the version of the transaction the one of readers and of the file.
LEMMA CommitStep ==
    ASSUME IInv, CommitNodes
    PROVE  IInv'
<1>1. scan = NoScan /\ scan' = scan
    BY ScanTypes DEF CommitNodes, IInv
<1>2. ScanInv'
    BY <1>1 DEF ScanInv, ScanIs
<1>3. /\ liveNodes'.read = liveNodes.write /\ liveNodes'.write = liveNodes.write
      /\ liveNodes' = [read |-> liveNodes'.read, write |-> liveNodes'.write]
    BY DEF CommitNodes, IInv, VersionsInv
<1>4. CASE nodeStatistics.write # NoWriteVersion
    <2>1. /\ nodeStatistics' = [read |-> nodeStatistics.write, write |-> NoWriteVersion,
                                file |-> nodeStatistics.write]
          /\ IsTable(nodeStatistics.write) /\ liveNodes.write = Live(nodeStatistics.write)
        BY <1>4 DEF CommitNodes, IInv, VersionsInv, WriteVersion
    <2> QED BY <1>2, <1>3, <2>1 DEF IInv, VersionsInv, WriteVersion
<1>5. CASE nodeStatistics.write = NoWriteVersion
    <2>1. nodeStatistics' = nodeStatistics
        BY <1>5 DEF CommitNodes
    <2> QED BY <1>2, <1>3, <1>5, <2>1 DEF IInv, VersionsInv, WriteVersion
<1> QED BY <1>4, <1>5

\* A rollback drops the version of the transaction.
LEMMA RollbackStep ==
    ASSUME IInv, RollbackNodes
    PROVE  IInv'
<1>1. scan' = scan /\ scan.type # "write"
    BY DEF RollbackNodes
<1>2. /\ liveNodes'.read = liveNodes.read /\ liveNodes'.write = liveNodes.read
      /\ liveNodes' = [read |-> liveNodes'.read, write |-> liveNodes'.write]
    BY DEF RollbackNodes, IInv, VersionsInv
<1>3. nodeStatistics' = [read |-> nodeStatistics.read, write |-> NoWriteVersion,
                         file |-> nodeStatistics.file]
    BY DEF RollbackNodes, IInv, VersionsInv
<1>4. VersionsInv'
    BY <1>2, <1>3 DEF IInv, VersionsInv, WriteVersion
<1>5. scan = NoScan \/ scan.type = "read"
    BY <1>1, ScanTypes DEF IInv
<1>6. ScanInv'
    BY <1>1, <1>2, <1>3, <1>5, ScanIsKept DEF IInv, Version
<1> QED BY <1>4, <1>6 DEF IInv

\* A restart loads what was committed.
LEMMA RestartStep ==
    ASSUME IInv, RestartNodes
    PROVE  IInv'
<1>1. scan = NoScan /\ scan' = scan
    BY ScanTypes DEF RestartNodes, IInv
<1>2. ScanInv'
    BY <1>1 DEF ScanInv, ScanIs
<1>3. /\ liveNodes'.read = liveNodes.read /\ liveNodes'.write = liveNodes.read
      /\ liveNodes' = [read |-> liveNodes'.read, write |-> liveNodes'.write]
    BY DEF RestartNodes, IInv, VersionsInv
<1>4. LoadedTable(MaxNodeOffset(nodeStatistics.file), nodeStatistics.file.deleted) = nodeStatistics.read
    BY LoadedTableIs DEF IInv, VersionsInv
<1>5. nodeStatistics' = [read |-> nodeStatistics.read, write |-> NoWriteVersion,
                         file |-> nodeStatistics.file]
    BY <1>4 DEF RestartNodes, IInv, VersionsInv
<1>6. VersionsInv'
    BY <1>3, <1>5 DEF IInv, VersionsInv, WriteVersion
<1> QED BY <1>2, <1>6 DEF IInv

-----------------------------------------------------------------------------
(* The scan.                                                                *)

\* The version that a scan reads, and the nodes of it.
LEMMA Versions ==
    ASSUME VersionsInv, NEW type \in {"read", "write"}
    PROVE  IsTable(Version(type)) /\ liveNodes[type] = Live(Version(type))
BY DEF VersionsInv, Version, WriteVersion

\* A step of a scan.
LEMMA ScanStep ==
    ASSUME IInv, UNCHANGED <<nodeStatistics, liveNodes>>,
           ScanIs(scan', Version(scan'.type), liveNodes[scan'.type])
    PROVE  IInv'
<1>1. VersionsInv'
    BY DEF IInv, VersionsInv, WriteVersion
<1>2. Version(scan.type)' = Version(scan'.type)
    BY Zenon DEF Version, WriteVersion
<1>3. ScanInv'
    BY <1>2, Zenon DEF ScanInv
<1> QED BY <1>1, <1>3 DEF IInv

\* A scan begins before the first node, with nothing returned and no range handed out.
LEMMA StartScanStep ==
    ASSUME IInv, NEW type \in {"read", "write"}, NEW maskers, StartScan(type, maskers)
    PROVE  IInv'
<1> DEFINE last == MaxNodeOffset(Version(type))
<1>1. /\ scan' = [type |-> type, maskers |-> maskers, maxNodeOffset |-> last, next |-> 0,
                  range |-> [w \in ScanWorkers |-> NoRange], returned |-> [n \in Offsets |-> 0],
                  underflow |-> FALSE]
      /\ UNCHANGED <<nodeStatistics, liveNodes>>
    BY DEF StartScan
<1> HIDE DEF last
<1>2. IsScan(scan', last)
    BY <1>1 DEF IsScan
<1>3. NextInv(scan', last)
    <2>1. MorselOf(0) * MorselSize = 0
        BY Morsels, Constants
    <2>2. \A w \in ScanWorkers : scan'.range[w] # EmptyRange
        BY <1>1 DEF NoRange, EmptyRange
    <2> QED BY <1>1, <2>1, <2>2 DEF NextInv
<1>4. \A w \in ScanWorkers : scan'.range[w] = NoRange /\ \A n : ~IsIn(n, scan'.range[w])
    BY <1>1 DEF IsIn
<1>5. RangesInv(scan', last)
    BY <1>4 DEF RangesInv
<1>6. ReturnedInv(scan', liveNodes[type])
    <2>1. type \in {"read", "write"} /\ liveNodes[type] \subseteq Nat
        BY Versions, EmptyTableIs, FilledTableIs DEF IInv, IsTable, Offsets
    <2> QED BY <1>1, <2>1 DEF ReturnedInv
<1>7. scan'.type = type
    BY <1>1
<1>8. ScanIs(scan', Version(scan'.type), liveNodes[scan'.type])
    BY <1>2, <1>3, <1>5, <1>6, <1>7 DEF ScanIs, last
<1> QED BY <1>1, <1>8, ScanStep

\* A scan that ends leaves no scan.
LEMMA EndScanStep ==
    ASSUME IInv, EndScan
    PROVE  IInv'
<1>1. scan' = NoScan /\ UNCHANGED <<nodeStatistics, liveNodes>>
    BY DEF EndScan
<1> QED BY <1>1, ScanStep DEF ScanIs

\* The smaller of two numbers.
LEMMA LesserOf ==
    ASSUME NEW a \in Nat, NEW b \in Nat
    PROVE  Min({a, b}) = IF a <= b THEN a ELSE b
<1> DEFINE m == IF a <= b THEN a ELSE b
<1>1. m \in {a, b} /\ \A x \in {a, b} : m <= x
    OBVIOUS
<1>2. \A y \in {a, b} : (\A x \in {a, b} : y <= x) => y = m
    OBVIOUS
<1> QED BY <1>1, <1>2 DEF Min

\* The next range begins with a morsel, and no node that is masked lies before it; or it is
\* the last node, which is then not masked either.
LEMMA FirstOffsetIs ==
    ASSUME NEW last \in Nat, scan.maxNodeOffset = last, scan.next \in Nat, scan.next <= last,
           scan.next = MorselOf(scan.next) * MorselSize
    PROVE  /\ FirstOffset \in scan.next..last
           /\ \/ FirstOffset = MorselOf(FirstOffset) * MorselSize
              \/ FirstOffset = last /\ ~NodeIsMasked(scan.maskers, last)
           /\ \A n \in scan.next..last : n < FirstOffset => ~NodeIsMasked(scan.maskers, n)
<1> DEFINE next == scan.next
           maskers == scan.maskers
           p == MorselOf(next)
           q == MorselOf(last)
           morsels == {m \in p..q : MorselIsMasked(maskers, m)}
           morsel == IF morsels = {} THEN q + 1 ELSE Min(morsels)
<1>1. FirstOffset = IF maskers = {} THEN next ELSE Min({morsel * MorselSize, last})
    BY DEF FirstOffset
<1>2. CASE maskers = {}
    BY <1>1, <1>2
<1>3. CASE maskers # {}
    <2>1. p \in Nat /\ q \in Nat /\ p <= q /\ q * MorselSize <= last /\ last < q * MorselSize + MorselSize
        BY Morsels, MorselsAreOrdered
    <2>2. ASSUME NEW n \in next..last, NodeIsMasked(maskers, n)
          PROVE  MorselOf(n) \in morsels
        <3>1. n \in Nat /\ MorselOf(n) \in p..q
            <4>1. n \in Nat /\ next \in Nat /\ next <= n /\ n <= last
                OBVIOUS
            <4>2. MorselOf(n) \in Nat /\ p <= MorselOf(n) /\ MorselOf(n) <= q
                BY <4>1, Morsels, MorselsAreOrdered
            <4> QED BY <2>1, <4>1, <4>2
        <3>2. MorselIsMasked(maskers, MorselOf(n))
            BY <2>2 DEF NodeIsMasked, MorselIsMasked
        <3> QED BY <3>1, <3>2
    <2> HIDE DEF next, maskers, p, q
    <2>3. CASE morsels = {}
        <3>1. (q + 1) * MorselSize = q * MorselSize + MorselSize /\ (q + 1) * MorselSize \in Nat
            BY <2>1, Constants
        <3>2. FirstOffset = last
            BY <1>1, <1>3, <2>1, <2>3, <3>1, LesserOf
        <3>3. last \in next..last
            BY DEF next
        <3> QED BY <2>2, <2>3, <3>2, <3>3 DEF next, maskers
    <2>4. CASE morsels # {}
        <3>1. morsel \in morsels /\ \A m \in morsels : morsel <= m
            <4>1. morsels \subseteq 0..q
                BY <2>1
            <4> QED BY <2>1, <2>4, <4>1, LeastAndGreatest
        <3>2. morsel \in Nat /\ p <= morsel /\ morsel <= q
            BY <2>1, <3>1
        <3> HIDE DEF morsel
        <3>3. /\ morsel * MorselSize \in Nat /\ p * MorselSize <= morsel * MorselSize
              /\ morsel * MorselSize <= q * MorselSize
            BY <2>1, <3>2, Constants
        <3>4. morsel * MorselSize <= last
            BY <2>1, <3>3, Constants
        <3>5. FirstOffset = morsel * MorselSize
            BY <1>1, <1>3, <3>3, <3>4, LesserOf
        <3>6. MorselOf(FirstOffset) = morsel
            BY <3>2, <3>3, <3>5, OneMorsel, Constants
        <3>7. next \in Nat /\ next = p * MorselSize
            BY DEF next, p
        <3>8. ASSUME NEW n \in next..last, n < FirstOffset
              PROVE  ~NodeIsMasked(maskers, n)
            <4>1. n \in Nat
                BY <3>7
            <4>2. /\ MorselOf(n) \in Nat
                  /\ n >= MorselOf(n) * MorselSize
                  /\ n < MorselOf(n) * MorselSize + MorselSize
                BY <4>1, Morsels
            <4>3. CASE morsel <= MorselOf(n)
                <5>1. morsel * MorselSize <= MorselOf(n) * MorselSize
                    BY <3>2, <4>2, <4>3, Constants
                <5> QED BY <3>3, <3>5, <3>8, <4>1, <4>2, <5>1, Constants
            <4>4. CASE ~(morsel <= MorselOf(n))
                BY <2>2, <3>1, <4>4
            <4> QED BY <4>3, <4>4
        <3> QED BY <3>3, <3>4, <3>5, <3>6, <3>7, <3>8 DEF next, maskers
    <2> QED BY <2>3, <2>4
<1> QED BY <1>2, <1>3

\* A worker takes a range, or learns that there is none.
LEMMA GetNextRangeStep ==
    ASSUME IInv, NEW w \in ScanWorkers, GetNextRangeToRead(w)
    PROVE  IInv'
<1> DEFINE table == Version(scan.type)
           last == MaxNodeOffset(table)
           live == liveNodes[scan.type]
<1>1. scan # NoScan /\ scan.range[w] = NoRange /\ UNCHANGED <<nodeStatistics, liveNodes>>
    BY DEF GetNextRangeToRead, NoScan
<1>2. /\ IsScan(scan, last) /\ NextInv(scan, last) /\ RangesInv(scan, last)
      /\ ReturnedInv(scan, live)
    BY <1>1 DEF IInv, ScanInv, ScanIs
<1>3. IsTable(table) /\ live = Live(table)
    BY <1>2, Versions DEF IInv, IsScan
<1>4. live \subseteq Nat /\ (last # U64Max => last \in Nat /\ last \in Offsets /\ \A n \in live : n <= last)
    BY <1>3, EmptyTableIs, FilledTableIs DEF IsTable, Offsets
<1> HIDE DEF table, last, live
<1>5. CASE scan.next > last \/ last = U64Max
    <2>1. scan' = [scan EXCEPT !.range[w] = EmptyRange]
        BY <1>2, <1>5 DEF GetNextRangeToRead, IsScan
    <2>2. /\ scan'.type = scan.type /\ scan'.maskers = scan.maskers /\ scan'.next = scan.next
          /\ scan'.returned = scan.returned /\ scan'.range = [scan.range EXCEPT ![w] = EmptyRange]
        BY <1>2, <2>1 DEF IsScan
    <2>3. /\ scan'.range[w] = EmptyRange /\ \A v \in ScanWorkers : v # w => scan'.range[v] = scan.range[v]
          /\ scan'.range = [v \in ScanWorkers |-> scan'.range[v]]
        BY <1>2, <2>2 DEF IsScan
    <2>4. IsScan(scan', last)
        BY <1>2, <2>1, <2>2, <2>3 DEF IsScan
    <2>5. NextInv(scan', last)
        BY <1>2, <1>5, <2>2, <2>3 DEF NextInv
    <2>6. \A v \in ScanWorkers : \A n : IsIn(n, scan'.range[v]) <=> IsIn(n, scan.range[v])
        BY <1>1, <2>3 DEF IsIn
    <2>7. RangesInv(scan', last)
        BY <1>2, <2>2, <2>3, <2>6 DEF RangesInv
    <2>8. ReturnedInv(scan', live)
        BY <1>2, <2>2, <2>6 DEF ReturnedInv
    <2>9. ScanIs(scan', Version(scan'.type), liveNodes[scan'.type])
        BY <2>2, <2>4, <2>5, <2>7, <2>8 DEF ScanIs, table, last, live
    <2> QED BY <1>1, <2>9, ScanStep
<1>6. CASE ~(scan.next > last \/ last = U64Max)
    <2> DEFINE start == FirstOffset
               end == RangeEnd(start)
    <2>1. scan' = [scan EXCEPT !.range[w] = <<start, end>>, !.next = end]
        BY <1>2, <1>6 DEF GetNextRangeToRead, IsScan
    <2>2. /\ last \in Nat /\ scan.maxNodeOffset = last /\ scan.next \in Nat /\ scan.next <= last
          /\ scan.next = MorselOf(scan.next) * MorselSize
        BY <1>2, <1>4, <1>6 DEF IsScan, NextInv
    <2>3. /\ start \in scan.next..last
          /\ \/ start = MorselOf(start) * MorselSize
             \/ start = last /\ ~NodeIsMasked(scan.maskers, last)
          /\ \A n \in scan.next..last : n < start => ~NodeIsMasked(scan.maskers, n)
        BY <2>2, FirstOffsetIs
    <2> HIDE DEF start
    <2>4. start \in Nat /\ start + MorselSize \in Nat /\ last + 1 \in Nat
        BY <2>2, <2>3, Constants
    <2>5. end = IF start + MorselSize <= last + 1 THEN start + MorselSize ELSE last + 1
        BY <2>2, <2>4, LesserOf DEF RangeEnd
    <2>6. /\ end \in 1..(last + 1) /\ start < end /\ scan.next <= start
          /\ end = start + MorselSize \/ end = last + 1
          /\ end <= start + MorselSize
        BY <2>2, <2>3, <2>4, <2>5, Constants
    <2> HIDE DEF end
    <2>7. /\ scan'.type = scan.type /\ scan'.maskers = scan.maskers /\ scan'.next = end
          /\ scan'.returned = scan.returned /\ scan'.range = [scan.range EXCEPT ![w] = <<start, end>>]
        BY <1>2, <2>1 DEF IsScan
    <2>8. /\ scan'.range[w] = <<start, end>>
          /\ \A v \in ScanWorkers : v # w => scan'.range[v] = scan.range[v]
          /\ scan'.range = [v \in ScanWorkers |-> scan'.range[v]]
        BY <1>2, <2>7 DEF IsScan
    <2>9. IsScan(scan', last)
        <3>1. scan = [type |-> scan.type, maskers |-> scan.maskers,
                      maxNodeOffset |-> scan.maxNodeOffset, next |-> scan.next,
                      range |-> scan.range, returned |-> scan.returned, underflow |-> scan.underflow]
            BY <1>2 DEF IsScan
        <3>2. scan' = [type |-> scan'.type, maskers |-> scan'.maskers,
                       maxNodeOffset |-> scan'.maxNodeOffset, next |-> scan'.next,
                       range |-> scan'.range, returned |-> scan'.returned,
                       underflow |-> scan'.underflow]
              /\ scan'.maxNodeOffset = scan.maxNodeOffset
            BY <2>1, <3>1
        <3>3. end \in Nat
            BY <2>2, <2>6
        <3> QED BY <1>2, <2>7, <2>8, <3>2, <3>3 DEF IsScan
    <2>10. NextInv(scan', last)
        <3>1. end > last \/ end = MorselOf(end) * MorselSize
            <4>1. CASE end = last + 1
                BY <2>2, <4>1
            <4>2. CASE end = start + MorselSize /\ start = MorselOf(start) * MorselSize
                <5> DEFINE m == MorselOf(start) + 1
                <5>1. m \in Nat /\ m * MorselSize = MorselOf(start) * MorselSize + MorselSize
                    <6>1. MorselOf(start) \in Nat /\ MorselSize \in Nat
                        BY <2>4, Morsels, Constants
                    <6> QED BY <6>1
                <5>2. end = m * MorselSize
                    BY <4>2, <5>1
                <5> HIDE DEF m
                <5>3. end \in Nat /\ m * MorselSize <= end /\ end < m * MorselSize + MorselSize
                    BY <2>2, <2>6, <5>1, <5>2, Constants
                <5>4. MorselOf(end) = m
                    BY <5>1, <5>3, OneMorsel
                <5> QED BY <5>2, <5>4
            <4>3. CASE end = start + MorselSize /\ start = last
                BY <2>2, <4>3, Constants
            <4> QED BY <2>3, <2>6, <4>1, <4>2, <4>3
        <3>2. \A v \in ScanWorkers : scan'.range[v] # EmptyRange
            BY <1>2, <1>6, <2>2, <2>6, <2>8 DEF NextInv, EmptyRange
        <3> QED BY <1>6, <2>7, <3>1, <3>2 DEF NextInv
    <2>11. IsScanRange(<<start, end>>, last, scan.maskers)
        BY <2>2, <2>3, <2>6 DEF IsScanRange
    <2>12. /\ \A n : IsIn(n, scan'.range[w]) <=> start <= n /\ n < end
           /\ \A v \in ScanWorkers : v # w => \A n : IsIn(n, scan'.range[v]) <=> IsIn(n, scan.range[v])
           /\ \A n : ~IsIn(n, scan.range[w])
        BY <1>1, <2>6, <2>8 DEF IsIn, NoRange, EmptyRange
    <2>13. ASSUME NEW v \in ScanWorkers, NEW n \in Offsets, IsIn(n, scan.range[v])
           PROVE  n < start
        <3>1. scan.range[v][2] <= scan.next /\ n < scan.range[v][2] /\ scan.range[v][2] \in Nat
            BY <1>2, <2>2, <2>13 DEF RangesInv, IsIn, IsScanRange
        <3> QED BY <2>2, <2>4, <2>6, <3>1 DEF Offsets
    <2>14. RangesInv(scan', last)
        <3>1. ASSUME NEW v \in ScanWorkers, scan'.range[v] \notin {NoRange, EmptyRange}
              PROVE  /\ last # U64Max /\ IsScanRange(scan'.range[v], last, scan.maskers)
                     /\ scan'.range[v][2] <= end
            <4>1. CASE v = w
                BY <1>6, <2>6, <2>8, <2>11, <4>1
            <4>2. CASE v # w
                <5>1. /\ last # U64Max /\ IsScanRange(scan.range[v], last, scan.maskers)
                      /\ scan.range[v][2] <= scan.next
                    BY <1>2, <2>8, <3>1, <4>2 DEF RangesInv
                <5>2. scan.range[v][2] \in Nat
                    BY <2>2, <5>1 DEF IsScanRange
                <5> QED BY <2>2, <2>4, <2>6, <2>8, <4>2, <5>1, <5>2
            <4> QED BY <4>1, <4>2
        <3>2. ASSUME NEW u \in ScanWorkers, NEW v \in ScanWorkers, NEW n \in Offsets,
                     IsIn(n, scan'.range[u]), IsIn(n, scan'.range[v])
              PROVE  u = v
            <4>1. CASE u # w /\ v # w
                BY <1>2, <2>12, <3>2, <4>1 DEF RangesInv
            <4>2. CASE u = w /\ v # w
                BY <2>4, <2>12, <2>13, <3>2, <4>2 DEF Offsets
            <4>3. CASE u # w /\ v = w
                BY <2>4, <2>12, <2>13, <3>2, <4>3 DEF Offsets
            <4> QED BY <4>1, <4>2, <4>3
        <3> QED BY <2>7, <3>1, <3>2 DEF RangesInv
    <2>15. ReturnedInv(scan', live)
        <3>1. ASSUME NEW n \in Offsets, scan.returned[n] = 1
              PROVE  n \in live /\ n < end /\ \A v \in ScanWorkers : ~IsIn(n, scan'.range[v])
            <4>1. n \in live /\ n < scan.next /\ \A v \in ScanWorkers : ~IsIn(n, scan.range[v])
                BY <1>2, <3>1 DEF ReturnedInv
            <4>2. n \in Nat /\ n < start /\ n < end
                BY <2>2, <2>4, <2>6, <4>1 DEF Offsets
            <4> QED BY <2>4, <2>12, <4>1, <4>2
        <3>2. ASSUME NEW n \in live, NodeIsMasked(scan.maskers, n), n < end
              PROVE  scan.returned[n] = 1 \/ \E v \in ScanWorkers : IsIn(n, scan'.range[v])
            <4>1. n \in Nat /\ n <= last
                BY <1>4, <1>6
            <4>2. CASE n < scan.next
                <5>1. scan.returned[n] = 1 \/ \E v \in ScanWorkers : IsIn(n, scan.range[v])
                    BY <1>2, <3>2, <4>2 DEF ReturnedInv
                <5> QED BY <2>12, <5>1
            <4>3. CASE ~(n < scan.next) /\ n < start
                BY <2>2, <2>3, <3>2, <4>1, <4>3
            <4>4. CASE ~(n < start)
                BY <2>4, <2>12, <3>2, <4>1, <4>4
            <4> QED BY <4>2, <4>3, <4>4
        <3> QED BY <2>7, <3>1, <3>2 DEF ReturnedInv
    <2>16. ScanIs(scan', Version(scan'.type), liveNodes[scan'.type])
        BY <2>7, <2>9, <2>10, <2>14, <2>15 DEF ScanIs, table, last, live
    <2> QED BY <1>1, <2>16, ScanStep
<1> QED BY <1>5, <1>6

\* The selected size counts the nodes of a range that are not deleted: before one of them there
\* are fewer.
LEMMA CountBefore ==
    ASSUME NEW s \in Nat, NEW e \in Nat, s < e, NEW D \in SUBSET (s..(e - 1)), NEW q \in Nat,
           q + s \in s..(e - 1), q + s \notin D,
           NEW B, B = {r \in 0..(e - s - 1) : r + s \notin D /\ r < q}
    PROVE  Cardinality(B) < e - s - Cardinality(D)
<1> DEFINE A == {r + s : r \in B}
           f == [r \in B |-> r + s]
           all == s..(e - 1)
<1>1. IsFiniteSet(all) /\ Cardinality(all) = e - s
    <2>1. s \in Int /\ e - 1 \in Int /\ ~(s > e - 1) /\ (e - 1) - s + 1 = e - s
        OBVIOUS
    <2> QED BY <2>1, FS_Interval
<1>2. A \subseteq all /\ A \cap D = {} /\ q + s \in all /\ q + s \notin A \cup D
    OBVIOUS
<1>3. IsFiniteSet(A) /\ IsFiniteSet(D)
    BY <1>1, <1>2, FS_Subset
<1>4. Cardinality(B) <= Cardinality(A) /\ IsFiniteSet(B)
    <2>1. f \in [B -> A] /\ \A x, y \in B : f[x] = f[y] => x = y
        OBVIOUS
    <2>2. f \in Injection(B, A)
        BY <2>1 DEF Injection, IsInjective
    <2> QED BY <2>2, <1>3, FS_Injection
<1> HIDE DEF A, f, all
<1>5. IsFiniteSet(A \cup D) /\ Cardinality(A \cup D) = Cardinality(A) + Cardinality(D)
    <2>1. Cardinality(A \cap D) = 0
        BY <1>2, FS_EmptySet
    <2>2. Cardinality(A) \in Nat /\ Cardinality(D) \in Nat
        BY <1>3, FS_CardinalityType
    <2> QED BY <1>3, <2>1, <2>2, FS_Union
<1>6. Cardinality((A \cup D) \cup {q + s}) = Cardinality(A) + Cardinality(D) + 1
    BY <1>2, <1>5, FS_AddElement
<1>7. Cardinality((A \cup D) \cup {q + s}) <= e - s
    <2>1. (A \cup D) \cup {q + s} \in SUBSET all
        BY <1>2 DEF all
    <2> QED BY <1>1, <2>1, FS_Subset
<1>8. Cardinality(A) \in Nat /\ Cardinality(D) \in Nat /\ Cardinality(B) \in Nat
    BY <1>3, <1>4, FS_CardinalityType
<1> QED BY <1>4, <1>6, <1>7, <1>8

\* A range of a morsel with deleted nodes selects the ones that are not deleted.
LEMMA NotDeletedIs ==
    ASSUME NEW t, IsFilledTable(t), NEW start \in Nat, NEW end \in Nat, start < end,
           start = MorselOf(start) * MorselSize, end <= start + MorselSize,
           end <= MaxNodeOffset(t) + 1,
           end = start + MorselSize \/ end = MaxNodeOffset(t) + 1
    PROVE  NotDeleted(t, start, end) = {n \in start..(end - 1) : n \notin t.deleted}
<1> DEFINE D == DeletedIn(t, MorselOf(start))
           positions == {p \in 0..(end - start - 1) : p + start \notin t.deleted}
           size == SelectedSize(t, start, end)
<1>1. t.deleted \subseteq 0..MaxNodeOffset(t) /\ MaxNodeOffset(t) \in Nat
    <2>1. MaxNodeOffset(t) = t.numTuples - 1 /\ MaxNodeOffset(t) \in Offsets
        BY FilledTableIs
    <2>2. t.deleted \subseteq 0..(t.numTuples - 1)
        BY DEF IsFilledTable
    <2> QED BY <2>1, <2>2 DEF Offsets
<1>2. D = {n \in start..(end - 1) : n \in t.deleted}
    <2>1. ASSUME NEW n \in t.deleted, MorselOf(n) = MorselOf(start)
          PROVE  n \in start..(end - 1)
        <3>1. n \in Nat /\ n <= MaxNodeOffset(t)
            BY <1>1
        <3>2. start <= n /\ n < start + MorselSize
            BY <2>1, <3>1, Morsels
        <3> QED BY <1>1, <3>1, <3>2, Constants
    <2>2. ASSUME NEW n \in start..(end - 1)
          PROVE  MorselOf(n) = MorselOf(start)
        <3>1. n \in Nat /\ MorselOf(start) \in Nat
            BY Morsels
        <3>2. MorselOf(start) * MorselSize <= n /\ n < MorselOf(start) * MorselSize + MorselSize
            BY <3>1, Constants
        <3> QED BY <3>1, <3>2, OneMorsel
    <2> QED BY <2>1, <2>2 DEF DeletedIn
<1>3. NotDeleted(t, start, end) =
          {start + p : p \in {q \in positions : Cardinality({r \in positions : r < q}) < size}}
    BY DEF NotDeleted
<1>4. ASSUME NEW q \in positions
      PROVE  Cardinality({r \in positions : r < q}) < size
    <2> DEFINE B == {r \in positions : r < q}
    <2>1. D \in SUBSET (start..(end - 1))
        BY <1>2
    <2>2. q \in Nat /\ q + start \in start..(end - 1) /\ q + start \notin D
        BY <1>2, <1>4
    <2>3. B = {r \in 0..(end - start - 1) : r + start \notin D /\ r < q}
        BY <1>2
    <2>4. size = end - start - Cardinality(D)
        BY DEF SelectedSize
    <2> HIDE DEF B, D, size
    <2>5. Cardinality(B) < end - start - Cardinality(D)
        BY <2>1, <2>2, <2>3, CountBefore
    <2> QED BY <2>4, <2>5 DEF B
<1>5. NotDeleted(t, start, end) = {start + p : p \in positions}
    <2>1. {q \in positions : Cardinality({r \in positions : r < q}) < size} = positions
        BY <1>4
    <2> HIDE DEF positions, size
    <2> QED BY <1>3, <2>1
<1>6. {start + p : p \in positions} = {n \in start..(end - 1) : n \notin t.deleted}
    <2>1. ASSUME NEW n \in start..(end - 1), n \notin t.deleted
          PROVE  \E p \in positions : n = start + p
        <3>1. n - start \in 0..(end - start - 1) /\ (n - start) + start = n /\ n = start + (n - start)
            OBVIOUS
        <3> QED BY <2>1, <3>1
    <2>2. ASSUME NEW p \in positions
          PROVE  start + p \in start..(end - 1) /\ start + p \notin t.deleted
        <3>1. start + p = p + start
            OBVIOUS
        <3> QED BY <3>1
    <2> HIDE DEF positions
    <2> QED BY <2>1, <2>2
<1> QED BY <1>5, <1>6

\* What is selected of a range.
SelectedOf(table, flag, r) ==
    IF flag THEN NotDeleted(table, r[1], r[2]) ELSE Unmasked(r[1], r[2])

\* It has only nodes of the range that exist, and all of these that are masked.
LEMMA SelectionIsRight ==
    ASSUME NEW t, IsFilledTable(t), NEW r, IsScanRange(r, MaxNodeOffset(t), scan.maskers),
           NEW flag \in HasDeletedValues(t, MorselOf(r[1]))
    PROVE  /\ \A n \in SelectedOf(t, flag, r) : n \in r[1]..(r[2] - 1) /\ n \in Live(t)
           /\ \A n \in Live(t) : n \in r[1]..(r[2] - 1) /\ NodeIsMasked(scan.maskers, n) =>
                                     n \in SelectedOf(t, flag, r)
<1> DEFINE start == r[1]
           end == r[2]
           last == MaxNodeOffset(t)
           m == MorselOf(start)
<1>1. /\ last \in 0..MaxOffset /\ last \in Nat
      /\ Live(t) = (0..last) \ t.deleted
    BY FilledTableIs, Constants DEF Offsets
<1>2. /\ start \in 0..last /\ end \in 1..(last + 1) /\ start < end
      /\ \/ /\ start = MorselOf(start) * MorselSize /\ end <= start + MorselSize
            /\ end = start + MorselSize \/ end = last + 1
         \/ start = last /\ ~NodeIsMasked(scan.maskers, last)
    BY DEF IsScanRange
<1>3. start \in Nat /\ end \in Nat /\ start \in 0..MaxOffset /\ end <= last + 1
    BY <1>1, <1>2, Constants
<1>4. flag = (DeletedIn(t, m) # {})
    <2>1. HasDeletedValues(t, m) = {DeletedIn(t, m) # {}}
        BY <1>3, FlagsAreRead
    <2> QED BY <2>1
<1> HIDE DEF last
<1>5. CASE /\ start = MorselOf(start) * MorselSize /\ end <= start + MorselSize
           /\ end = start + MorselSize \/ end = last + 1
    <2>1. CASE flag
        <3>1. NotDeleted(t, start, end) = {n \in start..(end - 1) : n \notin t.deleted}
            BY <1>2, <1>3, <1>5, NotDeletedIs DEF last
        <3>2. SelectedOf(t, flag, r) = NotDeleted(t, start, end)
            BY <2>1 DEF SelectedOf
        <3> QED BY <1>1, <1>2, <1>3, <3>1, <3>2
    <2>2. CASE ~flag
        <3>1. \A n \in t.deleted : MorselOf(n) # m
            BY <1>4, <2>2 DEF DeletedIn
        <3>2. ASSUME NEW n \in start..(end - 1)
              PROVE  n \notin t.deleted
            <4>1. n \in Nat /\ MorselOf(start) \in Nat
                BY <1>3, Morsels
            <4>2. MorselOf(start) * MorselSize <= n /\ n < MorselOf(start) * MorselSize + MorselSize
                BY <1>3, <1>5, <4>1, Constants
            <4>3. MorselOf(n) = m
                BY <4>1, <4>2, OneMorsel
            <4> QED BY <3>1, <4>3
        <3>3. SelectedOf(t, flag, r) = {n \in start..(end - 1) : NodeIsMasked(scan.maskers, n)}
            BY <2>2 DEF SelectedOf, Unmasked
        <3> QED BY <1>1, <1>2, <1>3, <3>2, <3>3
    <2> QED BY <2>1, <2>2
<1>6. CASE start = last /\ ~NodeIsMasked(scan.maskers, last)
    <2>1. end = last + 1 /\ start..(end - 1) = {last} /\ end - start = 1
        BY <1>1, <1>2, <1>3, <1>6
    <2>2. SelectedOf(t, flag, r) = {}
        <3>1. CASE flag
            <4> DEFINE D == DeletedIn(t, m)
            <4>1. IsFiniteSet(D) /\ D # {}
                <5>1. t.deleted \subseteq 0..(t.numTuples - 1) /\ t.numTuples \in 1..(MaxOffset + 1)
                    BY DEF IsFilledTable
                <5>2. 0 \in Int /\ MaxOffset \in Int
                    BY Constants
                <5>3. IsFiniteSet(0..MaxOffset)
                    BY <5>2, FS_Interval
                <5>4. D \subseteq t.deleted
                    BY DEF DeletedIn
                <5>5. t.deleted \subseteq 0..MaxOffset
                    BY <5>1, <5>2
                <5>6. D \subseteq 0..MaxOffset
                    BY <5>4, <5>5
                <5>7. IsFiniteSet(D)
                    BY <5>3, <5>6, FS_Subset
                <5> QED BY <1>4, <3>1, <5>7
            <4>2. Cardinality(D) \in Nat /\ Cardinality(D) # 0
                BY <4>1, FS_CardinalityType, FS_EmptySet
            <4>3. SelectedSize(t, start, end) = 1 - Cardinality(D)
                BY <2>1 DEF SelectedSize
            <4> HIDE DEF D
            <4> DEFINE positions == {p \in 0..(end - start - 1) : p + m * MorselSize \notin t.deleted}
                       Before(q) == {x \in positions : x < q}
            <4>4. ASSUME NEW q \in positions
                  PROVE  ~(Cardinality(Before(q)) < SelectedSize(t, start, end))
                <5>1. IsFiniteSet(Before(q))
                    <6>1. 0 \in Int /\ end - start - 1 \in Int
                        BY <2>1
                    <6>2. IsFiniteSet(0..(end - start - 1))
                        BY <6>1, FS_Interval
                    <6>3. Before(q) \subseteq 0..(end - start - 1)
                        OBVIOUS
                    <6> QED BY <6>2, <6>3, FS_Subset
                <5>2. Cardinality(Before(q)) \in Nat
                    BY <5>1, FS_CardinalityType
                <5> HIDE DEF Before
                <5> QED BY <4>2, <4>3, <5>2
            <4>5. NotDeleted(t, start, end) = {}
                BY <4>4 DEF NotDeleted
            <4> QED BY <3>1, <4>5 DEF SelectedOf
        <3>2. CASE ~flag
            BY <1>6, <2>1, <3>2 DEF SelectedOf, Unmasked
        <3> QED BY <3>1, <3>2
    <2> QED BY <1>6, <2>1, <2>2
<1> QED BY <1>2, <1>5, <1>6

\* A worker returns the nodes of its range.
LEMMA ReturnNodesStep ==
    ASSUME IInv, NEW w \in ScanWorkers, ReturnNodes(w)
    PROVE  IInv'
<1> DEFINE table == Version(scan.type)
           last == MaxNodeOffset(table)
           live == liveNodes[scan.type]
           r == scan.range[w]
<1>1. /\ scan # NoScan /\ r \notin {NoRange, EmptyRange}
      /\ UNCHANGED <<nodeStatistics, liveNodes>>
    BY DEF ReturnNodes, NoScan
<1>2. /\ IsScan(scan, last) /\ NextInv(scan, last) /\ RangesInv(scan, last)
      /\ ReturnedInv(scan, live)
    BY <1>1 DEF IInv, ScanInv, ScanIs
<1>3. IsTable(table) /\ live = Live(table)
    BY <1>2, Versions DEF IInv, IsScan
<1>4. last # U64Max /\ IsScanRange(r, last, scan.maskers) /\ r[2] <= scan.next
    BY <1>1, <1>2 DEF RangesInv
<1>5. IsFilledTable(table)
    BY <1>3, <1>4, EmptyTableIs DEF IsTable
<1>6. /\ last \in Offsets /\ live \subseteq Offsets /\ scan.next \in Nat
      /\ r[1] \in 0..last /\ r[2] \in 1..(last + 1)
    <2>1. last \in Offsets /\ live \subseteq 0..last
        <3>1. last \in Offsets /\ Live(table) = (0..last) \ table.deleted
            BY <1>5, FilledTableIs
        <3> HIDE DEF last, live
        <3> QED BY <1>3, <3>1
    <2>2. scan.next \in Nat
        BY <1>2 DEF IsScan
    <2>3. r[1] \in 0..last /\ r[2] \in 1..(last + 1)
        BY <1>4 DEF IsScanRange
    <2> HIDE DEF last, live, r
    <2>4. ASSUME NEW n \in live PROVE n \in Offsets
        <3>1. last \in 0..MaxOffset /\ n \in 0..last
            BY <2>1, <2>4 DEF Offsets
        <3>2. MaxOffset \in Nat
            BY Constants, Zenon
        <3> QED BY <3>1, <3>2 DEF Offsets
    <2> QED BY <2>1, <2>2, <2>3, <2>4
<1>7. PICK flag \in HasDeletedValues(table, MorselOf(r[1])) :
          scan' = [scan EXCEPT
                      !.range[w] = NoRange,
                      !.returned = [n \in Offsets |->
                                        @[n] + IF n \in SelectedOf(table, flag, r) THEN 1 ELSE 0],
                      !.underflow = @ \/ (flag /\ SelectedSize(table, r[1], r[2]) < 0)]
    BY DEF ReturnNodes, SelectedOf
<1> DEFINE selected == SelectedOf(table, flag, r)
           under == scan.underflow \/ (flag /\ SelectedSize(table, r[1], r[2]) < 0)
           returned == [n \in Offsets |-> scan.returned[n] + IF n \in selected THEN 1 ELSE 0]
<1>8. /\ \A n \in selected : n \in r[1]..(r[2] - 1) /\ n \in live
      /\ \A n \in live : n \in r[1]..(r[2] - 1) /\ NodeIsMasked(scan.maskers, n) => n \in selected
    BY <1>3, <1>4, <1>5, SelectionIsRight
<1>9. scan' = [scan EXCEPT !.range[w] = NoRange, !.returned = returned, !.underflow = under]
    BY <1>7
<1> HIDE DEF table, last, live, r, selected, under
<1>10. /\ scan'.type = scan.type /\ scan'.maskers = scan.maskers /\ scan'.next = scan.next
       /\ scan'.returned = returned /\ scan'.range = [scan.range EXCEPT ![w] = NoRange]
       /\ scan'.maxNodeOffset = scan.maxNodeOffset
       /\ scan' = [type |-> scan'.type, maskers |-> scan'.maskers,
                   maxNodeOffset |-> scan'.maxNodeOffset, next |-> scan'.next,
                   range |-> scan'.range, returned |-> scan'.returned, underflow |-> scan'.underflow]
    <2>1. scan = [type |-> scan.type, maskers |-> scan.maskers,
                  maxNodeOffset |-> scan.maxNodeOffset, next |-> scan.next,
                  range |-> scan.range, returned |-> scan.returned, underflow |-> scan.underflow]
        BY <1>2 DEF IsScan
    <2> HIDE DEF returned
    <2> QED BY <1>9, <2>1
<1>11. /\ scan'.range[w] = NoRange
       /\ \A v \in ScanWorkers : v # w => scan'.range[v] = scan.range[v]
       /\ scan'.range = [v \in ScanWorkers |-> scan'.range[v]]
    BY <1>2, <1>10 DEF IsScan
<1>12. \A n \in Offsets : IsIn(n, r) <=> n \in r[1]..(r[2] - 1)
    BY <1>1, <1>6 DEF IsIn, Offsets
<1>13. \A n \in Offsets : n \in selected => IsIn(n, r) /\ n \in live /\ scan.returned[n] # 1
    BY <1>2, <1>8, <1>12 DEF ReturnedInv, r
<1>14. /\ \A n \in Offsets : returned[n] \in {0, 1}
       /\ \A n \in Offsets : returned[n] = 1 <=> scan.returned[n] = 1 \/ n \in selected
    BY <1>2, <1>13 DEF IsScan
<1>15. IsScan(scan', last)
    <2>1. returned \in [Offsets -> {0, 1}]
        BY <1>14
    <2> HIDE DEF returned
    <2> QED BY <1>2, <1>10, <1>11, <2>1 DEF IsScan
<1>16. NextInv(scan', last)
    BY <1>2, <1>10, <1>11 DEF NextInv, NoRange, EmptyRange
<1>17. /\ \A n : ~IsIn(n, scan'.range[w])
       /\ \A v \in ScanWorkers : v # w => \A n : IsIn(n, scan'.range[v]) <=> IsIn(n, scan.range[v])
    BY <1>11 DEF IsIn
<1>18. RangesInv(scan', last)
    BY <1>2, <1>10, <1>11, <1>17 DEF RangesInv
<1> HIDE DEF returned
<1>19. ReturnedInv(scan', live)
    <2>1. ASSUME NEW n \in Offsets, returned[n] = 1
          PROVE  n \in live /\ n < scan.next /\ \A v \in ScanWorkers : ~IsIn(n, scan'.range[v])
        <3>1. CASE scan.returned[n] = 1
            BY <1>2, <1>17, <3>1 DEF ReturnedInv
        <3>2. CASE n \in selected
            <4>1. IsIn(n, r) /\ n \in live
                BY <1>13, <3>2
            <4>2. n < scan.next
                BY <1>4, <1>6, <4>1 DEF IsIn, Offsets
            <4>3. ASSUME NEW v \in ScanWorkers, IsIn(n, scan'.range[v]) PROVE FALSE
                <5>1. v # w /\ IsIn(n, scan.range[v])
                    BY <1>17, <4>3
                <5> QED BY <1>2, <4>1, <5>1 DEF RangesInv, r
            <4> QED BY <4>1, <4>2, <4>3
        <3> QED BY <1>14, <2>1, <3>1, <3>2
    <2>2. ASSUME NEW n \in live, NodeIsMasked(scan.maskers, n), n < scan.next
          PROVE  returned[n] = 1 \/ \E v \in ScanWorkers : IsIn(n, scan'.range[v])
        <3>1. n \in Offsets
            BY <1>6
        <3>2. CASE scan.returned[n] = 1
            BY <1>14, <3>1, <3>2
        <3>3. CASE scan.returned[n] # 1
            <4>1. PICK v \in ScanWorkers : IsIn(n, scan.range[v])
                BY <1>2, <2>2, <3>3 DEF ReturnedInv
            <4>2. CASE v = w
                BY <1>8, <1>12, <1>14, <2>2, <3>1, <4>1, <4>2 DEF r
            <4>3. CASE v # w
                BY <1>17, <4>1, <4>3
            <4> QED BY <4>2, <4>3
        <3> QED BY <3>2, <3>3
    <2> QED BY <1>10, <2>1, <2>2 DEF ReturnedInv
<1>20. ScanIs(scan', Version(scan'.type), liveNodes[scan'.type])
    BY <1>10, <1>15, <1>16, <1>18, <1>19 DEF ScanIs, table, last, live
<1> QED BY <1>1, <1>20, ScanStep

-----------------------------------------------------------------------------
(* The theorems.                                                            *)

\* Every step keeps the invariant.
LEMMA NextIInv ==
    ASSUME IInv, InsertionsStayInMorsels, [NodeTableNext]_nodeTableVars
    PROVE  IInv'
<1>1. CASE BeginNodeTransaction \/ CopyRels \/ UNCHANGED nodeTableVars
    BY <1>1, OtherStep DEF BeginNodeTransaction, CopyRels, nodeTableVars
<1>2. CASE AddNode
    BY <1>2, AddNodeStep
<1>3. ASSUME NEW n \in Offsets, DeleteNode(n) PROVE IInv'
    BY <1>3, DeleteNodeStep
<1>4. ASSUME NEW count \in CopiedNodes, CopyNodes(count) PROVE IInv'
    BY <1>4, CopyNodesStep
<1>5. CASE CommitNodes
    BY <1>5, CommitStep
<1>6. CASE RollbackNodes
    BY <1>6, RollbackStep
<1>7. CASE RestartNodes
    BY <1>7, RestartStep
<1>8. ASSUME NEW type \in {"read", "write"}, NEW maskers, StartScan(type, maskers) PROVE IInv'
    BY <1>8, StartScanStep
<1>9. ASSUME NEW w \in ScanWorkers, GetNextRangeToRead(w) \/ ReturnNodes(w) PROVE IInv'
    BY <1>9, GetNextRangeStep, ReturnNodesStep
<1>10. CASE EndScan
    BY <1>10, EndScanStep
<1> QED BY <1>1, <1>2, <1>3, <1>4, <1>5, <1>6, <1>7, <1>8, <1>9, <1>10, Zenon DEF NodeTableNext

\* The versions of the statistics and the ranges of a scan keep their invariant, for any morsel
\* size, any number of nodes, workers and transactions and any masks.
THEOREM NodeTableInvariance ==
    ASSUME InsertionsStayInMorsels
    PROVE  NodeTableSpec => []IInv
<1>1. NodeTableInit => IInv
    <2> SUFFICES ASSUME NodeTableInit PROVE IInv
        OBVIOUS
    <2>1. VersionsInv
        BY EmptyTableIs DEF NodeTableInit, VersionsInv, IsTable, WriteVersion
    <2>2. ScanInv
        BY DEF NodeTableInit, ScanInv, ScanIs
    <2> QED BY <2>1, <2>2 DEF IInv
<1>2. IInv /\ [NodeTableNext]_nodeTableVars => IInv'
    BY NextIInv
<1> QED BY <1>1, <1>2, PTL DEF NodeTableSpec

\* A scan that is done has returned the nodes of its version that its maskers let through, no
\* node that does not exist and none twice.
THEOREM ScansAreRight ==
    ASSUME InsertionsStayInMorsels
    PROVE  NodeTableSpec => []ScansReturnLiveNodes
<1>1. IInv => ScansReturnLiveNodes
    <2> SUFFICES ASSUME IInv, ScanIsDone PROVE ScansReturnLiveNodes
        BY DEF ScansReturnLiveNodes
    <2> DEFINE table == Version(scan.type)
               last == MaxNodeOffset(table)
               live == liveNodes[scan.type]
    <2>1. scan # NoScan
        BY DEF ScanIsDone, NoScan
    <2>2. IsScan(scan, last) /\ NextInv(scan, last) /\ ReturnedInv(scan, live)
        BY <2>1 DEF IInv, ScanInv, ScanIs
    <2>3. IsTable(table) /\ live = Live(table)
        BY <2>2, Versions DEF IInv, IsScan
    <2>4. \A w \in ScanWorkers : \A n : ~IsIn(n, scan.range[w])
        BY DEF ScanIsDone, IsIn
    <2>5. /\ live \subseteq Offsets
          /\ \A n \in live : last # U64Max /\ last \in Nat /\ n <= last
        BY <2>3, EmptyTableIs, FilledTableIs, Constants DEF IsTable, Offsets
    <2> HIDE DEF table, last, live
    <2>6. ASSUME NEW n \in live
          PROVE  n < scan.next
        <3>1. PICK w \in ScanWorkers : scan.range[w] = EmptyRange
            BY NodeTableAssumption DEF ScanIsDone
        <3>2. last < scan.next
            BY <2>2, <2>5, <2>6, <3>1 DEF NextInv
        <3>3. n \in Nat /\ last \in Int /\ scan.next \in Nat /\ n <= last
            BY <2>2, <2>3, <2>5, <2>6 DEF IsScan, Offsets
        <3> QED BY <3>2, <3>3
    <2> QED BY <2>2, <2>4, <2>5, <2>6 DEF ReturnedInv, IsScan, ScansReturnLiveNodes, live
<1> QED BY <1>1, NodeTableInvariance, PTL

=============================================================================
