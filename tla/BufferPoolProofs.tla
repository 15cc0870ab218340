------------------------- MODULE BufferPoolProofs -------------------------
(***************************************************************************)
(* Proofs about BufferPool for any finite set of threads, any pages and    *)
(* any number of frames, when every page is pinned under its lock and the  *)
(* WAL is cleared when no call is under way.  IInv is inductive; one lemma *)
(* per conjunct shows that every action keeps it.                          *)
(***************************************************************************)
EXTENDS BufferPool, FiniteSetTheorems, TLAPS

\* The values that stand for no frame and no page.
LEMMA Nothing ==
    /\ NoFrame \notin Frames
    /\ Empty \notin Nat /\ 0 # Empty
    /\ NoPage \notin Pages
    /\ NoThread \notin Threads
BY BufferPoolAssumption DEF NoFrame, Frames, Empty

\* The hand points at a frame.
LEMMA HandIsAtAFrame ==
    ASSUME NEW n \in Nat
    PROVE  n % numFrames \in Frames
BY BufferPoolAssumption DEF Frames

\* The names of the locations.
LEMMA LocationNames ==
    {"idle", "lock", "pin", "hit", "claim", "fill", "evict", "evict_lock", "evict_page",
     "evict_check", "flush", "read", "swizzle", "set_dirty"} = Locations
BY DEF Locations, Searching

\* The frames that are written have pages of the file in them.
LEMMA FlushedType ==
    ASSUME TypeOK, DirtyInv, FramesAreCurrent, NEW fs, fs \subseteq Frames
    PROVE  Flushed(fs) \in [Pages -> Pages \X Nat]
<1>1. ASSUME NEW p \in Pages, NEW f \in fs, pageIdx[f] = p, isDirty[f]
      PROVE  buffer[f] \in Pages \X Nat
    <2>1. latest[p] > 0
        BY <1>1 DEF DirtyInv
    <2>2. f \in Frames /\ buffer[f][1] = p
        BY <1>1, <2>1, Nothing DEF FramesAreCurrent
    <2>3. buffer[f] \in (Pages \cup {NoPage}) \X Nat
        BY <2>2 DEF TypeOK
    <2> QED BY <2>2, <2>3
<1>2. ASSUME NEW p \in Pages, \E f \in fs : pageIdx[f] = p /\ isDirty[f]
      PROVE  buffer[CHOOSE f \in fs : pageIdx[f] = p /\ isDirty[f]] \in Pages \X Nat
    <2> DEFINE f == CHOOSE f \in fs : pageIdx[f] = p /\ isDirty[f]
    <2>1. f \in fs /\ pageIdx[f] = p /\ isDirty[f]
        BY <1>2
    <2> HIDE DEF f
    <2>2. buffer[f] \in Pages \X Nat
        BY <2>1, <1>1
    <2> QED BY <2>2 DEF f
<1>3. \A p \in Pages : file[p] \in Pages \X Nat
    BY DEF TypeOK
<1>4. ASSUME NEW p \in Pages
      PROVE  (IF \E f \in fs : pageIdx[f] = p /\ isDirty[f]
              THEN buffer[CHOOSE f \in fs : pageIdx[f] = p /\ isDirty[f]]
              ELSE file[p]) \in Pages \X Nat
    BY <1>2, <1>3
<1> QED BY <1>4 DEF Flushed

\* The pins of a page are finitely many.
LEMMA PinsAreFinite ==
    ASSUME NEW f
    PROVE  /\ IsFiniteSet(Holders(f)) /\ Cardinality(Holders(f)) \in Nat
           /\ IsFiniteSet(Arriving(f)) /\ Cardinality(Arriving(f)) \in Nat
<1>1. IsFiniteSet(Holders(f)) /\ IsFiniteSet(Arriving(f))
    BY FinitelyManyThreads, FS_Subset DEF Holders, Arriving
<1> QED BY <1>1, FS_CardinalityType

\* A page that a thread has pinned has a positive pin count.
LEMMA PinnedIsCounted ==
    ASSUME TypeOK, MapInv, PinsInv, PinCountsAreExact,
           NEW t \in Threads, NEW p \in Pages, pinned[t][p] # NoFrame
    PROVE  /\ pinned[t][p] \in Frames
           /\ pageIdx[pinned[t][p]] = p
           /\ pinCount[pinned[t][p]] \in Nat \ {0}
<1> DEFINE f == pinned[t][p]
<1>1. f \in Frames /\ pageIdx[f] = p /\ pageIdx[f] # NoPage
    BY Nothing DEF TypeOK, MapInv, PinsInv
<1>2. pinCount[f] = Cardinality(Holders(f)) + Cardinality(Arriving(f))
    BY <1>1 DEF PinCountsAreExact
<1>3. /\ IsFiniteSet(Holders(f)) /\ Cardinality(Holders(f)) \in Nat
      /\ Cardinality(Arriving(f)) \in Nat
    BY PinsAreFinite
<1>4. t \in Holders(f)
    BY <1>1 DEF Holders
<1>5. Cardinality(Holders(f)) # 0
    BY <1>3, <1>4, FS_EmptySet
<1> QED BY <1>1, <1>2, <1>3, <1>5

\* Every step keeps the types.
LEMMA TypeStep ==
    ASSUME TypeOK, LocksInv, MapInv, CallsInv, PinsInv, DirtyInv,
           PinCountsAreExact, FramesAreCurrent,
           [Next]_vars, LocksWALPages, ~ClearsBesideReaders
    PROVE  TypeOK'
<1>a. \A t \in Threads :
        /\ pc[t] # "idle" => page[t] \in Pages
        /\ pc[t] \in {"fill", "evict", "evict_lock", "swizzle"} \cup HasFrameLock =>
               frameIdx[t] \in Frames
        /\ pc[t] \in {"flush", "read"} => frameIdx[t] \in Frames
    BY DEF LocksInv, HasFrameLock
<1> USE Nothing, LocationNames, BufferPoolAssumption
    DEF TypeOK, fileHandle, frames, call, caller, history, Goto, Disturb, NextFrame
<1>1. ASSUME NEW t \in Threads, AcquirePageLock(t) PROVE TypeOK'
    BY <1>1 DEF AcquirePageLock
<1>2. ASSUME NEW t \in Threads, FindFrame(t) PROVE TypeOK'
    <2>1. pageIdxToFrameMap[page[t]] \in Frames \cup {NoFrame}
        BY <1>2, <1>a DEF FindFrame
    <2>2. pc' \in [Threads -> Locations]
        <3>1. CASE frameIdx'[t] # NoFrame
            BY <1>2, <3>1 DEF FindFrame
        <3>2. CASE frameIdx'[t] = NoFrame
            BY <1>2, <3>2 DEF FindFrame
        <3> QED BY <3>1, <3>2
    <2>3. frameIdx' \in [Threads -> Frames \cup {NoFrame}]
        BY <1>2, <2>1 DEF FindFrame
    <2>4. disturbed' \subseteq Threads
        BY <1>2 DEF FindFrame
    <2> QED BY <1>2, <2>2, <2>3, <2>4 DEF FindFrame
<1>3. ASSUME NEW t \in Threads, PinHit(t) PROVE TypeOK'
    <2>1. page[t] \in Pages
        BY <1>3, <1>a DEF PinHit
    <2>2. frameIdx[t] \in Frames /\ pinCount[frameIdx[t]] # Empty
        <3>1. frameIdx[t] \in Frames /\ frameIdx[t] = pageIdxToFrameMap[page[t]]
            BY <1>3 DEF PinHit, CallsInv
        <3>2. pageIdx[frameIdx[t]] # NoPage
            BY <2>1, <3>1 DEF MapInv
        <3> QED BY <3>1, <3>2 DEF MapInv
    <2>3. pinCount' \in [Frames -> Nat \cup {Empty}]
        BY <1>3, <2>2 DEF PinHit
    <2>4. pinned' \in [Threads -> [Pages -> Frames \cup {NoFrame}]]
        BY <1>3, <2>1 DEF PinHit, Return
    <2>5. pageLocks' \in [Pages -> Threads \cup {NoThread}]
        BY <1>3, <2>1 DEF PinHit, Return, ReleasePageLock, TakesPageLock
    <2> QED BY <1>3, <2>3, <2>4, <2>5 DEF PinHit, Return, EndCall
<1>4. ASSUME NEW t \in Threads, Claim(t) PROVE TypeOK'
    <2> DEFINE f == (localClockHand[t] + tries[t]) % numFrames
    <2>1. f \in Frames
        BY HandIsAtAFrame
    <2> HIDE DEF f
    <2>2. UNCHANGED <<fileHandle, frames, clockHand, file, page, localClockHand, caller, history>>
        BY <1>4 DEF Claim
    <2>3. disturbed' \subseteq Threads
        BY <1>4 DEF Claim
    <2>4. CASE Goto(t, "fill") /\ UNCHANGED tries /\ frameIdx' = [frameIdx EXCEPT ![t] = f]
        BY SMTT(30), <2>1, <2>2, <2>3, <2>4
    <2>5. CASE Goto(t, "evict") /\ UNCHANGED tries /\ frameIdx' = [frameIdx EXCEPT ![t] = f]
        BY SMTT(30), <2>1, <2>2, <2>3, <2>5
    <2>6. CASE NextFrame(t) /\ UNCHANGED frameIdx
        BY SMTT(30), <2>2, <2>3, <2>6
    <2> QED BY <1>4, <2>4, <2>5, <2>6 DEF Claim, f
<1>5. ASSUME NEW t \in Threads, ClaimThrows(t) PROVE TypeOK'
    BY <1>5 DEF ClaimThrows, EndCall
<1>6. ASSUME NEW t \in Threads, FillEmptyFrame(t) PROVE TypeOK'
    <2>1. CASE frameLock[frameIdx[t]] = NoThread /\ pinCount[frameIdx[t]] = Empty
        <3>1. /\ frameLock' = [frameLock EXCEPT ![frameIdx[t]] = t]
              /\ Goto(t, "read") /\ UNCHANGED tries
            BY <1>6, <2>1 DEF FillEmptyFrame
        <3>2. disturbed' \subseteq Threads
            BY <1>6 DEF FillEmptyFrame
        <3>3. tries' \in [Threads -> Nat] /\ pc' \in [Threads -> Locations]
            BY <3>1
        <3> QED BY <1>6, <3>1, <3>2, <3>3 DEF FillEmptyFrame
    <2>2. CASE ~(frameLock[frameIdx[t]] = NoThread /\ pinCount[frameIdx[t]] = Empty)
        <3>1. NextFrame(t) /\ UNCHANGED frameLock
            BY <1>6, <2>2 DEF FillEmptyFrame
        <3>2. disturbed' \subseteq Threads
            BY <1>6 DEF FillEmptyFrame
        <3>3. tries' \in [Threads -> Nat] /\ pc' \in [Threads -> Locations]
            BY <3>1
        <3> QED BY <1>6, <3>1, <3>2, <3>3 DEF FillEmptyFrame
    <2> QED BY <2>1, <2>2
<1>7. ASSUME NEW t \in Threads, SecondChance(t) PROVE TypeOK'
    <2>1. CASE recentlyAccessed[frameIdx[t]]
        <3>1. /\ recentlyAccessed' = [recentlyAccessed EXCEPT ![frameIdx[t]] = FALSE]
              /\ NextFrame(t)
            BY <1>7, <2>1 DEF SecondChance
        <3>2. disturbed' \subseteq Threads
            BY <1>7 DEF SecondChance
        <3>3. tries' \in [Threads -> Nat] /\ pc' \in [Threads -> Locations]
            BY <3>1
        <3> QED BY <1>7, <3>1, <3>2, <3>3 DEF SecondChance
    <2>2. CASE ~(recentlyAccessed[frameIdx[t]])
        <3>1. Goto(t, "evict_lock") /\ UNCHANGED <<recentlyAccessed, tries>>
            BY <1>7, <2>2 DEF SecondChance
        <3>2. disturbed' \subseteq Threads
            BY <1>7 DEF SecondChance
        <3>3. tries' \in [Threads -> Nat] /\ pc' \in [Threads -> Locations]
            BY <3>1
        <3> QED BY <1>7, <3>1, <3>2, <3>3 DEF SecondChance
    <2> QED BY <2>1, <2>2
<1>8. ASSUME NEW t \in Threads, EvictLockFrame(t) PROVE TypeOK'
    <2>1. CASE frameLock[frameIdx[t]] = NoThread
        <3>1. /\ frameLock' = [frameLock EXCEPT ![frameIdx[t]] = t]
              /\ Goto(t, "evict_page") /\ UNCHANGED tries
            BY <1>8, <2>1 DEF EvictLockFrame
        <3>2. disturbed' \subseteq Threads
            BY <1>8 DEF EvictLockFrame
        <3>3. tries' \in [Threads -> Nat] /\ pc' \in [Threads -> Locations]
            BY <3>1
        <3> QED BY <1>8, <3>1, <3>2, <3>3 DEF EvictLockFrame
    <2>2. CASE ~(frameLock[frameIdx[t]] = NoThread)
        <3>1. NextFrame(t) /\ UNCHANGED frameLock
            BY <1>8, <2>2 DEF EvictLockFrame
        <3>2. disturbed' \subseteq Threads
            BY <1>8 DEF EvictLockFrame
        <3>3. tries' \in [Threads -> Nat] /\ pc' \in [Threads -> Locations]
            BY <3>1
        <3> QED BY <1>8, <3>1, <3>2, <3>3 DEF EvictLockFrame
    <2> QED BY <2>1, <2>2
<1>9. ASSUME NEW t \in Threads, EvictLockPage(t) PROVE TypeOK'
    <2>1. CASE pageLocks[pageIdx[frameIdx[t]]] = NoThread
        <3>1. /\ pageLocks' = [pageLocks EXCEPT ![pageIdx[frameIdx[t]]] = t]
              /\ Goto(t, "evict_check") /\ UNCHANGED <<frameLock, tries>>
            BY <1>9, <2>1 DEF EvictLockPage
        <3>2. disturbed' \subseteq Threads
            BY <1>9 DEF EvictLockPage
        <3>3. tries' \in [Threads -> Nat] /\ pc' \in [Threads -> Locations]
            BY <3>1
        <3> QED BY <1>9, <3>1, <3>2, <3>3 DEF EvictLockPage
    <2>2. CASE ~(pageLocks[pageIdx[frameIdx[t]]] = NoThread)
        <3>1. frameLock' = [frameLock EXCEPT ![frameIdx[t]] = NoThread] /\ NextFrame(t)
              /\ UNCHANGED pageLocks
            BY <1>9, <2>2 DEF EvictLockPage
        <3>2. disturbed' \subseteq Threads
            BY <1>9 DEF EvictLockPage
        <3>3. tries' \in [Threads -> Nat] /\ pc' \in [Threads -> Locations]
            BY <3>1
        <3> QED BY <1>9, <3>1, <3>2, <3>3 DEF EvictLockPage
    <2> QED BY <2>1, <2>2
<1>10. ASSUME NEW t \in Threads, EvictCheck(t) PROVE TypeOK'
    <2>1. CASE pinCount[frameIdx[t]] = 0
        <3>1. Goto(t, "flush") /\ UNCHANGED <<pageLocks, frameLock, tries>>
            BY <1>10, <2>1 DEF EvictCheck
        <3>2. disturbed' \subseteq Threads
            BY <1>10 DEF EvictCheck
        <3>3. tries' \in [Threads -> Nat] /\ pc' \in [Threads -> Locations]
            BY <3>1
        <3> QED BY <1>10, <3>1, <3>2, <3>3 DEF EvictCheck
    <2>2. CASE ~(pinCount[frameIdx[t]] = 0)
        <3>1. /\ pageLocks' = [pageLocks EXCEPT ![pageIdx[frameIdx[t]]] = NoThread]
              /\ frameLock' = [frameLock EXCEPT ![frameIdx[t]] = NoThread] /\ NextFrame(t)
            BY <1>10, <2>2 DEF EvictCheck
        <3>2. disturbed' \subseteq Threads
            BY <1>10 DEF EvictCheck
        <3>3. tries' \in [Threads -> Nat] /\ pc' \in [Threads -> Locations]
            BY <3>1
        <3> QED BY <1>10, <3>1, <3>2, <3>3 DEF EvictCheck
    <2> QED BY <2>1, <2>2
<1>11. ASSUME NEW t \in Threads, FlushAndClear(t) PROVE TypeOK'
    <2>1. file' \in [Pages -> Pages \X Nat]
        BY <1>11, <1>a, FlushedType DEF FlushAndClear
    <2>2. lost' \subseteq Pages
        BY <1>11 DEF FlushAndClear, Unmarked
    <2>3. pageIdxToFrameMap' \in [Pages -> Frames \cup {NoFrame}]
        BY <1>11 DEF FlushAndClear
    <2> HIDE DEF Unmarked
    <2> QED BY <1>11, <2>1, <2>2, <2>3 DEF FlushAndClear, ResetFrames
<1>12. ASSUME NEW t \in Threads, ReadNewPage(t) PROVE TypeOK'
    <2>1. page[t] \in Pages /\ frameIdx[t] \in Frames
        BY <1>12, <1>a DEF ReadNewPage
    <2>2. file[page[t]] \in (Pages \cup {NoPage}) \X Nat
        BY <2>1
    <2>3. buffer' \in [Frames -> (Pages \cup {NoPage}) \X Nat]
        BY <1>12, <2>2 DEF ReadNewPage
    <2>4. pageIdx' \in [Frames -> Pages \cup {NoPage}]
        BY <1>12, <2>1 DEF ReadNewPage
    <2> QED BY <1>12, <2>3, <2>4 DEF ReadNewPage
<1>13. ASSUME NEW t \in Threads, Swizzle(t) PROVE TypeOK'
    <2>1. page[t] \in Pages /\ frameIdx[t] \in Frames
        BY <1>13, <1>a DEF Swizzle
    <2>2. clockHand' \in Nat
        BY <1>13 DEF Swizzle
    <2>3. pageIdxToFrameMap' \in [Pages -> Frames \cup {NoFrame}]
        BY <1>13, <2>1 DEF Swizzle
    <2>4. pinned' \in [Threads -> [Pages -> Frames \cup {NoFrame}]]
        BY <1>13, <2>1 DEF Swizzle, Return
    <2>5. pageLocks' \in [Pages -> Threads \cup {NoThread}]
        BY <1>13, <2>1 DEF Swizzle, Return, ReleasePageLock, TakesPageLock
    <2> QED BY <1>13, <2>2, <2>3, <2>4, <2>5 DEF Swizzle, Return, EndCall
<1>14. ASSUME NEW t \in Threads, SetPinnedPageDirty(t) PROVE TypeOK'
    BY <1>14 DEF SetPinnedPageDirty, EndCall
<1>15. ASSUME NEW t \in Threads, NEW p \in Pages, Pin(t, p) PROVE TypeOK'
    BY <1>15 DEF Pin
<1>22. ASSUME NEW t \in Threads, NEW p \in Pages, PinForUpdate(t, p) PROVE TypeOK'
    BY <1>22 DEF PinForUpdate
<1>16. ASSUME NEW t \in Threads, NEW p \in Pages, Write(t, p) PROVE TypeOK'
    BY <1>16 DEF Write
<1>17. ASSUME NEW t \in Threads, NEW p \in Pages, Unpin(t, p) PROVE TypeOK'
    <2>1. pageIdxToFrameMap[p] \in Frames /\ pinCount[pageIdxToFrameMap[p]] \in Nat \ {0}
        BY <1>17, PinnedIsCounted DEF Unpin, PinsInv
    <2>2. pinCount' \in [Frames -> Nat \cup {Empty}]
        <3>1. pinCount[pageIdxToFrameMap[p]] - 1 \in Nat
            BY <2>1
        <3> QED BY <1>17, <2>1, <3>1 DEF Unpin
    <2>3. pinned' \in [Threads -> [Pages -> Frames \cup {NoFrame}]]
        BY <1>17 DEF Unpin
    <2> QED BY <1>17, <2>2, <2>3 DEF Unpin
<1>18. CASE FlushAllDirtyPages
    <2>1. file' \in [Pages -> Pages \X Nat]
        BY <1>18, FlushedType DEF FlushAllDirtyPages, WALFrames, WithoutWALFrames
    <2>2. lost' \subseteq Pages
        BY <1>18 DEF FlushAllDirtyPages, Unmarked
    <2>3. pageIdxToFrameMap' \in [Pages -> Frames \cup {NoFrame}]
        BY <1>18 DEF FlushAllDirtyPages, WithoutWALFrames
    <2> QED BY <1>18, <2>1, <2>2, <2>3 DEF FlushAllDirtyPages, ResetFrames
<1>19. CASE RemoveFilePages
    <2>1. lost' \subseteq Pages /\ latest' \in [Pages -> Nat]
        BY <1>19 DEF RemoveFilePages
    <2>2. pageIdxToFrameMap' \in [Pages -> Frames \cup {NoFrame}]
        BY <1>19 DEF RemoveFilePages, WithoutWALFrames
    <2>3. file' \in [Pages -> Pages \X Nat]
        BY <1>19 DEF RemoveFilePages
    <2>4. UNCHANGED <<pageLocks, buffer, frameLock, clockHand, pc, call, caller, numWrites,
                      numPins, hasThrown, disturbed>>
        BY <1>19 DEF RemoveFilePages
    <2>5. ResetFrames(WALFrames)
        BY <1>19 DEF RemoveFilePages
    <2> QED BY <2>1, <2>2, <2>3, <2>4, <2>5 DEF ResetFrames
<1>20. ASSUME NEW p \in Pages, CheckpointPage(p) PROVE TypeOK'
    <2>1. latest' \in [Pages -> Nat]
        BY <1>20 DEF CheckpointPage
    <2>2. file' \in [Pages -> Pages \X Nat]
        BY <1>20, <2>1 DEF CheckpointPage
    <2>3. buffer' \in [Frames -> (Pages \cup {NoPage}) \X Nat]
        BY <1>20, <2>2 DEF CheckpointPage
    <2> QED BY <1>20, <2>1, <2>2, <2>3 DEF CheckpointPage
<1>21. CASE UNCHANGED vars
    BY <1>21 DEF vars
<1> QED BY <1>1, <1>2, <1>3, <1>4, <1>5, <1>6, <1>7, <1>8, <1>9, <1>10, <1>11, <1>12, <1>13,
       <1>14, <1>15, <1>16, <1>17, <1>18, <1>19, <1>20, <1>21, <1>22
    DEF Next, Step

\* The locks that a call has taken stay its own.
LEMMA LocksStep ==
    ASSUME TypeOK, LocksInv, CallsInv,
           [Next]_vars, LocksWALPages, ~ClearsBesideReaders
    PROVE  LocksInv'
<1>t. /\ pc \in [Threads -> Locations] /\ page \in [Threads -> Pages \cup {NoPage}]
      /\ frameIdx \in [Threads -> Frames \cup {NoFrame}]
      /\ pageLocks \in [Pages -> Threads \cup {NoThread}]
      /\ frameLock \in [Frames -> Threads \cup {NoThread}]
      /\ pageIdx \in [Frames -> Pages \cup {NoPage}]
      /\ pageIdxToFrameMap \in [Pages -> Frames \cup {NoFrame}]
      /\ pinCount \in [Frames -> Nat \cup {Empty}]
    BY DEF TypeOK
<1>c. \A t \in Threads :
        /\ pc[t] \in {"evict_page", "evict_check", "flush"} => pageIdx[frameIdx[t]] # NoPage
        /\ pc[t] \in {"evict_check", "flush"} => \A f \in Frames : pageIdx[f] # page[t]
    BY DEF CallsInv, HasNoFrame, HasFrameLock, HasVictimLock
<1> USE Nothing, <1>t DEF LocksInv, HasFrameLock, HasVictimLock, HasNoFrame, HasPageLock,
        fileHandle, frames, call, caller, history, Goto, NextFrame
<1>1. ASSUME NEW t \in Threads, AcquirePageLock(t) PROVE LocksInv'
    BY <1>1 DEF AcquirePageLock
<1>2. ASSUME NEW t \in Threads, FindFrame(t) PROVE LocksInv'
    BY <1>2 DEF FindFrame
<1>3. ASSUME NEW t \in Threads, PinHit(t) PROVE LocksInv'
    BY <1>3 DEF PinHit, Return, ReleasePageLock, TakesPageLock, EndCall
<1>4. ASSUME NEW t \in Threads, Claim(t) PROVE LocksInv'
    <2> DEFINE f == (localClockHand[t] + tries[t]) % numFrames
    <2>1. f \in Frames
        BY HandIsAtAFrame DEF TypeOK
    <2> HIDE DEF f
    <2>2. CASE Goto(t, "fill") /\ frameIdx' = [frameIdx EXCEPT ![t] = f]
        BY <1>4, <2>1, <2>2 DEF Claim
    <2>3. CASE Goto(t, "evict") /\ frameIdx' = [frameIdx EXCEPT ![t] = f]
        BY <1>4, <2>1, <2>3 DEF Claim
    <2>4. CASE Goto(t, "claim") /\ UNCHANGED frameIdx
        BY <1>4, <2>4 DEF Claim
    <2> QED BY <1>4, <2>2, <2>3, <2>4 DEF Claim, f
<1>5. ASSUME NEW t \in Threads, ClaimThrows(t) PROVE LocksInv'
    BY <1>5 DEF ClaimThrows, EndCall
<1>6. ASSUME NEW t \in Threads, FillEmptyFrame(t) PROVE LocksInv'
    BY <1>6 DEF FillEmptyFrame
<1>7. ASSUME NEW t \in Threads, SecondChance(t) PROVE LocksInv'
    BY <1>7 DEF SecondChance
<1>8. ASSUME NEW t \in Threads, EvictLockFrame(t) PROVE LocksInv'
    BY <1>8 DEF EvictLockFrame
<1>9. ASSUME NEW t \in Threads, EvictLockPage(t) PROVE LocksInv'
    <2>1. frameIdx[t] \in Frames /\ pageIdx[frameIdx[t]] \in Pages
        BY <1>9, <1>c DEF EvictLockPage
    <2>2. CASE pageLocks[pageIdx[frameIdx[t]]] = NoThread
        <3>1. /\ pageLocks' = [pageLocks EXCEPT ![pageIdx[frameIdx[t]]] = t]
              /\ pc' = [pc EXCEPT ![t] = "evict_check"]
              /\ UNCHANGED <<frameLock, page, frameIdx, pageIdx>>
            BY <1>9, <2>2 DEF EvictLockPage
        <3>2. ASSUME NEW p \in Pages PROVE pageLocks[p] # NoThread => pageLocks'[p] = pageLocks[p]
            BY <2>1, <2>2, <3>1
        <3> QED BY <1>9, <2>1, <2>2, <3>1, <3>2 DEF EvictLockPage
    <2>3. CASE pageLocks[pageIdx[frameIdx[t]]] # NoThread
        BY <1>9, <2>1, <2>3 DEF EvictLockPage
    <2> QED BY <2>2, <2>3
<1>10. ASSUME NEW t \in Threads, EvictCheck(t) PROVE LocksInv'
    <2>1. /\ frameIdx[t] \in Frames /\ pageIdx[frameIdx[t]] \in Pages
          /\ page[t] # pageIdx[frameIdx[t]] /\ pageLocks[pageIdx[frameIdx[t]]] = t
        BY <1>10, <1>c DEF EvictCheck
    <2>2. CASE pinCount[frameIdx[t]] = 0
        BY <1>10, <2>1, <2>2 DEF EvictCheck
    <2>3. CASE pinCount[frameIdx[t]] # 0
        <3>1. /\ pageLocks' = [pageLocks EXCEPT ![pageIdx[frameIdx[t]]] = NoThread]
              /\ frameLock' = [frameLock EXCEPT ![frameIdx[t]] = NoThread]
              /\ pc' = [pc EXCEPT ![t] = "claim"]
              /\ UNCHANGED <<page, frameIdx, pageIdx>>
            BY <1>10, <2>3 DEF EvictCheck
        <3>2. ASSUME NEW u \in Threads, u # t, pc[u] \in HasVictimLock
              PROVE  frameIdx[u] # frameIdx[t] /\ pageIdx[frameIdx[u]] # pageIdx[frameIdx[t]]
            BY <1>10, <2>1, <3>2 DEF EvictCheck
        <3> QED BY <1>10, <2>1, <3>1, <3>2 DEF EvictCheck
    <2> QED BY <2>2, <2>3
<1>11. ASSUME NEW t \in Threads, FlushAndClear(t) PROVE LocksInv'
    <2>1. /\ frameIdx[t] \in Frames /\ pageIdx[frameIdx[t]] \in Pages
          /\ page[t] # pageIdx[frameIdx[t]] /\ pageLocks[pageIdx[frameIdx[t]]] = t
        BY <1>11, <1>c DEF FlushAndClear
    <2>2. ASSUME NEW g \in Frames, g # frameIdx[t] PROVE pageIdx'[g] = pageIdx[g]
        BY <1>11, <2>1, <2>2 DEF FlushAndClear, ResetFrames
    <2> QED BY <1>11, <2>1, <2>2 DEF FlushAndClear
<1>12. ASSUME NEW t \in Threads, ReadNewPage(t) PROVE LocksInv'
    BY <1>12 DEF ReadNewPage
<1>13. ASSUME NEW t \in Threads, Swizzle(t) PROVE LocksInv'
    BY <1>13 DEF Swizzle, Return, ReleasePageLock, TakesPageLock, EndCall
<1>14. ASSUME NEW t \in Threads, SetPinnedPageDirty(t) PROVE LocksInv'
    BY <1>14 DEF SetPinnedPageDirty, EndCall
<1>15. ASSUME NEW t \in Threads, NEW p \in Pages, Pin(t, p) PROVE LocksInv'
    BY <1>15 DEF Pin
<1>22. ASSUME NEW t \in Threads, NEW p \in Pages, PinForUpdate(t, p) PROVE LocksInv'
    BY <1>22 DEF PinForUpdate
<1>16. ASSUME NEW t \in Threads, NEW p \in Pages, Write(t, p) PROVE LocksInv'
    BY <1>16 DEF Write
<1>17. ASSUME NEW t \in Threads, NEW p \in Pages, Unpin(t, p) PROVE LocksInv'
    BY <1>17 DEF Unpin
<1>18. CASE FlushAllDirtyPages
    BY <1>18 DEF FlushAllDirtyPages, Flushed, ResetFrames, Quiescent, WALFrames, WithoutWALFrames
<1>19. CASE RemoveFilePages
    BY <1>19 DEF RemoveFilePages, ResetFrames, Quiescent
<1>20. ASSUME NEW p \in Pages, CheckpointPage(p) PROVE LocksInv'
    BY <1>20 DEF CheckpointPage, Quiescent
<1>21. CASE UNCHANGED vars
    BY <1>21 DEF vars
<1> QED BY <1>1, <1>2, <1>3, <1>4, <1>5, <1>6, <1>7, <1>8, <1>9, <1>10, <1>11, <1>12, <1>13,
       <1>14, <1>15, <1>16, <1>17, <1>18, <1>19, <1>20, <1>21, <1>22
    DEF Next, Step

\* A page whose lock is free, or taken by a call that is not about to enter it in the map,
\* is in the map if it is in a frame.
LEMMA InFrameIsInMap ==
    ASSUME TypeOK, LocksInv, MapInv, NEW f \in Frames, NEW p \in Pages, pageIdx[f] = p,
           \A t \in Threads : ~(pc[t] = "swizzle" /\ page[t] = p /\ pageLocks[p] = t)
    PROVE  pageIdxToFrameMap[p] = f
<1>1. \/ pageIdxToFrameMap[p] = f
      \/ \E t \in Threads : pc[t] = "swizzle" /\ frameIdx[t] = f /\ page[t] = p
    BY Nothing DEF MapInv
<1>2. \A t \in Threads : pc[t] = "swizzle" => pageLocks[page[t]] = t
    BY DEF LocksInv, HasPageLock
<1> QED BY <1>1, <1>2

\* A page is in one frame.
LEMMA OneFrame ==
    ASSUME TypeOK, LocksInv, MapInv, CallsInv,
           NEW f \in Frames, NEW g \in Frames, pageIdx[f] = pageIdx[g], pageIdx[f] # NoPage
    PROVE  f = g
<1> DEFINE p == pageIdx[f]
<1>1. p \in Pages
    BY DEF TypeOK
<1>2. \A t \in Threads : pc[t] = "swizzle" /\ page[t] = p =>
          pageLocks[p] = t /\ pageIdxToFrameMap[p] = NoFrame
    BY DEF LocksInv, CallsInv, HasPageLock
<1>3. \/ pageIdxToFrameMap[p] = f
      \/ \E t \in Threads : pc[t] = "swizzle" /\ frameIdx[t] = f /\ page[t] = p
    BY DEF MapInv
<1>4. \/ pageIdxToFrameMap[p] = g
      \/ \E t \in Threads : pc[t] = "swizzle" /\ frameIdx[t] = g /\ page[t] = p
    BY DEF MapInv
<1> QED BY <1>2, <1>3, <1>4, Nothing

\* The map and the frames stay in agreement.
LEMMA MapStep ==
    ASSUME TypeOK, LocksInv, MapInv, CallsInv, PinsInv, PinCountsAreExact,
           [Next]_vars, LocksWALPages, ~ClearsBesideReaders
    PROVE  MapInv'
<1>t. /\ pc \in [Threads -> Locations] /\ page \in [Threads -> Pages \cup {NoPage}]
      /\ frameIdx \in [Threads -> Frames \cup {NoFrame}]
      /\ pageLocks \in [Pages -> Threads \cup {NoThread}]
      /\ frameLock \in [Frames -> Threads \cup {NoThread}]
      /\ pageIdx \in [Frames -> Pages \cup {NoPage}]
      /\ pageIdxToFrameMap \in [Pages -> Frames \cup {NoFrame}]
      /\ pinCount \in [Frames -> Nat \cup {Empty}]
    BY DEF TypeOK
<1> USE Nothing, <1>t DEF MapInv, fileHandle, frames, call, caller, history, Goto, NextFrame
<1>1. ASSUME NEW t \in Threads, AcquirePageLock(t) PROVE MapInv'
    BY <1>1 DEF AcquirePageLock
<1>2. ASSUME NEW t \in Threads, FindFrame(t) PROVE MapInv'
    BY <1>2 DEF FindFrame
<1>3. ASSUME NEW t \in Threads, PinHit(t) PROVE MapInv'
    <2>1. page[t] \in Pages /\ frameIdx[t] \in Frames /\ pageIdx[frameIdx[t]] = page[t]
        BY <1>3 DEF PinHit, LocksInv, CallsInv
    <2>2. pinCount[frameIdx[t]] \in Nat
        BY <2>1
    <2>3. \A f \in Frames : pinCount'[f] = Empty <=> pinCount[f] = Empty
        BY <1>3, <2>1, <2>2 DEF PinHit, Empty
    <2> QED BY <1>3, <2>3 DEF PinHit, Return, ReleasePageLock, TakesPageLock, EndCall
<1>4. ASSUME NEW t \in Threads, Claim(t) PROVE MapInv'
    BY <1>4 DEF Claim
<1>5. ASSUME NEW t \in Threads, ClaimThrows(t) PROVE MapInv'
    BY <1>5 DEF ClaimThrows, EndCall
<1>6. ASSUME NEW t \in Threads, FillEmptyFrame(t) PROVE MapInv'
    BY <1>6 DEF FillEmptyFrame
<1>7. ASSUME NEW t \in Threads, SecondChance(t) PROVE MapInv'
    BY <1>7 DEF SecondChance
<1>8. ASSUME NEW t \in Threads, EvictLockFrame(t) PROVE MapInv'
    BY <1>8 DEF EvictLockFrame
<1>9. ASSUME NEW t \in Threads, EvictLockPage(t) PROVE MapInv'
    BY <1>9 DEF EvictLockPage
<1>10. ASSUME NEW t \in Threads, EvictCheck(t) PROVE MapInv'
    BY <1>10 DEF EvictCheck
<1>11. ASSUME NEW t \in Threads, FlushAndClear(t) PROVE MapInv'
    <2> DEFINE f == frameIdx[t]
               p == pageIdx[f]
    <2>1. f \in Frames /\ p \in Pages /\ pageLocks[p] = t
        BY <1>11 DEF FlushAndClear, LocksInv, CallsInv, HasFrameLock, HasVictimLock
    <2>2. pageIdxToFrameMap[p] = f
        BY <1>11, <2>1, InFrameIsInMap DEF FlushAndClear
    <2>3. \A g \in Frames : /\ pageIdx'[g] = IF g = f THEN NoPage ELSE pageIdx[g]
                            /\ pinCount'[g] = IF g = f THEN Empty ELSE pinCount[g]
        BY <1>11 DEF FlushAndClear, ResetFrames
    <2>4. \A q \in Pages : pageIdxToFrameMap'[q] = IF q = p THEN NoFrame ELSE pageIdxToFrameMap[q]
        BY <1>11, <2>1 DEF FlushAndClear
    <2>5. \A g \in Frames : g # f /\ pageIdx[g] # NoPage => pageIdx[g] # p
        BY <2>1, OneFrame
    <2>6. \A u \in Threads : pc[u] = "swizzle" => pc'[u] = "swizzle"
        BY <1>11 DEF FlushAndClear
    <2>7. UNCHANGED <<page, frameIdx>>
        BY <1>11 DEF FlushAndClear
    <2> HIDE DEF f, p
    <2>8. \A q \in Pages : pageIdxToFrameMap'[q] # NoFrame => pageIdx'[pageIdxToFrameMap'[q]] = q
        BY <2>1, <2>2, <2>3, <2>4 DEF p
    <2>9. ASSUME NEW g \in Frames, pageIdx'[g] # NoPage
          PROVE  \/ pageIdxToFrameMap'[pageIdx'[g]] = g
                 \/ \E u \in Threads : /\ pc'[u] = "swizzle" /\ frameIdx'[u] = g
                                       /\ page'[u] = pageIdx'[g]
        <3>1. g # f /\ pageIdx'[g] = pageIdx[g] /\ pageIdx[g] \in Pages /\ pageIdx[g] # p
            BY <2>3, <2>5, <2>9
        <3>2. pageIdxToFrameMap'[pageIdx'[g]] = pageIdxToFrameMap[pageIdx[g]]
            BY <2>4, <3>1
        <3> QED BY <2>6, <2>7, <3>1, <3>2
    <2> QED BY <2>3, <2>8, <2>9
<1>12. ASSUME NEW t \in Threads, ReadNewPage(t) PROVE MapInv'
    <2> DEFINE f == frameIdx[t]
    <2>1. f \in Frames /\ page[t] \in Pages /\ pageIdx[f] = NoPage
        BY <1>12 DEF ReadNewPage, LocksInv, CallsInv, HasFrameLock
    <2>2. \A g \in Frames : /\ pageIdx'[g] = IF g = f THEN page[t] ELSE pageIdx[g]
                            /\ pinCount'[g] = IF g = f THEN 1 ELSE pinCount[g]
        BY <1>12 DEF ReadNewPage
    <2>3. /\ pc'[t] = "swizzle" /\ UNCHANGED <<page, frameIdx, pageIdxToFrameMap>>
          /\ \A u \in Threads : pc[u] = "swizzle" => pc'[u] = "swizzle"
        BY <1>12 DEF ReadNewPage
    <2> HIDE DEF f
    <2>4. \A q \in Pages : pageIdxToFrameMap'[q] # NoFrame => pageIdx'[pageIdxToFrameMap'[q]] = q
        BY <2>1, <2>2, <2>3
    <2>5. ASSUME NEW g \in Frames, pageIdx'[g] # NoPage
          PROVE  \/ pageIdxToFrameMap'[pageIdx'[g]] = g
                 \/ \E u \in Threads : /\ pc'[u] = "swizzle" /\ frameIdx'[u] = g
                                       /\ page'[u] = pageIdx'[g]
        <3>1. CASE g = f
            BY <2>1, <2>2, <2>3, <3>1 DEF f
        <3>2. CASE g # f
            BY <2>2, <2>3, <2>5, <3>2
        <3> QED BY <3>1, <3>2
    <2>6. \A g \in Frames : pinCount'[g] = Empty <=> pageIdx'[g] = NoPage
        BY <2>1, <2>2 DEF Empty
    <2> QED BY <2>4, <2>5, <2>6
<1>13. ASSUME NEW t \in Threads, Swizzle(t) PROVE MapInv'
    <2> DEFINE f == frameIdx[t]
               p == page[t]
    <2>1. f \in Frames /\ p \in Pages /\ pageIdx[f] = p
        BY <1>13 DEF Swizzle, LocksInv, CallsInv
    <2>2. /\ \A q \in Pages : pageIdxToFrameMap'[q] = IF q = p THEN f ELSE pageIdxToFrameMap[q]
          /\ UNCHANGED <<pageIdx, pinCount>>
        BY <1>13, <2>1 DEF Swizzle
    <2>3. \A u \in Threads : u # t => /\ pc'[u] = pc[u] /\ page'[u] = page[u]
                                      /\ frameIdx'[u] = frameIdx[u]
        BY <1>13 DEF Swizzle, Return, EndCall
    <2> HIDE DEF f, p
    <2>4. \A q \in Pages : pageIdxToFrameMap'[q] # NoFrame => pageIdx'[pageIdxToFrameMap'[q]] = q
        BY <2>1, <2>2
    <2>5. ASSUME NEW g \in Frames, pageIdx'[g] # NoPage
          PROVE  \/ pageIdxToFrameMap'[pageIdx'[g]] = g
                 \/ \E u \in Threads : /\ pc'[u] = "swizzle" /\ frameIdx'[u] = g
                                       /\ page'[u] = pageIdx'[g]
        <3>1. CASE pageIdx[g] = p
            BY <2>1, <2>2, <3>1, OneFrame
        <3>2. CASE pageIdx[g] # p
            BY <2>2, <2>3, <2>5, <3>2 DEF p
        <3> QED BY <3>1, <3>2
    <2> QED BY <2>2, <2>4, <2>5
<1>14. ASSUME NEW t \in Threads, SetPinnedPageDirty(t) PROVE MapInv'
    BY <1>14 DEF SetPinnedPageDirty, EndCall
<1>15. ASSUME NEW t \in Threads, NEW p \in Pages, Pin(t, p) PROVE MapInv'
    BY <1>15 DEF Pin
<1>22. ASSUME NEW t \in Threads, NEW p \in Pages, PinForUpdate(t, p) PROVE MapInv'
    BY <1>22 DEF PinForUpdate
<1>16. ASSUME NEW t \in Threads, NEW p \in Pages, Write(t, p) PROVE MapInv'
    BY <1>16 DEF Write
<1>17. ASSUME NEW t \in Threads, NEW p \in Pages, Unpin(t, p) PROVE MapInv'
    <2>1. pageIdxToFrameMap[p] \in Frames /\ pinCount[pageIdxToFrameMap[p]] \in Nat \ {0}
        BY <1>17, PinnedIsCounted DEF Unpin, PinsInv
    <2>2. \A f \in Frames : pinCount'[f] = Empty <=> pinCount[f] = Empty
        BY <1>17, <2>1 DEF Unpin, Empty
    <2> QED BY <1>17, <2>2 DEF Unpin
<1>18. CASE FlushAllDirtyPages
    BY <1>18 DEF FlushAllDirtyPages, Flushed, ResetFrames, Quiescent, WALFrames, WithoutWALFrames
<1>19. CASE RemoveFilePages
    BY <1>19 DEF RemoveFilePages, ResetFrames, Quiescent, WALFrames, WithoutWALFrames
<1>20. ASSUME NEW p \in Pages, CheckpointPage(p) PROVE MapInv'
    BY <1>20 DEF CheckpointPage, Quiescent
<1>21. CASE UNCHANGED vars
    BY <1>21 DEF vars
<1> QED BY <1>1, <1>2, <1>3, <1>4, <1>5, <1>6, <1>7, <1>8, <1>9, <1>10, <1>11, <1>12, <1>13,
       <1>14, <1>15, <1>16, <1>17, <1>18, <1>19, <1>20, <1>21, <1>22
    DEF Next, Step

\* What a call knows of the map and of its frame stays true.
LEMMA CallsStep ==
    ASSUME TypeOK, LocksInv, MapInv, CallsInv,
           [Next]_vars, LocksWALPages, ~ClearsBesideReaders
    PROVE  CallsInv'
<1>t. /\ pc \in [Threads -> Locations] /\ page \in [Threads -> Pages \cup {NoPage}]
      /\ frameIdx \in [Threads -> Frames \cup {NoFrame}]
      /\ pageLocks \in [Pages -> Threads \cup {NoThread}]
      /\ frameLock \in [Frames -> Threads \cup {NoThread}]
      /\ pageIdx \in [Frames -> Pages \cup {NoPage}]
      /\ pageIdxToFrameMap \in [Pages -> Frames \cup {NoFrame}]
      /\ pinCount \in [Frames -> Nat \cup {Empty}]
    BY DEF TypeOK
<1> USE Nothing, <1>t DEF LocksInv, CallsInv, HasFrameLock, HasVictimLock, HasNoFrame, HasPageLock,
        fileHandle, frames, call, caller, history, Goto, NextFrame
<1>1. ASSUME NEW t \in Threads, AcquirePageLock(t) PROVE CallsInv'
    BY <1>1 DEF AcquirePageLock
<1>2. ASSUME NEW t \in Threads, FindFrame(t) PROVE CallsInv'
    <2>1. page[t] \in Pages /\ pageLocks[page[t]] = t /\ pc[t] # "swizzle"
        BY <1>2 DEF FindFrame
    <2>2. CASE pageIdxToFrameMap[page[t]] = NoFrame
        <3>1. \A f \in Frames : pageIdx[f] # page[t]
            BY <2>1, <2>2, InFrameIsInMap
        <3> QED BY <1>2, <2>1, <2>2, <3>1 DEF FindFrame
    <2>3. CASE pageIdxToFrameMap[page[t]] # NoFrame
        BY <1>2, <2>1, <2>3 DEF FindFrame
    <2> QED BY <2>2, <2>3
<1>3. ASSUME NEW t \in Threads, PinHit(t) PROVE CallsInv'
    <2>1. pageIdx[frameIdx[t]] = page[t]
        BY <1>3 DEF PinHit, MapInv
    <2>2. \A u \in Threads : u # t /\ pc[u] = "flush" => frameIdx[u] # frameIdx[t]
        BY <1>3, <2>1 DEF PinHit
    <2> QED BY <1>3, <2>2 DEF PinHit, Return, ReleasePageLock, TakesPageLock, EndCall
<1>4. ASSUME NEW t \in Threads, Claim(t) PROVE CallsInv'
    <2> DEFINE f == (localClockHand[t] + tries[t]) % numFrames
    <2>1. f \in Frames
        BY HandIsAtAFrame DEF TypeOK
    <2> HIDE DEF f
    <2>2. CASE Goto(t, "fill") /\ frameIdx' = [frameIdx EXCEPT ![t] = f]
        BY <1>4, <2>1, <2>2 DEF Claim
    <2>3. CASE pinCount[f] = 0 /\ Goto(t, "evict") /\ frameIdx' = [frameIdx EXCEPT ![t] = f]
        <3>1. pageIdx[f] # NoPage
            BY <2>1, <2>3 DEF MapInv
        <3> QED BY <1>4, <2>1, <2>3, <3>1 DEF Claim
    <2>4. CASE Goto(t, "claim") /\ UNCHANGED frameIdx
        BY <1>4, <2>4 DEF Claim
    <2> QED BY <1>4, <2>2, <2>3, <2>4 DEF Claim, f
<1>5. ASSUME NEW t \in Threads, ClaimThrows(t) PROVE CallsInv'
    BY <1>5 DEF ClaimThrows, EndCall
<1>6. ASSUME NEW t \in Threads, FillEmptyFrame(t) PROVE CallsInv'
    <2>1. pinCount[frameIdx[t]] = Empty => pageIdx[frameIdx[t]] = NoPage
        BY <1>6 DEF FillEmptyFrame, MapInv
    <2>2. CASE frameLock[frameIdx[t]] = NoThread /\ pinCount[frameIdx[t]] = Empty
        BY <1>6, <2>1, <2>2 DEF FillEmptyFrame
    <2>3. CASE ~(frameLock[frameIdx[t]] = NoThread /\ pinCount[frameIdx[t]] = Empty)
        BY <1>6, <2>3 DEF FillEmptyFrame
    <2> QED BY <2>2, <2>3
<1>7. ASSUME NEW t \in Threads, SecondChance(t) PROVE CallsInv'
    BY <1>7 DEF SecondChance
<1>8. ASSUME NEW t \in Threads, EvictLockFrame(t) PROVE CallsInv'
    BY <1>8 DEF EvictLockFrame
<1>9. ASSUME NEW t \in Threads, EvictLockPage(t) PROVE CallsInv'
    BY <1>9 DEF EvictLockPage
<1>10. ASSUME NEW t \in Threads, EvictCheck(t) PROVE CallsInv'
    BY <1>10 DEF EvictCheck
<1>11. ASSUME NEW t \in Threads, FlushAndClear(t) PROVE CallsInv'
    BY <1>11 DEF FlushAndClear, Flushed, ResetFrames
<1>12. ASSUME NEW t \in Threads, ReadNewPage(t) PROVE CallsInv'
    BY <1>12 DEF ReadNewPage
<1>13. ASSUME NEW t \in Threads, Swizzle(t) PROVE CallsInv'
    BY <1>13 DEF Swizzle, Return, ReleasePageLock, TakesPageLock, EndCall
<1>14. ASSUME NEW t \in Threads, SetPinnedPageDirty(t) PROVE CallsInv'
    BY <1>14 DEF SetPinnedPageDirty, EndCall
<1>15. ASSUME NEW t \in Threads, NEW p \in Pages, Pin(t, p) PROVE CallsInv'
    BY <1>15 DEF Pin
<1>22. ASSUME NEW t \in Threads, NEW p \in Pages, PinForUpdate(t, p) PROVE CallsInv'
    BY <1>22 DEF PinForUpdate
<1>16. ASSUME NEW t \in Threads, NEW p \in Pages, Write(t, p) PROVE CallsInv'
    BY <1>16 DEF Write
<1>17. ASSUME NEW t \in Threads, NEW p \in Pages, Unpin(t, p) PROVE CallsInv'
    <2>1. pageIdx[pageIdxToFrameMap[p]] = p /\ pageLocks[p] = NoThread
        BY <1>17 DEF Unpin, TakesPageLock, MapInv
    <2>2. \A u \in Threads : pc[u] = "flush" => frameIdx[u] # pageIdxToFrameMap[p]
        BY <1>17, <2>1
    <2> QED BY <1>17, <2>2 DEF Unpin
<1>18. CASE FlushAllDirtyPages
    BY <1>18 DEF FlushAllDirtyPages, Flushed, ResetFrames, Quiescent, WALFrames, WithoutWALFrames
<1>19. CASE RemoveFilePages
    BY <1>19 DEF RemoveFilePages, ResetFrames, Quiescent, WALFrames, WithoutWALFrames
<1>20. ASSUME NEW p \in Pages, CheckpointPage(p) PROVE CallsInv'
    BY <1>20 DEF CheckpointPage, Quiescent
<1>21. CASE UNCHANGED vars
    BY <1>21 DEF vars
<1> QED BY <1>1, <1>2, <1>3, <1>4, <1>5, <1>6, <1>7, <1>8, <1>9, <1>10, <1>11, <1>12, <1>13,
       <1>14, <1>15, <1>16, <1>17, <1>18, <1>19, <1>20, <1>21, <1>22
    DEF Next, Step

\* A pinned page stays in the map.
LEMMA PinsStep ==
    ASSUME TypeOK, LocksInv, MapInv, CallsInv, PinsInv, PinCountsAreExact,
           [Next]_vars, LocksWALPages, ~ClearsBesideReaders
    PROVE  PinsInv'
<1>t. /\ pc \in [Threads -> Locations] /\ page \in [Threads -> Pages \cup {NoPage}]
      /\ frameIdx \in [Threads -> Frames \cup {NoFrame}]
      /\ pageLocks \in [Pages -> Threads \cup {NoThread}]
      /\ frameLock \in [Frames -> Threads \cup {NoThread}]
      /\ pageIdx \in [Frames -> Pages \cup {NoPage}]
      /\ pageIdxToFrameMap \in [Pages -> Frames \cup {NoFrame}]
      /\ pinCount \in [Frames -> Nat \cup {Empty}]
    BY DEF TypeOK
<1> USE Nothing, <1>t DEF LocksInv, PinsInv, HasFrameLock, HasVictimLock, HasNoFrame, HasPageLock,
        fileHandle, frames, call, caller, history, Goto, NextFrame
<1>1. ASSUME NEW t \in Threads, AcquirePageLock(t) PROVE PinsInv'
    BY <1>1 DEF AcquirePageLock
<1>2. ASSUME NEW t \in Threads, FindFrame(t) PROVE PinsInv'
    BY <1>2 DEF FindFrame
<1>3. ASSUME NEW t \in Threads, PinHit(t) PROVE PinsInv'
    BY <1>3 DEF PinHit, Return, ReleasePageLock, TakesPageLock, EndCall
<1>4. ASSUME NEW t \in Threads, Claim(t) PROVE PinsInv'
    BY <1>4 DEF Claim
<1>5. ASSUME NEW t \in Threads, ClaimThrows(t) PROVE PinsInv'
    BY <1>5 DEF ClaimThrows, EndCall
<1>6. ASSUME NEW t \in Threads, FillEmptyFrame(t) PROVE PinsInv'
    BY <1>6 DEF FillEmptyFrame
<1>7. ASSUME NEW t \in Threads, SecondChance(t) PROVE PinsInv'
    BY <1>7 DEF SecondChance
<1>8. ASSUME NEW t \in Threads, EvictLockFrame(t) PROVE PinsInv'
    BY <1>8 DEF EvictLockFrame
<1>9. ASSUME NEW t \in Threads, EvictLockPage(t) PROVE PinsInv'
    BY <1>9 DEF EvictLockPage
<1>10. ASSUME NEW t \in Threads, EvictCheck(t) PROVE PinsInv'
    BY <1>10 DEF EvictCheck
<1>11. ASSUME NEW t \in Threads, FlushAndClear(t) PROVE PinsInv'
    <2> DEFINE f == frameIdx[t]
    <2>1. f \in Frames /\ pageIdx[f] \in Pages /\ pinCount[f] = 0
        BY <1>11 DEF FlushAndClear, CallsInv
    <2>2. \A u \in Threads, p \in Pages : pinned[u][p] # NoFrame => p # pageIdx[f]
        <3>1. ASSUME NEW u \in Threads, pinned[u][pageIdx[f]] # NoFrame PROVE FALSE
            <4>1. /\ pageIdx[pinned[u][pageIdx[f]]] = pageIdx[f]
                  /\ pinned[u][pageIdx[f]] \in Frames
                  /\ pinCount[pinned[u][pageIdx[f]]] # 0
                BY <2>1, <3>1, PinnedIsCounted
            <4> QED BY <2>1, <4>1, OneFrame
        <3> QED BY <3>1
    <2>3. /\ UNCHANGED <<pinned, page>>
          /\ \A p \in Pages : p # pageIdx[f] => pageIdxToFrameMap'[p] = pageIdxToFrameMap[p]
          /\ pc' = [pc EXCEPT ![t] = "read"]
        BY <1>11 DEF FlushAndClear
    <2> QED BY <1>11, <2>2, <2>3 DEF FlushAndClear
<1>12. ASSUME NEW t \in Threads, ReadNewPage(t) PROVE PinsInv'
    BY <1>12 DEF ReadNewPage
<1>13. ASSUME NEW t \in Threads, Swizzle(t) PROVE PinsInv'
    <2>1. page[t] \in Pages /\ frameIdx[t] \in Frames
        BY <1>13 DEF Swizzle
    <2>2. \A u \in Threads : pinned[u][page[t]] = NoFrame
        BY <1>13, <2>1 DEF Swizzle, CallsInv
    <2>3. /\ \A p \in Pages : pageIdxToFrameMap'[p] =
                  IF p = page[t] THEN frameIdx[t] ELSE pageIdxToFrameMap[p]
          /\ \A u \in Threads, p \in Pages : pinned'[u][p] =
                  IF u = t /\ p = page[t] THEN frameIdx[t] ELSE pinned[u][p]
          /\ pc'[t] = "idle"
          /\ UNCHANGED originalLocks
          /\ \A u \in Threads : u # t => pc'[u] = pc[u] /\ page'[u] = page[u]
        BY <1>13, <2>1 DEF Swizzle, Return, EndCall, TypeOK
    <2>4. \A p \in Pages : originalLocks'[p] # NoThread => p \in WALPages
        BY <2>3 DEF PinsInv
    <2>5. \A u \in Threads, p \in Pages :
              pinned'[u][p] # NoFrame => pageIdxToFrameMap'[p] = pinned'[u][p]
        BY <2>1, <2>2, <2>3 DEF PinsInv
    <2>6. \A u \in Threads :
              pc'[u] \in HasPageLock \cup {"lock"} => pinned'[u][page'[u]] = NoFrame
        <3> SUFFICES ASSUME NEW u \in Threads, pc'[u] \in HasPageLock \cup {"lock"}
                     PROVE  pinned'[u][page'[u]] = NoFrame
            OBVIOUS
        <3>1. u # t
            BY <2>3 DEF HasPageLock, HasNoFrame, HasFrameLock
        <3>2. page[u] \in Pages /\ pc[u] \in HasPageLock \cup {"lock"}
            BY <2>3, <3>1 DEF LocksInv, HasPageLock, HasNoFrame, HasFrameLock
        <3> QED BY <2>3, <3>1, <3>2 DEF PinsInv
    <2> QED BY <2>4, <2>5, <2>6 DEF PinsInv
<1>14. ASSUME NEW t \in Threads, SetPinnedPageDirty(t) PROVE PinsInv'
    BY <1>14 DEF SetPinnedPageDirty, EndCall
<1>15. ASSUME NEW t \in Threads, NEW p \in Pages, Pin(t, p) PROVE PinsInv'
    BY <1>15 DEF Pin
<1>22. ASSUME NEW t \in Threads, NEW p \in Pages, PinForUpdate(t, p) PROVE PinsInv'
    BY <1>22 DEF PinForUpdate
<1>16. ASSUME NEW t \in Threads, NEW p \in Pages, Write(t, p) PROVE PinsInv'
    BY <1>16 DEF Write
<1>17. ASSUME NEW t \in Threads, NEW p \in Pages, Unpin(t, p) PROVE PinsInv'
    BY <1>17 DEF Unpin
<1>18. CASE FlushAllDirtyPages
    BY <1>18 DEF FlushAllDirtyPages, Flushed, ResetFrames, Quiescent, WALFrames, WithoutWALFrames
<1>19. CASE RemoveFilePages
    BY <1>19 DEF RemoveFilePages, ResetFrames, Quiescent, WALFrames, WithoutWALFrames
<1>20. ASSUME NEW p \in Pages, CheckpointPage(p) PROVE PinsInv'
    BY <1>20 DEF CheckpointPage, Quiescent
<1>21. CASE UNCHANGED vars
    BY <1>21 DEF vars
<1> QED BY <1>1, <1>2, <1>3, <1>4, <1>5, <1>6, <1>7, <1>8, <1>9, <1>10, <1>11, <1>12, <1>13,
       <1>14, <1>15, <1>16, <1>17, <1>18, <1>19, <1>20, <1>21, <1>22
    DEF Next, Step

\* A dirty frame keeps a page that has been written.
LEMMA DirtyStep ==
    ASSUME TypeOK, LocksInv, MapInv, CallsInv, PinsInv, DirtyInv,
           [Next]_vars, LocksWALPages, ~ClearsBesideReaders
    PROVE  DirtyInv'
<1>t. /\ pc \in [Threads -> Locations] /\ page \in [Threads -> Pages \cup {NoPage}]
      /\ frameIdx \in [Threads -> Frames \cup {NoFrame}]
      /\ pageLocks \in [Pages -> Threads \cup {NoThread}]
      /\ frameLock \in [Frames -> Threads \cup {NoThread}]
      /\ pageIdx \in [Frames -> Pages \cup {NoPage}]
      /\ pageIdxToFrameMap \in [Pages -> Frames \cup {NoFrame}]
      /\ pinCount \in [Frames -> Nat \cup {Empty}]
    BY DEF TypeOK
<1> USE Nothing, <1>t DEF DirtyInv, fileHandle, frames, call, caller, history, Goto, NextFrame
<1>1. ASSUME NEW t \in Threads, AcquirePageLock(t) PROVE DirtyInv'
    BY <1>1 DEF AcquirePageLock
<1>2. ASSUME NEW t \in Threads, FindFrame(t) PROVE DirtyInv'
    BY <1>2 DEF FindFrame
<1>3. ASSUME NEW t \in Threads, PinHit(t) PROVE DirtyInv'
    BY <1>3 DEF PinHit, Return, ReleasePageLock, TakesPageLock, EndCall
<1>4. ASSUME NEW t \in Threads, Claim(t) PROVE DirtyInv'
    BY <1>4 DEF Claim
<1>5. ASSUME NEW t \in Threads, ClaimThrows(t) PROVE DirtyInv'
    BY <1>5 DEF ClaimThrows, EndCall
<1>6. ASSUME NEW t \in Threads, FillEmptyFrame(t) PROVE DirtyInv'
    BY <1>6 DEF FillEmptyFrame
<1>7. ASSUME NEW t \in Threads, SecondChance(t) PROVE DirtyInv'
    BY <1>7 DEF SecondChance
<1>8. ASSUME NEW t \in Threads, EvictLockFrame(t) PROVE DirtyInv'
    BY <1>8 DEF EvictLockFrame
<1>9. ASSUME NEW t \in Threads, EvictLockPage(t) PROVE DirtyInv'
    BY <1>9 DEF EvictLockPage
<1>10. ASSUME NEW t \in Threads, EvictCheck(t) PROVE DirtyInv'
    BY <1>10 DEF EvictCheck
<1>11. ASSUME NEW t \in Threads, FlushAndClear(t) PROVE DirtyInv'
    BY <1>11 DEF FlushAndClear, Flushed, ResetFrames
<1>12. ASSUME NEW t \in Threads, ReadNewPage(t) PROVE DirtyInv'
    <2>1. frameIdx[t] \in Frames
        BY <1>12 DEF ReadNewPage, LocksInv, HasFrameLock
    <2>2. \A g \in Frames : isDirty'[g] => g # frameIdx[t] /\ isDirty[g]
        BY <1>12, <2>1 DEF ReadNewPage, TypeOK
    <2>3. \A g \in Frames : g # frameIdx[t] => pageIdx'[g] = pageIdx[g]
        BY <1>12, <2>1 DEF ReadNewPage
    <2>4. /\ UNCHANGED <<latest, page, pinned>>
          /\ \A u \in Threads : pc'[u] = "set_dirty" => pc[u] = "set_dirty"
        BY <1>12 DEF ReadNewPage
    <2> QED BY <2>2, <2>3, <2>4
<1>13. ASSUME NEW t \in Threads, Swizzle(t) PROVE DirtyInv'
    BY <1>13 DEF Swizzle, Return, ReleasePageLock, TakesPageLock, EndCall
<1>14. ASSUME NEW t \in Threads, SetPinnedPageDirty(t) PROVE DirtyInv'
    <2> DEFINE f == pageIdxToFrameMap[page[t]]
    <2>1. page[t] \in Pages /\ f \in Frames
        BY <1>14 DEF SetPinnedPageDirty, LocksInv
    <2>2. pageIdx[f] = page[t] /\ latest[page[t]] > 0
        BY <1>14, <2>1 DEF SetPinnedPageDirty, MapInv
    <2>3. \A g \in Frames : isDirty'[g] => g = f \/ isDirty[g]
        BY <1>14 DEF SetPinnedPageDirty
    <2> HIDE DEF f
    <2> QED BY <1>14, <2>1, <2>2, <2>3 DEF SetPinnedPageDirty, EndCall
<1>15. ASSUME NEW t \in Threads, NEW p \in Pages, Pin(t, p) PROVE DirtyInv'
    BY <1>15 DEF Pin
<1>22. ASSUME NEW t \in Threads, NEW p \in Pages, PinForUpdate(t, p) PROVE DirtyInv'
    BY <1>22 DEF PinForUpdate
<1>16. ASSUME NEW t \in Threads, NEW p \in Pages, Write(t, p) PROVE DirtyInv'
    <2>1. \A q \in Pages : latest[q] > 0 \/ q = p => latest'[q] > 0
        BY <1>16 DEF Write, TypeOK
    <2>2. \A u \in Threads : pc[u] = "set_dirty" => page[u] \in Pages
        BY DEF LocksInv
    <2>3. \A u \in Threads : pc'[u] = "set_dirty" => u = t \/ pc[u] = "set_dirty"
        BY <1>16 DEF Write
    <2>4. \A u \in Threads : pc'[u] = "set_dirty" => page'[u] = IF u = t THEN p ELSE page[u]
        BY <1>16 DEF Write
    <2>5. pinned[t][p] # NoFrame /\ UNCHANGED <<isDirty, pageIdx, pinned>>
        BY <1>16 DEF Write
    <2> QED BY <2>1, <2>2, <2>3, <2>4, <2>5
<1>17. ASSUME NEW t \in Threads, NEW p \in Pages, Unpin(t, p) PROVE DirtyInv'
    BY <1>17 DEF Unpin
<1>18. CASE FlushAllDirtyPages
    BY <1>18 DEF FlushAllDirtyPages, Flushed, ResetFrames, Quiescent, WALFrames, WithoutWALFrames
<1>19. CASE RemoveFilePages
    BY <1>19 DEF RemoveFilePages, ResetFrames, Quiescent, WALFrames, WithoutWALFrames
<1>20. ASSUME NEW p \in Pages, CheckpointPage(p) PROVE DirtyInv'
    <2>1. \A q \in Pages : latest[q] > 0 => latest'[q] > 0
        BY <1>20 DEF CheckpointPage, TypeOK
    <2> QED BY <1>20, <2>1 DEF CheckpointPage, Quiescent
<1>21. CASE UNCHANGED vars
    BY <1>21 DEF vars
<1> QED BY <1>1, <1>2, <1>3, <1>4, <1>5, <1>6, <1>7, <1>8, <1>9, <1>10, <1>11, <1>12, <1>13,
       <1>14, <1>15, <1>16, <1>17, <1>18, <1>19, <1>20, <1>21, <1>22
    DEF Next, Step

\* A frame that is read, written or updated has the latest contents of its page.
LEMMA CurrentStep ==
    ASSUME TypeOK, LocksInv, MapInv, CallsInv, PinsInv, DiskInv, FramesAreCurrent,
           [Next]_vars, LocksWALPages, ~ClearsBesideReaders
    PROVE  FramesAreCurrent'
<1>t. /\ pc \in [Threads -> Locations] /\ page \in [Threads -> Pages \cup {NoPage}]
      /\ frameIdx \in [Threads -> Frames \cup {NoFrame}]
      /\ pageLocks \in [Pages -> Threads \cup {NoThread}]
      /\ frameLock \in [Frames -> Threads \cup {NoThread}]
      /\ pageIdx \in [Frames -> Pages \cup {NoPage}]
      /\ pageIdxToFrameMap \in [Pages -> Frames \cup {NoFrame}]
      /\ pinCount \in [Frames -> Nat \cup {Empty}]
    BY DEF TypeOK
<1>u. ASSUME NEW fs, fs \subseteq Frames PROVE Unmarked(fs) \subseteq WALPages
    BY <1>u, <1>t, Nothing DEF Unmarked, FramesAreCurrent, DiskInv
<1> USE Nothing, <1>t DEF FramesAreCurrent, fileHandle, frames, call, caller, history, Goto, NextFrame
<1>1. ASSUME NEW t \in Threads, AcquirePageLock(t) PROVE FramesAreCurrent'
    BY <1>1 DEF AcquirePageLock
<1>2. ASSUME NEW t \in Threads, FindFrame(t) PROVE FramesAreCurrent'
    BY <1>2 DEF FindFrame
<1>3. ASSUME NEW t \in Threads, PinHit(t) PROVE FramesAreCurrent'
    BY <1>3 DEF PinHit, Return, ReleasePageLock, TakesPageLock, EndCall
<1>4. ASSUME NEW t \in Threads, Claim(t) PROVE FramesAreCurrent'
    BY <1>4 DEF Claim
<1>5. ASSUME NEW t \in Threads, ClaimThrows(t) PROVE FramesAreCurrent'
    BY <1>5 DEF ClaimThrows, EndCall
<1>6. ASSUME NEW t \in Threads, FillEmptyFrame(t) PROVE FramesAreCurrent'
    BY <1>6 DEF FillEmptyFrame
<1>7. ASSUME NEW t \in Threads, SecondChance(t) PROVE FramesAreCurrent'
    BY <1>7 DEF SecondChance
<1>8. ASSUME NEW t \in Threads, EvictLockFrame(t) PROVE FramesAreCurrent'
    BY <1>8 DEF EvictLockFrame
<1>9. ASSUME NEW t \in Threads, EvictLockPage(t) PROVE FramesAreCurrent'
    BY <1>9 DEF EvictLockPage
<1>10. ASSUME NEW t \in Threads, EvictCheck(t) PROVE FramesAreCurrent'
    BY <1>10 DEF EvictCheck
<1>11. ASSUME NEW t \in Threads, FlushAndClear(t) PROVE FramesAreCurrent'
    <2>1. frameIdx[t] \in Frames
        BY <1>11 DEF FlushAndClear, LocksInv, HasFrameLock
    <2>2. /\ UNCHANGED <<buffer, latest>> /\ lost' = lost \cup Unmarked({frameIdx[t]})
          /\ \A g \in Frames : pageIdx'[g] # NoPage => pageIdx'[g] = pageIdx[g]
        BY <1>11 DEF FlushAndClear, ResetFrames
    <2>3. Unmarked({frameIdx[t]}) \subseteq WALPages
        BY <2>1, <1>u
    <2> QED BY <2>2, <2>3
<1>12. ASSUME NEW t \in Threads, ReadNewPage(t) PROVE FramesAreCurrent'
    <2> DEFINE f == frameIdx[t]
    <2>1. f \in Frames /\ page[t] \in Pages
        BY <1>12 DEF ReadNewPage, LocksInv, HasFrameLock
    <2>2. /\ file[page[t]][1] = page[t]
          /\ latest[page[t]] > 0 /\ page[t] \notin lost =>
                 file[page[t]] = <<page[t], latest[page[t]]>>
        BY <1>12, <2>1 DEF ReadNewPage, CallsInv, DiskInv, HasNoFrame, HasFrameLock
    <2>3. /\ pageIdx'[f] = page[t]
          /\ latest[page[t]] > 0 => buffer'[f] = file[page[t]]
        BY <1>12, <2>1 DEF ReadNewPage, TypeOK
    <2>4. ASSUME NEW g \in Frames, g # f
          PROVE  pageIdx'[g] = pageIdx[g] /\ buffer'[g] = buffer[g]
        BY <1>12, <2>4 DEF ReadNewPage, TypeOK
    <2>5. UNCHANGED <<latest, lost>>
        BY <1>12 DEF ReadNewPage
    <2> HIDE DEF f
    <2> QED BY <2>2, <2>3, <2>4, <2>5
<1>13. ASSUME NEW t \in Threads, Swizzle(t) PROVE FramesAreCurrent'
    BY <1>13 DEF Swizzle, Return, ReleasePageLock, TakesPageLock, EndCall
<1>14. ASSUME NEW t \in Threads, SetPinnedPageDirty(t) PROVE FramesAreCurrent'
    BY <1>14 DEF SetPinnedPageDirty, EndCall
<1>15. ASSUME NEW t \in Threads, NEW p \in Pages, Pin(t, p) PROVE FramesAreCurrent'
    BY <1>15 DEF Pin
<1>22. ASSUME NEW t \in Threads, NEW p \in Pages, PinForUpdate(t, p) PROVE FramesAreCurrent'
    BY <1>22 DEF PinForUpdate
<1>16. ASSUME NEW t \in Threads, NEW p \in Pages, Write(t, p) PROVE FramesAreCurrent'
    <2> DEFINE f == pinned[t][p]
    <2>1. f \in Frames /\ pageIdx[f] = p
        BY <1>16 DEF Write, TypeOK, PinsInv, MapInv
    <2>2. /\ buffer'[f] = <<p, latest'[p]>>
          /\ \A g \in Frames : g # f => buffer'[g] = buffer[g]
          /\ \A q \in Pages : q # p => latest'[q] = latest[q]
          /\ UNCHANGED <<pageIdx, lost>>
        BY <1>16, <2>1 DEF Write, TypeOK
    <2>3. \A g \in Frames : pageIdx[g] = p => g = f
        BY <2>1, OneFrame
    <2> HIDE DEF f
    <2> QED BY <2>1, <2>2, <2>3
<1>17. ASSUME NEW t \in Threads, NEW p \in Pages, Unpin(t, p) PROVE FramesAreCurrent'
    BY <1>17 DEF Unpin
<1>18. CASE FlushAllDirtyPages
    <2>1. /\ UNCHANGED <<buffer, latest>> /\ lost' = lost \cup Unmarked(WALFrames)
          /\ \A g \in Frames : pageIdx'[g] # NoPage => pageIdx'[g] = pageIdx[g]
        BY <1>18 DEF FlushAllDirtyPages, ResetFrames
    <2>2. Unmarked(WALFrames) \subseteq WALPages
        BY <1>u DEF WALFrames
    <2> QED BY <2>1, <2>2
<1>19. CASE RemoveFilePages
    <2>1. /\ UNCHANGED buffer /\ lost' = lost \ WALPages
          /\ \A p \in Pages \ WALPages : latest'[p] = latest[p]
          /\ \A g \in Frames : pageIdx'[g] # NoPage =>
                 pageIdx'[g] = pageIdx[g] /\ pageIdx[g] \notin WALPages
        BY <1>19 DEF RemoveFilePages, ResetFrames, WALFrames
    <2> QED BY <2>1
<1>20. ASSUME NEW p \in Pages, CheckpointPage(p) PROVE FramesAreCurrent'
    <2>1. \A f \in Frames : pageIdx[f] = p => pageIdxToFrameMap[p] = f
        BY <1>20 DEF CheckpointPage, Quiescent, MapInv
    <2>2. \A f \in Frames : pageIdxToFrameMap[p] = f => pageIdx[f] = p
        BY DEF MapInv
    <2>3. /\ file'[p] = <<p, latest'[p]>>
          /\ \A f \in Frames : buffer'[f] = IF pageIdxToFrameMap[p] = f THEN file'[p] ELSE buffer[f]
          /\ \A q \in Pages : q # p => latest'[q] = latest[q]
          /\ UNCHANGED <<pageIdx, lost>>
        BY <1>20 DEF CheckpointPage, TypeOK
    <2> QED BY <2>1, <2>2, <2>3
<1>21. CASE UNCHANGED vars
    BY <1>21 DEF vars
<1> QED BY <1>1, <1>2, <1>3, <1>4, <1>5, <1>6, <1>7, <1>8, <1>9, <1>10, <1>11, <1>12, <1>13,
       <1>14, <1>15, <1>16, <1>17, <1>18, <1>19, <1>20, <1>21, <1>22
    DEF Next, Step

\* A page that leaves its frame is on disk, or has lost an update.
LEMMA DiskStep ==
    ASSUME TypeOK, LocksInv, MapInv, CallsInv, PinsInv, DirtyInv, DiskInv, FramesAreCurrent,
           [Next]_vars, LocksWALPages, ~ClearsBesideReaders
    PROVE  DiskInv'
<1>t. /\ page \in [Threads -> Pages \cup {NoPage}]
      /\ frameIdx \in [Threads -> Frames \cup {NoFrame}]
      /\ pageIdx \in [Frames -> Pages \cup {NoPage}]
      /\ pageIdxToFrameMap \in [Pages -> Frames \cup {NoFrame}]
      /\ latest \in [Pages -> Nat] /\ file \in [Pages -> Pages \X Nat] /\ lost \subseteq Pages
      /\ originalLocks \in [Pages -> Threads \cup {NoThread}]
    BY DEF TypeOK
<1>k. ASSUME UNCHANGED <<file, pageIdx, latest, lost>> PROVE DiskInv'
    BY <1>k DEF DiskInv
<1> USE Nothing, <1>t DEF fileHandle, history
<1>1. ASSUME NEW t \in Threads, AcquirePageLock(t) PROVE DiskInv'
    BY <1>1, <1>k DEF AcquirePageLock, frames
<1>2. ASSUME NEW t \in Threads, FindFrame(t) PROVE DiskInv'
    BY <1>2, <1>k DEF FindFrame, frames
<1>3. ASSUME NEW t \in Threads, PinHit(t) PROVE DiskInv'
    BY <1>3, <1>k DEF PinHit, frames
<1>4. ASSUME NEW t \in Threads, Claim(t) PROVE DiskInv'
    BY <1>4, <1>k DEF Claim, frames
<1>5. ASSUME NEW t \in Threads, ClaimThrows(t) PROVE DiskInv'
    BY <1>5, <1>k DEF ClaimThrows, frames
<1>6. ASSUME NEW t \in Threads, FillEmptyFrame(t) PROVE DiskInv'
    BY <1>6, <1>k DEF FillEmptyFrame, frames
<1>7. ASSUME NEW t \in Threads, SecondChance(t) PROVE DiskInv'
    BY <1>7, <1>k DEF SecondChance, frames
<1>8. ASSUME NEW t \in Threads, EvictLockFrame(t) PROVE DiskInv'
    BY <1>8, <1>k DEF EvictLockFrame, frames
<1>9. ASSUME NEW t \in Threads, EvictLockPage(t) PROVE DiskInv'
    BY <1>9, <1>k DEF EvictLockPage, frames
<1>10. ASSUME NEW t \in Threads, EvictCheck(t) PROVE DiskInv'
    BY <1>10, <1>k DEF EvictCheck, frames
<1>11. ASSUME NEW t \in Threads, FlushAndClear(t) PROVE DiskInv'
    <2> DEFINE f == frameIdx[t]
               q == pageIdx[f]
    <2>1. f \in Frames /\ q \in Pages
        BY <1>11 DEF FlushAndClear, LocksInv, CallsInv, HasFrameLock, HasVictimLock
    <2>2. /\ UNCHANGED latest
          /\ lost' = lost \cup Unmarked({f})
          /\ file' = Flushed({f})
          /\ \A g \in Frames : g # f => pageIdx'[g] = pageIdx[g]
        BY <1>11, <2>1 DEF FlushAndClear, ResetFrames
    <2>3. /\ \A p \in Pages : p # q => file'[p] = file[p]
          /\ file'[q] = IF isDirty[f] THEN buffer[f] ELSE file[q]
        BY <2>1, <2>2 DEF Flushed
    <2>4. q \notin lost' => isDirty[f] \/ buffer[f] = file[q]
        BY <2>1, <2>2 DEF Unmarked
    <2>5. latest[q] > 0 => buffer[f][1] = q /\ (q \notin lost => buffer[f] = <<q, latest[q]>>)
        BY <2>1 DEF FramesAreCurrent
    <2>6. isDirty[f] => latest[q] > 0
        BY <2>1 DEF DirtyInv
    <2>7. lost \subseteq WALPages /\ lost \subseteq lost'
        BY <2>2 DEF FramesAreCurrent
    <2> HIDE DEF f, q
    <2>8. \A p \in Pages : file'[p][1] = p
        BY <2>1, <2>3, <2>5, <2>6 DEF DiskInv
    <2>9. \A p \in Pages \ WALPages : latest'[p] > 0 /\ file'[p] = <<p, latest'[p]>>
        BY ZenonT(40), <2>1, <2>2, <2>3, <2>5, <2>7 DEF DiskInv
    <2>10. ASSUME NEW p \in WALPages, latest'[p] > 0, p \notin lost'
           PROVE  file'[p] = <<p, latest'[p]>> \/ \E g \in Frames : pageIdx'[g] = p
        <3>1. CASE p = q
            BY <2>2, <2>3, <2>4, <2>5, <2>7, <2>10, <3>1
        <3>2. CASE p # q
            <4>1. p \in Pages /\ latest[p] > 0 /\ p \notin lost
                BY <2>2, <2>7, <2>10, BufferPoolAssumption
            <4>2. file'[p] = file[p] /\ latest'[p] = latest[p]
                BY <2>2, <2>3, <3>2, <4>1
            <4>3. \A g \in Frames : pageIdx[g] = p => pageIdx'[g] = p
                BY <2>2, <3>2 DEF q
            <4>4. file[p] = <<p, latest[p]>> \/ \E g \in Frames : pageIdx[g] = p
                BY <2>10, <4>1 DEF DiskInv
            <4> QED BY <4>2, <4>3, <4>4
        <3> QED BY <3>1, <3>2
    <2> QED BY <2>8, <2>9, <2>10 DEF DiskInv
<1>12. ASSUME NEW t \in Threads, ReadNewPage(t) PROVE DiskInv'
    <2>1. frameIdx[t] \in Frames /\ pageIdx[frameIdx[t]] = NoPage
        BY <1>12 DEF ReadNewPage, LocksInv, CallsInv, HasFrameLock
    <2>2. \A g \in Frames : pageIdx[g] # NoPage => pageIdx'[g] = pageIdx[g]
        BY <1>12, <2>1 DEF ReadNewPage
    <2>3. UNCHANGED <<file, latest, lost>>
        BY <1>12 DEF ReadNewPage
    <2>4. \A p \in Pages : (\E g \in Frames : pageIdx[g] = p) => \E g \in Frames : pageIdx'[g] = p
        BY <2>2
    <2> QED BY <2>3, <2>4, BufferPoolAssumption DEF DiskInv
<1>13. ASSUME NEW t \in Threads, Swizzle(t) PROVE DiskInv'
    BY <1>13, <1>k DEF Swizzle, frames
<1>14. ASSUME NEW t \in Threads, SetPinnedPageDirty(t) PROVE DiskInv'
    BY <1>14, <1>k DEF SetPinnedPageDirty
<1>15. ASSUME NEW t \in Threads, NEW p \in Pages, Pin(t, p) PROVE DiskInv'
    BY <1>15, <1>k DEF Pin, frames
<1>22. ASSUME NEW t \in Threads, NEW p \in Pages, PinForUpdate(t, p) PROVE DiskInv'
    BY <1>22, <1>k DEF PinForUpdate, frames
<1>16. ASSUME NEW t \in Threads, NEW p \in Pages, Write(t, p) PROVE DiskInv'
    <2>1. p \in WALPages
        BY <1>16 DEF Write, PinsInv
    <2>2. pinned[t][p] \in Frames /\ pageIdx[pinned[t][p]] = p
        BY <1>16 DEF Write, TypeOK, PinsInv, MapInv
    <2>3. UNCHANGED <<file, pageIdx, lost>> /\ \A q \in Pages : q # p => latest'[q] = latest[q]
        BY <1>16 DEF Write
    <2> QED BY <2>1, <2>2, <2>3, BufferPoolAssumption DEF DiskInv
<1>17. ASSUME NEW t \in Threads, NEW p \in Pages, Unpin(t, p) PROVE DiskInv'
    BY <1>17, <1>k DEF Unpin
<1>18. CASE FlushAllDirtyPages
    <2>1. /\ UNCHANGED latest
          /\ lost' = lost \cup Unmarked(WALFrames)
          /\ file' = Flushed(WALFrames)
          /\ \A g \in Frames : g \notin WALFrames => pageIdx'[g] = pageIdx[g]
        BY <1>18 DEF FlushAllDirtyPages, ResetFrames
    <2>2. ASSUME NEW p \in Pages, NEW g \in WALFrames, pageIdx[g] = p
          PROVE  /\ file'[p] = IF isDirty[g] THEN buffer[g] ELSE file[p]
                 /\ p \notin lost' => isDirty[g] \/ buffer[g] = file[p]
                 /\ latest[p] > 0 => buffer[g][1] = p
                 /\ latest[p] > 0 /\ p \notin lost => buffer[g] = <<p, latest[p]>>
                 /\ isDirty[g] => latest[p] > 0
        <3>1. \A h \in WALFrames : pageIdx[h] = p => h = g
            BY <2>2, OneFrame DEF WALFrames
        <3>2. file'[p] = IF isDirty[g] THEN buffer[g] ELSE file[p]
            BY <2>1, <2>2, <3>1 DEF Flushed
        <3>3. p \notin lost' => isDirty[g] \/ buffer[g] = file[p]
            BY <2>1, <2>2 DEF Unmarked
        <3>4. g \in Frames
            BY <2>2 DEF WALFrames
        <3> QED BY <2>2, <3>2, <3>3, <3>4 DEF FramesAreCurrent, DirtyInv
    <2>3. ASSUME NEW p \in Pages, \A g \in WALFrames : pageIdx[g] # p
          PROVE  file'[p] = file[p]
        BY <2>1, <2>3 DEF Flushed
    <2>4. ASSUME NEW p \in Pages PROVE file'[p][1] = p
        <3>1. file[p][1] = p
            BY DEF DiskInv
        <3>2. CASE \E g \in WALFrames : pageIdx[g] = p
            <4>1. PICK g \in WALFrames : pageIdx[g] = p
                BY <3>2
            <4>2. /\ file'[p] = IF isDirty[g] THEN buffer[g] ELSE file[p]
                  /\ isDirty[g] => buffer[g][1] = p
                BY <2>2, <4>1
            <4> QED BY <3>1, <4>2
        <3>3. CASE \A g \in WALFrames : pageIdx[g] # p
            BY <2>3, <3>1, <3>3
        <3> QED BY <3>2, <3>3
    <2>5. \A p \in Pages \ WALPages : latest'[p] > 0 /\ file'[p] = <<p, latest'[p]>>
        BY <2>1, <2>3 DEF DiskInv, WALFrames
    <2>6. ASSUME NEW p \in WALPages, latest'[p] > 0, p \notin lost'
          PROVE  file'[p] = <<p, latest'[p]>>
        <3>1. p \in Pages /\ latest[p] > 0 /\ p \notin lost
            BY <2>1, <2>6, BufferPoolAssumption
        <3>2. CASE \E g \in WALFrames : pageIdx[g] = p
            <4>1. PICK g \in WALFrames : pageIdx[g] = p
                BY <3>2
            <4> QED BY <2>1, <2>2, <2>6, <3>1, <4>1
        <3>3. CASE \A g \in WALFrames : pageIdx[g] # p
            <4>1. \A g \in Frames : pageIdx[g] # p
                BY <3>3, <2>6 DEF WALFrames
            <4> QED BY <2>1, <2>3, <2>6, <3>1, <3>3, <4>1 DEF DiskInv
        <3> QED BY <3>2, <3>3
    <2> QED BY <2>4, <2>5, <2>6 DEF DiskInv
<1>19. CASE RemoveFilePages
    <2>1. /\ \A p \in WALPages : file'[p] = <<p, 0>> /\ latest'[p] = 0
          /\ \A p \in Pages \ WALPages : file'[p] = file[p] /\ latest'[p] = latest[p]
        BY <1>19, BufferPoolAssumption DEF RemoveFilePages
    <2> QED BY <2>1 DEF DiskInv
<1>20. ASSUME NEW p \in Pages, CheckpointPage(p) PROVE DiskInv'
    <2>1. /\ p \notin WALPages
          /\ latest'[p] = latest[p] + 1
          /\ file'[p] = <<p, latest'[p]>>
          /\ \A q \in Pages : q # p => latest'[q] = latest[q] /\ file'[q] = file[q]
          /\ UNCHANGED <<pageIdx, lost>>
        BY <1>20 DEF CheckpointPage
    <2>2. latest'[p] > 0 /\ file'[p][1] = p
        BY <2>1
    <2>3. \A q \in Pages : file'[q][1] = q
        BY <2>1, <2>2 DEF DiskInv
    <2>4. \A q \in Pages \ WALPages : latest'[q] > 0 /\ file'[q] = <<q, latest'[q]>>
        BY <2>1, <2>2 DEF DiskInv
    <2>5. \A q \in WALPages : q # p /\ q \in Pages
        BY <2>1, BufferPoolAssumption
    <2>6. \A q \in WALPages : latest'[q] > 0 /\ q \notin lost' =>
              file'[q] = <<q, latest'[q]>> \/ \E f \in Frames : pageIdx'[f] = q
        BY <2>1, <2>5 DEF DiskInv
    <2> QED BY <2>3, <2>4, <2>6 DEF DiskInv
<1>21. CASE UNCHANGED vars
    BY <1>21, <1>k DEF vars, frames
<1> QED BY <1>1, <1>2, <1>3, <1>4, <1>5, <1>6, <1>7, <1>8, <1>9, <1>10, <1>11, <1>12, <1>13,
       <1>14, <1>15, <1>16, <1>17, <1>18, <1>19, <1>20, <1>21, <1>22
    DEF Next, Step

\* Pin counts stay exact.
LEMMA CountStep ==
    ASSUME TypeOK, LocksInv, MapInv, CallsInv, PinsInv, PinCountsAreExact,
           [Next]_vars, LocksWALPages, ~ClearsBesideReaders
    PROVE  PinCountsAreExact'
<1>t. /\ pc \in [Threads -> Locations] /\ page \in [Threads -> Pages \cup {NoPage}]
      /\ frameIdx \in [Threads -> Frames \cup {NoFrame}]
      /\ pageLocks \in [Pages -> Threads \cup {NoThread}]
      /\ frameLock \in [Frames -> Threads \cup {NoThread}]
      /\ pageIdx \in [Frames -> Pages \cup {NoPage}]
      /\ pageIdxToFrameMap \in [Pages -> Frames \cup {NoFrame}]
      /\ pinCount \in [Frames -> Nat \cup {Empty}]
    BY DEF TypeOK
<1>k. ASSUME UNCHANGED <<pinCount, pageIdx, pinned>>,
             \A u \in Threads : /\ pc'[u] = "swizzle" <=> pc[u] = "swizzle"
                                /\ pc[u] = "swizzle" => frameIdx'[u] = frameIdx[u]
      PROVE  PinCountsAreExact'
    <2>1. \A f \in Frames : Holders(f)' = Holders(f) /\ Arriving(f)' = Arriving(f)
        BY <1>k DEF Holders, Arriving
    <2> QED BY <1>k, <2>1 DEF PinCountsAreExact
<1> USE Nothing, <1>t DEF PinCountsAreExact, fileHandle, frames, call, caller, history, Goto, NextFrame
<1>1. ASSUME NEW t \in Threads, AcquirePageLock(t) PROVE PinCountsAreExact'
    BY <1>1, <1>k DEF AcquirePageLock
<1>2. ASSUME NEW t \in Threads, FindFrame(t) PROVE PinCountsAreExact'
    BY <1>2, <1>k DEF FindFrame
<1>3. ASSUME NEW t \in Threads, PinHit(t) PROVE PinCountsAreExact'
    <2>0. PICK f : f = frameIdx[t]
        OBVIOUS
    <2>1. page[t] \in Pages /\ f \in Frames /\ pageIdx[f] = page[t]
        BY <1>3, <2>0 DEF PinHit, LocksInv, CallsInv, MapInv
    <2>2. pinned[t][page[t]] = NoFrame /\ f = pageIdxToFrameMap[page[t]]
        BY <1>3, <2>0 DEF PinHit, CallsInv, PinsInv, HasPageLock
    <2>3. /\ \A u \in Threads, p \in Pages : pinned'[u][p] =
                 IF u = t /\ p = page[t] THEN f ELSE pinned[u][p]
          /\ \A g \in Frames : pinCount'[g] =
                 IF g = f THEN pinCount[g] + 1 ELSE pinCount[g]
          /\ \A u \in Threads : u # t => pc'[u] = pc[u] /\ frameIdx'[u] = frameIdx[u]
          /\ pc[t] # "swizzle" /\ pc'[t] # "swizzle" /\ UNCHANGED pageIdx
        BY <1>3, <2>0, <2>1, <2>2 DEF PinHit, Return, EndCall, TypeOK
    <2>4. \A g \in Frames : Arriving(g)' = Arriving(g)
        BY <2>0, <2>3 DEF Arriving
    <2>5. Holders(f)' = Holders(f) \cup {t} /\ t \notin Holders(f)
        BY <2>1, <2>2, <2>3 DEF Holders
    <2>6. \A g \in Frames : g # f /\ pageIdx[g] # NoPage => Holders(g)' = Holders(g)
        BY <2>1, <2>2, <2>3 DEF Holders
    <2>7. Cardinality(Holders(f)') = Cardinality(Holders(f)) + 1
        BY ZenonT(30), <2>5, PinsAreFinite, FS_AddElement
    <2>8. \A g \in Frames : Cardinality(Holders(g)) \in Nat /\ Cardinality(Arriving(g)) \in Nat
        BY PinsAreFinite
    <2> SUFFICES ASSUME NEW g \in Frames, pageIdx'[g] # NoPage
                 PROVE  pinCount'[g] = Cardinality(Holders(g)') + Cardinality(Arriving(g)')
        BY DEF PinCountsAreExact
    <2>a. pinCount[g] = Cardinality(Holders(g)) + Cardinality(Arriving(g))
        BY <2>3
    <2>b. CASE g = f
        BY <2>1, <2>3, <2>4, <2>6, <2>7, <2>8, <2>a, <2>b
    <2>c. CASE g # f
        BY <2>1, <2>3, <2>4, <2>6, <2>7, <2>8, <2>a, <2>c
    <2> QED BY <2>b, <2>c
<1>4. ASSUME NEW t \in Threads, Claim(t) PROVE PinCountsAreExact'
    BY <1>4, <1>k DEF Claim
<1>5. ASSUME NEW t \in Threads, ClaimThrows(t) PROVE PinCountsAreExact'
    BY <1>5, <1>k DEF ClaimThrows, EndCall
<1>6. ASSUME NEW t \in Threads, FillEmptyFrame(t) PROVE PinCountsAreExact'
    BY <1>6, <1>k DEF FillEmptyFrame
<1>7. ASSUME NEW t \in Threads, SecondChance(t) PROVE PinCountsAreExact'
    BY <1>7, <1>k DEF SecondChance
<1>8. ASSUME NEW t \in Threads, EvictLockFrame(t) PROVE PinCountsAreExact'
    BY <1>8, <1>k DEF EvictLockFrame
<1>9. ASSUME NEW t \in Threads, EvictLockPage(t) PROVE PinCountsAreExact'
    BY <1>9, <1>k DEF EvictLockPage
<1>10. ASSUME NEW t \in Threads, EvictCheck(t) PROVE PinCountsAreExact'
    BY <1>10, <1>k DEF EvictCheck
<1>11. ASSUME NEW t \in Threads, FlushAndClear(t) PROVE PinCountsAreExact'
    <2>1. /\ \A f \in Frames : f # frameIdx[t] =>
                 pageIdx'[f] = pageIdx[f] /\ pinCount'[f] = pinCount[f]
          /\ frameIdx[t] \in Frames => pageIdx'[frameIdx[t]] = NoPage
          /\ UNCHANGED <<frameIdx, pinned>>
          /\ \A u \in Threads : pc'[u] = "swizzle" <=> pc[u] = "swizzle"
        BY <1>11 DEF FlushAndClear, ResetFrames
    <2>2. \A f \in Frames : f # frameIdx[t] =>
              Holders(f)' = Holders(f) /\ Arriving(f)' = Arriving(f)
        BY <2>1 DEF Holders, Arriving
    <2> QED BY <2>1, <2>2
<1>12. ASSUME NEW t \in Threads, ReadNewPage(t) PROVE PinCountsAreExact'
    <2>0. PICK f : f = frameIdx[t]
        OBVIOUS
    <2>1. f \in Frames /\ page[t] \in Pages /\ pageIdx[f] = NoPage
        BY <1>12, <2>0 DEF ReadNewPage, LocksInv, CallsInv, HasFrameLock
    <2>2. /\ \A g \in Frames : pinCount'[g] = IF g = f THEN 1 ELSE pinCount[g]
          /\ \A g \in Frames : pageIdx'[g] = IF g = f THEN page[t] ELSE pageIdx[g]
          /\ pc[t] = "read" /\ pc' = [pc EXCEPT ![t] = "swizzle"]
          /\ UNCHANGED <<frameIdx, pinned>>
        BY <1>12, <2>0, <2>1 DEF ReadNewPage
    <2>3. \A u \in Threads : pinned[u][page[t]] # f
        BY <2>1, <2>2 DEF CallsInv, PinsInv, HasNoFrame, HasFrameLock
    <2>4. \A u \in Threads : pc[u] = "swizzle" => frameIdx[u] # f
        BY <2>1 DEF CallsInv, LocksInv
    <2>5. Holders(f)' = {} /\ Arriving(f)' = {t}
        BY <2>0, <2>1, <2>2, <2>3, <2>4 DEF Holders, Arriving
    <2>6. \A g \in Frames : g # f => Holders(g)' = Holders(g) /\ Arriving(g)' = Arriving(g)
        BY <2>0, <2>2 DEF Holders, Arriving
    <2>7. Cardinality(Holders(f)') = 0 /\ Cardinality(Arriving(f)') = 1
        BY <2>5, FS_EmptySet, FS_Singleton
    <2> QED BY <2>2, <2>6, <2>7
<1>13. ASSUME NEW t \in Threads, Swizzle(t) PROVE PinCountsAreExact'
    <2>0. PICK f : f = frameIdx[t]
        OBVIOUS
    <2>1. f \in Frames /\ page[t] \in Pages /\ pageIdx[f] = page[t]
        BY <1>13, <2>0 DEF Swizzle, LocksInv, CallsInv
    <2>2. \A u \in Threads : pinned[u][page[t]] = NoFrame
        BY <1>13, <2>1 DEF Swizzle, CallsInv, PinsInv
    <2>3. /\ \A u \in Threads, p \in Pages : pinned'[u][p] =
                 IF u = t /\ p = page[t] THEN f ELSE pinned[u][p]
          /\ \A u \in Threads : u # t => pc'[u] = pc[u] /\ frameIdx'[u] = frameIdx[u]
          /\ pc[t] = "swizzle" /\ pc'[t] = "idle" /\ UNCHANGED <<pageIdx, pinCount>>
        BY <1>13, <2>0, <2>1 DEF Swizzle, Return, EndCall, TypeOK
    <2>4. Holders(f)' = Holders(f) \cup {t} /\ t \notin Holders(f)
        BY <2>1, <2>2, <2>3 DEF Holders
    <2>5. Arriving(f)' = Arriving(f) \ {t} /\ t \in Arriving(f)
        BY <2>0, <2>3 DEF Arriving
    <2>6. ASSUME NEW g \in Frames, g # f, pageIdx[g] # NoPage
          PROVE  Holders(g)' = Holders(g) /\ Arriving(g)' = Arriving(g)
        <3>1. Holders(g)' = Holders(g)
            BY <2>1, <2>2, <2>3, <2>6 DEF Holders
        <3>2. Arriving(g)' = Arriving(g)
            BY <2>0, <2>3, <2>6 DEF Arriving
        <3> QED BY <3>1, <3>2
    <2>7. Cardinality(Holders(f)') = Cardinality(Holders(f)) + 1
        BY ZenonT(30), <2>4, PinsAreFinite, FS_AddElement
    <2>8. Cardinality(Arriving(f)') = Cardinality(Arriving(f)) - 1
        BY <2>5, PinsAreFinite, FS_RemoveElement
    <2>9. \A g \in Frames : Cardinality(Holders(g)) \in Nat /\ Cardinality(Arriving(g)) \in Nat
        BY PinsAreFinite
    <2> SUFFICES ASSUME NEW g \in Frames, pageIdx'[g] # NoPage
                 PROVE  pinCount'[g] = Cardinality(Holders(g)') + Cardinality(Arriving(g)')
        BY DEF PinCountsAreExact
    <2>a. pinCount[g] = Cardinality(Holders(g)) + Cardinality(Arriving(g))
        BY <2>3
    <2>b. CASE g = f
        BY <2>1, <2>3, <2>6, <2>7, <2>8, <2>9, <2>a, <2>b
    <2>c. CASE g # f
        BY <2>1, <2>3, <2>6, <2>7, <2>8, <2>9, <2>a, <2>c
    <2> QED BY <2>b, <2>c
<1>14. ASSUME NEW t \in Threads, SetPinnedPageDirty(t) PROVE PinCountsAreExact'
    BY <1>14, <1>k DEF SetPinnedPageDirty, EndCall
<1>15. ASSUME NEW t \in Threads, NEW p \in Pages, Pin(t, p) PROVE PinCountsAreExact'
    BY <1>15, <1>k DEF Pin
<1>22. ASSUME NEW t \in Threads, NEW p \in Pages, PinForUpdate(t, p) PROVE PinCountsAreExact'
    BY <1>22, <1>k DEF PinForUpdate
<1>16. ASSUME NEW t \in Threads, NEW p \in Pages, Write(t, p) PROVE PinCountsAreExact'
    BY <1>16, <1>k DEF Write
<1>17. ASSUME NEW t \in Threads, NEW p \in Pages, Unpin(t, p) PROVE PinCountsAreExact'
    <2>0. PICK f : f = pinned[t][p]
        OBVIOUS
    <2>1. f \in Frames /\ pageIdx[f] = p /\ pageIdxToFrameMap[p] = f
        BY <1>17, <2>0 DEF Unpin, TypeOK, PinsInv, MapInv
    <2>2. /\ \A u \in Threads, q \in Pages : pinned'[u][q] =
                 IF u = t /\ q = p THEN NoFrame ELSE pinned[u][q]
          /\ \A g \in Frames : pinCount'[g] = IF g = f THEN pinCount[g] - 1 ELSE pinCount[g]
          /\ UNCHANGED <<pageIdx, pc, frameIdx>>
        BY <1>17, <2>0, <2>1 DEF Unpin, TypeOK
    <2>3. \A g \in Frames : Arriving(g)' = Arriving(g)
        BY <2>2 DEF Arriving
    <2>4. Holders(f)' = Holders(f) \ {t} /\ t \in Holders(f)
        BY <2>0, <2>1, <2>2 DEF Holders
    <2>5. \A g \in Frames : g # f /\ pageIdx[g] # NoPage => Holders(g)' = Holders(g)
        BY <2>0, <2>1, <2>2 DEF Holders
    <2>6. Cardinality(Holders(f)') = Cardinality(Holders(f)) - 1
        BY <2>4, PinsAreFinite, FS_RemoveElement
    <2>7. \A g \in Frames : Cardinality(Holders(g)) \in Nat /\ Cardinality(Arriving(g)) \in Nat
        BY PinsAreFinite
    <2> SUFFICES ASSUME NEW g \in Frames, pageIdx'[g] # NoPage
                 PROVE  pinCount'[g] = Cardinality(Holders(g)') + Cardinality(Arriving(g)')
        BY DEF PinCountsAreExact
    <2>a. pinCount[g] = Cardinality(Holders(g)) + Cardinality(Arriving(g))
        BY <2>2
    <2>b. CASE g = f
        BY <2>1, <2>2, <2>3, <2>5, <2>6, <2>7, <2>a, <2>b
    <2>c. CASE g # f
        BY <2>1, <2>2, <2>3, <2>5, <2>6, <2>7, <2>a, <2>c
    <2> QED BY <2>b, <2>c
<1>18. CASE FlushAllDirtyPages
    <2>1. /\ \A g \in Frames : pageIdx'[g] # NoPage =>
                 pageIdx'[g] = pageIdx[g] /\ pinCount'[g] = pinCount[g]
          /\ UNCHANGED <<pinned, pc, frameIdx>>
        BY <1>18 DEF FlushAllDirtyPages, ResetFrames
    <2>2. \A g \in Frames : pageIdx'[g] # NoPage =>
              Holders(g)' = Holders(g) /\ Arriving(g)' = Arriving(g)
        BY <2>1 DEF Holders, Arriving
    <2> QED BY <2>1, <2>2 DEF PinCountsAreExact
<1>19. CASE RemoveFilePages
    <2>1. /\ \A g \in Frames : pageIdx'[g] # NoPage =>
                 pageIdx'[g] = pageIdx[g] /\ pinCount'[g] = pinCount[g]
          /\ UNCHANGED <<pinned, pc, frameIdx>>
        BY <1>19 DEF RemoveFilePages, ResetFrames
    <2>2. \A g \in Frames : pageIdx'[g] # NoPage =>
              Holders(g)' = Holders(g) /\ Arriving(g)' = Arriving(g)
        BY <2>1 DEF Holders, Arriving
    <2> QED BY <2>1, <2>2 DEF PinCountsAreExact
<1>20. ASSUME NEW p \in Pages, CheckpointPage(p) PROVE PinCountsAreExact'
    BY <1>20, <1>k DEF CheckpointPage, Quiescent
<1>21. CASE UNCHANGED vars
    BY <1>21, <1>k DEF vars
<1> QED BY <1>1, <1>2, <1>3, <1>4, <1>5, <1>6, <1>7, <1>8, <1>9, <1>10, <1>11, <1>12, <1>13,
       <1>14, <1>15, <1>16, <1>17, <1>18, <1>19, <1>20, <1>21, <1>22
    DEF Next, Step

\* The initial states satisfy the invariant.
LEMMA InitIInv == Init => IInv
<1> SUFFICES ASSUME Init PROVE IInv
    OBVIOUS
<1> USE Nothing, BufferPoolAssumption DEF Init
<1>1. TypeOK
    BY LocationNames DEF TypeOK, Empty
<1>2. LocksInv /\ CallsInv
    BY DEF LocksInv, CallsInv, HasPageLock, HasNoFrame, HasFrameLock, HasVictimLock
<1>3. MapInv
    BY DEF MapInv
<1>4. PinsInv /\ DirtyInv
    BY DEF PinsInv, DirtyInv, HasPageLock, HasNoFrame, HasFrameLock
<1>5. PinCountsAreExact /\ FramesAreCurrent
    BY DEF PinCountsAreExact, FramesAreCurrent
<1>6. DiskInv
    BY DEF DiskInv
<1> QED BY <1>1, <1>2, <1>3, <1>4, <1>5, <1>6 DEF IInv

\* The invariant is inductive.
LEMMA NextIInv == LocksWALPages /\ ~ClearsBesideReaders /\ IInv /\ [Next]_vars => IInv'
BY TypeStep, LocksStep, MapStep, CallsStep, PinsStep, DirtyStep, CountStep, DiskStep, CurrentStep
   DEF IInv

\* The invariant of a pool whose pages are all pinned under their lock.
THEOREM Invariance == ASSUME LocksWALPages, ~ClearsBesideReaders PROVE Spec => []IInv
<1>1. IInv /\ [Next]_vars => IInv'
    BY NextIInv
<1> QED BY <1>1, InitIInv, PTL DEF Spec

\* Every variable keeps its type; in particular no pin count drops below zero.
THEOREM TypeCorrect == ASSUME LocksWALPages, ~ClearsBesideReaders PROVE Spec => []TypeOK
<1>1. IInv => TypeOK
    BY DEF IInv
<1> QED BY <1>1, Invariance, PTL

\* A pinned page stays in the frame whose pointer its user holds, with the latest contents:
\* tryEvict cannot take it away, because it checks the pin count under the locks of the frame
\* and of the page.
THEOREM PinsAreSafe == ASSUME LocksWALPages, ~ClearsBesideReaders PROVE Spec => []PinnedPagesStay
<1>1. IInv => PinnedPagesStay
    <2> SUFFICES ASSUME IInv, NEW t \in Threads, NEW p \in Pages, pinned[t][p] # NoFrame
                 PROVE  /\ pageIdxToFrameMap[p] = pinned[t][p]
                        /\ pageIdx[pinned[t][p]] = p
                        /\ latest[p] > 0 => buffer[pinned[t][p]][1] = p
                        /\ latest[p] > 0 /\ p \notin lost =>
                               buffer[pinned[t][p]] = <<p, latest[p]>>
        BY DEF PinnedPagesStay
    <2>1. pageIdxToFrameMap[p] = pinned[t][p]
        BY DEF IInv, PinsInv
    <2>2. pinned[t][p] \in Frames /\ pageIdx[pinned[t][p]] = p
        BY PinnedIsCounted DEF IInv
    <2> QED BY <2>1, <2>2, Nothing DEF IInv, FramesAreCurrent
<1> QED BY <1>1, Invariance, PTL

\* The pin count of a frame is the number of pins of its page.
THEOREM ExactCounts == ASSUME LocksWALPages, ~ClearsBesideReaders PROVE Spec => []PinCountsAreExact
<1>1. IInv => PinCountsAreExact
    BY DEF IInv
<1> QED BY <1>1, Invariance, PTL

\* tryEvict's comment that no other thread can change the pin count once both locks are held is
\* right as long as every pin takes the lock of its page.
THEOREM EvictionIsExclusive ==
    ASSUME LocksWALPages, ~ClearsBesideReaders PROVE Spec => NoOtherThreadCanChangeThePinCount
<1> DEFINE Kept == \A t \in Threads : pc[t] = "flush" /\ pc'[t] = "flush" =>
                       pinCount'[frameIdx[t]] = pinCount[frameIdx[t]]
<1>1. IInv /\ [Next]_vars => [Kept]_vars
    <2> SUFFICES ASSUME IInv, [Next]_vars, NEW t \in Threads, pc[t] = "flush", pc'[t] = "flush"
                 PROVE  pinCount'[frameIdx[t]] = pinCount[frameIdx[t]]
        OBVIOUS
    <2>1. IInv'
        BY NextIInv
    <2>2. pinCount[frameIdx[t]] = 0 /\ pinCount'[frameIdx'[t]] = 0
        BY <2>1 DEF IInv, CallsInv
    <2>3. ASSUME NEW u \in Threads, Step(u) PROVE frameIdx'[t] = frameIdx[t]
        <3>1. CASE u = t
            BY <2>3, <3>1 DEF Step, AcquirePageLock, FindFrame, PinHit, Claim, ClaimThrows,
               FillEmptyFrame, SecondChance, EvictLockFrame, EvictLockPage, EvictCheck,
               FlushAndClear, ReadNewPage, Swizzle, SetPinnedPageDirty, Goto, IInv, TypeOK
        <3>2. CASE u # t
            BY <2>3, <3>2 DEF Step, AcquirePageLock, FindFrame, PinHit, Claim, ClaimThrows,
               FillEmptyFrame, SecondChance, EvictLockFrame, EvictLockPage, EvictCheck,
               FlushAndClear, ReadNewPage, Swizzle, SetPinnedPageDirty, Return, EndCall, call,
               IInv, TypeOK
        <3> QED BY <3>1, <3>2
    <2>4. ASSUME NEW u \in Threads, NEW p \in Pages,
                 Pin(u, p) \/ PinForUpdate(u, p) \/ Write(u, p) \/ Unpin(u, p)
          PROVE  frameIdx'[t] = frameIdx[t]
        BY <2>4 DEF Pin, PinForUpdate, Write, Unpin, call
    <2>5. CASE FlushAllDirtyPages \/ RemoveFilePages \/ (\E p \in Pages : CheckpointPage(p))
        BY <2>5 DEF FlushAllDirtyPages, RemoveFilePages, CheckpointPage, Quiescent
    <2>6. CASE UNCHANGED vars
        BY <2>6 DEF vars, call, frames
    <2> QED BY <2>2, <2>3, <2>4, <2>5, <2>6 DEF Next
<1> QED BY <1>1, Invariance, PTL DEF NoOtherThreadCanChangeThePinCount, Spec

\* A frame shows the latest contents of its page.
THEOREM CurrentFrames == ASSUME LocksWALPages, ~ClearsBesideReaders PROVE Spec => []FramesAreCurrent
<1>1. IInv => FramesAreCurrent
    BY DEF IInv
<1> QED BY <1>1, Invariance, PTL

\* Numbers that differ by n have the same remainder.
LEMMA SameRemainder ==
    ASSUME NEW n \in Nat \ {0}, NEW a \in Nat
    PROVE  (a + n) % n = a % n
<1>1. \A q \in Nat, r \in 0..(n - 1) : (n * q + r) % n = r
    OBVIOUS
<1> DEFINE q == a \div n
           r == a % n
<1>2. q \in Nat /\ r \in 0..(n - 1) /\ a = n * q + r
    OBVIOUS
<1> HIDE DEF q, r
<1>3. q + 1 \in Nat /\ a + n = n * (q + 1) + r
    BY <1>2
<1>4. (a + n) % n = r
    BY <1>1, <1>2, <1>3
<1> QED BY <1>4 DEF r

\* One round of the hand comes to every frame.
LEMMA RoundIsComplete ==
    ASSUME NEW l \in Nat, NEW f \in Frames
    PROVE  \E i \in numFrames..(2 * numFrames - 1) : (l + i) % numFrames = f
<1> DEFINE n == numFrames
           q == l \div n
           r == l % n
           i == IF f >= r THEN n + f - r ELSE 2 * n + f - r
<1>0. n \in Nat \ {0} /\ f \in 0..(n - 1)
    BY BufferPoolAssumption DEF Frames
<1>1. \A k \in Nat, m \in 0..(n - 1) : (n * k + m) % n = m
    BY <1>0
<1>2. q \in Nat /\ r \in 0..(n - 1) /\ l = n * q + r
    BY <1>0
<1> HIDE DEF n, q, r
<1>3. i \in n..(2 * n - 1)
    BY <1>0, <1>2
<1>4. l + i = n * (q + 1) + f \/ l + i = n * (q + 2) + f
    BY <1>0, <1>2
<1>5. q + 1 \in Nat /\ q + 2 \in Nat
    BY <1>2
<1>6. (l + i) % n = f
    BY <1>0, <1>1, <1>4, <1>5
<1> QED BY <1>3, <1>6 DEF n

\* Every lock that a call takes on a frame, or on a page in a frame, is released.
LEMMA ReleaseStep ==
    ASSUME TypeOK, LocksInv, MapInv, CallsInv, ReleaseInv,
           [Next]_vars, LocksWALPages, ~ClearsBesideReaders
    PROVE  ReleaseInv'
<1>t. /\ pc \in [Threads -> Locations] /\ page \in [Threads -> Pages \cup {NoPage}]
      /\ frameIdx \in [Threads -> Frames \cup {NoFrame}]
      /\ pageLocks \in [Pages -> Threads \cup {NoThread}]
      /\ frameLock \in [Frames -> Threads \cup {NoThread}]
      /\ pageIdx \in [Frames -> Pages \cup {NoPage}]
      /\ pageIdxToFrameMap \in [Pages -> Frames \cup {NoFrame}]
      /\ pinCount \in [Frames -> Nat \cup {Empty}]
    BY DEF TypeOK
<1> USE Nothing, <1>t DEF LocksInv, CallsInv, ReleaseInv,
        HasFrameLock, HasVictimLock, HasNoFrame, HasPageLock,
        fileHandle, frames, call, caller, history, Goto, NextFrame
<1>1. ASSUME NEW t \in Threads, AcquirePageLock(t) PROVE ReleaseInv'
    BY <1>1 DEF AcquirePageLock
<1>2. ASSUME NEW t \in Threads, FindFrame(t) PROVE ReleaseInv'
    BY <1>2 DEF FindFrame
<1>3. ASSUME NEW t \in Threads, PinHit(t) PROVE ReleaseInv'
    BY <1>3 DEF PinHit, Return, ReleasePageLock, TakesPageLock, EndCall
<1>4. ASSUME NEW t \in Threads, Claim(t) PROVE ReleaseInv'
    BY <1>4 DEF Claim
<1>5. ASSUME NEW t \in Threads, ClaimThrows(t) PROVE ReleaseInv'
    BY <1>5 DEF ClaimThrows, EndCall
<1>6. ASSUME NEW t \in Threads, FillEmptyFrame(t) PROVE ReleaseInv'
    BY <1>6 DEF FillEmptyFrame
<1>7. ASSUME NEW t \in Threads, SecondChance(t) PROVE ReleaseInv'
    BY <1>7 DEF SecondChance
<1>8. ASSUME NEW t \in Threads, EvictLockFrame(t) PROVE ReleaseInv'
    BY <1>8 DEF EvictLockFrame
<1>9. ASSUME NEW t \in Threads, EvictLockPage(t) PROVE ReleaseInv'
    <2>1. frameIdx[t] \in Frames /\ pageIdx[frameIdx[t]] \in Pages
        BY <1>9 DEF EvictLockPage
    <2>2. CASE pageLocks[pageIdx[frameIdx[t]]] = NoThread
        <3>1. \A f \in Frames : pageIdx[f] = pageIdx[frameIdx[t]] => f = frameIdx[t]
            BY <2>1, OneFrame
        <3> QED BY <1>9, <2>1, <2>2, <3>1 DEF EvictLockPage
    <2>3. CASE pageLocks[pageIdx[frameIdx[t]]] # NoThread
        BY <1>9, <2>1, <2>3 DEF EvictLockPage
    <2> QED BY <2>2, <2>3
<1>10. ASSUME NEW t \in Threads, EvictCheck(t) PROVE ReleaseInv'
    BY <1>10 DEF EvictCheck
<1>11. ASSUME NEW t \in Threads, FlushAndClear(t) PROVE ReleaseInv'
    BY <1>11 DEF FlushAndClear, Flushed, ResetFrames
<1>12. ASSUME NEW t \in Threads, ReadNewPage(t) PROVE ReleaseInv'
    BY <1>12 DEF ReadNewPage
<1>13. ASSUME NEW t \in Threads, Swizzle(t) PROVE ReleaseInv'
    BY <1>13 DEF Swizzle, Return, ReleasePageLock, TakesPageLock, EndCall
<1>14. ASSUME NEW t \in Threads, SetPinnedPageDirty(t) PROVE ReleaseInv'
    BY <1>14 DEF SetPinnedPageDirty, EndCall
<1>15. ASSUME NEW t \in Threads, NEW p \in Pages, Pin(t, p) PROVE ReleaseInv'
    BY <1>15 DEF Pin
<1>22. ASSUME NEW t \in Threads, NEW p \in Pages, PinForUpdate(t, p) PROVE ReleaseInv'
    BY <1>22 DEF PinForUpdate
<1>16. ASSUME NEW t \in Threads, NEW p \in Pages, Write(t, p) PROVE ReleaseInv'
    BY <1>16 DEF Write
<1>17. ASSUME NEW t \in Threads, NEW p \in Pages, Unpin(t, p) PROVE ReleaseInv'
    BY <1>17 DEF Unpin
<1>18. CASE FlushAllDirtyPages
    BY <1>18 DEF FlushAllDirtyPages, Flushed, ResetFrames, Quiescent, WALFrames, WithoutWALFrames
<1>19. CASE RemoveFilePages
    BY <1>19 DEF RemoveFilePages, ResetFrames, Quiescent, WALFrames, WithoutWALFrames
<1>20. ASSUME NEW p \in Pages, CheckpointPage(p) PROVE ReleaseInv'
    BY <1>20 DEF CheckpointPage, Quiescent
<1>21. CASE UNCHANGED vars
    BY <1>21 DEF vars
<1> QED BY SMTT(20), <1>1, <1>2, <1>3, <1>4, <1>5, <1>6, <1>7, <1>8, <1>9, <1>10, <1>11, <1>12,
       <1>13,
       <1>14, <1>15, <1>16, <1>17, <1>18, <1>19, <1>20, <1>21, <1>22
    DEF Next, Step

\* A search that is alone keeps its account of the frames it has passed.
LEMMA SearchStep ==
    ASSUME TypeOK, LocksInv, CallsInv, ReleaseInv, SearchInv,
           [Next]_vars, LocksWALPages, ~ClearsBesideReaders
    PROVE  SearchInv'
<1>t. /\ pc \in [Threads -> Locations] /\ page \in [Threads -> Pages \cup {NoPage}]
      /\ frameIdx \in [Threads -> Frames \cup {NoFrame}]
      /\ pageLocks \in [Pages -> Threads \cup {NoThread}]
      /\ frameLock \in [Frames -> Threads \cup {NoThread}]
      /\ pageIdx \in [Frames -> Pages \cup {NoPage}]
      /\ pageIdxToFrameMap \in [Pages -> Frames \cup {NoFrame}]
      /\ pinCount \in [Frames -> Nat \cup {Empty}]
    BY DEF TypeOK
<1> USE Nothing, BufferPoolAssumption, <1>t DEF SearchInv, Searching, Disturb, fileHandle, frames, call, caller, history, Goto, NextFrame
<1>1. ASSUME NEW t \in Threads, AcquirePageLock(t) PROVE SearchInv'
    BY <1>1 DEF AcquirePageLock
<1>2. ASSUME NEW t \in Threads, FindFrame(t) PROVE SearchInv'
    <2>1. \A u \in Threads : u # t /\ pc'[u] \in Searching => u \in disturbed'
        BY <1>2 DEF FindFrame
    <2>2. ASSUME t \notin disturbed' PROVE \A u \in Threads \ {t} : pc'[u] = "idle"
        BY <1>2, <2>2 DEF FindFrame
    <2>3. tries'[t] = 0 /\ pc'[t] \in {"hit", "claim"}
        BY <1>2 DEF FindFrame, TypeOK
    <2>4. ASSUME t \notin disturbed', pc'[t] = "claim" PROVE SearchesAlone(t)'
        BY <2>2, <2>3, <2>4 DEF SearchesAlone
    <2> QED BY <2>1, <2>3, <2>4
<1>3. ASSUME NEW t \in Threads, PinHit(t) PROVE SearchInv'
    BY <1>3 DEF PinHit, Return, ReleasePageLock, TakesPageLock, EndCall
<1>4. ASSUME NEW t \in Threads, Claim(t) PROVE SearchInv'
    <2>1. \A u \in Threads : u # t /\ pc'[u] \in Searching => u \in disturbed'
        BY <1>4 DEF Claim
    <2>2. t \in disturbed => t \in disturbed'
        BY <1>4 DEF Claim
    <2> SUFFICES ASSUME SearchesAlone(t) PROVE SearchesAlone(t)' \/ pc'[t] \notin Searching
        BY <1>4, <2>1, <2>2 DEF Claim
    <2>3. \A u \in Threads \ {t} : pc[u] = "idle" /\ pc'[u] = "idle"
        BY <1>4 DEF Claim, SearchesAlone
    <2>4. (localClockHand[t] + tries[t]) % numFrames = Position(t, tries[t])
        BY DEF Position
    <2>5. Position(t, tries[t]) \in Frames /\ tries[t] \in Nat
        BY HandIsAtAFrame DEF Position, TypeOK
    <2>6. /\ UNCHANGED <<localClockHand, pinCount, recentlyAccessed>>
          /\ \A i \in Nat : Position(t, i)' = Position(t, i)
        BY <1>4 DEF Claim, Position
    <2>7. CASE /\ pinCount[Position(t, tries[t])] = Empty
               /\ frameIdx' = [frameIdx EXCEPT ![t] = Position(t, tries[t])]
               /\ Goto(t, "fill")
               /\ UNCHANGED tries
        BY <2>3, <2>5, <2>6, <2>7 DEF SearchesAlone, Position
    <2>8. CASE /\ pinCount[Position(t, tries[t])] = 0
               /\ frameIdx' = [frameIdx EXCEPT ![t] = Position(t, tries[t])]
               /\ Goto(t, "evict")
               /\ UNCHANGED tries
        BY <2>3, <2>5, <2>6, <2>8 DEF SearchesAlone, Position
    <2>9. CASE pinCount[Position(t, tries[t])] > 0 /\ NextFrame(t) /\ UNCHANGED frameIdx
        <3>1. tries'[t] = tries[t] + 1 /\ pc'[t] = "claim"
            BY <2>9 DEF TypeOK
        <3>2. \A i \in 0..(tries'[t] - 1) : i = tries[t] \/ i \in 0..(tries[t] - 1)
            BY <2>5, <3>1
        <3>3. pinCount[Position(t, tries[t])] # Empty /\ pinCount[Position(t, tries[t])] # 0
            BY <2>9 DEF Empty
        <3> QED BY <2>3, <2>5, <2>6, <3>1, <3>2, <3>3 DEF SearchesAlone, Position
    <2> QED BY <1>4, <2>4, <2>7, <2>8, <2>9 DEF Claim
<1>5. ASSUME NEW t \in Threads, ClaimThrows(t) PROVE SearchInv'
    BY <1>5 DEF ClaimThrows, EndCall
<1>6. ASSUME NEW t \in Threads, FillEmptyFrame(t) PROVE SearchInv'
    <2>1. \A u \in Threads : u # t /\ pc'[u] \in Searching => u \in disturbed'
        BY <1>6 DEF FillEmptyFrame
    <2>2. t \in disturbed => t \in disturbed'
        BY <1>6 DEF FillEmptyFrame
    <2> SUFFICES ASSUME SearchesAlone(t) PROVE SearchesAlone(t)' \/ pc'[t] \notin Searching
        BY <1>6, <2>1, <2>2 DEF FillEmptyFrame
    <2>3. \A u \in Threads \ {t} : pc[u] = "idle" /\ pc'[u] = "idle"
        BY <1>6 DEF FillEmptyFrame, SearchesAlone
    <2>4. frameIdx[t] \in Frames /\ pinCount[frameIdx[t]] = Empty
        BY <1>6 DEF FillEmptyFrame, SearchesAlone, LocksInv
    <2>5. frameLock[frameIdx[t]] = NoThread
        BY <1>6, <2>3, <2>4 DEF FillEmptyFrame, ReleaseInv, HasFrameLock
    <2> QED BY <1>6, <2>4, <2>5 DEF FillEmptyFrame
<1>7. ASSUME NEW t \in Threads, SecondChance(t) PROVE SearchInv'
    <2>1. \A u \in Threads : u # t /\ pc'[u] \in Searching => u \in disturbed'
        BY <1>7 DEF SecondChance
    <2>2. t \in disturbed => t \in disturbed'
        BY <1>7 DEF SecondChance
    <2> SUFFICES ASSUME SearchesAlone(t) PROVE SearchesAlone(t)' \/ pc'[t] \notin Searching
        BY <1>7, <2>1, <2>2 DEF SecondChance
    <2>3. \A u \in Threads \ {t} : pc[u] = "idle" /\ pc'[u] = "idle"
        BY <1>7 DEF SecondChance, SearchesAlone
    <2> DEFINE f == frameIdx[t]
    <2>4. f \in Frames /\ f = Position(t, tries[t]) /\ pinCount[f] = 0
        BY <1>7 DEF SecondChance, SearchesAlone, LocksInv
    <2>5. CASE recentlyAccessed[f]
        <3>1. tries[t] < numFrames
            <4> SUFFICES ASSUME tries[t] >= numFrames PROVE FALSE
                BY DEF TypeOK
            <4> DEFINE i == tries[t] - numFrames
            <4>1. i \in 0..(tries[t] - 1) /\ localClockHand[t] + i \in Nat
                BY DEF TypeOK
            <4>2. localClockHand[t] + tries[t] = (localClockHand[t] + i) + numFrames
                BY DEF TypeOK
            <4>3. Position(t, i) = f
                BY <2>4, <4>1, <4>2, SameRemainder DEF Position
            <4> QED BY <2>4, <2>5, <4>1, <4>3 DEF SearchesAlone
        <3>2. /\ UNCHANGED <<localClockHand, frameIdx, pinCount>>
              /\ recentlyAccessed' = [recentlyAccessed EXCEPT ![f] = FALSE]
              /\ tries'[t] = tries[t] + 1 /\ pc'[t] = "claim"
            BY <1>7, <2>5 DEF SecondChance, TypeOK
        <3>3. \A i \in 0..(tries'[t] - 1) : i = tries[t] \/ i \in 0..(tries[t] - 1)
            <4>1. tries[t] \in Nat
                BY DEF TypeOK
            <4> QED BY SMTT(20), <3>2, <4>1
        <3>4. \A g \in Frames : recentlyAccessed'[g] => recentlyAccessed[g] /\ g # f
            BY <2>4, <3>2 DEF TypeOK
        <3>5. \A i \in Nat : Position(t, i)' = Position(t, i) /\ Position(t, i) \in Frames
            BY <3>2, HandIsAtAFrame DEF Position, TypeOK
        <3> HIDE DEF f
        <3>6. ASSUME NEW i \in 0..(tries'[t] - 1)
              PROVE  /\ pinCount[Position(t, i)] # Empty
                     /\ pinCount[Position(t, i)] = 0 =>
                            i < numFrames /\ ~recentlyAccessed'[Position(t, i)]
            <4>1. i \in Nat
                BY <3>2 DEF TypeOK
            <4>2. CASE i = tries[t]
                BY <2>4, <3>1, <3>4, <4>2
            <4>3. CASE i \in 0..(tries[t] - 1)
                BY <3>4, <3>5, <4>1, <4>3 DEF SearchesAlone
            <4> QED BY <3>3, <4>2, <4>3
        <3> QED BY <2>3, <3>2, <3>6 DEF SearchesAlone, Position
    <2>6. CASE ~recentlyAccessed[f]
        <3>1. /\ UNCHANGED <<localClockHand, tries, frameIdx, pinCount, recentlyAccessed>>
              /\ pc'[t] = "evict_lock"
            BY <1>7, <2>6 DEF SecondChance
        <3> QED BY <2>3, <2>4, <3>1 DEF SearchesAlone, Position
    <2> QED BY <2>5, <2>6
<1>8. ASSUME NEW t \in Threads, EvictLockFrame(t) PROVE SearchInv'
    <2>1. \A u \in Threads : u # t /\ pc'[u] \in Searching => u \in disturbed'
        BY <1>8 DEF EvictLockFrame
    <2>2. t \in disturbed => t \in disturbed'
        BY <1>8 DEF EvictLockFrame
    <2> SUFFICES ASSUME SearchesAlone(t) PROVE SearchesAlone(t)' \/ pc'[t] \notin Searching
        BY <1>8, <2>1, <2>2 DEF EvictLockFrame
    <2>3. \A u \in Threads \ {t} : pc[u] = "idle" /\ pc'[u] = "idle"
        BY <1>8 DEF EvictLockFrame, SearchesAlone
    <2>4. frameIdx[t] \in Frames
        BY <1>8 DEF EvictLockFrame, LocksInv
    <2>5. frameLock[frameIdx[t]] = NoThread
        BY <1>8, <2>3, <2>4 DEF EvictLockFrame, ReleaseInv, HasFrameLock
    <2>6. /\ UNCHANGED <<localClockHand, tries, frameIdx, pinCount, recentlyAccessed>>
          /\ pc[t] = "evict_lock" /\ pc'[t] = "evict_page"
        BY <1>8, <2>5 DEF EvictLockFrame
    <2> QED BY <2>3, <2>6 DEF SearchesAlone, Position
<1>9. ASSUME NEW t \in Threads, EvictLockPage(t) PROVE SearchInv'
    <2>1. \A u \in Threads : u # t /\ pc'[u] \in Searching => u \in disturbed'
        BY <1>9 DEF EvictLockPage
    <2>2. t \in disturbed => t \in disturbed'
        BY <1>9 DEF EvictLockPage
    <2> SUFFICES ASSUME SearchesAlone(t) PROVE SearchesAlone(t)' \/ pc'[t] \notin Searching
        BY <1>9, <2>1, <2>2 DEF EvictLockPage
    <2>3. \A u \in Threads \ {t} : pc[u] = "idle" /\ pc'[u] = "idle"
        BY <1>9 DEF EvictLockPage, SearchesAlone
    <2>4. frameIdx[t] \in Frames /\ pageIdx[frameIdx[t]] \in Pages /\ pageIdx[frameIdx[t]] # page[t]
        BY <1>9 DEF EvictLockPage, LocksInv, CallsInv, HasFrameLock, HasNoFrame
    <2>5. pageLocks[pageIdx[frameIdx[t]]] = NoThread
        <3> DEFINE u == pageLocks[pageIdx[frameIdx[t]]]
        <3>1. SUFFICES ASSUME u # NoThread PROVE FALSE
            OBVIOUS
        <3>2. u \in Threads /\ pc[u] # "idle"
            BY <2>4, <3>1 DEF ReleaseInv, HasPageLock, HasNoFrame, HasFrameLock, HasVictimLock
        <3>3. u = t
            BY <2>3, <3>2
        <3> QED BY <1>9, <2>4, <3>1, <3>3 DEF EvictLockPage, ReleaseInv, HasVictimLock
    <2>6. /\ UNCHANGED <<localClockHand, tries, frameIdx, pinCount, recentlyAccessed>>
          /\ pc[t] = "evict_page" /\ pc'[t] = "evict_check"
        BY <1>9, <2>5 DEF EvictLockPage
    <2> QED BY <2>3, <2>6 DEF SearchesAlone, Position
<1>10. ASSUME NEW t \in Threads, EvictCheck(t) PROVE SearchInv'
    <2>1. \A u \in Threads : u # t /\ pc'[u] \in Searching => u \in disturbed'
        BY <1>10 DEF EvictCheck
    <2>2. t \in disturbed => t \in disturbed'
        BY <1>10 DEF EvictCheck
    <2> SUFFICES ASSUME SearchesAlone(t) PROVE SearchesAlone(t)' \/ pc'[t] \notin Searching
        BY <1>10, <2>1, <2>2 DEF EvictCheck
    <2>3. \A u \in Threads \ {t} : pc[u] = "idle" /\ pc'[u] = "idle"
        BY <1>10 DEF EvictCheck, SearchesAlone
    <2> QED BY <1>10 DEF EvictCheck, SearchesAlone
<1>11. ASSUME NEW t \in Threads, FlushAndClear(t) PROVE SearchInv'
    BY <1>11 DEF FlushAndClear, Flushed, ResetFrames
<1>12. ASSUME NEW t \in Threads, ReadNewPage(t) PROVE SearchInv'
    BY <1>12 DEF ReadNewPage
<1>13. ASSUME NEW t \in Threads, Swizzle(t) PROVE SearchInv'
    BY <1>13 DEF Swizzle, Return, ReleasePageLock, TakesPageLock, EndCall
<1>14. ASSUME NEW t \in Threads, SetPinnedPageDirty(t) PROVE SearchInv'
    BY <1>14 DEF SetPinnedPageDirty, EndCall
<1>15. ASSUME NEW t \in Threads, NEW p \in Pages, Pin(t, p) PROVE SearchInv'
    BY <1>15 DEF Pin
<1>22. ASSUME NEW t \in Threads, NEW p \in Pages, PinForUpdate(t, p) PROVE SearchInv'
    BY <1>22 DEF PinForUpdate
<1>16. ASSUME NEW t \in Threads, NEW p \in Pages, Write(t, p) PROVE SearchInv'
    BY <1>16 DEF Write
<1>17. ASSUME NEW t \in Threads, NEW p \in Pages, Unpin(t, p) PROVE SearchInv'
    BY <1>17 DEF Unpin
<1>18. CASE FlushAllDirtyPages
    BY <1>18 DEF FlushAllDirtyPages, Flushed, ResetFrames, Quiescent, WALFrames, WithoutWALFrames
<1>19. CASE RemoveFilePages
    BY <1>19 DEF RemoveFilePages, ResetFrames, Quiescent, WALFrames, WithoutWALFrames
<1>20. ASSUME NEW p \in Pages, CheckpointPage(p) PROVE SearchInv'
    BY <1>20 DEF CheckpointPage, Quiescent
<1>21. CASE UNCHANGED vars
    BY <1>21 DEF vars, SearchesAlone, Position
<1> QED BY <1>1, <1>2, <1>3, <1>4, <1>5, <1>6, <1>7, <1>8, <1>9, <1>10, <1>11, <1>12, <1>13,
       <1>14, <1>15, <1>16, <1>17, <1>18, <1>19, <1>20, <1>21, <1>22
    DEF Next, Step

\* A search that no other call overlaps throws only when every frame is pinned: two rounds of
\* the hand are enough to take the second chance from every page and then to evict one.
THEOREM NoSpuriousThrow == ASSUME LocksWALPages, ~ClearsBesideReaders PROVE Spec => []ThrowsOnlyWhenPinned
<1> DEFINE Inv == IInv /\ ReleaseInv /\ SearchInv
<1>1. Init => Inv
    <2> SUFFICES ASSUME Init PROVE ReleaseInv /\ SearchInv
        BY InitIInv
    <2> QED BY Nothing DEF Init, ReleaseInv, SearchInv, Searching
<1>2. Inv /\ [Next]_vars => Inv'
    BY NextIInv, ReleaseStep, SearchStep DEF IInv
<1>3. Inv => ThrowsOnlyWhenPinned
    <2> SUFFICES ASSUME Inv, NEW t \in Threads, pc[t] = "claim", tries[t] = MaxTries,
                        t \notin disturbed, NEW f \in Frames
                 PROVE  pinCount[f] > 0
        BY DEF ThrowsOnlyWhenPinned
    <2>1. localClockHand[t] \in Nat /\ pinCount[f] \in Nat \cup {Empty}
        BY DEF IInv, TypeOK
    <2>2. PICK i \in numFrames..(2 * numFrames - 1) : Position(t, i) = f
        BY <2>1, RoundIsComplete DEF Position
    <2>3. i \in 0..(tries[t] - 1) /\ ~(i < numFrames)
        BY BufferPoolAssumption DEF MaxTries
    <2>4. SearchesAlone(t)
        BY DEF SearchInv, Searching
    <2>5. pinCount[f] # Empty /\ pinCount[f] # 0
        BY <2>2, <2>3, <2>4 DEF SearchesAlone
    <2> QED BY <2>1, <2>5
<1> QED BY <1>1, <1>2, <1>3, PTL DEF Spec

============================================================================
