----------------------------- MODULE BufferPool -----------------------------
(***************************************************************************)
(* The buffer pool: threads pin, write and unpin pages of a file, which    *)
(* the pool keeps in frames and replaces with the CLOCK policy.            *)
(*                                                                         *)
(* A page and a frame each have a spin lock.  A pin holds the lock of its  *)
(* page from its first to its last step; an eviction tries the lock of the *)
(* frame and then that of the page in it, and goes to the next frame when  *)
(* it fails.  Sections that a thread runs under the lock of a page without *)
(* touching another page are one step.                                     *)
(*                                                                         *)
(* The pages are those of the database files, which are only read in       *)
(* frames (a checkpoint writes them to their file), and those of the WAL,  *)
(* which the write transaction adds and writes in frames.  An update of a  *)
(* WAL page holds the lock of the original page from pin to unpin and pins *)
(* the WAL page without its own lock; only the update that adds the page   *)
(* marks its frame dirty.                                                  *)
(*                                                                         *)
(* The contents of page p after n writes are <<p, n>>; a page with no      *)
(* write is new: it is pinned without being read from the file.            *)
(***************************************************************************)
EXTENDS Integers, FiniteSets

CONSTANTS
    Threads,
    Pages,
    numFrames,
    WALPages,           \* the pages of the WAL file
    LocksWALPages,      \* an update pins its WAL page under the lock of that page: FALSE is
                        \* the code (pinWithoutAcquiringPageLock)
    ClearsBesideReaders,    \* the WAL may be cleared while readers run: TRUE is the code
                        \* (a rollback)
    MaxPins,            \* bound on calls to pin
    MaxWrites,          \* bound on writes to pages
    NoThread, NoPage

ASSUME BufferPoolAssumption ==
    /\ numFrames \in Nat \ {0}
    /\ WALPages \subseteq Pages
    /\ LocksWALPages \in BOOLEAN
    /\ ClearsBesideReaders \in BOOLEAN
    /\ MaxPins \in Nat
    /\ MaxWrites \in Nat
    /\ NoThread \notin Threads
    /\ NoPage \notin Pages

\* The pool is used by the worker threads and the connections of a process.
ASSUME FinitelyManyThreads == IsFiniteSet(Threads)

Frames == 0..(numFrames - 1)
NoFrame == numFrames        \* UINT32_MAX of pageIdxToFrameMap
Empty == -1                 \* -1u of pinCount: the frame has no page

VARIABLES
    pageLocks, pageIdxToFrameMap,                   \* of the file handle, per page
    pinCount, pageIdx, recentlyAccessed, isDirty, buffer, frameLock,    \* per frame
    clockHand,
    file,                                           \* the contents of the pages on disk
    pc, page, frameIdx, localClockHand, tries,      \* per thread: the call it executes
    pinned,                                         \* per thread: the frame of each pinned page
    originalLocks,                                  \* per WAL page: the lock of its original page
    latest, numWrites, numPins,     \* history: writes per page, writes, calls to pin
    lost,           \* history: pages with a write that left its frame without being written
    hasThrown,      \* history: a pin has found no frame
    disturbed       \* history: threads whose search for a frame overlapped a call of another

fileHandle == <<pageLocks, pageIdxToFrameMap>>
frames == <<pinCount, pageIdx, recentlyAccessed, isDirty, buffer, frameLock>>
call == <<page, frameIdx, localClockHand, tries>>
caller == <<pinned, originalLocks>>
history == <<latest, numWrites, numPins, lost, hasThrown>>
vars == <<fileHandle, frames, clockHand, file, pc, call, caller, history, disturbed>>

Searching == {"claim", "fill", "evict", "evict_lock", "evict_page", "evict_check"}

Init ==
    /\ pageLocks = [p \in Pages |-> NoThread]
    /\ pageIdxToFrameMap = [p \in Pages |-> NoFrame]
    /\ pinCount = [f \in Frames |-> Empty]
    /\ pageIdx = [f \in Frames |-> NoPage]
    /\ recentlyAccessed = [f \in Frames |-> FALSE]
    /\ isDirty = [f \in Frames |-> FALSE]
    /\ buffer = [f \in Frames |-> <<NoPage, 0>>]
    /\ frameLock = [f \in Frames |-> NoThread]
    /\ clockHand = 0
    /\ latest = [p \in Pages |-> IF p \in WALPages THEN 0 ELSE 1]
    /\ file = [p \in Pages |-> <<p, latest[p]>>]
    /\ pc = [t \in Threads |-> "idle"]
    /\ page = [t \in Threads |-> NoPage]
    /\ frameIdx = [t \in Threads |-> NoFrame]
    /\ localClockHand = [t \in Threads |-> 0]
    /\ tries = [t \in Threads |-> 0]
    /\ pinned = [t \in Threads |-> [p \in Pages |-> NoFrame]]
    /\ originalLocks = [p \in Pages |-> NoThread]
    /\ numWrites = 0
    /\ numPins = 0
    /\ lost = {}
    /\ hasThrown = FALSE
    /\ disturbed = {}

Goto(t, location) == pc' = [pc EXCEPT ![t] = location]

\* A step of t is seen by the threads that search for a frame.
Disturb(t) == disturbed' = disturbed \cup {u \in Threads \ {t} : pc[u] \in Searching}

-----------------------------------------------------------------------------
(* pin                                                                      *)

\* pin, of a page that exists: a page of a database file, or a page of the WAL that the write
\* transaction reads.
Pin(t, p) ==
    /\ pc[t] = "idle"
    /\ pinned[t][p] = NoFrame
    /\ latest[p] > 0
    /\ numPins < MaxPins
    /\ numPins' = numPins + 1
    /\ page' = [page EXCEPT ![t] = p]
    /\ Goto(t, "lock")
    /\ Disturb(t)
    /\ UNCHANGED <<fileHandle, frames, clockHand, file, frameIdx, localClockHand, tries, caller,
                   latest, numWrites, lost, hasThrown>>

\* createWALVersionIfNecessaryAndPinPage: the lock of the original page is taken and the page
\* of the WAL, which is new if no update has written it, is pinned without its own lock.
PinForUpdate(t, p) ==
    /\ pc[t] = "idle"
    /\ p \in WALPages
    /\ pinned[t][p] = NoFrame
    /\ originalLocks[p] = NoThread
    /\ originalLocks' = [originalLocks EXCEPT ![p] = t]
    /\ numPins < MaxPins
    /\ numPins' = numPins + 1
    /\ page' = [page EXCEPT ![t] = p]
    /\ Goto(t, IF LocksWALPages THEN "lock" ELSE "pin")
    /\ Disturb(t)
    /\ UNCHANGED <<fileHandle, frames, clockHand, file, frameIdx, localClockHand, tries, pinned,
                   latest, numWrites, lost, hasThrown>>

AcquirePageLock(t) ==
    /\ pc[t] = "lock"
    /\ pageLocks[page[t]] = NoThread
    /\ pageLocks' = [pageLocks EXCEPT ![page[t]] = t]
    /\ Goto(t, "pin")
    /\ Disturb(t)
    /\ UNCHANGED <<pageIdxToFrameMap, frames, clockHand, file, call, caller, history>>

\* t uses p under the lock of p.
TakesPageLock(t, p) == LocksWALPages \/ originalLocks[p] # t

ReleasePageLock(t) ==
    pageLocks' = IF TakesPageLock(t, page[t])
                 THEN [pageLocks EXCEPT ![page[t]] = NoThread] ELSE pageLocks

\* pinWithoutAcquiringPageLock: the page is in a frame, or a frame is claimed for it.
FindFrame(t) ==
    /\ pc[t] = "pin"
    /\ frameIdx' = [frameIdx EXCEPT ![t] = pageIdxToFrameMap[page[t]]]
    /\ Goto(t, IF frameIdx'[t] # NoFrame THEN "hit" ELSE "claim")
    /\ localClockHand' = [localClockHand EXCEPT ![t] = clockHand]
    /\ tries' = [tries EXCEPT ![t] = 0]
    /\ disturbed' = {u \in Threads \ {t} : pc[u] \in Searching \/ u \in disturbed}
                        \cup {u \in {t} : \E v \in Threads \ {t} : pc[v] # "idle"}
    /\ UNCHANGED <<fileHandle, frames, clockHand, file, page, caller, history>>

\* The locals of a call end with it.
EndCall(t) ==
    /\ Goto(t, "idle")
    /\ page' = [page EXCEPT ![t] = NoPage]
    /\ frameIdx' = [frameIdx EXCEPT ![t] = NoFrame]
    /\ localClockHand' = [localClockHand EXCEPT ![t] = 0]
    /\ tries' = [tries EXCEPT ![t] = 0]
    /\ disturbed' = (disturbed \cup {u \in Threads : pc[u] \in Searching}) \ {t}

Return(t, frame) ==
    /\ ReleasePageLock(t)
    /\ pinned' = [pinned EXCEPT ![t][page[t]] = frame]
    /\ UNCHANGED originalLocks
    /\ EndCall(t)

\* Mutant: the pin of a page that is in a frame is not counted.
PinHit_NotCounted(t) ==
    /\ pc[t] = "hit"
    /\ recentlyAccessed' = [recentlyAccessed EXCEPT ![frameIdx[t]] = TRUE]
    /\ Return(t, pageIdxToFrameMap[page[t]])
    /\ UNCHANGED <<pageIdxToFrameMap, pinCount, pageIdx, isDirty, buffer, frameLock, clockHand,
                   file, history>>

\* Mutant: the pin of a page that is in a frame returns with the lock of the page.
PinHit_KeepsPageLock(t) ==
    /\ pc[t] = "hit"
    /\ pinCount' = [pinCount EXCEPT ![frameIdx[t]] = @ + 1]
    /\ recentlyAccessed' = [recentlyAccessed EXCEPT ![frameIdx[t]] = TRUE]
    /\ pinned' = [pinned EXCEPT ![t][page[t]] = pageIdxToFrameMap[page[t]]]
    /\ EndCall(t)
    /\ UNCHANGED <<fileHandle, pageIdx, isDirty, buffer, frameLock, clockHand, file,
                   originalLocks, history>>

\* The frame is looked up again for the pointer that is returned.
PinHit(t) ==
    /\ pc[t] = "hit"
    /\ pinCount' = [pinCount EXCEPT ![frameIdx[t]] = @ + 1]
    /\ recentlyAccessed' = [recentlyAccessed EXCEPT ![frameIdx[t]] = TRUE]
    /\ Return(t, pageIdxToFrameMap[page[t]])
    /\ UNCHANGED <<pageIdxToFrameMap, pageIdx, isDirty, buffer, frameLock, clockHand, file,
                   history>>

-----------------------------------------------------------------------------
(* claimAFrame                                                              *)

NextFrame(t) ==
    /\ tries' = [tries EXCEPT ![t] = @ + 1]
    /\ Goto(t, "claim")

\* Mutant: the hand goes round once.
MaxTries_OneRound == numFrames

MaxTries == 2 * numFrames

Claim(t) ==
    LET f == (localClockHand[t] + tries[t]) % numFrames
    IN  /\ pc[t] = "claim"
        /\ tries[t] < MaxTries
        /\ \/ /\ pinCount[f] = Empty
              /\ frameIdx' = [frameIdx EXCEPT ![t] = f]
              /\ Goto(t, "fill")
              /\ UNCHANGED tries
           \/ /\ pinCount[f] = 0
              /\ frameIdx' = [frameIdx EXCEPT ![t] = f]
              /\ Goto(t, "evict")
              /\ UNCHANGED tries
           \/ /\ pinCount[f] > 0
              /\ NextFrame(t)
              /\ UNCHANGED frameIdx
        /\ Disturb(t)
        /\ UNCHANGED <<fileHandle, frames, clockHand, file, page, localClockHand, caller, history>>

\* "Cannot find a frame to evict from.": the exception leaves the lock of the page taken.
ClaimThrows(t) ==
    /\ pc[t] = "claim"
    /\ tries[t] >= MaxTries
    /\ hasThrown' = TRUE
    /\ EndCall(t)
    /\ UNCHANGED <<fileHandle, frames, clockHand, file, caller, latest, numWrites, numPins, lost>>

\* fillEmptyFrame
FillEmptyFrame(t) ==
    /\ pc[t] = "fill"
    /\ IF frameLock[frameIdx[t]] = NoThread /\ pinCount[frameIdx[t]] = Empty
       THEN /\ frameLock' = [frameLock EXCEPT ![frameIdx[t]] = t]
            /\ Goto(t, "read")
            /\ UNCHANGED tries
       ELSE NextFrame(t) /\ UNCHANGED frameLock
    /\ Disturb(t)
    /\ UNCHANGED <<fileHandle, pinCount, pageIdx, recentlyAccessed, isDirty, buffer, clockHand,
                   file, page, frameIdx, localClockHand, caller, history>>

\* tryEvict: a recently accessed page gets a second chance.
SecondChance(t) ==
    /\ pc[t] = "evict"
    /\ IF recentlyAccessed[frameIdx[t]]
       THEN /\ recentlyAccessed' = [recentlyAccessed EXCEPT ![frameIdx[t]] = FALSE]
            /\ NextFrame(t)
       ELSE /\ Goto(t, "evict_lock")
            /\ UNCHANGED <<recentlyAccessed, tries>>
    /\ Disturb(t)
    /\ UNCHANGED <<fileHandle, pinCount, pageIdx, isDirty, buffer, frameLock, clockHand, file,
                   page, frameIdx, localClockHand, caller, history>>

EvictLockFrame(t) ==
    /\ pc[t] = "evict_lock"
    /\ IF frameLock[frameIdx[t]] = NoThread
       THEN /\ frameLock' = [frameLock EXCEPT ![frameIdx[t]] = t]
            /\ Goto(t, "evict_page")
            /\ UNCHANGED tries
       ELSE NextFrame(t) /\ UNCHANGED frameLock
    /\ Disturb(t)
    /\ UNCHANGED <<fileHandle, pinCount, pageIdx, recentlyAccessed, isDirty, buffer, clockHand,
                   file, page, frameIdx, localClockHand, caller, history>>

EvictLockPage(t) ==
    LET f == frameIdx[t]
    IN  /\ pc[t] = "evict_page"
        /\ IF pageLocks[pageIdx[f]] = NoThread
           THEN /\ pageLocks' = [pageLocks EXCEPT ![pageIdx[f]] = t]
                /\ Goto(t, "evict_check")
                /\ UNCHANGED <<frameLock, tries>>
           ELSE /\ frameLock' = [frameLock EXCEPT ![f] = NoThread]
                /\ NextFrame(t)
                /\ UNCHANGED pageLocks
        /\ Disturb(t)
        /\ UNCHANGED <<pageIdxToFrameMap, pinCount, pageIdx, recentlyAccessed, isDirty, buffer,
                       clockHand, file, page, frameIdx, localClockHand, caller, history>>

\* Mutant: the pin count is not checked again under the locks.
EvictCheck_Skipped(t) ==
    /\ pc[t] = "evict_check"
    /\ Goto(t, "flush")
    /\ Disturb(t)
    /\ UNCHANGED <<fileHandle, frames, clockHand, file, call, caller, history>>

EvictCheck(t) ==
    LET f == frameIdx[t]
    IN  /\ pc[t] = "evict_check"
        /\ IF pinCount[f] = 0
           THEN /\ Goto(t, "flush")
                /\ UNCHANGED <<pageLocks, frameLock, tries>>
           ELSE /\ pageLocks' = [pageLocks EXCEPT ![pageIdx[f]] = NoThread]
                /\ frameLock' = [frameLock EXCEPT ![f] = NoThread]
                /\ NextFrame(t)
        /\ Disturb(t)
        /\ UNCHANGED <<pageIdxToFrameMap, pinCount, pageIdx, recentlyAccessed, isDirty, buffer,
                       clockHand, file, page, frameIdx, localClockHand, caller, history>>

\* The file once the dirty frames of a set have been written.
Flushed(fs) ==
    [p \in Pages |-> IF \E f \in fs : pageIdx[f] = p /\ isDirty[f]
                     THEN buffer[CHOOSE f \in fs : pageIdx[f] = p /\ isDirty[f]]
                     ELSE file[p]]

\* Frame::resetFrameWithoutLock for a set of frames.
ResetFrames(fs) ==
    /\ pinCount' = [f \in Frames |-> IF f \in fs THEN Empty ELSE pinCount[f]]
    /\ pageIdx' = [f \in Frames |-> IF f \in fs THEN NoPage ELSE pageIdx[f]]
    /\ recentlyAccessed' = [f \in Frames |-> f \notin fs /\ recentlyAccessed[f]]
    /\ isDirty' = [f \in Frames |-> f \notin fs /\ isDirty[f]]

\* The pages of a set of frames that were written and not marked, nor are on disk.
Unmarked(fs) ==
    {p \in Pages : \E f \in fs : pageIdx[f] = p /\ ~isDirty[f] /\ buffer[f] # file[p]}

\* flushIfDirty, clearFrameAndUnswizzleWithoutLock and the release of the page.
FlushAndClear(t) ==
    LET f == frameIdx[t]
    IN  /\ pc[t] = "flush"
        /\ file' = Flushed({f})
        /\ ResetFrames({f})
        /\ pageIdxToFrameMap' = [pageIdxToFrameMap EXCEPT ![pageIdx[f]] = NoFrame]
        /\ pageLocks' = [pageLocks EXCEPT ![pageIdx[f]] = NoThread]
        /\ lost' = lost \cup Unmarked({f})
        /\ Goto(t, "read")
        /\ Disturb(t)
        /\ UNCHANGED <<buffer, frameLock, clockHand, call, caller, latest, numWrites, numPins,
                       hasThrown>>

\* readNewPageIntoFrame; a new page is not read and the buffer keeps what it held.
ReadNewPage(t) ==
    LET f == frameIdx[t]
    IN  /\ pc[t] = "read"
        /\ pinCount' = [pinCount EXCEPT ![f] = 1]
        /\ recentlyAccessed' = [recentlyAccessed EXCEPT ![f] = TRUE]
        /\ isDirty' = [isDirty EXCEPT ![f] = FALSE]
        /\ pageIdx' = [pageIdx EXCEPT ![f] = page[t]]
        /\ buffer' = IF latest[page[t]] = 0
                     THEN buffer ELSE [buffer EXCEPT ![f] = file[page[t]]]
        /\ frameLock' = [frameLock EXCEPT ![f] = NoThread]
        /\ Goto(t, "swizzle")
        /\ Disturb(t)
        /\ UNCHANGED <<fileHandle, clockHand, file, call, caller, history>>

\* moveClockHand never moves it back; the frame is entered in the map and the pin returns.
Swizzle(t) ==
    LET hand == localClockHand[t] + tries[t] + 1
    IN  /\ pc[t] = "swizzle"
        /\ clockHand' = IF clockHand > hand THEN clockHand ELSE hand
        /\ pageIdxToFrameMap' = [pageIdxToFrameMap EXCEPT ![page[t]] = frameIdx[t]]
        /\ Return(t, frameIdx[t])
        /\ UNCHANGED <<frames, file, history>>

-----------------------------------------------------------------------------
(* The caller's use of a pinned page.                                       *)

\* An update writes through the pointer that pin returned.  The first one, which has copied
\* the original page, marks the frame next; a later one does not mark it again.
Write(t, p) ==
    /\ pc[t] = "idle"
    /\ pinned[t][p] # NoFrame
    /\ originalLocks[p] = t
    /\ numWrites < MaxWrites
    /\ numWrites' = numWrites + 1
    /\ latest' = [latest EXCEPT ![p] = @ + 1]
    /\ buffer' = [buffer EXCEPT ![pinned[t][p]] = <<p, latest'[p]>>]
    /\ page' = [page EXCEPT ![t] = IF latest[p] = 0 THEN p ELSE @]
    /\ Goto(t, IF latest[p] = 0 THEN "set_dirty" ELSE "idle")
    /\ Disturb(t)
    /\ UNCHANGED <<fileHandle, pinCount, pageIdx, recentlyAccessed, isDirty, frameLock, clockHand,
                   file, frameIdx, localClockHand, tries, caller, numPins, lost, hasThrown>>

\* setPinnedPageDirty, under the lock of the page.  It would throw for a page that is not
\* pinned; that a page the caller pinned is so is PinnedPagesStay.
SetPinnedPageDirty(t) ==
    /\ pc[t] = "set_dirty"
    /\ pageLocks[page[t]] = NoThread
    /\ pageIdxToFrameMap[page[t]] # NoFrame
    /\ isDirty' = [isDirty EXCEPT ![pageIdxToFrameMap[page[t]]] = TRUE]
    /\ EndCall(t)
    /\ UNCHANGED <<fileHandle, pinCount, pageIdx, recentlyAccessed, buffer, frameLock, clockHand,
                   file, caller, history>>

\* unpin, or unpinWithoutAcquiringPageLock and the release of the lock of the original page.
Unpin(t, p) ==
    /\ pc[t] = "idle"
    /\ pinned[t][p] # NoFrame
    /\ latest[p] > 0
    /\ TakesPageLock(t, p) => pageLocks[p] = NoThread
    /\ pageIdxToFrameMap[p] # NoFrame
    /\ pinCount' = [pinCount EXCEPT ![pageIdxToFrameMap[p]] = @ - 1]
    /\ pinned' = [pinned EXCEPT ![t][p] = NoFrame]
    /\ originalLocks' = [originalLocks EXCEPT ![p] = IF @ = t THEN NoThread ELSE @]
    /\ Disturb(t)
    /\ UNCHANGED <<fileHandle, pageIdx, recentlyAccessed, isDirty, buffer, frameLock, clockHand,
                   file, pc, call, history>>

-----------------------------------------------------------------------------
(* What the end of a write transaction does to the pages of the WAL and of  *)
(* the database files.  A commit has the readers wait from the flush of the *)
(* WAL to the end of its checkpoint; a rollback runs beside them.           *)

Quiescent == \A t \in Threads : pc[t] = "idle" /\ \A p \in Pages : pinned[t][p] = NoFrame
Unlocked == \A p \in Pages : pageLocks[p] = NoThread
WALFrames == {f \in Frames : pageIdx[f] \in WALPages}
WithoutWALFrames == [p \in Pages |-> IF p \in WALPages THEN NoFrame ELSE pageIdxToFrameMap[p]]

\* flushAllDirtyPagesInFrames: every page of the WAL is written if dirty and leaves its frame.
FlushAllDirtyPages ==
    /\ Quiescent /\ Unlocked
    /\ WALFrames # {}
    /\ file' = Flushed(WALFrames)
    /\ ResetFrames(WALFrames)
    /\ pageIdxToFrameMap' = WithoutWALFrames
    /\ lost' = lost \cup Unmarked(WALFrames)
    /\ UNCHANGED <<pageLocks, buffer, frameLock, clockHand, pc, call, caller, latest, numWrites,
                   numPins, hasThrown, disturbed>>

\* removeFilePagesFromFrames of WAL::clearWAL, before the file is truncated: the pages of the
\* WAL are new again.  The transaction that used them has ended; removePageFromFrame waits
\* for the locks of each page and of its frame.
RemoveFilePages ==
    /\ \A t \in Threads : page[t] \notin WALPages /\ \A p \in WALPages : pinned[t][p] = NoFrame
    /\ \A p \in WALPages : pageLocks[p] = NoThread
    /\ \A f \in WALFrames : frameLock[f] = NoThread
    /\ ClearsBesideReaders \/ Quiescent
    /\ WALFrames # {}
    /\ ResetFrames(WALFrames)
    /\ pageIdxToFrameMap' = WithoutWALFrames
    /\ file' = [p \in Pages |-> IF p \in WALPages THEN <<p, 0>> ELSE file[p]]
    /\ latest' = [p \in Pages |-> IF p \in WALPages THEN 0 ELSE latest[p]]
    /\ lost' = lost \ WALPages
    /\ UNCHANGED <<pageLocks, buffer, frameLock, clockHand, pc, call, caller, numWrites,
                   numPins, hasThrown, disturbed>>

\* Mutant: the frame of a page keeps its old contents.
CheckpointPage_KeepsFrame(p) ==
    /\ Quiescent
    /\ p \notin WALPages
    /\ numWrites < MaxWrites
    /\ numWrites' = numWrites + 1
    /\ latest' = [latest EXCEPT ![p] = @ + 1]
    /\ file' = [file EXCEPT ![p] = <<p, latest'[p]>>]
    /\ UNCHANGED <<fileHandle, frames, clockHand, pc, call, caller, numPins, lost, hasThrown,
                   disturbed>>

\* A replayed page is written to its database file and, with
\* updateFrameIfPageIsInFrameWithoutPageOrFrameLock, to the frame it is in.
CheckpointPage(p) ==
    /\ Quiescent
    /\ p \notin WALPages
    /\ numWrites < MaxWrites
    /\ numWrites' = numWrites + 1
    /\ latest' = [latest EXCEPT ![p] = @ + 1]
    /\ file' = [file EXCEPT ![p] = <<p, latest'[p]>>]
    /\ buffer' = [f \in Frames |-> IF pageIdxToFrameMap[p] = f THEN file'[p] ELSE buffer[f]]
    /\ UNCHANGED <<fileHandle, pinCount, pageIdx, recentlyAccessed, isDirty, frameLock, clockHand,
                   pc, call, caller, numPins, lost, hasThrown, disturbed>>

-----------------------------------------------------------------------------
\* The steps of a call that has begun.
Step(t) ==
    \/ AcquirePageLock(t)
    \/ FindFrame(t)
    \/ PinHit(t)
    \/ Claim(t)
    \/ ClaimThrows(t)
    \/ FillEmptyFrame(t)
    \/ SecondChance(t)
    \/ EvictLockFrame(t)
    \/ EvictLockPage(t)
    \/ EvictCheck(t)
    \/ FlushAndClear(t)
    \/ ReadNewPage(t)
    \/ Swizzle(t)
    \/ SetPinnedPageDirty(t)

Next ==
    \/ \E t \in Threads : Step(t)
    \/ \E t \in Threads, p \in Pages : 
           Pin(t, p) \/ PinForUpdate(t, p) \/ Write(t, p) \/ Unpin(t, p)
    \/ FlushAllDirtyPages
    \/ RemoveFilePages
    \/ \E p \in Pages : CheckpointPage(p)

Spec == Init /\ [][Next]_vars

\* Threads in a call are scheduled.
FairSpec == Spec /\ \A t \in Threads : WF_vars(Step(t))
-----------------------------------------------------------------------------
Locations == {"idle", "lock", "pin", "hit", "flush", "read", "swizzle", "set_dirty"} \cup Searching

TypeOK ==
    /\ pageLocks \in [Pages -> Threads \cup {NoThread}]
    /\ pageIdxToFrameMap \in [Pages -> Frames \cup {NoFrame}]
    /\ pinCount \in [Frames -> Nat \cup {Empty}]
    /\ pageIdx \in [Frames -> Pages \cup {NoPage}]
    /\ recentlyAccessed \in [Frames -> BOOLEAN]
    /\ isDirty \in [Frames -> BOOLEAN]
    /\ buffer \in [Frames -> (Pages \cup {NoPage}) \X Nat]
    /\ frameLock \in [Frames -> Threads \cup {NoThread}]
    /\ clockHand \in Nat
    /\ file \in [Pages -> Pages \X Nat]
    /\ pc \in [Threads -> Locations]
    /\ page \in [Threads -> Pages \cup {NoPage}]
    /\ frameIdx \in [Threads -> Frames \cup {NoFrame}]
    /\ localClockHand \in [Threads -> Nat]
    /\ tries \in [Threads -> Nat]
    /\ pinned \in [Threads -> [Pages -> Frames \cup {NoFrame}]]
    /\ originalLocks \in [Pages -> Threads \cup {NoThread}]
    /\ latest \in [Pages -> Nat]
    /\ numWrites \in Nat
    /\ numPins \in Nat
    /\ lost \subseteq Pages
    /\ hasThrown \in BOOLEAN
    /\ disturbed \subseteq Threads

\* A page that a thread has pinned stays in the frame whose pointer the thread holds, with
\* its own contents, which are the latest unless an update of it has been lost, until the
\* thread unpins it, whatever the other threads pin and evict (tryEvict checks the pin count
\* again under both locks).
PinnedPagesStay ==
    \A t \in Threads, p \in Pages : pinned[t][p] # NoFrame =>
        /\ pageIdxToFrameMap[p] = pinned[t][p]
        /\ pageIdx[pinned[t][p]] = p
        /\ latest[p] > 0 => buffer[pinned[t][p]][1] = p
        /\ latest[p] > 0 /\ p \notin lost => buffer[pinned[t][p]] = <<p, latest[p]>>

\* The threads that hold a pin of the page in frame f, and those whose call has read the page
\* into f and is about to return it.
Holders(f) == {t \in Threads : pinned[t][pageIdx[f]] = f}
Arriving(f) == {t \in Threads : pc[t] = "swizzle" /\ frameIdx[t] = f}

\* The pin count of a frame is the number of pins of the page in it, those of a call that
\* has read the page and is about to return included: a count too high keeps the page for
\* ever, one too low lets it be evicted under its user.
PinCountsAreExact ==
    \A f \in Frames : pageIdx[f] # NoPage =>
        pinCount[f] = Cardinality(Holders(f)) + Cardinality(Arriving(f))

\* A frame shows the page that it is said to hold, and its latest contents, through evictions,
\* flushes, checkpoints behind the pool's back and rollbacks.  The one exception is a page of
\* the WAL with an update that its writer did not mark and that left its frame (WritesAreKept);
\* the pages of the database files never lose one.
FramesAreCurrent ==
    /\ lost \subseteq WALPages
    /\ \A f \in Frames : pageIdx[f] # NoPage /\ latest[pageIdx[f]] > 0 =>
           /\ buffer[f][1] = pageIdx[f]
           /\ pageIdx[f] \notin lost => buffer[f] = <<pageIdx[f], latest[pageIdx[f]]>>

\* Two rounds of the hand are enough: a search that overlaps no call of another thread throws
\* only if every frame is pinned.
ThrowsOnlyWhenPinned ==
    \A t \in Threads :
        pc[t] = "claim" /\ tries[t] = MaxTries /\ t \notin disturbed =>
            \A f \in Frames : pinCount[f] > 0

\* Every call returns, unless a pin has thrown: the spin locks on pages and frames, taken in
\* both orders, never deadlock.
CallsReturn == \A t \in Threads : []<>(pc[t] = "idle" \/ hasThrown)

-----------------------------------------------------------------------------
(* What comments of the repository say, and the code does not do.           *)

\* "We check pinCount again after acquiring the lock on page currently residing in the frame.
\* At this point in time, no other thread can change the pinCount." (buffer_pool.cpp:214-215)
NoOtherThreadCanChangeThePinCount ==
    [][\A t \in Threads : pc[t] = "flush" /\ pc'[t] = "flush" =>
           pinCount'[frameIdx[t]] = pinCount[frameIdx[t]]]_vars

\* "If [...] the caller writes to the frame, caller should make sure to call setFrameDirty to let
\* the BufferManager know that the page should be flushed to disk if it is evicted."
\* (buffer_manager.cpp:34-36): the latest contents of a page are on disk or in its frame.
WritesAreKept ==
    \A p \in Pages : latest[p] > 0 =>
        \/ file[p] = <<p, latest[p]>>
        \/ \E f \in Frames : pageIdx[f] = p /\ buffer[f] = <<p, latest[p]>>

\* "If this is called while other threads are accessing the BM, it should work safely but this
\* is not tested." (buffer_pool.h:95-96, of removeFilePagesFromFrames): an eviction that has
\* the lock of its frame finds a page in it, whose file handle it follows next.
EvictionsFindAPage ==
    \A t \in Threads : pc[t] = "evict_page" => pageIdx[frameIdx[t]] # NoPage
-----------------------------------------------------------------------------
(* The inductive invariant of a pool whose pages are all pinned under their *)
(* lock and whose WAL is cleared when no call is under way (LocksWALPages,  *)
(* ~ClearsBesideReaders).                                                   *)

\* Locations of a call that holds the lock of its page, of its frame, and of the page in it.
HasFrameLock == {"evict_page", "evict_check", "flush", "read"}
HasVictimLock == {"evict_check", "flush"}
HasNoFrame == {"claim", "fill", "evict", "evict_lock"} \cup HasFrameLock
HasPageLock == {"pin", "hit", "swizzle"} \cup HasNoFrame

\* The locks that a call has taken are its own: two calls never work on one page or frame.
LocksInv ==
    \A t \in Threads :
        /\ pc[t] # "idle" => page[t] \in Pages
        /\ pc[t] \in HasPageLock => pageLocks[page[t]] = t
        /\ pc[t] \in {"fill", "evict", "evict_lock", "swizzle"} \cup HasFrameLock =>
               frameIdx[t] \in Frames
        /\ pc[t] \in HasFrameLock => frameLock[frameIdx[t]] = t
        /\ pc[t] \in HasVictimLock => pageLocks[pageIdx[frameIdx[t]]] = t

\* The map and the frames agree, except for a page that is about to be entered in the map.
MapInv ==
    /\ \A p \in Pages : pageIdxToFrameMap[p] # NoFrame => pageIdx[pageIdxToFrameMap[p]] = p
    /\ \A f \in Frames : pageIdx[f] # NoPage =>
           \/ pageIdxToFrameMap[pageIdx[f]] = f
           \/ \E t \in Threads : pc[t] = "swizzle" /\ frameIdx[t] = f /\ page[t] = pageIdx[f]
    /\ \A f \in Frames : pinCount[f] = Empty <=> pageIdx[f] = NoPage

\* What a call knows of the map and of its frame.
CallsInv ==
    \A t \in Threads :
        /\ pc[t] \in HasNoFrame \cup {"swizzle"} => pageIdxToFrameMap[page[t]] = NoFrame
        /\ pc[t] \in HasNoFrame => \A f \in Frames : pageIdx[f] # page[t]
        /\ pc[t] = "swizzle" => pageIdx[frameIdx[t]] = page[t]
        /\ pc[t] = "hit" =>
               frameIdx[t] = pageIdxToFrameMap[page[t]] /\ frameIdx[t] \in Frames
        /\ pc[t] \in {"evict", "evict_lock"} =>
               pageIdx[frameIdx[t]] # NoPage \/ frameLock[frameIdx[t]] # NoThread
        /\ pc[t] \in {"evict_page"} \cup HasVictimLock => pageIdx[frameIdx[t]] # NoPage
        /\ pc[t] = "read" => pageIdx[frameIdx[t]] = NoPage
        /\ pc[t] = "flush" => pinCount[frameIdx[t]] = 0

\* The pins that callers hold; only the pages of the WAL have an original.
PinsInv ==
    /\ \A p \in Pages : originalLocks[p] # NoThread => p \in WALPages
    /\ \A t \in Threads, p \in Pages :
           pinned[t][p] # NoFrame => pageIdxToFrameMap[p] = pinned[t][p]
    /\ \A t \in Threads :
           pc[t] \in HasPageLock \cup {"lock"} => pinned[t][page[t]] = NoFrame

\* A frame is dirty only with a page that has been written.
DirtyInv ==
    /\ \A f \in Frames : isDirty[f] => pageIdx[f] # NoPage /\ latest[pageIdx[f]] > 0
    /\ \A t \in Threads : pc[t] = "set_dirty" =>
           latest[page[t]] > 0 /\ pinned[t][page[t]] # NoFrame

\* A page that is in no frame and has lost no update has its latest contents on disk, as a page
\* of a database file has always.
DiskInv ==
    /\ \A p \in Pages : file[p][1] = p
    /\ \A p \in Pages \ WALPages : latest[p] > 0 /\ file[p] = <<p, latest[p]>>
    /\ \A p \in WALPages : latest[p] > 0 /\ p \notin lost =>
           file[p] = <<p, latest[p]>> \/ \E f \in Frames : pageIdx[f] = p

IInv ==
    /\ TypeOK
    /\ LocksInv
    /\ MapInv
    /\ CallsInv
    /\ PinsInv
    /\ DirtyInv
    /\ PinCountsAreExact
    /\ DiskInv
    /\ FramesAreCurrent
-----------------------------------------------------------------------------
(* The invariant of the search for a frame, inductive together with IInv.   *)

\* A frame lock, and the lock of a page that is in a frame, belongs to a call that will
\* release it.  (A pin that throws keeps the lock of its page, which is in no frame.)
ReleaseInv ==
    /\ \A f \in Frames : frameLock[f] # NoThread =>
           pc[frameLock[f]] \in HasFrameLock /\ frameIdx[frameLock[f]] = f
    /\ \A f \in Frames : pageIdx[f] # NoPage /\ pageLocks[pageIdx[f]] # NoThread =>
           LET t == pageLocks[pageIdx[f]]
           IN  \/ pc[t] \in HasPageLock /\ page[t] = pageIdx[f]
               \/ pc[t] \in HasVictimLock /\ frameIdx[t] = f

\* The frame that a search looks at in its i-th try.
Position(t, i) == (localClockHand[t] + i) % numFrames

\* A search that is alone, and the frames it has passed: they are pinned, or have lost their
\* second chance in the first round.
SearchesAlone(t) ==
    /\ \A u \in Threads \ {t} : pc[u] = "idle"
    /\ \A i \in 0..(tries[t] - 1) :
           /\ pinCount[Position(t, i)] # Empty
           /\ pinCount[Position(t, i)] = 0 =>
                  i < numFrames /\ ~recentlyAccessed[Position(t, i)]
    /\ pc[t] # "claim" => frameIdx[t] = Position(t, tries[t])
    /\ pc[t] = "fill" => pinCount[frameIdx[t]] = Empty
    /\ pc[t] \in {"evict", "evict_lock", "evict_page", "evict_check"} =>
           pinCount[frameIdx[t]] = 0

SearchInv ==
    \A t \in Threads : pc[t] \in Searching /\ t \notin disturbed => SearchesAlone(t)
=============================================================================
