---------------------------- MODULE MCBufferPool ----------------------------
(* BufferPool on a few threads and pages.                                   *)
EXTENDS BufferPool

CONSTANTS t1, t2, p1, p2, p3

TwoThreads == {t1, t2}
ThreePages == {p1, p2, p3}
WALPage == {p3}
=============================================================================
