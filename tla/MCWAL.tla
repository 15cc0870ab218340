------------------------------- MODULE MCWAL -------------------------------
(* WAL on two pages.                                                        *)
EXTENDS WAL, TLC

CONSTANTS p1, p2

TwoPages == {p1, p2}

\* The phases of a crash: none; inside the flush; anywhere.
Never == {}
InsideFlush == {"flushing"}
Anywhere == Phases

Symmetry == Permutations(Pages)
============================================================================
