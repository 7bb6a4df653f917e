-------------------------- MODULE MCMultiQueuePool --------------------------
(***************************************************************************)
(* MultiQueuePool with the derived constants spelled out for TLC.          *)
(***************************************************************************)
EXTENDS MultiQueuePool

MCThreads == Workers \cup {Main}
MCItems == Tasks \cup {Dummy}
=============================================================================
