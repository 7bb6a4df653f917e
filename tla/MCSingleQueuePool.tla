-------------------------- MODULE MCSingleQueuePool --------------------------
(***************************************************************************)
(* SingleQueuePool with the derived constants spelled out for TLC.         *)
(***************************************************************************)
EXTENDS SingleQueuePool

MCThreads == Workers \cup {Main}
MCQueues == {work_queue}
MCItems == Tasks \cup {Dummy}
=============================================================================
