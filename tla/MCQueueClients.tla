--------------------------- MODULE MCQueueClients ---------------------------
(***************************************************************************)
(* QueueClients with the derived constants spelled out for TLC.            *)
(***************************************************************************)
EXTENDS QueueClients

MCThreads == Writers \cup Readers \cup {Closer}
MCQueues == {conc_queue}
MCItems == Writers \X (1..PushesPer)
=============================================================================
