----------------------------- MODULE MCTTLCache -----------------------------
(***************************************************************************)
(* TTLCache with the calls of its threads spelled out for TLC: key_1_0 and *)
(* key_1_1 as in main(), and a second producer that also stores key_1_0.   *)
(***************************************************************************)
EXTENDS TTLCache

CONSTANTS key_1_0, key_1_1, p1, p2, c1, c2

MCPuts ==
    [p \in Producers |->
        IF p = p1 THEN <<[key |-> key_1_0, ttl |-> 1], [key |-> key_1_1, ttl |-> 2]>>
                  ELSE <<[key |-> key_1_0, ttl |-> 2]>>]

MCWanted == [c \in Consumers |-> <<key_1_0, key_1_1>>]
=============================================================================
