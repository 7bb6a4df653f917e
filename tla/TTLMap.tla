------------------------------- MODULE TTLMap -------------------------------
(***************************************************************************)
(* What TTLCache (TTL_Caching.cpp) promises its callers: a map whose       *)
(* entries vanish by themselves when their time is over. Nothing is said   *)
(* of a cleaner, of waiting or of entries that linger. A put of a key that *)
(* has an entry changes nothing; any put may turn out to change nothing.   *)
(***************************************************************************)
EXTENDS Integers

CONSTANTS Keys, Consumers, Values, MaxTTL, None

VARIABLES
    live,   \* [Keys -> [value, left]]: the entries, with the time they have left
    last    \* [Consumers -> Values]: what a consumer's latest get() returned

mapVars == <<live, last>>

MapInit ==
    /\ live = [k \in Keys |-> None]
    /\ last = [c \in Consumers |-> None]

Store(k) ==
    /\ live[k] = None
    /\ \E v \in Values, ttl \in 1..MaxTTL :
         live' = [live EXCEPT ![k] = [value |-> v, left |-> ttl]]
    /\ UNCHANGED last

Read(c) ==
    /\ \E k \in Keys :
         last' = [last EXCEPT ![c] = IF live[k] = None THEN None ELSE live[k].value]
    /\ UNCHANGED live

\* An entry is served up to and including the instant of its expiry.
Age ==
    /\ live' = [k \in Keys |->
                   IF live[k] = None \/ live[k].left = 0 THEN None
                   ELSE [live[k] EXCEPT !.left = @ - 1]]
    /\ UNCHANGED last

MapNext ==
    \/ \E k \in Keys : Store(k)
    \/ \E c \in Consumers : Read(c)
    \/ Age

MapSpec == MapInit /\ [][MapNext]_mapVars
=============================================================================
