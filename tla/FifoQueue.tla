------------------------------ MODULE FifoQueue ------------------------------
(***************************************************************************)
(* What concurrent_queue.h promises its callers: every call takes effect   *)
(* at one instant on a first-in first-out buffer that can be bounded and   *)
(* closed. Nothing is said of locks, sleepers or notifications.            *)
(***************************************************************************)
EXTENDS Naturals, Sequences

CONSTANTS Writers, Readers, Capacities

VARIABLES
    capacity,   \* 0, or the most values the buffer holds
    buf,        \* the values accepted and not yet delivered, oldest first
    shut,       \* close() has taken effect
    sent,       \* [Writers -> Nat]: the pushes of a writer that have returned
    received    \* [Readers -> Seq]: the values delivered to a reader

fifoVars == <<capacity, buf, shut, sent, received>>

FifoInit ==
    /\ capacity \in Capacities
    /\ buf = <<>>
    /\ shut = FALSE
    /\ sent = [w \in Writers |-> 0]
    /\ received = [r \in Readers |-> <<>>]

\* The writer's next value is accepted.
Put(w) ==
    /\ ~shut
    /\ capacity = 0 \/ Len(buf) < capacity
    /\ sent' = [sent EXCEPT ![w] = @ + 1]
    /\ buf' = Append(buf, <<w, sent'[w]>>)
    /\ UNCHANGED <<capacity, shut, received>>

\* A push to a bounded buffer that was overtaken by close() discards its value.
Discard(w) ==
    /\ shut
    /\ capacity # 0
    /\ sent' = [sent EXCEPT ![w] = @ + 1]
    /\ UNCHANGED <<capacity, buf, shut, received>>

\* The oldest value is delivered, also after close().
Take(r) ==
    /\ buf # <<>>
    /\ received' = [received EXCEPT ![r] = Append(@, Head(buf))]
    /\ buf' = Tail(buf)
    /\ UNCHANGED <<capacity, shut, sent>>

Shut ==
    /\ shut' = TRUE
    /\ UNCHANGED <<capacity, buf, sent, received>>

FifoNext ==
    \/ \E w \in Writers : Put(w) \/ Discard(w)
    \/ \E r \in Readers : Take(r)
    \/ Shut

FifoSpec == FifoInit /\ [][FifoNext]_fifoVars
=============================================================================
