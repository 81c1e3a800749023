----------------------------- MODULE Semaphore -----------------------------
(***************************************************************************)
(* What the depth counter of a bounded mailbox promises its users: a       *)
(* counting semaphore of capacity permits.  A permit is taken only when    *)
(* one is free and given back only when one is out.  MailboxLimits, with   *)
(* its separate loads, compare-exchanges, lock and waiters, implements it. *)
(***************************************************************************)
EXTENDS Naturals

VARIABLES
    capacity,   \* fixed when the semaphore is made
    permits     \* permits currently out

Init == permits = 0

Acquire ==
    /\ permits < capacity
    /\ permits' = permits + 1
    /\ UNCHANGED capacity

Release ==
    /\ permits > 0
    /\ permits' = permits - 1
    /\ UNCHANGED capacity

Next == Acquire \/ Release

Spec == Init /\ [][Next]_<<capacity, permits>>
=============================================================================
