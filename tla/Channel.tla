------------------------------ MODULE Channel ------------------------------
(***************************************************************************)
(* What a queue of the server promises its users (inc/queue.h:40-75): items *)
(* come out once each in the order in which they went in; what was put in   *)
(* is taken in the end; after shutdown the rest is still handed out, and     *)
(* only a reader may add to it, as long as the readers have not left.        *)
(*                                                                         *)
(* MsgQueue.tla refines this module.                                       *)
(***************************************************************************)
EXTENDS Naturals, Sequences

CONSTANTS
    Items,
    Late        \* the items that a reader itself may put in after the shutdown

VARIABLES
    items,      \* what is in the channel
    closed,     \* shutdownQueue() has been called
    left        \* the readers have gone

vars == <<items, closed, left>>

TypeOK == items \in Seq(Items) /\ closed \in BOOLEAN /\ left \in BOOLEAN

Init == items = <<>> /\ closed = FALSE /\ left = FALSE

Put(x) ==
    /\ ~left /\ (closed => x \in Late)
    /\ items' = Append(items, x)
    /\ UNCHANGED <<closed, left>>

Take ==
    /\ items # <<>>
    /\ items' = Tail(items)
    /\ UNCHANGED <<closed, left>>

Close == ~left /\ closed' = TRUE /\ UNCHANGED <<items, left>>

\* The readers go only after the shutdown, and leave nothing behind.
Leave ==
    /\ closed /\ items = <<>>
    /\ left' = TRUE
    /\ UNCHANGED <<items, closed>>

Next == (\E x \in Items : Put(x)) \/ Take \/ Close \/ Leave

Spec == Init /\ [][Next]_vars
FairSpec == Spec /\ WF_vars(Take)
=============================================================================
