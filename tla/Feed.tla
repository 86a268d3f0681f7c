------------------------------- MODULE Feed ---------------------------------
(***************************************************************************)
(* What an upstream client promises to the data queue: within one session  *)
(* (one connection to the remote server) the messages of that server are   *)
(* published one after the other, without a gap, a repetition or a change  *)
(* of order, and nothing of a session comes after the next one has begun.  *)
(* What a session did not get to publish is lost with it.                  *)
(***************************************************************************)
EXTENDS Naturals, Sequences

CONSTANT Clients

VARIABLES
    session,    \* number of the current session of each client, 0 if none yet
    next,       \* number of its next message
    out         \* everything published: <<client, session, message>>

vars == <<session, next, out>>

Init ==
    /\ session = [c \in Clients |-> 0]
    /\ next = [c \in Clients |-> 1]
    /\ out = <<>>

\* A new connection starts counting again.
Begin(c) ==
    /\ session' = [session EXCEPT ![c] = @ + 1]
    /\ next' = [next EXCEPT ![c] = 1]
    /\ out' = out

Publish(c) ==
    /\ session[c] > 0
    /\ out' = Append(out, <<c, session[c], next[c]>>)
    /\ next' = [next EXCEPT ![c] = @ + 1]
    /\ session' = session

Next == \E c \in Clients : Begin(c) \/ Publish(c)

Spec == Init /\ [][Next]_vars
=============================================================================
