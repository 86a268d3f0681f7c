------------------------------- MODULE FanIn -------------------------------
(***************************************************************************)
(* What the server promises to its sources and its sink, with no threads,  *)
(* no queues and no sockets (README.md "Backpressure" and "Шов для будущих *)
(* манипуляций"): the messages of one source reach the sink once each and  *)
(* in the order they were sent; messages of different sources interleave   *)
(* freely; a message that has been accepted is lost only when a sink       *)
(* connection is lost, and then at most the one that was being written.    *)
(*                                                                         *)
(* Pipeline.tla refines this module.                                       *)
(***************************************************************************)
EXTENDS Naturals, Sequences

CONSTANT Sources

VARIABLES
    accepted,   \* accepted[s]: how many messages of s the server has taken
    flow,       \* flow[s]: the numbers of the messages of s inside the server
    out,        \* what has been written to a sink: a sequence of <<s, n>>
    sinks,      \* how many sink connections there have been
    connected   \* is the last of them still there

vars == <<accepted, flow, out, sinks, connected>>

TypeOK ==
    /\ accepted \in [Sources -> Nat]
    /\ flow \in [Sources -> SUBSET Nat]
    /\ out \in Seq(Sources \X Nat)
    /\ sinks \in Nat
    /\ connected \in BOOLEAN

Init ==
    /\ accepted = [s \in Sources |-> 0]
    /\ flow = [s \in Sources |-> {}]
    /\ out = <<>>
    /\ sinks = 0
    /\ connected = FALSE

\* The next message of s enters the server.
Accept(s) ==
    /\ accepted' = [accepted EXCEPT ![s] = @ + 1]
    /\ flow' = [flow EXCEPT ![s] = @ \cup {accepted[s] + 1}]
    /\ UNCHANGED <<out, sinks, connected>>

\* Message n is the oldest of s inside the server.
Oldest(s, n) == n \in flow[s] /\ \A m \in flow[s] : n <= m

\* The oldest message of s is written to the sink.
Deliver(s) ==
    /\ connected
    /\ \E n \in flow[s] :
           /\ Oldest(s, n)
           /\ out' = Append(out, <<s, n>>)
           /\ flow' = [flow EXCEPT ![s] = @ \ {n}]
    /\ UNCHANGED <<accepted, sinks, connected>>

\* A sink arrives, taking the place of the one that is there, or the sink goes
\* away; either way the connection that ends may take one message with it.
SinkArrives == sinks' = sinks + 1 /\ connected' = TRUE
SinkLeaves == connected /\ connected' = FALSE /\ sinks' = sinks

LoseNone == UNCHANGED <<accepted, flow, out>>
LoseOne(s) ==
    /\ connected
    /\ \E n \in flow[s] : Oldest(s, n) /\ flow' = [flow EXCEPT ![s] = @ \ {n}]
    /\ UNCHANGED <<accepted, out>>

Switch ==
    /\ SinkArrives \/ SinkLeaves
    /\ LoseNone \/ \E s \in Sources : LoseOne(s)

Next ==
    \/ \E s \in Sources : Accept(s) \/ Deliver(s)
    \/ Switch

Spec == Init /\ [][Next]_vars
=============================================================================
