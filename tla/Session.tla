------------------------------- MODULE Session -------------------------------
(***************************************************************************)
(* What the server promises a connection from accept() to its end: its     *)
(* request is judged once, it is answered once, it is served only after an *)
(* answer that grants the upgrade, and one connection at a time is the     *)
(* sink. Of the diagram in README.md, "State Machine соединения", these are*)
(* all arrows but the two to and from "parked": a parked source is still   *)
(* in stage "source" here, and what the park does is told by Pipeline.     *)
(***************************************************************************)
CONSTANT Conns

VARIABLES
    stage,      \* "new", "request", "answer", "source", "handoff", "sink", "closed"
    granted,    \* the upgrade was granted
    answered    \* the peer has been sent the whole answer

vars == <<stage, granted, answered>>

Init ==
    /\ stage = [c \in Conns |-> "new"]
    /\ granted = [c \in Conns |-> FALSE]
    /\ answered = [c \in Conns |-> FALSE]

Move(c, from, to) == stage[c] \in from /\ stage' = [stage EXCEPT ![c] = to]

Accept(c) == Move(c, {"new"}, "request") /\ UNCHANGED <<granted, answered>>

Judge(c) ==
    /\ Move(c, {"request"}, "answer")
    /\ \E verdict \in BOOLEAN : granted' = [granted EXCEPT ![c] = verdict]
    /\ UNCHANGED answered

Answer(c) ==
    /\ stage[c] = "answer" /\ ~answered[c]
    /\ answered' = [answered EXCEPT ![c] = TRUE]
    /\ UNCHANGED <<stage, granted>>

\* A connection is served, or handed to the aggregator, after its 101.
Serve(c) ==
    /\ granted[c] /\ answered[c]
    /\ Move(c, {"answer"}, "source") \/ Move(c, {"answer"}, "handoff")
    /\ UNCHANGED <<granted, answered>>

Adopt(c) ==
    /\ \A d \in Conns : stage[d] # "sink"
    /\ Move(c, {"handoff"}, "sink")
    /\ UNCHANGED <<granted, answered>>

\* A connection whose answer is under way may break; one that waits for the
\* aggregator is left alone.
Close(c) ==
    /\ Move(c, {"new", "request", "answer", "source", "sink"}, "closed")
    /\ UNCHANGED <<granted, answered>>

Next ==
    \E c \in Conns :
        Accept(c) \/ Judge(c) \/ Answer(c) \/ Serve(c) \/ Adopt(c) \/ Close(c)

Spec == Init /\ [][Next]_vars
=============================================================================
