------------------------------ MODULE MsgQueue ------------------------------
(***************************************************************************)
(* queue.c: a linked list under a mutex, with two ways to wait for it.     *)
(* Worker threads block in pop() on a condition variable; the aggregator   *)
(* polls with trypop() and sleeps in epoll_wait() on an eventfd that       *)
(* push() writes after it has given the mutex back.                        *)
(*                                                                         *)
(* What a thread does with the mutex held is one step. The producers are   *)
(* the listeners (work queue), or the workers and the upstream thread (data *)
(* and control queue); main() joins them before it calls shutdownQueue()   *)
(* (server.c:290-339). The data queue has one producer more, its reader:    *)
(* the aggregator pushes the message of a parked source itself (agg.c:303), *)
(* also after the shutdown, which push() does not look at.                  *)
(* There is no timeout here: the wake-ups alone must get every item out.   *)
(***************************************************************************)
EXTENDS Naturals, Sequences, FiniteSets

CONSTANTS
    Producers,  \* threads that call push()
    Poppers,    \* threads that call pop() in a loop
    Pollers,    \* threads that trypop() and sleep on the eventfd (at most one)
    MaxPush,    \* bound: pushes of each producer
    MaxResume,  \* bound: sources that the aggregator resumes
    Null        \* a NULL QNode_t pointer

ASSUME BoundAssumption == MaxPush \in Nat /\ MaxResume \in Nat
ASSUME PollerAssumption ==
    /\ IsFiniteSet(Pollers) /\ Cardinality(Pollers) <= 1
    /\ Pollers \cap Poppers = {} /\ Pollers \cap Producers = {}

Consumers == Poppers \cup Pollers
Pushers == Producers \cup Pollers

\* An item, and the QNode_t that push() allocates for it.
OwnItems == Pollers \X (1..MaxResume)
Items == (Producers \X (1..MaxPush)) \cup OwnItems
Node == Items \cup {Null}
ASSUME NullAssumption == Null \notin Items

VARIABLES
    head, tail, next,   \* the list; next[n] is n->next
    size,
    shutdown,
    notify,             \* q->notifyFd >= 0
    efd,                \* the counter of the eventfd is not zero
    pushed,             \* how many items each thread has pushed
    ppc,                \* producers: "run", "write" (to the eventfd), "done"
    cpc,                \* consumers
    mpc                 \* main(): "run", "write" (shutdownQueue), "done"

listVars == <<head, tail, next, size>>
vars == <<listVars, shutdown, notify, efd, pushed, ppc, cpc, mpc>>

TypeOK ==
    /\ head \in Node /\ tail \in Node /\ next \in [Items -> Node]
    /\ size \in Nat
    /\ shutdown \in BOOLEAN /\ notify \in BOOLEAN /\ efd \in BOOLEAN
    /\ pushed \in [Pushers -> Nat]
    /\ ppc \in [Producers -> {"run", "write", "done"}]
    /\ cpc \in [Consumers -> {"start", "pop", "waiting", "try", "put", "ask", "size", "sleep",
                             "exit"}]
    /\ mpc \in {"run", "write", "done"}

\* createQueue(). A queue has readers of one kind: the work queue the workers,
\* the data and the control queue the aggregator, which enables the notification
\* only once it runs (agg.c:502-503), when the producers already run.
Init ==
    /\ head = Null /\ tail = Null /\ next = [n \in Items |-> Null]
    /\ size = 0
    /\ shutdown = FALSE /\ notify = FALSE /\ efd = FALSE
    /\ pushed = [p \in Pushers |-> 0]
    /\ ppc = [p \in Producers |-> "run"]
    /\ \E readers \in {Poppers, Pollers} \ {{}} :
           cpc = [c \in Consumers |->
                     IF c \notin readers THEN "exit" ELSE IF c \in Poppers THEN "pop" ELSE "start"]
    /\ mpc = "run"

-----------------------------------------------------------------------------
(* The list *)

\* Mutant: the tail is not cleared with the last node.
Unlink_KeepTail ==
    /\ head' = next[head]
    /\ tail' = tail
    /\ size' = size - 1
    /\ UNCHANGED next

\* popHeadLocked()
Unlink ==
    /\ head' = next[head]
    /\ tail' = IF next[head] = Null THEN Null ELSE tail
    /\ size' = size - 1
    /\ UNCHANGED next

\* The critical section of push(): a new last node.
Link(n) ==
    /\ next' = [x \in Items |-> IF x = n THEN Null ELSE IF x = tail THEN n ELSE next[x]]
    /\ head' = IF tail = Null THEN n ELSE head
    /\ tail' = n
    /\ size' = size + 1

Waiting == {c \in Poppers : cpc[c] = "waiting"}

-----------------------------------------------------------------------------
(* Producers *)

\* pthread_cond_signal(): one waiter, if there is one, goes round its loop again.
Signal ==
    IF Waiting = {} THEN cpc' = cpc
    ELSE \E c \in Waiting : cpc' = [cpc EXCEPT ![c] = "pop"]

\* push() as long as it has the mutex.
PushLocked(p) ==
    /\ ppc[p] = "run" /\ pushed[p] < MaxPush
    /\ pushed' = [pushed EXCEPT ![p] = @ + 1]
    /\ Link(<<p, pushed[p] + 1>>)
    /\ Signal
    /\ ppc' = [ppc EXCEPT ![p] = IF notify THEN "write" ELSE "run"]
    /\ UNCHANGED <<shutdown, notify, efd, mpc>>

\* Mutant: the eventfd is not written.
PushWrite_Silent(p) ==
    /\ ppc[p] = "write"
    /\ ppc' = [ppc EXCEPT ![p] = "run"]
    /\ UNCHANGED <<listVars, shutdown, notify, efd, pushed, cpc, mpc>>

\* The rest of push(): write(notifyFd).
PushWrite(p) ==
    /\ ppc[p] = "write"
    /\ efd' = TRUE
    /\ ppc' = [ppc EXCEPT ![p] = "run"]
    /\ UNCHANGED <<listVars, shutdown, notify, pushed, cpc, mpc>>

\* The thread returns; main() joins it.
ProducerExit(p) ==
    /\ ppc[p] = "run"
    /\ ppc' = [ppc EXCEPT ![p] = "done"]
    /\ UNCHANGED <<listVars, shutdown, notify, efd, pushed, cpc, mpc>>

-----------------------------------------------------------------------------
(* Consumers that block: the worker threads *)

\* One turn of the loop of pop(): the thread takes the head, gives up, or gives
\* back the mutex in pthread_cond_wait().
Pop(c) ==
    /\ cpc[c] = "pop"
    /\ IF size # 0
       THEN Unlink /\ UNCHANGED cpc
       ELSE /\ cpc' = [cpc EXCEPT ![c] = IF shutdown THEN "exit" ELSE "waiting"]
            /\ UNCHANGED listVars
    /\ UNCHANGED <<shutdown, notify, efd, pushed, ppc, mpc>>

\* pthread_cond_wait() may return without a signal.
SpuriousWakeup(c) ==
    /\ cpc[c] = "waiting"
    /\ cpc' = [cpc EXCEPT ![c] = "pop"]
    /\ UNCHANGED <<listVars, shutdown, notify, efd, pushed, ppc, mpc>>

-----------------------------------------------------------------------------
(* The consumer that polls: the aggregator *)

\* queueEnableNotify(): items pushed before it cause no event.
EnableNotify(c) ==
    /\ cpc[c] = "start"
    /\ notify' = TRUE
    /\ cpc' = [cpc EXCEPT ![c] = "try"]
    /\ UNCHANGED <<listVars, shutdown, efd, pushed, ppc, mpc>>

TryPop(c) ==
    /\ cpc[c] = "try"
    /\ IF size # 0
       THEN Unlink /\ UNCHANGED cpc
       ELSE cpc' = [cpc EXCEPT ![c] = "ask"] /\ UNCHANGED listVars
    /\ UNCHANGED <<shutdown, notify, efd, pushed, ppc, mpc>>

\* resumeParked() in the loop of aggPump(): the reader pushes the message of a
\* parked source, whether the queue was shut down or not. How many sources are
\* parked, and that the queue must be short, is left open (Pipeline has both).
\* Nobody waits on the condition variable of a queue that is polled.
ResumePush(c) ==
    /\ cpc[c] = "try" /\ pushed[c] < MaxResume
    /\ pushed' = [pushed EXCEPT ![c] = @ + 1]
    /\ Link(<<c, pushed[c] + 1>>)
    /\ cpc' = [cpc EXCEPT ![c] = "put"]
    /\ UNCHANGED <<shutdown, notify, efd, ppc, mpc>>

\* The rest of its push(): the aggregator wakes itself.
ResumeWrite(c) ==
    /\ cpc[c] = "put"
    /\ efd' = TRUE
    /\ cpc' = [cpc EXCEPT ![c] = "try"]
    /\ UNCHANGED <<listVars, shutdown, notify, pushed, ppc, mpc>>

\* Mutant: the list is not looked at again after shutdown.
AskShutdown_Only(c) ==
    /\ cpc[c] = "ask"
    /\ cpc' = [cpc EXCEPT ![c] = IF shutdown THEN "exit" ELSE "sleep"]
    /\ UNCHANGED <<listVars, shutdown, notify, efd, pushed, ppc, mpc>>

\* queueIsShutdown(q) && queueSize(q) == 0: two looks, the mutex free between.
AskShutdown(c) ==
    /\ cpc[c] = "ask"
    /\ cpc' = [cpc EXCEPT ![c] = IF shutdown THEN "size" ELSE "sleep"]
    /\ UNCHANGED <<listVars, shutdown, notify, efd, pushed, ppc, mpc>>

AskSize(c) ==
    /\ cpc[c] = "size"
    /\ cpc' = [cpc EXCEPT ![c] = IF size = 0 THEN "exit" ELSE "sleep"]
    /\ UNCHANGED <<listVars, shutdown, notify, efd, pushed, ppc, mpc>>

\* epoll_wait() returns and the eventfd is read until it is empty.
Woken(c) ==
    /\ cpc[c] = "sleep" /\ efd
    /\ efd' = FALSE
    /\ cpc' = [cpc EXCEPT ![c] = "try"]
    /\ UNCHANGED <<listVars, shutdown, notify, pushed, ppc, mpc>>

-----------------------------------------------------------------------------
(* main() *)

\* Mutant: main() does not join the producers first.
ShutdownLocked_Early ==
    /\ mpc = "run"
    /\ shutdown' = TRUE
    /\ cpc' = [c \in Consumers |-> IF c \in Waiting THEN "pop" ELSE cpc[c]]
    /\ mpc' = IF notify THEN "write" ELSE "done"
    /\ UNCHANGED <<listVars, notify, efd, pushed, ppc>>

\* Mutant: pthread_cond_signal() at shutdown.
ShutdownLocked_Signal ==
    /\ mpc = "run" /\ \A p \in Producers : ppc[p] = "done"
    /\ shutdown' = TRUE
    /\ Signal
    /\ mpc' = IF notify THEN "write" ELSE "done"
    /\ UNCHANGED <<listVars, notify, efd, pushed, ppc>>

\* shutdownQueue() as long as it has the mutex: pthread_cond_broadcast(). The
\* threads that main() has joined push no more; the aggregator still may.
ShutdownLocked ==
    /\ mpc = "run" /\ \A p \in Producers : ppc[p] = "done"
    /\ shutdown' = TRUE
    /\ cpc' = [c \in Consumers |-> IF c \in Waiting THEN "pop" ELSE cpc[c]]
    /\ mpc' = IF notify THEN "write" ELSE "done"
    /\ UNCHANGED <<listVars, notify, efd, pushed, ppc>>

ShutdownWrite ==
    /\ mpc = "write"
    /\ efd' = TRUE
    /\ mpc' = "done"
    /\ UNCHANGED <<listVars, shutdown, notify, pushed, ppc, cpc>>

-----------------------------------------------------------------------------

Returned == \A c \in Consumers : cpc[c] = "exit"

\* All threads have returned: the end of the program, not a deadlock.
Finished == mpc = "done" /\ Returned /\ UNCHANGED vars

ProducerStep(p) == PushLocked(p) \/ PushWrite(p) \/ ProducerExit(p)
PollerStep(c) ==
    \/ EnableNotify(c) \/ TryPop(c) \/ ResumePush(c) \/ ResumeWrite(c)
    \/ AskShutdown(c) \/ AskSize(c) \/ Woken(c)

Next ==
    \/ \E p \in Producers : ProducerStep(p)
    \/ \E c \in Poppers : Pop(c) \/ SpuriousWakeup(c)
    \/ \E c \in Pollers : PollerStep(c)
    \/ ShutdownLocked \/ ShutdownWrite
    \/ Finished

Spec == Init /\ [][Next]_vars

\* Threads that can run do run. Nothing is assumed of a producer before it is
\* inside push(), nor of spurious wake-ups.
FairSpec ==
    /\ Spec
    /\ \A p \in Producers : WF_vars(PushWrite(p))
    /\ \A c \in Poppers : WF_vars(Pop(c))
    /\ \A c \in Pollers : WF_vars(PollerStep(c))
    /\ WF_vars(ShutdownWrite)

-----------------------------------------------------------------------------
(* Properties *)

\* The pointers lead from head through the items of s to tail, and end there.
Spells(s) ==
    /\ head = IF size = 0 THEN Null ELSE s[1]
    /\ tail = IF size = 0 THEN Null ELSE s[size]
    /\ \A i \in 1..size : next[s[i]] = IF i = size THEN Null ELSE s[i + 1]

\* Head, tail, links and counter of the list agree between critical sections,
\* also when it runs empty and fills again (queue.c:91-97, 139-149).
ListIntact == TypeOK /\ \E s \in [1..size -> Items] : Spells(s)

\* The items of the list.
Contents == CHOOSE s \in [1..size -> Items] : Spells(s)

\* First in, first out, every item once (inc/queue.h:40-60). push() does not look
\* at shutdown: what comes in after it is the aggregator's own (agg.c:303), which
\* comes out too, since the readers leave only an empty queue that was shut down,
\* and nothing is put in after they left.
Promise == INSTANCE Channel WITH items <- Contents, closed <- shutdown, left <- Returned,
                                 Late <- OwnItems
ImplementsChannel == Promise!Spec

\* A consumer returns only when nothing is left for it: pop() gives -1 at
\* shutdown only with the list empty (queue.c:161-164), and the aggregator's two
\* looks at the queue cannot miss an item, although the mutex is free between.
NothingLeft == Returned => size = 0

\* The inductive invariant: what is in the list was pushed, so the next node is
\* a new one; a queue is shut down when its producers have returned; and the last
\* reader has found it shut down and empty.
Made(s) == \A i \in 1..size : s[i][2] <= pushed[s[i][1]]
QueueInv ==
    /\ TypeOK
    /\ \E s \in [1..size -> Items] : Spells(s) /\ Made(s)
    /\ shutdown <=> mpc # "run"
    /\ shutdown => \A p \in Producers : ppc[p] = "done"
    /\ \A c \in Consumers : cpc[c] = "size" => shutdown
    /\ Returned => shutdown /\ size = 0

\* No wake-up is lost: every item that was pushed is taken, with no timeout,
\* although the eventfd is written after the mutex is given back, is drained
\* after items were added, and is enabled only when items are already there.
InQueue(x) == \E i \in DOMAIN Contents : Contents[i] = x
EveryItemTaken == \A x \in Items : InQueue(x) ~> ~InQueue(x)

\* After shutdownQueue() no consumer stays in pop() or in epoll_wait()
\* (README.md:325-329 "зависания на pop() исключены").
EveryoneReturns == (mpc = "done") ~> Returned
=============================================================================
