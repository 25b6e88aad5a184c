------------------------- MODULE InMemoryConnection -------------------------
(***************************************************************************)
(* class InMemoryConnection (include/fixure/runner.hpp:24-44,              *)
(* src/runner.cpp:20-85): two queues, one mutex, one condition variable    *)
(* per side.  The scenario runner uses the client side; tests and mock     *)
(* systems use the server side, from threads of their own.                 *)
(*                                                                         *)
(* Every method holds m_mutex for its whole body, so it is one step; only  *)
(* wait_for gives the mutex up.  A receive that must wait is therefore two *)
(* steps or more: Wait puts the thread in its side's wait set; a notify,   *)
(* the timeout or a spurious wake-up takes it out; and when the thread has *)
(* the mutex again it tests the predicate (Resume).  Any other call may    *)
(* come in between.                                                        *)
(***************************************************************************)
EXTENDS Sequences, FiniteSets, Naturals

CONSTANTS
  Clients,    \* threads that call send and receive
  Servers,    \* threads that call server_send and server_receive
  Data,       \* payloads
  MaxQueued   \* bound: nobody sends to a side with this many queued

ASSUME ConnectionAssumption ==
  /\ IsFiniteSet(Clients) /\ IsFiniteSet(Servers)
  /\ Clients \cap Servers = {}
  /\ MaxQueued \in Nat

VARIABLES
  m_connected,
  m_to,       \* m_to["client"] is m_to_client, m_to["server"] is m_to_server
  state,      \* where each thread stands in the wait protocol
  returned    \* returned[t]: what the last finished call of t returned

vars == <<m_connected, m_to, state, returned>>

Link == INSTANCE DuplexLink
  WITH connected <- m_connected, queue <- m_to, answer <- returned

Thread == Link!Thread
Side == Link!Side
SideOf(t) == Link!SideOf(t)
Peer(t) == Link!Peer(t)

(* waiting: in the wait set of its condition variable.                     *)
(* woken: notified or spuriously awake, not yet holding the mutex.         *)
(* timed_out: its timeout expired, not yet holding the mutex.              *)
ThreadState == {"running", "waiting", "woken", "timed_out"}

ThreadsOf(s) == IF s = "client" THEN Clients ELSE Servers
Waiting(s) == {t \in ThreadsOf(s) : state[t] = "waiting"}
Awake(s) == {t \in ThreadsOf(s) : state[t] \in {"woken", "timed_out"}}

TypeOK ==
  /\ m_connected \in BOOLEAN
  /\ m_to \in [Side -> Seq(Data)]
  /\ state \in [Thread -> ThreadState]
  /\ returned \in
       [Thread -> Data \cup {Link!NoCall, Link!Sent, Link!Refused, Link!Nothing}]

Init ==
  /\ m_connected = FALSE
  /\ m_to = [s \in Side |-> <<>>]
  /\ state = [t \in Thread |-> "running"]
  /\ returned = [t \in Thread |-> Link!NoCall]

Return(t, r) == returned' = [returned EXCEPT ![t] = r]

-----------------------------------------------------------------------------
(* Mutant: disconnect forgets to notify.                                   *)
NotifyNobody == UNCHANGED state

NotifyAll ==
  state' = [t \in Thread |-> IF state[t] = "waiting" THEN "woken" ELSE state[t]]

(* Mutants: a push into a queue that holds something already does not      *)
(* notify; no push notifies.                                               *)
NotifyOneIfWasEmpty(s) ==
  IF m_to[s] = <<>> /\ Waiting(s) # {}
  THEN \E t \in Waiting(s) : state' = [state EXCEPT ![t] = "woken"]
  ELSE UNCHANGED state

NeverNotifyOne(s) == UNCHANGED state

(* Which waiter is woken is up to the library.                             *)
NotifyOne(s) ==
  \/ Waiting(s) = {} /\ UNCHANGED state
  \/ \E t \in Waiting(s) : state' = [state EXCEPT ![t] = "woken"]

Connect ==
  /\ m_connected' = TRUE
  /\ UNCHANGED <<m_to, state, returned>>

Disconnect ==
  /\ m_connected' = FALSE
  /\ NotifyAll
  /\ UNCHANGED <<m_to, returned>>

(* send of a client thread and server_send of a server thread.             *)
Send(t, d) ==
  /\ state[t] = "running"
  /\ Len(m_to[Peer(t)]) < MaxQueued
  /\ m_connected
  /\ m_to' = [m_to EXCEPT ![Peer(t)] = Append(@, d)]
  /\ NotifyOne(Peer(t))
  /\ Return(t, Link!Sent)
  /\ UNCHANGED m_connected

SendRefused(t) ==
  /\ state[t] = "running"
  /\ ~m_connected
  /\ Return(t, Link!Refused)
  /\ UNCHANGED <<m_connected, m_to, state>>

(* Mutants: the message is moved out of the queue but not popped; the link *)
(* is not looked at again after the wait.                                  *)
TakeWithoutPop(t) ==
  IF m_connected /\ m_to[SideOf(t)] # <<>>
  THEN /\ m_to' = [m_to EXCEPT ![SideOf(t)] = <<Link!Nothing>> \o Tail(@)]
       /\ Return(t, Head(m_to[SideOf(t)]))
  ELSE /\ Return(t, Link!Nothing)
       /\ UNCHANGED m_to

TakeEvenIfDown(t) ==
  IF m_to[SideOf(t)] # <<>>
  THEN /\ m_to' = [m_to EXCEPT ![SideOf(t)] = Tail(@)]
       /\ Return(t, Head(m_to[SideOf(t)]))
  ELSE /\ Return(t, Link!Nothing)
       /\ UNCHANGED m_to

(* The body of receive after the wait.                                     *)
TakeOrReturnNothing(t) ==
  IF m_connected /\ m_to[SideOf(t)] # <<>>
  THEN /\ m_to' = [m_to EXCEPT ![SideOf(t)] = Tail(@)]
       /\ Return(t, Head(m_to[SideOf(t)]))
  ELSE /\ Return(t, Link!Nothing)
       /\ UNCHANGED m_to

(* The predicate of wait_for.                                              *)
Predicate(s) == m_to[s] # <<>> \/ ~m_connected

(* receive of a client thread and server_receive of a server thread.       *)
Receive(t) ==
  /\ state[t] = "running"
  /\ Predicate(SideOf(t))
  /\ TakeOrReturnNothing(t)
  /\ UNCHANGED <<m_connected, state>>

Wait(t) ==
  /\ state[t] = "running"
  /\ ~Predicate(SideOf(t))
  /\ state' = [state EXCEPT ![t] = "waiting"]
  /\ UNCHANGED <<m_connected, m_to, returned>>

Timeout(t) ==
  /\ state[t] = "waiting"
  /\ state' = [state EXCEPT ![t] = "timed_out"]
  /\ UNCHANGED <<m_connected, m_to, returned>>

SpuriousWakeUp(t) ==
  /\ state[t] = "waiting"
  /\ state' = [state EXCEPT ![t] = "woken"]
  /\ UNCHANGED <<m_connected, m_to, returned>>

(* Back with the mutex: wait again when the predicate is false and time is *)
(* left, finish the receive otherwise.                                     *)
Resume(t) ==
  /\ state[t] \in {"woken", "timed_out"}
  /\ \/ /\ Predicate(SideOf(t)) \/ state[t] = "timed_out"
        /\ TakeOrReturnNothing(t)
        /\ state' = [state EXCEPT ![t] = "running"]
     \/ /\ ~Predicate(SideOf(t)) /\ state[t] = "woken"
        /\ state' = [state EXCEPT ![t] = "waiting"]
        /\ UNCHANGED <<m_to, returned>>
  /\ UNCHANGED m_connected

Next ==
  \/ Connect
  \/ Disconnect
  \/ \E t \in Thread :
        \/ \E d \in Data : Send(t, d)
        \/ SendRefused(t)
        \/ Receive(t)
        \/ Wait(t)
        \/ Timeout(t)
        \/ SpuriousWakeUp(t)
        \/ Resume(t)

(* An awake thread gets the mutex in the end: no method holds it while it  *)
(* waits for anything.  Neither the timeout nor spurious wake-ups are      *)
(* relied upon.                                                            *)
Spec == Init /\ [][Next]_vars /\ \A t \in Thread : WF_vars(Resume(t))

-----------------------------------------------------------------------------
(* No lost wake-up: a thread sleeps only on a live link, and while one      *)
(* still sleeps on a side that side's queue holds no more messages than    *)
(* there are threads already on their way to take one.  One notify_one per *)
(* push and one notify_all per disconnect are enough however receivers,    *)
(* timeouts and reconnects interleave.  (runner.cpp:30-35, 41, 66)         *)
NoLostWakeUp ==
  \A s \in Side :
     Waiting(s) # {} => m_connected /\ Len(m_to[s]) <= Cardinality(Awake(s))

(* The link implements a duplex FIFO link.                                 *)
ImplementsLink == Link!Spec

Blocked(s) == \E t \in ThreadsOf(s) : state[t] # "running"

(* With a message queued on a live link and a receiver blocked on that     *)
(* side, the message is taken or the link goes down, by notifications      *)
(* alone.  (runner.cpp:49-51, 74-76)                                       *)
QueuedIsTaken ==
  \A s \in Side :
     m_to[s] # <<>> /\ m_connected /\ Blocked(s)
       ~> m_to[s] = <<>> \/ ~m_connected \/ ~Blocked(s)

(* A receiver blocked when the link goes down comes back, unless the link  *)
(* is connected again first.  (runner.cpp:33-34)                           *)
DisconnectReleases ==
  \A t \in Thread :
     ~m_connected /\ state[t] # "running" ~> m_connected \/ state[t] = "running"
=============================================================================
