---------------------- MODULE InMemoryConnectionProofs ----------------------
(***************************************************************************)
(* What InMemoryConnection guarantees for any finite sets of threads, any  *)
(* payloads and any queue length.                                          *)
(***************************************************************************)
EXTENDS InMemoryConnection, FiniteSetTheorems, TLAPS

(* Every thread has one side and sends to the other.                       *)
LEMMA SidesOfThread ==
  ASSUME NEW t \in Thread
  PROVE  /\ SideOf(t) \in Side
         /\ Peer(t) \in Side
         /\ \A s \in Side : t \in ThreadsOf(s) <=> s = SideOf(t)
BY ConnectionAssumption
   DEF Thread, SideOf, Peer, Side, ThreadsOf, Link!Thread, Link!SideOf,
       Link!Peer, Link!Side

LEMMA ThreadsAreThreads == \A s \in Side : ThreadsOf(s) \subseteq Thread
BY DEF ThreadsOf, Thread, Link!Thread, Side, Link!Side

(* Finishing a receive keeps queues and answers well-typed.                *)
LEMMA TakeKeepsTypes ==
  ASSUME TypeOK, NEW t \in Thread, TakeOrReturnNothing(t)
  PROVE  /\ m_to' \in [Side -> Seq(Data)]
         /\ returned' \in [Thread -> Data \cup
              {Link!NoCall, Link!Sent, Link!Refused, Link!Nothing}]
<1>1. SideOf(t) \in Side
  BY SidesOfThread
<1>2. CASE m_connected /\ m_to[SideOf(t)] # <<>>
  <2>1. m_to[SideOf(t)] \in Seq(Data)
    BY <1>1 DEF TypeOK
  <2>2. Head(m_to[SideOf(t)]) \in Data /\ Tail(m_to[SideOf(t)]) \in Seq(Data)
    BY <1>2, <2>1
  <2> QED  BY <1>1, <1>2, <2>2 DEF TypeOK, TakeOrReturnNothing, Return
<1>3. CASE ~(m_connected /\ m_to[SideOf(t)] # <<>>)
  BY <1>3 DEF TypeOK, TakeOrReturnNothing, Return
<1> QED  BY <1>2, <1>3

(* Type correctness, and only the wait protocol's states (runner.hpp:38-43).*)
THEOREM TypeCorrect == Spec => []TypeOK
<1>1. Init => TypeOK
  <2>1. <<>> \in Seq(Data)
    OBVIOUS
  <2>2. Init => m_connected \in BOOLEAN
    BY DEF Init
  <2>3. Init => m_to \in [Side -> Seq(Data)] /\ state \in [Thread -> ThreadState]
    BY <2>1 DEF Init, ThreadState
  <2> QED  BY <2>2, <2>3 DEF Init, TypeOK
<1>2. TypeOK /\ [Next]_vars => TypeOK'
  <2> SUFFICES ASSUME TypeOK, [Next]_vars PROVE TypeOK'
    OBVIOUS
  <2> USE DEF TypeOK, ThreadState
  <2>1. CASE Connect
    BY <2>1 DEF Connect
  <2>2. CASE Disconnect
    BY <2>2 DEF Disconnect, NotifyAll
  <2>3. ASSUME NEW t \in Thread, NEW d \in Data, Send(t, d) PROVE TypeOK'
    <3>1. m_to' \in [Side -> Seq(Data)]
      <4>1. m_to[Peer(t)] \in Seq(Data)
        BY SidesOfThread
      <4>2. Append(m_to[Peer(t)], d) \in Seq(Data)
        BY <4>1
      <4> QED  BY <2>3, <4>2 DEF Send
    <3>2. state' \in [Thread -> ThreadState]
      BY <2>3 DEF Send, NotifyOne
    <3> QED  BY <2>3, <3>1, <3>2 DEF Send, Return
  <2>4. ASSUME NEW t \in Thread, SendRefused(t) PROVE TypeOK'
    BY <2>4 DEF SendRefused, Return
  <2>5. ASSUME NEW t \in Thread, Receive(t) PROVE TypeOK'
    BY <2>5, TakeKeepsTypes DEF Receive
  <2>6. ASSUME NEW t \in Thread, Wait(t) \/ Timeout(t) \/ SpuriousWakeUp(t)
        PROVE  TypeOK'
    BY <2>6 DEF Wait, Timeout, SpuriousWakeUp
  <2>7. ASSUME NEW t \in Thread, Resume(t) PROVE TypeOK'
    BY <2>7, TakeKeepsTypes DEF Resume
  <2>8. CASE UNCHANGED vars
    BY <2>8 DEF vars
  <2> QED
    BY <2>1, <2>2, <2>3, <2>4, <2>5, <2>6, <2>7, <2>8 DEF Next
<1> QED  BY <1>1, <1>2, PTL DEF Spec

-----------------------------------------------------------------------------
(* Both wait sets are finite, and moving one thread between them moves one *)
(* unit of the count.                                                      *)
LEMMA AwakeIsFinite ==
  ASSUME NEW s \in Side
  PROVE  IsFiniteSet(Awake(s)) /\ Cardinality(Awake(s)) \in Nat
<1>1. IsFiniteSet(ThreadsOf(s))
  BY ConnectionAssumption DEF ThreadsOf
<1>2. Awake(s) \subseteq ThreadsOf(s)
  BY DEF Awake
<1>3. IsFiniteSet(Awake(s))
  BY <1>1, <1>2, FS_Subset
<1> QED  BY <1>3, FS_CardinalityType

(* A thread that is notified, times out or wakes by itself leaves the wait *)
(* set for the awake set of its own side; nothing else moves.              *)
LEMMA WakingMovesOne ==
  ASSUME TypeOK, NEW t \in Thread, NEW w \in {"woken", "timed_out"},
         state[t] = "waiting", state' = [state EXCEPT ![t] = w],
         NEW s \in Side
  PROVE  /\ Waiting(s)' \subseteq Waiting(s)
         /\ s # SideOf(t) => Cardinality(Awake(s)') = Cardinality(Awake(s))
         /\ s = SideOf(t) => Cardinality(Awake(s)') = Cardinality(Awake(s)) + 1
<1>1. ThreadsOf(s) \subseteq Thread
  BY ThreadsAreThreads
<1>2. Waiting(s)' \subseteq Waiting(s)
  BY <1>1 DEF TypeOK, Waiting
<1>3. CASE s # SideOf(t)
  <2>1. t \notin ThreadsOf(s)
    BY <1>3, SidesOfThread
  <2>2. Awake(s)' = Awake(s)
    BY <1>1, <2>1 DEF TypeOK, Awake
  <2> QED  BY <1>2, <1>3, <2>2
<1>4. CASE s = SideOf(t)
  <2>1. t \in ThreadsOf(s)
    BY <1>4, SidesOfThread
  <2>2. Awake(s)' = Awake(s) \cup {t} /\ t \notin Awake(s)
    BY <1>1, <2>1 DEF TypeOK, Awake
  <2>3. Cardinality(Awake(s) \cup {t}) = Cardinality(Awake(s)) + 1
    BY <2>2, AwakeIsFinite, FS_AddElement
  <2> QED  BY <1>2, <1>4, <2>2, <2>3
<1> QED  BY <1>3, <1>4

(* A thread that resumes leaves the awake set of its own side.             *)
LEMMA ResumingMovesOne ==
  ASSUME TypeOK, NEW t \in Thread, NEW w \in {"running", "waiting"},
         state[t] \in {"woken", "timed_out"}, state' = [state EXCEPT ![t] = w],
         NEW s \in Side
  PROVE  /\ w = "running" => Waiting(s)' = Waiting(s)
         /\ s # SideOf(t) => /\ Waiting(s)' = Waiting(s)
                             /\ Awake(s)' = Awake(s)
         /\ s = SideOf(t) => Cardinality(Awake(s)') = Cardinality(Awake(s)) - 1
<1>1. ThreadsOf(s) \subseteq Thread
  BY ThreadsAreThreads
<1>2. w = "running" => Waiting(s)' = Waiting(s)
  BY <1>1 DEF TypeOK, Waiting
<1>3. CASE s # SideOf(t)
  <2>1. t \notin ThreadsOf(s)
    BY <1>3, SidesOfThread
  <2>2. Awake(s)' = Awake(s) /\ Waiting(s)' = Waiting(s)
    BY <1>1, <2>1 DEF TypeOK, Awake, Waiting
  <2> QED  BY <1>2, <1>3, <2>2
<1>4. CASE s = SideOf(t)
  <2>1. t \in ThreadsOf(s)
    BY <1>4, SidesOfThread
  <2>2. Awake(s)' = Awake(s) \ {t} /\ t \in Awake(s)
    BY <1>1, <2>1 DEF TypeOK, Awake
  <2>3. Cardinality(Awake(s) \ {t}) = Cardinality(Awake(s)) - 1
    BY <2>2, AwakeIsFinite, FS_RemoveElement
  <2> QED  BY <1>2, <1>4, <2>2, <2>3
<1> QED  BY <1>3, <1>4

(* No lost wake-up, for any number of threads and any traffic.  The        *)
(* invariant is inductive relative to TypeOK.  (runner.cpp:30-35, 41, 66)  *)
THEOREM NoLostWakeUpHolds == Spec => []NoLostWakeUp
<1> DEFINE Awakes(s) == Cardinality(Awake(s))
           Holds(s) == Waiting(s) # {} => m_connected /\ Len(m_to[s]) <= Awakes(s)
<1>1. Init => NoLostWakeUp
  BY ThreadsAreThreads DEF Init, NoLostWakeUp, Waiting
<1>2. TypeOK /\ TypeOK' /\ NoLostWakeUp /\ [Next]_vars => NoLostWakeUp'
  <2> SUFFICES ASSUME TypeOK, TypeOK', NoLostWakeUp, [Next]_vars, NEW s \in Side
               PROVE  Holds(s)'
    BY DEF NoLostWakeUp
  <2>0. /\ Holds(s)
        /\ Awakes(s) \in Nat
        /\ m_to[s] \in Seq(Data) /\ Len(m_to[s]) \in Nat
        /\ m_to'[s] \in Seq(Data) /\ Len(m_to'[s]) \in Nat
    BY AwakeIsFinite DEF NoLostWakeUp, TypeOK
  <2>1. CASE Connect
    BY <2>0, <2>1 DEF Connect, Waiting, Awake
  <2>2. CASE Disconnect
    BY <2>2, ThreadsAreThreads DEF Disconnect, NotifyAll, Waiting
  <2>3. ASSUME NEW t \in Thread, NEW d \in Data, Send(t, d) PROVE Holds(s)'
    <3>1. CASE s # Peer(t)
      <4>1. m_to'[s] = m_to[s] /\ m_connected' = m_connected
        BY <2>3, <3>1 DEF Send, TypeOK
      <4>2. CASE UNCHANGED state
        BY <2>0, <4>1, <4>2 DEF Waiting, Awake
      <4>3. ASSUME NEW u \in Waiting(Peer(t)),
                   state' = [state EXCEPT ![u] = "woken"]
            PROVE  Holds(s)'
        <5>1. u \in Thread /\ state[u] = "waiting" /\ SideOf(u) = Peer(t)
          BY SidesOfThread, ThreadsAreThreads DEF Waiting
        <5>2. Waiting(s)' \subseteq Waiting(s) /\ Awakes(s)' = Awakes(s)
          BY <3>1, <4>3, <5>1, WakingMovesOne
        <5> QED  BY <2>0, <4>1, <5>2
      <4> QED  BY <2>3, <4>2, <4>3 DEF Send, NotifyOne
    <3>2. CASE s = Peer(t)
      <4>1. m_connected' /\ Len(m_to'[s]) = Len(m_to[s]) + 1
        <5>1. m_to'[s] = Append(m_to[s], d) /\ m_connected'
          BY <2>3, <3>2 DEF Send, TypeOK
        <5> QED  BY <2>0, <5>1
      <4>2. CASE Waiting(s) = {} /\ UNCHANGED state
        BY <4>2 DEF Waiting
      <4>3. ASSUME NEW u \in Waiting(s), state' = [state EXCEPT ![u] = "woken"]
            PROVE  Holds(s)'
        <5>1. u \in Thread /\ state[u] = "waiting" /\ SideOf(u) = s
          BY SidesOfThread, ThreadsAreThreads DEF Waiting
        <5>2. Awakes(s)' = Awakes(s) + 1
          BY <4>3, <5>1, WakingMovesOne
        <5>3. Len(m_to[s]) <= Awakes(s)
          BY <2>0
        <5> QED  BY <2>0, <4>1, <5>2, <5>3
      <4> QED  BY <2>3, <3>2, <4>2, <4>3 DEF Send, NotifyOne
    <3> QED  BY <3>1, <3>2
  <2>4. ASSUME NEW t \in Thread, SendRefused(t) PROVE Holds(s)'
    BY <2>0, <2>4 DEF SendRefused, Waiting, Awake
  <2>5. ASSUME NEW t \in Thread, Receive(t) PROVE Holds(s)'
    <3>1. Waiting(s)' = Waiting(s) /\ Awakes(s)' = Awakes(s)
      BY <2>5 DEF Receive, Waiting, Awake
    <3>2. Len(m_to'[s]) <= Len(m_to[s])
      <4>1. m_to'[s] = m_to[s] \/ (m_to[s] # <<>> /\ m_to'[s] = Tail(m_to[s]))
        BY <2>5 DEF Receive, TakeOrReturnNothing, TypeOK
      <4>2. m_to[s] # <<>> => Len(Tail(m_to[s])) = Len(m_to[s]) - 1
        BY <2>0
      <4>3. CASE m_to'[s] = m_to[s]
        BY <2>0, <4>3
      <4>4. CASE m_to[s] # <<>> /\ m_to'[s] = Tail(m_to[s])
        BY <2>0, <4>2, <4>4
      <4> QED  BY <4>1, <4>3, <4>4
    <3> QED  BY <2>0, <2>5, <3>1, <3>2 DEF Receive
  <2>6. ASSUME NEW t \in Thread, Wait(t) PROVE Holds(s)'
    <3>1. m_connected' /\ UNCHANGED m_to /\ m_to[SideOf(t)] = <<>>
      BY <2>6 DEF Wait, Predicate, TypeOK
    <3>2. CASE s = SideOf(t)
      <4>1. Awake(s)' = Awake(s)
        BY <2>6, ThreadsAreThreads DEF Wait, Awake, TypeOK
      <4>2. Len(m_to'[s]) = 0
        BY <3>1, <3>2
      <4> QED  BY <2>0, <3>1, <4>1, <4>2
    <3>3. CASE s # SideOf(t)
      <4>1. Waiting(s)' = Waiting(s) /\ Awake(s)' = Awake(s)
        BY <2>6, <3>3, SidesOfThread, ThreadsAreThreads
           DEF Wait, Waiting, Awake, TypeOK
      <4> QED  BY <2>0, <3>1, <4>1
    <3> QED  BY <3>2, <3>3
  <2>7. ASSUME NEW t \in Thread, Timeout(t) \/ SpuriousWakeUp(t) PROVE Holds(s)'
    <3>1. Waiting(s)' \subseteq Waiting(s) /\ Awakes(s)' >= Awakes(s)
      BY <2>0, <2>7, WakingMovesOne DEF Timeout, SpuriousWakeUp
    <3>2. UNCHANGED <<m_connected, m_to>>
      BY <2>7 DEF Timeout, SpuriousWakeUp
    <3>3. Awakes(s)' \in Nat
      BY AwakeIsFinite, <2>7, <2>0, WakingMovesOne DEF Timeout, SpuriousWakeUp
    <3> QED  BY <2>0, <3>1, <3>2, <3>3
  <2>8. ASSUME NEW t \in Thread, Resume(t) PROVE Holds(s)'
    <3>1. CASE s # SideOf(t)
      <4>1. Waiting(s)' = Waiting(s) /\ Awake(s)' = Awake(s)
        BY <2>8, <3>1, ResumingMovesOne DEF Resume
      <4>2. m_to'[s] = m_to[s] /\ m_connected' = m_connected
        BY <2>8, <3>1 DEF Resume, TakeOrReturnNothing, TypeOK
      <4> QED  BY <2>0, <4>1, <4>2
    <3>2. CASE s = SideOf(t) /\ state' = [state EXCEPT ![t] = "waiting"]
      <4>1. ~Predicate(s) /\ UNCHANGED <<m_connected, m_to>>
        BY <2>8, <3>2 DEF Resume, TypeOK
      <4>2. m_connected' /\ Len(m_to'[s]) = 0
        BY <4>1, <2>0 DEF Predicate, TypeOK
      <4>3. Awakes(s)' = Awakes(s) - 1 /\ t \in Awake(s)
        BY <2>8, <3>2, ResumingMovesOne, SidesOfThread DEF Resume, Awake
      <4>4. Awakes(s) # 0
        BY <4>3, AwakeIsFinite, FS_EmptySet
      <4> QED  BY <2>0, <4>2, <4>3, <4>4
    <3>3. CASE s = SideOf(t) /\ state' = [state EXCEPT ![t] = "running"]
      <4>1. TakeOrReturnNothing(t) /\ m_connected' = m_connected
        BY <2>8, <3>3 DEF Resume, TypeOK
      <4>2. Waiting(s)' = Waiting(s) /\ Awakes(s)' = Awakes(s) - 1
        BY <2>8, <3>3, ResumingMovesOne DEF Resume
      <4>3. t \in Awake(s)
        BY <2>8, <3>3, SidesOfThread DEF Resume, Awake
      <4>4. Awakes(s) # 0
        BY <4>3, AwakeIsFinite, FS_EmptySet
      <4>5. CASE m_connected /\ m_to[s] # <<>>
        <5>1. m_to'[s] = Tail(m_to[s])
          BY <3>3, <4>1, <4>5 DEF TakeOrReturnNothing, TypeOK
        <5> QED  BY <2>0, <4>1, <4>2, <4>5, <5>1
      <4>6. CASE ~m_connected
        BY <2>0, <4>2, <4>6
      <4>7. CASE m_to[s] = <<>>
        <5>1. m_to'[s] = <<>>
          BY <3>3, <4>1, <4>7 DEF TakeOrReturnNothing
        <5> QED  BY <2>0, <4>1, <4>2, <4>4, <5>1
      <4> QED  BY <4>5, <4>6, <4>7
    <3> QED  BY <2>8, <3>1, <3>2, <3>3 DEF Resume
  <2>9. CASE UNCHANGED vars
    BY <2>0, <2>9 DEF vars, Waiting, Awake
  <2> QED
    BY <2>1, <2>2, <2>3, <2>4, <2>5, <2>6, <2>7, <2>8, <2>9 DEF Next
<1> QED  BY <1>1, <1>2, TypeCorrect, PTL DEF Spec

-----------------------------------------------------------------------------
(* Every method of InMemoryConnection is one instantaneous operation of a  *)
(* duplex FIFO link, waiting and waking are invisible.  (runner.cpp:24-85) *)
THEOREM LinkImplemented == Spec => ImplementsLink
<1>1. Init => Link!Init
  BY DEF Init, Link!Init, Side, Thread
<1>2. TypeOK /\ [Next]_vars => [Link!Next]_(Link!vars)
  <2> SUFFICES ASSUME TypeOK, [Next]_vars
               PROVE  Link!Next \/ UNCHANGED Link!vars
    OBVIOUS
  <2>1. ASSUME NEW t \in Thread, TakeOrReturnNothing(t), UNCHANGED m_connected
        PROVE  Link!Take(t) \/ Link!ComeBackEmpty(t)
    BY <2>1
       DEF TakeOrReturnNothing, Return, SideOf, Link!Take, Link!ComeBackEmpty,
           Link!Answer
  <2>2. CASE Connect
    BY <2>2 DEF Connect, Link!Next, Link!Connect
  <2>3. CASE Disconnect
    BY <2>3 DEF Disconnect, Link!Next, Link!Disconnect
  <2>4. ASSUME NEW t \in Thread, NEW d \in Data, Send(t, d) PROVE Link!Next
    <3>1. Link!Put(t, d)
      BY <2>4 DEF Send, Return, Peer, Link!Put, Link!Answer
    <3> QED  BY <3>1 DEF Link!Next, Thread
  <2>5. ASSUME NEW t \in Thread, SendRefused(t) PROVE Link!Next
    <3>1. Link!Refuse(t)
      BY <2>5 DEF SendRefused, Return, Link!Refuse, Link!Answer
    <3> QED  BY <3>1 DEF Link!Next, Thread
  <2>6. ASSUME NEW t \in Thread, Receive(t) PROVE Link!Next
    BY <2>1, <2>6 DEF Receive, Link!Next, Thread
  <2>7. ASSUME NEW t \in Thread, Wait(t) \/ Timeout(t) \/ SpuriousWakeUp(t)
        PROVE  UNCHANGED Link!vars
    BY <2>7 DEF Wait, Timeout, SpuriousWakeUp, Link!vars
  <2>8. ASSUME NEW t \in Thread, Resume(t)
        PROVE  Link!Next \/ UNCHANGED Link!vars
    BY <2>1, <2>8 DEF Resume, Link!Next, Link!vars, Thread
  <2>9. CASE UNCHANGED vars
    BY <2>9 DEF vars, Link!vars
  <2> QED
    BY <2>2, <2>3, <2>4, <2>5, <2>6, <2>7, <2>8, <2>9 DEF Next
<1> QED  BY <1>1, <1>2, TypeCorrect, PTL DEF Spec, ImplementsLink, Link!Spec
=============================================================================
