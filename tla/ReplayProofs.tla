----------------------------- MODULE ReplayProofs -----------------------------
(***************************************************************************)
(* Theorems about Replay: types, what the system under test is given, and  *)
(* at what pace, for any logs and any room in the kernel.                  *)
(***************************************************************************)
EXTENDS Replay, FiniteSetTheorems, TLAPS

LEMMA LineOf ==
  ASSUME TypeOK, NEW i \in 1..Len(file)
  PROVE  /\ Len(file) \in Nat
         /\ file[i].size \in Nat \ {0} /\ file[i].time \in Int
<1>1. file \in Seq(Line)
  BY DEF TypeOK
<1>2. file[i] \in Line
  <2> HIDE DEF Line
  <2> QED BY <1>1
<1>3. Len(file) \in Nat
  <2> HIDE DEF Line
  <2> QED BY <1>1
<1> QED BY <1>2, <1>3 DEF Line

(* What a send that took n units leaves in handed.                         *)
LEMMA Appended ==
  ASSUME handed \in Seq(Unit), next \in Nat, total_sent \in Nat, NEW n \in Nat,
         handed' = handed \o Units(n)
  PROVE  /\ handed' \in Seq(Unit)
         /\ Len(handed) \in Nat /\ Len(handed') = Len(handed) + n
         /\ DOMAIN handed = 1..Len(handed) /\ DOMAIN handed' = 1..(Len(handed) + n)
         /\ \A p \in 1..Len(handed) : handed'[p] = handed[p]
         /\ \A k \in 1..n : handed'[Len(handed) + k] = [line |-> next, at |-> total_sent + k]
<1> DEFINE U == Unit
           unit(k) == [line |-> next, at |-> total_sent + k]
           new == [k \in 1..n |-> unit(k)]
<1>1. \A k \in 1..n : unit(k) \in U
  BY DEF Unit
<1>2. handed \in Seq(U) /\ handed' = handed \o new
  BY DEF Units
<1> HIDE DEF U, unit
<1>3. new \in Seq(U) /\ Len(new) = n /\ \A k \in 1..n : new[k] = unit(k)
  BY <1>1
<1> HIDE DEF new
<1>4. /\ handed' \in Seq(U)
      /\ Len(handed) \in Nat /\ Len(handed') = Len(handed) + n
      /\ DOMAIN handed = 1..Len(handed) /\ DOMAIN handed' = 1..(Len(handed) + n)
      /\ \A p \in 1..Len(handed) : handed'[p] = handed[p]
      /\ \A k \in 1..n : handed'[Len(handed) + k] = new[k]
  BY <1>2, <1>3
<1>5. \A k \in 1..n : handed'[Len(handed) + k] = unit(k)
  BY <1>3, <1>4
<1> QED BY <1>4, <1>5 DEF U, unit

-----------------------------------------------------------------------------
(* A message that is being sent is one of the file.                        *)
Types ==
  /\ TypeOK
  /\ phase = "send" => next \in 1..Len(file)

LEMMA InitTypes == Init => Types
<1> SUFFICES ASSUME Init PROVE Types
  OBVIOUS
<1>1. <<>> \in Seq(Unit) /\ Len(<<>>) = 0
  OBVIOUS
<1>2. file \in Seq(Line)
  BY ReplayAssumption DEF Init
<1>3. Len(file) \in Nat
  <2> HIDE DEF Line
  <2> QED BY <1>2
<1>4. handed \in Seq(Unit) /\ arrived \in 0..Len(handed)
  BY <1>1 DEF Init
<1>5. next \in 0..Len(file) /\ unread \in 0..AnswerRoom
  BY <1>3, ReplayAssumption DEF Init
<1>6. /\ phase \in {"connect", "open", "line", "send", "close", "done"} /\ phase # "send"
      /\ link \in {"none", "up", "left", "reset", "closed"}
      /\ peer \in {"reading", "answering", "gone"}
  BY DEF Init
<1>7. /\ preserve_timing \in BOOLEAN /\ first_msg \in BOOLEAN /\ success \in BOOLEAN
      /\ m_socket \in BOOLEAN /\ answers \in BOOLEAN
  BY DEF Init
<1>8. total_sent \in Nat /\ messages_sent \in Nat /\ last_msg_time \in Int /\ slept \in Nat
  BY DEF Init
<1> QED BY <1>2, <1>4, <1>5, <1>6, <1>7, <1>8 DEF Types, TypeOK

LEMMA NextTypes == Types /\ [Next]_vars => Types'
<1> SUFFICES ASSUME Types, [Next]_vars PROVE Types'
  OBVIOUS
<1> USE ReplayAssumption
<1>0. TypeOK /\ Len(file) \in Nat /\ Len(handed) \in Nat
  <2>0. TypeOK
    BY DEF Types
  <2>1. file \in Seq(Line) /\ handed \in Seq(Unit)
    BY DEF Types, TypeOK
  <2> HIDE DEF Line, Unit
  <2> QED BY <2>0, <2>1
<1>1. CASE Connect \/ ConnectFails \/ OpenFile
  <2>1. /\ UNCHANGED <<file, preserve_timing, next, total_sent, messages_sent, last_msg_time,
                       first_msg, slept, handed, arrived, peer, answers, unread>>
        /\ phase' \in {"open", "line", "close", "done"}
    BY <1>1 DEF Connect, ConnectFails, OpenFile, Return, result, timing, wire, sut
  <2>2. /\ success' \in BOOLEAN /\ m_socket' \in BOOLEAN
        /\ link' \in {"none", "up", "left", "reset", "closed"}
    BY <1>0, <1>1 DEF Connect, ConnectFails, OpenFile, Return, result, wire, TypeOK
  <2> QED BY <1>0, <2>1, <2>2 DEF Types, TypeOK
<1>6. CASE SkipLine \/ EndOfFile
  <2>1. success' \in BOOLEAN /\ phase' \in {"line", "close"}
    BY <1>0, <1>6 DEF SkipLine, EndOfFile, Return, result, TypeOK
  <2>2. next' \in 0..Len(file)
    BY <1>0, <1>6 DEF SkipLine, EndOfFile, TypeOK
  <2>3. UNCHANGED <<file, preserve_timing, total_sent, messages_sent, last_msg_time, first_msg,
                    slept, m_socket, link, handed, arrived, peer, answers, unread>>
    BY <1>6 DEF SkipLine, EndOfFile, Return, result, timing, wire, sut
  <2> QED BY <1>0, <2>1, <2>2, <2>3 DEF Types, TypeOK
<1>7. CASE SendFails \/ SendKills \/ Close
  <2>1. /\ UNCHANGED <<file, preserve_timing, next, total_sent, messages_sent, last_msg_time,
                       first_msg, slept, handed, arrived, peer, answers, unread>>
        /\ phase' \in {"close", "done"}
    BY <1>7 DEF SendFails, SendKills, Close, Return, result, timing, wire, sut
  <2>2. /\ success' \in BOOLEAN /\ m_socket' \in BOOLEAN
        /\ link' \in {"none", "up", "left", "reset", "closed"}
    BY <1>0, <1>7 DEF SendFails, SendKills, Close, Return, result, wire, TypeOK
  <2> QED BY <1>0, <2>1, <2>2 DEF Types, TypeOK
<1>2. CASE BeginMessage
  <2>1. next + 1 \in 1..Len(file)
    BY <1>0, <1>2 DEF BeginMessage, Types, TypeOK
  <2>2. MsgTime(next + 1) \in Int
    BY <1>0, <2>1, LineOf DEF MsgTime
  <2>3. Delay(next + 1) \in Nat
    BY <1>0, <2>2 DEF Delay, TypeOK
  <2> QED BY <1>0, <1>2, <2>1, <2>3 DEF BeginMessage, result, wire, sut, Types, TypeOK
<1>3. ASSUME NEW n \in 1..Room, SendTakes(n) PROVE Types'
  <2>1. next \in Nat /\ total_sent \in Nat /\ n \in Nat /\ handed \in Seq(Unit)
        /\ handed' = handed \o Units(n)
    BY <1>0, <1>3 DEF SendTakes, TypeOK
  <2>2. handed' \in Seq(Unit) /\ Len(handed') = Len(handed) + n
    BY <2>1, Appended
  <2>3. arrived' \in 0..Len(handed')
    BY <1>0, <1>3, <2>1, <2>2 DEF SendTakes, TypeOK
  <2>4. total_sent' \in Nat /\ messages_sent' \in Nat /\ phase' \in {"send", "line"}
    <3>1. phase = "send" /\ messages_sent \in Nat
      BY <1>0, <1>3 DEF SendTakes, TypeOK
    <3> QED BY <1>3, <2>1, <3>1 DEF SendTakes
  <2>5. last_msg_time' \in Int /\ first_msg' \in BOOLEAN
    <3>1. MsgTime(next) \in Int
      BY <1>0, <1>3, LineOf DEF SendTakes, Types, MsgTime
    <3> QED BY <1>3, <3>1 DEF SendTakes, RememberTime, Types, TypeOK
  <2>6. UNCHANGED <<file, preserve_timing, next, success, slept, m_socket, link, sut>>
        /\ (phase' = "send" => phase = "send")
    BY <1>3 DEF SendTakes
  <2> QED BY <1>0, <2>2, <2>3, <2>4, <2>5, <2>6 DEF sut, Types, TypeOK
<1>4. CASE PeerReads \/ PeerAnswers \/ PeerLeaves \/ ResetArrives
  <2>1. UNCHANGED <<phase, file, preserve_timing, next, total_sent, messages_sent, success,
                    last_msg_time, first_msg, slept, m_socket, handed, answers>>
    BY <1>4 DEF PeerReads, PeerAnswers, PeerLeaves, ResetArrives, result, timing, sut
  <2>2. arrived' \in 0..Len(handed)
    BY <1>0, <1>4 DEF PeerReads, PeerAnswers, PeerLeaves, ResetArrives, OnItsWay, TypeOK
  <2>3. /\ link' \in {"none", "up", "left", "reset", "closed"}
        /\ peer' \in {"reading", "answering", "gone"}
    BY <1>0, <1>4 DEF PeerReads, PeerAnswers, PeerLeaves, ResetArrives, sut, TypeOK
  <2>4. unread' \in 0..AnswerRoom
    BY <1>0, <1>4 DEF PeerReads, PeerAnswers, PeerLeaves, ResetArrives, sut, TypeOK
  <2> QED BY <2>1, <2>2, <2>3, <2>4 DEF Types, TypeOK
<1>5. CASE UNCHANGED vars
  BY <1>5 DEF vars, result, timing, wire, sut, Types, TypeOK
<1> QED BY <1>1, <1>2, <1>3, <1>4, <1>5, <1>6, <1>7 DEF Next, Replayer

(* The state of the replay, of the connection and of its other end keeps   *)
(* its types.  (replay.cpp:50-107, runner.cpp:104-155)                     *)
THEOREM TypeCorrect == Spec => []TypeOK
<1>1. Spec => []Types
  BY InitTypes, NextTypes, PTL DEF Spec
<1>2. Types => TypeOK
  BY DEF Types
<1> QED BY <1>1, <1>2, PTL

-----------------------------------------------------------------------------
(* What has been handed over is in order, and the replay knows where it    *)
(* stands.                                                                 *)

Chained ==
  \A p \in DOMAIN handed : IF p = 1 THEN First(handed[p]) ELSE Follows(handed[p - 1], handed[p])

(* Everything up to line n has been handed over, and nothing else.         *)
Exactly(n) ==
  /\ CompleteUpTo(n)
  /\ handed # <<>> => handed[Len(handed)].line \in 1..n

Reached ==
  /\ phase \in {"connect", "open", "line"} => Exactly(next)
  /\ phase = "send" =>
       /\ total_sent < file[next].size
       /\ IF total_sent = 0 THEN Exactly(next - 1)
          ELSE handed # <<>> /\ handed[Len(handed)] = [line |-> next, at |-> total_sent]
  /\ success => phase \in {"close", "done"} /\ CompleteUpTo(Len(file))

InOrderSoFar == Chained /\ Reached

LEMMA InitOrdered == Init => InOrderSoFar
<1> SUFFICES ASSUME Init PROVE InOrderSoFar
  OBVIOUS
<1>1. handed = <<>> /\ DOMAIN handed = {} /\ next = 0 /\ success = FALSE /\ phase = "connect"
  BY DEF Init
<1>2. SkippedIn(1..0)
  BY DEF SkippedIn
<1> QED BY <1>1, <1>2 DEF InOrderSoFar, Chained, Reached, Exactly, CompleteUpTo

(* A step that neither moves on in the file nor hands anything over.       *)
LEMMA NothingHanded ==
  ASSUME InOrderSoFar, file' = file, handed' = handed, next' = next, total_sent' = total_sent,
         \/ phase' = phase /\ success' = success
         \/ phase = "connect" /\ phase' = "open" /\ success' = success
         \/ phase = "open" /\ phase' = "line" /\ success' = success
         \/ phase' \in {"close", "done"} /\ success' = success
         \/ phase' \in {"close", "done"} /\ success' = FALSE
         \/ phase = "line" /\ next = Len(file) /\ phase' = "close"
  PROVE  InOrderSoFar'
<1>1. Chained'
  BY DEF InOrderSoFar, Chained, First, Follows, SkippedIn, Skipped
<1>2. \A n : Exactly(n)' <=> Exactly(n)
  BY DEF Exactly, CompleteUpTo, SkippedIn, Skipped
<1>3. \A n : CompleteUpTo(n)' <=> CompleteUpTo(n)
  BY DEF CompleteUpTo, SkippedIn, Skipped
<1>4. Reached'
  BY <1>2, <1>3 DEF InOrderSoFar, Reached, Exactly
<1> QED BY <1>1, <1>4 DEF InOrderSoFar

(* A send appends what comes next.                                         *)
LEMMA SendTakesInOrder ==
  ASSUME Types, InOrderSoFar, NEW n \in 1..Room, SendTakes(n)
  PROVE  InOrderSoFar'
<1> DEFINE H == Len(handed)
           size == file[next].size
<1> USE ReplayAssumption
<1>1. /\ TypeOK /\ next \in 1..Len(file) /\ next \in Nat /\ total_sent \in Nat /\ n \in Nat
      /\ handed \in Seq(Unit) /\ handed' = handed \o Units(n)
      /\ phase = "send" /\ file' = file /\ next' = next /\ success' = success /\ ~success
  BY DEF Types, TypeOK, SendTakes, InOrderSoFar, Reached
<1>2. size \in Nat \ {0} /\ n <= size - total_sent /\ total_sent < size
  BY <1>1, LineOf DEF SendTakes, InOrderSoFar, Reached
<1>3. /\ H \in Nat /\ Len(handed') = H + n
      /\ DOMAIN handed = 1..H /\ DOMAIN handed' = 1..(H + n)
      /\ \A p \in 1..H : handed'[p] = handed[p]
      /\ \A k \in 1..n : handed'[H + k] = [line |-> next, at |-> total_sent + k]
  BY <1>1, Appended
<1>4. H = 0 <=> handed = <<>>
  <2> HIDE DEF Unit
  <2> QED BY <1>1
<1>5. ASSUME NEW u, NEW v PROVE (Follows(u, v)' <=> Follows(u, v)) /\ (First(u)' <=> First(u))
  BY <1>1 DEF Follows, First, SkippedIn, Skipped
<1>6. ASSUME NEW p \in 1..(H + n)
      PROVE  IF p = 1 THEN First(handed'[p]) ELSE Follows(handed'[p - 1], handed'[p])
  <2>1. CASE p \in 1..H
    <3>1. p = 1 \/ p - 1 \in 1..H
      BY <1>3, <2>1
    <3> QED BY <1>3, <2>1, <3>1 DEF InOrderSoFar, Chained
  <2>2. CASE p = H + 1
    <3>1. handed'[p] = [line |-> next, at |-> total_sent + 1]
      <4>1. 1 \in 1..n
        BY <1>1
      <4> QED BY <1>3, <2>2, <4>1
    <3>2. CASE H = 0
      <4>1. total_sent = 0 /\ SkippedIn(1..(next - 1))
        BY <1>1, <1>4, <3>2 DEF InOrderSoFar, Reached, Exactly, CompleteUpTo
      <4> QED BY <2>2, <3>1, <3>2, <4>1 DEF First
    <3>3. CASE H # 0 /\ total_sent = 0
      <4>1. Exactly(next - 1)
        BY <1>1, <3>3 DEF InOrderSoFar, Reached
      <4>2. /\ handed[H].at = file[handed[H].line].size
            /\ SkippedIn((handed[H].line + 1)..(next - 1))
            /\ handed[H].line \in 1..(next - 1)
        BY <1>4, <3>3, <4>1 DEF Exactly, CompleteUpTo
      <4>3. handed'[p - 1] = handed[H] /\ p # 1
        BY <1>3, <2>2, <3>3
      <4> QED BY <1>1, <3>1, <3>3, <4>2, <4>3 DEF Follows
    <3>4. CASE H # 0 /\ total_sent # 0
      <4>1. handed[H] = [line |-> next, at |-> total_sent]
        BY <1>1, <3>4 DEF InOrderSoFar, Reached
      <4>2. handed'[p - 1] = handed[H] /\ p # 1
        BY <1>3, <2>2, <3>4
      <4> QED BY <3>1, <4>1, <4>2 DEF Follows
    <3> QED BY <3>2, <3>3, <3>4
  <2>3. CASE p \in (H + 2)..(H + n)
    <3>1. PICK k \in 2..n : p = H + k
      <4>1. p - H \in 2..n /\ p = H + (p - H)
        BY <1>1, <1>3, <2>3
      <4> QED BY <4>1
    <3>2. handed'[p] = [line |-> next, at |-> total_sent + k]
      BY <1>1, <1>3, <3>1
    <3>3. k - 1 \in 1..n /\ p - 1 = H + (k - 1) /\ p # 1
      BY <1>1, <1>3, <3>1
    <3>4. handed'[p - 1] = [line |-> next, at |-> total_sent + (k - 1)]
      BY <1>3, <3>3
    <3>5. total_sent + (k - 1) + 1 = total_sent + k
      BY <1>1, <3>1
    <3> QED BY <3>2, <3>3, <3>4, <3>5 DEF Follows
  <2> QED BY <1>1, <1>3, <2>1, <2>2, <2>3
<1>7. Chained'
  BY <1>3, <1>5, <1>6 DEF Chained
<1>8. handed'[Len(handed')] = [line |-> next, at |-> total_sent + n] /\ handed' # <<>>
  <2>1. n \in 1..n /\ Len(handed') # 0
    BY <1>1, <1>3
  <2> QED BY <1>3, <2>1
<1>9. Reached'
  <2>1. CASE total_sent + n < size
    <3>1. total_sent' = total_sent + n /\ total_sent' # 0 /\ phase' = "send"
      BY <1>1, <2>1 DEF SendTakes
    <3> QED BY <1>1, <1>8, <2>1, <3>1 DEF Reached
  <2>2. CASE ~(total_sent + n < size)
    <3>0. phase' = "line"
      BY <1>1, <2>2 DEF SendTakes
    <3>1. total_sent + n = size
      <4> HIDE DEF size
      <4> QED BY <1>1, <1>2, <2>2
    <3>2. SkippedIn((next + 1)..next)'
      BY <1>1 DEF SkippedIn
    <3>3. Exactly(next)'
      BY <1>1, <1>8, <3>1, <3>2 DEF Exactly, CompleteUpTo
    <3> QED BY <1>1, <3>0, <3>3 DEF Reached
  <2> QED BY <2>1, <2>2
<1> QED BY <1>7, <1>9 DEF InOrderSoFar

LEMMA NextInOrder == Types /\ InOrderSoFar /\ [Next]_vars => InOrderSoFar'
<1> SUFFICES ASSUME Types, InOrderSoFar, [Next]_vars PROVE InOrderSoFar'
  OBVIOUS
<1>1. CASE Connect \/ ConnectFails \/ OpenFile
  BY <1>1, NothingHanded DEF Connect, ConnectFails, OpenFile, Return, result, wire
<1>2. CASE EndOfFile \/ SendFails \/ SendKills \/ Close
  BY <1>2, NothingHanded DEF EndOfFile, SendFails, SendKills, Close, Return, result, wire
<1>3. CASE SkipLine \/ BeginMessage
  <2>1. /\ phase = "line" /\ next < Len(file) /\ next' = next + 1 /\ file' = file
        /\ handed' = handed /\ success' = success
    BY <1>3 DEF SkipLine, BeginMessage, result, wire
  <2>2. next \in Nat /\ next + 1 \in 1..Len(file) /\ ~success /\ Exactly(next)
    <3>1. next \in 0..Len(file) /\ Len(file) \in Nat
      <4>1. file \in Seq(Line) /\ next \in 0..Len(file)
        BY DEF Types, TypeOK
      <4> HIDE DEF Line
      <4> QED BY <4>1
    <3> QED BY <2>1, <3>1 DEF InOrderSoFar, Reached
  <2>3. Chained'
    BY <2>1 DEF InOrderSoFar, Chained, First, Follows, SkippedIn, Skipped
  <2>6. \A n : Exactly(n)' <=> Exactly(n)
    BY <2>1 DEF Exactly, CompleteUpTo, SkippedIn, Skipped
  <2>4. CASE SkipLine
    <3>1. Skipped(next + 1) /\ phase' = "line"
      BY <2>1, <2>4 DEF SkipLine
    <3>2. Exactly(next + 1)
      <4>1. CASE handed = <<>>
        <5>1. SkippedIn(1..next)
          BY <2>2, <4>1 DEF Exactly, CompleteUpTo
        <5>2. SkippedIn(1..(next + 1))
          BY <2>2, <3>1, <5>1 DEF SkippedIn
        <5> QED BY <4>1, <5>2 DEF Exactly, CompleteUpTo
      <4>2. CASE handed # <<>>
        <5> DEFINE u == handed[Len(handed)]
        <5>1. u.at = file[u.line].size /\ SkippedIn((u.line + 1)..next) /\ u.line \in 1..next
          BY <2>2, <4>2 DEF Exactly, CompleteUpTo
        <5>2. SkippedIn((u.line + 1)..(next + 1))
          BY <2>2, <3>1, <5>1 DEF SkippedIn
        <5>3. u.line \in 1..(next + 1)
          BY <2>2, <5>1
        <5> QED BY <4>2, <5>1, <5>2, <5>3 DEF Exactly, CompleteUpTo
      <4> QED BY <4>1, <4>2
    <3>3. Exactly(next)'
      BY <2>1, <2>6, <3>2
    <3> QED BY <2>1, <2>2, <2>3, <3>1, <3>3 DEF InOrderSoFar, Reached
  <2>5. CASE BeginMessage
    <3>1. phase' = "send" /\ total_sent' = 0
      BY <2>5 DEF BeginMessage
    <3>2. 0 < file'[next'].size
      BY <2>1, <2>2, LineOf DEF Types
    <3>3. next' - 1 = next
      BY <2>1, <2>2
    <3>4. Exactly(next - 1)'
      BY <2>2, <2>6, <3>3
    <3> QED BY <2>1, <2>2, <2>3, <3>1, <3>2, <3>4 DEF InOrderSoFar, Reached
  <2> QED BY <1>3, <2>4, <2>5
<1>4. ASSUME NEW n \in 1..Room, SendTakes(n) PROVE InOrderSoFar'
  BY <1>4, SendTakesInOrder
<1>5. CASE PeerReads \/ PeerAnswers \/ PeerLeaves \/ ResetArrives
  BY <1>5, NothingHanded DEF PeerReads, PeerAnswers, PeerLeaves, ResetArrives, result
<1>6. CASE UNCHANGED vars
  BY <1>6, NothingHanded DEF vars, result, wire
<1> QED BY <1>1, <1>2, <1>3, <1>4, <1>5, <1>6 DEF Next, Replayer

(* The messages of the log are handed over in their order, nothing twice   *)
(* and nothing left out, and all of them if the replay succeeds, into      *)
(* whatever pieces send cuts them.  (replay.cpp:64-106, runner.cpp:143-155)*)
THEOREM InOrderHolds == Spec => []InOrder
<1>1. Spec => [](Types /\ InOrderSoFar)
  BY InitTypes, NextTypes, InitOrdered, NextInOrder, PTL DEF Spec
<1>2. InOrderSoFar => InOrder
  BY DEF InOrderSoFar, Chained, Reached, InOrder
<1> QED BY <1>1, <1>2, PTL

-----------------------------------------------------------------------------
(* Where a message handed over whole ends.                                 *)
Wholes == {p \in DOMAIN handed : handed[p].at = file[handed[p].line].size}

Counted == IsFiniteSet(Wholes) /\ messages_sent = Cardinality(Wholes)

LEMMA SendTakesCounts ==
  ASSUME Types, InOrderSoFar, Counted, NEW n \in 1..Room, SendTakes(n)
  PROVE  Counted'
<1> DEFINE H == Len(handed)
           size == file[next].size
<1> USE ReplayAssumption
<1>1. /\ TypeOK /\ next \in 1..Len(file) /\ next \in Nat /\ total_sent \in Nat /\ n \in Nat
      /\ handed \in Seq(Unit) /\ handed' = handed \o Units(n) /\ file' = file
  BY DEF Types, TypeOK, SendTakes
<1>2. size \in Nat \ {0} /\ n <= size - total_sent
  BY <1>1, LineOf DEF SendTakes
<1>3. /\ H \in Nat
      /\ DOMAIN handed = 1..H /\ DOMAIN handed' = 1..(H + n)
      /\ \A p \in 1..H : handed'[p] = handed[p]
      /\ \A k \in 1..n : handed'[H + k] = [line |-> next, at |-> total_sent + k]
  BY <1>1, Appended
<1>4. \A p \in 1..H : p \in Wholes' <=> p \in Wholes
  BY <1>1, <1>3 DEF Wholes
<1>5. ASSUME NEW k \in 1..n PROVE H + k \in Wholes' <=> total_sent + k = size
  <2>1. H + k \in DOMAIN handed'
    BY <1>1, <1>3
  <2>2. handed'[H + k].at = total_sent + k /\ handed'[H + k].line = next
    <3> DEFINE u == handed'[H + k]
    <3>1. u = [line |-> next, at |-> total_sent + k]
      BY <1>3
    <3> HIDE DEF u
    <3>2. u.at = total_sent + k /\ u.line = next
      BY <3>1
    <3> QED BY <3>2 DEF u
  <2> QED BY <1>1, <2>1, <2>2 DEF Wholes
<1>6. Wholes \subseteq 1..H /\ Wholes' \subseteq 1..(H + n)
  BY <1>3 DEF Wholes
<1>7. ASSUME NEW p \in 1..(H + n), p \notin 1..H PROVE \E k \in 1..n : p = H + k
  <2>1. p - H \in 1..n /\ p = H + (p - H)
    BY <1>1, <1>3, <1>7
  <2> QED BY <2>1
<1> HIDE DEF H, size
<1>8. CASE total_sent + n < size
  <2>1. \A k \in 1..n : total_sent + k # size
    BY <1>1, <1>2, <1>8
  <2>2. Wholes' = Wholes
    BY <1>4, <1>5, <1>6, <1>7, <2>1, <1>3, <1>1
  <2>3. messages_sent' = messages_sent
    BY <1>8 DEF SendTakes, size
  <2> QED BY <2>2, <2>3 DEF Counted
<1>9. CASE ~(total_sent + n < size)
  <2>1. \A k \in 1..n : total_sent + k = size <=> k = n
    BY <1>1, <1>2, <1>9
  <2>2. n \in 1..n /\ H + n \notin 1..H
    BY <1>1, <1>3
  <2>3. H + n \in Wholes' /\ \A k \in 1..n : H + k \in Wholes' => H + k = H + n
    BY <1>5, <2>1, <2>2
  <2>4. \A p \in 1..H : p \in 1..(H + n)
    BY <1>1, <1>3
  <2>5. Wholes' = Wholes \cup {H + n}
    BY <1>4, <1>6, <1>7, <2>3, <2>4
  <2>6. H + n \notin Wholes
    BY <1>6, <2>2
  <2>7. messages_sent' = messages_sent + 1
    BY <1>9 DEF SendTakes, size
  <2> QED BY <2>5, <2>6, <2>7, FS_AddElement DEF Counted
<1> QED BY <1>8, <1>9

LEMMA NextCounts == Types /\ InOrderSoFar /\ Counted /\ [Next]_vars => Counted'
<1> SUFFICES ASSUME Types, InOrderSoFar, Counted, [Next]_vars PROVE Counted'
  OBVIOUS
<1>1. ASSUME file' = file, handed' = handed, messages_sent' = messages_sent PROVE Counted'
  BY <1>1 DEF Counted, Wholes
<1>2. CASE Connect \/ ConnectFails \/ OpenFile \/ SkipLine \/ BeginMessage \/ EndOfFile
  BY <1>1, <1>2 DEF Connect, ConnectFails, OpenFile, SkipLine, BeginMessage, EndOfFile, Return,
                    result, wire
<1>3. ASSUME NEW n \in 1..Room, SendTakes(n) PROVE Counted'
  BY <1>3, SendTakesCounts
<1>4. CASE SendFails \/ SendKills \/ Close
  BY <1>1, <1>4 DEF SendFails, SendKills, Close, Return, result, wire
<1>5. CASE PeerReads \/ PeerAnswers \/ PeerLeaves \/ ResetArrives
  BY <1>1, <1>5 DEF PeerReads, PeerAnswers, PeerLeaves, ResetArrives, result
<1>6. CASE UNCHANGED vars
  BY <1>1, <1>6 DEF vars, result, wire
<1> QED BY <1>2, <1>3, <1>4, <1>5, <1>6 DEF Next, Replayer

(* The count the user is shown is of the messages handed over whole, also  *)
(* when a later one failed half-way.  (replay.cpp:89-98)                   *)
THEOREM CountsWholeMessagesHolds == Spec => []CountsWholeMessages
<1>1. Init => Counted
  <2> SUFFICES ASSUME Init PROVE Counted
    OBVIOUS
  <2>1. Wholes = {} /\ messages_sent = 0
    BY DEF Init, Wholes
  <2> QED BY <2>1, FS_EmptySet DEF Counted
<1>2. Spec => [](Types /\ InOrderSoFar /\ Counted)
  BY <1>1, InitTypes, NextTypes, InitOrdered, NextInOrder, NextCounts, PTL DEF Spec
<1>3. Counted => CountsWholeMessages
  BY DEF Counted, Wholes, CountsWholeMessages
<1> QED BY <1>2, <1>3, PTL

-----------------------------------------------------------------------------
(* What the two clocks say when no message is under way: last_msg_time is  *)
(* the time of the last message that has one, and the pauses since each    *)
(* earlier one add up to what was recorded.                                *)
Clock ==
  IF first_msg THEN slept = 0 /\ \A i \in DOMAIN slept_before : ~Timed(i)
  ELSE \E l \in DOMAIN slept_before :
         /\ Timed(l) /\ last_msg_time = MsgTime(l)
         /\ \A i \in DOMAIN slept_before : Timed(i) =>
              /\ i <= l
              /\ slept - slept_before[i] >= last_msg_time - MsgTime(i)
              /\ Ordered(i, l) => slept - slept_before[i] = last_msg_time - MsgTime(i)

Begun ==
  /\ slept_before \in [DOMAIN slept_before -> Nat]
  /\ DOMAIN slept_before \subseteq 1..next

(* While a message is under way its own time, if it has one, is not the    *)
(* clock's yet.                                                            *)
Clocks ==
  /\ phase \in {"connect", "open", "line"} => Clock
  /\ phase = "send" =>
       /\ next \in DOMAIN slept_before /\ slept_before[next] = slept
       /\ ~Timed(next) => Clock

PacedSoFar == Begun /\ PacedAsRecorded /\ Clocks

LEMMA InitPaced == Init => PacedSoFar
<1> SUFFICES ASSUME Init PROVE PacedSoFar
  OBVIOUS
<1>1. slept_before = <<>> /\ DOMAIN slept_before = {} /\ slept = 0 /\ first_msg = TRUE
      /\ phase = "connect"
  BY DEF Init
<1>2. slept_before \in [DOMAIN slept_before -> Nat]
  BY <1>1
<1>3. Begun
  BY <1>1, <1>2 DEF Begun
<1>4. PacedAsRecorded
  BY <1>1 DEF PacedAsRecorded
<1>5. Clocks
  BY <1>1 DEF Clocks, Clock
<1> QED  BY <1>3, <1>4, <1>5 DEF PacedSoFar

LEMMA MsgTimeTyped ==
  ASSUME TypeOK, NEW i \in 1..Len(file)
  PROVE  MsgTime(i) \in Int
  BY LineOf DEF MsgTime

(* A step that leaves the clocks alone.                                    *)
LEMMA ClocksUntouched ==
  ASSUME PacedSoFar, next \in Nat, next' \in {next, next + 1},
         UNCHANGED <<file, preserve_timing, timing>>,
         \/ phase' = phase /\ (phase = "send" => next' = next)
         \/ phase \in {"connect", "open", "line"} /\ phase' \in {"open", "line"}
         \/ phase' \in {"close", "done"}
  PROVE  PacedSoFar'
<1>1. UNCHANGED <<slept, slept_before, first_msg, last_msg_time>>
  BY DEF timing
<1>2. \A i : MsgTime(i)' = MsgTime(i) /\ (Timed(i)' <=> Timed(i))
  BY <1>1 DEF Timed, MsgTime
<1>3. \A i, j : Ordered(i, j)' <=> Ordered(i, j)
  BY <1>2 DEF Ordered
<1>4. Clock' <=> Clock
  BY <1>1, <1>2, <1>3 DEF Clock
<1>5. PacedAsRecorded'
  BY <1>1, <1>2, <1>3 DEF PacedSoFar, PacedAsRecorded
<1>6. Begun'
  BY <1>1 DEF PacedSoFar, Begun
<1>7. Clocks'
  BY <1>1, <1>2, <1>4 DEF PacedSoFar, Clocks
<1> QED  BY <1>5, <1>6, <1>7 DEF PacedSoFar

(* The pause before a message.                                             *)
LEMMA BeginKeepsPace ==
  ASSUME Types, PacedSoFar, BeginMessage
  PROVE  PacedSoFar'
<1>0. PICK j : j = next + 1
  OBVIOUS
<1> DEFINE D == DOMAIN slept_before
           d == Delay(j)
<1>1. next \in Nat /\ Len(file) \in Nat /\ j \in 1..Len(file) /\ slept \in Nat
      /\ last_msg_time \in Int /\ first_msg \in BOOLEAN
  <2>1. file \in Seq(Line) /\ next \in 0..Len(file) /\ next < Len(file)
    BY DEF Types, TypeOK, BeginMessage
  <2>2. Len(file) \in Nat
    <3> HIDE DEF Line
    <3> QED  BY <2>1
  <2> QED  BY <1>0, <2>1, <2>2 DEF Types, TypeOK
<1>2. \A i \in 1..Len(file) : MsgTime(i) \in Int
  BY MsgTimeTyped DEF Types
<1>3. /\ UNCHANGED <<file, preserve_timing, last_msg_time, first_msg>>
      /\ next' = j /\ slept' = slept + d /\ phase = "line" /\ phase' = "send"
      /\ slept_before' = [i \in D \cup {j} |-> IF i = j THEN slept' ELSE slept_before[i]]
  BY <1>0 DEF BeginMessage
<1>4. /\ D \subseteq 1..next /\ \A i \in D : slept_before[i] \in Nat
      /\ PacedAsRecorded /\ Clock
  BY <1>3 DEF PacedSoFar, Begun, Clocks
<1>5. /\ d \in Nat
      /\ first_msg => d = 0
      /\ MsgTime(j) = 0 => d = 0
      /\ ~first_msg /\ MsgTime(j) # 0 =>
           d = IF MsgTime(j) > last_msg_time THEN MsgTime(j) - last_msg_time ELSE 0
  BY <1>1, <1>2 DEF Delay
<1>6. /\ j \notin D /\ DOMAIN slept_before' = D \cup {j}
      /\ slept_before'[j] = slept + d
      /\ \A i \in D : i < j /\ i # j /\ i \in 1..Len(file) /\ slept_before'[i] = slept_before[i]
  BY <1>0, <1>1, <1>3, <1>4
<1>7. /\ \A i : MsgTime(i)' = MsgTime(i)
      /\ \A i : i # j => (Timed(i)' <=> Timed(i))
      /\ Timed(j)' <=> MsgTime(j) # 0
      /\ \A i \in D : Timed(i) <=> MsgTime(i) # 0
  BY <1>3, <1>6 DEF Timed, MsgTime
<1> HIDE DEF d, D
<1>8. ASSUME NEW i \in D, NEW l \in D
      PROVE  Ordered(i, l)' <=> Ordered(i, l)
  <2>1. \A k \in i..l : k # j
    BY <1>1, <1>6
  <2> QED  BY <1>7, <2>1 DEF Ordered
<1>9. Begun'
  <2>1. slept_before' \in [D \cup {j} -> Nat]
    BY <1>1, <1>3, <1>4, <1>5
  <2>2. D \cup {j} \subseteq 1..j
    BY <1>0, <1>1, <1>4
  <2> QED  BY <1>3, <1>6, <2>1, <2>2 DEF Begun
<1>10. ~Timed(j)' => Clock'
  <2> SUFFICES ASSUME ~Timed(j)'  PROVE Clock'
    OBVIOUS
  <2>1. slept' = slept
    BY <1>1, <1>3, <1>5, <1>7
  <2>2. CASE first_msg
    BY <1>3, <1>4, <1>6, <1>7, <2>1, <2>2 DEF Clock, D
  <2>3. CASE ~first_msg
    <3>1. PICK l \in D :
            /\ Timed(l) /\ last_msg_time = MsgTime(l)
            /\ \A i \in D : Timed(i) =>
                 /\ i <= l
                 /\ slept - slept_before[i] >= last_msg_time - MsgTime(i)
                 /\ Ordered(i, l) => slept - slept_before[i] = last_msg_time - MsgTime(i)
      BY <1>4, <2>3 DEF Clock, D
    <3>2. l \in DOMAIN slept_before' /\ Timed(l)' /\ last_msg_time' = MsgTime(l)'
      BY <1>3, <1>6, <1>7, <3>1
    <3>3. ASSUME NEW i \in DOMAIN slept_before', Timed(i)'
          PROVE  /\ i <= l
                 /\ slept' - slept_before'[i] >= last_msg_time' - MsgTime(i)'
                 /\ Ordered(i, l)' => slept' - slept_before'[i] = last_msg_time' - MsgTime(i)'
      <4>1. i \in D /\ Timed(i)
        BY <1>6, <1>7, <3>3
      <4>2. Ordered(i, l)' <=> Ordered(i, l)
        BY <1>8, <4>1
      <4> QED  BY <1>3, <1>6, <1>7, <2>1, <3>1, <4>1, <4>2
    <3> QED  BY <1>3, <2>3, <3>2, <3>3 DEF Clock
  <2> QED  BY <2>2, <2>3
<1>11. Clocks'
  BY <1>3, <1>6, <1>10 DEF Clocks
(* The new pause is right with respect to each message before.             *)
<1>12. ASSUME NEW i \in D, Timed(i), Timed(j)'
       PROVE  /\ slept_before'[j] - slept_before'[i] >= MsgTime(j) - MsgTime(i)
              /\ Ordered(i, j)' =>
                   slept_before'[j] - slept_before'[i] = MsgTime(j) - MsgTime(i)
  <2>1. ~first_msg
    BY <1>4, <1>12 DEF Clock, D
  <2>2. PICK l \in D :
          /\ Timed(l) /\ last_msg_time = MsgTime(l) /\ i <= l
          /\ slept - slept_before[i] >= last_msg_time - MsgTime(i)
          /\ Ordered(i, l) => slept - slept_before[i] = last_msg_time - MsgTime(i)
    BY <1>4, <1>12, <2>1 DEF Clock, D
  <2>3. /\ slept_before[i] \in Nat /\ slept_before'[i] = slept_before[i]
        /\ MsgTime(i) \in Int /\ MsgTime(j) \in Int /\ i \in Int /\ j \in Int /\ l \in Int
        /\ i < j /\ l < j
    <3>1. j \in 1..Len(file)
      BY <1>1
    <3> QED  BY <1>1, <1>2, <1>4, <1>6, <2>2, <3>1
  <2>4. d = IF MsgTime(j) > last_msg_time THEN MsgTime(j) - last_msg_time ELSE 0
    BY <1>5, <1>7, <1>12, <2>1
  <2>5. PICK s \in Nat, b \in Nat, e \in Nat, m \in Int, t \in Int, u \in Int :
          /\ s = slept /\ b = slept_before[i] /\ e = d
          /\ m = MsgTime(i) /\ t = last_msg_time /\ u = MsgTime(j)
    BY <1>1, <1>5, <2>3
  <2>6. /\ s - b >= t - m
        /\ Ordered(i, l) => s - b = t - m
        /\ e = IF u > t THEN u - t ELSE 0
        /\ slept_before'[j] - slept_before'[i] = (s + e) - b
    BY <1>6, <2>2, <2>3, <2>4, <2>5
  <2>7. (s + e) - b >= u - m
    BY <2>6
  <2>8. ASSUME Ordered(i, j)'
        PROVE  slept_before'[j] - slept_before'[i] = MsgTime(j) - MsgTime(i)
    <3>1. l \in i..j /\ j \in i..j /\ \A k \in i..l : k \in i..j
      BY <2>2, <2>3
    <3>2. Timed(l)' /\ MsgTime(l)' <= MsgTime(j)'
      <4>1. Timed(l)'
        BY <1>6, <1>7, <2>2
      <4> QED  BY <1>12, <2>3, <2>8, <3>1, <4>1 DEF Ordered
    <3>3. Ordered(i, l)'
      BY <2>8, <3>1 DEF Ordered
    <3>4. Ordered(i, l)
      BY <1>8, <3>3
    <3>5. u >= t
      BY <1>7, <2>2, <2>5, <3>2
    <3>6. (s + e) - b = u - m
      BY <2>6, <3>4, <3>5
    <3> QED  BY <2>5, <2>6, <3>6
  <2> QED  BY <2>5, <2>6, <2>7, <2>8
<1>13. PacedAsRecorded'
  <2>1. ASSUME NEW i \in DOMAIN slept_before', NEW k \in DOMAIN slept_before',
               Timed(i)', Timed(k)', i < k
        PROVE  /\ slept_before'[k] - slept_before'[i] >= MsgTime(k)' - MsgTime(i)'
               /\ Ordered(i, k)' =>
                    slept_before'[k] - slept_before'[i] = MsgTime(k)' - MsgTime(i)'
    <3>1. i \in D
      <4>1. i # j
        BY <1>0, <1>1, <1>6, <2>1
      <4> QED  BY <1>6, <4>1
    <3>2. CASE k = j
      BY <1>6, <1>7, <1>12, <2>1, <3>1, <3>2
    <3>3. CASE k \in D
      <4>1. Timed(i) /\ Timed(k) /\ (Ordered(i, k)' <=> Ordered(i, k))
        BY <1>6, <1>7, <1>8, <2>1, <3>1, <3>3
      <4>2. /\ slept_before[k] - slept_before[i] >= MsgTime(k) - MsgTime(i)
            /\ Ordered(i, k) => slept_before[k] - slept_before[i] = MsgTime(k) - MsgTime(i)
        BY <1>4, <2>1, <3>1, <3>3, <4>1 DEF PacedAsRecorded, D
      <4> QED  BY <1>6, <1>7, <3>1, <3>3, <4>1, <4>2
    <3> QED  BY <1>6, <3>2, <3>3
  <2>2. ASSUME NEW i \in DOMAIN slept_before', \A k \in 1..(i - 1) : ~Timed(k)'
        PROVE  slept_before'[i] = 0
    <3>1. CASE i = j
      <4>1. \A k \in D : ~Timed(k)
        <5>1. \A k \in D : k \in 1..(j - 1) /\ k # j
          BY <1>0, <1>1, <1>4, <1>6
        <5> QED  BY <1>7, <2>2, <3>1, <5>1
      <4>2. first_msg /\ slept = 0
        BY <1>4, <4>1 DEF Clock, D
      <4> QED  BY <1>5, <1>6, <3>1, <4>2
    <3>2. CASE i \in D
      <4>1. \A k \in 1..(i - 1) : k # j
        BY <1>1, <1>6, <3>2
      <4>2. \A k \in 1..(i - 1) : ~Timed(k)
        BY <1>7, <2>2, <4>1
      <4> QED  BY <1>4, <1>6, <3>2, <4>2 DEF PacedAsRecorded, D
    <3> QED  BY <1>6, <3>1, <3>2
  <2> QED  BY <2>1, <2>2 DEF PacedAsRecorded
<1> QED  BY <1>9, <1>11, <1>13 DEF PacedSoFar

(* The end of a message sets the clock, if it has a time.                  *)
LEMMA SendKeepsPace ==
  ASSUME Types, PacedSoFar, NEW n \in 1..Room, SendTakes(n)
  PROVE  PacedSoFar'
<1> DEFINE D == DOMAIN slept_before
<1>1. /\ UNCHANGED <<file, preserve_timing, next, slept, slept_before>>
      /\ phase = "send" /\ next \in D /\ slept_before[next] = slept
      /\ ~Timed(next) => Clock
      /\ next \in Nat /\ next \in 1..Len(file)
  <2>1. next \in 0..Len(file) /\ next \in 1..Len(file) /\ phase = "send"
    BY DEF Types, TypeOK, SendTakes
  <2> QED  BY <2>1 DEF SendTakes, PacedSoFar, Clocks
<1>2. CASE UNCHANGED <<phase, last_msg_time, first_msg>>
  BY <1>1, <1>2, ClocksUntouched DEF timing
<1>3. CASE phase' = "line" /\ RememberTime
  <2>1. MsgTime(next) = 0 => UNCHANGED <<last_msg_time, first_msg>>
    BY <1>3 DEF RememberTime
  <2>2. CASE MsgTime(next) = 0
    <3>1. ~Timed(next)
      BY <2>2 DEF Timed
    <3>2. \A i : MsgTime(i)' = MsgTime(i) /\ (Timed(i)' <=> Timed(i))
      BY <1>1 DEF Timed, MsgTime
    <3>3. \A i, k : Ordered(i, k)' <=> Ordered(i, k)
      BY <3>2 DEF Ordered
    <3>4. Clock'
      BY <1>1, <2>1, <2>2, <3>1, <3>2, <3>3 DEF Clock
    <3>5. PacedAsRecorded'
      BY <1>1, <3>2, <3>3 DEF PacedSoFar, PacedAsRecorded
    <3> QED  BY <1>1, <1>3, <3>4, <3>5 DEF PacedSoFar, Begun, Clocks
  <2>3. CASE MsgTime(next) # 0
    <3>1. last_msg_time' = MsgTime(next) /\ first_msg' = FALSE
      BY <1>3, <2>3 DEF RememberTime
    <3>2. \A i : MsgTime(i)' = MsgTime(i) /\ (Timed(i)' <=> Timed(i))
      BY <1>1 DEF Timed, MsgTime
    <3>3. \A i, k : Ordered(i, k)' <=> Ordered(i, k)
      BY <3>2 DEF Ordered
    <3>4. Timed(next)
      BY <1>1, <2>3 DEF Timed
    <3>5. PacedAsRecorded'
      BY <1>1, <3>2, <3>3 DEF PacedSoFar, PacedAsRecorded
    <3>6. ASSUME NEW i \in D, Timed(i)
          PROVE  /\ i <= next
                 /\ slept - slept_before[i] >= MsgTime(next) - MsgTime(i)
                 /\ Ordered(i, next) =>
                      slept - slept_before[i] = MsgTime(next) - MsgTime(i)
      <4>1. i \in 1..next /\ slept \in Nat /\ MsgTime(next) \in Int
        BY <1>1, MsgTimeTyped DEF PacedSoFar, Begun, Types, TypeOK
      <4>2. CASE i = next
        BY <1>1, <4>1, <4>2
      <4>3. CASE i < next
        BY <1>1, <3>4, <3>6, <4>1, <4>3 DEF PacedSoFar, PacedAsRecorded
      <4> QED  BY <1>1, <4>1, <4>2, <4>3
    <3>7. Clock'
      BY <1>1, <3>1, <3>2, <3>3, <3>4, <3>6 DEF Clock
    <3> QED  BY <1>1, <1>3, <3>5, <3>7 DEF PacedSoFar, Begun, Clocks
  <2> QED  BY <2>2, <2>3
<1> QED  BY <1>2, <1>3 DEF SendTakes

LEMMA NextPaced == Types /\ PacedSoFar /\ [Next]_vars => PacedSoFar'
<1> SUFFICES ASSUME Types, PacedSoFar, [Next]_vars PROVE PacedSoFar'
  OBVIOUS
<1>0. next \in Nat
  <2>1. file \in Seq(Line) /\ next \in 0..Len(file)
    BY DEF Types, TypeOK
  <2> HIDE DEF Line
  <2> QED  BY <2>1
<1>1. CASE Connect \/ ConnectFails \/ OpenFile \/ SkipLine \/ EndOfFile
  BY <1>0, <1>1, ClocksUntouched
     DEF Connect, ConnectFails, OpenFile, SkipLine, EndOfFile, Return
<1>2. CASE SendFails \/ SendKills \/ Close
  BY <1>0, <1>2, ClocksUntouched DEF SendFails, SendKills, Close, Return
<1>3. CASE BeginMessage
  BY <1>3, BeginKeepsPace
<1>4. ASSUME NEW n \in 1..Room, SendTakes(n)  PROVE PacedSoFar'
  BY <1>4, SendKeepsPace
<1>5. CASE PeerReads \/ PeerAnswers \/ PeerLeaves \/ ResetArrives
  BY <1>0, <1>5, ClocksUntouched DEF PeerReads, PeerAnswers, PeerLeaves, ResetArrives
<1>6. CASE UNCHANGED vars
  BY <1>0, <1>6, ClocksUntouched DEF vars
<1> QED  BY <1>1, <1>2, <1>3, <1>4, <1>5, <1>6 DEF Next, Replayer

(* The pauses between messages with a time are no shorter than recorded,   *)
(* however far they are apart, and no longer unless the times go back.     *)
(* (replay.cpp:72-101)                                                     *)
THEOREM PacedAsRecordedHolds == Spec => []PacedAsRecorded
<1>1. Spec => [](Types /\ PacedSoFar)
  BY InitTypes, NextTypes, InitPaced, NextPaced, PTL DEF Spec
<1>2. PacedSoFar => PacedAsRecorded
  BY DEF PacedSoFar
<1> QED  BY <1>1, <1>2, PTL
=============================================================================
