---------------------------- MODULE SessionProofs ----------------------------
(***************************************************************************)
(* What FixSessionHost guarantees for every set of messages, every range   *)
(* of int and every behaviour of host and counterparty, and ScenarioRunner *)
(* for any scenarios, any messages of the system under test, either        *)
(* transport, any timeout and any number of runs and messages.             *)
(***************************************************************************)
EXTENDS ScenarioRunner, FixSessionHost, TLAPS

-----------------------------------------------------------------------------
(* The session, whoever holds it                                           *)

(* The counter moves by one unless it stands at MaxInt, and stays an int.  *)
LEMMA SuccIsInt ==
  ASSUME NEW n \in CInt
  PROVE  /\ Succ(n) \in CInt
         /\ Succ(n) # n
         /\ Succ(n) = n + 1 \/ (n = MaxInt /\ Succ(n) = -MaxInt - 1)
BY SessionAssumption DEF Succ, CInt

(* Whatever the message, receive_message leaves the session well-typed.    *)
LEMMA ClassifyKeepsTypes ==
  ASSUME SessionTypeOK, NEW m \in Messages, Classify(m)
  PROVE  /\ next_in_seq' \in CInt
         /\ logged_on' \in BOOLEAN
         /\ result' \in [action : SessionAction, detail : CInt]
<1> USE SessionAssumption DEF SessionTypeOK, Return, SessionAction, Has, Complete
<1>0. 0 \in CInt
  BY DEF CInt
<1>1. CASE RejectIncomplete(m)
  BY <1>0, <1>1 DEF RejectIncomplete
<1>2. CASE RefuseBeforeLogon(m)
  BY <1>0, <1>2 DEF RefuseBeforeLogon
<1>3. CASE AcceptLogon(m)
  BY <1>3, SuccIsInt DEF AcceptLogon
<1>4. CASE AcceptCounted(m)
  BY <1>0, <1>4, SuccIsInt DEF AcceptCounted, InSequence
<1>5. CASE AcceptSequenceReset(m)
  BY <1>0, <1>5, SuccIsInt DEF AcceptSequenceReset, InSequence
<1>6. CASE AcceptLogout(m)
  BY <1>0, <1>6, SuccIsInt DEF AcceptLogout
<1>7. CASE ReportGap(m)
  BY <1>7 DEF ReportGap
<1>8. CASE SeeOldNumber(m)
  BY <1>0, <1>8 DEF SeeOldNumber
<1> QED
  BY <1>1, <1>2, <1>3, <1>4, <1>5, <1>6, <1>7, <1>8 DEF Classify

(* The same, with the out counter receive_message does not touch.          *)
LEMMA ReceiveKeepsTypes ==
  ASSUME SessionTypeOK, NEW m \in Messages, ReceiveMessage(m)
  PROVE  SessionTypeOK'
BY ClassifyKeepsTypes DEF SessionTypeOK, ReceiveMessage

-----------------------------------------------------------------------------
(* The session under any host                                              *)

(* A message can only be logged as taken when it carries a number.         *)
LEMMA TakenHasNumber ==
  ASSUME SessionTypeOK, NEW m \in Messages, ReceiveMessage(m),
         Taken \/ result'.action = "SendLogon"
  PROVE  m["MsgSeqNum"] \in CInt
BY SessionAssumption
   DEF SessionTypeOK, ReceiveMessage, Classify, RejectIncomplete, RefuseBeforeLogon,
       AcceptLogon, AcceptCounted, AcceptSequenceReset, AcceptLogout, ReportGap,
       SeeOldNumber, Return, Taken, Complete, InSequence, Has

(* Type correctness of the session and its history (session.hpp:62-65).    *)
THEOREM HostTypeCorrect == HostSpec => []HostTypeOK
<1>1. HostInit => HostTypeOK
  <2>1. 0 \in CInt /\ 1 \in CInt
    BY SessionAssumption DEF CInt
  <2>2. <<>> \in Seq(CInt)
    OBVIOUS
  <2>3. HostInit => SessionTypeOK
    <3>1. SessionInit => logged_on \in BOOLEAN
      BY DEF SessionInit
    <3>2. SessionInit => result \in [action : SessionAction, detail : CInt]
      BY <2>1 DEF SessionInit, SessionAction
    <3> QED  BY <2>1, <3>1, <3>2 DEF HostInit, SessionInit, SessionTypeOK
  <2>4. HostInit => overflowed \in BOOLEAN
    BY DEF HostInit
  <2> QED
    BY <2>2, <2>3, <2>4 DEF HostInit, HostTypeOK
<1>2. HostTypeOK /\ [HostNext]_hostVars => HostTypeOK'
  <2> SUFFICES ASSUME HostTypeOK, [HostNext]_hostVars PROVE HostTypeOK'
    OBVIOUS
  <2>1. ASSUME NEW m \in Messages, Receive(m) PROVE HostTypeOK'
    <3>1. SessionTypeOK'
      BY <2>1, ReceiveKeepsTypes DEF HostTypeOK, Receive
    <3>2. taken' \in Seq(CInt)
      <4>1. CASE Taken \/ result'.action = "SendLogon"
        BY <2>1, <4>1, TakenHasNumber DEF HostTypeOK, Receive
      <4>2. CASE ~(Taken \/ result'.action = "SendLogon")
        BY <2>1, <4>2 DEF HostTypeOK, Receive
      <4> QED  BY <4>1, <4>2
    <3>3. overflowed' \in BOOLEAN
      BY <2>1 DEF HostTypeOK, Receive
    <3> QED  BY <3>1, <3>2, <3>3 DEF HostTypeOK
  <2>2. CASE Send
    BY <2>2 DEF HostTypeOK, SessionTypeOK, Send, OnMessageSent, CountSent
  <2>3. ASSUME NEW n \in HostNumbers, SetOut(n) PROVE HostTypeOK'
    BY <2>3, SessionAssumption
       DEF HostTypeOK, SessionTypeOK, SetOut, SetNextOutSeqNum, CInt
  <2>4. ASSUME NEW n \in HostNumbers, SetIn(n) PROVE HostTypeOK'
    BY <2>4, SessionAssumption
       DEF HostTypeOK, SessionTypeOK, SetIn, SetNextInSeqNum
  <2>5. CASE UNCHANGED hostVars
    BY <2>5 DEF HostTypeOK, SessionTypeOK, hostVars, session
  <2> QED  BY <2>1, <2>2, <2>3, <2>4, <2>5 DEF HostNext
<1> QED  BY <1>1, <1>2, PTL DEF HostSpec

(* A message is taken at the number the counter stood at, and the counter  *)
(* then stands one further; a Logon starts the numbering at its own number;*)
(* any other message that does not reset the numbering leaves the counter. *)
LEMMA ReceiveMovesByOne ==
  ASSUME SessionTypeOK, NEW m \in Messages, ReceiveMessage(m),
         ~RestartsNumbering(m), ~Wraps(m)
  PROVE  \/ /\ result'.action = "SendLogon"
            /\ next_in_seq' = m["MsgSeqNum"] + 1
         \/ /\ result'.action # "SendLogon"
            /\ Taken
            /\ m["MsgSeqNum"] = next_in_seq
            /\ next_in_seq' = next_in_seq + 1
         \/ /\ result'.action # "SendLogon"
            /\ ~Taken
            /\ next_in_seq' = next_in_seq
<1> USE SessionAssumption
    DEF SessionTypeOK, Return, Has, Complete, InSequence, Taken, Wraps,
        RestartsNumbering
<1>1. CASE RejectIncomplete(m)
  BY <1>1 DEF RejectIncomplete
<1>2. CASE RefuseBeforeLogon(m)
  BY <1>2 DEF RefuseBeforeLogon
<1>3. CASE AcceptLogon(m)
  BY <1>3, SuccIsInt DEF AcceptLogon, CInt
<1>4. CASE AcceptCounted(m)
  BY <1>4, SuccIsInt DEF AcceptCounted, CInt
<1>5. CASE AcceptSequenceReset(m)
  <2>1. ~("NewSeqNo" \in DOMAIN m)
    BY <1>5 DEF AcceptSequenceReset
  <2>2. result' = [action |-> "SendReject", detail |-> 0]
    BY <1>5, <2>1 DEF AcceptSequenceReset
  <2>3. next_in_seq' = Succ(next_in_seq) /\ m["MsgSeqNum"] = next_in_seq
    BY <1>5, <2>1 DEF AcceptSequenceReset
  <2>4. Succ(next_in_seq) # next_in_seq
    BY SuccIsInt
  <2>5. Taken /\ "MsgSeqNum" \in DOMAIN m
    BY <1>5, <2>3, <2>4 DEF AcceptSequenceReset
  <2>6. Succ(next_in_seq) = next_in_seq + 1
    BY <2>3, <2>5, SuccIsInt
  <2>7. result'.action # "SendLogon"
    BY <2>2
  <2> QED  BY <2>3, <2>5, <2>6, <2>7
<1>6. CASE AcceptLogout(m)
  BY <1>6, SuccIsInt DEF AcceptLogout, CInt
<1>7. CASE ReportGap(m)
  BY <1>7 DEF ReportGap
<1>8. CASE SeeOldNumber(m)
  BY <1>8 DEF SeeOldNumber
<1> QED
  BY <1>1, <1>2, <1>3, <1>4, <1>5, <1>6, <1>7, <1>8 DEF ReceiveMessage, Classify

(* Exactly once, in order, without holes, for every counterparty.          *)
(* The invariant is inductive relative to HostTypeOK.  (session.cpp:85-136)    *)
THEOREM TakenOnceInOrderHolds == HostSpec => []TakenOnceInOrder
<1>1. HostInit => TakenOnceInOrder
  BY DEF HostInit, TakenOnceInOrder
<1>2. HostTypeOK /\ HostTypeOK' /\ TakenOnceInOrder /\ [HostNext]_hostVars => TakenOnceInOrder'
  <2> SUFFICES ASSUME HostTypeOK, HostTypeOK', TakenOnceInOrder, [HostNext]_hostVars,
                      ~overflowed'
               PROVE  \A i \in 1..Len(taken') :
                        taken'[i] = next_in_seq' - 1 - (Len(taken') - i)
    BY DEF TakenOnceInOrder
  <2>1. ASSUME NEW m \in Messages, Receive(m)
        PROVE  \A i \in 1..Len(taken') :
                 taken'[i] = next_in_seq' - 1 - (Len(taken') - i)
    <3>1. CASE RestartsNumbering(m)
      BY <2>1, <3>1 DEF Receive
    <3>2. CASE ~RestartsNumbering(m)
      <4>1. ~overflowed /\ ~Wraps(m) /\ ReceiveMessage(m) /\ SessionTypeOK
        BY <2>1, <3>2 DEF Receive, HostTypeOK
      <4>2. \A i \in 1..Len(taken) :
              taken[i] = next_in_seq - 1 - (Len(taken) - i)
        BY <4>1 DEF TakenOnceInOrder
      <4>3. taken' = IF result'.action = "SendLogon" THEN <<m["MsgSeqNum"]>>
                     ELSE IF Taken THEN Append(taken, m["MsgSeqNum"])
                     ELSE taken
        BY <2>1, <3>2 DEF Receive
      <4>4. next_in_seq \in Int /\ next_in_seq' \in Int /\ taken \in Seq(Int)
        BY SessionAssumption DEF HostTypeOK, SessionTypeOK, CInt
      <4>5. CASE /\ result'.action = "SendLogon"
                 /\ next_in_seq' = m["MsgSeqNum"] + 1
        <5>1. m["MsgSeqNum"] \in Int
          BY <4>1, <4>5, TakenHasNumber, SessionAssumption DEF CInt
        <5> QED  BY <4>3, <4>5, <5>1
      <4>6. CASE /\ result'.action # "SendLogon"
                 /\ Taken
                 /\ m["MsgSeqNum"] = next_in_seq
                 /\ next_in_seq' = next_in_seq + 1
        BY <4>2, <4>3, <4>4, <4>6
      <4>7. CASE /\ result'.action # "SendLogon"
                 /\ ~Taken
                 /\ next_in_seq' = next_in_seq
        BY <4>2, <4>3, <4>7
      <4> QED
        BY <3>2, <4>1, <4>5, <4>6, <4>7, ReceiveMovesByOne
    <3> QED  BY <3>1, <3>2
  <2>2. CASE Send
    BY <2>2 DEF Send, OnMessageSent, CountSent, TakenOnceInOrder
  <2>3. ASSUME NEW n \in HostNumbers, SetOut(n)
        PROVE  \A i \in 1..Len(taken') :
                 taken'[i] = next_in_seq' - 1 - (Len(taken') - i)
    BY <2>3 DEF SetOut, SetNextOutSeqNum, TakenOnceInOrder
  <2>4. ASSUME NEW n \in HostNumbers, SetIn(n)
        PROVE  \A i \in 1..Len(taken') :
                 taken'[i] = next_in_seq' - 1 - (Len(taken') - i)
    BY <2>4 DEF SetIn
  <2>5. CASE UNCHANGED hostVars
    BY <2>5 DEF hostVars, session, TakenOnceInOrder
  <2> QED  BY <2>1, <2>2, <2>3, <2>4, <2>5 DEF HostNext
<1> QED  BY <1>1, <1>2, HostTypeCorrect, PTL DEF HostSpec

-----------------------------------------------------------------------------
(* The runner                                                              *)

(* The ids of a buffer are numbers.                                        *)
LEMMA IdsAreNumbers ==
  ASSUME NEW s \in Seq(Incoming)
  PROVE  Ids(s) \subseteq Nat
<1>1. \A i \in DOMAIN s : s[i] \in Incoming
  OBVIOUS
<1>2. \A i \in DOMAIN s : s[i].id \in Nat
  BY <1>1 DEF Incoming
<1> QED  BY <1>2 DEF Ids

(* The step about to run, or just begun, is a step.                        *)
LEMMA BeginTakesStep ==
  ASSUME TypeOK, NEW type, Begin(type)
  PROVE  /\ scenario[steps_executed + 1] \in ScenarioStep
         /\ steps_executed' \in 0..Len(scenario)
<1>1. steps_executed \in Nat /\ Len(scenario) \in Nat
  BY DEF TypeOK
<1>2. steps_executed + 1 \in 1..Len(scenario)
  BY <1>1 DEF Begin
<1> QED  BY <1>1, <1>2 DEF Begin, TypeOK

(* Dropping the unread messages of a socket keeps the types.               *)
LEMMA DropKeepsTypes ==
  ASSUME TypeOK, DropUnread
  PROVE  to_client' \in Seq(Incoming) /\ dropped' \subseteq Nat
<1>1. <<>> \in Seq(Incoming)
  OBVIOUS
<1>2. Ids(to_client) \subseteq Nat
  BY IdsAreNumbers DEF TypeOK
<1> QED  BY <1>1, <1>2 DEF DropUnread, TypeOK

(* So does a send of a message of a known type.                            *)
LEMMA SendKeepsTypes ==
  ASSUME TypeOK, NEW type \in Values, NEW ok \in BOOLEAN,
         ConnSend(Outgoing(type), ok)
  PROVE  sent' \in Seq(OutMessage)
<1>1. Outgoing(type) \in OutMessage
  BY DEF Outgoing, OutMessage, TypeOK, SessionTypeOK
<1>2. sent \in Seq(OutMessage)
  BY DEF TypeOK
<1>3. Append(sent, Outgoing(type)) \in Seq(OutMessage)
  BY <1>1, <1>2
<1> QED  BY <1>2, <1>3 DEF ConnSend

(* The type of an outgoing message is a value of a field or a default.     *)
LEMMA TypesOfReplies ==
  /\ \A step \in ScenarioStep :
       step.fields # <<>> => SendType(step.fields) \in Values
  /\ \A mock \in ScenarioStep : ReplyType(mock) \in Values
<1> DEFINE F == [tag : STRING, value : Values]
<1>1. \A step \in ScenarioStep : step.fields \in Seq(F)
  BY DEF ScenarioStep
<1>2. \A fields \in Seq(F) : \A i \in 1..Len(fields) : fields[i].value \in Values
  <2>1. \A fields \in Seq(F) : \A i \in 1..Len(fields) : fields[i] \in F
    <3> HIDE DEF F
    <3> QED  OBVIOUS
  <2> QED  BY <2>1
<1>3. \A fields \in Seq(F) : Len(fields) \in Nat /\ (fields # <<>> => Len(fields) > 0)
  OBVIOUS
<1> HIDE DEF F
<1>4. \A step \in ScenarioStep :
        step.fields # <<>> => SendType(step.fields) \in Values
  BY <1>1, <1>2, <1>3, RunnerAssumption DEF SendType
<1>5. \A mock \in ScenarioStep : ReplyType(mock) \in Values
  BY <1>1, <1>2, <1>3, RunnerAssumption DEF ReplyType
<1> QED  BY <1>4, <1>5

(* Taking a message off the buffer keeps the types.                        *)
LEMMA HandleKeepsTypes ==
  ASSUME TypeOK, NEW how \in Fate, NEW action \in SessionAction,
         HandleAs(how, action)
  PROVE  rx_buffer' \in Seq(Incoming) /\ handled' \in Seq(Handling)
<1>1. rx_buffer \in Seq(Incoming) /\ handled \in Seq(Handling) /\ rx_buffer # <<>>
  BY DEF HandleAs, TypeOK
<1>2. Head(rx_buffer) \in Incoming /\ Tail(rx_buffer) \in Seq(Incoming)
  BY <1>1
<1>3. run \in Nat /\ steps_executed \in Nat
  BY RunnerAssumption DEF TypeOK
<1> DEFINE h == [id |-> Head(rx_buffer).id, msg |-> Head(rx_buffer).msg,
                 run |-> run, step |-> steps_executed, how |-> how,
                 action |-> action]
<1>4. h \in Handling
  BY <1>2, <1>3 DEF Incoming, Handling
<1>5. handled' = Append(handled, h)
  BY DEF HandleAs
<1> HIDE DEF h
<1>6. handled' \in Seq(Handling)
  BY <1>1, <1>4, <1>5
<1> QED  BY <1>2, <1>6 DEF HandleAs

(* What arrived and parses is a message.                                   *)
LEMMA ArrivedIsMessage ==
  ASSUME TypeOK, Arrived
  PROVE  Msg \in Messages
<1>1. rx_buffer \in Seq(Incoming) /\ rx_buffer # <<>>
  BY DEF TypeOK, Arrived
<1>2. Head(rx_buffer) \in Incoming
  BY <1>1
<1> QED  BY <1>2 DEF Arrived, Msg, Incoming, SutMessages

(* A finished receive_message answers with one of the session's actions.   *)
LEMMA ClassifyAnswers ==
  ASSUME TypeOK, Arrived, Classify(Msg)
  PROVE  /\ next_in_seq' \in CInt
         /\ logged_on' \in BOOLEAN
         /\ result' \in [action : SessionAction, detail : CInt]
         /\ result'.action \in SessionAction
BY ArrivedIsMessage, ClassifyKeepsTypes DEF TypeOK

(* The types, for one step of EXPECT that takes a message off the buffer.  *)
LEMMA ExpectKeepsTypes ==
  ASSUME TypeOK, NEW how \in Fate, NEW action \in SessionAction,
         HandleAs(how, action), UNCHANGED transport, SessionTypeOK',
         phase' \in {"step", "expect", "done"}, outcome' \in Outcome,
         sent' \in Seq(OutMessage), skipped' \in Nat
  PROVE  TypeOK'
<1>1. rx_buffer' \in Seq(Incoming) /\ handled' \in Seq(Handling)
  BY HandleKeepsTypes
<1> QED  BY <1>1 DEF TypeOK, HandleAs, link

(* Type correctness of the runner (runner.cpp:212-434).                    *)
THEOREM TypeCorrect == Spec => []TypeOK
<1>1. Init => TypeOK
  <2>1. /\ <<>> \in Seq(Incoming) /\ <<>> \in Seq(ScenarioStep)
        /\ <<>> \in Seq(OutMessage) /\ <<>> \in Seq(Handling)
        /\ Len(<<>>) = 0
    OBVIOUS
  <2>2. Init => SessionTypeOK
    <3>1. 0 \in CInt /\ 1 \in CInt
      BY SessionAssumption DEF CInt
    <3>2. SessionInit => logged_on \in BOOLEAN
      BY DEF SessionInit
    <3>3. SessionInit => result \in [action : SessionAction, detail : CInt]
      BY <3>1 DEF SessionInit, SessionAction
    <3> QED  BY <3>1, <3>2, <3>3 DEF Init, SessionInit, SessionTypeOK
  <2>3. Init => timed_out \in BOOLEAN
    BY DEF Init
  <2> QED
    BY <2>1, <2>2, <2>3, RunnerAssumption DEF Init, TypeOK, Outcome
<1>2. TypeOK /\ [Next]_vars => TypeOK'
  <2> SUFFICES ASSUME TypeOK, [Next]_vars PROVE TypeOK'
    OBVIOUS
  <2> USE DEF link, progress, history, session, Outcome
  <2>0. UNCHANGED transport
    BY DEF Next, vars
  <2>1. ASSUME NEW s \in Scenarios, StartRun(s) PROVE TypeOK'
    <3>1. Ids(rx_buffer) \subseteq Nat
      BY IdsAreNumbers DEF TypeOK
    <3>2. <<>> \in Seq(Incoming) /\ s \in Seq(ScenarioStep) /\ Len(s) \in Nat
      BY RunnerAssumption
    <3>3. run' \in 0..MaxRuns
      <4>1. run \in 0..MaxRuns /\ MaxRuns \in Nat
        BY RunnerAssumption DEF TypeOK
      <4>2. run < MaxRuns /\ run' = run + 1
        BY <2>1 DEF StartRun
      <4> QED  BY <4>1, <4>2
    <3>4. steps_executed' \in 0..Len(scenario') /\ scenario' = s
      BY <2>1, <3>2 DEF StartRun
    <3>5. SessionTypeOK'
      BY <2>1 DEF StartRun, TypeOK, SessionTypeOK
    <3>6. dropped' \subseteq Nat
      BY <2>1, <3>1 DEF StartRun, TypeOK
    <3> QED
      BY <2>0, <2>1, <3>2, <3>3, <3>4, <3>5, <3>6 DEF StartRun, TypeOK
  <2>2. CASE RunConnect
    BY <2>0, <2>2, BeginTakesStep, DropKeepsTypes
       DEF RunConnect, Fail, Proceed, TypeOK, SessionTypeOK
  <2>3. CASE RunDisconnect
    BY <2>0, <2>3, BeginTakesStep, DropKeepsTypes
       DEF RunDisconnect, Proceed, TypeOK, SessionTypeOK
  <2>4. CASE RunSend
    <3>1. scenario[steps_executed + 1] \in ScenarioStep
      BY <2>4, BeginTakesStep DEF RunSend
    <3>2. sent' \in Seq(OutMessage)
      <4>1. UNCHANGED sent \/ \E ok \in BOOLEAN :
              ConnSend(Outgoing(SendType(scenario[steps_executed + 1].fields)), ok)
        BY <2>4 DEF RunSend, KilledBySend
      <4>2. SendType(scenario[steps_executed + 1].fields) \in Values
        BY <2>4, <3>1, TypesOfReplies DEF RunSend
      <4>3. sent \in Seq(OutMessage)
        BY DEF TypeOK
      <4> QED  BY <4>1, <4>2, <4>3, SendKeepsTypes
    <3>3. SessionTypeOK'
      <4>1. UNCHANGED session \/ OnMessageSent
        BY <2>4 DEF RunSend
      <4>2. SessionTypeOK
        BY DEF TypeOK
      <4> QED  BY <4>1, <4>2 DEF SessionTypeOK, OnMessageSent, CountSent
    <3>4. phase' \in {"step", "expect", "done"} /\ outcome' \in Outcome
      BY <2>4 DEF RunSend, Fail, Proceed, KilledBySend, TypeOK
    <3> QED
      BY <2>0, <2>4, <3>2, <3>3, <3>4, BeginTakesStep DEF RunSend, TypeOK
  <2>5. CASE RunEmptySend
    BY <2>0, <2>5, BeginTakesStep DEF RunEmptySend, Fail, TypeOK, SessionTypeOK
  <2>6. CASE RunMock
    <3>1. scenario[steps_executed + 1] \in ScenarioStep
      BY <2>6, BeginTakesStep DEF RunMock
    <3>2. active_mocks' \in Seq(ScenarioStep)
      <4>1. active_mocks \in Seq(ScenarioStep)
        BY DEF TypeOK
      <4>2. active_mocks' = Append(active_mocks, scenario[steps_executed + 1])
        BY <2>6 DEF RunMock
      <4> QED  BY <3>1, <4>1, <4>2
    <3> QED
      BY <2>0, <2>6, <3>2, BeginTakesStep
         DEF RunMock, Proceed, TypeOK, SessionTypeOK
  <2>7. CASE RunExpect
    BY <2>0, <2>7, BeginTakesStep DEF RunExpect, TypeOK, SessionTypeOK
  <2>8. CASE Finish
    BY <2>0, <2>8 DEF Finish, TypeOK, SessionTypeOK
  <2>9. CASE ExpectTimesOut
    BY <2>0, <2>9 DEF ExpectTimesOut, Fail, TypeOK, SessionTypeOK
  <2>10. CASE ExpectReads
    <3>1. to_client \in Seq(Incoming)
      BY DEF TypeOK
    <3>2. \A k \in 1..Len(to_client) :
            /\ SubSeq(to_client, 1, k) \in Seq(Incoming)
            /\ SubSeq(to_client, k + 1, Len(to_client)) \in Seq(Incoming)
      BY <3>1
    <3>3. rx_buffer' \in Seq(Incoming) /\ to_client' \in Seq(Incoming)
      BY <2>10, <3>2 DEF ExpectReads
    <3>4. elapsed' \in Nat
      <4>1. elapsed \in Nat
        BY DEF TypeOK
      <4> QED  BY <2>10, <4>1 DEF ExpectReads
    <3>5. SessionTypeOK'
      BY <2>10 DEF ExpectReads, TypeOK, SessionTypeOK
    <3> QED
      BY <2>0, <2>10, <3>3, <3>4, <3>5 DEF ExpectReads, TypeOK
  <2>11. CASE ExpectReadsNothing
    <3>1. elapsed' \in Nat
      <4>1. elapsed \in Nat
        BY DEF TypeOK
      <4> QED  BY <2>11, <4>1 DEF ExpectReadsNothing
    <3>2. SessionTypeOK'
      BY <2>11 DEF ExpectReadsNothing, TypeOK, SessionTypeOK
    <3> QED
      BY <2>0, <2>11, <3>1, <3>2 DEF ExpectReadsNothing, TypeOK
  <2>12. CASE ExpectFailsToParse
    <3>1. HandleAs("garbled", "None") /\ "garbled" \in Fate
      BY <2>12 DEF ExpectFailsToParse, Fate
    <3>2. "None" \in SessionAction
      BY DEF SessionAction
    <3>3. SessionTypeOK'
      BY <2>12 DEF ExpectFailsToParse, TypeOK, SessionTypeOK
    <3> QED
      BY <2>0, <2>12, <3>1, <3>2, <3>3, ExpectKeepsTypes
         DEF ExpectFailsToParse, Fail, TypeOK
  <2>13. CASE ExpectRefused \/ ExpectMatched \/ ExpectIgnored \/ ExpectMismatched
    <3>1. Arrived /\ ReceiveMessage(Msg)
      BY <2>13 DEF ExpectRefused, ExpectMatched, ExpectIgnored, ExpectMismatched
    <3>2. SessionTypeOK' /\ result'.action \in SessionAction
      BY <3>1, ArrivedIsMessage, ReceiveKeepsTypes, ClassifyAnswers
         DEF TypeOK, ReceiveMessage
    <3>3. PICK how \in Fate : HandleAs(how, result'.action)
      BY <2>13
         DEF ExpectRefused, ExpectMatched, ExpectIgnored, ExpectMismatched, Fate
    <3>4. /\ phase' \in {"step", "expect", "done"} /\ outcome' \in Outcome
          /\ UNCHANGED <<sent, skipped>>
      BY <2>13
         DEF ExpectRefused, ExpectMatched, ExpectIgnored, ExpectMismatched,
             Fail, Proceed, TypeOK
    <3> QED
      BY <2>0, <3>2, <3>3, <3>4, ExpectKeepsTypes DEF TypeOK
  <2>14. CASE ExpectMocked
    <3>1. Arrived /\ Classify(Msg) /\ HandleAs("mocked", result'.action)
      BY <2>14 DEF ExpectMocked
    <3>2. PICK j \in DOMAIN active_mocks :
            \/ \E ok \in BOOLEAN :
                 /\ ConnSend(Outgoing(ReplyType(active_mocks[j])), ok)
                 /\ CountSent
                 /\ skipped' = IF ok THEN skipped ELSE skipped + 1
                 /\ UNCHANGED <<phase, outcome>>
            \/ KilledBySend /\ UNCHANGED <<next_out_seq, skipped>>
      BY <2>14 DEF ExpectMocked
    <3>3. active_mocks[j] \in ScenarioStep
      <4>1. active_mocks \in Seq(ScenarioStep)
        BY DEF TypeOK
      <4> QED  BY <3>2, <4>1
    <3>4. ReplyType(active_mocks[j]) \in Values
      BY <3>3, TypesOfReplies
    <3>5. sent \in Seq(OutMessage)
      BY DEF TypeOK
    <3>6. sent' \in Seq(OutMessage)
      BY <3>2, <3>4, <3>5, SendKeepsTypes DEF KilledBySend
    <3>7. SessionTypeOK'
      <4>1. next_out_seq \in Int
        BY DEF TypeOK, SessionTypeOK
      <4>2. next_out_seq' \in Int
        BY <3>2, <4>1 DEF CountSent
      <4> QED  BY <3>1, <4>2, ClassifyAnswers DEF SessionTypeOK
    <3>8. /\ phase' \in {"step", "expect", "done"} /\ outcome' \in Outcome
          /\ skipped' \in Nat
      <4>1. /\ phase \in {"step", "expect", "done"} /\ outcome \in Outcome
            /\ skipped \in Nat
        BY DEF TypeOK
      <4>2. skipped' = skipped \/ skipped' = skipped + 1
        <5>1. ASSUME NEW ok \in BOOLEAN,
                     skipped' = IF ok THEN skipped ELSE skipped + 1
              PROVE  skipped' = skipped \/ skipped' = skipped + 1
          BY <5>1
        <5> QED  BY <3>2, <5>1, Zenon
      <4>3. UNCHANGED <<phase, outcome>> \/ (phase' = "done" /\ outcome' = "killed")
        BY <3>2, Zenon DEF KilledBySend, Fail
      <4>4. skipped' \in Nat
        <5>1. skipped \in Nat
          BY <4>1
        <5> QED  BY <4>2, <5>1
      <4> QED  BY <4>1, <4>3, <4>4
    <3>9. "mocked" \in Fate /\ result'.action \in SessionAction
      BY <3>1, ClassifyAnswers DEF Fate
    <3> QED
      BY <2>0, <3>1, <3>6, <3>7, <3>8, <3>9, ExpectKeepsTypes
  <2>15. ASSUME NEW m \in SutMessages, SutSends(m) PROVE TypeOK'
    <3>0. sut_sent \in 0..MaxSutSends /\ to_client \in Seq(Incoming)
      BY DEF TypeOK
    <3>1. [id |-> sut_sent + 1, msg |-> m] \in Incoming
      BY <3>0, RunnerAssumption DEF Incoming
    <3>2. to_client' \in Seq(Incoming)
      BY <2>15, <3>0, <3>1 DEF SutSends
    <3>3. sut_sent' \in 0..MaxSutSends
      <4>1. MaxSutSends \in Nat
        BY RunnerAssumption
      <4>2. sut_sent < MaxSutSends /\ sut_sent' = sut_sent + 1
        BY <2>15 DEF SutSends
      <4> QED  BY <3>0, <4>1, <4>2
    <3>4. SessionTypeOK'
      BY <2>15 DEF SutSends, TypeOK, SessionTypeOK
    <3> QED
      BY <2>0, <2>15, <3>2, <3>3, <3>4 DEF SutSends, TypeOK
  <2>16. CASE SutCloses
    BY <2>0, <2>16, DropKeepsTypes DEF SutCloses, TypeOK, SessionTypeOK
  <2>17. CASE UNCHANGED vars
    BY <2>17 DEF vars, TypeOK, SessionTypeOK
  <2> QED
    BY <2>1, <2>2, <2>3, <2>4, <2>5, <2>6, <2>7, <2>8, <2>9, <2>10, <2>11,
       <2>12, <2>13, <2>14, <2>15, <2>16, <2>17
       DEF Next, Runner
<1> QED  BY <1>1, <1>2, PTL DEF Spec

-----------------------------------------------------------------------------
(* Accepting one more message with the next number, or leaving numbers and *)
(* log alone, keeps OutgoingNumbered.                                      *)
LEMMA SendKeepsNumbering ==
  ASSUME TypeOK, OutgoingNumbered, NEW type \in Values,
         sent' = Append(sent, Outgoing(type)), CountSent, UNCHANGED skipped
  PROVE  OutgoingNumbered'
<1>1. sent \in Seq(OutMessage) /\ Len(sent) \in Nat
  BY DEF TypeOK
<1>2. next_out_seq \in Int /\ skipped \in Nat
  BY DEF TypeOK, SessionTypeOK
<1>3. /\ Len(sent') = Len(sent) + 1
      /\ DOMAIN sent' = 1..(Len(sent) + 1)
      /\ \A i \in 1..Len(sent) : sent'[i] = sent[i]
      /\ sent'[Len(sent) + 1].MsgSeqNum = next_out_seq
  BY <1>1 DEF Outgoing
<1>4. \A i \in 1..Len(sent) : sent[i].MsgSeqNum \in Int
  <2>1. \A i \in 1..Len(sent) : sent[i] \in OutMessage
    BY <1>1
  <2> QED  BY <2>1 DEF OutMessage
<1>5. next_out_seq = 1 + Len(sent) + skipped
  BY DEF OutgoingNumbered
<1>6. \A i \in 1..Len(sent) :
        /\ sent[i].MsgSeqNum < next_out_seq
        /\ skipped = 0 => sent[i].MsgSeqNum = i
        /\ \A j \in 1..(i - 1) : sent[j].MsgSeqNum < sent[i].MsgSeqNum
  BY <1>1 DEF OutgoingNumbered
<1>7. next_out_seq' = next_out_seq + 1 /\ skipped' = skipped
  BY DEF CountSent
<1>8. ASSUME NEW i \in DOMAIN sent'
      PROVE  /\ sent'[i].MsgSeqNum < next_out_seq'
             /\ skipped' = 0 => sent'[i].MsgSeqNum = i
             /\ \A j \in 1..(i - 1) : sent'[j].MsgSeqNum < sent'[i].MsgSeqNum
  <2>1. CASE i = Len(sent) + 1
    BY <1>1, <1>2, <1>3, <1>5, <1>6, <1>7, <2>1
  <2>2. CASE i \in 1..Len(sent)
    BY <1>1, <1>2, <1>3, <1>4, <1>6, <1>7, <2>2
  <2> QED  BY <1>1, <1>3, <2>1, <2>2
<1>9. next_out_seq' = 1 + Len(sent') + skipped'
  BY <1>1, <1>2, <1>3, <1>5, <1>7
<1> QED  BY <1>8, <1>9 DEF OutgoingNumbered

(* A number used up by a reply that was not sent.                          *)
LEMMA SkipKeepsNumbering ==
  ASSUME TypeOK, OutgoingNumbered, UNCHANGED sent, CountSent,
         skipped' = skipped + 1
  PROVE  OutgoingNumbered'
<1>1. sent \in Seq(OutMessage) /\ Len(sent) \in Nat
  BY DEF TypeOK
<1>2. next_out_seq \in Int /\ skipped \in Nat
  BY DEF TypeOK, SessionTypeOK
<1>3. \A i \in DOMAIN sent : sent[i].MsgSeqNum \in Int
  <2>1. \A i \in DOMAIN sent : sent[i] \in OutMessage
    BY <1>1
  <2> QED  BY <2>1 DEF OutMessage
<1> QED  BY <1>1, <1>2, <1>3 DEF OutgoingNumbered, CountSent

(* Two outgoing messages never share a number, and the numbers leave no    *)
(* hole but for unsent mock replies, for every scenario, transport and     *)
(* counterparty.  (runner.cpp:266-271, 424-427)                            *)
THEOREM OutgoingNumberedHolds == Spec => []OutgoingNumbered
<1>1. Init => OutgoingNumbered
  <2>1. Len(<<>>) = 0 /\ DOMAIN <<>> = {}
    OBVIOUS
  <2> QED  BY <2>1 DEF Init, SessionInit, OutgoingNumbered
<1>2. TypeOK /\ OutgoingNumbered /\ [Next]_vars => OutgoingNumbered'
  <2> SUFFICES ASSUME TypeOK, OutgoingNumbered, [Next]_vars
               PROVE  OutgoingNumbered'
    OBVIOUS
  <2>1. CASE UNCHANGED <<next_out_seq, sent, skipped>>
    BY <2>1 DEF OutgoingNumbered
  <2>2. CASE RunSend
    <3>1. scenario[steps_executed + 1] \in ScenarioStep
      BY <2>2, BeginTakesStep DEF RunSend
    <3>2. SendType(scenario[steps_executed + 1].fields) \in Values
      BY <2>2, <3>1, TypesOfReplies DEF RunSend
    <3>3. \/ UNCHANGED <<next_out_seq, sent, skipped>>
          \/ /\ sent' = Append(sent,
                  Outgoing(SendType(scenario[steps_executed + 1].fields)))
             /\ CountSent
             /\ UNCHANGED skipped
      BY <2>2 DEF RunSend, ConnSend, KilledBySend, OnMessageSent, session
    <3> QED  BY <2>1, <3>2, <3>3, SendKeepsNumbering
  <2>3. CASE ExpectMocked
    <3>1. PICK j \in DOMAIN active_mocks :
            \/ \E ok \in BOOLEAN :
                 /\ ConnSend(Outgoing(ReplyType(active_mocks[j])), ok)
                 /\ CountSent
                 /\ skipped' = IF ok THEN skipped ELSE skipped + 1
            \/ KilledBySend /\ UNCHANGED <<next_out_seq, skipped>>
      BY <2>3 DEF ExpectMocked
    <3>2. ReplyType(active_mocks[j]) \in Values
      <4>1. active_mocks \in Seq(ScenarioStep)
        BY DEF TypeOK
      <4>2. active_mocks[j] \in ScenarioStep
        BY <3>1, <4>1
      <4> QED  BY <4>2, TypesOfReplies
    <3>3. \/ /\ sent' = Append(sent, Outgoing(ReplyType(active_mocks[j])))
             /\ CountSent
             /\ UNCHANGED skipped
          \/ UNCHANGED sent /\ CountSent /\ skipped' = skipped + 1
          \/ UNCHANGED <<next_out_seq, sent, skipped>>
      BY <3>1 DEF ConnSend, KilledBySend
    <3> QED  BY <2>1, <3>2, <3>3, SendKeepsNumbering, SkipKeepsNumbering
  <2>4. CASE /\ Next /\ ~RunSend /\ ~ExpectMocked
    BY <2>1, <2>4
       DEF Next, Runner, StartRun, RunConnect, RunDisconnect, RunEmptySend,
           RunMock, RunExpect, Finish, ExpectTimesOut, ExpectReads,
           ExpectReadsNothing, ExpectFailsToParse, ExpectRefused, ExpectMatched,
           ExpectIgnored, ExpectMismatched, ReceiveMessage, SutSends, SutCloses,
           session, history
  <2>5. CASE UNCHANGED vars
    BY <2>1, <2>5 DEF vars, session, history
  <2> QED  BY <2>2, <2>3, <2>4, <2>5
<1> QED  BY <1>1, <1>2, TypeCorrect, PTL DEF Spec

-----------------------------------------------------------------------------
(* A run in progress has no result yet, so a timeout is the last thing of  *)
(* its run.                                                                *)
Deadline ==
  /\ phase # "done" => outcome = "running"
  /\ ExpectKeepsDeadline

(* A step that leaves the clock alone and goes on or ends some other way.  *)
LEMMA ClockUntouched ==
  ASSUME Deadline, elapsed' = elapsed,
         \/ phase' = phase /\ outcome' = outcome
         \/ phase' = "step" /\ outcome' = outcome /\ phase # "done"
         \/ phase' = "step" /\ outcome' = "running"
         \/ phase' = "done" /\ outcome' # "timeout"
  PROVE  Deadline'
BY DEF Deadline, ExpectKeepsDeadline

(* No EXPECT outlasts its time by more than one receive, and none gives up *)
(* early, for any timeout and any traffic.  (runner.cpp:276-283)           *)
THEOREM ExpectKeepsDeadlineHolds == Spec => []ExpectKeepsDeadline
<1>1. Init => Deadline
  BY DEF Init, Deadline, ExpectKeepsDeadline
<1>2. TypeOK /\ Deadline /\ [Next]_vars => Deadline'
  <2> SUFFICES ASSUME TypeOK, Deadline, [Next]_vars PROVE Deadline'
    OBVIOUS
  <2>0. elapsed \in Nat /\ ExpectTimeout \in Nat
    BY RunnerAssumption DEF TypeOK
  <2>1. ASSUME NEW s \in Scenarios, StartRun(s) PROVE Deadline'
    BY <2>1, ClockUntouched DEF StartRun
  <2>2. CASE RunConnect \/ RunDisconnect \/ RunSend \/ RunEmptySend \/ RunMock \/ Finish
    BY <2>2, ClockUntouched
       DEF RunConnect, RunDisconnect, RunSend, RunEmptySend, RunMock, Finish, Begin, Fail,
           Proceed, KilledBySend
  <2>3. CASE RunExpect
    BY <2>0, <2>3 DEF RunExpect, Begin, Deadline, ExpectKeepsDeadline
  <2>4. CASE ExpectTimesOut
    BY <2>4 DEF ExpectTimesOut, Fail, Deadline, ExpectKeepsDeadline
  <2>5. CASE ExpectReads \/ ExpectReadsNothing
    <3>1. /\ phase = "expect" /\ elapsed <= ExpectTimeout
          /\ elapsed' \in {elapsed, elapsed + 1} /\ phase' = phase /\ outcome' = outcome
      BY <2>5 DEF ExpectReads, ExpectReadsNothing, InTime
    <3> QED BY <2>0, <3>1 DEF Deadline, ExpectKeepsDeadline
  <2>6. CASE ExpectFailsToParse \/ ExpectRefused \/ ExpectMatched \/ ExpectIgnored
             \/ ExpectMismatched
    BY <2>6, ClockUntouched
       DEF ExpectFailsToParse, ExpectRefused, ExpectMatched, ExpectIgnored, ExpectMismatched,
           HandleAs, InTime, Fail, Proceed
  <2>7. CASE ExpectMocked
    <3>1. elapsed' = elapsed
      BY <2>7 DEF ExpectMocked, HandleAs
    <3>2. \/ phase' = phase /\ outcome' = outcome
          \/ phase' = "done" /\ outcome' = "killed"
      BY <2>7 DEF ExpectMocked, KilledBySend, Fail
    <3> QED BY <3>1, <3>2, ClockUntouched
  <2>8. CASE SutCloses \/ \E m \in SutMessages : SutSends(m)
    BY <2>8, ClockUntouched DEF SutCloses, SutSends, progress
  <2>9. CASE UNCHANGED vars
    BY <2>9, ClockUntouched DEF vars, progress
  <2> QED
    BY <2>1, <2>2, <2>3, <2>4, <2>5, <2>6, <2>7, <2>8, <2>9 DEF Next, Runner
<1>3. Deadline => ExpectKeepsDeadline
  BY DEF Deadline
<1> QED  BY <1>1, <1>2, <1>3, TypeCorrect, PTL DEF Spec

-----------------------------------------------------------------------------
(* What the SUT sent is one stream: handled, then received, then waiting;  *)
(* what is missing from it was dropped.                                    *)
Sorted(s) == \A i \in DOMAIN s : \A j \in 1..(i - 1) : s[j].id < s[i].id

Before(s, t) == \A i \in DOMAIN s : \A j \in DOMAIN t : s[i].id < t[j].id

InOrder ==
  /\ Sorted(handled) /\ Sorted(rx_buffer) /\ Sorted(to_client)
  /\ Before(handled, rx_buffer) /\ Before(handled, to_client) /\ Before(rx_buffer, to_client)

Known == Ids(handled) \cup Ids(rx_buffer) \cup Ids(to_client)

Accounted ==
  /\ Known \subseteq 1..sut_sent /\ dropped \subseteq 1..sut_sent
  /\ \A id \in 1..sut_sent : id \in dropped <=> id \notin Known

OneStream == InOrder /\ Accounted

LEMMA BuffersAreSequences ==
  ASSUME TypeOK
  PROVE  /\ Len(handled) \in Nat /\ DOMAIN handled = 1..Len(handled)
         /\ Len(rx_buffer) \in Nat /\ DOMAIN rx_buffer = 1..Len(rx_buffer)
         /\ Len(to_client) \in Nat /\ DOMAIN to_client = 1..Len(to_client)
         /\ \A i \in 1..Len(handled) : handled[i].id \in Nat
         /\ \A i \in 1..Len(rx_buffer) : rx_buffer[i].id \in Nat
         /\ \A i \in 1..Len(to_client) : to_client[i].id \in Nat
<1>1. handled \in Seq(Handling) /\ rx_buffer \in Seq(Incoming) /\ to_client \in Seq(Incoming)
  BY DEF TypeOK
<1>2. /\ \A i \in 1..Len(handled) : handled[i] \in Handling
      /\ \A i \in 1..Len(rx_buffer) : rx_buffer[i] \in Incoming
      /\ \A i \in 1..Len(to_client) : to_client[i] \in Incoming
  BY <1>1
<1>3. /\ \A h \in Handling : h.id \in Nat
      /\ \A m \in Incoming : m.id \in Nat
  BY DEF Handling, Incoming
<1> QED  BY <1>1, <1>2, <1>3

(* Dropping what waits: its ids are in no other part of the stream.        *)
LEMMA DropKeepsStream ==
  ASSUME TypeOK, OneStream, UNCHANGED <<handled, rx_buffer, sut_sent>>,
         DropUnread \/ UNCHANGED <<to_client, dropped>>
  PROVE  OneStream'
<1>1. CASE UNCHANGED <<to_client, dropped>>
  BY <1>1 DEF OneStream, InOrder, Accounted, Known, Sorted, Before, Ids
<1>2. CASE to_client' = <<>> /\ dropped' = dropped \cup Ids(to_client)
  <2>1. InOrder'
    BY <1>2 DEF OneStream, InOrder, Sorted, Before
  <2>2. Known' = Ids(handled) \cup Ids(rx_buffer)
    BY <1>2 DEF Known, Ids
  <2>3. \A id \in Ids(to_client) : id \notin Ids(handled) /\ id \notin Ids(rx_buffer)
    BY BuffersAreSequences DEF OneStream, InOrder, Before, Ids
  <2>4. Ids(to_client) \subseteq 1..sut_sent
    BY DEF OneStream, Accounted, Known
  <2> QED  BY <1>2, <2>1, <2>2, <2>3, <2>4 DEF OneStream, Accounted, Known
<1> QED  BY <1>1, <1>2 DEF DropUnread

(* So does a new run drop the buffer of the last one.                      *)
LEMMA StartKeepsStream ==
  ASSUME TypeOK, OneStream, NEW s \in Scenarios, StartRun(s)
  PROVE  OneStream'
<1>1. /\ UNCHANGED <<handled, to_client, sut_sent>>
      /\ rx_buffer' = <<>> /\ dropped' = dropped \cup Ids(rx_buffer)
  BY DEF StartRun, link
<1>2. InOrder'
  BY <1>1 DEF OneStream, InOrder, Sorted, Before
<1>3. Known' = Ids(handled) \cup Ids(to_client)
  BY <1>1 DEF Known, Ids
<1>4. \A id \in Ids(rx_buffer) : id \notin Ids(handled) /\ id \notin Ids(to_client)
  BY BuffersAreSequences DEF OneStream, InOrder, Before, Ids
<1>5. Ids(rx_buffer) \subseteq 1..sut_sent
  BY DEF OneStream, Accounted, Known
<1> QED  BY <1>1, <1>2, <1>3, <1>4, <1>5 DEF OneStream, Accounted, Known

(* The message taken off the buffer is the first of what is not handled.   *)
LEMMA HandleMovesOne ==
  ASSUME TypeOK, NEW how, NEW action, HandleAs(how, action)
  PROVE  /\ rx_buffer # <<>> /\ Len(rx_buffer) \in Nat \ {0}
         /\ Len(rx_buffer') = Len(rx_buffer) - 1
         /\ DOMAIN rx_buffer' = 1..(Len(rx_buffer) - 1)
         /\ \A i \in 1..(Len(rx_buffer) - 1) : rx_buffer'[i] = rx_buffer[i + 1]
         /\ Len(handled') = Len(handled) + 1
         /\ DOMAIN handled' = 1..(Len(handled) + 1)
         /\ \A i \in 1..Len(handled) : handled'[i] = handled[i]
         /\ handled'[Len(handled) + 1] =
              [id |-> rx_buffer[1].id, msg |-> rx_buffer[1].msg, run |-> run,
               step |-> steps_executed, how |-> how, action |-> action]
<1> DEFINE h == [id |-> rx_buffer[1].id, msg |-> rx_buffer[1].msg, run |-> run,
                 step |-> steps_executed, how |-> how, action |-> action]
           I == Incoming
           D == Handling
<1>1. handled \in Seq(D) /\ rx_buffer \in Seq(I) /\ rx_buffer # <<>>
  BY DEF TypeOK, HandleAs
<1> HIDE DEF I, D
<1>2. Head(rx_buffer) = rx_buffer[1]
  BY <1>1
<1>3. rx_buffer' = Tail(rx_buffer) /\ handled' = Append(handled, h)
  BY <1>2 DEF HandleAs
<1> HIDE DEF h
<1>4. /\ rx_buffer # <<>> /\ Len(rx_buffer) \in Nat \ {0}
      /\ Len(rx_buffer') = Len(rx_buffer) - 1
      /\ DOMAIN rx_buffer' = 1..(Len(rx_buffer) - 1)
      /\ \A i \in 1..(Len(rx_buffer) - 1) : rx_buffer'[i] = rx_buffer[i + 1]
  BY <1>1, <1>3
<1>5. /\ Len(handled') = Len(handled) + 1
      /\ DOMAIN handled' = 1..(Len(handled) + 1)
      /\ \A i \in 1..Len(handled) : handled'[i] = handled[i]
      /\ handled'[Len(handled) + 1] = h
  BY <1>1, <1>3
<1> QED  BY <1>4, <1>5 DEF h

LEMMA HandleKeepsStream ==
  ASSUME TypeOK, OneStream, NEW how, NEW action, HandleAs(how, action)
  PROVE  OneStream'
<1> DEFINE n == Len(handled)
           m == Len(rx_buffer)
<1>1. /\ n \in Nat /\ m \in Nat \ {0}
      /\ DOMAIN handled = 1..n /\ DOMAIN handled' = 1..(n + 1)
      /\ DOMAIN rx_buffer = 1..m /\ DOMAIN rx_buffer' = 1..(m - 1)
      /\ DOMAIN to_client = 1..Len(to_client)
      /\ UNCHANGED <<to_client, sut_sent, dropped>>
  BY HandleMovesOne, BuffersAreSequences DEF HandleAs, link
<1>2. /\ \A i \in 1..n : handled'[i].id = handled[i].id
      /\ handled'[n + 1].id = rx_buffer[1].id
      /\ \A i \in 1..(m - 1) : rx_buffer'[i].id = rx_buffer[i + 1].id
  <2>1. handled'[n + 1].id = rx_buffer[1].id
    <3> DEFINE h == handled'[n + 1]
    <3>1. h = [id |-> rx_buffer[1].id, msg |-> rx_buffer[1].msg, run |-> run,
               step |-> steps_executed, how |-> how, action |-> action]
      BY HandleMovesOne
    <3> HIDE DEF h
    <3>2. h.id = rx_buffer[1].id
      BY <3>1
    <3> QED  BY <3>2 DEF h
  <2> QED  BY <2>1, HandleMovesOne
<1>3. /\ \A i \in 1..n : handled[i].id \in Nat
      /\ \A i \in 1..m : rx_buffer[i].id \in Nat
      /\ \A i \in 1..Len(to_client) : to_client[i].id \in Nat
  BY BuffersAreSequences
<1>4. InOrder
  BY DEF OneStream
<1> HIDE DEF n, m
<1>5. Sorted(handled)'
  <2>1. ASSUME NEW i \in 1..(n + 1), NEW j \in 1..(i - 1)
        PROVE  handled'[j].id < handled'[i].id
    <3>1. CASE i = n + 1
      <4>1. j \in 1..n /\ 1 \in 1..m
        BY <1>1, <3>1
      <4>2. handled[j].id < rx_buffer[1].id
        BY <1>1, <1>4, <4>1 DEF InOrder, Before
      <4> QED  BY <1>2, <3>1, <4>1, <4>2
    <3>2. CASE i \in 1..n
      <4>1. j \in 1..n
        BY <1>1, <3>2
      <4>2. handled[j].id < handled[i].id
        BY <1>1, <1>4, <3>2 DEF InOrder, Sorted
      <4> QED  BY <1>2, <3>2, <4>1, <4>2
    <3> QED  BY <1>1, <3>1, <3>2
  <2> QED  BY <1>1, <2>1 DEF Sorted
<1>6. Sorted(rx_buffer)'
  <2>1. ASSUME NEW i \in 1..(m - 1), NEW j \in 1..(i - 1)
        PROVE  rx_buffer'[j].id < rx_buffer'[i].id
    <3>1. j \in 1..(m - 1) /\ i + 1 \in 1..m /\ j + 1 \in 1..((i + 1) - 1)
      BY <1>1
    <3>2. rx_buffer[j + 1].id < rx_buffer[i + 1].id
      BY <1>1, <1>4, <3>1 DEF InOrder, Sorted
    <3> QED  BY <1>2, <3>1, <3>2
  <2> QED  BY <1>1, <2>1 DEF Sorted
<1>7. Sorted(to_client)' /\ Before(handled, to_client)' /\ Before(rx_buffer, to_client)'
  <2>1. Sorted(to_client)'
    BY <1>1, <1>4 DEF InOrder, Sorted
  <2>2. ASSUME NEW i \in 1..(n + 1), NEW j \in DOMAIN to_client
        PROVE  handled'[i].id < to_client[j].id
    <3>1. i \in 1..n \/ i = n + 1
      BY <1>1
    <3>2. 1 \in 1..m
      BY <1>1
    <3> QED  BY <1>1, <1>2, <1>4, <3>1, <3>2 DEF InOrder, Before
  <2>3. ASSUME NEW i \in 1..(m - 1), NEW j \in DOMAIN to_client
        PROVE  rx_buffer'[i].id < to_client[j].id
    <3>1. i + 1 \in 1..m
      BY <1>1
    <3> QED  BY <1>1, <1>2, <1>4, <3>1 DEF InOrder, Before
  <2> QED  BY <1>1, <2>1, <2>2, <2>3 DEF Before
<1>8. Before(handled, rx_buffer)'
  <2>1. ASSUME NEW i \in 1..(n + 1), NEW j \in 1..(m - 1)
        PROVE  handled'[i].id < rx_buffer'[j].id
    <3>1. (i \in 1..n \/ i = n + 1) /\ j + 1 \in 1..m /\ 1 \in 1..((j + 1) - 1)
      BY <1>1
    <3>2. CASE i \in 1..n
      <4>1. handled[i].id < rx_buffer[j + 1].id
        BY <1>1, <1>4, <3>1, <3>2 DEF InOrder, Before
      <4> QED  BY <1>2, <3>2, <4>1
    <3>3. CASE i = n + 1
      <4>1. rx_buffer[1].id < rx_buffer[j + 1].id
        BY <1>1, <1>4, <3>1 DEF InOrder, Sorted
      <4> QED  BY <1>2, <3>3, <4>1
    <3> QED  BY <3>1, <3>2, <3>3
  <2> QED  BY <1>1, <2>1 DEF Before
<1>9. Known' = Known
  <2>1. Ids(handled)' = Ids(handled) \cup {rx_buffer[1].id}
    <3>1. \A i \in 1..(n + 1) : i \in 1..n \/ i = n + 1
      BY <1>1
    <3>2. n + 1 \in 1..(n + 1) /\ \A i \in 1..n : i \in 1..(n + 1)
      BY <1>1
    <3>3. /\ Ids(handled)' = {handled'[i].id : i \in 1..(n + 1)}
          /\ Ids(handled) = {handled[i].id : i \in 1..n}
      BY <1>1 DEF Ids
    <3> QED  BY <1>2, <3>1, <3>2, <3>3
  <2>2. Ids(rx_buffer) = Ids(rx_buffer)' \cup {rx_buffer[1].id}
    <3>1. \A i \in 1..m : i = 1 \/ (i - 1 \in 1..(m - 1) /\ i = (i - 1) + 1)
      BY <1>1
    <3>2. \A i \in 1..(m - 1) : i + 1 \in 1..m
      BY <1>1
    <3>3. 1 \in 1..m
      BY <1>1
    <3>4. /\ Ids(rx_buffer)' = {rx_buffer'[i].id : i \in 1..(m - 1)}
          /\ Ids(rx_buffer) = {rx_buffer[i].id : i \in 1..m}
      BY <1>1 DEF Ids
    <3>5. \A i \in 1..m : i = 1 \/ rx_buffer[i].id = rx_buffer'[i - 1].id
      BY <1>2, <3>1
    <3> QED  BY <1>2, <3>1, <3>2, <3>3, <3>4, <3>5
  <2>3. Ids(to_client)' = Ids(to_client)
    BY <1>1 DEF Ids
  <2> QED  BY <2>1, <2>2, <2>3 DEF Known
<1> QED  BY <1>1, <1>5, <1>6, <1>7, <1>8, <1>9 DEF OneStream, InOrder, Accounted

(* A receive moves the front of what waits into the empty buffer.          *)
LEMMA ReadKeepsStream ==
  ASSUME TypeOK, OneStream, ExpectReads
  PROVE  OneStream'
<1> DEFINE l == Len(to_client)
           I == Incoming
<1>1. PICK k \in 1..l :
        /\ rx_buffer' = SubSeq(to_client, 1, k)
        /\ to_client' = SubSeq(to_client, k + 1, l)
  BY DEF ExpectReads
<1>2. to_client \in Seq(I)
  BY DEF TypeOK
<1>3. /\ l \in Nat /\ DOMAIN to_client = 1..l
      /\ \A i \in 1..l : to_client[i].id \in Nat
  BY BuffersAreSequences
<1> HIDE DEF I
<1>4. /\ DOMAIN rx_buffer' = 1..k /\ DOMAIN to_client' = 1..(l - k)
      /\ \A i \in 1..k : rx_buffer'[i] = to_client[i]
      /\ \A i \in 1..(l - k) : to_client'[i] = to_client[i + k]
  BY <1>1, <1>2, <1>3
<1>5. rx_buffer = <<>> /\ UNCHANGED <<handled, dropped, sut_sent>>
  BY DEF ExpectReads, history
<1>6. InOrder
  BY DEF OneStream
<1> HIDE DEF l
<1>7. \A i \in 1..(l - k) : i + k \in 1..l
  BY <1>3
<1>8. Sorted(handled)' /\ Sorted(rx_buffer)'
  <2>1. Sorted(handled)'
    BY <1>5, <1>6 DEF InOrder, Sorted
  <2>2. ASSUME NEW i \in 1..k, NEW j \in 1..(i - 1)
        PROVE  rx_buffer'[j].id < rx_buffer'[i].id
    <3>1. i \in 1..l /\ j \in 1..k
      BY <1>3
    <3>2. to_client[j].id < to_client[i].id
      BY <1>3, <1>6, <3>1 DEF InOrder, Sorted
    <3> QED  BY <1>4, <3>1, <3>2
  <2> QED  BY <1>4, <2>1, <2>2 DEF Sorted
<1>9. Sorted(to_client)'
  <2>1. ASSUME NEW i \in 1..(l - k), NEW j \in 1..(i - 1)
        PROVE  to_client'[j].id < to_client'[i].id
    <3>1. j \in 1..(l - k) /\ j + k \in 1..((i + k) - 1)
      BY <1>3
    <3>2. to_client[j + k].id < to_client[i + k].id
      BY <1>3, <1>6, <1>7, <3>1 DEF InOrder, Sorted
    <3> QED  BY <1>4, <3>1, <3>2
  <2> QED  BY <1>4, <2>1 DEF Sorted
<1>10. Before(handled, rx_buffer)' /\ Before(handled, to_client)'
  <2>1. ASSUME NEW i \in DOMAIN handled, NEW j \in 1..l
        PROVE  handled[i].id < to_client[j].id
    BY <1>3, <1>6 DEF InOrder, Before
  <2>2. \A j \in 1..k : j \in 1..l
    BY <1>3
  <2> QED  BY <1>4, <1>5, <1>7, <2>1, <2>2 DEF Before
<1>11. Before(rx_buffer, to_client)'
  <2>1. ASSUME NEW i \in 1..k, NEW j \in 1..(l - k)
        PROVE  rx_buffer'[i].id < to_client'[j].id
    <3>1. i \in 1..((j + k) - 1)
      BY <1>3
    <3>2. to_client[i].id < to_client[j + k].id
      BY <1>3, <1>6, <1>7, <3>1 DEF InOrder, Sorted
    <3> QED  BY <1>4, <3>2
  <2> QED  BY <1>4, <2>1 DEF Before
<1>12. Known' = Known
  <2>1. Ids(rx_buffer) = {} /\ Ids(handled)' = Ids(handled)
    BY <1>5 DEF Ids
  <2>2. /\ Ids(rx_buffer)' = {rx_buffer'[i].id : i \in 1..k}
        /\ Ids(to_client)' = {to_client'[i].id : i \in 1..(l - k)}
        /\ Ids(to_client) = {to_client[i].id : i \in 1..l}
    BY <1>3, <1>4 DEF Ids
  <2>3. \A i \in 1..l : i \in 1..k \/ (i - k \in 1..(l - k) /\ i = (i - k) + k)
    BY <1>3
  <2>4. \A i \in 1..l : \/ i \in 1..k /\ to_client[i].id = rx_buffer'[i].id
                        \/ i - k \in 1..(l - k) /\ to_client[i].id = to_client'[i - k].id
    BY <1>4, <2>3
  <2>5. \A i \in 1..k : i \in 1..l
    BY <1>3
  <2>6. Ids(to_client) = Ids(rx_buffer)' \cup Ids(to_client)'
    BY <1>4, <1>7, <2>2, <2>4, <2>5
  <2> QED  BY <2>1, <2>6 DEF Known
<1> QED  BY <1>5, <1>8, <1>9, <1>10, <1>11, <1>12 DEF OneStream, InOrder, Accounted

(* What the SUT sends next has a number of its own, above all the others.  *)
LEMMA SendKeepsStream ==
  ASSUME TypeOK, OneStream, NEW m \in SutMessages, SutSends(m)
  PROVE  OneStream'
<1> DEFINE l == Len(to_client)
           I == Incoming
           new == [id |-> sut_sent + 1, msg |-> m]
<1>1. to_client \in Seq(I) /\ l \in Nat
  BY BuffersAreSequences DEF TypeOK
<1>2. to_client' = Append(to_client, new) /\ sut_sent' = sut_sent + 1 /\ sut_sent \in Nat
  BY RunnerAssumption DEF SutSends, TypeOK
<1>3. new.id = sut_sent + 1
  OBVIOUS
<1> HIDE DEF new, I
<1>4. /\ DOMAIN to_client = 1..l /\ DOMAIN to_client' = 1..(l + 1)
      /\ \A i \in 1..l : to_client'[i] = to_client[i]
      /\ to_client'[l + 1] = new
  BY <1>1, <1>2
<1>5. to_client'[l + 1].id = sut_sent + 1
  BY <1>3, <1>4
<1>6. UNCHANGED <<handled, rx_buffer, dropped>>
  BY DEF SutSends, history
<1>7. InOrder /\ Known \subseteq 1..sut_sent
  BY DEF OneStream, Accounted
<1>8. /\ \A i \in DOMAIN handled : handled[i].id \in 1..sut_sent
      /\ \A i \in DOMAIN rx_buffer : rx_buffer[i].id \in 1..sut_sent
      /\ \A i \in DOMAIN to_client : to_client[i].id \in 1..sut_sent
  BY <1>7 DEF Known, Ids
<1> HIDE DEF l
<1>9. \A i \in 1..(l + 1) : i \in 1..l \/ i = l + 1
  BY <1>1
<1>10. Sorted(to_client)'
  <2>1. ASSUME NEW i \in 1..(l + 1), NEW j \in 1..(i - 1)
        PROVE  to_client'[j].id < to_client'[i].id
    <3>1. j \in 1..l
      BY <1>1
    <3>2. CASE i = l + 1
      <4>1. to_client[j].id < sut_sent + 1
        BY <1>2, <1>4, <1>8, <3>1
      <4> QED  BY <1>4, <1>5, <3>1, <3>2, <4>1
    <3>3. CASE i \in 1..l
      BY <1>4, <1>7, <3>1, <3>3 DEF InOrder, Sorted
    <3> QED  BY <1>9, <3>2, <3>3
  <2> QED  BY <1>4, <2>1 DEF Sorted
<1>11. Before(handled, to_client)' /\ Before(rx_buffer, to_client)'
  <2>1. \A x \in 1..sut_sent : x < sut_sent + 1
    BY <1>2
  <2> QED  BY <1>4, <1>5, <1>6, <1>7, <1>8, <1>9, <2>1 DEF InOrder, Before
<1>12. InOrder'
  BY <1>6, <1>7, <1>10, <1>11 DEF InOrder, Sorted, Before
<1>13. Known' = Known \cup {sut_sent + 1}
  <2>1. /\ Ids(to_client)' = {to_client'[i].id : i \in 1..(l + 1)}
        /\ Ids(to_client) = {to_client[i].id : i \in 1..l}
    BY <1>4 DEF Ids
  <2>2. l + 1 \in 1..(l + 1) /\ \A i \in 1..l : i \in 1..(l + 1)
    BY <1>1
  <2>3. Ids(to_client)' = Ids(to_client) \cup {sut_sent + 1}
    BY <1>4, <1>5, <1>9, <2>1, <2>2
  <2> QED  BY <1>6, <2>3 DEF Known, Ids
<1>14. /\ 1..(sut_sent + 1) = (1..sut_sent) \cup {sut_sent + 1}
       /\ sut_sent + 1 \notin 1..sut_sent
  BY <1>2
<1>15. /\ dropped \subseteq 1..sut_sent
       /\ \A id \in 1..sut_sent : id \in dropped <=> id \notin Known
  BY DEF OneStream, Accounted
<1>16. Accounted'
  BY <1>2, <1>6, <1>7, <1>13, <1>14, <1>15 DEF Accounted
<1> QED  BY <1>12, <1>16 DEF OneStream

LEMMA NextKeepsStream == TypeOK /\ OneStream /\ [Next]_vars => OneStream'
<1> SUFFICES ASSUME TypeOK, OneStream, [Next]_vars PROVE OneStream'
  OBVIOUS
<1>1. CASE UNCHANGED <<handled, rx_buffer, to_client, dropped, sut_sent>>
  BY <1>1, DropKeepsStream
<1>2. ASSUME NEW s \in Scenarios, StartRun(s) PROVE OneStream'
  BY <1>2, StartKeepsStream
<1>3. CASE RunConnect \/ RunDisconnect \/ SutCloses
  BY <1>3, DropKeepsStream DEF RunConnect, RunDisconnect, SutCloses
<1>4. CASE RunSend \/ RunEmptySend \/ RunMock \/ RunExpect \/ Finish \/ ExpectTimesOut
           \/ ExpectReadsNothing
  BY <1>1, <1>4 DEF RunSend, RunEmptySend, RunMock, RunExpect, Finish, ExpectTimesOut,
                    ExpectReadsNothing, link, history
<1>5. CASE ExpectReads
  BY <1>5, ReadKeepsStream
<1>6. CASE ExpectFailsToParse \/ ExpectRefused \/ ExpectMatched \/ ExpectMocked
           \/ ExpectIgnored \/ ExpectMismatched
  <2>1. \E how, action : HandleAs(how, action)
    BY <1>6 DEF ExpectFailsToParse, ExpectRefused, ExpectMatched, ExpectMocked, ExpectIgnored,
                ExpectMismatched
  <2> QED  BY <2>1, HandleKeepsStream
<1>7. ASSUME NEW m \in SutMessages, SutSends(m) PROVE OneStream'
  BY <1>7, SendKeepsStream
<1>8. CASE UNCHANGED vars
  BY <1>1, <1>8 DEF vars, link, history
<1> QED
  BY <1>2, <1>3, <1>4, <1>5, <1>6, <1>7, <1>8 DEF Next, Runner

(* The stream as the invariant of the runs states it.                      *)
LEMMA StreamIsInOrder ==
  ASSUME TypeOK, OneStream
  PROVE  IncomingInOrder
<1> DEFINE n == Len(handled)
           m == Len(rx_buffer)
           l == Len(to_client)
           I == Incoming
           pending == rx_buffer \o to_client
           stream == [i \in 1..(n + Len(pending)) |->
                        IF i <= n THEN handled[i].id ELSE pending[i - n].id]
           H == 1..n
           R == (n + 1)..(n + m)
           C == (n + m + 1)..(n + m + l)
<1>1. n \in Nat /\ m \in Nat /\ l \in Nat
      /\ DOMAIN handled = 1..n /\ DOMAIN rx_buffer = 1..m /\ DOMAIN to_client = 1..l
  BY BuffersAreSequences
<1>2. rx_buffer \in Seq(I) /\ to_client \in Seq(I)
  BY DEF TypeOK
<1> HIDE DEF I
<1>3. /\ Len(pending) = m + l
      /\ \A i \in 1..m : pending[i] = rx_buffer[i]
      /\ \A i \in 1..l : pending[m + i] = to_client[i]
  BY <1>2
<1> HIDE DEF n, m, l, pending
<1>4. DOMAIN stream = 1..(n + m + l)
  BY <1>1, <1>3
<1>5. \A i \in 1..(n + m + l) : i \in H \/ i \in R \/ i \in C
  BY <1>1
<1>6. \A i \in H : stream[i] = handled[i].id /\ i \in DOMAIN stream
  BY <1>1, <1>3, <1>4
<1>7. \A i \in R : stream[i] = rx_buffer[i - n].id /\ i - n \in 1..m /\ i \in DOMAIN stream
  <2>1. ASSUME NEW i \in R PROVE i - n \in 1..m /\ ~(i <= n) /\ i \in 1..(n + m + l)
    BY <1>1
  <2> QED  BY <1>3, <1>4, <2>1
<1>8. \A i \in C : /\ stream[i] = to_client[i - n - m].id /\ i - n - m \in 1..l
                   /\ i \in DOMAIN stream
  <2>1. ASSUME NEW i \in C
        PROVE  /\ i - n - m \in 1..l /\ ~(i <= n) /\ i \in 1..(n + m + l)
               /\ i - n = m + (i - n - m)
    BY <1>1
  <2> QED  BY <1>3, <1>4, <2>1
<1>9. InOrder /\ Accounted
  BY DEF OneStream
<1> HIDE DEF stream
<1>10. ASSUME NEW i \in DOMAIN stream, NEW j \in 1..(i - 1)
       PROVE  stream[j] < stream[i]
  <2>1. i \in H \/ i \in R \/ i \in C
    BY <1>4, <1>5
  <2>2. CASE i \in H
    <3>1. j \in H
      BY <1>1, <2>2
    <3> QED  BY <1>1, <1>6, <1>9, <2>2, <3>1 DEF InOrder, Sorted
  <2>3. CASE i \in R
    <3>1. j \in H \/ (j \in R /\ j - n \in 1..((i - n) - 1))
      BY <1>1, <2>3
    <3>2. CASE j \in H
      BY <1>1, <1>6, <1>7, <1>9, <2>3, <3>2 DEF InOrder, Before
    <3>3. CASE j \in R /\ j - n \in 1..((i - n) - 1)
      <4>1. rx_buffer[j - n].id < rx_buffer[i - n].id
        BY <1>1, <1>7, <1>9, <2>3, <3>3 DEF InOrder, Sorted
      <4> QED  BY <1>7, <2>3, <3>3, <4>1
    <3> QED  BY <3>1, <3>2, <3>3
  <2>4. CASE i \in C
    <3>1. j \in H \/ j \in R \/ (j \in C /\ j - n - m \in 1..((i - n - m) - 1))
      BY <1>1, <2>4
    <3>2. CASE j \in H
      BY <1>1, <1>6, <1>8, <1>9, <2>4, <3>2 DEF InOrder, Before
    <3>3. CASE j \in R
      BY <1>1, <1>7, <1>8, <1>9, <2>4, <3>3 DEF InOrder, Before
    <3>4. CASE j \in C /\ j - n - m \in 1..((i - n - m) - 1)
      <4>1. to_client[j - n - m].id < to_client[i - n - m].id
        BY <1>1, <1>8, <1>9, <2>4, <3>4 DEF InOrder, Sorted
      <4> QED  BY <1>8, <2>4, <3>4, <4>1
    <3> QED  BY <3>1, <3>2, <3>3, <3>4
  <2> QED  BY <2>1, <2>2, <2>3, <2>4
<1>11. ASSUME NEW id
       PROVE  id \in Known <=> \E i \in DOMAIN stream : stream[i] = id
  <2>1. ASSUME NEW i \in DOMAIN stream PROVE stream[i] \in Known
    BY <1>1, <1>4, <1>5, <1>6, <1>7, <1>8 DEF Known, Ids
  <2>2. ASSUME id \in Known PROVE \E i \in DOMAIN stream : stream[i] = id
    <3>1. CASE id \in Ids(handled)
      BY <1>1, <1>6, <3>1 DEF Ids
    <3>2. CASE id \in Ids(rx_buffer)
      <4>1. PICK i \in 1..m : id = rx_buffer[i].id
        BY <1>1, <3>2 DEF Ids
      <4>2. n + i \in R /\ (n + i) - n = i
        BY <1>1
      <4> QED  BY <1>7, <4>1, <4>2
    <3>3. CASE id \in Ids(to_client)
      <4>1. PICK i \in 1..l : id = to_client[i].id
        BY <1>1, <3>3 DEF Ids
      <4>2. n + m + i \in C /\ (n + m + i) - n - m = i
        BY <1>1
      <4> QED  BY <1>8, <4>1, <4>2
    <3> QED  BY <2>2, <3>1, <3>2, <3>3 DEF Known
  <2> QED  BY <2>1, <2>2
<1>12. \A id \in 1..sut_sent : id \in dropped <=> \A i \in DOMAIN stream : stream[i] # id
  BY <1>9, <1>11 DEF Accounted
<1> QED  BY <1>10, <1>12 DEF IncomingInOrder, stream, pending, n

(* Incoming messages are handled at most once and in the order they were   *)
(* sent; none disappears but with a run or a connection, for any scenarios *)
(* and any traffic.  (runner.cpp:216, 286-294)                             *)
THEOREM IncomingInOrderHolds == Spec => []IncomingInOrder
<1>1. Init => OneStream
  <2> SUFFICES ASSUME Init PROVE OneStream
    OBVIOUS
  <2>1. handled = <<>> /\ rx_buffer = <<>> /\ to_client = <<>> /\ dropped = {} /\ sut_sent = 0
    BY DEF Init
  <2> QED  BY <2>1 DEF OneStream, InOrder, Accounted, Known, Ids, Sorted, Before
<1>2. TypeOK /\ OneStream => IncomingInOrder
  BY StreamIsInOrder
<1> QED  BY <1>1, <1>2, NextKeepsStream, TypeCorrect, PTL DEF Spec

-----------------------------------------------------------------------------
(* In memory a receive yields one message, and the EXPECT that received it *)
(* handles it unless its time is up.                                       *)
OneAtATime ==
  transport = "memory" /\ ~timed_out =>
    /\ dropped = {}
    /\ rx_buffer # <<>> => phase = "expect" /\ Len(rx_buffer) = 1

LEMMA NextOneAtATime == TypeOK /\ OneAtATime /\ [Next]_vars => OneAtATime'
<1> SUFFICES ASSUME TypeOK, OneAtATime, [Next]_vars PROVE OneAtATime'
  OBVIOUS
<1>0. UNCHANGED transport
  BY DEF Next, vars
<1>1. ASSUME timed_out' = timed_out, rx_buffer' = rx_buffer,
             phase' = phase \/ phase # "expect", dropped' = dropped \/ DropUnread
      PROVE  OneAtATime'
  BY <1>0, <1>1 DEF OneAtATime, DropUnread
<1>2. ASSUME NEW s \in Scenarios, StartRun(s) PROVE OneAtATime'
  <2>1. phase # "expect" /\ rx_buffer' = <<>> /\ UNCHANGED timed_out
        /\ dropped' = dropped \cup Ids(rx_buffer)
    BY <1>2 DEF StartRun
  <2>2. Ids(<<>>) = {}
    BY DEF Ids
  <2> QED  BY <1>0, <2>1, <2>2 DEF OneAtATime
<1>3. CASE RunConnect \/ RunDisconnect \/ RunSend \/ RunEmptySend \/ RunMock \/ RunExpect
           \/ Finish
  BY <1>1, <1>3 DEF RunConnect, RunDisconnect, RunSend, RunEmptySend, RunMock, RunExpect, Finish,
                    Begin, history
<1>4. CASE ExpectTimesOut
  BY <1>4 DEF ExpectTimesOut, OneAtATime
<1>5. CASE ExpectReadsNothing
  BY <1>1, <1>5 DEF ExpectReadsNothing, history
<1>6. CASE ExpectReads
  <2> DEFINE I == Incoming
  <2>1. PICK k \in 1..Len(to_client) :
          /\ transport = "memory" => k = 1
          /\ rx_buffer' = SubSeq(to_client, 1, k)
    BY <1>6 DEF ExpectReads
  <2>2. to_client \in Seq(I)
    BY DEF TypeOK
  <2> HIDE DEF I
  <2>3. transport = "memory" => Len(rx_buffer') = 1
    BY <2>1, <2>2
  <2>4. phase' = "expect" /\ UNCHANGED <<timed_out, dropped>>
    BY <1>6 DEF ExpectReads, InTime, history
  <2> QED  BY <1>0, <2>3, <2>4 DEF OneAtATime
<1>7. CASE ExpectFailsToParse \/ ExpectRefused \/ ExpectMatched \/ ExpectMocked
           \/ ExpectIgnored \/ ExpectMismatched
  <2>1. PICK how, action : HandleAs(how, action)
    BY <1>7 DEF ExpectFailsToParse, ExpectRefused, ExpectMatched, ExpectMocked, ExpectIgnored,
                ExpectMismatched
  <2>2. rx_buffer # <<>> /\ rx_buffer' = Tail(rx_buffer) /\ UNCHANGED <<timed_out, dropped>>
    BY <2>1 DEF HandleAs
  <2>3. Len(rx_buffer) = 1 => rx_buffer' = <<>>
    <3> DEFINE I == Incoming
    <3>1. rx_buffer \in Seq(I)
      BY DEF TypeOK
    <3> HIDE DEF I
    <3> QED  BY <2>2, <3>1
  <2> QED  BY <1>0, <2>2, <2>3 DEF OneAtATime
<1>8. CASE SutCloses \/ \E m \in SutMessages : SutSends(m)
  BY <1>1, <1>8 DEF SutCloses, SutSends, progress, history
<1>9. CASE UNCHANGED vars
  BY <1>1, <1>9 DEF vars, progress, history
<1> QED
  BY <1>2, <1>3, <1>4, <1>5, <1>6, <1>7, <1>8, <1>9 DEF Next, Runner

(* Over an in-memory connection nothing is lost as long as no EXPECT timed *)
(* out, whatever errors, reconnects and runs there were.                   *)
(* (runner.cpp:57-58, 216, 280-293)                                        *)
THEOREM LostOnlyToTimeoutHolds == Spec => []LostOnlyToTimeout
<1>1. Init => OneAtATime
  BY DEF Init, OneAtATime
<1>2. OneAtATime => LostOnlyToTimeout
  BY DEF OneAtATime, LostOnlyToTimeout
<1> QED  BY <1>1, <1>2, NextOneAtATime, TypeCorrect, PTL DEF Spec

-----------------------------------------------------------------------------
(* Every EXPECT a run has behind it was met, and the one it is in, if any, *)
(* has so far let through mocked and ignored messages only.                *)
Met(n) ==
  \E i \in DOMAIN handled :
    /\ OfThisRun(i) /\ handled[i].step = n /\ handled[i].how = "matched"
    /\ Matches(handled[i].msg, scenario[n].fields)
    /\ \A k \in DOMAIN handled :
         OfThisRun(k) /\ handled[k].step = n /\ k # i =>
           k < i /\ handled[k].how \in {"mocked", "ignored"}

Behind == IF phase = "expect" THEN steps_executed - 1 ELSE steps_executed

Going == phase # "done" \/ outcome = "success"

ExpectationsSoFar ==
  /\ phase # "done" => outcome = "running"
  /\ outcome = "success" => steps_executed = Len(scenario)
  /\ \A k \in DOMAIN handled : handled[k].run <= run
  /\ Going =>
       /\ \A n \in 1..Behind : scenario[n].type = "Expect" => Met(n)
       /\ \A k \in DOMAIN handled : OfThisRun(k) =>
            /\ handled[k].step <= steps_executed
            /\ handled[k].how # "refused" /\ handled[k].action # "Disconnect"
  /\ phase = "expect" =>
       /\ steps_executed \in 1..Len(scenario)
       /\ \A k \in DOMAIN handled : OfThisRun(k) /\ handled[k].step = steps_executed =>
            handled[k].how \in {"mocked", "ignored"}

LEMMA HandledTypes ==
  ASSUME TypeOK
  PROVE  /\ steps_executed \in Nat /\ Len(scenario) \in Nat /\ steps_executed <= Len(scenario)
         /\ run \in Nat
         /\ Len(handled) \in Nat /\ DOMAIN handled = 1..Len(handled)
         /\ \A k \in 1..Len(handled) : handled[k].run \in Nat /\ handled[k].step \in Nat
<1>1. handled \in Seq(Handling) /\ scenario \in Seq(ScenarioStep)
  BY DEF TypeOK
<1>2. steps_executed \in 0..Len(scenario) /\ run \in 0..MaxRuns /\ MaxRuns \in Nat
  BY RunnerAssumption DEF TypeOK
<1>3. \A h \in Handling : h.run \in Nat /\ h.step \in Nat
  BY DEF Handling
<1>4. Len(scenario) \in Nat /\ DOMAIN handled = 1..Len(handled) /\ Len(handled) \in Nat
  <2> HIDE DEF ScenarioStep, Handling
  <2> QED  BY <1>1
<1>5. \A k \in 1..Len(handled) : handled[k] \in Handling
  <2> HIDE DEF Handling
  <2> QED  BY <1>1
<1> QED  BY <1>2, <1>3, <1>4, <1>5

(* The run ends, or had ended, without success.                            *)
LEMMA EndedOtherwise ==
  ASSUME ExpectationsSoFar, UNCHANGED <<handled, run>>, phase' = "done", outcome' # "success"
  PROVE  ExpectationsSoFar'
BY DEF ExpectationsSoFar, Going

(* Nothing the expectations speak of moves.                                *)
LEMMA NothingMoves ==
  ASSUME ExpectationsSoFar,
         UNCHANGED <<handled, run, scenario, steps_executed, phase, outcome>>
  PROVE  ExpectationsSoFar'
BY DEF ExpectationsSoFar, Going, Behind, Met, OfThisRun

(* A step other than EXPECT, which goes on or ends without success.        *)
LEMMA OtherStep ==
  ASSUME TypeOK, ExpectationsSoFar, NEW type, type # "Expect", Begin(type),
         UNCHANGED <<handled, run, scenario>>,
         \/ Proceed
         \/ phase' = "done" /\ outcome' # "success"
  PROVE  ExpectationsSoFar'
<1>1. CASE phase' = "done" /\ outcome' # "success"
  BY <1>1, EndedOtherwise
<1>2. CASE Proceed
  <2>1. /\ phase = "step" /\ steps_executed < Len(scenario)
        /\ scenario[steps_executed + 1].type # "Expect"
        /\ steps_executed' = steps_executed + 1 /\ phase' = "step" /\ outcome' = outcome
    BY <1>2 DEF Begin, Proceed
  <2>2. outcome = "running" /\ Behind = steps_executed /\ Behind' = steps_executed + 1
    BY <2>1 DEF ExpectationsSoFar, Behind
  <2>3. \A n \in 1..(steps_executed + 1) : n \in 1..steps_executed \/ n = steps_executed + 1
    BY HandledTypes
  <2>4. \A n : Met(n)' <=> Met(n)
    BY DEF Met, OfThisRun
  <2>5. \A n \in 1..Behind' : scenario'[n].type = "Expect" => Met(n)'
    BY <2>1, <2>2, <2>3, <2>4 DEF ExpectationsSoFar, Going
  <2>6. ASSUME NEW k \in DOMAIN handled, OfThisRun(k)
        PROVE  /\ handled[k].step <= steps_executed + 1
               /\ handled[k].how # "refused" /\ handled[k].action # "Disconnect"
    BY <2>1, <2>6, HandledTypes DEF ExpectationsSoFar, Going
  <2>7. \A k \in DOMAIN handled' : OfThisRun(k)' =>
          /\ handled'[k].step <= steps_executed'
          /\ handled'[k].how # "refused" /\ handled'[k].action # "Disconnect"
    BY <2>1, <2>6 DEF OfThisRun
  <2> QED  BY <2>1, <2>2, <2>5, <2>7 DEF ExpectationsSoFar, Going
<1> QED  BY <1>1, <1>2

LEMMA ExpectBegins ==
  ASSUME TypeOK, ExpectationsSoFar, RunExpect
  PROVE  ExpectationsSoFar'
<1>1. /\ phase = "step" /\ steps_executed < Len(scenario) /\ phase' = "expect"
      /\ steps_executed' = steps_executed + 1
      /\ UNCHANGED <<handled, run, scenario, outcome>>
  BY DEF RunExpect, Begin, history
<1>2. /\ outcome = "running" /\ Behind = steps_executed /\ Behind' = steps_executed
      /\ steps_executed' \in 1..Len(scenario)
  BY <1>1, HandledTypes DEF ExpectationsSoFar, Behind
<1>3. \A n : Met(n)' <=> Met(n)
  BY <1>1 DEF Met, OfThisRun
<1>4. ASSUME NEW k \in DOMAIN handled, OfThisRun(k)
      PROVE  /\ handled[k].step < steps_executed + 1
             /\ handled[k].how # "refused" /\ handled[k].action # "Disconnect"
  BY <1>1, <1>4, HandledTypes DEF ExpectationsSoFar, Going
<1>5. \A k \in DOMAIN handled' : OfThisRun(k)' =>
        /\ handled'[k].step <= steps_executed' /\ handled'[k].step # steps_executed'
        /\ handled'[k].how # "refused" /\ handled'[k].action # "Disconnect"
  <2>1. \A k \in DOMAIN handled : handled[k].step \in Nat /\ steps_executed \in Nat
    BY HandledTypes
  <2> QED  BY <1>1, <1>4, <2>1 DEF OfThisRun
<1> QED  BY <1>1, <1>2, <1>3, <1>5 DEF ExpectationsSoFar, Going

(* A message is taken off the buffer in an EXPECT.                         *)
LEMMA ExpectTakes ==
  ASSUME TypeOK, ExpectationsSoFar, NEW how, NEW action, HandleAs(how, action),
         \/ phase' = "done" /\ outcome' # "success"
         \/ /\ UNCHANGED <<phase, outcome>>
            /\ how \in {"mocked", "ignored"} /\ action # "Disconnect"
         \/ /\ Proceed /\ how = "matched" /\ action # "Disconnect"
            /\ Matches(Msg, CurrentStep.fields)
  PROVE  ExpectationsSoFar'
<1>0. PICK n, cur : n = Len(handled) /\ cur = steps_executed
  OBVIOUS
<1> DEFINE h == handled'[n + 1]
<1>1. /\ n \in Nat /\ DOMAIN handled = 1..n /\ DOMAIN handled' = 1..(n + 1)
      /\ \A i \in 1..n : handled'[i] = handled[i]
      /\ n + 1 \in 1..(n + 1) /\ n + 1 \notin 1..n
      /\ \A i \in 1..(n + 1) : i \in 1..n \/ i = n + 1
  <2>1. n \in Nat /\ DOMAIN handled = 1..n
    BY <1>0, HandledTypes
  <2>2. DOMAIN handled' = 1..(n + 1) /\ \A i \in 1..n : handled'[i] = handled[i]
    BY <1>0, HandleMovesOne
  <2> QED  BY <2>1, <2>2
<1>2. h = [id |-> rx_buffer[1].id, msg |-> rx_buffer[1].msg, run |-> run,
           step |-> steps_executed, how |-> how, action |-> action]
  BY <1>0, HandleMovesOne
<1>3. Msg = rx_buffer[1].msg
  <2> DEFINE I == Incoming
  <2>1. rx_buffer \in Seq(I) /\ rx_buffer # <<>>
    BY HandleMovesOne DEF TypeOK
  <2> HIDE DEF I
  <2> QED  BY <2>1 DEF Msg
<1> HIDE DEF h
<1>4. /\ h.run = run /\ h.step = steps_executed /\ h.how = how /\ h.action = action
      /\ h.msg = Msg
  BY <1>2, <1>3
<1>5. /\ phase = "expect" /\ UNCHANGED <<scenario, steps_executed, run>>
      /\ outcome = "running" /\ steps_executed \in 1..Len(scenario)
      /\ Behind = steps_executed - 1 /\ run \in Nat /\ steps_executed \in Nat
  BY HandledTypes DEF HandleAs, InTime, ExpectationsSoFar, Behind
<1>6. \A k \in 1..n : OfThisRun(k)' <=> OfThisRun(k)
  BY <1>1, <1>5 DEF OfThisRun
<1>7. OfThisRun(n + 1)'
  BY <1>4, <1>5 DEF OfThisRun, h
<1>8. \A k \in DOMAIN handled' : handled'[k].run <= run'
  <2>1. \A k \in 1..n : handled[k].run <= run
    BY <1>1 DEF ExpectationsSoFar
  <2>2. h.run <= run
    BY <1>4, <1>5
  <2> QED  BY <1>1, <1>5, <2>1, <2>2 DEF h
<1>9. CASE phase' = "done" /\ outcome' # "success"
  BY <1>8, <1>9 DEF ExpectationsSoFar, Going
<1>10. ASSUME how # "refused", action # "Disconnect"
       PROVE  \A k \in DOMAIN handled' : OfThisRun(k)' =>
                /\ handled'[k].step <= steps_executed'
                /\ handled'[k].how # "refused" /\ handled'[k].action # "Disconnect"
  <2>1. ASSUME NEW k \in 1..n, OfThisRun(k)
        PROVE  /\ handled[k].step <= steps_executed
               /\ handled[k].how # "refused" /\ handled[k].action # "Disconnect"
    BY <1>1, <1>5, <2>1 DEF ExpectationsSoFar, Going
  <2>2. h.step <= steps_executed /\ h.how # "refused" /\ h.action # "Disconnect"
    BY <1>4, <1>5, <1>10
  <2> QED  BY <1>1, <1>5, <1>6, <2>1, <2>2 DEF h
<1>11. ASSUME NEW m \in 1..(steps_executed - 1), scenario[m].type = "Expect" PROVE Met(m)'
  <2>0. Met(m)
    BY <1>5, <1>11 DEF ExpectationsSoFar, Going
  <2>1. PICK i \in 1..n :
          /\ OfThisRun(i) /\ handled[i].step = m /\ handled[i].how = "matched"
          /\ Matches(handled[i].msg, scenario[m].fields)
          /\ \A k \in 1..n :
               OfThisRun(k) /\ handled[k].step = m /\ k # i =>
                 k < i /\ handled[k].how \in {"mocked", "ignored"}
    BY <1>1, <2>0 DEF Met
  <2>2. h.step # m
    BY <1>4, <1>5
  <2>3. \A k \in 1..(n + 1) :
          OfThisRun(k)' /\ handled'[k].step = m /\ k # i =>
            k < i /\ handled'[k].how \in {"mocked", "ignored"}
    BY <1>1, <1>6, <2>1, <2>2 DEF h
  <2>4. /\ i \in DOMAIN handled' /\ OfThisRun(i)' /\ handled'[i].step = m
        /\ handled'[i].how = "matched" /\ Matches(handled'[i].msg, scenario'[m].fields)
    BY <1>1, <1>5, <1>6, <2>1
  <2> QED  BY <1>1, <2>3, <2>4 DEF Met
<1>12. \A k \in 1..n : OfThisRun(k) /\ handled[k].step = steps_executed =>
         handled[k].how \in {"mocked", "ignored"}
  BY <1>1, <1>5 DEF ExpectationsSoFar
<1>13. CASE /\ UNCHANGED <<phase, outcome>>
            /\ how \in {"mocked", "ignored"} /\ action # "Disconnect"
  <2>1. Behind' = steps_executed - 1
    BY <1>5, <1>13 DEF Behind
  <2>2. \A k \in DOMAIN handled' : OfThisRun(k)' /\ handled'[k].step = steps_executed' =>
          handled'[k].how \in {"mocked", "ignored"}
    BY <1>1, <1>4, <1>5, <1>6, <1>12, <1>13 DEF h
  <2> QED  BY <1>5, <1>8, <1>10, <1>11, <1>13, <2>1, <2>2 DEF ExpectationsSoFar, Going
<1>14. CASE /\ Proceed /\ how = "matched" /\ action # "Disconnect"
            /\ Matches(Msg, CurrentStep.fields)
  <2>1. phase' = "step" /\ outcome' = "running" /\ Behind' = steps_executed
    BY <1>5, <1>14 DEF Proceed, Behind
  <2>2. Met(cur)'
    <3>1. \A k \in 1..(n + 1) :
            OfThisRun(k)' /\ handled'[k].step = cur /\ k # n + 1 =>
              k < n + 1 /\ handled'[k].how \in {"mocked", "ignored"}
      <4>1. \A k \in 1..n : k < n + 1
        BY <1>1
      <4> QED  BY <1>0, <1>1, <1>6, <1>12, <4>1
    <3>2. h.step = cur /\ h.how = "matched" /\ Matches(h.msg, scenario[cur].fields)
      BY <1>0, <1>4, <1>14 DEF CurrentStep
    <3>3. /\ n + 1 \in DOMAIN handled' /\ handled'[n + 1].step = cur
          /\ handled'[n + 1].how = "matched"
          /\ Matches(handled'[n + 1].msg, scenario'[cur].fields)
      BY <1>1, <1>5, <3>2 DEF h
    <3> QED  BY <1>1, <1>5, <1>7, <3>1, <3>3 DEF Met
  <2>3. \A m \in 1..steps_executed : m \in 1..(steps_executed - 1) \/ m = cur
    BY <1>0, <1>5
  <2>4. \A m \in 1..Behind' : scenario'[m].type = "Expect" => Met(m)'
    BY <1>5, <1>11, <2>1, <2>2, <2>3
  <2> QED  BY <1>5, <1>8, <1>10, <1>14, <2>1, <2>4 DEF ExpectationsSoFar, Going
<1> QED  BY <1>9, <1>13, <1>14

LEMMA NextKeepsExpectations == TypeOK /\ ExpectationsSoFar /\ [Next]_vars => ExpectationsSoFar'
<1> SUFFICES ASSUME TypeOK, ExpectationsSoFar, [Next]_vars PROVE ExpectationsSoFar'
  OBVIOUS
<1>1. ASSUME NEW s \in Scenarios, StartRun(s) PROVE ExpectationsSoFar'
  <2>1. /\ run' = run + 1 /\ handled' = handled /\ phase' = "step" /\ outcome' = "running"
        /\ steps_executed' = 0
    BY <1>1 DEF StartRun
  <2>2. \A k \in DOMAIN handled : handled[k].run <= run' /\ handled[k].run # run'
    BY <2>1, HandledTypes DEF ExpectationsSoFar
  <2>3. Behind' = 0
    BY <2>1 DEF Behind
  <2> QED  BY <2>1, <2>2, <2>3 DEF ExpectationsSoFar, Going, OfThisRun
<1>2. CASE RunConnect
  BY <1>2, OtherStep DEF RunConnect, Fail
<1>3. CASE RunDisconnect
  BY <1>3, OtherStep DEF RunDisconnect
<1>4. CASE RunSend
  <2>1. \/ Proceed
        \/ phase' = "done" /\ outcome' # "success"
    BY <1>4 DEF RunSend, KilledBySend, Fail
  <2>2. Begin("Send") /\ UNCHANGED <<handled, run, scenario>>
    BY <1>4 DEF RunSend
  <2> QED  BY <2>1, <2>2, OtherStep
<1>5. CASE RunEmptySend \/ RunMock
  BY <1>5, OtherStep DEF RunEmptySend, RunMock, Fail, history
<1>6. CASE RunExpect
  BY <1>6, ExpectBegins
<1>7. CASE Finish
  <2>1. /\ phase = "step" /\ steps_executed = Len(scenario) /\ phase' = "done"
        /\ UNCHANGED <<handled, run, scenario, steps_executed>>
    BY <1>7 DEF Finish, history
  <2>2. \A n : Met(n)' <=> Met(n)
    BY <2>1 DEF Met, OfThisRun
  <2>3. Behind = steps_executed /\ Behind' = steps_executed
    BY <2>1 DEF Behind
  <2> QED  BY <2>1, <2>2, <2>3 DEF ExpectationsSoFar, Going, OfThisRun
<1>8. CASE ExpectTimesOut
  BY <1>8, EndedOtherwise DEF ExpectTimesOut, Fail
<1>9. CASE ExpectReads \/ ExpectReadsNothing
  BY <1>9, NothingMoves DEF ExpectReads, ExpectReadsNothing, history
<1>10. CASE ExpectFailsToParse
  BY <1>10, ExpectTakes DEF ExpectFailsToParse, Fail
<1>11. CASE ExpectRefused \/ ExpectMismatched
  <2>1. \E how, action : HandleAs(how, action)
    BY <1>11 DEF ExpectRefused, ExpectMismatched
  <2>2. phase' = "done" /\ outcome' # "success"
    BY <1>11 DEF ExpectRefused, ExpectMismatched, Fail
  <2> QED  BY <2>1, <2>2, ExpectTakes
<1>12. CASE ExpectMatched
  BY <1>12, ExpectTakes DEF ExpectMatched
<1>13. CASE ExpectMocked
  <2>1. HandleAs("mocked", result'.action) /\ result'.action # "Disconnect"
    BY <1>13 DEF ExpectMocked
  <2>2. UNCHANGED <<phase, outcome>> \/ (phase' = "done" /\ outcome' # "success")
    BY <1>13 DEF ExpectMocked, KilledBySend, Fail
  <2> QED  BY <2>1, <2>2, ExpectTakes
<1>14. CASE ExpectIgnored
  BY <1>14, ExpectTakes DEF ExpectIgnored
<1>15. CASE SutCloses \/ \E m \in SutMessages : SutSends(m)
  BY <1>15, NothingMoves DEF SutCloses, SutSends, progress, history
<1>16. CASE UNCHANGED vars
  BY <1>16, NothingMoves DEF vars, progress, history
<1> QED
  BY <1>1, <1>2, <1>3, <1>4, <1>5, <1>6, <1>7, <1>8, <1>9, <1>10, <1>11, <1>12, <1>13, <1>14,
     <1>15, <1>16
     DEF Next, Runner

(* Success means that every EXPECT of the scenario was met by a message of *)
(* this run, and that nothing was let through but triggers and heartbeats, *)
(* for all scenarios.  (runner.cpp:307-331, 343)                           *)
THEOREM SuccessMeansExpectationsMetHolds == Spec => []SuccessMeansExpectationsMet
<1>1. Init => ExpectationsSoFar
  BY DEF Init, ExpectationsSoFar, Going
<1>2. TypeOK /\ ExpectationsSoFar => SuccessMeansExpectationsMet
  <2> SUFFICES ASSUME TypeOK, ExpectationsSoFar, outcome = "success"
               PROVE  SuccessMeansExpectationsMet
    BY DEF SuccessMeansExpectationsMet
  <2>1. steps_executed = Len(scenario) /\ Behind = steps_executed
    BY DEF ExpectationsSoFar, Behind
  <2>2. DOMAIN scenario = 1..Len(scenario)
    <3> DEFINE S == ScenarioStep
    <3>1. scenario \in Seq(S)
      BY DEF TypeOK
    <3> HIDE DEF S
    <3> QED  BY <3>1
  <2>3. \A n \in DOMAIN scenario : scenario[n].type = "Expect" => Met(n)
    BY <2>1, <2>2 DEF ExpectationsSoFar, Going
  <2>4. \A i \in DOMAIN handled : OfThisRun(i) =>
          handled[i].how # "refused" /\ handled[i].action # "Disconnect"
    BY DEF ExpectationsSoFar, Going
  <2> QED  BY <2>1, <2>3, <2>4 DEF SuccessMeansExpectationsMet, Met
<1> QED  BY <1>1, <1>2, NextKeepsExpectations, TypeCorrect, PTL DEF Spec
=============================================================================
