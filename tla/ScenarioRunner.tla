--------------------------- MODULE ScenarioRunner ---------------------------
(***************************************************************************)
(* class ScenarioRunner (include/fixure/runner.hpp:63-82,                  *)
(* src/runner.cpp:181-434): plays scenarios, one after the other, against  *)
(* a system under test (SUT) over a Connection, with a FixSession counting *)
(* messages and judging what comes in.                                     *)
(*                                                                         *)
(* The runner is one thread; the SUT is the environment: it may send any   *)
(* message of SutMessages at any time and, over TCP, close the connection. *)
(* Messages travel and are framed whole.  Time passes in ticks of 500 ms,  *)
(* the timeout of one receive.                                             *)
(*                                                                         *)
(* sent, skipped, handled, dropped and timed_out are history variables.    *)
(***************************************************************************)
EXTENDS FixSession, Sequences

CONSTANTS
  Values,         \* values of fields in scenarios
  Scenarios,      \* the scenarios a program may run, sequences of steps
  Unparsable,     \* a framed message FixMessage::parse rejects
  Transports,     \* the kinds of connection a runner may be given
  ExpectTimeout,  \* ticks an EXPECT waits: 10 in the code
  MaxRuns,        \* bound: run() is called this often
  MaxSutSends     \* bound: messages the SUT sends

ActionType == {"Connect", "Send", "Expect", "Mock", "Disconnect"}

(* fits: serialize_message can put the message into its 4096 bytes.        *)
ScenarioStep ==
  [type : ActionType, fields : Seq([tag : STRING, value : Values]),
   fits : BOOLEAN]

ASSUME RunnerAssumption ==
  /\ {"0", "8"} \subseteq Values
  /\ Scenarios \subseteq Seq(ScenarioStep)
  /\ Transports \subseteq {"memory", "tcp"}
  /\ ExpectTimeout \in Nat /\ MaxRuns \in Nat /\ MaxSutSends \in Nat

SutMessages == Messages \cup {Unparsable}

VARIABLES
  transport,       \* what m_conn is: "memory" (InMemoryConnection) or "tcp"
  conn,            \* "closed", "open", or "broken": open here, closed by the SUT
  to_client,       \* sent by the SUT, not yet received: <<[id, msg], ...>>
  rx_buffer,       \* received by this run, not yet handled
  active_mocks,    \* m_active_mocks
  scenario,        \* the scenario of the current or last run
  steps_executed,  \* result.steps_executed
  phase,           \* "step": between steps; "expect": in an EXPECT; "done"
  elapsed,         \* ticks since the current EXPECT started
  outcome,         \* how the run stands or ended
  run,             \* how many runs were started
  sut_sent,        \* how many messages the SUT sent; they are numbered 1, 2, ...
  sent,            \* messages the connection accepted from the runner
  skipped,         \* outgoing numbers used up by mock replies that were not sent
  handled,         \* incoming messages taken from rx_buffer, and what became of each
  dropped,         \* incoming messages that were lost
  timed_out        \* some EXPECT timed out

link == <<conn, to_client, sut_sent>>
progress == <<scenario, steps_executed, phase, elapsed, outcome, run>>
history == <<sent, skipped, handled, dropped, timed_out>>
vars == <<session, transport, link, rx_buffer, active_mocks, progress, history>>

Ids(s) == {s[i].id : i \in DOMAIN s}

Outcome ==
  {"none", "running", "success", "connection failed", "serialization failed",
   "send failed", "timeout", "parse error", "session disconnect",
   "fields mismatch", "killed"}

Fate == {"matched", "mocked", "ignored", "mismatch", "refused", "garbled"}

Incoming == [id : Nat, msg : SutMessages]
OutMessage == [MsgSeqNum : Int, MsgType : Values]
Handling ==
  [id : Nat, msg : SutMessages, run : Nat, step : Nat, how : Fate,
   action : SessionAction]

TypeOK ==
  /\ SessionTypeOK
  /\ transport \in Transports
  /\ conn \in {"closed", "open", "broken"}
  /\ conn = "broken" => transport = "tcp"
  /\ to_client \in Seq(Incoming)
  /\ rx_buffer \in Seq(Incoming)
  /\ active_mocks \in Seq(ScenarioStep)
  /\ scenario \in Seq(ScenarioStep)
  /\ steps_executed \in 0..Len(scenario)
  /\ phase \in {"step", "expect", "done"}
  /\ elapsed \in Nat
  /\ outcome \in Outcome
  /\ run \in 0..MaxRuns
  /\ sut_sent \in 0..MaxSutSends
  /\ sent \in Seq(OutMessage)
  /\ skipped \in Nat
  /\ handled \in Seq(Handling)
  /\ dropped \subseteq Nat
  /\ timed_out \in BOOLEAN

Init ==
  /\ SessionInit
  /\ transport \in Transports
  /\ conn = "closed"
  /\ to_client = <<>> /\ rx_buffer = <<>> /\ active_mocks = <<>>
  /\ scenario = <<>> /\ steps_executed = 0 /\ phase = "done" /\ elapsed = 0
  /\ outcome = "none" /\ run = 0
  /\ sut_sent = 0 /\ sent = <<>> /\ skipped = 0 /\ handled = <<>>
  /\ dropped = {} /\ timed_out = FALSE

-----------------------------------------------------------------------------
(* The run and its steps                                                   *)

(* Mutant: the step counter is not reset.                                  *)
StartRunAtOldStep(s) ==
  /\ phase = "done" /\ outcome # "killed"
  /\ run < MaxRuns
  /\ run' = run + 1
  /\ scenario' = s
  /\ phase' = "step" /\ outcome' = "running"
  /\ rx_buffer' = <<>>
  /\ dropped' = dropped \cup Ids(rx_buffer)
  /\ UNCHANGED <<session, link, active_mocks, steps_executed, elapsed, sent,
                 skipped, handled, timed_out>>

(* run() starts with an empty rx_buffer of its own; the session, the mocks *)
(* and the connection are those the last run left behind.                  *)
StartRun(s) ==
  /\ phase = "done" /\ outcome # "killed"
  /\ run < MaxRuns
  /\ run' = run + 1
  /\ scenario' = s /\ steps_executed' = 0
  /\ phase' = "step" /\ outcome' = "running"
  /\ rx_buffer' = <<>>
  /\ dropped' = dropped \cup Ids(rx_buffer)
  /\ UNCHANGED <<session, link, active_mocks, elapsed, sent, skipped, handled,
                 timed_out>>

Begin(type) ==
  /\ phase = "step"
  /\ steps_executed < Len(scenario)
  /\ scenario[steps_executed + 1].type = type
  /\ steps_executed' = steps_executed + 1

Fail(why) == phase' = "done" /\ outcome' = why

Proceed == phase' = "step" /\ UNCHANGED outcome

CurrentStep == scenario[steps_executed]

(* Mutant: every connection forgets its queues.                            *)
AlwaysDropUnread ==
  to_client' = <<>> /\ dropped' = dropped \cup Ids(to_client)

(* The socket is closed with whatever was not read from it; an in-memory   *)
(* connection keeps its queues.                                            *)
DropUnread ==
  IF transport = "tcp"
  THEN to_client' = <<>> /\ dropped' = dropped \cup Ids(to_client)
  ELSE UNCHANGED <<to_client, dropped>>

(* CONNECT: over TCP a new connection or none.                             *)
RunConnect ==
  /\ Begin("Connect")
  /\ DropUnread
  /\ \/ conn' = "open" /\ Proceed
     \/ transport = "tcp" /\ conn' = "closed" /\ Fail("connection failed")
  /\ UNCHANGED <<session, sut_sent, rx_buffer, active_mocks, scenario, elapsed,
                 run, sent, skipped, handled, timed_out>>

RunDisconnect ==
  /\ Begin("Disconnect")
  /\ DropUnread
  /\ conn' = "closed"
  /\ Proceed
  /\ UNCHANGED <<session, sut_sent, rx_buffer, active_mocks, scenario, elapsed,
                 run, sent, skipped, handled, timed_out>>

(* Connection::send.  A broken TCP link may still take the bytes, or       *)
(* refuse them.                                                            *)
ConnSend(m, ok) ==
  /\ ok => conn \in {"open", "broken"}
  /\ ~ok => conn \in {"closed", "broken"}
  /\ sent' = IF ok THEN Append(sent, m) ELSE sent

(* TcpConnection writes without MSG_NOSIGNAL: a write to a link the peer   *)
(* has reset raises SIGPIPE, which ends the program.                       *)
KilledBySend == conn = "broken" /\ Fail("killed") /\ UNCHANGED sent

Outgoing(type) == [MsgSeqNum |-> next_out_seq, MsgType |-> type]

(* The message type is taken from the first field only.                    *)
SendType(fields) == IF fields[1].tag = "MsgType" THEN fields[1].value ELSE "0"

(* SEND with a field: serialize, send, count.                              *)
RunSend ==
  /\ Begin("Send")
  /\ LET step == scenario[steps_executed + 1] IN
     /\ step.fields # <<>>
     /\ \/ ~step.fits /\ Fail("serialization failed") /\ UNCHANGED <<session, sent>>
        \/ /\ step.fits
           /\ ConnSend(Outgoing(SendType(step.fields)), TRUE)
           /\ OnMessageSent
           /\ Proceed
        \/ /\ step.fits
           /\ ConnSend(Outgoing(SendType(step.fields)), FALSE)
           /\ Fail("send failed")
           /\ UNCHANGED session
        \/ step.fits /\ KilledBySend /\ UNCHANGED session
  /\ UNCHANGED <<link, rx_buffer, active_mocks, scenario, elapsed, run, skipped,
                 handled, dropped, timed_out>>

(* SEND without a field reads fields[0] of an empty vector: a null read.   *)
RunEmptySend ==
  /\ Begin("Send")
  /\ scenario[steps_executed + 1].fields = <<>>
  /\ Fail("killed")
  /\ UNCHANGED <<session, link, rx_buffer, active_mocks, scenario, elapsed, run,
                 history>>

RunMock ==
  /\ Begin("Mock")
  /\ active_mocks' = Append(active_mocks, scenario[steps_executed + 1])
  /\ Proceed
  /\ UNCHANGED <<session, link, rx_buffer, scenario, elapsed, run, history>>

RunExpect ==
  /\ Begin("Expect")
  /\ phase' = "expect"
  /\ elapsed' = 0
  /\ UNCHANGED <<session, link, rx_buffer, active_mocks, scenario, outcome, run,
                 history>>

Finish ==
  /\ phase = "step"
  /\ steps_executed = Len(scenario)
  /\ phase' = "done" /\ outcome' = "success"
  /\ UNCHANGED <<session, link, rx_buffer, active_mocks, scenario,
                 steps_executed, elapsed, run, history>>

-----------------------------------------------------------------------------
(* The loop of EXPECT: look at the clock, then handle a message if one is  *)
(* in the buffer, else receive.                                            *)

(* Mutant: the clock is not looked at.                                     *)
AnyTime == phase = "expect"

InTime == phase = "expect" /\ elapsed <= ExpectTimeout

ExpectTimesOut ==
  /\ phase = "expect"
  /\ elapsed > ExpectTimeout
  /\ Fail("timeout")
  /\ timed_out' = TRUE
  /\ UNCHANGED <<session, link, rx_buffer, active_mocks, scenario,
                 steps_executed, elapsed, run, sent, skipped, handled, dropped>>

(* One receive: an in-memory connection yields one message, a socket as    *)
(* many as have arrived.  It takes up to one tick.                         *)
ExpectReads ==
  /\ InTime
  /\ rx_buffer = <<>>
  /\ conn # "closed"
  /\ \E k \in 1..Len(to_client) :
       /\ transport = "memory" => k = 1
       /\ rx_buffer' = SubSeq(to_client, 1, k)
       /\ to_client' = SubSeq(to_client, k + 1, Len(to_client))
  /\ elapsed' \in {elapsed, elapsed + 1}
  /\ UNCHANGED <<session, conn, sut_sent, active_mocks, scenario,
                 steps_executed, phase, outcome, run, history>>

(* Mutant: the wait starts again with every receive.                       *)
ExpectRestartsWait ==
  /\ InTime
  /\ rx_buffer = <<>>
  /\ conn = "closed" \/ to_client = <<>>
  /\ elapsed' = 0
  /\ UNCHANGED <<session, link, rx_buffer, active_mocks, scenario,
                 steps_executed, phase, outcome, run, history>>

(* Nothing came, or the link is down and receive returns at once: the loop *)
(* goes round until the clock has moved on.                                *)
ExpectReadsNothing ==
  /\ InTime
  /\ rx_buffer = <<>>
  /\ conn = "closed" \/ to_client = <<>>
  /\ elapsed' = elapsed + 1
  /\ UNCHANGED <<session, link, rx_buffer, active_mocks, scenario,
                 steps_executed, phase, outcome, run, history>>

(* match_fields.                                                           *)
Matches(m, fields) ==
  \A i \in DOMAIN fields :
     Has(m, fields[i].tag) /\ m[fields[i].tag] = fields[i].value

(* The mock's first field is its trigger, the others its reply.            *)
Triggers(m, mock) ==
  /\ mock.fields # <<>>
  /\ Has(m, mock.fields[1].tag)
  /\ m[mock.fields[1].tag] = mock.fields[1].value

ReplyType(mock) ==
  IF Len(mock.fields) > 1 /\ mock.fields[2].tag = "MsgType"
  THEN mock.fields[2].value
  ELSE "8"

(* process_mocks answers with the first triggered rule whose reply can be  *)
(* serialized.                                                             *)
Answers(j, m) ==
  LET Able(i) == Triggers(m, active_mocks[i]) /\ active_mocks[i].fits
  IN j \in DOMAIN active_mocks /\ Able(j) /\ \A i \in 1..(j - 1) : ~Able(i)

Mocked(m) == \E j \in DOMAIN active_mocks : Answers(j, m)

(* Mutant: handling one message clears the whole buffer.                   *)
HandleAndClear(how, action) ==
  /\ InTime
  /\ rx_buffer # <<>>
  /\ rx_buffer' = <<>>
  /\ handled' = Append(handled,
       [id |-> Head(rx_buffer).id, msg |-> Head(rx_buffer).msg, run |-> run,
        step |-> steps_executed, how |-> how, action |-> action])
  /\ UNCHANGED <<link, active_mocks, scenario, steps_executed, elapsed, run,
                 dropped, timed_out>>

(* Take the next message off the buffer and record what became of it.      *)
HandleAs(how, action) ==
  /\ InTime
  /\ rx_buffer # <<>>
  /\ rx_buffer' = Tail(rx_buffer)
  /\ handled' = Append(handled,
       [id |-> Head(rx_buffer).id, msg |-> Head(rx_buffer).msg, run |-> run,
        step |-> steps_executed, how |-> how, action |-> action])
  /\ UNCHANGED <<link, active_mocks, scenario, steps_executed, elapsed, run,
                 dropped, timed_out>>

Msg == Head(rx_buffer).msg

Arrived == rx_buffer # <<>> /\ Msg # Unparsable

ExpectFailsToParse ==
  /\ rx_buffer # <<>> /\ Msg = Unparsable
  /\ HandleAs("garbled", "None")
  /\ Fail("parse error")
  /\ UNCHANGED <<session, sent, skipped>>

(* Of the session's answers only Disconnect has a consequence.             *)
ExpectRefused ==
  /\ Arrived
  /\ ReceiveMessage(Msg)
  /\ result'.action = "Disconnect"
  /\ HandleAs("refused", result'.action)
  /\ Fail("session disconnect")
  /\ UNCHANGED <<sent, skipped>>

ExpectMatched ==
  /\ Arrived
  /\ ReceiveMessage(Msg)
  /\ result'.action # "Disconnect"
  /\ Matches(Msg, CurrentStep.fields)
  /\ HandleAs("matched", result'.action)
  /\ Proceed
  /\ UNCHANGED <<sent, skipped>>

(* A reply is counted as sent whatever the connection answered.            *)
ExpectMocked ==
  /\ Arrived
  /\ Classify(Msg)
  /\ result'.action # "Disconnect"
  /\ ~Matches(Msg, CurrentStep.fields)
  /\ HandleAs("mocked", result'.action)
  /\ \E j \in DOMAIN active_mocks :
       /\ Answers(j, Msg)
       /\ \/ \E ok \in BOOLEAN :
               /\ ConnSend(Outgoing(ReplyType(active_mocks[j])), ok)
               /\ CountSent
               /\ skipped' = IF ok THEN skipped ELSE skipped + 1
               /\ UNCHANGED <<phase, outcome>>
          \/ KilledBySend /\ UNCHANGED <<next_out_seq, skipped>>

(* Mutant: a heartbeat completes the EXPECT.                               *)
ExpectSatisfiedByHeartbeat ==
  /\ Arrived
  /\ ReceiveMessage(Msg)
  /\ result'.action # "Disconnect"
  /\ ~Matches(Msg, CurrentStep.fields) /\ ~Mocked(Msg)
  /\ Has(Msg, "MsgType") /\ Msg["MsgType"] \in {"0", "1"}
  /\ HandleAs("ignored", result'.action)
  /\ Proceed
  /\ UNCHANGED <<sent, skipped>>

ExpectIgnored ==
  /\ Arrived
  /\ ReceiveMessage(Msg)
  /\ result'.action # "Disconnect"
  /\ ~Matches(Msg, CurrentStep.fields) /\ ~Mocked(Msg)
  /\ Has(Msg, "MsgType") /\ Msg["MsgType"] \in {"0", "1"}
  /\ HandleAs("ignored", result'.action)
  /\ UNCHANGED <<phase, outcome, sent, skipped>>

ExpectMismatched ==
  /\ Arrived
  /\ ReceiveMessage(Msg)
  /\ result'.action # "Disconnect"
  /\ ~Matches(Msg, CurrentStep.fields) /\ ~Mocked(Msg)
  /\ ~(Has(Msg, "MsgType") /\ Msg["MsgType"] \in {"0", "1"})
  /\ HandleAs("mismatch", result'.action)
  /\ Fail("fields mismatch")
  /\ UNCHANGED <<sent, skipped>>

-----------------------------------------------------------------------------
(* The SUT                                                                 *)

SutSends(m) ==
  /\ conn = "open"
  /\ sut_sent < MaxSutSends
  /\ sut_sent' = sut_sent + 1
  /\ to_client' = Append(to_client, [id |-> sut_sent + 1, msg |-> m])
  /\ UNCHANGED <<session, conn, rx_buffer, active_mocks, progress, history>>

(* The SUT closes its end: what it sent may still be read, or is discarded *)
(* by a reset.                                                             *)
SutCloses ==
  /\ transport = "tcp"
  /\ conn = "open"
  /\ conn' = "broken"
  /\ \/ UNCHANGED <<to_client, dropped>>
     \/ DropUnread
  /\ UNCHANGED <<session, sut_sent, rx_buffer, active_mocks, progress, sent,
                 skipped, handled, timed_out>>

Runner ==
  \/ RunConnect \/ RunDisconnect \/ RunSend \/ RunEmptySend \/ RunMock
  \/ RunExpect \/ Finish
  \/ ExpectTimesOut \/ ExpectReads \/ ExpectReadsNothing
  \/ ExpectFailsToParse \/ ExpectRefused \/ ExpectMatched \/ ExpectMocked
  \/ ExpectIgnored \/ ExpectMismatched

Next ==
  /\ \/ \E s \in Scenarios : StartRun(s)
     \/ Runner
     \/ \E m \in SutMessages : SutSends(m)
     \/ SutCloses
  /\ UNCHANGED transport

(* The thread in run() is scheduled, and no call it makes blocks for more  *)
(* than a tick.                                                            *)
Spec == Init /\ [][Next]_vars /\ WF_vars(Runner /\ UNCHANGED transport)

-----------------------------------------------------------------------------
(* Outgoing numbers: no two messages the connection accepted carry the     *)
(* same number, they leave in the order of their numbers across errors,    *)
(* reconnects and runs, and the only holes are mock replies that were      *)
(* counted and not sent.  (runner.cpp:266-271, 424-427, session.cpp:62)    *)
OutgoingNumbered ==
  /\ next_out_seq = 1 + Len(sent) + skipped
  /\ \A i \in DOMAIN sent :
        /\ sent[i].MsgSeqNum < next_out_seq
        /\ skipped = 0 => sent[i].MsgSeqNum = i
        /\ \A j \in 1..(i - 1) : sent[j].MsgSeqNum < sent[i].MsgSeqNum

(* Incoming messages are handled at most once, in the order the SUT sent   *)
(* them, and each is handled, waiting, or lost with a run or a connection. *)
(* (runner.cpp:216, 286-294, 57-58)                                        *)
IncomingInOrder ==
  LET pending == rx_buffer \o to_client
      stream == [i \in 1..(Len(handled) + Len(pending)) |->
                   IF i <= Len(handled) THEN handled[i].id
                   ELSE pending[i - Len(handled)].id]
  IN /\ \A i \in DOMAIN stream : \A j \in 1..(i - 1) : stream[j] < stream[i]
     /\ \A id \in 1..sut_sent :
          id \in dropped <=> \A i \in DOMAIN stream : stream[i] # id

(* Over an in-memory connection a message is lost only when it is received *)
(* in the very receive during which an EXPECT's time runs out: the next    *)
(* run starts with an empty buffer.  Disconnecting, reconnecting, errors   *)
(* and new runs lose nothing.  (runner.cpp:216, 280-293)                   *)
LostOnlyToTimeout == transport = "memory" /\ ~timed_out => dropped = {}

OfThisRun(i) == handled[i].run = run

(* A run that reports success executed every step, met each EXPECT with    *)
(* exactly one message that has the expected fields, and took every other  *)
(* message for a mock's trigger or a heartbeat; nothing the session        *)
(* refused was let through.  (runner.cpp:307-331, 343)                     *)
SuccessMeansExpectationsMet ==
  outcome = "success" =>
    /\ steps_executed = Len(scenario)
    /\ \A n \in DOMAIN scenario : scenario[n].type = "Expect" =>
         \E i \in DOMAIN handled :
           /\ OfThisRun(i) /\ handled[i].step = n /\ handled[i].how = "matched"
           /\ Matches(handled[i].msg, scenario[n].fields)
           /\ \A k \in DOMAIN handled :
                OfThisRun(k) /\ handled[k].step = n /\ k # i =>
                  k < i /\ handled[k].how \in {"mocked", "ignored"}
    /\ \A i \in DOMAIN handled : OfThisRun(i) =>
         handled[i].how # "refused" /\ handled[i].action # "Disconnect"

(* No EXPECT outlasts its five seconds by more than one receive, whatever  *)
(* mocked or ignored traffic it handles meanwhile, and none gives up       *)
(* early.  (runner.cpp:276-283)                                            *)
ExpectKeepsDeadline ==
  /\ phase = "expect" => elapsed <= ExpectTimeout + 1
  /\ outcome = "timeout" => elapsed > ExpectTimeout

(* Every run comes to an end.  (runner.cpp:279-283)                        *)
RunEnds == phase # "done" ~> phase = "done"

-----------------------------------------------------------------------------
(* What comments and docs say of the runner                                *)

(* "Duplicate message ignored": a duplicate does not satisfy an EXPECT.    *)
(* (session.cpp:133)                                                       *)
DuplicateIgnored ==
  \A i \in DOMAIN handled :
    handled[i].how = "matched" /\ handled[i].action = "None" =>
      ~PossDup(handled[i].msg)
=============================================================================
