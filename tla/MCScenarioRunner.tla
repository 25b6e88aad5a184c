-------------------------- MODULE MCScenarioRunner --------------------------
(* Small instances of ScenarioRunner: scenarios and SUT messages.          *)
EXTENDS ScenarioRunner

MT(v) == [tag |-> "MsgType", value |-> v]
Step_(t, fs) == [type |-> t, fields |-> fs, fits |-> TRUE]
Connect == Step_("Connect", <<>>)
Disconnect == Step_("Disconnect", <<>>)
Send(v) == Step_("Send", <<MT(v)>>)
Expect(v) == Step_("Expect", <<MT(v)>>)
(* Reply to v with r, or with the default type when r is empty.            *)
Mock(v, r) == Step_("Mock", <<MT(v)>> \o r)

(* Logon, then an order whose report is expected while orders of the SUT   *)
(* are mocked; a run that only listens; an EXPECT of anything; sends that  *)
(* cannot be serialized.                                                   *)
Trade ==
  <<Connect, Send("A"), Expect("A"), Mock("D", <<MT("8")>>), Send("D"),
    Expect("8"), Disconnect>>
Listen == <<Expect("8"), Step_("Expect", <<>>)>>
Oversized == <<Connect, [Send("D") EXCEPT !.fits = FALSE]>>
Empty == <<Connect, Step_("Send", <<>>)>>
Untyped ==
  <<Connect, Mock("A", <<>>), Step_("Mock", <<>>),
    [Mock("D", <<MT("8")>>) EXCEPT !.fits = FALSE], Mock("D", <<>>),
    Step_("Send", <<[tag |-> "Text", value |-> "x"]>>), Expect("8")>>
(* What is left in the buffer is handled after the reconnect.              *)
Reconnect ==
  <<Connect, Mock("D", <<MT("8")>>), Expect("A"), Disconnect, Connect, Expect("8")>>

MCScenarios == {Trade, Reconnect, Listen, Oversized, Empty, Untyped}

(* Scenarios of the kind README.md shows, for a single question.           *)
OnlyTrade == {Trade}

(* The report is in sequence after a message with number 2 and follows a   *)
(* gap otherwise.                                                          *)
MCMessages ==
  {[MsgType |-> "A", MsgSeqNum |-> 1],
   [MsgType |-> "8", MsgSeqNum |-> 3],
   [MsgType |-> "8", MsgSeqNum |-> 1, PossDupFlag |-> "Y"],
   [MsgType |-> "D", MsgSeqNum |-> 2],
   [MsgType |-> "1", MsgSeqNum |-> 2]}
MCHostNumbers == {1}
MCValues == {"0", "8", "A", "D", "x"}
=============================================================================
