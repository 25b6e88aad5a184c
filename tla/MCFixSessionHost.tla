-------------------------- MODULE MCFixSessionHost --------------------------
(* A small instance of FixSessionHost.                                     *)
EXTENDS FixSessionHost

(* Complete messages of every type the code distinguishes, with and        *)
(* without PossDupFlag; Sequence Resets to every number and to none; a     *)
(* message without MsgType and one without MsgSeqNum.                      *)
MCMessages ==
  [MsgType : {"A", "0", "1", "2", "5", "8"}, MsgSeqNum : CInt]
  \cup [MsgType : {"8"}, MsgSeqNum : CInt, PossDupFlag : {"Y", "N"}]
  \cup [MsgType : {"4"}, MsgSeqNum : CInt, NewSeqNo : CInt]
  \cup [MsgType : {"4"}, MsgSeqNum : CInt]
  \cup [MsgType : {"8"}]
  \cup [MsgSeqNum : {1}]

MCHostNumbers == {-MaxInt - 1, 1, 3}
=============================================================================
