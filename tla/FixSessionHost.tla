--------------------------- MODULE FixSessionHost ---------------------------
(***************************************************************************)
(* FixSession under any host and any counterparty: messages in any order,  *)
(* with any numbers, sends and counter overwrites between them.            *)
(*                                                                         *)
(* taken is a history variable: the numbers of the messages the session    *)
(* counted or told its host to process, since the numbering was last       *)
(* restarted (by a Logon, a Sequence Reset or set_next_in_seq_num).        *)
(* overflowed records that m_next_in_seq passed MaxInt; nothing is         *)
(* claimed, and taken is kept empty, from then on.                         *)
(***************************************************************************)
EXTENDS FixSession, Sequences

CONSTANT MaxOut   \* bound: the host stops sending when the out counter is here

ASSUME MaxOutAssumption == MaxOut \in Int

VARIABLES taken, overflowed

hostVars == <<session, taken, overflowed>>

HostTypeOK ==
  /\ SessionTypeOK
  /\ taken \in Seq(CInt)
  /\ overflowed \in BOOLEAN

HostInit ==
  /\ SessionInit
  /\ taken = <<>>
  /\ overflowed = FALSE

(* The session treated the message as the next one of the stream: it moved *)
(* the counter, or told the host to act on the message.                    *)
Taken ==
  \/ next_in_seq' # next_in_seq
  \/ result'.action \in
       {"ProcessApplicationMessage", "SendHeartbeat", "ResetSequence"}

RestartsNumbering(m) ==
  InSequence(m) /\ m["MsgType"] = "4" /\ Has(m, "NewSeqNo")

(* m was taken with the largest number there is, so m_next_in_seq wrapped.  *)
Wraps(m) ==
  /\ Has(m, "MsgSeqNum") /\ m["MsgSeqNum"] = MaxInt
  /\ next_in_seq' = -MaxInt - 1
  /\ Taken \/ result'.action = "SendLogon"

Receive(m) ==
  /\ ReceiveMessage(m)
  /\ overflowed' = (overflowed \/ (Wraps(m) /\ ~RestartsNumbering(m)))
  /\ taken' = IF overflowed' \/ RestartsNumbering(m) THEN <<>>
              ELSE IF result'.action = "SendLogon" THEN <<m["MsgSeqNum"]>>
              ELSE IF Taken THEN Append(taken, m["MsgSeqNum"])
              ELSE taken

Send ==
  /\ next_out_seq < MaxOut
  /\ OnMessageSent
  /\ UNCHANGED <<taken, overflowed>>

SetOut(n) ==
  /\ SetNextOutSeqNum(n)
  /\ UNCHANGED <<taken, overflowed>>

SetIn(n) ==
  /\ SetNextInSeqNum(n)
  /\ taken' = <<>>
  /\ UNCHANGED overflowed

HostNext ==
  \/ \E m \in Messages : Receive(m)
  \/ Send
  \/ \E n \in HostNumbers : SetOut(n) \/ SetIn(n)

HostSpec == HostInit /\ [][HostNext]_hostVars

-----------------------------------------------------------------------------
(* Exactly once, in order, without holes: within one numbering the         *)
(* messages receive_message takes carry consecutive numbers that end just  *)
(* below m_next_in_seq, whatever gaps, duplicates, rejects and logouts     *)
(* came between them.  (session.cpp:96-136)                                *)
TakenOnceInOrder ==
  ~overflowed =>
    \A i \in 1..Len(taken) : taken[i] = next_in_seq - 1 - (Len(taken) - i)
=============================================================================
