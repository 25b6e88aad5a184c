----------------------------- MODULE FixSession -----------------------------
(***************************************************************************)
(* The FIX session layer: class FixSession (include/fixure/session.hpp,    *)
(* src/session.cpp).                                                       *)
(*                                                                         *)
(* A session is three values: the number of the next outgoing message, the *)
(* number the next incoming message should have, and whether a Logon was   *)
(* accepted.  receive_message classifies one parsed message and tells the  *)
(* host what to do about it (a ProcessResult); on_message_sent counts an   *)
(* outgoing message; two setters let the host overwrite the counters.  The *)
(* session sends nothing itself.                                           *)
(*                                                                         *)
(* A parsed message is a record whose fields are the FIX tags the code     *)
(* looks at; a tag the message does not carry (or, for the integer tags,   *)
(* whose text get_int cannot read) is outside the record's domain.         *)
(***************************************************************************)
EXTENDS Integers

CONSTANTS
  Messages,     \* parsed messages the counterparty may present
  HostNumbers,  \* numbers the host may hand to the two setters
  MaxInt        \* the largest value of a C++ int

(* The range of a C++ int.                                                 *)
CInt == (-MaxInt - 1) .. MaxInt

(* Tags read with get_int are ints; nothing else is assumed of a message.  *)
ASSUME SessionAssumption ==
  /\ MaxInt \in Nat \ {0}
  /\ HostNumbers \subseteq CInt
  /\ \A m \in Messages :
        /\ "MsgSeqNum" \in DOMAIN m => m["MsgSeqNum"] \in CInt
        /\ "NewSeqNo" \in DOMAIN m => m["NewSeqNo"] \in CInt

SessionAction ==
  {"None", "SendLogon", "SendHeartbeat", "SendReject", "SendResendRequest",
   "ResetSequence", "ProcessApplicationMessage", "Disconnect"}

VARIABLES
  next_out_seq,   \* m_next_out_seq
  next_in_seq,    \* m_next_in_seq
  logged_on,      \* m_logged_on
  result          \* the ProcessResult of the last receive_message

session == <<next_out_seq, next_in_seq, logged_on, result>>

SessionTypeOK ==
  /\ next_out_seq \in Int
  /\ next_in_seq \in CInt
  /\ logged_on \in BOOLEAN
  /\ result \in [action : SessionAction, detail : CInt]

Return(action, detail) == result' = [action |-> action, detail |-> detail]

SessionInit ==
  /\ next_out_seq = 1
  /\ next_in_seq = 1
  /\ logged_on = FALSE
  /\ result = [action |-> "None", detail |-> 0]

-----------------------------------------------------------------------------
(* receive_message                                                         *)

Has(m, tag) == tag \in DOMAIN m

(* Both tags the session needs are there.                                  *)
Complete(m) == Has(m, "MsgType") /\ Has(m, "MsgSeqNum")

(* Mutant: an increment that leaves the int range.                         *)
SuccUnbounded(n) == n + 1

(* seq + 1 on a C++ int.  Signed overflow is undefined; the builds store   *)
(* the wrapped value.                                                      *)
Succ(n) == IF n = MaxInt THEN -MaxInt - 1 ELSE n + 1

RejectIncomplete(m) ==
  /\ ~Complete(m)
  /\ Return("SendReject", 0)
  /\ UNCHANGED <<next_in_seq, logged_on>>

RefuseBeforeLogon(m) ==
  /\ Complete(m)
  /\ ~logged_on
  /\ m["MsgType"] # "A"
  /\ Return("Disconnect", 0)
  /\ UNCHANGED <<next_in_seq, logged_on>>

(* The first Logon opens the session at whatever number it carries.        *)
AcceptLogon(m) ==
  /\ Complete(m)
  /\ ~logged_on
  /\ m["MsgType"] = "A"
  /\ logged_on' = TRUE
  /\ next_in_seq' = Succ(m["MsgSeqNum"])
  /\ Return("SendLogon", m["MsgSeqNum"])

(* Mutant: a number above the expected one passes for the expected one.    *)
InSequenceOrAbove(m) ==
  Complete(m) /\ logged_on /\ m["MsgSeqNum"] >= next_in_seq

InSequence(m) == Complete(m) /\ logged_on /\ m["MsgSeqNum"] = next_in_seq

(* What the host is told to do about an in-sequence message of a type that *)
(* only counts; any type not named here is an application message (a       *)
(* second Logon included).                                                 *)
AcceptCounted(m) ==
  /\ InSequence(m)
  /\ m["MsgType"] \notin {"4", "5"}
  /\ next_in_seq' = Succ(next_in_seq)
  /\ CASE m["MsgType"] = "0" -> Return("None", 0)
       [] m["MsgType"] = "1" -> Return("SendHeartbeat", m["MsgSeqNum"])
       [] m["MsgType"] = "2" -> Return("ResetSequence", m["MsgSeqNum"])
       [] OTHER -> Return("ProcessApplicationMessage", 0)
  /\ UNCHANGED logged_on

(* Sequence Reset: the expected number becomes NewSeqNo, up or down.       *)
AcceptSequenceReset(m) ==
  /\ InSequence(m)
  /\ m["MsgType"] = "4"
  /\ \/ /\ Has(m, "NewSeqNo")
        /\ next_in_seq' = m["NewSeqNo"]
        /\ Return("None", m["NewSeqNo"])
     \/ /\ ~Has(m, "NewSeqNo")
        /\ next_in_seq' = Succ(next_in_seq)
        /\ Return("SendReject", 0)
  /\ UNCHANGED logged_on

AcceptLogout(m) ==
  /\ InSequence(m)
  /\ m["MsgType"] = "5"
  /\ next_in_seq' = Succ(next_in_seq)
  /\ logged_on' = FALSE
  /\ Return("Disconnect", 0)

ReportGap(m) ==
  /\ Complete(m)
  /\ logged_on
  /\ m["MsgSeqNum"] > next_in_seq
  /\ Return("SendResendRequest", next_in_seq)
  /\ UNCHANGED <<next_in_seq, logged_on>>

PossDup(m) == Has(m, "PossDupFlag") /\ m["PossDupFlag"] = "Y"

(* A number already passed: ignored when flagged as a possible duplicate,  *)
(* a reason to disconnect otherwise.                                       *)
SeeOldNumber(m) ==
  /\ Complete(m)
  /\ logged_on
  /\ m["MsgSeqNum"] < next_in_seq
  /\ \/ PossDup(m) /\ Return("None", 0)
     \/ ~PossDup(m) /\ Return("Disconnect", 0)
  /\ UNCHANGED <<next_in_seq, logged_on>>

Classify(m) ==
  \/ RejectIncomplete(m)
  \/ RefuseBeforeLogon(m)
  \/ AcceptLogon(m)
  \/ AcceptCounted(m)
  \/ AcceptSequenceReset(m)
  \/ AcceptLogout(m)
  \/ ReportGap(m)
  \/ SeeOldNumber(m)

ReceiveMessage(m) == Classify(m) /\ UNCHANGED next_out_seq

-----------------------------------------------------------------------------
(* The outgoing side and the setters                                       *)

(* Nothing here drives the out counter near the end of the int range: it   *)
(* moves by one per message the host sends.                                *)
(* Mutant: the message is not counted.                                     *)
CountNothing == UNCHANGED next_out_seq

CountSent == next_out_seq' = next_out_seq + 1

OnMessageSent == CountSent /\ UNCHANGED <<next_in_seq, logged_on, result>>

SetNextOutSeqNum(n) ==
  /\ next_out_seq' = n
  /\ UNCHANGED <<next_in_seq, logged_on, result>>

SetNextInSeqNum(n) ==
  /\ next_in_seq' = n
  /\ UNCHANGED <<next_out_seq, logged_on, result>>
=============================================================================
