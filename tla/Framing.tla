------------------------------- MODULE Framing -------------------------------
(***************************************************************************)
(* extract_next_message, which the runner (src/runner.cpp:185-209) and the *)
(* proxy (src/proxy.cpp:22-46) each have a copy of, and the loops around   *)
(* it: cut FIX messages off a buffer that a socket fills with arbitrary    *)
(* pieces of a byte stream.                                                *)
(*                                                                         *)
(* The buffer is only ever shortened at its front, cleared, or appended    *)
(* to, so it is always a stretch of the stream: wire[lo + 1 .. hi].        *)
(* Positions are places in the whole stream.  A byte is one of the few     *)
(* characters that the code looks for, or any other.                       *)
(***************************************************************************)
EXTENDS Sequences, Integers, FiniteSets

CONSTANTS
  Byte,         \* the characters
  Messages,     \* what the peer may send, sequences of characters
  Separators,   \* in the order they are tried: one (runner) or two (proxy)
  MaxSent,      \* bound: messages the peer sends
  MaxCuts       \* bound: messages cut off by a lost connection

ASSUME FramingAssumption ==
  /\ Messages \subseteq Seq(Byte) \ {<<>>}
  /\ Separators \in Seq(Byte) \ {<<>>}
  /\ \A i \in DOMAIN Separators : Separators[i] \notin {"8", "1", "0", "="}
  /\ MaxSent \in Nat /\ MaxCuts \in Nat

VARIABLES
  wire,     \* the bytes that were sent and not lost, over all connections
  sent,     \* where each message lies: <<[from, to, cut], ...>>
  lo, hi,   \* rx_buffer is wire[lo + 1 .. hi]
  try,      \* the index of the separator to try, 0 when the loop must receive
  framed,   \* the messages extracted: <<[from, to], ...>>
  split     \* messages of whose bytes some receive delivered just the first

vars == <<wire, sent, lo, hi, try, framed, split>>

TypeOK ==
  /\ wire \in Seq(Byte)
  /\ sent \in Seq([from : Nat, to : Nat, cut : BOOLEAN])
  /\ lo \in 0..hi
  /\ hi \in 0..Len(wire)
  /\ try \in 0..Len(Separators)
  /\ framed \in Seq([from : Nat, to : Nat])
  /\ split \subseteq Nat

Init ==
  /\ wire = <<>> /\ sent = <<>>
  /\ lo = 0 /\ hi = 0 /\ try = 1
  /\ framed = <<>> /\ split = {}

-----------------------------------------------------------------------------
(* extract_next_message                                                    *)

BeginString == <<"8", "=">>
CheckSum == <<"1", "0", "=">>

(* Where text begins in wire[from .. to].                                  *)
Places(text, from, to) ==
  {p \in from..(to + 1 - Len(text)) :
     \A i \in 1..Len(text) : wire[p + i - 1] = text[i]}

First(places) == CHOOSE p \in places : \A q \in places : p <= q

Begins == Places(BeginString, lo + 1, hi)
Start == First(Begins)
CheckSums == Places(CheckSum, Start, hi)

(* Mutant: any field may be the last.                                      *)
EndsOfFields == Places(<<Separators[try]>>, Start, hi)

Ends == Places(<<Separators[try]>>, First(CheckSums), hi)
Complete == CheckSums # {} /\ Ends # {}

(* Mutant: there is always one more separator to try.                      *)
TryOneMore == try' = try + 1

(* With this separator there is nothing; the proxy tries the other one     *)
(* before it receives again.                                               *)
TryNext == try' = IF try < Len(Separators) THEN try + 1 ELSE 0

(* No "8=": the whole buffer is cleared.                                   *)
Clear ==
  /\ try > 0
  /\ Begins = {}
  /\ lo' = hi
  /\ TryNext
  /\ UNCHANGED <<wire, sent, hi, framed, split>>

(* Mutant: the buffer is cleared when no message is complete.              *)
AlignAtEnd ==
  /\ try > 0
  /\ Begins # {} /\ ~Complete
  /\ lo' = hi
  /\ TryNext
  /\ UNCHANGED <<wire, sent, hi, framed, split>>

(* Not complete yet: what precedes "8=" is erased, the rest kept.          *)
Align ==
  /\ try > 0
  /\ Begins # {} /\ ~Complete
  /\ lo' = Start - 1
  /\ TryNext
  /\ UNCHANGED <<wire, sent, hi, framed, split>>

(* Mutant: the message stays in the buffer.                                *)
ExtractAndKeep ==
  /\ try > 0
  /\ Begins # {} /\ Complete
  /\ framed' = Append(framed, [from |-> Start, to |-> First(Ends)])
  /\ lo' = Start
  /\ try' = 1
  /\ UNCHANGED <<wire, sent, hi, split>>

(* From the first "8=" to the first separator after the first "10=".       *)
Extract ==
  /\ try > 0
  /\ Begins # {} /\ Complete
  /\ framed' = Append(framed, [from |-> Start, to |-> First(Ends)])
  /\ lo' = First(Ends)
  /\ try' = 1
  /\ UNCHANGED <<wire, sent, hi, split>>

(* Only when nothing can be extracted is more received, as much as happens *)
(* to arrive.                                                              *)
Receive ==
  /\ try = 0
  /\ hi < Len(wire)
  /\ hi' \in (hi + 1)..Len(wire)
  /\ split' = split \cup {i \in DOMAIN sent : sent[i].from = hi'}
  /\ try' = 1
  /\ UNCHANGED <<wire, sent, lo, framed>>

-----------------------------------------------------------------------------
(* The peer                                                                *)

PeerSends(m) ==
  /\ Len(sent) < MaxSent
  /\ wire' = wire \o m
  /\ sent' = Append(sent, [from |-> Len(wire) + 1, to |-> Len(wire) + Len(m),
                           cut |-> FALSE])
  /\ UNCHANGED <<lo, hi, try, framed, split>>

(* The connection is lost and made anew: what was not received is gone,    *)
(* what was is still in the buffer.                                        *)
Reconnect ==
  /\ hi < Len(wire)
  /\ Cardinality({i \in DOMAIN sent : sent[i].cut}) < MaxCuts
  /\ wire' = SubSeq(wire, 1, hi)
  /\ \E k \in 0..Len(sent) :
       /\ \A i \in DOMAIN sent : i <= k <=> sent[i].from <= hi
       /\ sent' = [i \in 1..k |->
                     [sent[i] EXCEPT !.to = IF @ > hi THEN hi ELSE @,
                                     !.cut = @ \/ sent[i].to > hi]]
  /\ UNCHANGED <<lo, hi, try, framed, split>>

Next ==
  \/ Clear \/ Align \/ Extract \/ Receive
  \/ \E m \in Messages : PeerSends(m)
  \/ Reconnect

Spec == Init /\ [][Next]_vars

-----------------------------------------------------------------------------
(* What serialize_message makes (src/parser.cpp): "8=" first; "10=", a     *)
(* value and the first separator last.                                     *)
WellFormed(m) ==
  /\ m[1] = "8" /\ m[2] = "="
  /\ m[Len(m)] = Separators[1]
  /\ \E p \in 1..(Len(m) - 3) :
       /\ m[p] = "1" /\ m[p + 1] = "0" /\ m[p + 2] = "="
       /\ \A q \in (p + 3)..(Len(m) - 1) :
            m[q] # "=" /\ \A i \in DOMAIN Separators : m[q] # Separators[i]

(* A message with another "10=" before its checksum, as in 110= or in a    *)
(* value.                                                                  *)
EndsEarly(i) ==
  LET sums == Places(CheckSum, sent[i].from, sent[i].to)
  IN \E p, q \in sums : p # q

(* A message that arrived when part of another one was in the buffer.      *)
AfterCut(i) == i > 1 /\ sent[i - 1].cut

MayBeLost(i) == EndsEarly(i) \/ i \in split \/ AfterCut(i)

Extracted(i) == [from |-> sent[i].from, to |-> sent[i].to]

(* However the stream is cut into pieces, a message that was received is   *)
(* extracted, whole and as soon as its last byte is there, unless it has a *)
(* second "10=", a receive ended after its first byte, or it follows the   *)
(* beginning of a message that a lost connection cut off.  Garbage and     *)
(* badly cut messages before it do no harm.  (runner.cpp:185-209,          *)
(* 285-294)                                                                *)
LostOnlyToFraming ==
  try = 0 =>
    \A i \in DOMAIN sent :
      sent[i].to <= hi /\ ~sent[i].cut =>
        \/ \E j \in DOMAIN framed : framed[j] = Extracted(i)
        \/ MayBeLost(i)

(* What is extracted is a message that was sent, in the order sent and at  *)
(* most once, or begins within one of those that may be lost.              *)
(* (runner.cpp:186-207)                                                    *)
NothingInvented ==
  \A j \in DOMAIN framed :
    \E i \in DOMAIN sent :
      /\ sent[i].from <= framed[j].from /\ framed[j].from <= sent[i].to
      /\ framed[j] = Extracted(i) \/ MayBeLost(i) \/ sent[i].cut

(* No byte is part of two extracted messages, and each lies within what    *)
(* was received.  (runner.cpp:203-206)                                     *)
ExtractedApart ==
  \A j \in DOMAIN framed :
    /\ framed[j].from < framed[j].to /\ framed[j].to <= lo
    /\ \A k \in 1..(j - 1) : framed[k].to < framed[j].from
=============================================================================
