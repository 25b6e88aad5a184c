---------------------------- MODULE ProxyLatency ----------------------------
(***************************************************************************)
(* The measurements of class Proxy (analyze_message, src/proxy.cpp:254-325, *)
(* called by forward_traffic, src/proxy.cpp:214-242): a registry of orders *)
(* by ClOrdID and the type of the last client message, both members of the *)
(* proxy, both used by all forwarder threads, neither protected.           *)
(*                                                                         *)
(* A thread reads a message, uses one shared object and then the other,    *)
(* and forwards the message.  While it "uses" an object its access is      *)
(* under way.  Two accesses under way at once, one of them a write, are a  *)
(* data race: behaviour is undefined from there and the model stops.       *)
(*                                                                         *)
(* A message stands for the bytes of one recv.  Descriptors, ends of       *)
(* connections and the validation against the dictionary, which changes    *)
(* nothing, are left out.                                                  *)
(***************************************************************************)
EXTENDS Naturals, Sequences, FiniteSets, SequencesExt, Functions

CONSTANTS
  Conns,      \* connections
  ClOrdIDs,   \* order identifiers; a client uses each once, as FIX demands
  MaxMsgs,    \* bound: messages a remote sends
  NoId

ASSUME LatencyAssumption == MaxMsgs \in Nat /\ NoId \notin ClOrdIDs

Threads == Conns \X {"client", "target"}   \* named by the side they read from
Peer(k) == IF k[2] = "client" THEN <<k[1], "target">> ELSE <<k[1], "client">>

VARIABLES
  m_order_latency,   \* ClOrdID -> the order whose start time is stored
  m_last_client_msg, \* at most one: the message of m_last_client_msg_type and _time
  at,                \* what each thread is doing
  msg,               \* the message at hand, in a sequence of at most one
  wire,              \* sent by a remote, not yet read by the proxy
  received,          \* forwarded to a remote
  measured           \* the latencies reported

vars == <<m_order_latency, m_last_client_msg, at, msg, wire, received, measured>>

(* n numbers the messages of a remote.  heard: how many messages the       *)
(* target had received when it sent this one.  The proxy sees neither.     *)
ClientMsg == [conn : Conns, n : 1..MaxMsgs, type : {"D", "other"},
              id : ClOrdIDs \cup {NoId}]
TargetMsg == [conn : Conns, n : 1..MaxMsgs, type : {"8", "other"},
              id : ClOrdIDs \cup {NoId}, heard : 0..MaxMsgs]
Msg == ClientMsg \cup TargetMsg
Latency == [kind : {"order", "roundtrip"}, request : ClientMsg, response : TargetMsg]

TypeOK ==
  /\ \E ids \in SUBSET ClOrdIDs : m_order_latency \in [ids -> ClientMsg]
  /\ m_last_client_msg \in SUBSET ClientMsg /\ Cardinality(m_last_client_msg) <= 1
  /\ at \in [Threads -> {"recv", "registry", "last", "send"}]
  /\ \A k \in Threads :
        /\ msg[k] \in Seq(Msg) /\ Len(msg[k]) = (IF at[k] = "recv" THEN 0 ELSE 1)
        /\ wire[k] \in Seq(Msg) /\ received[k] \in Seq(Msg)
  /\ measured \in SUBSET Latency

Init ==
  /\ m_order_latency = <<>>
  /\ m_last_client_msg = {}
  /\ at = [k \in Threads |-> "recv"]
  /\ msg = [k \in Threads |-> <<>>]
  /\ wire = [k \in Threads |-> <<>>]
  /\ received = [k \in Threads |-> <<>>]
  /\ measured = {}

-----------------------------------------------------------------------------
The(k) == Head(msg[k])
Outbound(k) == k[2] = "client"

Known(k) == The(k).id \in DOMAIN m_order_latency

(* What an access does to its object: operator[] and the assignments of    *)
(* the outbound branch write; find only reads unless erase follows.        *)
Writes(k) ==
  \/ Outbound(k)
  \/ at[k] = "registry" /\ Known(k)
  \/ at[k] = "last" /\ m_last_client_msg # {}

Raced ==
  \E j, k \in Threads :
     /\ j # k /\ at[j] = at[k] /\ at[k] \in {"registry", "last"}
     /\ Writes(j) \/ Writes(k)

Sent(k) == Len(wire[k]) + Len(msg[k]) + Len(received[Peer(k)])

(* Everything k's remote has sent.                                         *)
Stream(k) == received[Peer(k)] \o msg[k] \o wire[k]

(* An order with an identifier or without, or anything else.               *)
ClientSends(c, type, id) ==
  LET k == <<c, "client">> IN
  /\ Sent(k) < MaxMsgs
  /\ type = "other" => id = NoId
  /\ id # NoId => \A i \in DOMAIN Stream(k) : Stream(k)[i].id # id
  /\ wire' = [wire EXCEPT ![k] =
                Append(@, [conn |-> c, n |-> Sent(k) + 1, type |-> type, id |-> id])]
  /\ UNCHANGED <<m_order_latency, m_last_client_msg, at, msg, received, measured>>

(* A report of an order the target knows, any number of times, or anything *)
(* else at any time: a logon, a heartbeat.                                 *)
TargetSends(c, type, id) ==
  LET k == <<c, "target">> IN
  /\ Sent(k) < MaxMsgs
  /\ type = "other" => id = NoId
  /\ id # NoId => \E i \in DOMAIN received[k] : received[k][i].id = id
  /\ wire' = [wire EXCEPT ![k] =
                Append(@, [conn |-> c, n |-> Sent(k) + 1, type |-> type, id |-> id,
                           heard |-> Len(received[k])])]
  /\ UNCHANGED <<m_order_latency, m_last_client_msg, at, msg, received, measured>>

(* Only an order or a report with a ClOrdID concerns the registry.         *)
Read(k) ==
  /\ at[k] = "recv" /\ wire[k] # <<>>
  /\ msg' = [msg EXCEPT ![k] = <<Head(wire[k])>>]
  /\ wire' = [wire EXCEPT ![k] = Tail(@)]
  /\ at' = [at EXCEPT ![k] = IF Head(wire[k]).id = NoId THEN "last" ELSE "registry"]
  /\ UNCHANGED <<m_order_latency, m_last_client_msg, received, measured>>

Register(k) ==
  /\ at[k] = "registry" /\ Outbound(k)
  /\ m_order_latency' =
       [i \in DOMAIN m_order_latency \cup {The(k).id} |->
          IF i = The(k).id THEN The(k) ELSE m_order_latency[i]]
  /\ at' = [at EXCEPT ![k] = "last"]
  /\ UNCHANGED <<m_last_client_msg, msg, wire, received, measured>>

Report(kind, request, k) ==
  measured' = measured \cup
    {[kind |-> kind, request |-> request, response |-> The(k)]}

(* Mutants: the order stays registered; the first entry found is taken.    *)
MeasureAndKeep(k) ==
  /\ at[k] = "registry" /\ ~Outbound(k) /\ Known(k)
  /\ Report("order", m_order_latency[The(k).id], k)
  /\ at' = [at EXCEPT ![k] = "send"]
  /\ UNCHANGED <<m_order_latency, m_last_client_msg, msg, wire, received>>

MeasureAny(k) ==
  /\ at[k] = "registry" /\ ~Outbound(k) /\ DOMAIN m_order_latency # {}
  /\ \E i \in DOMAIN m_order_latency :
       /\ Report("order", m_order_latency[i], k)
       /\ m_order_latency' = Restrict(m_order_latency, DOMAIN m_order_latency \ {i})
  /\ at' = [at EXCEPT ![k] = "send"]
  /\ UNCHANGED <<m_last_client_msg, msg, wire, received>>

MeasureOrder(k) ==
  /\ at[k] = "registry" /\ ~Outbound(k) /\ Known(k)
  /\ Report("order", m_order_latency[The(k).id], k)
  /\ m_order_latency' =
       Restrict(m_order_latency, DOMAIN m_order_latency \ {The(k).id})
  /\ at' = [at EXCEPT ![k] = "send"]
  /\ UNCHANGED <<m_last_client_msg, msg, wire, received>>

OrderUnknown(k) ==
  /\ at[k] = "registry" /\ ~Outbound(k) /\ ~Known(k)
  /\ at' = [at EXCEPT ![k] = "last"]
  /\ UNCHANGED <<m_order_latency, m_last_client_msg, msg, wire, received, measured>>

(* Mutant: the earlier message is kept.                                    *)
KeepFirst(k) ==
  /\ at[k] = "last" /\ Outbound(k)
  /\ m_last_client_msg' = m_last_client_msg \cup {The(k)}
  /\ at' = [at EXCEPT ![k] = "send"]
  /\ UNCHANGED <<m_order_latency, msg, wire, received, measured>>

RememberLast(k) ==
  /\ at[k] = "last" /\ Outbound(k)
  /\ m_last_client_msg' = {The(k)}
  /\ at' = [at EXCEPT ![k] = "send"]
  /\ UNCHANGED <<m_order_latency, msg, wire, received, measured>>

(* Any message of the target ends the round trip of the last client        *)
(* message, whoever sent that one.                                         *)
MeasureRoundtrip(k) ==
  /\ at[k] = "last" /\ ~Outbound(k)
  /\ \/ m_last_client_msg = {} /\ UNCHANGED measured
     \/ \E request \in m_last_client_msg : Report("roundtrip", request, k)
  /\ m_last_client_msg' = {}
  /\ at' = [at EXCEPT ![k] = "send"]
  /\ UNCHANGED <<m_order_latency, msg, wire, received>>

Analyze(k) ==
  \/ Register(k) \/ MeasureOrder(k) \/ OrderUnknown(k)
  \/ RememberLast(k) \/ MeasureRoundtrip(k)

Send(k) ==
  /\ at[k] = "send"
  /\ received' = [received EXCEPT ![Peer(k)] = Append(@, The(k))]
  /\ msg' = [msg EXCEPT ![k] = <<>>]
  /\ at' = [at EXCEPT ![k] = "recv"]
  /\ UNCHANGED <<m_order_latency, m_last_client_msg, wire, measured>>

Next ==
  /\ ~Raced
  /\ \/ \E c \in Conns, id \in ClOrdIDs \cup {NoId} :
           \/ \E type \in {"D", "other"} : ClientSends(c, type, id)
           \/ \E type \in {"8", "other"} : TargetSends(c, type, id)
     \/ \E k \in Threads : Read(k) \/ Analyze(k) \/ Send(k)

Spec == Init /\ [][Next]_vars

-----------------------------------------------------------------------------
Orders == {l \in measured : l.kind = "order"}

(* An order is registered before the target can hear of it, and looked up  *)
(* before its report reaches the client: once a client has a report, the   *)
(* latency of that order has been printed, and it was printed once however *)
(* many reports followed.  (proxy.cpp:214-242, 295-302)                    *)
ReportedOrdersMeasured ==
  \A c \in Conns : \A i \in DOMAIN received[<<c, "client">>] :
     LET m == received[<<c, "client">>][i] IN
     m.id # NoId => Cardinality({l \in Orders : l.response.id = m.id}) = 1

(* The latency printed for an order is that of an order with the report's  *)
(* identifier, and one the target had received before it reported: the     *)
(* span measured contains the order's way to the target and back.          *)
(* (proxy.cpp:265-268, 295-301)                                            *)
OrderLatencyExact ==
  \A l \in Orders :
     l.request.id = l.response.id /\ l.request.n <= l.response.heard
=============================================================================
