-------------------------- MODULE ProxyLatencyProofs --------------------------
(***************************************************************************)
(* What ProxyLatency guarantees for any number of clients, orders and      *)
(* messages, up to a data race.                                            *)
(***************************************************************************)
EXTENDS ProxyLatency, SequenceTheorems, FiniteSetTheorems, TLAPS

(* What k's remote sends.                                                  *)
Kind(k) == IF Outbound(k) THEN ClientMsg ELSE TargetMsg

(* Streams hold messages of one side, and no more than the bound; a thread *)
(* has a message at hand when it is not in recv, and what it brings to the *)
(* registry has an identifier.                                             *)
Flowing(k) ==
  /\ msg[k] \in Seq(Kind(k)) /\ wire[k] \in Seq(Kind(k)) /\ received[Peer(k)] \in Seq(Kind(k))
  /\ IF at[k] = "recv" THEN msg[k] = <<>> ELSE Len(msg[k]) = 1
  /\ at[k] = "registry" => The(k).id # NoId
  /\ Sent(k) <= MaxMsgs

Registry == m_order_latency \in [DOMAIN m_order_latency -> ClientMsg]

Typed ==
  /\ DOMAIN m_order_latency \subseteq ClOrdIDs /\ Registry
  /\ m_last_client_msg = {} \/ \E m \in ClientMsg : m_last_client_msg = {m}
  /\ at \in [Threads -> {"recv", "registry", "last", "send"}]
  /\ DOMAIN msg = Threads /\ DOMAIN wire = Threads /\ DOMAIN received = Threads
  /\ \A k \in Threads : Flowing(k)
  /\ measured \subseteq Latency

LEMMA Peers ==
  /\ \A c \in Conns :
       /\ <<c, "client">> \in Threads /\ <<c, "target">> \in Threads
       /\ Peer(<<c, "client">>) = <<c, "target">> /\ Peer(<<c, "target">>) = <<c, "client">>
       /\ Outbound(<<c, "client">>) /\ ~Outbound(<<c, "target">>)
  /\ \A k \in Threads :
       /\ Peer(k) \in Threads /\ Peer(Peer(k)) = k /\ Peer(k) # k
       /\ k[1] \in Conns
       /\ k = IF Outbound(k) THEN <<k[1], "client">> ELSE <<k[1], "target">>
BY DEF Threads, Peer, Outbound

LEMMA KindsAreMessages ==
  ASSUME NEW k \in Threads, NEW s \in Seq(Kind(k))
  PROVE  s \in Seq(Msg)
<1>1. Kind(k) \subseteq Msg
  BY DEF Kind, Msg
<1> QED  BY <1>1, SeqMonotonic

(* The message at hand.                                                    *)
LEMMA AtHand ==
  ASSUME Typed, NEW k \in Threads, at[k] # "recv"
  PROVE  The(k) \in Kind(k) /\ msg[k] = <<The(k)>> /\ The(k).id \in ClOrdIDs \cup {NoId}
<1> DEFINE S == Kind(k)
           s == msg[k]
<1>1. s \in Seq(S) /\ Len(s) = 1
  BY DEF Typed, Flowing
<1> HIDE DEF S, s
<1>2. Head(s) \in S /\ s = <<Head(s)>>
  BY <1>1
<1>3. The(k) \in Kind(k) /\ msg[k] = <<The(k)>>
  BY <1>2 DEF The, S, s
<1> QED  BY <1>3 DEF Kind, ClientMsg, TargetMsg

LEMMA TypedIsTypeOK == Typed => TypeOK
<1> SUFFICES ASSUME Typed  PROVE TypeOK
  OBVIOUS
<1>1. \E ids \in SUBSET ClOrdIDs : m_order_latency \in [ids -> ClientMsg]
  BY DEF Typed, Registry
<1>2. m_last_client_msg \in SUBSET ClientMsg /\ Cardinality(m_last_client_msg) <= 1
  BY FS_EmptySet, FS_Singleton DEF Typed
<1>3. ASSUME NEW k \in Threads
      PROVE  /\ msg[k] \in Seq(Msg) /\ wire[k] \in Seq(Msg) /\ received[k] \in Seq(Msg)
             /\ Len(msg[k]) = (IF at[k] = "recv" THEN 0 ELSE 1)
  <2>1. Flowing(k) /\ Flowing(Peer(k)) /\ Peer(k) \in Threads /\ Peer(Peer(k)) = k
    BY Peers DEF Typed
  <2>2. msg[k] \in Seq(Msg) /\ wire[k] \in Seq(Msg) /\ received[k] \in Seq(Msg)
    BY <2>1, KindsAreMessages DEF Flowing
  <2>3. Len(msg[k]) = (IF at[k] = "recv" THEN 0 ELSE 1)
    BY <2>1 DEF Flowing
  <2> QED  BY <2>2, <2>3
<1> QED  BY <1>1, <1>2, <1>3 DEF Typed, TypeOK

(* What the three sequences of a thread hold together.                     *)
LEMMA Lengths ==
  ASSUME Typed, NEW k \in Threads
  PROVE  /\ Len(wire[k]) \in Nat /\ Len(msg[k]) \in Nat /\ Len(received[Peer(k)]) \in Nat
         /\ Len(received[k]) \in Nat
         /\ Len(received[Peer(k)]) <= Sent(k) /\ Sent(k) \in Nat
<1> DEFINE S == Kind(k)
           T == Kind(Peer(k))
<1>1. /\ wire[k] \in Seq(S) /\ msg[k] \in Seq(S) /\ received[Peer(k)] \in Seq(S)
      /\ received[k] \in Seq(T)
  BY Peers DEF Typed, Flowing
<1> HIDE DEF S, T
<1>2. /\ Len(wire[k]) \in Nat /\ Len(msg[k]) \in Nat /\ Len(received[Peer(k)]) \in Nat
      /\ Len(received[k]) \in Nat
  BY <1>1
<1>3. PICK a \in Nat, b \in Nat, c \in Nat :
        a = Len(wire[k]) /\ b = Len(msg[k]) /\ c = Len(received[Peer(k)])
  BY <1>2
<1>4. Sent(k) = a + b + c
  BY <1>3 DEF Sent
<1>5. c <= Sent(k) /\ Sent(k) \in Nat
  BY <1>4
<1>6. Len(received[Peer(k)]) <= Sent(k)
  BY <1>3, <1>5
<1> QED  BY <1>2, <1>5, <1>6

-----------------------------------------------------------------------------
(* Types                                                                   *)

LEMMA StillFlowing ==
  ASSUME Typed, NEW k \in Threads,
         msg'[k] = msg[k], wire'[k] = wire[k], at'[k] = at[k],
         received'[Peer(k)] = received[Peer(k)]
  PROVE  Flowing(k)'
<1>1. Flowing(k)
  BY DEF Typed
<1>2. The(k)' = The(k) /\ Sent(k)' = Sent(k)
  BY DEF The, Sent
<1> QED  BY <1>1, <1>2 DEF Flowing

(* A remote sends one more message.                                        *)
LEMMA SendingKeepsTypes ==
  ASSUME Typed, NEW k \in Threads, NEW m \in Kind(k), Sent(k) < MaxMsgs,
         wire' = [wire EXCEPT ![k] = Append(@, m)],
         UNCHANGED <<m_order_latency, m_last_client_msg, at, msg, received, measured>>
  PROVE  Typed'
<1>1. DOMAIN wire' = Threads /\ wire'[k] = Append(wire[k], m)
      /\ \A j \in Threads : j # k => wire'[j] = wire[j]
  BY DEF Typed
<1>2. ASSUME NEW j \in Threads, j # k  PROVE Flowing(j)'
  BY <1>1, <1>2, StillFlowing
<1>3. Flowing(k)'
  <2> DEFINE S == Kind(k)
             w == wire[k]
  <2>1. w \in Seq(S) /\ m \in S
    BY DEF Typed, Flowing
  <2> HIDE DEF S, w
  <2>2. Append(w, m) \in Seq(S) /\ Len(Append(w, m)) = Len(w) + 1
    BY <2>1
  <2>3. wire'[k] \in Seq(Kind(k)) /\ Len(wire'[k]) = Len(wire[k]) + 1
    BY <1>1, <2>2 DEF S, w
  <2>4. Sent(k)' <= MaxMsgs
    <3>1. PICK a \in Nat, b \in Nat, c \in Nat :
            a = Len(wire[k]) /\ b = Len(msg[k]) /\ c = Len(received[Peer(k)])
      BY Lengths
    <3>2. Sent(k) = a + b + c /\ Sent(k)' = (a + 1) + b + c
      BY <2>3, <3>1 DEF Sent
    <3>3. Sent(k)' = Sent(k) + 1 /\ Sent(k) \in Nat
      BY <3>2
    <3> QED  BY <3>3, LatencyAssumption
  <2>5. Flowing(k) /\ The(k)' = The(k)
    BY DEF Typed, The
  <2> QED  BY <2>3, <2>4, <2>5 DEF Flowing
<1>4. \A j \in Threads : Flowing(j)'
  BY <1>2, <1>3
<1> QED  BY <1>1, <1>4 DEF Typed, Registry

LEMMA ClientMessage ==
  ASSUME Typed, NEW c \in Conns, NEW type \in {"D", "other"}, NEW id \in ClOrdIDs \cup {NoId},
         Sent(<<c, "client">>) < MaxMsgs
  PROVE  [conn |-> c, n |-> Sent(<<c, "client">>) + 1, type |-> type, id |-> id]
           \in Kind(<<c, "client">>)
<1>1. Sent(<<c, "client">>) \in Nat
  BY Peers, Lengths
<1>2. Sent(<<c, "client">>) + 1 \in 1..MaxMsgs
  BY <1>1, LatencyAssumption
<1> QED  BY <1>2, Peers DEF Kind, ClientMsg

LEMMA TargetMessage ==
  ASSUME Typed, NEW c \in Conns, NEW type \in {"8", "other"}, NEW id \in ClOrdIDs \cup {NoId},
         Sent(<<c, "target">>) < MaxMsgs
  PROVE  [conn |-> c, n |-> Sent(<<c, "target">>) + 1, type |-> type, id |-> id,
          heard |-> Len(received[<<c, "target">>])] \in Kind(<<c, "target">>)
<1> DEFINE k == <<c, "target">>
<1>1. k \in Threads /\ Peer(k) \in Threads /\ Peer(Peer(k)) = k /\ ~Outbound(k)
  BY Peers
<1> HIDE DEF k
<1>2. Sent(k) \in Nat /\ Len(received[k]) \in Nat /\ Len(received[k]) <= Sent(Peer(k))
      /\ Sent(Peer(k)) \in Nat
  BY <1>1, Lengths
<1>3. Sent(Peer(k)) <= MaxMsgs
  BY <1>1 DEF Typed, Flowing
<1>4. Sent(k) + 1 \in 1..MaxMsgs /\ Len(received[k]) \in 0..MaxMsgs
  BY <1>2, <1>3, LatencyAssumption DEF k
<1> QED  BY <1>1, <1>4 DEF Kind, TargetMsg, k

LEMMA ReadKeepsTypes ==
  ASSUME Typed, NEW k \in Threads, Read(k)
  PROVE  Typed'
<1>1. /\ at[k] = "recv" /\ wire[k] # <<>>
      /\ msg' = [msg EXCEPT ![k] = <<Head(wire[k])>>]
      /\ wire' = [wire EXCEPT ![k] = Tail(@)]
      /\ at' = [at EXCEPT ![k] = IF Head(wire[k]).id = NoId THEN "last" ELSE "registry"]
      /\ UNCHANGED <<m_order_latency, m_last_client_msg, received, measured>>
  BY DEF Read
<1>2. /\ msg'[k] = <<Head(wire[k])>> /\ wire'[k] = Tail(wire[k])
      /\ at'[k] = IF Head(wire[k]).id = NoId THEN "last" ELSE "registry"
      /\ DOMAIN msg' = Threads /\ DOMAIN wire' = Threads
      /\ at' \in [Threads -> {"recv", "registry", "last", "send"}]
      /\ \A j \in Threads : j # k =>
           msg'[j] = msg[j] /\ wire'[j] = wire[j] /\ at'[j] = at[j]
  BY <1>1 DEF Typed
<1>3. ASSUME NEW j \in Threads, j # k  PROVE Flowing(j)'
  BY <1>1, <1>2, <1>3, StillFlowing
<1>4. Flowing(k)'
  <2> DEFINE S == Kind(k)
             w == wire[k]
             x == Head(w)
  <2>1. w \in Seq(S) /\ w # <<>> /\ msg[k] = <<>> /\ received[Peer(k)] \in Seq(S)
        /\ Sent(k) <= MaxMsgs
    BY <1>1 DEF Typed, Flowing
  <2> HIDE DEF S, w
  <2>2. x \in S /\ Tail(w) \in Seq(S) /\ Len(Tail(w)) = Len(w) - 1 /\ Len(w) \in Nat
    BY <2>1
  <2> HIDE DEF x
  <2>3. <<x>> \in Seq(S) /\ Len(<<x>>) = 1 /\ Head(<<x>>) = x
    BY <2>2
  <2>4. The(k)' = x
    BY <1>2, <2>3 DEF The, w, x
  <2>5. Sent(k)' = Sent(k)
    <3>1. PICK a \in Nat, c \in Nat : a = Len(w) /\ c = Len(received[Peer(k)])
      BY <2>2, Lengths
    <3>2. Len(wire'[k]) = a - 1 /\ Len(msg'[k]) = 1
      BY <1>2, <2>2, <2>3, <3>1 DEF w, x
    <3>3. Sent(k) = a + 0 + c
      BY <2>1, <3>1 DEF Sent, w
    <3>4. Sent(k)' = (a - 1) + 1 + c
      BY <1>1, <3>1, <3>2 DEF Sent
    <3> QED  BY <3>3, <3>4
  <2>6. at'[k] # "recv" /\ (at'[k] = "registry" => x.id # NoId)
    BY <1>2 DEF x, w
  <2>7. msg'[k] = <<x>> /\ wire'[k] = Tail(w) /\ received'[Peer(k)] = received[Peer(k)]
    BY <1>1, <1>2 DEF x, w
  <2>8. msg'[k] \in Seq(Kind(k)) /\ wire'[k] \in Seq(Kind(k))
        /\ received'[Peer(k)] \in Seq(Kind(k))
    BY <2>1, <2>2, <2>3, <2>7 DEF S
  <2> QED  BY <2>1, <2>3, <2>4, <2>5, <2>6, <2>7, <2>8 DEF Flowing
<1>5. \A j \in Threads : Flowing(j)'
  BY <1>3, <1>4
<1> QED  BY <1>1, <1>2, <1>5 DEF Typed, Registry

LEMMA SendKeepsTypes ==
  ASSUME Typed, NEW k \in Threads, Send(k)
  PROVE  Typed'
<1>1. /\ at[k] = "send"
      /\ received' = [received EXCEPT ![Peer(k)] = Append(@, The(k))]
      /\ msg' = [msg EXCEPT ![k] = <<>>]
      /\ at' = [at EXCEPT ![k] = "recv"]
      /\ UNCHANGED <<m_order_latency, m_last_client_msg, wire, measured>>
  BY DEF Send
<1>2. /\ msg'[k] = <<>> /\ at'[k] = "recv"
      /\ received'[Peer(k)] = Append(received[Peer(k)], The(k))
      /\ DOMAIN msg' = Threads /\ DOMAIN received' = Threads
      /\ at' \in [Threads -> {"recv", "registry", "last", "send"}]
      /\ \A j \in Threads : j # k => msg'[j] = msg[j] /\ at'[j] = at[j]
      /\ \A j \in Threads : j # Peer(k) => received'[j] = received[j]
  BY <1>1, Peers DEF Typed
<1>3. ASSUME NEW j \in Threads, j # k  PROVE Flowing(j)'
  <2>1. Peer(j) # Peer(k) /\ Peer(j) \in Threads
    BY <1>3, Peers
  <2> QED  BY <1>1, <1>2, <1>3, <2>1, StillFlowing
<1>4. Flowing(k)'
  <2> DEFINE S == Kind(k)
             r == received[Peer(k)]
             x == The(k)
  <2>1. r \in Seq(S) /\ x \in S /\ wire[k] \in Seq(S) /\ msg[k] = <<x>> /\ Sent(k) <= MaxMsgs
    BY <1>1, AtHand DEF Typed, Flowing
  <2> HIDE DEF S, r, x
  <2>2. Append(r, x) \in Seq(S) /\ Len(Append(r, x)) = Len(r) + 1 /\ Len(<<x>>) = 1
        /\ <<>> \in Seq(S) /\ Len(<<>>) = 0
    BY <2>1
  <2>3. Sent(k)' = Sent(k)
    <3>1. PICK a \in Nat, c \in Nat : a = Len(wire[k]) /\ c = Len(r)
      BY Lengths DEF r
    <3>2. Len(received'[Peer(k)]) = c + 1 /\ Len(msg'[k]) = 0 /\ Len(msg[k]) = 1
      BY <1>2, <2>1, <2>2, <3>1 DEF r, x
    <3>3. Sent(k) = a + 1 + c
      BY <3>1, <3>2 DEF Sent, r
    <3>4. Sent(k)' = a + 0 + (c + 1)
      BY <1>1, <3>1, <3>2 DEF Sent
    <3> QED  BY <3>3, <3>4
  <2>4. msg'[k] \in Seq(Kind(k)) /\ wire'[k] \in Seq(Kind(k))
        /\ received'[Peer(k)] \in Seq(Kind(k))
    BY <1>1, <1>2, <2>1, <2>2 DEF S, r, x
  <2> QED  BY <1>2, <2>1, <2>3, <2>4 DEF Flowing
<1>5. \A j \in Threads : Flowing(j)'
  BY <1>3, <1>4
<1> QED  BY <1>1, <1>2, <1>5 DEF Typed, Registry

(* A step of the analysis moves nothing but the thread.                    *)
LEMMA MovesOn ==
  ASSUME Typed, NEW k \in Threads, NEW a \in {"last", "send"}, at[k] # "recv",
         at' = [at EXCEPT ![k] = a], UNCHANGED <<msg, wire, received>>
  PROVE  /\ at' \in [Threads -> {"recv", "registry", "last", "send"}]
         /\ \A j \in Threads : Flowing(j)'
<1>1. /\ at' \in [Threads -> {"recv", "registry", "last", "send"}]
      /\ at'[k] = a /\ \A j \in Threads : j # k => at'[j] = at[j]
  BY DEF Typed
<1>2. ASSUME NEW j \in Threads  PROVE Flowing(j)'
  <2>1. CASE j # k
    BY <1>1, <2>1, StillFlowing
  <2>2. CASE j = k
    <3>1. Flowing(k) /\ Sent(k)' = Sent(k)
      BY DEF Typed, Sent
    <3> QED  BY <1>1, <2>2, <3>1 DEF Flowing
  <2> QED  BY <2>1, <2>2
<1> QED  BY <1>1, <1>2

LEMMA ReportKeepsTypes ==
  ASSUME Typed, NEW k \in Threads, ~Outbound(k), at[k] # "recv",
         NEW kind \in {"order", "roundtrip"}, NEW request \in ClientMsg,
         Report(kind, request, k)
  PROVE  measured' \subseteq Latency
<1>1. The(k) \in TargetMsg
  BY AtHand DEF Kind
<1>2. [kind |-> kind, request |-> request, response |-> The(k)] \in Latency
  BY <1>1 DEF Latency
<1> QED  BY <1>2 DEF Report, Typed

LEMMA AnalyzeKeepsTypes ==
  ASSUME Typed, NEW k \in Threads, Analyze(k)
  PROVE  Typed'
<1>1. CASE Register(k)
  <2>1. /\ at[k] = "registry" /\ Outbound(k) /\ at' = [at EXCEPT ![k] = "last"]
        /\ m_order_latency' =
             [i \in DOMAIN m_order_latency \cup {The(k).id} |->
                IF i = The(k).id THEN The(k) ELSE m_order_latency[i]]
        /\ UNCHANGED <<m_last_client_msg, msg, wire, received, measured>>
    BY <1>1 DEF Register
  <2>2. The(k) \in ClientMsg /\ The(k).id \in ClOrdIDs
    <3>1. The(k).id # NoId
      BY <2>1 DEF Typed, Flowing
    <3> QED  BY <2>1, <3>1, AtHand DEF Kind
  <2>3. DOMAIN m_order_latency' = DOMAIN m_order_latency \cup {The(k).id}
        /\ \A i \in DOMAIN m_order_latency' : m_order_latency'[i] \in ClientMsg
    BY <2>1, <2>2 DEF Typed, Registry
  <2>4. m_order_latency' \in [DOMAIN m_order_latency' -> ClientMsg]
    BY <2>1, <2>3
  <2>5. at' \in [Threads -> {"recv", "registry", "last", "send"}]
        /\ \A j \in Threads : Flowing(j)'
    BY <2>1, MovesOn
  <2> QED  BY <2>1, <2>2, <2>3, <2>4, <2>5 DEF Typed, Registry
<1>2. CASE MeasureOrder(k)
  <2>1. /\ at[k] = "registry" /\ ~Outbound(k) /\ at' = [at EXCEPT ![k] = "send"]
        /\ Known(k) /\ Report("order", m_order_latency[The(k).id], k)
        /\ m_order_latency' =
             Restrict(m_order_latency, DOMAIN m_order_latency \ {The(k).id})
        /\ UNCHANGED <<m_last_client_msg, msg, wire, received>>
    BY <1>2 DEF MeasureOrder
  <2>2. m_order_latency[The(k).id] \in ClientMsg
    BY <2>1 DEF Known, Typed, Registry
  <2>3. measured' \subseteq Latency
    BY <2>1, <2>2, ReportKeepsTypes
  <2>4. m_order_latency' = [i \in DOMAIN m_order_latency \ {The(k).id} |-> m_order_latency[i]]
    BY <2>1 DEF Restrict
  <2>5. DOMAIN m_order_latency' = DOMAIN m_order_latency \ {The(k).id}
        /\ m_order_latency' \in [DOMAIN m_order_latency' -> ClientMsg]
    BY <2>4 DEF Typed, Registry
  <2>6. at' \in [Threads -> {"recv", "registry", "last", "send"}]
        /\ \A j \in Threads : Flowing(j)'
    BY <2>1, MovesOn
  <2> QED  BY <2>1, <2>3, <2>5, <2>6 DEF Typed, Registry
<1>3. CASE OrderUnknown(k)
  <2>1. /\ at[k] = "registry" /\ at' = [at EXCEPT ![k] = "last"]
        /\ UNCHANGED <<m_order_latency, m_last_client_msg, msg, wire, received, measured>>
    BY <1>3 DEF OrderUnknown
  <2>2. at' \in [Threads -> {"recv", "registry", "last", "send"}]
        /\ \A j \in Threads : Flowing(j)'
    BY <2>1, MovesOn
  <2> QED  BY <2>1, <2>2 DEF Typed, Registry
<1>4. CASE RememberLast(k)
  <2>1. /\ at[k] = "last" /\ Outbound(k) /\ at' = [at EXCEPT ![k] = "send"]
        /\ m_last_client_msg' = {The(k)}
        /\ UNCHANGED <<m_order_latency, msg, wire, received, measured>>
    BY <1>4 DEF RememberLast
  <2>2. The(k) \in ClientMsg
    BY <2>1, AtHand DEF Kind
  <2>3. at' \in [Threads -> {"recv", "registry", "last", "send"}]
        /\ \A j \in Threads : Flowing(j)'
    BY <2>1, MovesOn
  <2> QED  BY <2>1, <2>2, <2>3 DEF Typed, Registry
<1>5. CASE MeasureRoundtrip(k)
  <2>1. /\ at[k] = "last" /\ ~Outbound(k) /\ at' = [at EXCEPT ![k] = "send"]
        /\ \/ UNCHANGED measured
           \/ \E request \in m_last_client_msg : Report("roundtrip", request, k)
        /\ m_last_client_msg' = {}
        /\ UNCHANGED <<m_order_latency, msg, wire, received>>
    BY <1>5 DEF MeasureRoundtrip
  <2>2. measured' \subseteq Latency
    <3>1. \A request \in m_last_client_msg : request \in ClientMsg
      BY DEF Typed
    <3> QED  BY <2>1, <3>1, ReportKeepsTypes DEF Typed
  <2>3. at' \in [Threads -> {"recv", "registry", "last", "send"}]
        /\ \A j \in Threads : Flowing(j)'
    BY <2>1, MovesOn
  <2> QED  BY <2>1, <2>2, <2>3 DEF Typed, Registry
<1> QED  BY <1>1, <1>2, <1>3, <1>4, <1>5 DEF Analyze

LEMMA TypedStarts == Init => Typed
<1> SUFFICES ASSUME Init  PROVE Typed
  OBVIOUS
<1>1. \A k \in Threads : Flowing(k)
  <2>1. ASSUME NEW k \in Threads  PROVE Flowing(k)
    <3>1. msg[k] = <<>> /\ wire[k] = <<>> /\ received[Peer(k)] = <<>> /\ at[k] = "recv"
      BY Peers DEF Init
    <3>2. <<>> \in Seq(Kind(k)) /\ Len(<<>>) = 0
      OBVIOUS
    <3> QED  BY <3>1, <3>2, LatencyAssumption DEF Flowing, Sent
  <2> QED  BY <2>1
<1>2. DOMAIN m_order_latency = {} /\ Registry
  BY DEF Init, Registry
<1> QED  BY <1>1, <1>2 DEF Init, Typed

LEMMA TypedStays ==
  ASSUME Typed, [Next]_vars
  PROVE  Typed'
<1>1. ASSUME NEW c \in Conns, NEW id \in ClOrdIDs \cup {NoId}, NEW type \in {"D", "other"},
             ClientSends(c, type, id)
      PROVE  Typed'
  <2> DEFINE k == <<c, "client">>
             m == [conn |-> c, n |-> Sent(k) + 1, type |-> type, id |-> id]
  <2>1. /\ Sent(k) < MaxMsgs
        /\ wire' = [wire EXCEPT ![k] = Append(@, m)]
        /\ UNCHANGED <<m_order_latency, m_last_client_msg, at, msg, received, measured>>
    BY <1>1 DEF ClientSends
  <2>2. k \in Threads /\ m \in Kind(k)
    BY <2>1, ClientMessage, Peers
  <2> QED  BY <2>1, <2>2, SendingKeepsTypes
<1>2. ASSUME NEW c \in Conns, NEW id \in ClOrdIDs \cup {NoId}, NEW type \in {"8", "other"},
             TargetSends(c, type, id)
      PROVE  Typed'
  <2> DEFINE k == <<c, "target">>
             m == [conn |-> c, n |-> Sent(k) + 1, type |-> type, id |-> id,
                   heard |-> Len(received[k])]
  <2>1. /\ Sent(k) < MaxMsgs
        /\ wire' = [wire EXCEPT ![k] = Append(@, m)]
        /\ UNCHANGED <<m_order_latency, m_last_client_msg, at, msg, received, measured>>
    BY <1>2 DEF TargetSends
  <2>2. k \in Threads /\ m \in Kind(k)
    BY <2>1, TargetMessage, Peers
  <2> QED  BY <2>1, <2>2, SendingKeepsTypes
<1>3. ASSUME NEW k \in Threads, Read(k) \/ Analyze(k) \/ Send(k)  PROVE Typed'
  BY <1>3, ReadKeepsTypes, AnalyzeKeepsTypes, SendKeepsTypes
<1>4. CASE UNCHANGED vars
  BY <1>4 DEF vars, Typed, Registry, Flowing, The, Sent
<1> QED  BY <1>1, <1>2, <1>3, <1>4 DEF Next

(* Types: the registry holds client messages under their identifiers and   *)
(* the last client message is at most one, for any number of connections.  *)
(* (proxy.cpp:254-311)                                                     *)
THEOREM TypeCorrect == Spec => []TypeOK
BY TypedStarts, TypedStays, TypedIsTypeOK, PTL DEF Spec

-----------------------------------------------------------------------------
(* Streams                                                                 *)

(* A stream is what was forwarded, then the message at hand, then the rest. *)
LEMMA StreamMeans ==
  ASSUME Typed, NEW k \in Threads
  PROVE  /\ Stream(k) \in Seq(Kind(k)) /\ Len(Stream(k)) = Sent(k) /\ Sent(k) \in Nat
         /\ \A i \in 1..Len(received[Peer(k)]) : Stream(k)[i] = received[Peer(k)][i]
         /\ at[k] # "recv" =>
              /\ Len(received[Peer(k)]) + 1 <= Sent(k)
              /\ Stream(k)[Len(received[Peer(k)]) + 1] = The(k)
         /\ at[k] = "recv" /\ wire[k] # <<>> =>
              /\ Len(received[Peer(k)]) + 1 <= Sent(k)
              /\ Stream(k)[Len(received[Peer(k)]) + 1] = Head(wire[k])
<1> DEFINE S == Kind(k)
           r == received[Peer(k)]
           m == msg[k]
           w == wire[k]
<1>1. r \in Seq(S) /\ m \in Seq(S) /\ w \in Seq(S)
  BY DEF Typed, Flowing
<1>2. Stream(k) = (r \o m) \o w
  BY DEF Stream
<1>3. Sent(k) = Len(w) + Len(m) + Len(r)
  BY DEF Sent
<1>4. at[k] # "recv" => m = <<The(k)>>
  BY AtHand
<1>5. at[k] = "recv" => m = <<>>
  BY DEF Typed, Flowing
<1> HIDE DEF S, r, m, w
<1>6. PICK a \in Nat, b \in Nat, c \in Nat : a = Len(w) /\ b = Len(m) /\ c = Len(r)
  BY <1>1
<1>7. /\ (r \o m) \in Seq(S) /\ Len(r \o m) = c + b
      /\ \A i \in 1..c : (r \o m)[i] = r[i]
      /\ \A i \in 1..b : (r \o m)[c + i] = m[i]
  BY <1>1, <1>6, ConcatProperties
<1>8. /\ Stream(k) \in Seq(S) /\ Len(Stream(k)) = (c + b) + a
      /\ \A i \in 1..(c + b) : Stream(k)[i] = (r \o m)[i]
      /\ \A i \in 1..a : Stream(k)[(c + b) + i] = w[i]
  <2> DEFINE q == r \o m
  <2>1. q \in Seq(S) /\ Len(q) = c + b /\ Stream(k) = q \o w
    BY <1>2, <1>7
  <2> HIDE DEF q
  <2>2. /\ Stream(k) \in Seq(S) /\ Len(Stream(k)) = (c + b) + a
        /\ \A i \in 1..(c + b) : Stream(k)[i] = q[i]
        /\ \A i \in 1..a : Stream(k)[(c + b) + i] = w[i]
    <3>1. /\ q \o w \in Seq(S) /\ Len(q \o w) = Len(q) + Len(w)
          /\ \A i \in 1..(Len(q) + Len(w)) :
               (q \o w)[i] = IF i <= Len(q) THEN q[i] ELSE w[i - Len(q)]
      BY <1>1, <2>1, ConcatProperties
    <3>2. Len(q) = c + b /\ Len(w) = a
      BY <1>6, <2>1
    <3>3. ASSUME NEW i \in 1..(c + b)  PROVE (q \o w)[i] = q[i]
      BY <3>1, <3>2
    <3>4. ASSUME NEW i \in 1..a  PROVE (q \o w)[(c + b) + i] = w[i]
      <4>1. /\ (c + b) + i \in 1..(Len(q) + Len(w)) /\ ~((c + b) + i <= Len(q))
            /\ ((c + b) + i) - Len(q) = i
        BY <3>2
      <4> QED  BY <3>1, <4>1
    <3> QED  BY <2>1, <3>1, <3>2, <3>3, <3>4
  <2> QED  BY <2>2 DEF q
<1>9. Len(Stream(k)) = Sent(k) /\ Sent(k) \in Nat
  <2>1. Len(Stream(k)) = (c + b) + a
    BY <1>8
  <2>2. Sent(k) = a + b + c
    BY <1>3, <1>6
  <2> QED  BY <2>1, <2>2
<1>10. ASSUME NEW i \in 1..c  PROVE Stream(k)[i] = r[i]
  <2>1. i \in 1..(c + b)
    OBVIOUS
  <2>2. Stream(k)[i] = (r \o m)[i] /\ (r \o m)[i] = r[i]
    BY <1>7, <1>8, <2>1
  <2> QED  BY <2>2
<1>11. ASSUME at[k] # "recv"
       PROVE  c + 1 <= Sent(k) /\ Stream(k)[c + 1] = The(k)
  <2>1. b = 1 /\ m[1] = The(k)
    BY <1>4, <1>6, <1>11
  <2> QED  BY <1>3, <1>6, <1>7, <1>8, <2>1
<1>12. ASSUME at[k] = "recv", w # <<>>
       PROVE  c + 1 <= Sent(k) /\ Stream(k)[c + 1] = Head(w)
  <2>1. b = 0 /\ a >= 1 /\ Head(w) = w[1]
    BY <1>1, <1>5, <1>6, <1>12
  <2>2. 1 \in 1..a /\ (c + b) + 1 = c + 1
    BY <1>6, <2>1
  <2>3. c + 1 <= Sent(k)
    BY <1>3, <1>6, <2>1
  <2> QED  BY <1>8, <2>1, <2>2, <2>3
<1> QED  BY <1>6, <1>8, <1>9, <1>10, <1>11, <1>12 DEF S, r, w

(* The proxy moves messages along their streams.                           *)
LEMMA MovesAlong ==
  ASSUME Typed, NEW j \in Threads, Read(j) \/ Analyze(j) \/ Send(j), NEW k \in Threads
  PROVE  Stream(k)' = Stream(k) /\ Sent(k)' = Sent(k)
<1>1. CASE Analyze(j)
  <2>1. UNCHANGED <<msg, wire, received>>
    BY <1>1 DEF Analyze, Register, MeasureOrder, OrderUnknown, RememberLast, MeasureRoundtrip
  <2> QED  BY <2>1 DEF Stream, Sent
<1>2. CASE j # k /\ (Read(j) \/ Send(j))
  <2>1. Peer(j) # Peer(k) /\ Peer(j) \in Threads /\ Peer(k) \in Threads
    BY <1>2, Peers
  <2>2. msg'[k] = msg[k] /\ wire'[k] = wire[k] /\ received'[Peer(k)] = received[Peer(k)]
    BY <1>2, <2>1 DEF Read, Send, Typed
  <2> QED  BY <2>2 DEF Stream, Sent
<1>3. CASE j = k /\ Read(j)
  <2> DEFINE S == Kind(k)
             r == received[Peer(k)]
             w == wire[k]
  <2>1. /\ r \in Seq(S) /\ w \in Seq(S) /\ w # <<>> /\ msg[k] = <<>>
        /\ received'[Peer(k)] = r /\ wire'[k] = Tail(w) /\ msg'[k] = <<Head(w)>>
    BY <1>3 DEF Typed, Flowing, Read
  <2>2. Stream(k) = (r \o <<>>) \o w /\ Stream(k)' = (r \o <<Head(w)>>) \o Tail(w)
        /\ Sent(k) = Len(w) + Len(<<>>) + Len(r)
        /\ Sent(k)' = Len(Tail(w)) + Len(<<Head(w)>>) + Len(r)
    BY <2>1 DEF Stream, Sent
  <2> HIDE DEF S, r, w
  <2>3. Head(w) \in S /\ Tail(w) \in Seq(S) /\ w = <<Head(w)>> \o Tail(w)
        /\ Len(Tail(w)) = Len(w) - 1 /\ Len(w) \in Nat /\ Len(r) \in Nat
        /\ Len(<<>>) = 0 /\ Len(<<Head(w)>>) = 1
    BY <2>1
  <2>4. r \o <<>> = r
    BY <2>1, ConcatEmptySeq
  <2>5. (r \o <<Head(w)>>) \o Tail(w) = r \o (<<Head(w)>> \o Tail(w))
    <3> DEFINE u == <<Head(w)>>
               v == Tail(w)
    <3>1. r \in Seq(S) /\ u \in Seq(S) /\ v \in Seq(S)
      BY <2>1, <2>3
    <3> HIDE DEF u, v
    <3>2. (r \o u) \o v = r \o (u \o v)
      BY <3>1, ConcatAssociative
    <3> QED  BY <3>2 DEF u, v
  <2>6. Sent(k)' = Sent(k)
    BY <2>2, <2>3
  <2> QED  BY <2>2, <2>3, <2>4, <2>5, <2>6
<1>4. CASE j = k /\ Send(j)
  <2> DEFINE S == Kind(k)
             r == received[Peer(k)]
             w == wire[k]
             x == The(k)
  <2>1. /\ r \in Seq(S) /\ w \in Seq(S) /\ x \in S /\ msg[k] = <<x>>
        /\ received'[Peer(k)] = Append(r, x) /\ wire'[k] = w /\ msg'[k] = <<>>
    BY <1>4, AtHand, Peers DEF Typed, Flowing, Send
  <2>2. Stream(k) = (r \o <<x>>) \o w /\ Stream(k)' = (Append(r, x) \o <<>>) \o w
        /\ Sent(k) = Len(w) + Len(<<x>>) + Len(r)
        /\ Sent(k)' = Len(w) + Len(<<>>) + Len(Append(r, x))
    BY <2>1 DEF Stream, Sent
  <2> HIDE DEF S, r, w, x
  <2>3. Append(r, x) \in Seq(S) /\ Append(r, x) = r \o <<x>>
        /\ Len(Append(r, x)) = Len(r) + 1 /\ Len(w) \in Nat /\ Len(r) \in Nat
        /\ Len(<<>>) = 0 /\ Len(<<x>>) = 1
    BY <2>1, AppendIsConcat
  <2>4. Append(r, x) \o <<>> = Append(r, x)
    BY <2>3, ConcatEmptySeq
  <2>5. Sent(k)' = Sent(k)
    BY <2>2, <2>3
  <2> QED  BY <2>2, <2>3, <2>4, <2>5
<1> QED  BY <1>1, <1>2, <1>3, <1>4

(* A remote appends to its own stream.                                     *)
LEMMA SendingAppends ==
  ASSUME Typed, NEW k \in Threads, NEW m \in Kind(k),
         wire' = [wire EXCEPT ![k] = Append(@, m)], UNCHANGED <<msg, received>>
  PROVE  /\ Stream(k)' = Append(Stream(k), m) /\ Sent(k)' = Sent(k) + 1
         /\ \A j \in Threads : j # k => Stream(j)' = Stream(j) /\ Sent(j)' = Sent(j)
<1>1. wire'[k] = Append(wire[k], m) /\ \A j \in Threads : j # k => wire'[j] = wire[j]
  BY DEF Typed
<1>2. \A j \in Threads : j # k => Stream(j)' = Stream(j) /\ Sent(j)' = Sent(j)
  BY <1>1 DEF Stream, Sent
<1>3. Stream(k)' = Append(Stream(k), m) /\ Sent(k)' = Sent(k) + 1
  <2> DEFINE S == Kind(k)
             r == received[Peer(k)]
             q == msg[k]
             w == wire[k]
  <2>1. r \in Seq(S) /\ q \in Seq(S) /\ w \in Seq(S) /\ m \in S
    BY DEF Typed, Flowing
  <2>2. Stream(k) = (r \o q) \o w /\ Stream(k)' = (r \o q) \o Append(w, m)
        /\ Sent(k) = Len(w) + Len(q) + Len(r)
        /\ Sent(k)' = Len(Append(w, m)) + Len(q) + Len(r)
    BY <1>1 DEF Stream, Sent
  <2> HIDE DEF S, r, q, w
  <2>3. r \o q \in Seq(S) /\ <<m>> \in Seq(S) /\ Append(w, m) = w \o <<m>>
        /\ Len(Append(w, m)) = Len(w) + 1
        /\ Len(w) \in Nat /\ Len(q) \in Nat /\ Len(r) \in Nat
    BY <2>1, AppendIsConcat, ConcatProperties
  <2> DEFINE t == r \o q
  <2>4. t \o (w \o <<m>>) = (t \o w) \o <<m>>
    <3> HIDE DEF t
    <3> QED  BY <2>1, <2>3, ConcatAssociative DEF t
  <2>5. Stream(k) \in Seq(S) /\ Append(Stream(k), m) = Stream(k) \o <<m>>
    <3>1. Stream(k) \in Seq(S)
      BY StreamMeans DEF S
    <3> QED  BY <2>1, <3>1, AppendIsConcat
  <2>6. Sent(k)' = Sent(k) + 1
    BY <2>2, <2>3
  <2> QED  BY <2>2, <2>3, <2>4, <2>5, <2>6
<1> QED  BY <1>2, <1>3

-----------------------------------------------------------------------------
(* Orders and their latencies                                              *)

(* No client uses an identifier of another one.  A client must not use one *)
(* twice; that two of them never use the same is for who runs them to see  *)
(* to: the registry does not tell connections apart.                       *)
OwnIds ==
  \A c, d \in Conns : c # d =>
    \A i \in 1..Sent(<<c, "client">>), j \in 1..Sent(<<d, "client">>) :
      Stream(<<c, "client">>)[i].id = Stream(<<d, "client">>)[j].id =>
        Stream(<<c, "client">>)[i].id = NoId

(* How many messages of k's stream have been to the registry, if they had  *)
(* to.                                                                     *)
Analyzed(k) == Len(received[Peer(k)]) + IF at[k] \in {"last", "send"} THEN 1 ELSE 0

Numbered ==
  \A k \in Threads : \A i \in 1..Sent(k) : Stream(k)[i].n = i

UsedOnce ==
  \A c \in Conns : \A i, j \in 1..Sent(<<c, "client">>) :
    Stream(<<c, "client">>)[i].id = Stream(<<c, "client">>)[j].id =>
      i = j \/ Stream(<<c, "client">>)[i].id = NoId

(* A target reports what it has heard of.                                  *)
Informed ==
  \A c \in Conns : \A i \in 1..Sent(<<c, "target">>) :
    /\ Stream(<<c, "target">>)[i].heard \in 0..Len(received[<<c, "target">>])
    /\ Stream(<<c, "target">>)[i].id # NoId =>
         \E j \in 1..Stream(<<c, "target">>)[i].heard :
           Stream(<<c, "client">>)[j].id = Stream(<<c, "target">>)[i].id

StreamInv == Numbered /\ UsedOnce /\ Informed

Analyzes(c, m) ==
  \E i \in 1..Analyzed(<<c, "client">>) : Stream(<<c, "client">>)[i] = m

(* The registry holds orders under their identifiers.                      *)
RegistryOfOrders ==
  \A id \in DOMAIN m_order_latency :
    m_order_latency[id].id = id /\ \E c \in Conns : Analyzes(c, m_order_latency[id])

(* So did the latencies measured come about.                               *)
MeasuredOfOrders ==
  OrderLatencyExact /\ \A l \in Orders : \E c \in Conns : Analyzes(c, l.request)

NotMeasured(id) == \A l \in Orders : l.response.id # id

MeasuredOnce(id) ==
  \E l \in Orders :
    l.response.id = id /\ \A q \in Orders : q.response.id = id => q = l

(* An order that was analyzed is registered, or has been measured.         *)
Settled ==
  \A c \in Conns : \A i \in 1..Analyzed(<<c, "client">>) :
    Stream(<<c, "client">>)[i].id # NoId =>
      IF Stream(<<c, "client">>)[i].id \in DOMAIN m_order_latency
      THEN NotMeasured(Stream(<<c, "client">>)[i].id)
      ELSE MeasuredOnce(Stream(<<c, "client">>)[i].id)

(* What a report was analyzed for is no longer registered.                 *)
Unregistered ==
  \A c \in Conns : \A i \in 1..Analyzed(<<c, "target">>) :
    Stream(<<c, "target">>)[i].id \notin DOMAIN m_order_latency

OrderInv == RegistryOfOrders /\ MeasuredOfOrders /\ Settled /\ Unregistered

LatencyInv == StreamInv /\ OrderInv

LEMMA AnalyzedMeans ==
  ASSUME Typed, NEW k \in Threads
  PROVE  /\ Analyzed(k) \in Nat /\ Analyzed(k) <= Sent(k)
         /\ Len(received[Peer(k)]) <= Analyzed(k)
         /\ at[k] \in {"recv", "registry"} => Analyzed(k) = Len(received[Peer(k)])
         /\ at[k] \in {"last", "send"} => Analyzed(k) = Len(received[Peer(k)]) + 1
<1>1. PICK r \in Nat, t \in Nat : r = Len(received[Peer(k)]) /\ t = Sent(k) /\ r <= t
  BY Lengths
<1>2. at[k] # "recv" => r + 1 <= t
  BY <1>1, StreamMeans
<1>3. at[k] \in {"recv", "registry", "last", "send"}
  BY DEF Typed
<1>4. Analyzed(k) = r + IF at[k] \in {"last", "send"} THEN 1 ELSE 0
  BY <1>1 DEF Analyzed
<1>5. CASE at[k] \in {"last", "send"}
  <2>1. Analyzed(k) = r + 1 /\ r + 1 <= t
    BY <1>2, <1>4, <1>5
  <2> QED  BY <1>1, <1>5, <2>1
<1>6. CASE at[k] \in {"recv", "registry"}
  <2>1. Analyzed(k) = r + 0
    BY <1>4, <1>6
  <2> QED  BY <1>1, <1>6, <2>1
<1> QED  BY <1>3, <1>5, <1>6

(* What the proxy does leaves streams what they are.                       *)
LEMMA ProxyKeepsStreams ==
  ASSUME Typed, StreamInv, NEW j \in Threads, Read(j) \/ Analyze(j) \/ Send(j), Typed'
  PROVE  StreamInv'
<1>1. \A k \in Threads : Stream(k)' = Stream(k) /\ Sent(k)' = Sent(k)
  BY MovesAlong
<1>2. \A c \in Conns : <<c, "client">> \in Threads /\ <<c, "target">> \in Threads
  BY Peers
<1>3. Numbered'
  BY <1>1 DEF StreamInv, Numbered
<1>4. UsedOnce'
  BY <1>1, <1>2 DEF StreamInv, UsedOnce
<1>5. \A k \in Threads : Len(received[k]) \in Nat /\ Len(received'[k]) \in Nat
                        /\ Len(received[k]) <= Len(received'[k])
  <2>1. ASSUME NEW k \in Threads
        PROVE  Len(received[k]) \in Nat /\ Len(received'[k]) \in Nat
               /\ Len(received[k]) <= Len(received'[k])
    <3> DEFINE S == Kind(Peer(k))
    <3>1. received[k] \in Seq(S)
      BY Peers DEF Typed, Flowing
    <3>2. received'[k] = received[k] \/ (The(j) \in S /\ received'[k] = Append(received[k], The(j)))
      <4>1. CASE Read(j) \/ Analyze(j)
        BY <4>1 DEF Read, Analyze, Register, MeasureOrder, OrderUnknown, RememberLast, MeasureRoundtrip
      <4>2. CASE Send(j)
        <5>1. k = Peer(j) => S = Kind(j)
          BY Peers
        <5>2. The(j) \in Kind(j)
          BY <4>2, AtHand DEF Send
        <5> QED  BY <4>2, <5>1, <5>2, Peers DEF Send, Typed
      <4> QED  BY <4>1, <4>2
    <3> HIDE DEF S
    <3> QED  BY <3>1, <3>2
  <2> QED  BY <2>1
<1>6. Informed'
  <2>1. ASSUME NEW c \in Conns, NEW i \in 1..Sent(<<c, "target">>)
        PROVE  Stream(<<c, "target">>)[i].heard \in 0..Len(received'[<<c, "target">>])
    <3>1. Stream(<<c, "target">>)[i].heard \in 0..Len(received[<<c, "target">>])
      BY DEF StreamInv, Informed
    <3>2. PICK a \in Nat, b \in Nat :
            a = Len(received[<<c, "target">>]) /\ b = Len(received'[<<c, "target">>]) /\ a <= b
      BY <1>2, <1>5
    <3>3. \A h : h \in 0..a => h \in 0..b
      BY <3>2
    <3> QED  BY <3>1, <3>2, <3>3
  <2>2. ASSUME NEW c \in Conns
        PROVE  /\ Stream(<<c, "target">>)' = Stream(<<c, "target">>)
               /\ Sent(<<c, "target">>)' = Sent(<<c, "target">>)
               /\ Stream(<<c, "client">>)' = Stream(<<c, "client">>)
    <3>1. \A k : k = <<c, "client">> \/ k = <<c, "target">> => k \in Threads
      BY <1>2
    <3> QED  BY <1>1, <3>1
  <2>3. ASSUME NEW c \in Conns, NEW i \in 1..Sent(<<c, "target">>),
               Stream(<<c, "target">>)[i].id # NoId
        PROVE  \E h \in 1..Stream(<<c, "target">>)[i].heard :
                 Stream(<<c, "client">>)[h].id = Stream(<<c, "target">>)[i].id
    BY <2>3 DEF StreamInv, Informed
  <2>4. ASSUME NEW c \in Conns, NEW i \in 1..Sent(<<c, "target">>)'
        PROVE  /\ Stream(<<c, "target">>)'[i].heard \in 0..Len(received'[<<c, "target">>])
               /\ Stream(<<c, "target">>)'[i].id # NoId =>
                    \E h \in 1..Stream(<<c, "target">>)'[i].heard :
                      Stream(<<c, "client">>)'[h].id = Stream(<<c, "target">>)'[i].id
    <3>1. i \in 1..Sent(<<c, "target">>)
      BY <2>2, <2>4
    <3> QED  BY <2>1, <2>2, <2>3, <3>1
  <2> QED  BY <2>4 DEF Informed
<1> QED  BY <1>3, <1>4, <1>6 DEF StreamInv

LEMMA Appended ==
  ASSUME Typed, NEW k \in Threads, NEW m \in Kind(k),
         wire' = [wire EXCEPT ![k] = Append(@, m)], UNCHANGED <<msg, received>>
  PROVE  /\ Sent(k) \in Nat /\ Sent(k)' = Sent(k) + 1 /\ Stream(k)'[Sent(k) + 1] = m
         /\ \A i \in 1..Sent(k) : Stream(k)'[i] = Stream(k)[i]
         /\ \A j \in Threads : j # k => Stream(j)' = Stream(j) /\ Sent(j)' = Sent(j)
<1> DEFINE S == Kind(k)
           s == Stream(k)
           t == Stream(k)'
<1>1. s \in Seq(S) /\ Len(s) = Sent(k) /\ Sent(k) \in Nat /\ m \in S
  BY StreamMeans
<1>2. t = Append(s, m) /\ Sent(k)' = Sent(k) + 1
  BY SendingAppends
<1> HIDE DEF S, s, t
<1>3. /\ \A i \in 1..Len(s) : t[i] = s[i]
      /\ t[Len(s) + 1] = m
  BY <1>1, <1>2
<1>4. \A j \in Threads : j # k => Stream(j)' = Stream(j) /\ Sent(j)' = Sent(j)
  BY SendingAppends
<1> QED  BY <1>1, <1>2, <1>3, <1>4 DEF s, t

(* What a target has heard of is in its client's stream.                   *)
LEMMA HeardInStream ==
  ASSUME Typed, NEW c \in Conns
  PROVE  /\ Len(received[<<c, "target">>]) \in Nat /\ Sent(<<c, "client">>) \in Nat
         /\ Len(received[<<c, "target">>]) <= Sent(<<c, "client">>)
         /\ Len(received[<<c, "target">>]) <= Analyzed(<<c, "client">>)
         /\ Analyzed(<<c, "client">>) \in Nat /\ Analyzed(<<c, "client">>) <= Sent(<<c, "client">>)
         /\ \A i \in 1..Len(received[<<c, "target">>]) :
              Stream(<<c, "client">>)[i] = received[<<c, "target">>][i]
<1>1. <<c, "client">> \in Threads /\ Peer(<<c, "client">>) = <<c, "target">>
  BY Peers
<1>2. /\ Len(received[<<c, "target">>]) \in Nat /\ Sent(<<c, "client">>) \in Nat
      /\ Len(received[<<c, "target">>]) <= Sent(<<c, "client">>)
  BY <1>1, Lengths
<1>3. /\ Len(received[<<c, "target">>]) <= Analyzed(<<c, "client">>)
      /\ Analyzed(<<c, "client">>) \in Nat /\ Analyzed(<<c, "client">>) <= Sent(<<c, "client">>)
  BY <1>1, AnalyzedMeans
<1>4. \A i \in 1..Len(received[<<c, "target">>]) :
        Stream(<<c, "client">>)[i] = received[<<c, "target">>][i]
  BY <1>1, StreamMeans
<1> QED  BY <1>2, <1>3, <1>4

LEMMA ClientKeepsStreams ==
  ASSUME Typed, StreamInv, NEW c \in Conns, NEW id \in ClOrdIDs \cup {NoId},
         NEW type \in {"D", "other"}, ClientSends(c, type, id)
  PROVE  StreamInv'
<1> DEFINE k == <<c, "client">>
           m == [conn |-> c, n |-> Sent(k) + 1, type |-> type, id |-> id]
<1>1. /\ Sent(k) < MaxMsgs
      /\ id # NoId => \A i \in DOMAIN Stream(k) : Stream(k)[i].id # id
      /\ wire' = [wire EXCEPT ![k] = Append(@, m)]
      /\ UNCHANGED <<m_order_latency, m_last_client_msg, at, msg, received, measured>>
  BY DEF ClientSends
<1>2. k \in Threads /\ m \in Kind(k)
  BY <1>1, ClientMessage, Peers
<1>3. m.n = Sent(k) + 1 /\ m.id = id
  OBVIOUS
<1> HIDE DEF m
<1>4. PICK n \in Nat : n = Sent(k)
  BY <1>2, StreamMeans
<1>5. /\ Sent(k)' = n + 1 /\ Stream(k)'[n + 1] = m
      /\ \A i \in 1..n : Stream(k)'[i] = Stream(k)[i]
      /\ \A j \in Threads : j # k => Stream(j)' = Stream(j) /\ Sent(j)' = Sent(j)
  BY <1>1, <1>2, <1>4, Appended
<1>6. \A i \in 1..(n + 1) : i \in 1..n \/ i = n + 1
  OBVIOUS
<1>7. DOMAIN Stream(k) = 1..n
  <2> DEFINE s == Stream(k)
             S == Kind(k)
  <2>1. s \in Seq(S) /\ Len(s) = n
    BY <1>2, <1>4, StreamMeans
  <2> HIDE DEF s, S
  <2>2. DOMAIN s = 1..n
    BY <2>1
  <2> QED  BY <2>2 DEF s
<1>8. /\ \A d \in Conns : d # c => <<d, "client">> # k
      /\ \A d \in Conns : <<d, "target">> # k /\ <<d, "target">> \in Threads
                         /\ <<d, "client">> \in Threads
  BY Peers
<1> HIDE DEF k
<1>13. ASSUME NEW d \in Conns
       PROVE  /\ Stream(<<d, "target">>)' = Stream(<<d, "target">>)
              /\ Sent(<<d, "target">>)' = Sent(<<d, "target">>)
              /\ <<d, "client">> # k => Stream(<<d, "client">>)' = Stream(<<d, "client">>)
  <2>1. \A j : j = <<d, "target">> => j \in Threads /\ j # k
    BY <1>8
  <2>2. \A j : j = <<d, "client">> => j \in Threads
    BY <1>8
  <2> QED  BY <1>5, <2>1, <2>2
<1>9. Numbered'
  <2>1. ASSUME NEW j \in Threads, NEW i \in 1..Sent(j)'  PROVE Stream(j)'[i].n = i
    <3>1. CASE j # k
      BY <1>5, <2>1, <3>1 DEF StreamInv, Numbered
    <3>2. CASE j = k /\ i \in 1..n
      BY <1>4, <1>5, <3>2 DEF StreamInv, Numbered
    <3>3. CASE j = k /\ i = n + 1
      BY <1>3, <1>4, <1>5, <3>3
    <3> QED  BY <1>5, <1>6, <2>1, <3>1, <3>2, <3>3
  <2> QED  BY <2>1 DEF Numbered
<1>10. \A i \in 1..n : Stream(k)'[i].id # m.id \/ m.id = NoId
  BY <1>1, <1>3, <1>5, <1>7
<1>11. UsedOnce'
  <2>1. ASSUME NEW d \in Conns, NEW i \in 1..Sent(<<d, "client">>)', NEW j \in 1..Sent(<<d, "client">>)',
               Stream(<<d, "client">>)'[i].id = Stream(<<d, "client">>)'[j].id
        PROVE  i = j \/ Stream(<<d, "client">>)'[i].id = NoId
    <3>1. CASE d # c
      <4>1. \A x : x = <<d, "client">> => x \in Threads /\ x # k
        BY <1>8, <3>1
      <4>2. /\ Stream(<<d, "client">>)' = Stream(<<d, "client">>)
            /\ Sent(<<d, "client">>)' = Sent(<<d, "client">>)
        BY <1>5, <4>1
      <4> QED  BY <2>1, <4>2 DEF StreamInv, UsedOnce
    <3>2. CASE d = c
      <4>1. <<d, "client">> = k
        BY <3>2 DEF k
      <4>2. (i \in 1..n \/ i = n + 1) /\ (j \in 1..n \/ j = n + 1)
        BY <1>5, <1>6, <2>1, <4>1
      <4>3. CASE i \in 1..n /\ j \in 1..n
        <5>1. Stream(k)[i].id = Stream(k)[j].id => i = j \/ Stream(k)[i].id = NoId
          BY <1>4, <4>1, <4>3 DEF StreamInv, UsedOnce
        <5> QED  BY <1>5, <2>1, <4>1, <4>3, <5>1
      <4>4. CASE i = n + 1 /\ j \in 1..n
        BY <1>5, <1>10, <2>1, <4>1, <4>4
      <4>5. CASE i \in 1..n /\ j = n + 1
        BY <1>5, <1>10, <2>1, <4>1, <4>5
      <4> QED  BY <4>2, <4>3, <4>4, <4>5
    <3> QED  BY <3>1, <3>2
  <2> QED  BY <2>1 DEF UsedOnce
<1>12. Informed'
  <2>1. ASSUME NEW d \in Conns, NEW i \in 1..Sent(<<d, "target">>), Stream(<<d, "target">>)[i].id # NoId
        PROVE  \E j \in 1..Stream(<<d, "target">>)[i].heard :
                 Stream(<<d, "client">>)'[j].id = Stream(<<d, "target">>)[i].id
    <3>1. PICK j \in 1..Stream(<<d, "target">>)[i].heard :
            Stream(<<d, "client">>)[j].id = Stream(<<d, "target">>)[i].id
      BY <2>1 DEF StreamInv, Informed
    <3>2. PICK a \in Nat, b \in Nat : a = Len(received[<<d, "target">>]) /\ b = Sent(<<d, "client">>)
      BY HeardInStream
    <3>3. Stream(<<d, "target">>)[i].heard \in 0..a
      BY <3>2 DEF StreamInv, Informed
    <3>4. a <= b
      BY <3>2, HeardInStream
    <3>5. j \in 1..b
      BY <3>3, <3>4
    <3>6. Stream(<<d, "client">>)'[j] = Stream(<<d, "client">>)[j]
      <4>1. CASE <<d, "client">> = k
        <5>1. j \in 1..n
          BY <1>4, <3>2, <3>5, <4>1
        <5> QED  BY <1>5, <4>1, <5>1
      <4>2. CASE <<d, "client">> # k
        BY <1>13, <4>2
      <4> QED  BY <4>1, <4>2
    <3> QED  BY <3>1, <3>6
  <2>2. \A d \in Conns : \A i \in 1..Sent(<<d, "target">>) :
          Stream(<<d, "target">>)[i].heard \in 0..Len(received'[<<d, "target">>])
    BY <1>1 DEF StreamInv, Informed
  <2>3. ASSUME NEW d \in Conns, NEW i \in 1..Sent(<<d, "target">>)'
        PROVE  /\ Stream(<<d, "target">>)'[i].heard \in 0..Len(received'[<<d, "target">>])
               /\ Stream(<<d, "target">>)'[i].id # NoId =>
                    \E j \in 1..Stream(<<d, "target">>)'[i].heard :
                      Stream(<<d, "client">>)'[j].id = Stream(<<d, "target">>)'[i].id
    <3>1. i \in 1..Sent(<<d, "target">>) /\ Stream(<<d, "target">>)' = Stream(<<d, "target">>)
      BY <1>13, <2>3
    <3> QED  BY <2>1, <2>2, <3>1
  <2> QED  BY <2>3 DEF Informed
<1> QED  BY <1>9, <1>11, <1>12 DEF StreamInv

LEMMA TargetKeepsStreams ==
  ASSUME Typed, StreamInv, NEW c \in Conns, NEW id \in ClOrdIDs \cup {NoId},
         NEW type \in {"8", "other"}, TargetSends(c, type, id)
  PROVE  StreamInv'
<1> DEFINE k == <<c, "target">>
           m == [conn |-> c, n |-> Sent(k) + 1, type |-> type, id |-> id,
                 heard |-> Len(received[k])]
<1>1. /\ Sent(k) < MaxMsgs
      /\ id # NoId => \E i \in DOMAIN received[k] : received[k][i].id = id
      /\ wire' = [wire EXCEPT ![k] = Append(@, m)]
      /\ UNCHANGED <<m_order_latency, m_last_client_msg, at, msg, received, measured>>
  BY DEF TargetSends
<1>2. k \in Threads /\ m \in Kind(k)
  BY <1>1, TargetMessage, Peers
<1>3. m.n = Sent(k) + 1 /\ m.id = id /\ m.heard = Len(received[k])
  OBVIOUS
<1> HIDE DEF m
<1>4. PICK n \in Nat : n = Sent(k)
  BY <1>2, StreamMeans
<1>5. /\ Sent(k)' = n + 1 /\ Stream(k)'[n + 1] = m
      /\ \A i \in 1..n : Stream(k)'[i] = Stream(k)[i]
      /\ \A j \in Threads : j # k => Stream(j)' = Stream(j) /\ Sent(j)' = Sent(j)
  BY <1>1, <1>2, <1>4, Appended
<1>6. \A i \in 1..(n + 1) : i \in 1..n \/ i = n + 1
  OBVIOUS
<1>7. \A d \in Conns : d # c => <<d, "target">> # k
  OBVIOUS
<1>8. \A d \in Conns : <<d, "client">> # k /\ <<d, "target">> \in Threads
                      /\ <<d, "client">> \in Threads
  BY Peers
<1>9. PICK h \in Nat : h = Len(received[k]) /\ DOMAIN received[k] = 1..h
  <2> DEFINE r == received[k]
             S == Kind(Peer(k))
  <2>1. r \in Seq(S)
    BY <1>2, Peers DEF Typed, Flowing
  <2> HIDE DEF r, S
  <2>2. Len(r) \in Nat /\ DOMAIN r = 1..Len(r)
    BY <2>1
  <2> QED  BY <2>2 DEF r
<1>10. m.id # NoId => \E j \in 1..h : Stream(<<c, "client">>)[j].id = m.id
  BY <1>1, <1>3, <1>9, HeardInStream
<1> HIDE DEF k
<1>11. Numbered'
  <2>1. ASSUME NEW j \in Threads, NEW i \in 1..Sent(j)'  PROVE Stream(j)'[i].n = i
    <3>1. CASE j # k
      BY <1>5, <2>1, <3>1 DEF StreamInv, Numbered
    <3>2. CASE j = k /\ i \in 1..n
      BY <1>4, <1>5, <3>2 DEF StreamInv, Numbered
    <3>3. CASE j = k /\ i = n + 1
      BY <1>3, <1>4, <1>5, <3>3
    <3> QED  BY <1>5, <1>6, <2>1, <3>1, <3>2, <3>3
  <2> QED  BY <2>1 DEF Numbered
<1>12. UsedOnce'
  <2>1. ASSUME NEW d \in Conns
        PROVE  /\ Stream(<<d, "client">>)' = Stream(<<d, "client">>)
               /\ Sent(<<d, "client">>)' = Sent(<<d, "client">>)
    <3>1. \A j : j = <<d, "client">> => j \in Threads /\ j # k
      BY <1>8
    <3> QED  BY <1>5, <3>1
  <2> QED  BY <2>1 DEF StreamInv, UsedOnce
<1>13. Informed'
  <2>1. ASSUME NEW d \in Conns, NEW i \in 1..Sent(<<d, "target">>)'
        PROVE  /\ Stream(<<d, "target">>)'[i].heard \in 0..Len(received[<<d, "target">>])
               /\ Stream(<<d, "target">>)'[i].id # NoId =>
                    \E j \in 1..Stream(<<d, "target">>)'[i].heard :
                      Stream(<<d, "client">>)[j].id = Stream(<<d, "target">>)'[i].id
    <3>1. CASE <<d, "target">> # k
      BY <1>5, <1>8, <2>1, <3>1 DEF StreamInv, Informed
    <3>2. CASE <<d, "target">> = k /\ i \in 1..n
      <4>1. i \in 1..Sent(<<d, "target">>) /\ Stream(<<d, "target">>)'[i] = Stream(<<d, "target">>)[i]
        BY <1>4, <1>5, <3>2
      <4> QED  BY <4>1 DEF StreamInv, Informed
    <3>3. CASE <<d, "target">> = k /\ i = n + 1
      <4>1. d = c /\ Stream(<<d, "target">>)'[i] = m
        BY <1>5, <1>7, <3>3
      <4>2. m.heard = h /\ Len(received[<<d, "target">>]) = h
        BY <1>3, <1>9, <3>3
      <4>3. h \in 0..h
        OBVIOUS
      <4> QED  BY <1>10, <4>1, <4>2, <4>3
    <3> QED  BY <1>5, <1>6, <2>1, <3>1, <3>2, <3>3
  <2>2. ASSUME NEW d \in Conns
        PROVE  Stream(<<d, "client">>)' = Stream(<<d, "client">>)
    <3>1. \A j : j = <<d, "client">> => j \in Threads /\ j # k
      BY <1>8
    <3> QED  BY <1>5, <3>1
  <2>3. received' = received
    BY <1>1
  <2> QED  BY <2>1, <2>2, <2>3 DEF Informed
<1> QED  BY <1>11, <1>12, <1>13 DEF StreamInv

(* Nothing is registered or measured, and what is past the registry had    *)
(* nothing to do there.                                                    *)
LEMMA NothingNew ==
  ASSUME Typed, OrderInv, UNCHANGED m_order_latency, Orders' = Orders,
         \A k \in Threads : \A i \in 1..Analyzed(k) :
           i \in 1..Analyzed(k)' /\ Stream(k)'[i] = Stream(k)[i],
         \A k \in Threads : \A i \in 1..Analyzed(k)' :
           \/ i \in 1..Analyzed(k)
           \/ Outbound(k) /\ Stream(k)'[i].id = NoId
           \/ ~Outbound(k) /\ Stream(k)'[i].id \notin DOMAIN m_order_latency
  PROVE  OrderInv'
<1>1. ASSUME NEW c \in Conns
      PROVE  /\ \A i \in 1..Analyzed(<<c, "client">>) :
                  /\ i \in 1..Analyzed(<<c, "client">>)'
                  /\ Stream(<<c, "client">>)'[i] = Stream(<<c, "client">>)[i]
             /\ \A i \in 1..Analyzed(<<c, "client">>)' :
                  i \in 1..Analyzed(<<c, "client">>) \/ Stream(<<c, "client">>)'[i].id = NoId
  <2>1. \A k : k = <<c, "client">> => k \in Threads /\ Outbound(k)
    BY Peers
  <2> QED  BY <2>1
<1>2. ASSUME NEW c \in Conns
      PROVE  /\ \A i \in 1..Analyzed(<<c, "target">>) :
                  Stream(<<c, "target">>)'[i] = Stream(<<c, "target">>)[i]
             /\ \A i \in 1..Analyzed(<<c, "target">>)' :
                  \/ i \in 1..Analyzed(<<c, "target">>)
                  \/ Stream(<<c, "target">>)'[i].id \notin DOMAIN m_order_latency
  <2>1. \A k : k = <<c, "target">> => k \in Threads /\ ~Outbound(k)
    BY Peers
  <2> QED  BY <2>1
<1>3. \A c \in Conns : \A m : Analyzes(c, m) => Analyzes(c, m)'
  <2>1. ASSUME NEW c \in Conns, NEW m, Analyzes(c, m)  PROVE Analyzes(c, m)'
    <3>1. PICK i \in 1..Analyzed(<<c, "client">>) : Stream(<<c, "client">>)[i] = m
      BY <2>1 DEF Analyzes
    <3>2. i \in 1..Analyzed(<<c, "client">>)' /\ Stream(<<c, "client">>)'[i] = m
      BY <1>1, <3>1
    <3> QED  BY <3>2 DEF Analyzes
  <2> QED  BY <2>1
<1>4. RegistryOfOrders'
  BY <1>3 DEF OrderInv, RegistryOfOrders
<1>5. MeasuredOfOrders'
  BY <1>3 DEF OrderInv, MeasuredOfOrders, OrderLatencyExact
<1>6. \A id : (NotMeasured(id)' <=> NotMeasured(id)) /\ (MeasuredOnce(id)' <=> MeasuredOnce(id))
  BY DEF NotMeasured, MeasuredOnce
<1>7. Settled'
  <2>1. ASSUME NEW c \in Conns, NEW i \in 1..Analyzed(<<c, "client">>)',
               NEW id, id = Stream(<<c, "client">>)'[i].id, id # NoId
        PROVE  IF id \in DOMAIN m_order_latency THEN NotMeasured(id) ELSE MeasuredOnce(id)
    <3>1. i \in 1..Analyzed(<<c, "client">>) /\ id = Stream(<<c, "client">>)[i].id
      BY <1>1, <2>1
    <3> QED  BY <2>1, <3>1 DEF OrderInv, Settled
  <2> QED  BY <1>6, <2>1 DEF Settled
<1>8. Unregistered'
  BY <1>2 DEF OrderInv, Unregistered
<1> QED  BY <1>4, <1>5, <1>7, <1>8 DEF OrderInv

LEMMA SendingKeepsOrders ==
  ASSUME Typed, OrderInv, NEW k \in Threads, NEW m \in Kind(k),
         wire' = [wire EXCEPT ![k] = Append(@, m)],
         UNCHANGED <<m_order_latency, at, msg, received, measured>>
  PROVE  OrderInv'
<1>1. \A j \in Threads : Analyzed(j)' = Analyzed(j)
  BY DEF Analyzed
<1>2. Orders' = Orders
  BY DEF Orders
<1>3. ASSUME NEW j \in Threads, NEW i \in 1..Analyzed(j)
      PROVE  Stream(j)'[i] = Stream(j)[i]
  <2>1. CASE j # k
    BY <2>1, Appended
  <2>2. CASE j = k
    <3>1. Analyzed(k) \in Nat /\ Sent(k) \in Nat /\ Analyzed(k) <= Sent(k)
      BY AnalyzedMeans, Lengths
    <3>2. i \in 1..Sent(k)
      BY <2>2, <3>1
    <3> QED  BY <2>2, <3>2, Appended
  <2> QED  BY <2>1, <2>2
<1> QED  BY <1>1, <1>2, <1>3, NothingNew

(* What a thread that moves on leaves behind.                              *)
LEMMA AnalyzedMoves ==
  ASSUME Typed, Typed', NEW k \in Threads, NEW a, at' = [at EXCEPT ![k] = a],
         UNCHANGED received
  PROVE  /\ \A j \in Threads : j # k => Analyzed(j)' = Analyzed(j)
         /\ at[k] \in {"recv", "registry"} /\ a \in {"last", "send"} =>
              /\ Analyzed(k) = Len(received[Peer(k)])
              /\ Analyzed(k)' = Analyzed(k) + 1 /\ Analyzed(k) \in Nat
         /\ at[k] = "recv" /\ a = "registry" => Analyzed(k)' = Analyzed(k)
         /\ at[k] = "last" /\ a = "send" => Analyzed(k)' = Analyzed(k)
<1>1. at'[k] = a /\ \A j \in Threads : j # k => at'[j] = at[j]
  BY DEF Typed
<1>2. PICK n \in Nat : n = Len(received[Peer(k)])
  BY Lengths
<1>3. \A j \in Threads : j # k => Analyzed(j)' = Analyzed(j)
  BY <1>1 DEF Analyzed
<1>4. /\ Analyzed(k) = n + IF at[k] \in {"last", "send"} THEN 1 ELSE 0
      /\ Analyzed(k)' = n + IF a \in {"last", "send"} THEN 1 ELSE 0
  BY <1>1, <1>2 DEF Analyzed
<1>5. ASSUME at[k] \in {"recv", "registry"}, a \in {"last", "send"}
      PROVE  Analyzed(k) = n /\ Analyzed(k)' = n + 1
  BY <1>4, <1>5
<1>6. ASSUME at[k] = "recv", a = "registry"  PROVE Analyzed(k)' = Analyzed(k)
  BY <1>4, <1>6
<1>7. ASSUME at[k] = "last", a = "send"  PROVE Analyzed(k)' = Analyzed(k)
  BY <1>4, <1>7
<1> QED  BY <1>2, <1>3, <1>5, <1>6, <1>7

LEMMA ReadKeepsOrders ==
  ASSUME Typed, Typed', OrderInv, NEW k \in Threads, Read(k)
  PROVE  OrderInv'
<1>1. /\ at[k] = "recv" /\ wire[k] # <<>>
      /\ at' = [at EXCEPT ![k] = IF Head(wire[k]).id = NoId THEN "last" ELSE "registry"]
      /\ UNCHANGED <<m_order_latency, received, measured>>
  BY DEF Read
<1>2. Orders' = Orders
  BY <1>1 DEF Orders
<1>3. \A j \in Threads : Stream(j)' = Stream(j)
  BY MovesAlong
<1>4. \A j \in Threads : j # k => Analyzed(j)' = Analyzed(j)
  BY <1>1, AnalyzedMoves
<1>5. CASE Head(wire[k]).id # NoId
  <2>1. Analyzed(k)' = Analyzed(k)
    <3>1. at' = [at EXCEPT ![k] = "registry"]
      BY <1>1, <1>5
    <3> QED  BY <1>1, <3>1, AnalyzedMoves
  <2>2. \A j \in Threads : Analyzed(j)' = Analyzed(j)
    BY <1>4, <2>1
  <2> QED  BY <1>1, <1>2, <1>3, <2>2, NothingNew
<1>6. CASE Head(wire[k]).id = NoId
  <2>1. PICK n \in Nat : n = Analyzed(k) /\ Analyzed(k)' = n + 1 /\ n = Len(received[Peer(k)])
    BY <1>1, <1>6, AnalyzedMoves
  <2>2. Stream(k)[n + 1] = Head(wire[k])
    BY <1>1, <2>1, StreamMeans
  <2>3. Stream(k)'[n + 1].id = NoId /\ NoId \notin DOMAIN m_order_latency
    BY <1>3, <1>6, <2>2, LatencyAssumption DEF Typed
  <2>4. \A i \in 1..(n + 1) : i \in 1..n \/ i = n + 1
    OBVIOUS
  <2>5. \A i \in 1..n : i \in 1..(n + 1)
    OBVIOUS
  <2>6. ASSUME NEW j \in Threads, NEW i \in 1..Analyzed(j)
        PROVE  i \in 1..Analyzed(j)' /\ Stream(j)'[i] = Stream(j)[i]
    BY <1>3, <1>4, <2>1, <2>5, <2>6
  <2>7. ASSUME NEW j \in Threads, NEW i \in 1..Analyzed(j)'
        PROVE  \/ i \in 1..Analyzed(j)
               \/ Outbound(j) /\ Stream(j)'[i].id = NoId
               \/ ~Outbound(j) /\ Stream(j)'[i].id \notin DOMAIN m_order_latency
    BY <1>4, <2>1, <2>3, <2>4, <2>7
  <2> QED  BY <1>1, <1>2, <2>6, <2>7, NothingNew
<1> QED  BY <1>5, <1>6

LEMMA SendKeepsOrders ==
  ASSUME Typed, Typed', OrderInv, NEW k \in Threads, Send(k)
  PROVE  OrderInv'
<1>1. /\ at[k] = "send" /\ UNCHANGED <<m_order_latency, measured>>
      /\ received' = [received EXCEPT ![Peer(k)] = Append(@, The(k))]
      /\ at' = [at EXCEPT ![k] = "recv"]
  BY DEF Send
<1>2. Orders' = Orders
  BY <1>1 DEF Orders
<1>3. \A j \in Threads : Stream(j)' = Stream(j)
  BY MovesAlong
<1>4. \A j \in Threads : j # k => Analyzed(j)' = Analyzed(j)
  <2>1. ASSUME NEW j \in Threads, j # k  PROVE Analyzed(j)' = Analyzed(j)
    <3>1. Peer(j) # Peer(k) /\ Peer(j) \in Threads
      BY <2>1, Peers
    <3>2. at'[j] = at[j] /\ received'[Peer(j)] = received[Peer(j)]
      BY <1>1, <2>1, <3>1 DEF Typed
    <3> QED  BY <3>2 DEF Analyzed
  <2> QED  BY <2>1
<1>5. Analyzed(k)' = Analyzed(k)
  <2> DEFINE S == Kind(k)
             r == received[Peer(k)]
  <2>1. r \in Seq(S) /\ The(k) \in S
    BY <1>1, AtHand DEF Typed, Flowing
  <2>2. received'[Peer(k)] = Append(r, The(k)) /\ at'[k] = "recv"
    BY <1>1, Peers DEF Typed
  <2> HIDE DEF S, r
  <2>3. Len(Append(r, The(k))) = Len(r) + 1 /\ Len(r) \in Nat
    BY <2>1
  <2>4. Analyzed(k)' = (Len(r) + 1) + 0
    BY <2>2, <2>3 DEF Analyzed
  <2>5. Analyzed(k) = Len(r) + 1
    BY <1>1 DEF Analyzed, r
  <2> QED  BY <2>3, <2>4, <2>5
<1>6. \A j \in Threads : Analyzed(j)' = Analyzed(j)
  BY <1>4, <1>5
<1> QED  BY <1>1, <1>2, <1>3, <1>6, NothingNew

LEMMA OthersKeepOrders ==
  ASSUME Typed, Typed', OrderInv, NEW k \in Threads,
         OrderUnknown(k) \/ RememberLast(k) \/ MeasureRoundtrip(k)
  PROVE  OrderInv'
<1>1. UNCHANGED <<m_order_latency, received>>
  BY DEF OrderUnknown, RememberLast, MeasureRoundtrip
<1>2. \A j \in Threads : Stream(j)' = Stream(j)
  BY MovesAlong DEF Analyze
<1>3. Orders' = Orders
  <2>1. CASE UNCHANGED measured
    BY <2>1 DEF Orders
  <2>2. ASSUME NEW request, Report("roundtrip", request, k)  PROVE Orders' = Orders
    <3> DEFINE l == [kind |-> "roundtrip", request |-> request, response |-> The(k)]
    <3>1. measured' = measured \cup {l} /\ l.kind = "roundtrip"
      BY <2>2 DEF Report
    <3> HIDE DEF l
    <3> QED  BY <3>1 DEF Orders
  <2> QED  BY <2>1, <2>2 DEF OrderUnknown, RememberLast, MeasureRoundtrip
<1>4. CASE OrderUnknown(k)
  <2>1. /\ at[k] = "registry" /\ ~Outbound(k) /\ ~Known(k) /\ at' = [at EXCEPT ![k] = "last"]
    BY <1>4 DEF OrderUnknown
  <2>2. \A j \in Threads : j # k => Analyzed(j)' = Analyzed(j)
    BY <1>1, <2>1, AnalyzedMoves
  <2>3. PICK n \in Nat : n = Analyzed(k) /\ Analyzed(k)' = n + 1 /\ n = Len(received[Peer(k)])
    BY <1>1, <2>1, AnalyzedMoves
  <2>4. Stream(k)'[n + 1].id \notin DOMAIN m_order_latency
    <3>1. Stream(k)[n + 1] = The(k)
      BY <2>1, <2>3, StreamMeans
    <3> QED  BY <1>2, <2>1, <3>1 DEF Known
  <2>5. \A i \in 1..(n + 1) : i \in 1..n \/ i = n + 1
    OBVIOUS
  <2>6. \A i \in 1..n : i \in 1..(n + 1)
    OBVIOUS
  <2>7. ASSUME NEW j \in Threads, NEW i \in 1..Analyzed(j)
        PROVE  i \in 1..Analyzed(j)' /\ Stream(j)'[i] = Stream(j)[i]
    BY <1>2, <2>2, <2>3, <2>6, <2>7
  <2>8. ASSUME NEW j \in Threads, NEW i \in 1..Analyzed(j)'
        PROVE  \/ i \in 1..Analyzed(j)
               \/ Outbound(j) /\ Stream(j)'[i].id = NoId
               \/ ~Outbound(j) /\ Stream(j)'[i].id \notin DOMAIN m_order_latency
    BY <2>1, <2>2, <2>3, <2>4, <2>5, <2>8
  <2> QED  BY <1>1, <1>3, <2>7, <2>8, NothingNew
<1>5. CASE RememberLast(k) \/ MeasureRoundtrip(k)
  <2>1. at[k] = "last" /\ at' = [at EXCEPT ![k] = "send"]
    BY <1>5 DEF RememberLast, MeasureRoundtrip
  <2>2. \A j \in Threads : Analyzed(j)' = Analyzed(j)
    <3>1. \A j \in Threads : j # k => Analyzed(j)' = Analyzed(j)
      BY <1>1, <2>1, AnalyzedMoves
    <3>2. Analyzed(k)' = Analyzed(k)
      BY <1>1, <2>1, AnalyzedMoves
    <3> QED  BY <3>1, <3>2
  <2> QED  BY <1>1, <1>2, <1>3, <2>2, NothingNew
<1> QED  BY <1>4, <1>5

(* What a target reports was analyzed on its way there.                    *)
LEMMA ReportedWasAnalyzed ==
  ASSUME Typed, Informed, NEW c \in Conns, NEW i \in 1..Sent(<<c, "target">>),
         Stream(<<c, "target">>)[i].id # NoId
  PROVE  \E j \in 1..Analyzed(<<c, "client">>) :
           /\ j \in 1..Sent(<<c, "client">>) /\ j <= Stream(<<c, "target">>)[i].heard
           /\ Stream(<<c, "client">>)[j].id = Stream(<<c, "target">>)[i].id
<1>1. PICK h \in 0..Len(received[<<c, "target">>]) : h = Stream(<<c, "target">>)[i].heard
  BY DEF Informed
<1>2. PICK j \in 1..h : Stream(<<c, "client">>)[j].id = Stream(<<c, "target">>)[i].id
  BY <1>1 DEF Informed
<1>3. PICK r \in Nat, a \in Nat, n \in Nat :
        /\ r = Len(received[<<c, "target">>]) /\ a = Analyzed(<<c, "client">>)
        /\ n = Sent(<<c, "client">>) /\ r <= a /\ a <= n
  BY HeardInStream
<1>4. j \in 1..a /\ j \in 1..n /\ j <= h
  BY <1>1, <1>3
<1> QED  BY <1>1, <1>2, <1>3, <1>4

(* An order is registered: no other order had its identifier, so nothing   *)
(* was measured for it and no report of it has come.                       *)
LEMMA RegisterKeepsOrders ==
  ASSUME Typed, Typed', StreamInv, OrderInv, OwnIds, NEW k \in Threads, Register(k)
  PROVE  OrderInv'
<1>0. PICK m \in ClientMsg, id \in ClOrdIDs : m = The(k) /\ id = The(k).id
  <2>1. at[k] = "registry" /\ Outbound(k)
    BY DEF Register
  <2>2. The(k) \in ClientMsg
    BY <2>1, AtHand DEF Kind
  <2>3. The(k).id \in ClOrdIDs
    BY <2>1, AtHand DEF Typed, Flowing
  <2> QED  BY <2>2, <2>3
<1>1. /\ at[k] = "registry" /\ Outbound(k) /\ at' = [at EXCEPT ![k] = "last"]
      /\ m_order_latency' =
           [i \in DOMAIN m_order_latency \cup {id} |->
              IF i = id THEN m ELSE m_order_latency[i]]
      /\ UNCHANGED <<received, measured>>
  BY <1>0 DEF Register
<1>2. PICK b \in Conns : k = <<b, "client">>
  BY <1>1, Peers
<1>3. m.id = id /\ id # NoId
  BY <1>0, LatencyAssumption
<1>4. /\ DOMAIN m_order_latency' = DOMAIN m_order_latency \cup {id}
      /\ m_order_latency'[id] = m
      /\ \A i \in DOMAIN m_order_latency : i # id => m_order_latency'[i] = m_order_latency[i]
  BY <1>1
<1>5. \A j \in Threads : Stream(j)' = Stream(j) /\ Sent(j)' = Sent(j)
  BY MovesAlong DEF Analyze
<1>6. \A j \in Threads : j # k => Analyzed(j)' = Analyzed(j)
  BY <1>1, AnalyzedMoves
<1>7. PICK n \in Nat : n = Analyzed(k) /\ Analyzed(k)' = n + 1 /\ n = Len(received[Peer(k)])
  BY <1>1, AnalyzedMoves
<1>8. Stream(k)[n + 1] = m /\ n + 1 \in 1..Sent(k)
  <2>1. Stream(k)[n + 1] = m
    BY <1>0, <1>1, <1>7, StreamMeans
  <2>2. PICK u \in Nat : u = Sent(k) /\ n + 1 <= u
    BY <1>1, <1>7, StreamMeans
  <2> QED  BY <2>1, <2>2
<1>9. \A i \in 1..(n + 1) : i \in 1..n \/ i = n + 1
  OBVIOUS
(* No order analyzed so far has this identifier. *)
<1>10. ASSUME NEW c \in Conns, NEW i \in 1..Analyzed(<<c, "client">>)
       PROVE  Stream(<<c, "client">>)[i].id # id
  <2> SUFFICES ASSUME Stream(<<c, "client">>)[i].id = id  PROVE FALSE
    OBVIOUS
  <2>1. i \in 1..Sent(<<c, "client">>)
    <3>1. PICK a \in Nat, t \in Nat :
            a = Analyzed(<<c, "client">>) /\ t = Sent(<<c, "client">>) /\ a <= t
      BY HeardInStream
    <3> QED  BY <3>1
  <2>2. PICK p \in 1..Sent(<<b, "client">>) : p = n + 1 /\ Stream(<<b, "client">>)[p].id = id
    BY <1>2, <1>3, <1>8
  <2>3. UsedOnce
    BY DEF StreamInv
  <2>4. c = b /\ i = p
    <3>1. /\ Stream(<<c, "client">>)[i].id = Stream(<<b, "client">>)[p].id
          /\ Stream(<<c, "client">>)[i].id # NoId
      BY <1>3, <2>2
    <3>2. c = b
      BY <2>1, <3>1 DEF OwnIds
    <3> QED  BY <2>1, <2>3, <3>1, <3>2 DEF UsedOnce
  <2>5. n + 1 \notin 1..n
    OBVIOUS
  <2> QED  BY <1>2, <1>7, <2>2, <2>4, <2>5
<1>11. \A c \in Conns : \A x : Analyzes(c, x) => Analyzes(c, x)'
  <2>1. ASSUME NEW c \in Conns, NEW x, Analyzes(c, x)  PROVE Analyzes(c, x)'
    <3>1. PICK i \in 1..Analyzed(<<c, "client">>) : Stream(<<c, "client">>)[i] = x
      BY <2>1 DEF Analyzes
    <3>2. i \in 1..Analyzed(<<c, "client">>)'
      <4>1. CASE <<c, "client">> = k
        <5>1. \A y \in 1..n : y \in 1..(n + 1)
          OBVIOUS
        <5> QED  BY <1>7, <3>1, <4>1, <5>1
      <4>2. CASE <<c, "client">> # k
        <5>1. \A j : j = <<c, "client">> => j \in Threads
          BY Peers
        <5> QED  BY <1>6, <4>2, <5>1
      <4> QED  BY <4>1, <4>2
    <3>3. Stream(<<c, "client">>)' = Stream(<<c, "client">>)
      BY <1>5, Peers
    <3> QED  BY <3>1, <3>2, <3>3 DEF Analyzes
  <2> QED  BY <2>1
<1>12. Analyzes(b, m)'
  <2>1. n + 1 \in 1..(n + 1)
    OBVIOUS
  <2>2. n + 1 \in 1..Analyzed(<<b, "client">>)' /\ Stream(<<b, "client">>)'[n + 1] = m
    BY <1>2, <1>5, <1>7, <1>8, <2>1
  <2> QED  BY <2>2 DEF Analyzes
<1>13. RegistryOfOrders'
  <2>1. ASSUME NEW i \in DOMAIN m_order_latency', NEW x, x = m_order_latency'[i]
        PROVE  x.id = i /\ \E c \in Conns : Analyzes(c, x)'
    <3>1. CASE i = id
      BY <1>3, <1>4, <1>12, <2>1, <3>1
    <3>2. CASE i # id
      <4>1. i \in DOMAIN m_order_latency /\ x = m_order_latency[i]
        BY <1>4, <2>1, <3>2
      <4> QED  BY <1>11, <4>1 DEF OrderInv, RegistryOfOrders
    <3> QED  BY <3>1, <3>2
  <2> QED  BY <2>1 DEF RegistryOfOrders, Analyzes
<1>14. MeasuredOfOrders'
  BY <1>1, <1>11 DEF OrderInv, MeasuredOfOrders, OrderLatencyExact, Orders
<1>15. \A i : (NotMeasured(i)' <=> NotMeasured(i)) /\ (MeasuredOnce(i)' <=> MeasuredOnce(i))
  BY <1>1 DEF NotMeasured, MeasuredOnce, Orders
<1>16. NotMeasured(id)
  <2>1. ASSUME NEW l \in Orders, l.response.id = id  PROVE FALSE
    <3>1. l.request.id = id
      BY <2>1 DEF OrderInv, MeasuredOfOrders, OrderLatencyExact
    <3>2. PICK c \in Conns : Analyzes(c, l.request)
      BY DEF OrderInv, MeasuredOfOrders
    <3> QED  BY <1>10, <3>1, <3>2 DEF Analyzes
  <2> QED  BY <2>1 DEF NotMeasured
<1>17. Settled'
  <2>1. ASSUME NEW c \in Conns, NEW i \in 1..Analyzed(<<c, "client">>)',
               NEW x, x = Stream(<<c, "client">>)[i].id, x # NoId
        PROVE  IF x \in DOMAIN m_order_latency' THEN NotMeasured(x) ELSE MeasuredOnce(x)
    <3>1. CASE i \in 1..Analyzed(<<c, "client">>)
      <4>1. x # id
        BY <1>10, <2>1, <3>1
      <4>2. IF x \in DOMAIN m_order_latency THEN NotMeasured(x) ELSE MeasuredOnce(x)
        BY <2>1, <3>1 DEF OrderInv, Settled
      <4> QED  BY <1>4, <4>1, <4>2
    <3>2. CASE i \notin 1..Analyzed(<<c, "client">>)
      <4>1. <<c, "client">> = k
        <5>1. \A j : j = <<c, "client">> => j \in Threads
          BY Peers
        <5> QED  BY <1>6, <2>1, <3>2, <5>1
      <4>2. i = n + 1
        BY <1>7, <1>9, <2>1, <3>2, <4>1
      <4> QED  BY <1>3, <1>4, <1>8, <1>16, <2>1, <4>1, <4>2
    <3> QED  BY <3>1, <3>2
  <2>2. \A c \in Conns : Stream(<<c, "client">>)' = Stream(<<c, "client">>)
    BY <1>5, Peers
  <2> QED  BY <1>15, <2>1, <2>2 DEF Settled
<1>18. Unregistered'
  <2>1. ASSUME NEW c \in Conns, NEW i \in 1..Analyzed(<<c, "target">>)
        PROVE  Stream(<<c, "target">>)[i].id \notin DOMAIN m_order_latency'
    <3>1. Stream(<<c, "target">>)[i].id \notin DOMAIN m_order_latency
      BY DEF OrderInv, Unregistered
    <3>2. Stream(<<c, "target">>)[i].id # id
      <4> SUFFICES ASSUME Stream(<<c, "target">>)[i].id = id  PROVE FALSE
        OBVIOUS
      <4>1. i \in 1..Sent(<<c, "target">>)
        <5>1. PICK a \in Nat, t \in Nat :
                a = Analyzed(<<c, "target">>) /\ t = Sent(<<c, "target">>) /\ a <= t
          BY Peers, AnalyzedMeans, Lengths
        <5> QED  BY <5>1
      <4> QED  BY <1>3, <1>10, <4>1, ReportedWasAnalyzed DEF StreamInv
    <3> QED  BY <1>4, <3>1, <3>2
  <2>2. ASSUME NEW c \in Conns
        PROVE  /\ Stream(<<c, "target">>)' = Stream(<<c, "target">>)
               /\ Analyzed(<<c, "target">>)' = Analyzed(<<c, "target">>)
    <3>1. \A j : j = <<c, "target">> => j \in Threads /\ j # k
      BY <1>2, Peers
    <3> QED  BY <1>5, <1>6, <3>1
  <2> QED  BY <2>1, <2>2 DEF Unregistered
<1> QED  BY <1>13, <1>14, <1>17, <1>18 DEF OrderInv

(* A report ends an order: the request is the order with its identifier    *)
(* and went to this target before the report was sent, and nothing had     *)
(* been measured for it.                                                   *)
LEMMA MeasureKeepsOrders ==
  ASSUME Typed, Typed', StreamInv, OrderInv, OwnIds, NEW k \in Threads, MeasureOrder(k)
  PROVE  OrderInv'
<1>1. /\ at[k] = "registry" /\ ~Outbound(k) /\ Known(k) /\ at' = [at EXCEPT ![k] = "send"]
      /\ UNCHANGED received
  BY DEF MeasureOrder
<1>2. PICK m \in TargetMsg, id \in ClOrdIDs : m = The(k) /\ id = The(k).id
  <2>1. The(k) \in TargetMsg
    BY <1>1, AtHand DEF Kind
  <2>2. The(k).id \in ClOrdIDs
    BY <1>1, AtHand DEF Typed, Flowing
  <2> QED  BY <2>1, <2>2
<1>3. id \in DOMAIN m_order_latency /\ m.id = id /\ id # NoId
  BY <1>1, <1>2, LatencyAssumption DEF Known
<1>4. PICK request \in ClientMsg : request = m_order_latency[id]
  BY <1>3 DEF Typed, Registry
<1>5. PICK l : l = [kind |-> "order", request |-> request, response |-> m]
  OBVIOUS
<1>6. l.kind = "order" /\ l.request = request /\ l.response = m /\ l.response.id = id
  BY <1>3, <1>5
<1>7. Orders' = Orders \cup {l}
  <2>1. measured' = measured \cup {l}
    BY <1>2, <1>4, <1>5 DEF MeasureOrder, Report
  <2> QED  BY <1>6, <2>1 DEF Orders
<1>8. /\ DOMAIN m_order_latency' = DOMAIN m_order_latency \ {id}
      /\ \A i \in DOMAIN m_order_latency' : m_order_latency'[i] = m_order_latency[i]
  <2>1. m_order_latency' = Restrict(m_order_latency, DOMAIN m_order_latency \ {id})
    BY <1>2 DEF MeasureOrder
  <2> QED  BY <2>1 DEF Restrict
<1>9. PICK b \in Conns : k = <<b, "target">>
  BY <1>1, Peers
<1>10. \A j \in Threads : Stream(j)' = Stream(j) /\ Sent(j)' = Sent(j)
  BY MovesAlong DEF Analyze
<1>11. \A j \in Threads : j # k => Analyzed(j)' = Analyzed(j)
  BY <1>1, AnalyzedMoves
<1>12. PICK n \in Nat : n = Analyzed(k) /\ Analyzed(k)' = n + 1 /\ n = Len(received[Peer(k)])
  BY <1>1, AnalyzedMoves
<1>13. Stream(<<b, "target">>)[n + 1] = m /\ n + 1 \in 1..Sent(<<b, "target">>)
  <2>1. Stream(k)[n + 1] = m
    BY <1>1, <1>2, <1>12, StreamMeans
  <2>2. PICK u \in Nat : u = Sent(k) /\ n + 1 <= u
    BY <1>1, <1>12, StreamMeans
  <2> QED  BY <1>9, <2>1, <2>2
<1>14. ASSUME NEW c \in Conns
       PROVE  /\ Stream(<<c, "client">>)' = Stream(<<c, "client">>)
              /\ Analyzed(<<c, "client">>)' = Analyzed(<<c, "client">>)
  <2>1. \A j : j = <<c, "client">> => j \in Threads /\ j # k
    BY <1>9, Peers
  <2> QED  BY <1>10, <1>11, <2>1
<1>15. \A c \in Conns : \A x : Analyzes(c, x)' <=> Analyzes(c, x)
  BY <1>14 DEF Analyzes
(* The order registered is the one reported. *)
<1>16. PICK j \in 1..Analyzed(<<b, "client">>) :
         /\ j \in 1..Sent(<<b, "client">>) /\ j <= m.heard
         /\ Stream(<<b, "client">>)[j].id = id
  <2>1. PICK p \in 1..Sent(<<b, "target">>) : p = n + 1 /\ Stream(<<b, "target">>)[p] = m
    BY <1>13
  <2>2. Stream(<<b, "target">>)[p].id # NoId /\ Informed
    BY <1>3, <2>1 DEF StreamInv
  <2> QED  BY <1>3, <2>1, <2>2, ReportedWasAnalyzed
<1>17. PICK c \in Conns :
         /\ request.id = id
         /\ \E i \in 1..Sent(<<c, "client">>) : Stream(<<c, "client">>)[i] = request
  <2>1. PICK c \in Conns : request.id = id /\ Analyzes(c, request)
    BY <1>3, <1>4 DEF OrderInv, RegistryOfOrders
  <2>2. PICK i \in 1..Analyzed(<<c, "client">>) : Stream(<<c, "client">>)[i] = request
    BY <2>1 DEF Analyzes
  <2>3. PICK a \in Nat, t \in Nat :
          a = Analyzed(<<c, "client">>) /\ t = Sent(<<c, "client">>) /\ a <= t
    BY HeardInStream
  <2>4. i \in 1..t
    BY <2>2, <2>3
  <2> QED  BY <2>1, <2>2, <2>3, <2>4
<1>18. Stream(<<b, "client">>)[j] = request
  <2>1. c = b
    BY <1>3, <1>16, <1>17 DEF OwnIds
  <2> QED  BY <1>3, <1>16, <1>17, <2>1 DEF StreamInv, UsedOnce
<1>19. request.n <= m.heard
  <2>1. \A q : q = <<b, "client">> => q \in Threads
    BY Peers
  <2>2. Stream(<<b, "client">>)[j].n = j
    BY <1>16, <2>1 DEF StreamInv, Numbered
  <2> QED  BY <1>16, <1>17, <1>18, <2>2
<1>20. RegistryOfOrders'
  <2>1. ASSUME NEW x \in DOMAIN m_order_latency'
        PROVE  /\ m_order_latency'[x].id = x
               /\ \E d \in Conns : Analyzes(d, m_order_latency[x])
               /\ m_order_latency'[x] = m_order_latency[x]
    BY <1>8 DEF OrderInv, RegistryOfOrders
  <2>2. ASSUME NEW x \in DOMAIN m_order_latency', NEW r, r = m_order_latency'[x]
        PROVE  \E d \in Conns : Analyzes(d, r)'
    BY <1>15, <2>1, <2>2
  <2> QED  BY <2>1, <2>2 DEF RegistryOfOrders, Analyzes
<1>21. MeasuredOfOrders'
  <2>1. OrderLatencyExact'
    BY <1>3, <1>6, <1>7, <1>17, <1>19 DEF OrderInv, MeasuredOfOrders, OrderLatencyExact
  <2>2. ASSUME NEW q \in Orders'  PROVE \E d \in Conns : Analyzes(d, q.request)'
    <3>1. CASE q \in Orders
      <4>1. PICK d \in Conns : Analyzes(d, q.request)
        BY <3>1 DEF OrderInv, MeasuredOfOrders
      <4> QED  BY <1>15, <4>1
    <3>2. CASE q = l
      <4>1. PICK d \in Conns : Analyzes(d, request)
        BY <1>3, <1>4 DEF OrderInv, RegistryOfOrders
      <4> QED  BY <1>6, <1>15, <3>2, <4>1
    <3> QED  BY <1>7, <2>2, <3>1, <3>2
  <2> QED  BY <2>1, <2>2 DEF MeasuredOfOrders, Analyzes
<1>22. NotMeasured(id)
  BY <1>3, <1>16 DEF OrderInv, Settled
<1>23. MeasuredOnce(id)'
  <2>1. \A q \in Orders' : q.response.id = id => q = l
    BY <1>7, <1>22 DEF NotMeasured
  <2>2. l \in Orders'
    BY <1>7
  <2> QED  BY <1>6, <2>1, <2>2 DEF MeasuredOnce
<1>24. ASSUME NEW x, x # id
       PROVE  (NotMeasured(x) => NotMeasured(x)') /\ (MeasuredOnce(x) => MeasuredOnce(x)')
  BY <1>6, <1>7, <1>24 DEF NotMeasured, MeasuredOnce
<1>25. Settled'
  <2>1. ASSUME NEW d \in Conns, NEW p \in 1..Analyzed(<<d, "client">>),
               NEW x, x = Stream(<<d, "client">>)[p].id, x # NoId
        PROVE  IF x \in DOMAIN m_order_latency' THEN NotMeasured(x)' ELSE MeasuredOnce(x)'
    <3>1. IF x \in DOMAIN m_order_latency THEN NotMeasured(x) ELSE MeasuredOnce(x)
      BY <2>1 DEF OrderInv, Settled
    <3> QED  BY <1>8, <1>23, <1>24, <3>1
  <2>2. ASSUME NEW d \in Conns, NEW p \in 1..Analyzed(<<d, "client">>)',
               Stream(<<d, "client">>)'[p].id # NoId
        PROVE  IF Stream(<<d, "client">>)'[p].id \in DOMAIN m_order_latency'
               THEN NotMeasured(Stream(<<d, "client">>)[p].id)'
               ELSE MeasuredOnce(Stream(<<d, "client">>)[p].id)'
    <3>1. PICK x : x = Stream(<<d, "client">>)'[p].id
      OBVIOUS
    <3>2. p \in 1..Analyzed(<<d, "client">>) /\ x = Stream(<<d, "client">>)[p].id /\ x # NoId
      BY <1>14, <2>2, <3>1
    <3>3. IF x \in DOMAIN m_order_latency' THEN NotMeasured(x)' ELSE MeasuredOnce(x)'
      BY <2>1, <3>2
    <3> QED  BY <3>1, <3>3 DEF NotMeasured, MeasuredOnce
  <2> QED  BY <2>2 DEF Settled
<1>26. Unregistered'
  <2>1. \A d \in Conns : \A p \in 1..Analyzed(<<d, "target">>) :
          Stream(<<d, "target">>)[p].id \notin DOMAIN m_order_latency'
    BY <1>8 DEF OrderInv, Unregistered
  <2>2. ASSUME NEW d \in Conns, NEW p \in 1..Analyzed(<<d, "target">>)'
        PROVE  Stream(<<d, "target">>)[p].id \notin DOMAIN m_order_latency'
    <3>1. CASE <<d, "target">> # k
      <4>1. \A q : q = <<d, "target">> => q \in Threads
        BY Peers
      <4>2. Analyzed(<<d, "target">>)' = Analyzed(<<d, "target">>)
        BY <1>11, <3>1, <4>1
      <4> QED  BY <2>1, <2>2, <4>2
    <3>2. CASE <<d, "target">> = k
      <4>1. d = b
        BY <1>9, <3>2
      <4>2. p \in 1..n \/ p = n + 1
        BY <1>12, <2>2, <3>2
      <4>3. CASE p \in 1..n
        BY <1>12, <2>1, <3>2, <4>3
      <4>4. CASE p = n + 1
        BY <1>3, <1>8, <1>13, <4>1, <4>4
      <4> QED  BY <4>2, <4>3, <4>4
    <3> QED  BY <3>1, <3>2
  <2>3. \A d \in Conns : Stream(<<d, "target">>)' = Stream(<<d, "target">>)
    BY <1>10, Peers
  <2> QED  BY <2>2, <2>3 DEF Unregistered
<1> QED  BY <1>20, <1>21, <1>25, <1>26 DEF OrderInv

LEMMA LatencyStarts == Init => LatencyInv
<1> SUFFICES ASSUME Init  PROVE LatencyInv
  OBVIOUS
<1>1. ASSUME NEW k \in Threads  PROVE Sent(k) = 0 /\ Analyzed(k) = 0
  <2>1. msg[k] = <<>> /\ wire[k] = <<>> /\ received[Peer(k)] = <<>> /\ at[k] = "recv"
    BY Peers DEF Init
  <2>2. Len(<<>>) = 0
    OBVIOUS
  <2> QED  BY <2>1, <2>2 DEF Sent, Analyzed
<1>2. ASSUME NEW c \in Conns
      PROVE  /\ Sent(<<c, "client">>) = 0 /\ Sent(<<c, "target">>) = 0
             /\ Analyzed(<<c, "client">>) = 0 /\ Analyzed(<<c, "target">>) = 0
  <2>1. \A k : k = <<c, "client">> \/ k = <<c, "target">> => k \in Threads
    BY Peers
  <2> QED  BY <1>1, <2>1
<1>3. \A i : i \notin 1..0
  OBVIOUS
<1>4. StreamInv
  BY <1>1, <1>2, <1>3 DEF StreamInv, Numbered, UsedOnce, Informed
<1>5. DOMAIN m_order_latency = {} /\ Orders = {}
  BY DEF Init, Orders
<1>6. OrderInv
  BY <1>2, <1>3, <1>5
  DEF OrderInv, RegistryOfOrders, MeasuredOfOrders, OrderLatencyExact, Settled, Unregistered
<1> QED  BY <1>4, <1>6 DEF LatencyInv

LEMMA LatencyStays ==
  ASSUME Typed, Typed', OwnIds, LatencyInv, [Next]_vars
  PROVE  LatencyInv'
<1> USE DEF LatencyInv
<1>1. ASSUME NEW c \in Conns, NEW id \in ClOrdIDs \cup {NoId}, NEW type \in {"D", "other"},
             ClientSends(c, type, id)
      PROVE  LatencyInv'
  <2> DEFINE k == <<c, "client">>
             m == [conn |-> c, n |-> Sent(k) + 1, type |-> type, id |-> id]
  <2>1. /\ Sent(k) < MaxMsgs
        /\ wire' = [wire EXCEPT ![k] = Append(@, m)]
        /\ UNCHANGED <<m_order_latency, m_last_client_msg, at, msg, received, measured>>
    BY <1>1 DEF ClientSends
  <2>2. k \in Threads /\ m \in Kind(k)
    BY <2>1, ClientMessage, Peers
  <2>3. StreamInv'
    BY <1>1, ClientKeepsStreams
  <2>4. OrderInv'
    BY <2>1, <2>2, SendingKeepsOrders
  <2> QED  BY <2>3, <2>4
<1>2. ASSUME NEW c \in Conns, NEW id \in ClOrdIDs \cup {NoId}, NEW type \in {"8", "other"},
             TargetSends(c, type, id)
      PROVE  LatencyInv'
  <2> DEFINE k == <<c, "target">>
             m == [conn |-> c, n |-> Sent(k) + 1, type |-> type, id |-> id,
                   heard |-> Len(received[k])]
  <2>1. /\ Sent(k) < MaxMsgs
        /\ wire' = [wire EXCEPT ![k] = Append(@, m)]
        /\ UNCHANGED <<m_order_latency, m_last_client_msg, at, msg, received, measured>>
    BY <1>2 DEF TargetSends
  <2>2. k \in Threads /\ m \in Kind(k)
    BY <2>1, TargetMessage, Peers
  <2>3. StreamInv'
    BY <1>2, TargetKeepsStreams
  <2>4. OrderInv'
    BY <2>1, <2>2, SendingKeepsOrders
  <2> QED  BY <2>3, <2>4
<1>3. ASSUME NEW k \in Threads, Read(k) \/ Analyze(k) \/ Send(k)  PROVE LatencyInv'
  <2>1. StreamInv'
    BY <1>3, ProxyKeepsStreams
  <2>2. CASE Read(k)
    BY <2>1, <2>2, ReadKeepsOrders
  <2>3. CASE Register(k)
    BY <2>1, <2>3, RegisterKeepsOrders
  <2>4. CASE MeasureOrder(k)
    BY <2>1, <2>4, MeasureKeepsOrders
  <2>5. CASE OrderUnknown(k) \/ RememberLast(k) \/ MeasureRoundtrip(k)
    BY <2>1, <2>5, OthersKeepOrders
  <2>6. CASE Send(k)
    BY <2>1, <2>6, SendKeepsOrders
  <2> QED  BY <1>3, <2>2, <2>3, <2>4, <2>5, <2>6 DEF Analyze
<1>4. CASE UNCHANGED vars
  <2>1. /\ \A k : Stream(k)' = Stream(k) /\ Sent(k)' = Sent(k) /\ Analyzed(k)' = Analyzed(k)
        /\ Orders' = Orders
    BY <1>4 DEF vars, Stream, Sent, Analyzed, Orders
  <2>2. StreamInv'
    BY <1>4, <2>1 DEF vars, StreamInv, Numbered, UsedOnce, Informed
  <2>3. OrderInv'
    BY <1>4, <2>1, NothingNew DEF vars
  <2> QED  BY <2>2, <2>3
<1> QED  BY <1>1, <1>2, <1>3, <1>4 DEF Next

(* A report a client has was analyzed, so its order is no longer           *)
(* registered; it was analyzed before, so it has been measured.            *)
LEMMA ReportsFollowMeasurements ==
  ASSUME Typed, LatencyInv
  PROVE  ReportedOrdersMeasured
<1> SUFFICES ASSUME NEW c \in Conns, NEW i \in DOMAIN received[<<c, "client">>],
                    NEW id, id = received[<<c, "client">>][i].id, id # NoId
             PROVE  Cardinality({l \in Orders : l.response.id = id}) = 1
  BY DEF ReportedOrdersMeasured
<1>1. <<c, "target">> \in Threads /\ Peer(<<c, "target">>) = <<c, "client">>
  BY Peers
<1>2. PICK r \in Nat : r = Len(received[<<c, "client">>]) /\ i \in 1..r
  <2> DEFINE S == Kind(<<c, "target">>)
             s == received[<<c, "client">>]
  <2>1. s \in Seq(S)
    BY <1>1 DEF Typed, Flowing
  <2> HIDE DEF s, S
  <2>2. Len(s) \in Nat /\ DOMAIN s = 1..Len(s)
    BY <2>1
  <2> QED  BY <2>2 DEF s
<1>3. Stream(<<c, "target">>)[i].id = id
  BY <1>1, <1>2, StreamMeans
<1>4. i \in 1..Analyzed(<<c, "target">>) /\ i \in 1..Sent(<<c, "target">>)
  <2>1. PICK a \in Nat, t \in Nat :
          /\ a = Analyzed(<<c, "target">>) /\ t = Sent(<<c, "target">>) /\ r <= a /\ a <= t
    BY <1>1, <1>2, AnalyzedMeans, Lengths
  <2> QED  BY <1>2, <2>1
<1>5. id \notin DOMAIN m_order_latency
  BY <1>3, <1>4 DEF LatencyInv, OrderInv, Unregistered
<1>6. PICK j \in 1..Analyzed(<<c, "client">>) : Stream(<<c, "client">>)[j].id = id
  BY <1>3, <1>4, ReportedWasAnalyzed DEF LatencyInv, StreamInv
<1>7. MeasuredOnce(id)
  BY <1>5, <1>6 DEF LatencyInv, OrderInv, Settled
<1>8. PICK l : {q \in Orders : q.response.id = id} = {l}
  BY <1>7 DEF MeasuredOnce
<1> QED  BY <1>8, FS_Singleton

(* The latency printed for an order is that of an order with the report's  *)
(* identifier which the target had received before it reported, for any    *)
(* number of connections whose clients do not share identifiers.           *)
(* (proxy.cpp:265-268, 295-301)                                            *)
THEOREM OrderLatencyExactHolds == Spec /\ []OwnIds => []OrderLatencyExact
<1>1. Init => Typed /\ LatencyInv
  BY TypedStarts, LatencyStarts
<1>2. Typed /\ LatencyInv /\ OwnIds /\ [Next]_vars => Typed' /\ LatencyInv'
  BY TypedStays, LatencyStays
<1>3. LatencyInv => OrderLatencyExact
  BY DEF LatencyInv, OrderInv, MeasuredOfOrders
<1> QED  BY <1>1, <1>2, <1>3, PTL DEF Spec

(* Once a client has a report with a ClOrdID, the latency of that order    *)
(* has been printed, and once only, for any number of connections whose    *)
(* clients do not share identifiers.  (proxy.cpp:214-242, 295-302)         *)
THEOREM ReportedOrdersMeasuredHolds == Spec /\ []OwnIds => []ReportedOrdersMeasured
<1>1. Init => Typed /\ LatencyInv
  BY TypedStarts, LatencyStarts
<1>2. Typed /\ LatencyInv /\ OwnIds /\ [Next]_vars => Typed' /\ LatencyInv'
  BY TypedStays, LatencyStays
<1>3. Typed /\ LatencyInv => ReportedOrdersMeasured
  BY ReportsFollowMeasurements
<1> QED  BY <1>1, <1>2, <1>3, PTL DEF Spec

(* Behind one client both hold as they stand: there is no other client to  *)
(* share an identifier with.  (proxy.cpp:214-242, 265-268, 295-302)        *)
THEOREM OneClient ==
  ASSUME \A c, d \in Conns : c = d
  PROVE  Spec => [](OrderLatencyExact /\ ReportedOrdersMeasured)
<1>1. OwnIds
  BY DEF OwnIds
<1> QED  BY <1>1, OrderLatencyExactHolds, ReportedOrdersMeasuredHolds, PTL
=============================================================================
