------------------------- MODULE ProxyTrafficProofs -------------------------
(***************************************************************************)
(* What the proxy guarantees for any number of clients and descriptors,    *)
(* stopped at any time: that descriptors are closed, overlapping or not;   *)
(* and, for clients one at a time, that streams are forwarded as sent.     *)
(***************************************************************************)
EXTENDS ProxyTraffic, SequenceTheorems, FiniteSetTheorems, TLAPS

(* The parts of TypeOK that say where descriptors and threads are.         *)
TablesTyped ==
  /\ handler \in [Conns -> {"none", "socket", "connect", "run", "done"}]
  /\ fd \in [Sock -> Fds \cup {NoFd}]
  /\ fwd \in [Sock -> {"none", "check", "recv", "blocked", "send",
                       "close_src", "close_dst", "ended"}]
  /\ table \in [Fds -> Sock \cup {Free, Listener, Taken}]
  /\ remote \in [Sock -> {"none", "open", "closed", "reset"}]
  /\ backlog \in Seq(Conns)

(* A client is in the backlog once, and has no handler yet; a client that  *)
(* has one has connected.                                                  *)
WaitingOnce ==
  /\ \A i \in DOMAIN backlog :
        /\ handler[backlog[i]] = "none"
        /\ remote[Client(backlog[i])] # "none"
        /\ \A j \in DOMAIN backlog : backlog[i] = backlog[j] => i = j
  /\ \A c \in Conns : handler[c] # "none" => remote[Client(c)] # "none"

(* A number that means a socket is the number its threads hold, and none   *)
(* of the calls that close it has been made.                               *)
Held(k, f) ==
  /\ fd[k] = f
  /\ handler[k[1]] \in (IF k[2] = "client" THEN {"socket", "connect", "run"}
                                           ELSE {"connect", "run"})
  /\ handler[k[1]] = "run" =>
       fwd[k] \notin {"close_dst", "ended"} /\ fwd[Peer(k)] # "ended"

HeldUntilClosed == \A k \in Sock, f \in Fds : table[f] = k => Held(k, f)

Inv == TablesTyped /\ WaitingOnce /\ HeldUntilClosed

(* Sockets come in pairs, and are not what else a number can mean.          *)
LEMMA Pairs ==
  ASSUME NEW k \in Sock
  PROVE  /\ Peer(k) \in Sock /\ Peer(Peer(k)) = k /\ Peer(k) # k
         /\ Peer(k)[1] = k[1] /\ k[1] \in Conns
         /\ k[2] \in {"client", "target"}
         /\ k = (IF k[2] = "client" THEN Client(k[1]) ELSE Target(k[1]))
  BY DEF Sock, Peer, Client, Target

LEMMA Ends ==
  ASSUME NEW c \in Conns
  PROVE  /\ Client(c) \in Sock /\ Target(c) \in Sock /\ Client(c) # Target(c)
         /\ Client(c)[1] = c /\ Target(c)[1] = c
         /\ Client(c)[2] = "client" /\ Target(c)[2] = "target"
         /\ Peer(Client(c)) = Target(c) /\ Peer(Target(c)) = Client(c)
  BY DEF Sock, Peer, Client, Target

LEMMA FreeIsNoSocket == Free \notin Sock /\ Listener \notin Sock /\ Taken \notin Sock
<1>1. \A k \in Sock : Len(k) = 2
  BY DEF Sock
<1>2. Len(Free) = 1 /\ Len(Listener) = 1 /\ Len(Taken) = 1
  BY DEF Free, Listener, Taken
<1> QED  BY <1>1, <1>2

(* Closing numbers only takes meanings away.                               *)
LEMMA ClosingTakesAway ==
  ASSUME TablesTyped, NEW S, table' = Closing(S)
  PROVE  /\ table' \in [Fds -> Sock \cup {Free, Listener, Taken}]
         /\ \A f \in Fds, k \in Sock : table'[f] = k => table[f] = k /\ f \notin S
  BY FreeIsNoSocket DEF TablesTyped, Closing

(* At the start there is neither a socket nor a client.                    *)
LEMMA InitInv == Init => Inv
<1> SUFFICES ASSUME Init  PROVE Inv
  OBVIOUS
<1>1. <<>> \in Seq(Conns) /\ DOMAIN backlog = {}
  BY DEF Init
<1>2. TablesTyped
  BY <1>1 DEF Init, TablesTyped
<1>3. WaitingOnce
  BY <1>1 DEF Init, WaitingOnce
<1>4. HeldUntilClosed
  BY FreeIsNoSocket DEF Init, HeldUntilClosed
<1> QED  BY <1>2, <1>3, <1>4 DEF Inv

(* No step of start(), stop(), a handler, a forwarder or a remote breaks   *)
(* the invariant.                                                          *)
LEMMA StepInv == Inv /\ [Next]_vars => Inv'
<1> SUFFICES ASSUME Inv, [Next]_vars  PROVE Inv'
  OBVIOUS
<1> USE DEF Inv
<1>1. CASE UNCHANGED <<connection, forwarder, network, table>>
  <2>1. UNCHANGED <<handler, fd, fwd, remote, backlog, table>>
    BY <1>1 DEF connection, forwarder, network
  <2>2. TablesTyped'
    BY <2>1 DEF TablesTyped
  <2>3. WaitingOnce'
    BY <2>1 DEF WaitingOnce
  <2>4. HeldUntilClosed'
    BY <2>1 DEF HeldUntilClosed, Held
  <2> QED  BY <2>2, <2>3, <2>4
<1>2. CASE StartSocket
  <2>1. UNCHANGED <<handler, fd, fwd, remote, backlog>>
    BY <1>2 DEF StartSocket, connection, forwarder, network
  <2>2. /\ table' \in [Fds -> Sock \cup {Free, Listener, Taken}]
        /\ \A f \in Fds, k \in Sock : table'[f] = k => table[f] = k
    BY <1>2, FreeIsNoSocket DEF StartSocket, TablesTyped
  <2>3. TablesTyped' /\ WaitingOnce'
    BY <2>1, <2>2 DEF TablesTyped, WaitingOnce
  <2>4. HeldUntilClosed'
    BY <2>1, <2>2 DEF HeldUntilClosed, Held
  <2> QED  BY <2>3, <2>4
<1>3. CASE Accept
  <2> DEFINE c == Head(backlog)
  <2>1. /\ c \in Conns /\ backlog \in Seq(Conns) /\ backlog # <<>>
        /\ c = backlog[1] /\ 1 \in DOMAIN backlog
        /\ backlog' = Tail(backlog) /\ Tail(backlog) \in Seq(Conns)
    BY <1>3 DEF Accept, TablesTyped
  <2>2. \A i \in DOMAIN backlog' : i + 1 \in DOMAIN backlog /\ i + 1 # 1
                                 /\ backlog'[i] = backlog[i + 1] /\ i \in Nat
    BY <2>1
  <2>3. PICK f \in Fds : /\ table[f] = Free
                         /\ table' = [table EXCEPT ![f] = Client(c)]
                         /\ fd' = [fd EXCEPT ![Client(c)] = f]
    BY <1>3 DEF Accept, LowestFree
  <2>4. /\ handler' = [handler EXCEPT ![c] = "socket"]
        /\ UNCHANGED <<fwd, remote>>
    BY <1>3 DEF Accept, forwarder
  <2>5. handler[c] = "none" /\ remote[Client(c)] # "none"
    BY <2>1 DEF WaitingOnce
  <2> HIDE DEF c
  <2>6. TablesTyped'
    BY <2>1, <2>3, <2>4, Ends DEF TablesTyped
  <2>7. WaitingOnce'
    <3>1. \A i \in DOMAIN backlog' : backlog'[i] # c
      BY <2>1, <2>2 DEF WaitingOnce
    <3>2. \A i, j \in DOMAIN backlog' : backlog'[i] = backlog'[j] => i = j
      BY <2>2 DEF WaitingOnce
    <3>3. \A i \in DOMAIN backlog' : handler'[backlog'[i]] = "none"
                                    /\ remote'[Client(backlog'[i])] # "none"
      BY <2>2, <2>4, <3>1 DEF WaitingOnce, TablesTyped
    <3>4. \A d \in Conns : handler'[d] # "none" => remote'[Client(d)] # "none"
      BY <2>4, <2>5 DEF WaitingOnce, TablesTyped
    <3> QED  BY <3>2, <3>3, <3>4 DEF WaitingOnce
  <2>8. HeldUntilClosed'
    <3> SUFFICES ASSUME NEW k \in Sock, NEW g \in Fds, table'[g] = k
                 PROVE  Held(k, g)'
      BY DEF HeldUntilClosed
    <3>1. CASE g = f
      BY <2>1, <2>3, <2>4, <3>1, Ends DEF TablesTyped, Held
    <3>2. CASE g # f
      <4>1. table[g] = k
        BY <2>3, <3>2 DEF TablesTyped
      <4>2. k[1] # c
        BY <2>5, <4>1, Pairs DEF HeldUntilClosed, Held
      <4>3. fd'[k] = fd[k] /\ handler'[k[1]] = handler[k[1]]
        BY <2>1, <2>3, <2>4, <4>2, Ends, Pairs DEF TablesTyped
      <4> QED  BY <2>4, <4>1, <4>3 DEF HeldUntilClosed, Held
    <3> QED  BY <3>1, <3>2
  <2> QED  BY <2>6, <2>7, <2>8
<1>4. CASE StopCloses
  <2>1. UNCHANGED <<handler, fd, fwd>>
    BY <1>4 DEF StopCloses, connection, forwarder
  <2>2. /\ table' \in [Fds -> Sock \cup {Free, Listener, Taken}]
        /\ \A f \in Fds, k \in Sock : table'[f] = k => table[f] = k
    BY <1>4, ClosingTakesAway DEF StopCloses, TablesTyped
  <2>3. /\ remote' \in [Sock -> {"none", "open", "closed", "reset"}]
        /\ \A k \in Sock : remote[k] # "none" => remote'[k] # "none"
    BY <1>4 DEF StopCloses, TablesTyped
  <2>4. backlog' \in Seq(Conns) /\ (backlog' = backlog \/ DOMAIN backlog' = {})
    <3>1. <<>> \in Seq(Conns) /\ DOMAIN <<>> = {}
      OBVIOUS
    <3> QED  BY <1>4, <3>1 DEF StopCloses, TablesTyped
  <2>5. TablesTyped'
    BY <2>1, <2>2, <2>3, <2>4 DEF TablesTyped
  <2>6. \A c \in Conns : handler'[c] # "none" => remote'[Client(c)] # "none"
    BY <2>1, <2>3, Ends DEF WaitingOnce
  <2>7. \A i \in DOMAIN backlog' :
          /\ handler'[backlog'[i]] = "none"
          /\ remote'[Client(backlog'[i])] # "none"
          /\ \A j \in DOMAIN backlog' : backlog'[i] = backlog'[j] => i = j
    <3>1. \A i \in DOMAIN backlog : backlog[i] \in Conns
      BY DEF TablesTyped
    <3> QED  BY <2>1, <2>3, <2>4, <3>1, Ends DEF WaitingOnce
  <2>8. WaitingOnce'
    BY <2>6, <2>7 DEF WaitingOnce
  <2>9. HeldUntilClosed'
    BY <2>1, <2>2 DEF HeldUntilClosed, Held
  <2> QED  BY <2>5, <2>8, <2>9
<1>5. ASSUME NEW c \in Conns, Handle(c)
      PROVE  Inv'
  <2>1. /\ backlog' = backlog /\ handler[c] # "none" /\ handler'[c] # "none"
        /\ \A k \in Sock : remote[k] # "none" => remote'[k] # "none"
        /\ \A d \in Conns : d # c => handler'[d] = handler[d]
    BY <1>5, Ends DEF Handle, HandlerSocket, HandlerSocketFails, HandlerConnects,
       HandlerConnectFails, HandlerJoins, TablesTyped, network
  <2>2. WaitingOnce'
    <3>1. \A i \in DOMAIN backlog : backlog[i] \in Conns /\ backlog[i] # c
      BY <2>1 DEF TablesTyped, WaitingOnce
    <3> QED  BY <2>1, <3>1, Ends DEF WaitingOnce
  <2>3. CASE HandlerSocket(c)
    <3>1. PICK f \in Fds : /\ table[f] = Free
                           /\ table' = [table EXCEPT ![f] = Target(c)]
                           /\ fd' = [fd EXCEPT ![Target(c)] = f]
      BY <2>3 DEF HandlerSocket, LowestFree
    <3>2. /\ handler[c] = "socket"
          /\ handler' = [handler EXCEPT ![c] = "connect"]
          /\ UNCHANGED <<fwd, remote, backlog>>
      BY <2>3 DEF HandlerSocket, forwarder, network
    <3>3. TablesTyped'
      BY <3>1, <3>2, Ends DEF TablesTyped
    <3>4. ASSUME NEW k \in Sock, NEW g \in Fds, table'[g] = k
          PROVE  Held(k, g)'
      <4>1. CASE g = f
        BY <3>1, <3>2, <3>4, <4>1, Ends DEF TablesTyped, Held
      <4>2. CASE g # f
        <5>1. table[g] = k
          BY <3>1, <3>4, <4>2 DEF TablesTyped
        <5>2. Held(k, g) /\ k # Target(c)
          BY <3>2, <5>1, Ends DEF HeldUntilClosed, Held
        <5> QED  BY <3>1, <3>2, <5>2, Ends, Pairs DEF TablesTyped, Held
      <4> QED  BY <4>1, <4>2
    <3> QED  BY <2>2, <3>3, <3>4 DEF HeldUntilClosed
  <2>4. ASSUME NEW S, table' = Closing(S), fd[Client(c)] \in S,
               handler[c] = "connect" => fd[Target(c)] \in S,
               handler[c] \in {"socket", "connect"},
               handler' = [handler EXCEPT ![c] = "done"],
               UNCHANGED <<fd, fwd, remote, backlog>>
        PROVE  Inv'
    <3>1. TablesTyped'
      BY <2>4, ClosingTakesAway DEF TablesTyped
    <3>2. ASSUME NEW k \in Sock, NEW g \in Fds, table'[g] = k
          PROVE  Held(k, g)'
      <4>1. Held(k, g) /\ g \notin S
        BY <2>4, <3>2, ClosingTakesAway DEF HeldUntilClosed
      <4>2. k[1] # c
        BY <2>4, <4>1, Pairs DEF Held
      <4> QED  BY <2>4, <4>1, <4>2, Pairs DEF TablesTyped, Held
    <3> QED  BY <2>2, <3>1, <3>2 DEF HeldUntilClosed
  <2>5. CASE HandlerSocketFails(c)
    BY <2>4, <2>5 DEF HandlerSocketFails, forwarder, network
  <2>6. CASE HandlerConnectFails(c)
    BY <2>4, <2>6 DEF HandlerConnectFails, forwarder, network
  <2>7. CASE HandlerConnects(c)
    <3>1. /\ handler[c] = "connect"
          /\ handler' = [handler EXCEPT ![c] = "run"]
          /\ remote' = [remote EXCEPT ![Target(c)] = "open"]
          /\ fwd' = [fwd EXCEPT ![Client(c)] = "check", ![Target(c)] = "check"]
          /\ UNCHANGED <<fd, backlog, table>>
      BY <2>7 DEF HandlerConnects
    <3>2. TablesTyped'
      BY <3>1, Ends DEF TablesTyped
    <3>3. ASSUME NEW k \in Sock, NEW g \in Fds, table'[g] = k
          PROVE  Held(k, g)'
      <4>1. Held(k, g)
        BY <3>1, <3>3 DEF HeldUntilClosed
      <4>2. CASE k[1] = c
        BY <3>1, <4>1, <4>2, Ends, Pairs DEF TablesTyped, Held
      <4>3. CASE k[1] # c
        BY <3>1, <4>1, <4>3, Ends, Pairs DEF TablesTyped, Held
      <4> QED  BY <4>2, <4>3
    <3> QED  BY <2>2, <3>2, <3>3 DEF HeldUntilClosed
  <2>8. CASE HandlerJoins(c)
    <3>1. /\ handler[c] = "run" /\ fwd[Client(c)] = "ended" /\ fwd[Target(c)] = "ended"
          /\ handler' = [handler EXCEPT ![c] = "done"]
          /\ UNCHANGED <<fd, fwd, remote, backlog, table>>
      BY <2>8 DEF HandlerJoins, forwarder, network
    <3>2. TablesTyped'
      BY <3>1 DEF TablesTyped
    <3>3. ASSUME NEW k \in Sock, NEW g \in Fds, table'[g] = k
          PROVE  Held(k, g)'
      <4>1. Held(k, g)
        BY <3>1, <3>3 DEF HeldUntilClosed
      <4>2. k[1] # c
        BY <3>1, <4>1, Pairs DEF Held
      <4> QED  BY <3>1, <4>1, <4>2, Pairs DEF TablesTyped, Held
    <3> QED  BY <2>2, <3>2, <3>3 DEF HeldUntilClosed
  <2> QED  BY <1>5, <2>3, <2>5, <2>6, <2>7, <2>8 DEF Handle
<1>6. ASSUME NEW k \in Sock, Forward(k)
      PROVE  Inv'
  <2>1. UNCHANGED <<handler, fd, remote, backlog>>
    BY <1>6 DEF Forward, ForwardCheck, RecvEnters, RecvRefused, RecvEnds, NothingRead,
       RecvData, SendTakes, SendFails, SendKills, CloseSource, CloseDestination,
       connection, network
  <2>2. WaitingOnce'
    BY <2>1 DEF WaitingOnce
  <2>3. ASSUME table' = table,
               fwd' = fwd \/ \E pc \in {"check", "recv", "blocked", "send", "close_src"} :
                                 fwd' = [fwd EXCEPT ![k] = pc]
        PROVE  Inv'
    <3>1. /\ fwd' \in [Sock -> {"none", "check", "recv", "blocked", "send",
                                "close_src", "close_dst", "ended"}]
          /\ \A j \in Sock : fwd'[j] \in {"close_dst", "ended"} => fwd'[j] = fwd[j]
      BY <2>3 DEF TablesTyped
    <3>2. TablesTyped'
      BY <2>1, <2>3, <3>1 DEF TablesTyped
    <3>3. HeldUntilClosed'
      BY <2>1, <2>3, <3>1, Pairs DEF HeldUntilClosed, Held
    <3> QED  BY <2>2, <3>2, <3>3
  <2>4. ASSUME NEW S, NEW pc \in {"close_dst", "ended"},
               table' = Closing(S), fwd' = [fwd EXCEPT ![k] = pc],
               pc = "close_dst" => fd[k] \in S,
               pc = "ended" => fd[Peer(k)] \in S /\ fwd[k] = "close_dst"
        PROVE  Inv'
    <3>1. TablesTyped'
      BY <2>1, <2>4, ClosingTakesAway DEF TablesTyped
    <3>2. ASSUME NEW j \in Sock, NEW g \in Fds, table'[g] = j
          PROVE  Held(j, g)'
      <4>1. Held(j, g) /\ g \notin S
        BY <2>4, <3>2, ClosingTakesAway DEF HeldUntilClosed
      <4>2. CASE j = k
        <5>1. pc = "ended" => handler[k[1]] # "run"
          BY <2>4, <4>1, <4>2 DEF Held
        <5>2. pc # "close_dst"
          BY <2>4, <4>1, <4>2 DEF Held
        <5> QED  BY <2>1, <2>4, <4>1, <4>2, <5>1, <5>2 DEF Held
      <4>3. CASE j = Peer(k)
        <5>1. pc # "ended"
          BY <2>4, <4>1, <4>3 DEF Held
        <5> QED  BY <2>1, <2>4, <4>1, <4>3, <5>1, Pairs DEF TablesTyped, Held
      <4>4. CASE j # k /\ j # Peer(k)
        <5>1. Peer(j) # k
          BY <4>4, Pairs
        <5> QED  BY <2>1, <2>4, <4>1, <4>4, <5>1, Pairs DEF TablesTyped, Held
      <4> QED  BY <4>2, <4>3, <4>4
    <3> QED  BY <2>2, <3>1, <3>2 DEF HeldUntilClosed
  <2>5. CASE CloseSource(k)
    BY <2>4, <2>5 DEF CloseSource
  <2>6. CASE CloseDestination(k)
    BY <2>4, <2>6 DEF CloseDestination
  <2>7. CASE ForwardCheck(k)
    BY <2>3, <2>7 DEF ForwardCheck
  <2>8. CASE RecvEnters(k) \/ RecvRefused(k) \/ RecvEnds(k) \/ RecvData(k)
    BY <2>3, <2>8 DEF RecvEnters, RecvRefused, RecvEnds, NothingRead, RecvData
  <2>9. CASE SendTakes(k)
    BY <2>3, <2>9 DEF SendTakes
  <2>10. CASE SendFails(k) \/ SendKills(k)
    BY <2>3, <2>10 DEF SendFails, SendKills, forwarder
  <2> QED  BY <1>6, <2>5, <2>6, <2>7, <2>8, <2>9, <2>10 DEF Forward
<1>7. ASSUME NEW c \in Conns, ClientConnects(c)
      PROVE  Inv'
  <2>1. /\ remote[Client(c)] = "none"
        /\ remote' = [remote EXCEPT ![Client(c)] = "open"]
        /\ backlog' = Append(backlog, c)
        /\ UNCHANGED <<handler, fd, fwd, table>>
    BY <1>7 DEF ClientConnects, connection, forwarder
  <2>2. TablesTyped'
    BY <2>1, Ends DEF TablesTyped
  <2>3. HeldUntilClosed'
    BY <2>1 DEF HeldUntilClosed, Held
  <2>4. /\ backlog \in Seq(Conns) /\ Len(backlog) \in Nat
        /\ DOMAIN backlog = 1..Len(backlog)
        /\ DOMAIN backlog' = 1..(Len(backlog) + 1)
        /\ \A i \in DOMAIN backlog : backlog'[i] = backlog[i] /\ backlog[i] \in Conns
        /\ backlog'[Len(backlog) + 1] = c
    BY <2>1 DEF TablesTyped
  <2>5. handler[c] = "none" /\ \A i \in DOMAIN backlog : backlog[i] # c
    BY <2>1 DEF WaitingOnce
  <2>6. \A k \in Sock : remote[k] # "none" => remote'[k] # "none"
    BY <2>1, Ends DEF TablesTyped
  <2>7. remote'[Client(c)] # "none"
    BY <2>1, Ends DEF TablesTyped
  <2>8. \A d \in Conns : handler'[d] # "none" => remote'[Client(d)] # "none"
    BY <2>1, <2>6, Ends DEF WaitingOnce
  <2>9. \A i \in DOMAIN backlog' : handler'[backlog'[i]] = "none"
                                  /\ remote'[Client(backlog'[i])] # "none"
    <3>1. \A i \in DOMAIN backlog : handler'[backlog'[i]] = "none"
                                  /\ remote'[Client(backlog'[i])] # "none"
      BY <2>1, <2>4, <2>6, Ends DEF WaitingOnce
    <3> QED  BY <2>1, <2>4, <2>5, <2>7, <3>1
  <2>10. \A i, j \in DOMAIN backlog' : backlog'[i] = backlog'[j] => i = j
    BY <2>4, <2>5 DEF WaitingOnce
  <2>11. WaitingOnce'
    BY <2>8, <2>9, <2>10 DEF WaitingOnce
  <2> QED  BY <2>2, <2>3, <2>11
<1>8. ASSUME NEW k \in Sock, RemoteSends(k) \/ RemoteLeaves(k)
      PROVE  Inv'
  <2>1. UNCHANGED <<handler, fd, fwd, table, backlog>>
    BY <1>8 DEF RemoteSends, RemoteLeaves, connection, forwarder
  <2>2. /\ remote' \in [Sock -> {"none", "open", "closed", "reset"}]
        /\ \A j \in Sock : remote[j] # "none" => remote'[j] # "none"
    BY <1>8 DEF RemoteSends, RemoteLeaves, TablesTyped
  <2>3. TablesTyped'
    BY <2>1, <2>2 DEF TablesTyped
  <2>4. \A i \in DOMAIN backlog : backlog[i] \in Conns
    BY DEF TablesTyped
  <2>5. WaitingOnce'
    BY <2>1, <2>2, <2>4, Ends DEF WaitingOnce
  <2>6. HeldUntilClosed'
    BY <2>1 DEF HeldUntilClosed, Held
  <2> QED  BY <2>3, <2>5, <2>6
<1>9. CASE StartBegins \/ StartListen \/ StartCheck \/ Select \/ AcceptFails
  BY <1>1, <1>9 DEF StartBegins, StartListen, StartCheck, Select, AcceptFails
<1>10. CASE StopBegins \/ StopForgets
  BY <1>1, <1>10 DEF StopBegins, StopForgets
<1>11. CASE UNCHANGED vars
  BY <1>1, <1>11 DEF vars
<1> QED
  BY <1>2, <1>3, <1>4, <1>5, <1>6, <1>7, <1>8, <1>9, <1>10, <1>11
  DEF Next, Start, Stop

(* Whatever clients, the target, stop() and the threads do, and in any     *)
(* order, a connection whose handler is done owns no descriptor.           *)
(* (proxy.cpp:157-181, 197-200, 245-251)                                   *)
THEOREM ClosedWhenDoneHolds == Spec => []ClosedWhenDone
<1>1. Inv => ClosedWhenDone
  BY Ends DEF Inv, HeldUntilClosed, Held, ClosedWhenDone
<1> QED  BY InitInv, StepInv, <1>1, PTL DEF Spec

-----------------------------------------------------------------------------
(* Clients that come one after the other                                   *)

(* A connection that somebody may still act for.                           *)
Live(c) == remote[Client(c)] # "none" /\ handler[c] # "done"

OneLive == \A c, d \in Conns : Live(c) /\ Live(d) => c = d

(* A forwarder runs only while its handler waits for it.                   *)
ForwardersRun ==
  \A k \in Sock :
    /\ fwd[k] # "none" => handler[k[1]] \in {"run", "done"}
    /\ fwd[k] \notin {"none", "ended"} => handler[k[1]] = "run"

TwoNumbers ==
  \A c \in Conns : handler[c] \in {"connect", "run"} => fd[Client(c)] # fd[Target(c)]

(* Until the handler has its second socket, the first number means the     *)
(* client.                                                                 *)
FirstNumber ==
  \A c \in Conns : handler[c] = "socket" =>
    fd[Client(c)] \in Fds /\ table[fd[Client(c)]] = Client(c)

(* Before stop() the number of the listening socket is nobody else's.      *)
ListenerKept ==
  /\ m_server_fd \in Fds \cup {NoFd}
  /\ stop \in {"idle", "close"} /\ m_server_fd # NoFd =>
       table[m_server_fd] = Listener /\ \A k \in Sock : fd[k] # m_server_fd

NobodyYet ==
  start \in {"idle", "socket"} =>
    (\A c \in Conns : handler[c] = "none") /\ \A k \in Sock : fd[k] = NoFd

Alone ==
  OneLive /\ ForwardersRun /\ TwoNumbers /\ FirstNumber /\ ListenerKept /\ NobodyYet

LEMMA NoFdIsNone == NoFd \notin Fds
  BY ProxyAssumption DEF NoFd

(* Whoever has a handler that is not done is the one that is live.         *)
LEMMA OnlyOne ==
  ASSUME Inv, OneLive, NEW c \in Conns, NEW d \in Conns,
         handler[c] \notin {"none", "done"}, Live(d)
  PROVE  c = d
  BY DEF Inv, WaitingOnce, OneLive, Live

(* Nobody comes to life but by ClientConnects.                             *)
LEMMA LiveKept ==
  ASSUME OneLive,
         \A c \in Conns : remote'[Client(c)] # "none" => remote[Client(c)] # "none",
         \A c \in Conns : handler[c] = "done" => handler'[c] = "done"
  PROVE  OneLive'
  BY DEF OneLive, Live

(* A step that touches neither handlers, numbers nor their meaning.        *)
LEMMA NumbersUntouched ==
  ASSUME Alone, UNCHANGED <<handler, fd, table>>,
         \A k \in Sock : \/ fwd'[k] = fwd[k]
                         \/ fwd[k] \notin {"none", "ended"} /\ fwd'[k] # "none"
  PROVE  ForwardersRun' /\ TwoNumbers' /\ FirstNumber'
<1>1. ForwardersRun'
  BY DEF Alone, ForwardersRun
<1> QED  BY <1>1 DEF Alone, TwoNumbers, FirstNumber

LEMMA AloneInit == Init => Alone
<1> SUFFICES ASSUME Init  PROVE Alone
  OBVIOUS
<1>1. OneLive
  BY Ends DEF Init, OneLive, Live
<1>2. ForwardersRun /\ TwoNumbers /\ FirstNumber
  BY Pairs, Ends DEF Init, ForwardersRun, TwoNumbers, FirstNumber
<1>3. ListenerKept /\ NobodyYet
  BY DEF Init, ListenerKept, NobodyYet
<1> QED  BY <1>1, <1>2, <1>3 DEF Alone

(* The steps of start().                                                   *)
LEMMA StartAlone ==
  ASSUME Inv, Alone, StartBegins \/ Start
  PROVE  Alone'
<1>1. CASE StartBegins \/ StartListen \/ StartCheck \/ Select \/ AcceptFails
  <2>1. /\ UNCHANGED <<handler, fd, fwd, remote, table, m_server_fd, stop>>
        /\ start' \in {"idle", "socket"} => start \in {"idle", "socket"}
    BY <1>1 DEF StartBegins, StartListen, StartCheck, Select, AcceptFails,
       connection, forwarder, network, proxy
  <2>2. OneLive'
    BY <2>1, LiveKept DEF Alone
  <2>3. ListenerKept' /\ NobodyYet'
    BY <2>1 DEF Alone, ListenerKept, NobodyYet
  <2> QED  BY <2>1, <2>2, <2>3, NumbersUntouched DEF Alone
<1>2. CASE StartSocket
  <2>1. /\ UNCHANGED <<handler, fd, fwd, remote, stop>>
        /\ start = "socket" /\ start' \in {"listen", "returned"}
    BY <1>2 DEF StartSocket, connection, forwarder, network
  <2>2. /\ \A c \in Conns : handler[c] = "none"
        /\ \A k \in Sock : fd[k] = NoFd
    BY <2>1 DEF Alone, NobodyYet
  <2>3. OneLive'
    BY <2>1, LiveKept DEF Alone
  <2>4. ForwardersRun' /\ TwoNumbers' /\ FirstNumber'
    BY <2>1, <2>2 DEF Alone, ForwardersRun, TwoNumbers, FirstNumber
  <2>5. ListenerKept'
    BY <1>2, <2>1, <2>2, NoFdIsNone DEF StartSocket, ListenerKept, Inv, TablesTyped
  <2>6. NobodyYet'
    BY <2>1 DEF NobodyYet
  <2> QED  BY <2>3, <2>4, <2>5, <2>6 DEF Alone
<1>3. CASE Accept
  <2> DEFINE c == Head(backlog)
  <2>1. c \in Conns /\ handler[c] = "none" /\ Live(c)
    <3>1. c = backlog[1] /\ 1 \in DOMAIN backlog /\ c \in Conns
      BY <1>3 DEF Accept, Inv, TablesTyped
    <3> QED  BY <3>1 DEF Inv, WaitingOnce, Live
  <2>2. PICK f \in Fds : /\ table[f] = Free
                         /\ table' = [table EXCEPT ![f] = Client(c)]
                         /\ fd' = [fd EXCEPT ![Client(c)] = f]
    BY <1>3 DEF Accept, LowestFree
  <2>3. /\ handler' = [handler EXCEPT ![c] = "socket"]
        /\ UNCHANGED <<fwd, remote, m_server_fd, stop>>
        /\ start' = "check"
    BY <1>3 DEF Accept, forwarder, proxy
  <2> HIDE DEF c
  <2>4. \A d \in Conns : d # c => handler[d] \in {"none", "done"} /\ handler'[d] = handler[d]
    BY <2>1, <2>3, OnlyOne DEF Alone, Inv, TablesTyped
  <2>5. handler'[c] = "socket"
    BY <2>1, <2>3 DEF Inv, TablesTyped
  <2>6. OneLive'
    <3>1. \A d \in Conns : handler[d] = "done" => handler'[d] = "done"
      BY <2>1, <2>4
    <3> QED  BY <2>3, <3>1, LiveKept DEF Alone
  <2>7. ForwardersRun'
    <3> SUFFICES ASSUME NEW k \in Sock
                 PROVE  /\ fwd[k] # "none" => handler'[k[1]] \in {"run", "done"}
                        /\ fwd[k] \notin {"none", "ended"} => handler'[k[1]] = "run"
      BY <2>3 DEF ForwardersRun
    <3> QED  BY <2>1, <2>4, Pairs DEF Alone, ForwardersRun
  <2>8. TwoNumbers'
    BY <2>4, <2>5 DEF TwoNumbers
  <2>9. FirstNumber'
    <3>1. fd'[Client(c)] \in Fds /\ table'[fd'[Client(c)]] = Client(c)
      BY <2>1, <2>2, Ends DEF Inv, TablesTyped
    <3> QED  BY <2>4, <3>1 DEF FirstNumber
  <2>10. ListenerKept'
    <3> SUFFICES ASSUME stop \in {"idle", "close"}, m_server_fd # NoFd
                 PROVE  table'[m_server_fd] = Listener /\ \A k \in Sock : fd'[k] # m_server_fd
      BY <2>3 DEF Alone, ListenerKept
    <3>1. table[m_server_fd] = Listener /\ f # m_server_fd
      BY <2>2 DEF Alone, ListenerKept, Free, Listener
    <3> QED  BY <2>2, <3>1 DEF Alone, ListenerKept, Inv, TablesTyped
  <2>11. NobodyYet'
    BY <2>3 DEF NobodyYet
  <2> QED  BY <2>6, <2>7, <2>8, <2>9, <2>10, <2>11 DEF Alone
<1> QED  BY <1>1, <1>2, <1>3 DEF Start

(* The steps of stop().                                                    *)
LEMMA StopAlone ==
  ASSUME Inv, Alone, StopBegins \/ Stop
  PROVE  Alone'
<1>1. CASE StopBegins \/ StopForgets \/ (StopCloses /\ m_server_fd = NoFd)
  <2>1. /\ UNCHANGED <<handler, fd, fwd, remote, table, start>>
        /\ stop' \in {"idle", "close"} /\ m_server_fd' # NoFd =>
             stop \in {"idle", "close"} /\ m_server_fd' = m_server_fd
        /\ m_server_fd' \in {m_server_fd, NoFd}
    BY <1>1 DEF StopBegins, StopForgets, StopCloses, connection, forwarder, network, proxy
  <2>2. OneLive'
    BY <2>1, LiveKept DEF Alone
  <2>3. ListenerKept' /\ NobodyYet'
    BY <2>1 DEF Alone, ListenerKept, NobodyYet
  <2> QED  BY <2>1, <2>2, <2>3, NumbersUntouched DEF Alone
<1>2. CASE StopCloses /\ m_server_fd # NoFd
  <2>1. /\ UNCHANGED <<handler, fd, fwd, start, m_server_fd>>
        /\ stop = "close" /\ stop' = "forget"
        /\ table' = Closing({m_server_fd})
        /\ remote' = [k \in Sock |-> IF \E i \in DOMAIN backlog : Client(backlog[i]) = k
                                     THEN "reset" ELSE remote[k]]
    BY <1>2 DEF StopCloses, connection, forwarder, proxy
  <2>2. OneLive'
    <3>1. \A k \in Sock : remote'[k] # "none" => remote[k] # "none"
      BY <2>1 DEF Inv, WaitingOnce
    <3> QED  BY <2>1, <3>1, Ends, LiveKept DEF Alone
  <2>3. ForwardersRun' /\ TwoNumbers'
    BY <2>1 DEF Alone, ForwardersRun, TwoNumbers
  <2>4. FirstNumber'
    <3> SUFFICES ASSUME NEW c \in Conns, handler[c] = "socket"
                 PROVE  fd[Client(c)] \in Fds /\ table'[fd[Client(c)]] = Client(c)
      BY <2>1 DEF FirstNumber
    <3>1. /\ fd[Client(c)] \in Fds /\ table[fd[Client(c)]] = Client(c)
          /\ fd[Client(c)] # m_server_fd
      BY <1>2, <2>1, Ends DEF Alone, FirstNumber, ListenerKept
    <3> QED  BY <2>1, <3>1 DEF Closing
  <2>5. ListenerKept' /\ NobodyYet'
    BY <2>1 DEF Alone, ListenerKept, NobodyYet
  <2> QED  BY <2>2, <2>3, <2>4, <2>5 DEF Alone
<1> QED  BY <1>1, <1>2 DEF Stop

(* The steps of a handler.                                                 *)
LEMMA HandlerAlone ==
  ASSUME Inv, Alone, NEW c \in Conns, Handle(c)
  PROVE  Alone'
<1>1. /\ handler[c] \in {"socket", "connect", "run"}
      /\ handler' = [handler EXCEPT ![c] = handler'[c]]
      /\ UNCHANGED <<start, stop, m_server_fd>>
      /\ \A d \in Conns : remote'[Client(d)] = remote[Client(d)]
  BY Ends DEF Handle, HandlerSocket, HandlerSocketFails, HandlerConnects,
     HandlerConnectFails, HandlerJoins, proxy, control, network, Inv, TablesTyped
<1>2. \A d \in Conns : d # c => handler[d] \in {"none", "done"} /\ handler'[d] = handler[d]
  <2>1. Live(c)
    BY <1>1 DEF Inv, WaitingOnce, Live
  <2>2. \A d \in Conns : d # c => handler[d] \in {"none", "done"}
    BY <2>1, OnlyOne DEF Alone
  <2> QED  BY <1>1, <2>2 DEF Inv, TablesTyped
<1>3. OneLive'
  <2>1. \A d \in Conns : handler[d] = "done" => handler'[d] = "done"
    BY <1>1, <1>2
  <2> QED  BY <1>1, <2>1, LiveKept DEF Alone
<1>4. NobodyYet'
  BY <1>1 DEF Alone, NobodyYet
<1>5. CASE HandlerSocket(c)
  <2>1. PICK f \in Fds : /\ table[f] = Free
                         /\ table' = [table EXCEPT ![f] = Target(c)]
                         /\ fd' = [fd EXCEPT ![Target(c)] = f]
    BY <1>5 DEF HandlerSocket, LowestFree
  <2>2. handler[c] = "socket" /\ handler'[c] = "connect" /\ fwd' = fwd
    BY <1>5 DEF HandlerSocket, forwarder, Inv, TablesTyped
  <2>3. ForwardersRun'
    <3>1. \A k \in Sock : k[1] = c => fwd[k] = "none"
      BY <2>2 DEF Alone, ForwardersRun
    <3> QED  BY <1>2, <2>2, <3>1, Pairs DEF Alone, ForwardersRun
  <2>4. TwoNumbers'
    <3>1. fd[Client(c)] # f
      BY <2>1, <2>2, Ends, FreeIsNoSocket DEF Alone, FirstNumber
    <3>2. fd'[Client(c)] # fd'[Target(c)]
      BY <2>1, <3>1, Ends DEF Inv, TablesTyped
    <3> QED  BY <1>2, <3>2 DEF TwoNumbers
  <2>5. FirstNumber'
    BY <1>2, <2>2 DEF FirstNumber
  <2>6. ListenerKept'
    <3> SUFFICES ASSUME stop \in {"idle", "close"}, m_server_fd # NoFd
                 PROVE  table'[m_server_fd] = Listener /\ \A k \in Sock : fd'[k] # m_server_fd
      BY <1>1 DEF Alone, ListenerKept
    <3>1. table[m_server_fd] = Listener /\ f # m_server_fd
      BY <2>1 DEF Alone, ListenerKept, Free, Listener
    <3> QED  BY <2>1, <3>1 DEF Alone, ListenerKept, Inv, TablesTyped
  <2> QED  BY <1>3, <1>4, <2>3, <2>4, <2>5, <2>6 DEF Alone
<1>6. CASE HandlerSocketFails(c) \/ HandlerConnectFails(c)
  <2>1. /\ handler[c] \in {"socket", "connect"} /\ handler'[c] = "done"
        /\ UNCHANGED <<fwd, fd>>
    BY <1>6 DEF HandlerSocketFails, HandlerConnectFails, forwarder, Inv, TablesTyped
  <2>2. ForwardersRun'
    <3>1. \A k \in Sock : k[1] = c => fwd[k] = "none"
      BY <2>1 DEF Alone, ForwardersRun
    <3> QED  BY <1>2, <2>1, <3>1, Pairs DEF Alone, ForwardersRun
  <2>3. TwoNumbers' /\ FirstNumber'
    BY <1>2, <2>1 DEF TwoNumbers, FirstNumber
  <2>4. ListenerKept'
    <3>1. table' = Closing({fd[Client(c)]}) \/ table' = Closing({fd[Client(c)], fd[Target(c)]})
      BY <1>6 DEF HandlerSocketFails, HandlerConnectFails
    <3> QED  BY <1>1, <2>1, <3>1, Ends DEF Alone, ListenerKept, Closing
  <2> QED  BY <1>3, <1>4, <2>2, <2>3, <2>4 DEF Alone
<1>7. CASE HandlerConnects(c) \/ HandlerJoins(c)
  <2>1. /\ handler[c] \in {"connect", "run"} /\ handler'[c] \in {"run", "done"}
        /\ UNCHANGED <<fd, table>>
    BY <1>7 DEF HandlerConnects, HandlerJoins, Inv, TablesTyped
  <2>2. \A k \in Sock : k[1] # c => fwd'[k] = fwd[k]
    BY <1>7, Ends, Pairs DEF HandlerConnects, HandlerJoins, forwarder, Inv, TablesTyped
  <2>3. \A k \in Sock : k[1] = c =>
           \/ handler'[c] = "run" /\ fwd'[k] = "check"
           \/ handler'[c] = "done" /\ fwd'[k] = "ended"
    BY <1>7, Ends, Pairs DEF HandlerConnects, HandlerJoins, forwarder, Inv, TablesTyped
  <2>4. ForwardersRun'
    BY <1>2, <2>2, <2>3, Pairs DEF Alone, ForwardersRun
  <2>5. TwoNumbers' /\ FirstNumber' /\ ListenerKept'
    BY <1>1, <1>2, <2>1 DEF Alone, TwoNumbers, FirstNumber, ListenerKept
  <2> QED  BY <1>3, <1>4, <2>4, <2>5 DEF Alone
<1> QED  BY <1>5, <1>6, <1>7 DEF Handle

(* The steps of a forwarder.                                               *)
LEMMA ForwarderAlone ==
  ASSUME Inv, Alone, NEW k \in Sock, Forward(k)
  PROVE  Alone'
<1>1. /\ UNCHANGED <<handler, fd, remote, start, stop, m_server_fd>>
      /\ fwd[k] \notin {"none", "ended"}
      /\ \A j \in Sock : j # k => fwd'[j] = fwd[j]
      /\ fwd'[k] # "none"
  BY DEF Forward, ForwardCheck, RecvEnters, RecvRefused, RecvEnds, NothingRead, RecvData,
     SendTakes, SendFails, SendKills, CloseSource, CloseDestination, connection, forwarder,
     network, proxy, control, Inv, TablesTyped
<1>2. handler[k[1]] = "run"
  BY <1>1 DEF Alone, ForwardersRun
<1>3. OneLive'
  BY <1>1, LiveKept DEF Alone
<1>4. ForwardersRun' /\ TwoNumbers' /\ NobodyYet'
  BY <1>1, <1>2 DEF Alone, ForwardersRun, TwoNumbers, NobodyYet
<1>5. FirstNumber'
  <2>1. \A d \in Conns : handler[d] # "socket"
    <3>1. Live(k[1])
      BY <1>2, Pairs DEF Inv, WaitingOnce, Live
    <3> QED  BY <1>2, <3>1, OnlyOne, Pairs DEF Alone
  <2> QED  BY <1>1, <2>1 DEF FirstNumber
<1>6. ListenerKept'
  <2>1. \/ table' = table \/ table' = Closing({fd[k]}) \/ table' = Closing({fd[Peer(k)]})
    BY DEF Forward, ForwardCheck, RecvEnters, RecvRefused, RecvEnds, NothingRead, RecvData,
       SendTakes, SendFails, SendKills, CloseSource, CloseDestination
  <2> QED  BY <1>1, <2>1, Pairs DEF Alone, ListenerKept, Closing
<1> QED  BY <1>3, <1>4, <1>5, <1>6 DEF Alone

(* The steps of the programs at the other ends.                            *)
LEMMA RemoteAlone ==
  ASSUME Inv, Alone, ~Overlapping,
         \/ \E c \in Conns : ClientConnects(c)
         \/ \E k \in Sock : RemoteSends(k) \/ RemoteLeaves(k)
  PROVE  Alone'
<1>1. UNCHANGED <<handler, fd, fwd, table, start, stop, m_server_fd>>
  BY DEF ClientConnects, RemoteSends, RemoteLeaves, connection, forwarder, proxy, control
<1>2. OneLive'
  <2>1. ASSUME NEW c \in Conns, ClientConnects(c)
        PROVE  OneLive'
    <3>1. /\ \A d \in Conns : ~Live(d)
          /\ remote' = [remote EXCEPT ![Client(c)] = "open"]
      BY <2>1 DEF ClientConnects, Live
    <3>2. \A d \in Conns : d # c => remote'[Client(d)] = remote[Client(d)]
      BY <3>1, Ends DEF Inv, TablesTyped
    <3> QED  BY <1>1, <3>1, <3>2 DEF OneLive, Live
  <2>2. ASSUME NEW k \in Sock, RemoteSends(k) \/ RemoteLeaves(k)
        PROVE  OneLive'
    <3>1. \A j \in Sock : remote'[j] # "none" => remote[j] # "none"
      BY <2>2 DEF RemoteSends, RemoteLeaves, Inv, TablesTyped
    <3> QED  BY <1>1, <3>1, Ends, LiveKept DEF Alone
  <2> QED  BY <2>1, <2>2
<1>3. ListenerKept' /\ NobodyYet'
  BY <1>1 DEF Alone, ListenerKept, NobodyYet
<1> QED  BY <1>1, <1>2, <1>3, NumbersUntouched DEF Alone

LEMMA AloneStep ==
  ASSUME Inv, Alone, ~Overlapping, [Next]_vars
  PROVE  Alone'
<1>1. CASE UNCHANGED vars
  BY <1>1 DEF vars, proxy, control, connection, forwarder, network, Alone, OneLive, Live,
     ForwardersRun, TwoNumbers, FirstNumber, ListenerKept, NobodyYet
<1> QED
  BY <1>1, StartAlone, StopAlone, HandlerAlone, ForwarderAlone, RemoteAlone DEF Next

(* A number that a running connection holds means its own socket, or       *)
(* nothing that data could be read from or written to.                     *)
LEMMA MeansItsOwn ==
  ASSUME Inv, Alone, NEW k \in Sock, handler[k[1]] = "run", Meaning(fd[k]) \in Sock
  PROVE  Meaning(fd[k]) = k
<1> DEFINE s == Meaning(fd[k])
<1>1. fd[k] \in Fds /\ table[fd[k]] = s
  BY FreeIsNoSocket DEF Meaning
<1>2. fd[s] = fd[k] /\ handler[s[1]] \in {"socket", "connect", "run"}
  BY <1>1 DEF Inv, HeldUntilClosed, Held
<1> HIDE DEF s
<1>3. s \in Sock /\ s[1] \in Conns /\ k[1] \in Conns
  BY Pairs DEF s
<1>4. s[1] = k[1]
  BY <1>2, <1>3, OnlyOne DEF Inv, Alone, WaitingOnce, Live
<1>5. fd[Client(k[1])] # fd[Target(k[1])]
  BY <1>3 DEF Alone, TwoNumbers
<1>6. s = k
  BY <1>2, <1>3, <1>4, <1>5, Pairs
<1> QED  BY <1>6 DEF s

-----------------------------------------------------------------------------
(* The units of a remote, from where they enter to where they leave        *)

AnyUnit == Sock \X Nat

(* The units of k that follow number from.                                 *)
Stretch(s, k, from) ==
  s \in Seq(AnyUnit) /\ \A i \in 1..Len(s) : s[i] = <<k, from + i>>

HandedOn(k) == Len(out[Peer(k)])
UnderWay(k) == Len(buf[k])
Waiting(k) == Len(inbox[k])

(* Every unit is handed on, under way or waiting.                          *)
Conserved(k) ==
  /\ Stretch(out[Peer(k)], k, 0)
  /\ Stretch(buf[k], k, HandedOn(k))
  /\ Stretch(inbox[k], k, HandedOn(k) + UnderWay(k))
  /\ sent[k] = HandedOn(k) + UnderWay(k) + Waiting(k)

(* The forwarder gave up in the middle, and will not go on.                *)
GivenUp(k) ==
  /\ ~connection_active[k[1]]
  /\ fwd[k] \in {"check", "close_src", "close_dst", "ended"}
  /\ Stretch(out[Peer(k)], k, 0)
  /\ HandedOn(k) <= sent[k]

StreamTypes ==
  /\ connection_active \in [Conns -> BOOLEAN]
  /\ reading \in [Sock -> Sock \cup {NoSock}]
  /\ sent \in [Sock -> Nat]
  /\ inbox \in [Sock -> Seq(AnyUnit)]
  /\ buf \in [Sock -> Seq(AnyUnit)]
  /\ out \in [Sock -> Seq(AnyUnit)]

(* A call of recv is under way on the thread's own socket.                 *)
ReadsItsOwn == \A k \in Sock : fwd[k] = "blocked" => reading[k] = k

BufferInUse == \A k \in Sock : fwd[k] # "send" => buf[k] = <<>>

Streams ==
  /\ StreamTypes /\ ReadsItsOwn /\ BufferInUse
  /\ \A k \in Sock : Conserved(k) \/ GivenUp(k)

LEMMA Lengths ==
  ASSUME StreamTypes, NEW k \in Sock
  PROVE  HandedOn(k) \in Nat /\ UnderWay(k) \in Nat /\ Waiting(k) \in Nat
  BY Pairs DEF StreamTypes, HandedOn, UnderWay, Waiting

LEMMA EmptyStretch ==
  ASSUME NEW k, NEW from
  PROVE  Stretch(<<>>, k, from) /\ Len(<<>>) = 0
  BY DEF Stretch

LEMMA StretchGrown ==
  ASSUME NEW k \in Sock, NEW from \in Nat, NEW s, Stretch(s, k, from),
         NEW n \in Nat, Len(s) = n
  PROVE  LET t == Append(s, <<k, from + n + 1>>)
         IN Stretch(t, k, from) /\ Len(t) = n + 1
<1> DEFINE S == AnyUnit
           u == <<k, from + n + 1>>
           t == Append(s, u)
<1>1. s \in Seq(S) /\ \A i \in 1..n : s[i] = <<k, from + i>>
  BY DEF Stretch
<1>2. u \in S
  BY DEF AnyUnit
<1> HIDE DEF S
<1>3. t \in Seq(S) /\ Len(t) = n + 1 /\ t[n + 1] = u
      /\ \A i \in 1..n : t[i] = s[i]
  <2> HIDE DEF u
  <2> QED  BY <1>1, <1>2
<1> HIDE DEF t
<1>4. ASSUME NEW i \in 1..Len(t)  PROVE t[i] = <<k, from + i>>
  <2>1. i \in 1..n \/ i = n + 1
    BY <1>3
  <2>2. from + n + 1 = from + (n + 1)
    OBVIOUS
  <2> QED  BY <1>1, <1>3, <2>1, <2>2
<1>5. Stretch(t, k, from)
  BY <1>3, <1>4 DEF Stretch, S
<1> QED  BY <1>3, <1>5 DEF t

LEMMA StretchCut ==
  ASSUME NEW k \in Sock, NEW from \in Nat, NEW s, Stretch(s, k, from),
         NEW m \in Nat, Len(s) = m, NEW n \in 1..m
  PROVE  LET head == SubSeq(s, 1, n)
             tail == SubSeq(s, n + 1, m)
         IN /\ Stretch(head, k, from) /\ Len(head) = n
            /\ Stretch(tail, k, from + n) /\ Len(tail) = m - n
<1> DEFINE S == AnyUnit
           head == SubSeq(s, 1, n)
           tail == SubSeq(s, n + 1, m)
<1>1. s \in Seq(S) /\ \A i \in 1..m : s[i] = <<k, from + i>>
  BY DEF Stretch
<1> HIDE DEF S
<1>2. n \in Nat /\ \A i \in 1..m : s[i] \in S
  BY <1>1
<1>3. /\ head \in Seq(S) /\ Len(head) = n
      /\ \A i \in 1..n : head[i] = s[i]
  <2>1. 1 \in Int /\ n \in Int /\ \A i \in 1..n : s[i] \in S
    BY <1>2
  <2>2. /\ head \in Seq(S) /\ Len(head) = IF 1 <= n THEN n - 1 + 1 ELSE 0
        /\ \A i \in 1..(n - 1 + 1) : head[i] = s[1 + i - 1]
    BY <2>1, SubSeqProperties
  <2> HIDE DEF head
  <2> QED  BY <1>2, <2>2
<1>4. /\ tail \in Seq(S) /\ Len(tail) = m - n
      /\ \A i \in 1..(m - n) : tail[i] = s[n + i]
  <2>1. n + 1 \in Int /\ m \in Int /\ \A i \in (n + 1)..m : s[i] \in S
    BY <1>2
  <2>2. /\ tail \in Seq(S)
        /\ Len(tail) = IF n + 1 <= m THEN m - (n + 1) + 1 ELSE 0
        /\ \A i \in 1..(m - (n + 1) + 1) : tail[i] = s[(n + 1) + i - 1]
    BY <2>1, SubSeqProperties
  <2> HIDE DEF tail
  <2>3. m - (n + 1) + 1 = m - n /\ (n + 1 <= m \/ m - n = 0)
    BY <1>2
  <2>4. Len(tail) = m - n
    BY <1>2, <2>2, <2>3
  <2>5. ASSUME NEW i \in 1..(m - n)  PROVE tail[i] = s[n + i]
    <3>1. i \in 1..(m - (n + 1) + 1) /\ (n + 1) + i - 1 = n + i
      BY <1>2, <2>3
    <3> QED  BY <2>2, <3>1
  <2> QED  BY <2>2, <2>4, <2>5
<1> HIDE DEF head, tail
<1>5. ASSUME NEW i \in 1..Len(head)  PROVE head[i] = <<k, from + i>>
  <2>1. i \in 1..n /\ i \in 1..m
    BY <1>2, <1>3
  <2> QED  BY <1>1, <1>3, <2>1
<1>6. ASSUME NEW i \in 1..Len(tail)  PROVE tail[i] = <<k, from + n + i>>
  <2>1. i \in 1..(m - n) /\ n + i \in 1..m /\ from + n + i = from + (n + i)
    BY <1>2, <1>4
  <2> QED  BY <1>1, <1>4, <2>1
<1>7. Stretch(head, k, from) /\ Stretch(tail, k, from + n)
  BY <1>3, <1>4, <1>5, <1>6 DEF Stretch, S
<1> QED  BY <1>3, <1>4, <1>7 DEF head, tail

LEMMA StretchJoined ==
  ASSUME NEW k \in Sock, NEW m \in Nat, NEW n \in Nat,
         NEW s, Stretch(s, k, 0), Len(s) = m, NEW t, Stretch(t, k, m), Len(t) = n
  PROVE  Stretch(s \o t, k, 0) /\ Len(s \o t) = m + n
<1> DEFINE S == AnyUnit
           st == s \o t
<1>1. /\ s \in Seq(S) /\ \A i \in 1..m : s[i] = <<k, 0 + i>>
      /\ t \in Seq(S) /\ \A i \in 1..n : t[i] = <<k, m + i>>
  BY DEF Stretch
<1> HIDE DEF S
<1>2. /\ st \in Seq(S) /\ Len(st) = m + n
      /\ \A i \in 1..(m + n) : st[i] = IF i <= m THEN s[i] ELSE t[i - m]
  BY <1>1, ConcatProperties
<1> HIDE DEF st
<1>3. ASSUME NEW i \in 1..Len(st)  PROVE st[i] = <<k, 0 + i>>
  <2>1. i \in 1..(m + n)
    BY <1>2
  <2>2. CASE i <= m
    BY <1>1, <1>2, <2>1, <2>2
  <2>3. CASE i > m
    <3>1. i - m \in 1..n /\ m + (i - m) = 0 + i
      BY <2>1, <2>3
    <3>2. t[i - m] = <<k, m + (i - m)>>
      BY <1>1, <3>1
    <3> QED  BY <1>2, <2>1, <2>3, <3>1, <3>2
  <2> QED  BY <2>1, <2>2, <2>3
<1>4. Stretch(st, k, 0)
  BY <1>2, <1>3 DEF Stretch, S
<1> QED  BY <1>2, <1>4 DEF st

(* What a stretch from the beginning is, in the words of StreamFaithful.   *)
LEMMA StretchIsPrefix ==
  ASSUME NEW k \in Sock, sent[k] \in Nat, NEW s, Stretch(s, k, 0),
         NEW m \in Nat, Len(s) = m, m <= sent[k]
  PROVE  /\ IsPrefix(s, UnitsOf(k))
         /\ m = sent[k] => s = UnitsOf(k)
<1> DEFINE S == AnyUnit
           t == UnitsOf(k)
<1>1. s \in Seq(S) /\ \A i \in 1..m : s[i] = <<k, i>>
  BY DEF Stretch
<1>2. t \in Seq(S) /\ Len(t) = sent[k] /\ \A i \in 1..sent[k] : t[i] = <<k, i>>
  BY DEF UnitsOf, AnyUnit
<1> HIDE DEF S, t
<1>3. m \in Nat
  OBVIOUS
<1>4. m = sent[k] => s = t
  BY <1>1, <1>2, SeqEqual
<1>5. SubSeq(s, 1, m) = s
  BY <1>1, SubSeqFull
<1>6. SubSeq(t, 1, m) = s
  <2> DEFINE h == SubSeq(t, 1, m)
  <2>1. 1 \in Int /\ m \in Int /\ \A i \in 1..m : t[i] \in S
    BY <1>2, <1>3
  <2>2. /\ h \in Seq(S) /\ Len(h) = IF 1 <= m THEN m - 1 + 1 ELSE 0
        /\ \A i \in 1..(m - 1 + 1) : h[i] = t[1 + i - 1]
    BY <2>1, SubSeqProperties
  <2> HIDE DEF h
  <2>3. Len(h) = m
    BY <1>3, <2>2
  <2>4. ASSUME NEW i \in 1..Len(h)  PROVE h[i] = s[i]
    <3>1. i \in 1..(m - 1 + 1) /\ 1 + i - 1 = i /\ i \in 1..m /\ i \in 1..sent[k]
      BY <1>3, <2>3
    <3> QED  BY <1>1, <1>2, <2>2, <3>1
  <2>5. h = s
    BY <1>1, <2>2, <2>3, <2>4, SeqEqual
  <2> QED  BY <2>5 DEF h
<1> QED  BY <1>2, <1>4, <1>5, <1>6 DEF IsPrefix, t

LEMMA StreamsInit == Init => Streams
<1> SUFFICES ASSUME Init  PROVE Streams
  OBVIOUS
<1>1. <<>> \in Seq(AnyUnit) /\ Len(<<>>) = 0
  OBVIOUS
<1>2. StreamTypes
  BY <1>1 DEF Init, StreamTypes
<1>3. ReadsItsOwn /\ BufferInUse
  BY DEF Init, ReadsItsOwn, BufferInUse
<1>4. ASSUME NEW k \in Sock  PROVE Conserved(k)
  <2>1. out[Peer(k)] = <<>> /\ buf[k] = <<>> /\ inbox[k] = <<>> /\ sent[k] = 0
    BY Pairs DEF Init
  <2>2. HandedOn(k) = 0 /\ UnderWay(k) = 0 /\ Waiting(k) = 0
    BY <1>1, <2>1 DEF HandedOn, UnderWay, Waiting
  <2> QED  BY <2>1, <2>2, EmptyStretch DEF Conserved
<1> QED  BY <1>2, <1>3, <1>4 DEF Streams

(* A step that touches no stream of k's.                                   *)
LEMMA StreamUntouched ==
  ASSUME NEW k \in Sock, Conserved(k) \/ GivenUp(k),
         connection_active'[k[1]] => connection_active[k[1]],
         UNCHANGED <<fwd[k], buf[k], inbox[k], sent[k], out[Peer(k)]>>
  PROVE  (Conserved(k) \/ GivenUp(k))'
<1>1. HandedOn(k)' = HandedOn(k) /\ UnderWay(k)' = UnderWay(k) /\ Waiting(k)' = Waiting(k)
  BY DEF HandedOn, UnderWay, Waiting
<1> QED  BY <1>1 DEF Conserved, GivenUp

LEMMA StreamsUntouched ==
  ASSUME Streams, UNCHANGED <<fwd, buf, reading, sent, inbox, out, connection_active>>
  PROVE  Streams'
<1>1. \A k \in Sock : (Conserved(k) \/ GivenUp(k))'
  BY StreamUntouched DEF Streams
<1> QED  BY <1>1 DEF Streams, StreamTypes, ReadsItsOwn, BufferInUse

LEMMA HandlerStreams ==
  ASSUME Inv, Alone, Streams, NEW c \in Conns, Handle(c)
  PROVE  Streams'
<1>1. CASE ~HandlerConnects(c)
  <2>1. UNCHANGED <<fwd, buf, reading, sent, inbox, out, connection_active>>
    BY <1>1 DEF Handle, HandlerSocket, HandlerSocketFails, HandlerConnectFails, HandlerJoins,
       forwarder, network
  <2> QED  BY <2>1, StreamsUntouched
<1>2. CASE HandlerConnects(c)
  <2>1. /\ handler[c] = "connect"
        /\ UNCHANGED <<buf, reading, sent, inbox, out>>
        /\ connection_active' = [connection_active EXCEPT ![c] = TRUE]
        /\ fwd' = [fwd EXCEPT ![Client(c)] = "check", ![Target(c)] = "check"]
    BY <1>2 DEF HandlerConnects
  <2>2. \A k \in Sock : k[1] = c => fwd[k] = "none" /\ fwd'[k] = "check"
    BY <2>1, Ends, Pairs DEF Alone, ForwardersRun, Inv, TablesTyped
  <2>3. \A k \in Sock : k[1] # c => fwd'[k] = fwd[k]
    BY <2>1, Ends, Pairs DEF Inv, TablesTyped
  <2>4. StreamTypes'
    BY <2>1 DEF Streams, StreamTypes
  <2>5. ReadsItsOwn' /\ BufferInUse'
    BY <2>1, <2>2, <2>3 DEF Streams, ReadsItsOwn, BufferInUse
  <2>6. ASSUME NEW k \in Sock  PROVE (Conserved(k) \/ GivenUp(k))'
    <3>1. CASE k[1] = c
      <4>1. Conserved(k)
        BY <2>2, <3>1 DEF Streams, GivenUp
      <4> QED  BY <2>1, <4>1 DEF Conserved, HandedOn, UnderWay, Waiting
    <3>2. CASE k[1] # c
      <4>1. connection_active'[k[1]] = connection_active[k[1]]
        BY <2>1, <3>2, Pairs DEF Streams, StreamTypes
      <4>2. UNCHANGED <<fwd[k], buf[k], inbox[k], sent[k], out[Peer(k)]>>
        BY <2>1, <2>3, <3>2
      <4> QED  BY <4>1, <4>2, StreamUntouched DEF Streams
    <3> QED  BY <3>1, <3>2
  <2> QED  BY <2>4, <2>5, <2>6 DEF Streams
<1> QED  BY <1>1, <1>2

LEMMA RemoteStreams ==
  ASSUME Streams, NEW k \in Sock, RemoteSends(k)
  PROVE  Streams'
<1>1. /\ UNCHANGED <<fwd, buf, reading, out, connection_active>>
      /\ sent' = [sent EXCEPT ![k] = @ + 1]
      /\ inbox' = [inbox EXCEPT ![k] = Append(@, <<k, sent[k] + 1>>)]
  BY DEF RemoteSends, connection, forwarder
<1>2. sent[k] \in Nat /\ sent'[k] = sent[k] + 1
  BY <1>1 DEF Streams, StreamTypes
<1>3. inbox[k] \in Seq(AnyUnit) /\ inbox'[k] = Append(inbox[k], <<k, sent[k] + 1>>)
  BY <1>1 DEF Streams, StreamTypes
<1>4. \A j \in Sock : j # k => sent'[j] = sent[j] /\ inbox'[j] = inbox[j]
  BY <1>1 DEF Streams, StreamTypes
<1>5. StreamTypes'
  <2>1. <<k, sent[k] + 1>> \in AnyUnit
    BY <1>2 DEF AnyUnit
  <2>2. inbox'[k] \in Seq(AnyUnit)
    <3> HIDE DEF AnyUnit
    <3> QED  BY <1>3, <2>1
  <2> QED  BY <1>1, <1>2, <2>2 DEF Streams, StreamTypes
<1>6. ReadsItsOwn' /\ BufferInUse'
  BY <1>1 DEF Streams, ReadsItsOwn, BufferInUse
<1>7. ASSUME NEW j \in Sock  PROVE (Conserved(j) \/ GivenUp(j))'
  <2>1. CASE j # k
    BY <1>1, <1>4, <2>1, StreamUntouched DEF Streams
  <2>2. CASE j = k /\ GivenUp(k)
    <3>1. HandedOn(k) \in Nat /\ HandedOn(k)' = HandedOn(k)
      BY <1>1, Lengths DEF Streams, HandedOn
    <3>2. HandedOn(k)' <= sent'[k]
      BY <1>2, <2>2, <3>1 DEF GivenUp
    <3>3. GivenUp(k)'
      BY <1>1, <2>2, <3>2 DEF GivenUp
    <3> QED  BY <2>2, <3>3
  <2>3. CASE j = k /\ Conserved(k)
    <3>1. HandedOn(k) \in Nat /\ UnderWay(k) \in Nat /\ Waiting(k) \in Nat
      BY Lengths DEF Streams
    <3>2. HandedOn(k)' = HandedOn(k) /\ UnderWay(k)' = UnderWay(k)
      BY <1>1 DEF HandedOn, UnderWay
    <3>3. PICK from \in Nat : from = HandedOn(k) + UnderWay(k)
      BY <3>1
    <3>4. /\ Stretch(inbox[k], k, from) /\ Len(inbox[k]) = Waiting(k)
          /\ sent[k] + 1 = from + Waiting(k) + 1
      BY <2>3, <3>1, <3>3 DEF Conserved, Waiting
    <3>5. Stretch(inbox'[k], k, from) /\ Len(inbox'[k]) = Waiting(k) + 1
      BY <1>3, <3>1, <3>4, StretchGrown
    <3>6. Waiting(k)' = Waiting(k) + 1
      BY <3>5 DEF Waiting
    <3>7. sent'[k] = HandedOn(k)' + UnderWay(k)' + Waiting(k)'
      BY <1>2, <3>1, <3>2, <3>3, <3>4, <3>6
    <3> QED  BY <1>1, <2>3, <3>2, <3>3, <3>5, <3>7 DEF Conserved
  <2> QED  BY <2>1, <2>2, <2>3 DEF Streams
<1> QED  BY <1>5, <1>6, <1>7 DEF Streams

(* The steps of a forwarder: those after which its connection is no longer *)
(* active, or that only look at it, ...                                    *)
LEMMA ForwarderLeavesStreams ==
  ASSUME Inv, Streams, NEW k \in Sock,
         \/ ForwardCheck(k) \/ RecvRefused(k) \/ RecvEnds(k) \/ SendFails(k)
         \/ SendKills(k) \/ CloseSource(k) \/ CloseDestination(k)
  PROVE  Streams'
<1>1. /\ UNCHANGED <<sent, inbox, out>>
      /\ connection_active' \in {connection_active,
                                 [connection_active EXCEPT ![k[1]] = FALSE]}
      /\ reading' \in {reading, [reading EXCEPT ![k] = NoSock]}
      /\ buf' \in {buf, [buf EXCEPT ![k] = <<>>]}
      /\ fwd' = [fwd EXCEPT ![k] = fwd'[k]]
  BY DEF ForwardCheck, RecvRefused, RecvEnds, NothingRead, SendFails, SendKills, CloseSource,
     CloseDestination, connection, forwarder, network, Inv, TablesTyped
<1>2. StreamTypes'
  <2>1. <<>> \in Seq(AnyUnit) /\ k[1] \in Conns
    BY Pairs
  <2>2. buf' \in [Sock -> Seq(AnyUnit)]
    BY <1>1, <2>1 DEF Streams, StreamTypes
  <2>3. reading' \in [Sock -> Sock \cup {NoSock}]
    BY <1>1 DEF Streams, StreamTypes
  <2>4. connection_active' \in [Conns -> BOOLEAN]
    BY <1>1, <2>1 DEF Streams, StreamTypes
  <2> QED  BY <1>1, <2>2, <2>3, <2>4 DEF Streams, StreamTypes
<1>3. \A j \in Sock : j # k => UNCHANGED <<fwd[j], buf[j], reading[j]>>
  BY <1>1 DEF Inv, TablesTyped, Streams, StreamTypes
<1>4. /\ fwd'[k] # "blocked" /\ (fwd'[k] = "send" => SendKills(k))
  BY DEF ForwardCheck, RecvRefused, RecvEnds, NothingRead, SendFails, SendKills, CloseSource,
     CloseDestination, forwarder, Inv, TablesTyped
<1>5. fwd'[k] # "send" => buf'[k] = <<>>
  BY DEF ForwardCheck, RecvRefused, RecvEnds, NothingRead, SendFails, SendKills, CloseSource,
     CloseDestination, forwarder, Inv, TablesTyped, Streams, StreamTypes, BufferInUse
<1>6. ReadsItsOwn' /\ BufferInUse'
  BY <1>3, <1>4, <1>5 DEF Streams, ReadsItsOwn, BufferInUse
<1>7. \A j \in Sock : connection_active'[j[1]] => connection_active[j[1]]
  BY <1>1, Pairs DEF Streams, StreamTypes
<1>8. ASSUME NEW j \in Sock, j # k  PROVE (Conserved(j) \/ GivenUp(j))'
  BY <1>1, <1>3, <1>7, <1>8, StreamUntouched DEF Streams
<1>9. (Conserved(k) \/ GivenUp(k))'
  <2>1. CASE SendFails(k)
    <3>1. /\ ~connection_active'[k[1]] /\ fwd'[k] = "check" /\ fwd[k] = "send"
      BY <2>1, Pairs DEF SendFails, Inv, TablesTyped, Streams, StreamTypes
    <3>2. Conserved(k)
      BY <3>1 DEF Streams, GivenUp
    <3>3. HandedOn(k) \in Nat /\ UnderWay(k) \in Nat /\ Waiting(k) \in Nat
      BY Lengths DEF Streams
    <3>4. HandedOn(k) <= sent[k] /\ HandedOn(k)' = HandedOn(k)
      BY <1>1, <3>2, <3>3 DEF Conserved, HandedOn
    <3>5. GivenUp(k)'
      BY <1>1, <3>1, <3>2, <3>4 DEF GivenUp, Conserved
    <3> QED  BY <3>5
  <2>2. CASE ~SendFails(k)
    <3>1. buf' = buf
      BY <2>2 DEF ForwardCheck, RecvRefused, RecvEnds, NothingRead, SendFails, SendKills,
         CloseSource, CloseDestination, forwarder
    <3>2. CASE Conserved(k)
      BY <1>1, <3>1, <3>2 DEF Conserved, HandedOn, UnderWay, Waiting
    <3>3. CASE GivenUp(k)
      <4>1. ~connection_active[k[1]] /\ ~connection_active'[k[1]]
        BY <1>7, <3>3 DEF GivenUp
      <4>2. fwd'[k] \in {"check", "close_src", "close_dst", "ended"}
        BY <2>2, <3>3, <4>1 DEF ForwardCheck, RecvRefused, RecvEnds, NothingRead, SendKills,
           CloseSource, CloseDestination, forwarder, Inv, TablesTyped, GivenUp
      <4>3. GivenUp(k)'
        BY <1>1, <3>3, <4>1, <4>2 DEF GivenUp, HandedOn
      <4> QED  BY <4>3
    <3> QED  BY <3>2, <3>3 DEF Streams
  <2> QED  BY <2>1, <2>2
<1> QED  BY <1>2, <1>6, <1>8, <1>9 DEF Streams

(* ... the call of recv, which looks its own number up, ...                *)
LEMMA EnterStreams ==
  ASSUME Inv, Alone, Streams, NEW k \in Sock, RecvEnters(k)
  PROVE  Streams'
<1>1. /\ UNCHANGED <<sent, inbox, out, buf, connection_active>>
      /\ fwd[k] = "recv" /\ Meaning(fd[k]) \in Sock
      /\ reading' = [reading EXCEPT ![k] = Meaning(fd[k])]
      /\ fwd' = [fwd EXCEPT ![k] = "blocked"]
  BY DEF RecvEnters, connection, network
<1>2. Meaning(fd[k]) = k
  BY <1>1, MeansItsOwn DEF Alone, ForwardersRun
<1>3. StreamTypes'
  BY <1>1 DEF Streams, StreamTypes
<1>4. ReadsItsOwn' /\ BufferInUse'
  BY <1>1, <1>2 DEF Streams, StreamTypes, ReadsItsOwn, BufferInUse, Inv, TablesTyped
<1>5. ASSUME NEW j \in Sock  PROVE (Conserved(j) \/ GivenUp(j))'
  <2>1. CASE j = k
    <3>1. Conserved(k)
      BY <1>1 DEF Streams, GivenUp
    <3> QED  BY <1>1, <2>1, <3>1 DEF Conserved, HandedOn, UnderWay, Waiting
  <2>2. CASE j # k
    <3>1. fwd'[j] = fwd[j]
      BY <1>1, <2>2 DEF Inv, TablesTyped
    <3> QED  BY <1>1, <3>1, StreamUntouched DEF Streams
  <2> QED  BY <2>1, <2>2
<1> QED  BY <1>3, <1>4, <1>5 DEF Streams

(* ... its return with data, ...                                           *)
LEMMA ReadStreams ==
  ASSUME Inv, Streams, NEW k \in Sock, RecvData(k)
  PROVE  Streams'
<1>1. fwd[k] = "blocked" /\ reading[k] = k /\ buf[k] = <<>> /\ Conserved(k)
  BY DEF RecvData, Streams, ReadsItsOwn, BufferInUse, GivenUp
<1>2. PICK n \in 1..Len(inbox[k]) :
        /\ buf' = [buf EXCEPT ![k] = SubSeq(inbox[k], 1, n)]
        /\ inbox' = [inbox EXCEPT ![k] = SubSeq(@, n + 1, Len(@))]
  BY <1>1 DEF RecvData
<1>3. /\ UNCHANGED <<sent, out, connection_active>>
      /\ reading' = [reading EXCEPT ![k] = NoSock]
      /\ fwd' = [fwd EXCEPT ![k] = "send"]
  BY DEF RecvData, connection
<1>4. /\ buf'[k] = SubSeq(inbox[k], 1, n)
      /\ inbox'[k] = SubSeq(inbox[k], n + 1, Len(inbox[k]))
      /\ \A j \in Sock : j # k =>
           UNCHANGED <<buf[j], inbox[j], fwd[j], reading[j]>>
      /\ fwd'[k] = "send"
  BY <1>2, <1>3 DEF Streams, StreamTypes, Inv, TablesTyped
<1>5. HandedOn(k) \in Nat /\ UnderWay(k) = 0 /\ Waiting(k) \in Nat /\ n \in Nat
      /\ n \in 1..Waiting(k)
  <2>1. Len(buf[k]) = 0
    BY <1>1
  <2> QED  BY <1>2, <2>1, Lengths DEF Streams, UnderWay, Waiting
<1>6. /\ Stretch(out[Peer(k)], k, 0) /\ Stretch(inbox[k], k, HandedOn(k))
      /\ Len(inbox[k]) = Waiting(k) /\ sent[k] = HandedOn(k) + Waiting(k)
  <2>1. HandedOn(k) + UnderWay(k) = HandedOn(k)
    BY <1>5
  <2> QED  BY <1>1, <2>1 DEF Conserved, Waiting
<1>7. buf'[k] = SubSeq(inbox[k], 1, n) /\ inbox'[k] = SubSeq(inbox[k], n + 1, Waiting(k))
  BY <1>4 DEF Waiting
<1>8. /\ Stretch(buf'[k], k, HandedOn(k)) /\ Len(buf'[k]) = n
      /\ Stretch(inbox'[k], k, HandedOn(k) + n) /\ Len(inbox'[k]) = Waiting(k) - n
  BY <1>5, <1>6, <1>7, StretchCut
<1>9. Conserved(k)'
  <2>1. HandedOn(k)' = HandedOn(k) /\ UnderWay(k)' = n /\ Waiting(k)' = Waiting(k) - n
    BY <1>3, <1>8 DEF HandedOn, UnderWay, Waiting
  <2>2. sent'[k] = HandedOn(k)' + UnderWay(k)' + Waiting(k)'
    BY <1>3, <1>5, <1>6, <2>1
  <2> QED  BY <1>3, <1>6, <1>8, <2>1, <2>2 DEF Conserved
<1>10. StreamTypes'
  <2>1. buf'[k] \in Seq(AnyUnit) /\ inbox'[k] \in Seq(AnyUnit)
    BY <1>8 DEF Stretch
  <2> QED  BY <1>2, <1>3, <2>1 DEF Streams, StreamTypes
<1>11. ReadsItsOwn' /\ BufferInUse'
  BY <1>4 DEF Streams, ReadsItsOwn, BufferInUse
<1>12. ASSUME NEW j \in Sock, j # k  PROVE (Conserved(j) \/ GivenUp(j))'
  BY <1>3, <1>4, <1>12, StreamUntouched DEF Streams
<1> QED  BY <1>9, <1>10, <1>11, <1>12 DEF Streams

(* ... and the call of send, which looks up its peer's.                    *)
LEMMA SendStreams ==
  ASSUME Inv, Alone, Streams, NEW k \in Sock, SendTakes(k)
  PROVE  Streams'
<1> DEFINE p == Peer(k)
<1>1. fwd[k] = "send" /\ Conserved(k)
  BY DEF SendTakes, Streams, GivenUp
<1>2. Meaning(fd[p]) = p
  <2>1. handler[k[1]] = "run"
    BY <1>1 DEF Alone, ForwardersRun
  <2> QED  BY <2>1, Pairs, MeansItsOwn DEF SendTakes, Writable
<1>3. PICK n \in 1..Len(buf[k]) :
        /\ out' = [out EXCEPT ![p] = @ \o SubSeq(buf[k], 1, n)]
        /\ buf' = [buf EXCEPT ![k] = SubSeq(@, n + 1, Len(@))]
        /\ fwd' = [fwd EXCEPT ![k] = IF n = Len(buf[k]) THEN "check" ELSE "send"]
  BY <1>2 DEF SendTakes
<1>4. UNCHANGED <<sent, inbox, reading, connection_active>>
  BY DEF SendTakes, connection
<1>5. p \in Sock /\ \A j \in Sock : j # k => Peer(j) \in Sock /\ Peer(j) # p
  BY Pairs
<1> HIDE DEF p
<1>6. /\ out'[p] = out[p] \o SubSeq(buf[k], 1, n)
      /\ buf'[k] = SubSeq(buf[k], n + 1, Len(buf[k]))
      /\ fwd'[k] = IF n = Len(buf[k]) THEN "check" ELSE "send"
      /\ \A j \in Sock : j # k => UNCHANGED <<buf[j], fwd[j], out[Peer(j)]>>
  BY <1>3, <1>5 DEF Streams, StreamTypes, Inv, TablesTyped
<1>7. HandedOn(k) \in Nat /\ UnderWay(k) \in Nat /\ Waiting(k) \in Nat /\ n \in Nat
      /\ n \in 1..UnderWay(k) /\ n <= UnderWay(k)
      /\ Len(out[p]) = HandedOn(k) /\ Len(buf[k]) = UnderWay(k)
  BY <1>3, Lengths DEF Streams, UnderWay, HandedOn, p
<1>8. Stretch(out[p], k, 0) /\ Stretch(buf[k], k, HandedOn(k))
  BY <1>1 DEF Conserved, p
<1> DEFINE head == SubSeq(buf[k], 1, n)
<1>9. /\ Stretch(head, k, HandedOn(k)) /\ Len(head) = n
      /\ Stretch(buf'[k], k, HandedOn(k) + n) /\ Len(buf'[k]) = UnderWay(k) - n
  <2>1. buf'[k] = SubSeq(buf[k], n + 1, UnderWay(k))
    BY <1>6 DEF UnderWay
  <2> QED  BY <1>7, <1>8, <2>1, StretchCut
<1>10. Stretch(out'[p], k, 0) /\ Len(out'[p]) = HandedOn(k) + n
  <2>1. out'[p] = out[p] \o head
    BY <1>6
  <2>2. PICK a \in Nat : a = HandedOn(k)
    BY <1>7
  <2>3. /\ Stretch(out[p], k, 0) /\ Len(out[p]) = a
        /\ Stretch(head, k, a) /\ Len(head) = n
    BY <1>7, <1>8, <1>9, <2>2
  <2> HIDE DEF head
  <2>4. Stretch(out[p] \o head, k, 0) /\ Len(out[p] \o head) = a + n
    <3> DEFINE s == out[p]
    <3>1. Stretch(s, k, 0) /\ Len(s) = a /\ n \in Nat
      BY <1>7, <2>3
    <3> HIDE DEF s
    <3>2. Stretch(s \o head, k, 0) /\ Len(s \o head) = a + n
      BY <2>3, <3>1, StretchJoined
    <3> QED  BY <3>2 DEF s
  <2> QED  BY <2>1, <2>2, <2>4
<1> HIDE DEF head
<1>11. Conserved(k)'
  <2>1. /\ HandedOn(k)' = HandedOn(k) + n /\ UnderWay(k)' = UnderWay(k) - n
        /\ Waiting(k)' = Waiting(k)
    BY <1>4, <1>9, <1>10 DEF HandedOn, UnderWay, Waiting, p
  <2>2. HandedOn(k)' + UnderWay(k)' = HandedOn(k) + UnderWay(k)
    BY <1>7, <2>1
  <2>3. sent'[k] = HandedOn(k)' + UnderWay(k)' + Waiting(k)'
    BY <1>1, <1>4, <2>1, <2>2 DEF Conserved
  <2>4. Stretch(inbox'[k], k, HandedOn(k)' + UnderWay(k)')
    BY <1>1, <1>4, <2>2 DEF Conserved
  <2> QED  BY <1>9, <1>10, <2>1, <2>3, <2>4 DEF Conserved, p
<1>12. StreamTypes'
  <2>1. buf'[k] \in Seq(AnyUnit) /\ out'[p] \in Seq(AnyUnit)
    BY <1>9, <1>10 DEF Stretch
  <2> QED  BY <1>3, <1>4, <1>5, <2>1 DEF Streams, StreamTypes
<1>13. ReadsItsOwn' /\ BufferInUse'
  <2>1. ASSUME fwd'[k] # "send"  PROVE buf'[k] = <<>>
    <3>1. n = UnderWay(k)
      BY <1>6, <1>7, <2>1
    <3>2. Len(buf'[k]) = 0
      BY <1>7, <1>9, <3>1
    <3> QED  BY <1>9, <3>2, EmptySeq DEF Stretch
  <2>2. fwd'[k] # "blocked"
    BY <1>6
  <2> QED  BY <1>4, <1>6, <2>1, <2>2 DEF Streams, ReadsItsOwn, BufferInUse
<1>14. ASSUME NEW j \in Sock, j # k  PROVE (Conserved(j) \/ GivenUp(j))'
  BY <1>4, <1>6, <1>14, StreamUntouched DEF Streams
<1> QED  BY <1>11, <1>12, <1>13, <1>14 DEF Streams

LEMMA StreamsStep ==
  ASSUME Inv, Alone, Streams, [Next]_vars
  PROVE  Streams'
<1>1. CASE \/ StartBegins \/ Start \/ StopBegins \/ Stop \/ UNCHANGED vars
           \/ \E c \in Conns : ClientConnects(c)
           \/ \E k \in Sock : RemoteLeaves(k)
  <2>1. UNCHANGED <<fwd, buf, reading, sent, inbox, out, connection_active>>
    BY <1>1 DEF StartBegins, Start, StartSocket, StartListen, StartCheck, Select, Accept,
       AcceptFails, StopBegins, Stop, StopCloses, StopForgets, ClientConnects, RemoteLeaves,
       vars, connection, forwarder, network
  <2> QED  BY <2>1, StreamsUntouched
<1>2. ASSUME NEW k \in Sock, Forward(k)  PROVE Streams'
  BY <1>2, ForwarderLeavesStreams, EnterStreams, ReadStreams, SendStreams DEF Forward
<1> QED  BY <1>1, <1>2, HandlerStreams, RemoteStreams DEF Next

LEMMA StreamsFaithful ==
  ASSUME Streams
  PROVE  StreamFaithful /\ NoCrossTalk
<1>1. ASSUME NEW k \in Sock
      PROVE  /\ HandedOn(k) \in Nat /\ UnderWay(k) \in Nat /\ Waiting(k) \in Nat
             /\ sent[k] \in Nat
             /\ Stretch(out[Peer(k)], k, 0) /\ HandedOn(k) <= sent[k]
  <2>1. /\ HandedOn(k) \in Nat /\ UnderWay(k) \in Nat /\ Waiting(k) \in Nat
        /\ sent[k] \in Nat
    BY Lengths DEF Streams, StreamTypes
  <2> QED  BY <2>1 DEF Streams, Conserved, GivenUp
<1>2. ASSUME NEW k \in Sock, connection_active[k[1]]
      PROVE  out[Peer(k)] \o buf[k] \o inbox[k] = UnitsOf(k)
  <2>1. Conserved(k)
    BY <1>2 DEF Streams, GivenUp
  <2> DEFINE ob == out[Peer(k)] \o buf[k]
             obi == ob \o inbox[k]
  <2>2. PICK m \in Nat : m = HandedOn(k) + UnderWay(k)
    BY <1>1
  <2>3. Stretch(ob, k, 0) /\ Len(ob) = m
    <3>1. /\ Stretch(out[Peer(k)], k, 0) /\ Len(out[Peer(k)]) = HandedOn(k)
          /\ Stretch(buf[k], k, HandedOn(k)) /\ Len(buf[k]) = UnderWay(k)
      BY <2>1 DEF Conserved, HandedOn, UnderWay
    <3>2. PICK a \in Nat, b \in Nat : a = HandedOn(k) /\ b = UnderWay(k)
      BY <1>1
    <3>3. /\ Stretch(out[Peer(k)], k, 0) /\ Len(out[Peer(k)]) = a
          /\ Stretch(buf[k], k, a) /\ Len(buf[k]) = b /\ m = a + b
      BY <2>2, <3>1, <3>2
    <3>4. Stretch(ob, k, 0) /\ Len(ob) = a + b
      <4> DEFINE s == out[Peer(k)]
                 t == buf[k]
      <4>1. Stretch(s, k, 0) /\ Len(s) = a /\ Stretch(t, k, a) /\ Len(t) = b
        BY <3>3
      <4> HIDE DEF s, t
      <4>2. Stretch(s \o t, k, 0) /\ Len(s \o t) = a + b
        BY <4>1, StretchJoined
      <4> QED  BY <4>2 DEF s, t
    <3> QED  BY <3>3, <3>4
  <2> HIDE DEF ob
  <2>4. Stretch(obi, k, 0) /\ Len(obi) = m + Waiting(k)
    <3>1. Stretch(inbox[k], k, m) /\ Len(inbox[k]) = Waiting(k)
      BY <2>1, <2>2 DEF Conserved, Waiting
    <3> QED  BY <1>1, <2>3, <3>1, StretchJoined
  <2> HIDE DEF obi
  <2>5. m + Waiting(k) = sent[k]
    BY <2>1, <2>2 DEF Conserved
  <2>6. obi = UnitsOf(k)
    BY <1>1, <2>4, <2>5, StretchIsPrefix
  <2> QED  BY <2>6 DEF obi, ob
<1>3. StreamFaithful
  <2>1. ASSUME NEW k \in Sock  PROVE IsPrefix(out[Peer(k)], UnitsOf(k))
    <3>1. Len(out[Peer(k)]) = HandedOn(k)
      BY DEF HandedOn
    <3> QED  BY <1>1, <3>1, StretchIsPrefix
  <2> QED  BY <1>2, <2>1 DEF StreamFaithful
<1>4. NoCrossTalk
  <2> SUFFICES ASSUME NEW k \in Sock, NEW i \in DOMAIN out[k]
               PROVE  out[k][i][1] = Peer(k)
    BY DEF NoCrossTalk
  <2>1. Peer(k) \in Sock /\ Peer(Peer(k)) = k
    BY Pairs
  <2>2. out[k] \in Seq(AnyUnit) /\ \A n \in 1..Len(out[k]) : out[k][n] = <<Peer(k), 0 + n>>
    BY <1>1, <2>1 DEF Stretch
  <2>3. i \in 1..Len(out[k])
    BY <2>2
  <2> QED  BY <2>2, <2>3
<1> QED  BY <1>3, <1>4

(* When clients come one after another, whatever they, the target and      *)
(* stop() do, and whichever numbers are used again: each remote is handed  *)
(* what the other has sent, in order, once, and all of it that is not      *)
(* under way as long as the connection is active.  (proxy.cpp:203-252)     *)
THEOREM StreamFaithfulHolds ==
  ASSUME ~Overlapping
  PROVE  Spec => []StreamFaithful
<1>1. Inv /\ Alone /\ [Next]_vars => Alone'
  BY AloneStep
<1>2. Inv /\ Alone /\ Streams /\ [Next]_vars => Streams'
  BY StreamsStep
<1>3. Streams => StreamFaithful
  BY StreamsFaithful
<1> QED  BY InitInv, StepInv, AloneInit, StreamsInit, <1>1, <1>2, <1>3, PTL DEF Spec

(* Then no unit reaches a remote of another connection; with two clients   *)
(* at a time it may.  (proxy.cpp:133, 245-251)                             *)
THEOREM NoCrossTalkHolds ==
  ASSUME ~Overlapping
  PROVE  Spec => []NoCrossTalk
<1>1. Inv /\ Alone /\ [Next]_vars => Alone'
  BY AloneStep
<1>2. Inv /\ Alone /\ Streams /\ [Next]_vars => Streams'
  BY StreamsStep
<1>3. Streams => NoCrossTalk
  BY StreamsFaithful
<1> QED  BY InitInv, StepInv, AloneInit, StreamsInit, <1>1, <1>2, <1>3, PTL DEF Spec

-----------------------------------------------------------------------------
(* The rest of the types, overlapping or not                               *)

ControlTyped ==
  /\ m_running \in BOOLEAN /\ killed \in BOOLEAN
  /\ m_server_fd \in Fds \cup {NoFd}
  /\ start \in {"idle", "socket", "listen", "check", "select", "accept", "returned"}
  /\ stop \in {"idle", "close", "forget", "done"}
  /\ connection_active \in [Conns -> BOOLEAN]

UnitsTyped ==
  /\ buf \in [Sock -> Seq(Unit)] /\ inbox \in [Sock -> Seq(Unit)]
  /\ out \in [Sock -> Seq(Unit)]

(* However many clients may come, what was sent is finite, and the bound   *)
(* counts it.                                                              *)
SentUnits == {u \in Unit : u[2] <= sent[u[1]]}
Counted == sent \in [Sock -> 0..MaxSends] /\ IsFiniteSet(SentUnits)

(* What a forwarder holds goes with where it stands; it does not stand     *)
(* anywhere before the handler has started it.                             *)
InStep ==
  /\ reading \in [Sock -> Sock \cup {NoSock}]
  /\ \A k \in Sock :
       /\ fwd[k] = "blocked" <=> reading[k] \in Sock
       /\ fwd[k] = "send" <=> buf[k] # <<>>
       /\ handler[k[1]] \in {"none", "socket", "connect"} => fwd[k] = "none"

RestTyped == ControlTyped /\ UnitsTyped /\ Counted /\ InStep

LEMMA NoSockIsNone == NoSock \notin Sock
<1>1. \A k \in Sock : Len(k) = 2
  BY DEF Sock
<1>2. Len(NoSock) = 1
  BY DEF NoSock
<1> QED  BY <1>1, <1>2

LEMMA Parts ==
  ASSUME NEW S, NEW s \in Seq(S), NEW n \in 1..Len(s)
  PROVE  /\ SubSeq(s, 1, n) \in Seq(S) /\ SubSeq(s, 1, n) # <<>>
         /\ SubSeq(s, n + 1, Len(s)) \in Seq(S)
         /\ SubSeq(s, n + 1, Len(s)) = <<>> <=> n = Len(s)
<1>1. PICK m \in Nat : m = Len(s)
  OBVIOUS
<1> DEFINE head == SubSeq(s, 1, n)
           tail == SubSeq(s, n + 1, m)
<1>2. \A i \in 1..m : s[i] \in S
  BY <1>1
<1>3. head \in Seq(S) /\ Len(head) = n
  <2>1. 1 \in Int /\ n \in Int /\ \A i \in 1..n : s[i] \in S
    BY <1>1, <1>2
  <2>2. head \in Seq(S) /\ Len(head) = IF 1 <= n THEN n - 1 + 1 ELSE 0
    BY <2>1, SubSeqProperties
  <2> HIDE DEF head
  <2> QED  BY <1>1, <2>2
<1>4. tail \in Seq(S) /\ Len(tail) = m - n
  <2>1. n + 1 \in Int /\ m \in Int /\ \A i \in (n + 1)..m : s[i] \in S
    BY <1>1, <1>2
  <2>2. tail \in Seq(S) /\ Len(tail) = IF n + 1 <= m THEN m - (n + 1) + 1 ELSE 0
    BY <2>1, SubSeqProperties
  <2> HIDE DEF tail
  <2> QED  BY <1>1, <2>2
<1> HIDE DEF head, tail
<1>5. head # <<>>
  BY <1>1, <1>3
<1>6. tail = <<>> <=> n = m
  <2>1. tail = <<>> <=> Len(tail) = 0
    BY <1>4, EmptySeq
  <2> QED  BY <1>1, <1>4, <2>1
<1> QED  BY <1>1, <1>3, <1>4, <1>5, <1>6 DEF head, tail

LEMMA RestStarts == Init => RestTyped
<1> SUFFICES ASSUME Init  PROVE RestTyped
  OBVIOUS
<1>1. ControlTyped
  BY DEF Init, ControlTyped
<1>2. UnitsTyped
  <2>1. <<>> \in Seq(Unit)
    OBVIOUS
  <2> QED  BY <2>1 DEF Init, UnitsTyped
<1>3. Counted
  <2>1. \A k \in Sock : sent[k] = 0
    BY DEF Init
  <2>2. SentUnits = {}
    BY <2>1 DEF SentUnits, Unit
  <2> QED  BY <2>2, FS_EmptySet, ProxyAssumption DEF Init, Counted
<1>4. InStep
  BY NoSockIsNone DEF Init, InStep
<1> QED  BY <1>1, <1>2, <1>3, <1>4 DEF RestTyped

LEMMA ControlStays ==
  ASSUME Inv, ControlTyped, [Next]_vars
  PROVE  ControlTyped'
<1>1. CASE StartBegins \/ Start
  BY <1>1 DEF StartBegins, Start, StartSocket, StartListen, StartCheck, Select, Accept,
     AcceptFails, ControlTyped, proxy, connection
<1>2. CASE StopBegins \/ Stop
  BY <1>2 DEF StopBegins, Stop, StopCloses, StopForgets, ControlTyped, proxy, connection
<1>3. ASSUME NEW c \in Conns, Handle(c)  PROVE ControlTyped'
  BY <1>3 DEF Handle, HandlerSocket, HandlerSocketFails, HandlerConnects, HandlerConnectFails,
     HandlerJoins, ControlTyped, proxy, control
<1>4. ASSUME NEW k \in Sock, Forward(k)  PROVE ControlTyped'
  <2>1. UNCHANGED <<proxy, control>> /\ killed' \in {killed, TRUE}
        /\ connection_active' \in {connection_active,
                                   [connection_active EXCEPT ![k[1]] = FALSE]}
    BY <1>4 DEF Forward, ForwardCheck, RecvEnters, RecvRefused, RecvEnds, NothingRead,
       RecvData, SendTakes, SendFails, SendKills, CloseSource, CloseDestination, connection
  <2> QED  BY <2>1 DEF ControlTyped, proxy, control
<1>5. CASE \/ \E c \in Conns : ClientConnects(c)
           \/ \E k \in Sock : RemoteSends(k) \/ RemoteLeaves(k)
           \/ UNCHANGED vars
  <2>1. UNCHANGED <<proxy, control, connection_active, killed>>
    BY <1>5 DEF ClientConnects, RemoteSends, RemoteLeaves, connection, vars
  <2> QED  BY <2>1 DEF ControlTyped, proxy, control
<1> QED  BY <1>1, <1>2, <1>3, <1>4, <1>5 DEF Next

(* One more unit is one more in the count, which has not reached the bound. *)
LEMMA SendingCounts ==
  ASSUME Counted, NEW k \in Sock, RemoteSends(k)
  PROVE  Counted' /\ sent[k] + 1 \in 1..MaxSends
<1>1. PICK n \in Nat : n = sent[k] /\ n <= MaxSends
  BY DEF Counted
<1>2. Cardinality(SentUnits) < MaxSends /\ sent' = [sent EXCEPT ![k] = @ + 1]
  BY DEF RemoteSends, SentUnits
<1>3. n <= Cardinality(SentUnits)
  <2> DEFINE mine == {<<k, i>> : i \in 1..n}
             f == [i \in 1..n |-> <<k, i>>]
  <2>1. mine \subseteq SentUnits
    BY <1>1, ProxyAssumption DEF SentUnits, Unit
  <2>2. IsFiniteSet(mine) /\ Cardinality(mine) <= Cardinality(SentUnits)
    BY <2>1, FS_Subset DEF Counted
  <2>3. f \in Injection(1..n, mine)
    BY DEF Injection, IsInjective
  <2>4. Cardinality(1..n) <= Cardinality(mine)
    <3> HIDE DEF f, mine
    <3> QED  BY <2>2, <2>3, FS_Injection
  <2>5. Cardinality(1..n) = n
    BY FS_Interval
  <2>6. Cardinality(mine) \in Nat /\ Cardinality(SentUnits) \in Nat
    BY <2>2, FS_CardinalityType DEF Counted
  <2> HIDE DEF mine
  <2> QED  BY <2>2, <2>4, <2>5, <2>6
<1>4. n + 1 \in 1..MaxSends
  <2>1. Cardinality(SentUnits) \in Nat
    BY FS_CardinalityType DEF Counted
  <2> QED  BY <1>2, <1>3, <2>1, ProxyAssumption
<1>5. sent' \in [Sock -> 0..MaxSends]
  BY <1>1, <1>2, <1>4 DEF Counted
<1>6. SentUnits' = SentUnits \cup {<<k, n + 1>>}
  <2>1. sent'[k] = n + 1 /\ \A j \in Sock : j # k => sent'[j] = sent[j]
    BY <1>1, <1>2 DEF Counted
  <2>2. ASSUME NEW j \in Sock, NEW i \in 1..MaxSends
        PROVE  i <= sent'[j] <=> (i <= sent[j] \/ <<j, i>> = <<k, n + 1>>)
    <3>1. CASE j = k
      <4>1. i <= n + 1 <=> (i <= n \/ i = n + 1)
        OBVIOUS
      <4> QED  BY <1>1, <2>1, <3>1, <4>1
    <3>2. CASE j # k
      BY <2>1, <3>2
    <3> QED  BY <3>1, <3>2
  <2>3. ASSUME NEW u \in Unit
        PROVE  u \in SentUnits' <=> (u \in SentUnits \/ u = <<k, n + 1>>)
    <3>1. PICK j \in Sock, i \in 1..MaxSends : u = <<j, i>>
      BY DEF Unit
    <3> QED  BY <2>2, <3>1 DEF SentUnits
  <2>4. <<k, n + 1>> \in Unit
    BY <1>4 DEF Unit
  <2>5. SentUnits' \subseteq Unit /\ SentUnits \subseteq Unit
    BY DEF SentUnits, Unit
  <2> QED  BY <2>3, <2>4, <2>5
<1>7. IsFiniteSet(SentUnits')
  BY <1>6, FS_AddElement DEF Counted
<1> QED  BY <1>1, <1>4, <1>5, <1>7 DEF Counted

LEMMA UnitsStay ==
  ASSUME Inv, RestTyped, [Next]_vars
  PROVE  UnitsTyped'
<1> USE DEF RestTyped
<1>1. CASE UNCHANGED <<buf, inbox, out>>
  BY <1>1 DEF UnitsTyped
<1>2. ASSUME NEW k \in Sock, SendFails(k)  PROVE UnitsTyped'
  <2>1. <<>> \in Seq(Unit)
    OBVIOUS
  <2> QED  BY <1>2, <2>1 DEF SendFails, UnitsTyped, network
<1>3. ASSUME NEW k \in Sock, RecvData(k)  PROVE UnitsTyped'
  <2> DEFINE S == Unit
             s == inbox[reading[k]]
  <2>1. reading[k] \in Sock /\ s \in Seq(S)
    BY <1>3 DEF RecvData, InStep, UnitsTyped
  <2>2. PICK n \in 1..Len(s) :
          /\ buf' = [buf EXCEPT ![k] = SubSeq(s, 1, n)]
          /\ inbox' = [inbox EXCEPT ![reading[k]] = SubSeq(s, n + 1, Len(s))]
          /\ out' = out
    BY <1>3, <2>1 DEF RecvData, UnitsTyped
  <2> HIDE DEF S, s
  <2>3. SubSeq(s, 1, n) \in Seq(S) /\ SubSeq(s, n + 1, Len(s)) \in Seq(S)
    BY <2>1, Parts
  <2>4. SubSeq(s, 1, n) \in Seq(Unit) /\ SubSeq(s, n + 1, Len(s)) \in Seq(Unit)
    BY <2>3 DEF S
  <2> QED  BY <2>1, <2>2, <2>4 DEF UnitsTyped
<1>4. ASSUME NEW k \in Sock, SendTakes(k)  PROVE UnitsTyped'
  <2> DEFINE S == Unit
             b == buf[k]
  <2>1. PICK s \in Sock : s = Meaning(fd[Peer(k)])
    BY <1>4 DEF SendTakes, Writable
  <2> DEFINE o == out[s]
  <2>2. b \in Seq(S) /\ o \in Seq(S)
    BY <2>1 DEF UnitsTyped
  <2>3. PICK n \in 1..Len(b) :
          /\ out' = [out EXCEPT ![s] = o \o SubSeq(b, 1, n)]
          /\ buf' = [buf EXCEPT ![k] = SubSeq(b, n + 1, Len(b))]
          /\ inbox' = inbox
    BY <1>4, <2>1 DEF SendTakes, UnitsTyped
  <2> HIDE DEF S, b, o
  <2>4. SubSeq(b, 1, n) \in Seq(S) /\ SubSeq(b, n + 1, Len(b)) \in Seq(S)
    BY <2>2, Parts
  <2>5. o \o SubSeq(b, 1, n) \in Seq(S)
    BY <2>2, <2>4, ConcatProperties
  <2>6. o \o SubSeq(b, 1, n) \in Seq(Unit) /\ SubSeq(b, n + 1, Len(b)) \in Seq(Unit)
    BY <2>4, <2>5 DEF S
  <2> QED  BY <2>3, <2>6 DEF UnitsTyped
<1>5. ASSUME NEW k \in Sock, RemoteSends(k)  PROVE UnitsTyped'
  <2> DEFINE u == <<k, sent[k] + 1>>
             s == inbox[k]
             S == Unit
  <2>1. u \in S /\ s \in Seq(S)
    BY <1>5, SendingCounts DEF Unit, UnitsTyped
  <2>2. inbox' = [inbox EXCEPT ![k] = Append(s, u)] /\ UNCHANGED <<buf, out>>
    BY <1>5 DEF RemoteSends, forwarder, UnitsTyped
  <2> HIDE DEF S, s, u
  <2>3. Append(s, u) \in Seq(S)
    BY <2>1
  <2>4. Append(s, u) \in Seq(Unit)
    BY <2>3 DEF S
  <2> QED  BY <2>2, <2>4 DEF UnitsTyped
<1>6. CASE \/ StartBegins \/ Start \/ StopBegins \/ Stop \/ UNCHANGED vars
           \/ \E c \in Conns : Handle(c) \/ ClientConnects(c)
           \/ \E k \in Sock : RemoteLeaves(k)
  BY <1>1, <1>6 DEF StartBegins, Start, StartSocket, StartListen, StartCheck, Select, Accept,
     AcceptFails, StopBegins, Stop, StopCloses, StopForgets, Handle, HandlerSocket,
     HandlerSocketFails, HandlerConnects, HandlerConnectFails, HandlerJoins, ClientConnects,
     RemoteLeaves, vars, forwarder, network
<1>7. ASSUME NEW k \in Sock, Forward(k)  PROVE UnitsTyped'
  <2>1. CASE \/ ForwardCheck(k) \/ RecvEnters(k) \/ RecvRefused(k) \/ RecvEnds(k)
             \/ SendKills(k) \/ CloseSource(k) \/ CloseDestination(k)
    BY <1>1, <2>1 DEF ForwardCheck, RecvEnters, RecvRefused, RecvEnds, NothingRead, SendKills,
       CloseSource, CloseDestination, forwarder, network
  <2> QED  BY <1>2, <1>3, <1>4, <1>7, <2>1 DEF Forward
<1> QED  BY <1>5, <1>6, <1>7 DEF Next

LEMMA CountStays ==
  ASSUME Counted, [Next]_vars
  PROVE  Counted'
<1>1. CASE sent' = sent
  BY <1>1 DEF Counted, SentUnits
<1>2. ASSUME NEW k \in Sock, Forward(k)  PROVE sent' = sent
  BY <1>2 DEF Forward, ForwardCheck, RecvEnters, RecvRefused, RecvEnds, NothingRead, RecvData,
     SendTakes, SendFails, SendKills, CloseSource, CloseDestination, network
<1>3. CASE \/ StartBegins \/ Start \/ StopBegins \/ Stop \/ UNCHANGED vars
           \/ \E c \in Conns : Handle(c) \/ ClientConnects(c)
           \/ \E k \in Sock : RemoteLeaves(k)
  BY <1>1, <1>3 DEF StartBegins, Start, StartSocket, StartListen, StartCheck, Select, Accept,
     AcceptFails, StopBegins, Stop, StopCloses, StopForgets, Handle, HandlerSocket,
     HandlerSocketFails, HandlerConnects, HandlerConnectFails, HandlerJoins, ClientConnects,
     RemoteLeaves, vars, network
<1> QED  BY <1>1, <1>2, <1>3, SendingCounts DEF Next

LEMMA InStepStays ==
  ASSUME Inv, RestTyped, [Next]_vars
  PROVE  InStep'
<1> USE DEF RestTyped
<1>1. CASE UNCHANGED <<handler, forwarder>>
  BY <1>1 DEF InStep, forwarder
<1>2. CASE Accept
  <2> DEFINE c == Head(backlog)
  <2>1. c \in Conns /\ handler[c] = "none"
    <3>1. backlog \in Seq(Conns) /\ backlog # <<>>
      BY <1>2 DEF Accept, Inv, TablesTyped
    <3>2. c \in Conns /\ c = backlog[1] /\ 1 \in DOMAIN backlog
      BY <3>1
    <3> QED  BY <3>2 DEF Inv, WaitingOnce
  <2>2. handler' = [handler EXCEPT ![c] = "socket"] /\ UNCHANGED <<fwd, buf, reading>>
    BY <1>2 DEF Accept, forwarder
  <2> HIDE DEF c
  <2>3. \A d \in Conns : handler'[d] \in {"none", "socket", "connect"} =>
                           handler[d] \in {"none", "socket", "connect"}
    BY <2>1, <2>2 DEF Inv, TablesTyped
  <2> QED  BY <2>2, <2>3, Pairs DEF InStep
<1>3. ASSUME NEW c \in Conns, Handle(c), ~HandlerConnects(c)  PROVE InStep'
  <2>1. UNCHANGED <<fwd, buf, reading>>
    BY <1>3 DEF Handle, HandlerSocket, HandlerSocketFails, HandlerConnectFails, HandlerJoins,
       forwarder
  <2>2. \A d \in Conns : handler'[d] \in {"none", "socket", "connect"} =>
                           handler[d] \in {"none", "socket", "connect"}
    BY <1>3 DEF Handle, HandlerSocket, HandlerSocketFails, HandlerConnectFails, HandlerJoins,
       Inv, TablesTyped
  <2> QED  BY <2>1, <2>2, Pairs DEF InStep
<1>4. ASSUME NEW c \in Conns, HandlerConnects(c)  PROVE InStep'
  <2>1. /\ handler[c] = "connect"
        /\ fwd' = [fwd EXCEPT ![Client(c)] = "check", ![Target(c)] = "check"]
        /\ handler' = [handler EXCEPT ![c] = "run"]
        /\ UNCHANGED <<buf, reading>>
    BY <1>4 DEF HandlerConnects
  <2>2. ASSUME NEW k \in Sock
        PROVE  /\ fwd'[k] = "blocked" <=> reading'[k] \in Sock
               /\ fwd'[k] = "send" <=> buf'[k] # <<>>
               /\ handler'[k[1]] \in {"none", "socket", "connect"} => fwd'[k] = "none"
    <3>1. CASE k[1] = c
      <4>1. fwd[k] = "none" /\ fwd'[k] = "check" /\ handler'[k[1]] = "run"
        BY <2>1, <3>1, Ends, Pairs DEF InStep, Inv, TablesTyped
      <4> QED  BY <2>1, <4>1 DEF InStep
    <3>2. CASE k[1] # c
      <4>1. fwd'[k] = fwd[k] /\ handler'[k[1]] = handler[k[1]]
        BY <2>1, <3>2, Ends, Pairs DEF Inv, TablesTyped
      <4> QED  BY <2>1, <4>1 DEF InStep
    <3> QED  BY <3>1, <3>2
  <2> QED  BY <2>1, <2>2 DEF InStep
<1>5. ASSUME NEW k \in Sock, Forward(k)  PROVE InStep'
  <2>1. handler' = handler
    BY <1>5 DEF Forward, ForwardCheck, RecvEnters, RecvRefused, RecvEnds, NothingRead,
       RecvData, SendTakes, SendFails, SendKills, CloseSource, CloseDestination, connection
  <2>2. ASSUME NEW pc, NEW r \in Sock \cup {NoSock}, NEW b,
               fwd' = [fwd EXCEPT ![k] = pc], reading' = [reading EXCEPT ![k] = r],
               buf' = [buf EXCEPT ![k] = b],
               fwd[k] # "none", pc = "blocked" <=> r \in Sock, pc = "send" <=> b # <<>>
        PROVE  InStep'
    <3>1. fwd'[k] = pc /\ reading'[k] = r /\ buf'[k] = b
          /\ reading' \in [Sock -> Sock \cup {NoSock}]
      BY <2>2 DEF InStep, UnitsTyped, Inv, TablesTyped
    <3>2. \A j \in Sock : j # k => fwd'[j] = fwd[j] /\ reading'[j] = reading[j] /\ buf'[j] = buf[j]
      BY <2>2 DEF InStep, UnitsTyped, Inv, TablesTyped
    <3>3. handler'[k[1]] \notin {"none", "socket", "connect"}
      BY <2>1, <2>2 DEF InStep
    <3> QED  BY <2>1, <2>2, <3>1, <3>2, <3>3 DEF InStep
  <2>3. /\ buf = [buf EXCEPT ![k] = buf[k]] /\ reading = [reading EXCEPT ![k] = reading[k]]
        /\ reading[k] \in Sock \cup {NoSock}
        /\ fwd[k] = "blocked" <=> reading[k] \in Sock
        /\ fwd[k] = "send" <=> buf[k] # <<>>
        /\ NoSock \notin Sock
    BY NoSockIsNone DEF InStep, UnitsTyped
  <2>4. CASE ForwardCheck(k) \/ CloseSource(k) \/ CloseDestination(k)
    <3>1. PICK pc \in {"recv", "close_src", "close_dst", "ended"} :
            fwd' = [fwd EXCEPT ![k] = pc]
      BY <2>4 DEF ForwardCheck, CloseSource, CloseDestination
    <3>2. fwd[k] \in {"check", "close_src", "close_dst"} /\ UNCHANGED <<buf, reading>>
      BY <2>4 DEF ForwardCheck, CloseSource, CloseDestination
    <3> QED  BY <2>2, <2>3, <3>1, <3>2
  <2>5. CASE RecvEnters(k)
    BY <2>2, <2>3, <2>5 DEF RecvEnters
  <2>6. CASE RecvRefused(k) \/ RecvEnds(k)
    <3>1. /\ fwd' = [fwd EXCEPT ![k] = "close_src"] /\ fwd[k] \in {"recv", "blocked"}
          /\ reading' = [reading EXCEPT ![k] = NoSock] /\ buf' = buf
      BY <2>6 DEF RecvRefused, RecvEnds, NothingRead
    <3> QED  BY <2>2, <2>3, <3>1
  <2>7. CASE RecvData(k)
    <3> DEFINE S == Unit
               s == inbox[reading[k]]
    <3>1. s \in Seq(S)
      BY <2>7 DEF RecvData, InStep, UnitsTyped
    <3>2. PICK n \in 1..Len(s) : buf' = [buf EXCEPT ![k] = SubSeq(s, 1, n)]
      BY <2>7 DEF RecvData
    <3> HIDE DEF S, s
    <3>3. SubSeq(s, 1, n) # <<>>
      BY <3>1, Parts
    <3>4. /\ reading' = [reading EXCEPT ![k] = NoSock] /\ fwd' = [fwd EXCEPT ![k] = "send"]
          /\ fwd[k] # "none"
      BY <2>7 DEF RecvData
    <3> QED  BY <2>2, <2>3, <3>2, <3>3, <3>4
  <2>8. CASE SendTakes(k)
    <3> DEFINE S == Unit
               b == buf[k]
    <3>1. b \in Seq(S)
      BY DEF UnitsTyped
    <3>2. PICK n \in 1..Len(b) :
            /\ buf' = [buf EXCEPT ![k] = SubSeq(b, n + 1, Len(b))]
            /\ fwd' = [fwd EXCEPT ![k] = IF n = Len(b) THEN "check" ELSE "send"]
      BY <2>8 DEF SendTakes, UnitsTyped
    <3>3. fwd[k] = "send" /\ reading' = reading
      BY <2>8 DEF SendTakes
    <3>4. SubSeq(b, n + 1, Len(b)) = <<>> <=> n = Len(b)
      <4> HIDE DEF S, b
      <4> QED  BY <3>1, Parts
    <3> HIDE DEF b
    <3>5. PICK pc : /\ pc = IF n = Len(b) THEN "check" ELSE "send"
                    /\ fwd' = [fwd EXCEPT ![k] = pc]
      BY <3>2
    <3>6. /\ pc = "send" <=> SubSeq(b, n + 1, Len(b)) # <<>>
          /\ pc # "blocked" /\ reading[k] \notin Sock
      BY <2>3, <3>3, <3>4, <3>5
    <3> QED  BY <2>2, <2>3, <3>2, <3>3, <3>5, <3>6
  <2>9. CASE SendFails(k)
    BY <2>2, <2>3, <2>9 DEF SendFails
  <2>10. CASE SendKills(k)
    BY <1>1, <2>1, <2>10 DEF SendKills
  <2> QED  BY <1>5, <2>4, <2>5, <2>6, <2>7, <2>8, <2>9, <2>10 DEF Forward
<1>6. CASE \/ StartBegins \/ StopBegins \/ Stop \/ UNCHANGED vars
           \/ StartSocket \/ StartListen \/ StartCheck \/ Select \/ AcceptFails
           \/ \E c \in Conns : ClientConnects(c)
           \/ \E k \in Sock : RemoteSends(k) \/ RemoteLeaves(k)
  BY <1>1, <1>6 DEF StartBegins, StartSocket, StartListen, StartCheck, Select, AcceptFails,
     StopBegins, Stop, StopCloses, StopForgets, ClientConnects, RemoteSends, RemoteLeaves,
     vars, connection
<1> QED  BY <1>2, <1>3, <1>4, <1>5, <1>6 DEF Next, Start

(* Types, for any number of clients at a time: a forwarder holds data only *)
(* between a recv and the last send of it, and a socket only while a recv  *)
(* is under way.  (proxy.cpp:64-252)                                       *)
THEOREM TypeCorrect == Spec => []TypeOK
<1>1. Init => Inv /\ RestTyped
  BY InitInv, RestStarts
<1>2. Inv /\ RestTyped /\ [Next]_vars => Inv' /\ RestTyped'
  BY StepInv, ControlStays, UnitsStay, CountStays, InStepStays DEF RestTyped
<1>3. Inv /\ RestTyped => TypeOK
  BY DEF Inv, TablesTyped, RestTyped, ControlTyped, UnitsTyped, Counted, InStep, TypeOK
<1> QED  BY <1>1, <1>2, <1>3, PTL DEF Spec
=============================================================================
