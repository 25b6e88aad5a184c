---------------------------- MODULE ProxyTraffic ----------------------------
(***************************************************************************)
(* The threads and descriptors of class Proxy (src/proxy.cpp:64-252):      *)
(* start() accepts clients, stop() may come from any thread, each client   *)
(* gets a handler thread that connects to the target and starts two        *)
(* forwarders, and every forwarder closes both descriptors of its          *)
(* connection when it ends.                                                *)
(*                                                                         *)
(* A thread holds NUMBERS of descriptors; the kernel's table says which    *)
(* socket a number means at the moment of a call.  The difference is the   *)
(* point of this module.  What the forwarders look at on the way           *)
(* (analyze_message) touches neither and is left out here.                 *)
(*                                                                         *)
(* A socket is named by the connection it was made for and the side it     *)
(* faces; so is the program at its other end, its "remote".  The forwarder *)
(* k reads k's socket and writes to the socket of Peer(k).                 *)
(***************************************************************************)
EXTENDS Integers, Sequences, FiniteSets, SequencesExt

CONSTANTS
  Conns,         \* clients that may connect, each once
  Fds,           \* descriptor numbers the process may use
  MaxSends,      \* bound: units the remotes send, all together
  Overlapping    \* may a client connect before the last one is done with?

ASSUME ProxyAssumption ==
  /\ Fds \subseteq Nat
  /\ MaxSends \in Nat
  /\ Overlapping \in BOOLEAN

Sock == Conns \X {"client", "target"}
Client(c) == <<c, "client">>
Target(c) == <<c, "target">>
Peer(k) == IF k[2] = "client" THEN Target(k[1]) ELSE Client(k[1])

Free == <<"free">>
Listener == <<"listener">>
Taken == <<"taken">>      \* in use by other parts of the process
NoSock == <<"none">>
NoFd == -1

VARIABLES
  m_running, m_server_fd,   \* members of Proxy
  start, stop,              \* where the threads in start() and stop() stand
  handler,                  \* where the handler thread of a connection stands
  fd,                       \* fd[k]: the number the threads hold for socket k
  connection_active,        \* the flag shared by the forwarders of a connection
  fwd,                      \* where each forwarder stands
  buf,                      \* what it has read and not yet sent
  table,                    \* the kernel's descriptor table
  reading,                  \* the socket a forwarder's recv call is under way on
  backlog,                  \* clients connected and not yet accepted
  remote,                   \* the state of the program at a socket's other end
  sent,                     \* how many units a remote has sent
  inbox,                    \* units received on a socket and not yet read
  out,                      \* units handed to a socket by send
  killed                    \* the process died of SIGPIPE

proxy == <<m_running, m_server_fd>>
control == <<start, stop>>
connection == <<handler, fd, connection_active>>
forwarder == <<fwd, buf, reading>>
network == <<backlog, remote, sent, inbox, out>>

vars == <<proxy, control, connection, forwarder, network, table, killed>>

Unit == Sock \X (1..MaxSends)

TypeOK ==
  /\ m_running \in BOOLEAN
  /\ m_server_fd \in Fds \cup {NoFd}
  /\ start \in {"idle", "socket", "listen", "check", "select", "accept", "returned"}
  /\ stop \in {"idle", "close", "forget", "done"}
  /\ handler \in [Conns -> {"none", "socket", "connect", "run", "done"}]
  /\ fd \in [Sock -> Fds \cup {NoFd}]
  /\ connection_active \in [Conns -> BOOLEAN]
  /\ fwd \in [Sock -> {"none", "check", "recv", "blocked", "send",
                       "close_src", "close_dst", "ended"}]
  /\ buf \in [Sock -> Seq(Unit)]
  /\ table \in [Fds -> Sock \cup {Free, Listener, Taken}]
  /\ reading \in [Sock -> Sock \cup {NoSock}]
  /\ backlog \in Seq(Conns)
  /\ remote \in [Sock -> {"none", "open", "closed", "reset"}]
  /\ sent \in [Sock -> 0..MaxSends]
  /\ inbox \in [Sock -> Seq(Unit)]
  /\ out \in [Sock -> Seq(Unit)]
  /\ killed \in BOOLEAN
  /\ \A k \in Sock :
        /\ fwd[k] = "blocked" <=> reading[k] \in Sock
        /\ fwd[k] = "send" <=> buf[k] # <<>>

Init ==
  /\ m_running = FALSE
  /\ m_server_fd = NoFd
  /\ start = "idle" /\ stop = "idle"
  /\ handler = [c \in Conns |-> "none"]
  /\ fd = [k \in Sock |-> NoFd]
  /\ connection_active = [c \in Conns |-> FALSE]
  /\ fwd = [k \in Sock |-> "none"]
  /\ buf = [k \in Sock |-> <<>>]
  /\ \E used \in SUBSET Fds :
       table = [f \in Fds |-> IF f \in used THEN Taken ELSE Free]
  /\ reading = [k \in Sock |-> NoSock]
  /\ backlog = <<>>
  /\ remote = [k \in Sock |-> "none"]
  /\ sent = [k \in Sock |-> 0]
  /\ inbox = [k \in Sock |-> <<>>]
  /\ out = [k \in Sock |-> <<>>]
  /\ killed = FALSE

-----------------------------------------------------------------------------
(* The kernel.  A new descriptor gets the lowest free number.  Closing a   *)
(* number that means nothing is an error nobody looks at; NoFd means       *)
(* nothing.                                                                *)
LowestFree(f) ==
  /\ table[f] = Free
  /\ \A g \in Fds : g < f => table[g] # Free

NoneFree == \A f \in Fds : table[f] # Free

Meaning(f) == IF f \in Fds THEN table[f] ELSE Free

Closing(S) == [f \in Fds |-> IF f \in S THEN Free ELSE table[f]]

(* A socket is let go of when no number means it and no call is under way  *)
(* on it: closing the number does not end another thread's recv.           *)
Released(k) ==
  /\ remote[k] # "none"
  /\ \A f \in Fds : table[f] # k
  /\ \A j \in Sock : reading[j] # k
  /\ \A i \in DOMAIN backlog : Client(backlog[i]) # k

-----------------------------------------------------------------------------
(* start().                                                                *)
StartBegins ==
  /\ start = "idle"
  /\ m_running' = TRUE
  /\ start' = "socket"
  /\ UNCHANGED <<m_server_fd, stop, connection, forwarder, network, table, killed>>

StartSocket ==
  /\ start = "socket"
  /\ \/ \E f \in Fds :
          /\ LowestFree(f)
          /\ m_server_fd' = f
          /\ table' = [table EXCEPT ![f] = Listener]
          /\ start' = "listen"
     \/ /\ NoneFree
        /\ m_server_fd' = NoFd
        /\ start' = "returned"
        /\ UNCHANGED table
  /\ UNCHANGED <<m_running, stop, connection, forwarder, network, killed>>

(* bind and listen: they fail when the port is taken, or when stop() has   *)
(* closed the socket.                                                      *)
StartListen ==
  /\ start = "listen"
  /\ \/ Meaning(m_server_fd) = Listener /\ start' = "check"
     \/ start' = "returned"
  /\ UNCHANGED <<proxy, stop, connection, forwarder, network, table, killed>>

(* Mutant: the loop does not look at m_running.                            *)
CheckNothing ==
  /\ start = "check"
  /\ start' = "select"
  /\ UNCHANGED <<proxy, stop, connection, forwarder, network, table, killed>>

StartCheck ==
  /\ start = "check"
  /\ start' = IF m_running THEN "select" ELSE "returned"
  /\ UNCHANGED <<proxy, stop, connection, forwarder, network, table, killed>>

(* select waits 50 ms at most; EINTR looks like a timeout, a number that   *)
(* means nothing ends the loop, NoFd is never ready.                       *)
Select ==
  /\ start = "select"
  /\ \/ start' = "check"
     \/ Meaning(m_server_fd) = Listener /\ backlog # <<>> /\ start' = "accept"
     \/ m_server_fd # NoFd /\ Meaning(m_server_fd) = Free /\ start' = "returned"
  /\ UNCHANGED <<proxy, stop, connection, forwarder, network, table, killed>>

Accept ==
  /\ start = "accept"
  /\ Meaning(m_server_fd) = Listener
  /\ backlog # <<>>
  /\ \E f \in Fds :
       /\ LowestFree(f)
       /\ table' = [table EXCEPT ![f] = Client(Head(backlog))]
       /\ fd' = [fd EXCEPT ![Client(Head(backlog))] = f]
  /\ handler' = [handler EXCEPT ![Head(backlog)] = "socket"]
  /\ backlog' = Tail(backlog)
  /\ start' = "check"
  /\ UNCHANGED <<proxy, stop, connection_active, forwarder, remote, sent, inbox,
                 out, killed>>

(* No listening socket any more, or no descriptor left.                    *)
AcceptFails ==
  /\ start = "accept"
  /\ Meaning(m_server_fd) # Listener \/ NoneFree
  /\ start' = IF m_running THEN "check" ELSE "returned"
  /\ UNCHANGED <<proxy, stop, connection, forwarder, network, table, killed>>

Start == StartSocket \/ StartListen \/ StartCheck \/ Select \/ Accept \/ AcceptFails

-----------------------------------------------------------------------------
(* stop(), at any time: before start() has begun it is overwritten by      *)
(* StartBegins.  Clients waiting in the backlog are reset when the         *)
(* listening socket goes.                                                  *)
StopBegins ==
  /\ stop = "idle"
  /\ m_running' = FALSE
  /\ stop' = "close"
  /\ UNCHANGED <<m_server_fd, start, connection, forwarder, network, table, killed>>

StopCloses ==
  /\ stop = "close"
  /\ IF m_server_fd = NoFd
     THEN /\ stop' = "done"
          /\ UNCHANGED <<table, backlog, remote>>
     ELSE /\ table' = Closing({m_server_fd})
          /\ remote' = [k \in Sock |->
                          IF \E i \in DOMAIN backlog : Client(backlog[i]) = k
                          THEN "reset" ELSE remote[k]]
          /\ backlog' = <<>>
          /\ stop' = "forget"
  /\ UNCHANGED <<proxy, start, connection, forwarder, sent, inbox, out, killed>>

StopForgets ==
  /\ stop = "forget"
  /\ m_server_fd' = NoFd
  /\ stop' = "done"
  /\ UNCHANGED <<m_running, start, connection, forwarder, network, table, killed>>

Stop == StopCloses \/ StopForgets

-----------------------------------------------------------------------------
(* handle_connection().                                                    *)
HandlerSocket(c) ==
  /\ handler[c] = "socket"
  /\ \E f \in Fds :
       /\ LowestFree(f)
       /\ table' = [table EXCEPT ![f] = Target(c)]
       /\ fd' = [fd EXCEPT ![Target(c)] = f]
  /\ handler' = [handler EXCEPT ![c] = "connect"]
  /\ UNCHANGED <<proxy, control, connection_active, forwarder, network, killed>>

HandlerSocketFails(c) ==
  /\ handler[c] = "socket"
  /\ NoneFree
  /\ table' = Closing({fd[Client(c)]})
  /\ handler' = [handler EXCEPT ![c] = "done"]
  /\ UNCHANGED <<proxy, control, fd, connection_active, forwarder, network, killed>>

(* The target accepts, and two forwarders start.                           *)
HandlerConnects(c) ==
  /\ handler[c] = "connect"
  /\ remote' = [remote EXCEPT ![Target(c)] = "open"]
  /\ connection_active' = [connection_active EXCEPT ![c] = TRUE]
  /\ fwd' = [fwd EXCEPT ![Client(c)] = "check", ![Target(c)] = "check"]
  /\ handler' = [handler EXCEPT ![c] = "run"]
  /\ UNCHANGED <<proxy, control, fd, buf, reading, backlog, sent, inbox, out,
                 table, killed>>

(* Mutant: the error path forgets the target's socket.                     *)
HandlerConnectLeaks(c) ==
  /\ handler[c] = "connect"
  /\ table' = Closing({fd[Client(c)]})
  /\ handler' = [handler EXCEPT ![c] = "done"]
  /\ UNCHANGED <<proxy, control, fd, connection_active, forwarder, network, killed>>

(* getaddrinfo or connect fails.                                           *)
HandlerConnectFails(c) ==
  /\ handler[c] = "connect"
  /\ table' = Closing({fd[Client(c)], fd[Target(c)]})
  /\ handler' = [handler EXCEPT ![c] = "done"]
  /\ UNCHANGED <<proxy, control, fd, connection_active, forwarder, network, killed>>

(* Mutant: only the first forwarder is joined.                             *)
HandlerJoinsOne(c) ==
  /\ handler[c] = "run"
  /\ fwd[Client(c)] = "ended"
  /\ handler' = [handler EXCEPT ![c] = "done"]
  /\ UNCHANGED <<proxy, control, fd, connection_active, forwarder, network,
                 table, killed>>

HandlerJoins(c) ==
  /\ handler[c] = "run"
  /\ fwd[Client(c)] = "ended" /\ fwd[Target(c)] = "ended"
  /\ handler' = [handler EXCEPT ![c] = "done"]
  /\ UNCHANGED <<proxy, control, fd, connection_active, forwarder, network,
                 table, killed>>

Handle(c) ==
  \/ HandlerSocket(c) \/ HandlerSocketFails(c)
  \/ HandlerConnects(c) \/ HandlerConnectFails(c)
  \/ HandlerJoins(c)

-----------------------------------------------------------------------------
(* forward_traffic().                                                      *)
ForwardCheck(k) ==
  /\ fwd[k] = "check"
  /\ fwd' = [fwd EXCEPT ![k] =
               IF m_running /\ connection_active[k[1]] THEN "recv" ELSE "close_src"]
  /\ UNCHANGED <<proxy, control, connection, buf, reading, network, table, killed>>

(* recv looks the number up once, on entry.                                *)
RecvEnters(k) ==
  /\ fwd[k] = "recv"
  /\ Meaning(fd[k]) \in Sock
  /\ remote[Meaning(fd[k])] # "none"
  /\ reading' = [reading EXCEPT ![k] = Meaning(fd[k])]
  /\ fwd' = [fwd EXCEPT ![k] = "blocked"]
  /\ UNCHANGED <<proxy, control, connection, buf, network, table, killed>>

(* Mutant: an error of recv is taken for an interrupted call.              *)
RetryRecv(k) ==
  /\ fwd' = [fwd EXCEPT ![k] = "check"]
  /\ reading' = [reading EXCEPT ![k] = NoSock]
  /\ UNCHANGED <<proxy, control, connection, buf, network, table, killed>>

(* recv returned nothing or an error.                                      *)
NothingRead(k) ==
  /\ connection_active' = [connection_active EXCEPT ![k[1]] = FALSE]
  /\ fwd' = [fwd EXCEPT ![k] = "close_src"]
  /\ reading' = [reading EXCEPT ![k] = NoSock]
  /\ UNCHANGED <<proxy, control, handler, fd, buf, network, table, killed>>

RecvRefused(k) ==
  /\ fwd[k] = "recv"
  /\ Meaning(fd[k]) \in Sock => remote[Meaning(fd[k])] = "none"
  /\ NothingRead(k)

RecvEnds(k) ==
  /\ fwd[k] = "blocked"
  /\ inbox[reading[k]] = <<>>
  /\ remote[reading[k]] \in {"closed", "reset"}
  /\ NothingRead(k)

RecvData(k) ==
  /\ fwd[k] = "blocked"
  /\ \E n \in 1..Len(inbox[reading[k]]) :
       /\ buf' = [buf EXCEPT ![k] = SubSeq(inbox[reading[k]], 1, n)]
       /\ inbox' = [inbox EXCEPT ![reading[k]] = SubSeq(@, n + 1, Len(@))]
  /\ reading' = [reading EXCEPT ![k] = NoSock]
  /\ fwd' = [fwd EXCEPT ![k] = "send"]
  /\ UNCHANGED <<proxy, control, connection, backlog, remote, sent, out, table, killed>>

Writable(s) == s \in Sock /\ remote[s] \in {"open", "closed"}

(* Mutants: the loop ends at a short send, with the rest still in the      *)
(* buffer or with the rest forgotten.                                      *)
SendPart(k) ==
  LET s == Meaning(fd[Peer(k)]) IN
  /\ fwd[k] = "send"
  /\ Writable(s)
  /\ \E n \in 1..Len(buf[k]) :
       /\ out' = [out EXCEPT ![s] = @ \o SubSeq(buf[k], 1, n)]
       /\ buf' = [buf EXCEPT ![k] = SubSeq(@, n + 1, Len(@))]
  /\ fwd' = [fwd EXCEPT ![k] = "check"]
  /\ UNCHANGED <<proxy, control, connection, reading, backlog, remote, sent,
                 inbox, table, killed>>

SendOnce(k) ==
  LET s == Meaning(fd[Peer(k)]) IN
  /\ fwd[k] = "send"
  /\ Writable(s)
  /\ \E n \in 1..Len(buf[k]) : out' = [out EXCEPT ![s] = @ \o SubSeq(buf[k], 1, n)]
  /\ buf' = [buf EXCEPT ![k] = <<>>]
  /\ fwd' = [fwd EXCEPT ![k] = "check"]
  /\ UNCHANGED <<proxy, control, connection, reading, backlog, remote, sent,
                 inbox, table, killed>>

(* One call of send: it looks the number up anew and may take a part only. *)
(* A peer that has closed still lets the kernel take the data.             *)
SendTakes(k) ==
  LET s == Meaning(fd[Peer(k)]) IN
  /\ fwd[k] = "send"
  /\ Writable(s)
  /\ \E n \in 1..Len(buf[k]) :
       /\ out' = [out EXCEPT ![s] = @ \o SubSeq(buf[k], 1, n)]
       /\ buf' = [buf EXCEPT ![k] = SubSeq(@, n + 1, Len(@))]
       /\ fwd' = [fwd EXCEPT ![k] = IF n = Len(buf[k]) THEN "check" ELSE "send"]
  /\ UNCHANGED <<proxy, control, connection, reading, backlog, remote, sent,
                 inbox, table, killed>>

(* The number means nothing, or the peer's reset is reported.              *)
SendFails(k) ==
  LET s == Meaning(fd[Peer(k)]) IN
  /\ fwd[k] = "send"
  /\ s = Free \/ (s \in Sock /\ remote[s] = "reset")
  /\ connection_active' = [connection_active EXCEPT ![k[1]] = FALSE]
  /\ buf' = [buf EXCEPT ![k] = <<>>]
  /\ fwd' = [fwd EXCEPT ![k] = "check"]
  /\ UNCHANGED <<proxy, control, handler, fd, reading, network, table, killed>>

(* Writing to a socket that was reset raises SIGPIPE, which nothing        *)
(* catches: send is called without MSG_NOSIGNAL.                           *)
SendKills(k) ==
  LET s == Meaning(fd[Peer(k)]) IN
  /\ fwd[k] = "send"
  /\ s \in Sock /\ remote[s] = "reset"
  /\ killed' = TRUE
  /\ UNCHANGED <<proxy, control, connection, forwarder, network, table>>

CloseSource(k) ==
  /\ fwd[k] = "close_src"
  /\ table' = Closing({fd[k]})
  /\ fwd' = [fwd EXCEPT ![k] = "close_dst"]
  /\ UNCHANGED <<proxy, control, connection, buf, reading, network, killed>>

CloseDestination(k) ==
  /\ fwd[k] = "close_dst"
  /\ table' = Closing({fd[Peer(k)]})
  /\ fwd' = [fwd EXCEPT ![k] = "ended"]
  /\ UNCHANGED <<proxy, control, connection, buf, reading, network, killed>>

Forward(k) ==
  \/ ForwardCheck(k)
  \/ RecvEnters(k) \/ RecvRefused(k) \/ RecvEnds(k) \/ RecvData(k)
  \/ SendTakes(k) \/ SendFails(k) \/ SendKills(k)
  \/ CloseSource(k) \/ CloseDestination(k)

-----------------------------------------------------------------------------
(* The programs at the other ends.                                         *)
ClientConnects(c) ==
  /\ start \in {"check", "select", "accept"}
  /\ \E f \in Fds : table[f] = Listener
  /\ remote[Client(c)] = "none"
  /\ Overlapping
       \/ \A d \in Conns : handler[d] = "done" \/ remote[Client(d)] = "none"
  /\ remote' = [remote EXCEPT ![Client(c)] = "open"]
  /\ backlog' = Append(backlog, c)
  /\ UNCHANGED <<proxy, control, connection, forwarder, sent, inbox, out, table, killed>>

RemoteSends(k) ==
  /\ remote[k] = "open" /\ ~Released(k)
  /\ Cardinality({u \in Unit : u[2] <= sent[u[1]]}) < MaxSends
  /\ sent' = [sent EXCEPT ![k] = @ + 1]
  /\ inbox' = [inbox EXCEPT ![k] = Append(@, <<k, sent[k] + 1>>)]
  /\ UNCHANGED <<proxy, control, connection, forwarder, backlog, remote, out,
                 table, killed>>

RemoteLeaves(k) ==
  /\ \/ remote[k] = "open" /\ remote' = [remote EXCEPT ![k] = "closed"]
     \/ remote[k] \in {"open", "closed"} /\ remote' = [remote EXCEPT ![k] = "reset"]
  /\ UNCHANGED <<proxy, control, connection, forwarder, backlog, sent, inbox,
                 out, table, killed>>

Next ==
  /\ ~killed
  /\ \/ StartBegins \/ Start
     \/ StopBegins \/ Stop
     \/ \E c \in Conns : Handle(c) \/ ClientConnects(c)
     \/ \E k \in Sock : Forward(k) \/ RemoteSends(k) \/ RemoteLeaves(k)

(* Every thread is scheduled.  select has a timeout, accept is called only *)
(* when it can return; recv waits for its remote.  The remotes owe         *)
(* nothing.                                                                *)
Fairness ==
  /\ WF_vars(~killed /\ Start)
  /\ WF_vars(~killed /\ Stop)
  /\ \A c \in Conns : WF_vars(~killed /\ Handle(c))
  /\ \A k \in Sock : WF_vars(~killed /\ Forward(k))

Spec == Init /\ [][Next]_vars /\ Fairness

-----------------------------------------------------------------------------
UnitsOf(k) == [n \in 1..sent[k] |-> <<k, n>>]

(* What a remote sends reaches the other remote in order, once and with    *)
(* nothing of anybody else's in between; while the connection is active    *)
(* nothing is lost on the way.  Holds when clients come one after the      *)
(* other: then a number means what it meant when the thread got it, or     *)
(* nothing.  (proxy.cpp:203-252)                                           *)
StreamFaithful ==
  \A k \in Sock :
     /\ IsPrefix(out[Peer(k)], UnitsOf(k))
     /\ connection_active[k[1]] =>
          out[Peer(k)] \o buf[k] \o inbox[k] = UnitsOf(k)

(* When the handler of a connection is done, no number means one of its    *)
(* two sockets any more, whichever of the error paths or forwarders closed *)
(* what, and whatever other connections did to the table in the meantime.  *)
(* (proxy.cpp:157-181, 245-251)                                            *)
ClosedWhenDone ==
  \A c \in Conns : handler[c] = "done" =>
     \A f \in Fds : table[f] \notin {Client(c), Target(c)}

(* Each client is forwarded separately: a unit handed to a socket came     *)
(* from the other side of the same connection.  "Handle each client        *)
(* connection in a separate thread so the proxy can accept subsequent      *)
(* connections" (proxy.cpp:133).                                           *)
NoCrossTalk ==
  \A k \in Sock : \A i \in DOMAIN out[k] : out[k][i][1] = Peer(k)

(* "Blocks until stop() is called." (proxy.hpp:24): once the flag is down  *)
(* start() returns, wherever stop() met it, and whatever number the        *)
(* listening socket's has become.  (proxy.cpp:102-129, 142-152)            *)
StopEndsStart ==
  ~m_running /\ start # "idle" ~> start = "returned" \/ killed

(* When both remotes of a connection are gone, its forwarders end and its  *)
(* handler joins them.  (proxy.cpp:207-212, 197-198)                       *)
ConnectionEnds ==
  \A c \in Conns :
     handler[c] = "run" /\ remote[Client(c)] # "open" /\ remote[Target(c)] # "open"
       ~> handler[c] = "done" \/ killed
=============================================================================
