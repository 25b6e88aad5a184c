----------------------------- MODULE DuplexLink -----------------------------
(***************************************************************************)
(* What a Connection promises (include/fixure/runner.hpp:14-21): a link    *)
(* that is up or down, with one first-in first-out queue per side.  Every  *)
(* call takes effect in one instant.  A send on a link that is up puts its *)
(* data at the tail of the peer's queue; a receive takes the head of its   *)
(* own side's queue, and comes back empty-handed only at an instant when   *)
(* the link is down or that queue is empty.                                *)
(***************************************************************************)
EXTENDS Sequences

CONSTANTS
  Clients,   \* threads that use the client interface
  Servers,   \* threads that use the server interface
  Data       \* what may be sent

(* Answers of a call that are not data.                                    *)
NoCall == "no call yet"
Sent == "true"
Refused == "false"
Nothing == "nullopt"

Thread == Clients \cup Servers

(* The two ends of the link.                                               *)
Side == {"client", "server"}
SideOf(t) == IF t \in Clients THEN "client" ELSE "server"
Peer(t) == IF t \in Clients THEN "server" ELSE "client"

VARIABLES
  connected,
  queue,     \* queue[s]: what was sent to side s and not yet received
  answer     \* answer[t]: what the last finished call of t returned

vars == <<connected, queue, answer>>

Answer(t, a) == answer' = [answer EXCEPT ![t] = a]

Init ==
  /\ connected = FALSE
  /\ queue = [s \in Side |-> <<>>]
  /\ answer = [t \in Thread |-> NoCall]

Connect == connected' = TRUE /\ UNCHANGED <<queue, answer>>

Disconnect == connected' = FALSE /\ UNCHANGED <<queue, answer>>

Put(t, d) ==
  /\ connected
  /\ queue' = [queue EXCEPT ![Peer(t)] = Append(@, d)]
  /\ Answer(t, Sent)
  /\ UNCHANGED connected

Refuse(t) ==
  /\ ~connected
  /\ Answer(t, Refused)
  /\ UNCHANGED <<connected, queue>>

Take(t) ==
  /\ connected
  /\ queue[SideOf(t)] # <<>>
  /\ queue' = [queue EXCEPT ![SideOf(t)] = Tail(@)]
  /\ Answer(t, Head(queue[SideOf(t)]))
  /\ UNCHANGED connected

ComeBackEmpty(t) ==
  /\ ~connected \/ queue[SideOf(t)] = <<>>
  /\ Answer(t, Nothing)
  /\ UNCHANGED <<connected, queue>>

Next ==
  \/ Connect
  \/ Disconnect
  \/ \E t \in Thread :
        \/ \E d \in Data : Put(t, d)
        \/ Refuse(t)
        \/ Take(t)
        \/ ComeBackEmpty(t)

Spec == Init /\ [][Next]_vars
=============================================================================
