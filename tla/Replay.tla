-------------------------------- MODULE Replay --------------------------------
(***************************************************************************)
(* `fixure replay` (app/main.cpp:126-159): SessionReplayer::replay_file    *)
(* sends the messages of a log, one a line, over a TcpConnection           *)
(* (src/runner.cpp:89-155), at the pace they were recorded if asked to,    *)
(* and never reads.  With it the kernel's way to the system under test and *)
(* a system that takes what arrives and may answer, leave or break down.   *)
(*                                                                         *)
(* A line is what the code tells apart: whether it is skipped, its bytes   *)
(* (counted in units of which send takes any number), and what it says of  *)
(* its SendingTime.                                                        *)
(***************************************************************************)
EXTENDS Integers, Sequences, FiniteSets

CONSTANTS
  Logs,        \* what log files contain
  Room,        \* units that can be on their way to the system under test
  AnswerRoom   \* answers that can wait for being read

(* stripped: what is left of it without the blanks at its end; a comment   *)
(* only counts as one at the very beginning.  stamp: the characters of tag *)
(* 52, 0 if there is none or the line does not parse; time: the instant    *)
(* they stand for.                                                         *)
Line ==
  [stripped : {"nothing", "comment", "message"}, size : Nat \ {0},
   stamp : Nat, time : Int]

ASSUME ReplayAssumption ==
  /\ Logs \subseteq Seq(Line)
  /\ Room \in Nat \ {0} /\ AnswerRoom \in Nat

VARIABLES
  phase,            \* "connect", "open", "line", "send", "close" or "done"
  file,             \* the log,
  preserve_timing,  \* and how it is to be replayed
  next,             \* lines read
  total_sent,       \* of the line under way
  messages_sent, success, error_message,
  last_msg_time, first_msg,
  slept,            \* for how long replay_file has slept,
  slept_before,     \* and had before each line it began to send
  m_socket,         \* whether it is open
  link,             \* "none", "up", "left", "reset" or "closed"
  handed,           \* units the kernel has taken from send, ever
  arrived,          \* how many of them the system under test has read
  peer,             \* "reading", "answering" or "gone"
  answers,          \* whether it answers messages
  unread            \* answers that wait in the socket

result == <<messages_sent, success, error_message>>
timing == <<last_msg_time, first_msg, slept, slept_before>>
wire == <<link, handed, arrived>>
sut == <<peer, answers, unread>>
vars == <<phase, file, preserve_timing, next, total_sent, result, timing, m_socket, wire, sut>>

Init ==
  /\ phase = "connect"
  /\ file \in Logs
  /\ preserve_timing \in BOOLEAN
  /\ next = 0 /\ total_sent = 0
  /\ messages_sent = 0 /\ success = FALSE /\ error_message = "none"
  /\ last_msg_time = 0 /\ first_msg = TRUE
  /\ slept = 0 /\ slept_before = <<>>
  /\ m_socket = FALSE
  /\ link = "none" /\ handed = <<>> /\ arrived = 0
  /\ peer = "reading" /\ answers \in BOOLEAN /\ unread = 0

-----------------------------------------------------------------------------
(* TcpConnection::connect, and what main does if it fails                  *)

Connect ==
  /\ phase = "connect"
  /\ m_socket' = TRUE /\ link' = "up"
  /\ phase' = "open"
  /\ UNCHANGED <<file, preserve_timing, next, total_sent, result, timing, handed, arrived, sut>>

(* The address is unknown, no socket is to be had, or nobody listens: in   *)
(* any case no socket stays open.                                          *)
ConnectFails ==
  /\ phase = "connect"
  /\ error_message' = "could not connect"
  /\ phase' = "done"
  /\ UNCHANGED <<file, preserve_timing, next, total_sent, messages_sent, success, timing,
                 m_socket, wire, sut>>

-----------------------------------------------------------------------------
(* replay_file                                                             *)

Return(why) ==
  /\ error_message' = why /\ success' = (why = "none")
  /\ phase' = "close"
  /\ UNCHANGED messages_sent

OpenFile ==
  /\ phase = "open"
  /\ \/ phase' = "line" /\ UNCHANGED result
     \/ Return("could not open")
  /\ UNCHANGED <<file, preserve_timing, next, total_sent, timing, m_socket, wire, sut>>

Skipped(i) == file[i].stripped # "message"

SkipLine ==
  /\ phase = "line" /\ next < Len(file) /\ Skipped(next + 1)
  /\ next' = next + 1
  /\ UNCHANGED <<phase, file, preserve_timing, total_sent, result, timing, m_socket, wire, sut>>

(* msg_time: 0 is time_point{}.  A stamp shorter than 21 characters, one   *)
(* without milliseconds for instance, is none.                             *)
MsgTime(i) == IF preserve_timing /\ file[i].stamp >= 21 THEN file[i].time ELSE 0

Delay(i) ==
  IF ~first_msg /\ MsgTime(i) # 0 /\ MsgTime(i) > last_msg_time
  THEN MsgTime(i) - last_msg_time
  ELSE 0

(* The pause before a message, and the call of send.                       *)
BeginMessage ==
  /\ phase = "line" /\ next < Len(file) /\ ~Skipped(next + 1)
  /\ next' = next + 1
  /\ total_sent' = 0
  /\ slept' = slept + Delay(next + 1)
  /\ slept_before' =
       [i \in DOMAIN slept_before \cup {next + 1} |->
          IF i = next + 1 THEN slept' ELSE slept_before[i]]
  /\ phase' = "send"
  /\ UNCHANGED <<file, preserve_timing, result, last_msg_time, first_msg, m_socket, wire, sut>>

EndOfFile ==
  /\ phase = "line" /\ next = Len(file)
  /\ Return("none")
  /\ UNCHANGED <<file, preserve_timing, next, total_sent, timing, m_socket, wire, sut>>

(* Mutant: the clock of the log is never set back.                         *)
RememberLatest ==
  IF MsgTime(next) > last_msg_time
  THEN last_msg_time' = MsgTime(next) /\ first_msg' = FALSE
  ELSE UNCHANGED <<last_msg_time, first_msg>>

RememberTime ==
  IF MsgTime(next) # 0
  THEN last_msg_time' = MsgTime(next) /\ first_msg' = FALSE
  ELSE UNCHANGED <<last_msg_time, first_msg>>

-----------------------------------------------------------------------------
(* TcpConnection::send                                                     *)

OnItsWay == Len(handed) - arrived

(* Mutant: after a partial send, the data from their beginning.            *)
UnitsFromTheFirst(n) == [k \in 1..n |-> [line |-> next, at |-> k]]

Units(n) == [k \in 1..n |-> [line |-> next, at |-> total_sent + k]]

(* Mutant: a message is sent when there is room for all of it.             *)
SendWhole(n) ==
  /\ phase = "send" /\ link \in {"up", "left"}
  /\ n = file[next].size /\ OnItsWay + n <= Room
  /\ handed' = handed \o Units(n)
  /\ total_sent' = 0
  /\ messages_sent' = messages_sent + 1
  /\ RememberTime
  /\ phase' = "line"
  /\ UNCHANGED <<file, preserve_timing, next, success, error_message, slept, slept_before,
                 m_socket, link, arrived, sut>>

(* ::send blocks until the kernel has room, and may then take a part.  A   *)
(* system that has left takes nothing more, but here nobody knows yet.     *)
SendTakes(n) ==
  /\ phase = "send" /\ link \in {"up", "left"}
  /\ n <= file[next].size - total_sent
  /\ OnItsWay + n <= Room
  /\ handed' = handed \o Units(n)
  /\ IF total_sent + n < file[next].size
     THEN /\ total_sent' = total_sent + n
          /\ UNCHANGED <<phase, messages_sent, last_msg_time, first_msg>>
     ELSE /\ total_sent' = 0
          /\ messages_sent' = messages_sent + 1
          /\ RememberTime
          /\ phase' = "line"
  /\ UNCHANGED <<file, preserve_timing, next, success, error_message, slept, slept_before,
                 m_socket, link, arrived, sut>>

(* Mutant: a message is counted when it is begun.                          *)
SendFailsCounted ==
  /\ phase = "send" /\ link = "reset"
  /\ error_message' = "send failed" /\ phase' = "close"
  /\ messages_sent' = messages_sent + 1
  /\ UNCHANGED <<success, file, preserve_timing, next, total_sent, timing, m_socket, wire, sut>>

SendFails ==
  /\ phase = "send" /\ link = "reset"
  /\ Return("send failed")
  /\ UNCHANGED <<file, preserve_timing, next, total_sent, timing, m_socket, wire, sut>>

(* SIGPIPE, which nobody handles; the kernel closes the socket.            *)
SendKills ==
  /\ phase = "send" /\ link = "reset"
  /\ error_message' = "killed"
  /\ m_socket' = FALSE
  /\ phase' = "done"
  /\ UNCHANGED <<file, preserve_timing, next, total_sent, messages_sent, success, timing, wire, sut>>

(* ~TcpConnection.  What the system under test has not read yet it can     *)
(* still read, unless there are answers nobody read: then it is a reset.   *)
Close ==
  /\ phase = "close"
  /\ m_socket' = FALSE
  /\ link' = CASE link = "up" /\ unread > 0 -> "reset"
               [] link = "up" /\ unread = 0 -> "closed"
               [] OTHER -> link
  /\ phase' = "done"
  /\ UNCHANGED <<file, preserve_timing, next, total_sent, result, timing, handed, arrived, sut>>

-----------------------------------------------------------------------------
(* The system under test, and the kernel                                   *)

PeerReads ==
  /\ peer = "reading" /\ link \in {"up", "closed"} /\ OnItsWay > 0
  /\ arrived' = arrived + 1
  /\ peer' = IF answers /\ handed[arrived'].at = file[handed[arrived'].line].size
             THEN "answering" ELSE "reading"
  /\ UNCHANGED <<phase, file, preserve_timing, next, total_sent, result, timing, m_socket,
                 link, handed, answers, unread>>

(* It sends an answer before it reads on, and waits for room if it must.   *)
PeerAnswers ==
  /\ peer = "answering"
  /\ \/ /\ link = "up" /\ unread < AnswerRoom
        /\ unread' = unread + 1 /\ peer' = "reading" /\ UNCHANGED link
     \/ /\ link \in {"closed", "reset"}
        /\ link' = "reset" /\ peer' = "gone" /\ UNCHANGED unread
  /\ UNCHANGED <<phase, file, preserve_timing, next, total_sent, result, timing, m_socket,
                 handed, arrived, answers>>

PeerLeaves ==
  /\ peer # "gone" /\ link = "up"
  /\ peer' = "gone"
  /\ link' \in {"left", "reset"}
  /\ UNCHANGED <<phase, file, preserve_timing, next, total_sent, result, timing, m_socket,
                 handed, arrived, answers, unread>>

(* Data for nobody are answered by a reset.                                *)
ResetArrives ==
  /\ link = "left" /\ OnItsWay > 0
  /\ link' = "reset"
  /\ UNCHANGED <<phase, file, preserve_timing, next, total_sent, result, timing, m_socket,
                 handed, arrived, sut>>

-----------------------------------------------------------------------------
Replayer ==
  \/ Connect \/ ConnectFails \/ OpenFile
  \/ SkipLine \/ BeginMessage \/ EndOfFile
  \/ \E n \in 1..Room : SendTakes(n)
  \/ SendFails \/ SendKills \/ Close

Next == Replayer \/ PeerReads \/ PeerAnswers \/ PeerLeaves \/ ResetArrives

(* The replayer is scheduled, the system under test reads and answers, the *)
(* network delivers.  Nobody has to leave.                                 *)
Fairness ==
  /\ WF_vars(Replayer)
  /\ WF_vars(PeerReads \/ PeerAnswers)
  /\ WF_vars(ResetArrives)

Spec == Init /\ [][Next]_vars /\ Fairness

-----------------------------------------------------------------------------
Unit == [line : Nat, at : Nat]

TypeOK ==
  /\ phase \in {"connect", "open", "line", "send", "close", "done"}
  /\ file \in Seq(Line)
  /\ preserve_timing \in BOOLEAN /\ first_msg \in BOOLEAN /\ success \in BOOLEAN
  /\ next \in 0..Len(file)
  /\ total_sent \in Nat /\ messages_sent \in Nat
  /\ last_msg_time \in Int /\ slept \in Nat
  /\ m_socket \in BOOLEAN
  /\ link \in {"none", "up", "left", "reset", "closed"}
  /\ handed \in Seq(Unit)
  /\ arrived \in 0..Len(handed)
  /\ peer \in {"reading", "answering", "gone"} /\ answers \in BOOLEAN
  /\ unread \in 0..AnswerRoom

SkippedIn(lines) == \A i \in lines : Skipped(i)

(* Unit v may come next after unit u.                                      *)
Follows(u, v) ==
  \/ v.line = u.line /\ v.at = u.at + 1
  \/ /\ u.at = file[u.line].size /\ v.at = 1
     /\ u.line < v.line /\ SkippedIn((u.line + 1)..(v.line - 1))

First(u) == u.at = 1 /\ SkippedIn(1..(u.line - 1))

(* Nothing of the lines up to n is missing at the end.                     *)
CompleteUpTo(n) ==
  IF handed = <<>> THEN SkippedIn(1..n)
  ELSE LET u == handed[Len(handed)]
       IN u.at = file[u.line].size /\ SkippedIn((u.line + 1)..n)

(* However send cuts the data into pieces: the system under test is given  *)
(* the messages of the log in their order, nothing twice, nothing left out *)
(* in between, and all of them if the replay is a success.                 *)
(* (replay.cpp:66-101, runner.cpp:143-155)                                 *)
InOrder ==
  /\ \A p \in DOMAIN handed :
       IF p = 1 THEN First(handed[p]) ELSE Follows(handed[p - 1], handed[p])
  /\ success => CompleteUpTo(Len(file))

(* messages_sent counts the messages that have been handed over whole,     *)
(* also when a later one failed half-way.  (replay.cpp:89-95)              *)
CountsWholeMessages ==
  messages_sent =
    Cardinality({p \in DOMAIN handed : handed[p].at = file[handed[p].line].size})

Timed(i) == i \in DOMAIN slept_before /\ MsgTime(i) # 0

Ordered(i, j) ==
  \A k, l \in i..j : Timed(k) /\ Timed(l) /\ k < l => MsgTime(k) <= MsgTime(l)

(* Between two messages whose times are known the replayer pauses at least *)
(* as long as was recorded, messages without a time in between or not, and *)
(* no longer if the times in between do not go back; before the first of   *)
(* them, and without --preserve-timing, it does not pause.                 *)
(* (replay.cpp:72-101)                                                     *)
PacedAsRecorded ==
  /\ \A i, j \in DOMAIN slept_before :
       Timed(i) /\ Timed(j) /\ i < j =>
         LET paused == slept_before[j] - slept_before[i]
             recorded == MsgTime(j) - MsgTime(i)
         IN paused >= recorded /\ (Ordered(i, j) => paused = recorded)
  /\ \A i \in DOMAIN slept_before :
       (\A k \in 1..(i - 1) : ~Timed(k)) => slept_before[i] = 0

(* Each waits for the other to read.                                       *)
MutualWait ==
  /\ phase = "send" /\ link = "up" /\ OnItsWay = Room
  /\ peer = "answering" /\ unread = AnswerRoom

(* Whatever happens to the connection and the file, the replay comes to an *)
(* end with its socket closed, unless the system under test waits for its  *)
(* answers to be read: nothing else blocks send for ever.                  *)
(* (runner.cpp:143-155, replay.cpp:51-105, main.cpp:142-158)               *)
ReplayEnds == <>[](MutualWait \/ (phase = "done" /\ ~m_socket))
=============================================================================
