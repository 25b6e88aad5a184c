------------------------------- MODULE MCReplay -------------------------------
(* Small instances of Replay: logs as sequences of lines.                   *)
EXTENDS Replay

Blank == [stripped |-> "nothing", size |-> 1, stamp |-> 0, time |-> 0]
Comment == [Blank EXCEPT !.stripped = "comment"]
Untimed(size) == [stripped |-> "message", size |-> size, stamp |-> 0, time |-> 0]
At(time, size) == [Untimed(size) EXCEPT !.stamp = 21, !.time = time]
NoMillis(time) == [Untimed(1) EXCEPT !.stamp = 17, !.time = time]

(* Comments and blanks at every place; times that rise, stand still, go     *)
(* back, are missing or too short; a stamp that stands for a time long ago; *)
(* messages that do and do not fit into the kernel at once.                 *)
MCLogs ==
  {<<>>, <<Comment, Blank>>,
   <<Comment, At(3, 2), Blank, At(5, 3), Comment>>,
   <<At(5, 1), At(2, 2), At(6, 1), At(6, 1)>>,
   <<Untimed(2), At(4, 1), Untimed(1), At(7, 2)>>,
   <<At(-9, 1), NoMillis(4), At(3, 1), At(8, 1)>>}
=============================================================================
