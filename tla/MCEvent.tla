------------------------------ MODULE MCEvent ------------------------------
(* Small programs for model checking Event. *)
EXTENDS Event, TLC

ev(op, c, v) == [op |-> op, ch |-> c, val |-> v]
sync(evs) == [blocking |-> TRUE, evs |-> evs]
poll(evs) == [blocking |-> FALSE, evs |-> evs]
run3(a, b, c) == ("t1" :> a @@ "t2" :> b @@ "t3" :> c)

MCRing == <<"t1", "t2", "t3">>

(* A server that selects between two channels, as rio's window threads do  *)
(* between the mouse and the keyboard; its two clients.  Each call leaves  *)
(* an offer behind on the channel that was not used.                       *)
Server == run3(
  <<sync(<<ev("receive", "c", 0), ev("receive", "d", 0)>>),
    sync(<<ev("receive", "d", 0), ev("receive", "c", 0)>>)>>,
  <<sync(<<ev("send", "c", 1)>>)>>,
  <<sync(<<ev("send", "d", 2)>>)>>)

(* Three threads that may each send or receive: one of them is left over.  *)
Swap == run3(
  <<sync(<<ev("send", "c", 1), ev("receive", "c", 0)>>)>>,
  <<sync(<<ev("send", "c", 2), ev("receive", "c", 0)>>)>>,
  <<sync(<<ev("send", "c", 3), ev("receive", "c", 0)>>)>>)

(* A thread that only polls, and an event that is always ready. *)
Poller == run3(
  <<poll(<<ev("receive", "c", 0)>>), sync(<<ev("receive", "c", 0), ev("always", "d", 0)>>)>>,
  <<sync(<<ev("send", "c", 1)>>)>>,
  <<sync(<<ev("receive", "c", 0)>>)>>)

(* Stale offers: t1 offers on both channels twice and the clients come in  *)
(* any order; t2 then waits for an answer.                                 *)
Reply == run3(
  <<sync(<<ev("receive", "c", 0), ev("receive", "d", 0)>>), sync(<<ev("send", "d", 3)>>)>>,
  <<sync(<<ev("send", "c", 1), ev("send", "d", 1)>>), sync(<<ev("receive", "d", 0)>>)>>,
  <<poll(<<ev("send", "d", 2)>>)>>)

MCPrograms == {Server, Swap, Poller, Reply}
=============================================================================
