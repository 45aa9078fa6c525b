----------------------------- MODULE MCSimulator -----------------------------
(* Instances of Simulator for TLC: kernels of one or two operations, with two  *)
(* votes in a row, two barriers, a vote among three threads, a shared array    *)
(* before a barrier, and atomic operations on one element.                   *)
EXTENDS Simulator

CONSTANTS t1, t2, t3

Threads == {t1, t2, t3}

On(block, kernels) == [kernel : kernels, threads : {block}]

MCLaunches ==
  On({t1, t2}, {<<"vote", "vote">>, <<"shared", "sync">>, <<"add", "add">>, <<"exch", "cas">>})
  \cup On(Threads, {<<"sync", "sync">>, <<"vote">>, <<"max", "nanmax">>})

MCShared == On({t1, t2}, {<<"shared", "sync">>})
=============================================================================
