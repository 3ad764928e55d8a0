---------------------------- MODULE MCConnPool ----------------------------
(* Small instance of ConnPool: the listener and four more slots.           *)
EXTENDS ConnPool

MCTimes == {1, 2}
===========================================================================
