----------------------------- MODULE MCMsgQueue -----------------------------
(* The message queue with three threads, two messages and a ring of two      *)
(* slots: full, empty and wrapped rings all occur, each thread may send and  *)
(* receive in turn, and two can wait for the lock while the third holds it.  *)
EXTENDS MsgQueue
=============================================================================
