------------------------------ MODULE MCCanNode ------------------------------
(* CAN reception with a queue of two messages and six activations of the    *)
(* handler: the queue fills up, refuses and wraps more than once.           *)
EXTENDS CanNode
=============================================================================
