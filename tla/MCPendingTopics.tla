---------------------------- MODULE MCPendingTopics ---------------------------
(* PendingTopics for TLC: the topics are model values, and liveness is        *)
(* checked, so no symmetry is used.                                           *)
EXTENDS PendingTopics

CONSTANT t1

\* One kind of request may be late: the actions and the topics are alike.
MCMayBeLate == {[action |-> "subscribe", topic |-> t1]}
=============================================================================
