---------------------------- MODULE MCFollowList ----------------------------
(* FollowList on small instances: every constant is a model value, a set of *)
(* them or a number, so the configuration gives them all.                   *)
EXTENDS FollowList
=============================================================================
