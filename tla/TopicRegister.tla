---------------------------- MODULE TopicRegister ----------------------------
(***************************************************************************)
(* What the list of pending topic operations promises the app, without its *)
(* batches: an operation asked for stays pending, is executed by the       *)
(* server any number of times, and leaves only after the server executed   *)
(* or refused it since it last became pending.  A request the client gave  *)
(* up on may still be executed later.  Nothing is executed that was not    *)
(* asked for.  The order is not part of this promise: PendingTopics shows  *)
(* what the code keeps of it.                                              *)
(***************************************************************************)
EXTENDS Integers

CONSTANT Topics

VARIABLES
  pending,     \* how often each operation is pending
  executed,    \* pending operations the server executed
  refused,     \* pending operations the server refused
  adrift,      \* operations once pending whose request may still arrive
  registered   \* topics the server sends to this installation

vars == <<pending, executed, refused, adrift, registered>>

Actions == {"subscribe", "unsubscribe"}
Operations == [action : Actions, topic : Topics]

TypeOK ==
  /\ pending \in [Operations -> Nat]
  /\ executed \subseteq Operations /\ refused \subseteq Operations
  /\ adrift \subseteq Operations
  /\ registered \subseteq Topics

Init ==
  /\ pending = [o \in Operations |-> 0]
  /\ executed = {} /\ refused = {} /\ adrift = {}
  /\ registered = {}

\* An operation that is pending already may be merged with it.
Request(o) ==
  /\ \/ pending' = [pending EXCEPT ![o] = @ + 1]
     \/ pending[o] > 0 /\ UNCHANGED pending
  /\ UNCHANGED <<executed, refused, adrift, registered>>

Register(o) ==
  registered' = IF o.action = "subscribe" THEN registered \cup {o.topic}
                                          ELSE registered \ {o.topic}

Execute(o) ==
  /\ pending[o] > 0
  /\ Register(o)
  /\ executed' = executed \cup {o}
  /\ UNCHANGED <<pending, refused, adrift>>

ExecuteLate(o) ==
  /\ o \in adrift
  /\ Register(o)
  /\ adrift' \in {adrift, adrift \ {o}}
  /\ UNCHANGED <<pending, executed, refused>>

Refuse(o) ==
  /\ pending[o] > 0
  /\ refused' = refused \cup {o}
  /\ UNCHANGED <<pending, executed, adrift, registered>>

Conclude(o) ==
  /\ pending[o] > 0 /\ o \in executed \cup refused
  /\ pending' = [pending EXCEPT ![o] = @ - 1]
  /\ executed' = executed \ {o} /\ refused' = refused \ {o}
  /\ UNCHANGED <<adrift, registered>>

\* The client loses answers, and gives up on requests that may still arrive:
\* what became of them must be found out again.
Forget ==
  /\ executed' \in SUBSET executed /\ refused' \in SUBSET refused
  /\ \E some \in SUBSET {o \in Operations : pending[o] > 0} : adrift' = adrift \cup some
  /\ UNCHANGED <<pending, registered>>

Next ==
  \/ \E o \in Operations : Request(o) \/ Execute(o) \/ ExecuteLate(o) \/ Refuse(o) \/ Conclude(o)
  \/ Forget

Spec == Init /\ [][Next]_vars

=============================================================================
