---------------------------- MODULE StoredQueue -----------------------------
(***************************************************************************)
(* The queue as far as it is stored: which alarms there are and how far    *)
(* each got.                                                               *)
(***************************************************************************)
EXTENDS Integers, Sequences, FiniteSets

CONSTANTS
  Alarms,        (* cookies                                                *)
  Tool           (* the queues a backup tool may restore                   *)

(* How far an alarm got; the states of states.inc that queue_load_from_path *)
(* tells apart are all that matters to a restart.                          *)
Stages == {"NEW", "LIMBO", "SYSUI_REQ"}

Queues == UNION {[A -> Stages] : A \in SUBSET Alarms}

EmptyQueue == [a \in {} |-> "NEW"]

ASSUME ToolQueues == Tool \subseteq Queues

(* The switch in queue_load_from_path.                                     *)
LoadedStage(s) == IF s \in {"LIMBO", "SYSUI_REQ"} THEN "LIMBO" ELSE "NEW"

Loaded(q) == [a \in DOMAIN q |-> LoadedStage(q[a])]

(* A queue file that was only begun holds some of the alarms.              *)
PartOf(p, q) == DOMAIN p \subseteq DOMAIN q /\ \A a \in DOMAIN p : p[a] = q[a]

(* Clients and the rethink loop add, move and remove one alarm, clearing   *)
(* user data removes all.                                                  *)
ChangeTo(q, r) ==
  \/ r = EmptyQueue
  \/ \E a \in Alarms :
       /\ DOMAIN q \ {a} = DOMAIN r \ {a}
       /\ \A b \in DOMAIN r \ {a} : r[b] = q[b]
=============================================================================
