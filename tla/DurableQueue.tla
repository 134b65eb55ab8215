---------------------------- MODULE DurableQueue ----------------------------
(***************************************************************************)
(* What alarmd promises about its alarms across restarts: there is always  *)
(* one stored queue, replaced as a whole.  A process that starts gets the  *)
(* stored queue with the alarms that were ringing put back to limbo; what  *)
(* it changes is kept when it is committed, and lost when the process ends *)
(* before.  Only a queue that is nowhere but in the scratch file, because  *)
(* it is the first or because the process before died between setting the  *)
(* old file aside and committing, can be cut short by the next one.  And a *)
(* queue that a backup tool restores while the old one is set aside is     *)
(* replaced again: by the commit, or by the old one when that fails.       *)
(***************************************************************************)
EXTENDS StoredQueue

VARIABLES
  mem,           (* the queue of the running process                       *)
  alive,         (* is there one                                           *)
  store,         (* what the next process will find                        *)
  place,         (* where: "main", "backup" or "scratch"                   *)
  aside          (* the queue set aside by a save in progress, if any      *)

dvars == <<mem, alive, store, place, aside>>

DInit == /\ mem = EmptyQueue /\ ~alive /\ store = EmptyQueue /\ place = "scratch"
         /\ aside = << >>

DStart  == /\ ~alive /\ alive' /\ mem' = Loaded(store)
           /\ UNCHANGED <<store, place, aside>>
DChange == /\ alive /\ mem' \in Queues /\ ChangeTo(mem, mem')
           /\ UNCHANGED <<alive, store, place, aside>>
DStop   == /\ alive /\ ~alive' /\ mem' = EmptyQueue /\ aside' = << >>
           /\ UNCHANGED <<store, place>>

DCommit == /\ alive /\ store' = mem
           /\ place' = "main" \/ (place # "main" /\ place' = "scratch")
           /\ aside' = << >>
           /\ UNCHANGED <<mem, alive>>

DSetAside == /\ alive /\ place = "main" /\ place' = "backup"
             /\ aside' = <<store>>
             /\ UNCHANGED <<mem, alive, store>>

DPutBack == /\ alive /\ aside = <<store'>> /\ place' = "main"
            /\ aside' = << >>
            /\ UNCHANGED <<mem, alive>>

DScratch == /\ alive /\ place = "scratch" /\ PartOf(store', mem)
            /\ UNCHANGED <<mem, alive, place, aside>>

DRestore == /\ store' \in Tool /\ place' = "main"
            /\ UNCHANGED <<mem, alive, aside>>

DNext == \/ DStart \/ DChange \/ DStop \/ DCommit \/ DSetAside \/ DPutBack
         \/ DScratch \/ DRestore

DSpec == DInit /\ [][DNext]_dvars
=============================================================================
