---------------------------- MODULE AlarmProcess ----------------------------
(***************************************************************************)
(* The life of the alarmd process around its queue file: starting and      *)
(* loading, running, being told to stop by signals, stopping and saving,   *)
(* and what happens when it is killed, the device loses power or a backup  *)
(* tool replaces the queue file (mainloop.c, sighnd.c, with queue.c).      *)
(***************************************************************************)
EXTENDS QueueStorage

CONSTANTS
  MaxChanges,    (* bound of changes to the queue                          *)
  MaxSignals,    (* bound of signals to one process                        *)
  MaxRestores    (* bound of restores by the backup tool                   *)

ASSUME ProcessBounds ==
  MaxChanges \in Nat /\ MaxSignals \in Nat /\ MaxRestores \in Nat

VARIABLES
  sigpipe,       (* how many signals wait in sighnd_pipe                   *)
  sighnd_exit,   (* a terminating signal waits for the main loop           *)
  quitting,      (* g_main_loop_quit was called                            *)
  signals,       (* terminating signals this process got                   *)
  disturbed,        (* did a save meet an error or the backup tool           *)
  owed,          (* the restored queue the next process must find, if any  *)
  changes, restores

signalVars == <<sigpipe, sighnd_exit, quitting, signals>>
countVars == <<changes, restores>>
vars == <<svars, signalVars, disturbed, owed, countVars>>

(* Signals that end the process; SIGHUP does not count for sighnd_exit.    *)
Signals == {"TERM", "HUP"}

AtFile == Saving \cup {"second", "wiped", "gone"}

Alive == pc \notin {"down", "init", "load"}

NewProcess ==
  /\ mem' = EmptyQueue /\ stat' = 0 /\ restored' = FALSE
  /\ after' = "run" /\ exitTimer' = FALSE
  /\ sigpipe' = 0 /\ sighnd_exit' = FALSE /\ quitting' = FALSE /\ signals' = 0
  /\ disturbed' = FALSE

-----------------------------------------------------------------------------
(* mainloop_run up to sighnd_init and hwrtc_init, then queue_init.         *)
Start ==
  /\ pc = "down"
  /\ pc' = "init"
  /\ NewProcess
  /\ UNCHANGED <<fileVars, faults, owed, countVars>>

InitQueue ==
  /\ pc = "init"
  /\ Goto("load")
  /\ UNCHANGED <<mem, fileVars, stat, restored, faults, signalVars, disturbed, owed,
                 countVars>>

(* server_init fails when a bus is down or the name is taken: the process  *)
(* cleans up and leaves as it does from the main loop.                     *)
InitServer ==
  /\ pc = "server"
  /\ Goto("run") \/ CallSave("gone")
  /\ disturbed' = FALSE
  /\ UNCHANGED <<mem, fileVars, stat, restored, faults, signalVars, owed, countVars>>

(* Handlers of the main loop.                                              *)
Change ==
  /\ pc = "run" /\ changes < MaxChanges
  /\ \E q \in Queues \ {mem} : ChangeTo(mem, q) /\ mem' = q
  /\ changes' = changes + 1
  /\ UNCHANGED <<fileVars, stat, restored, pc, after, exitTimer, faults, signalVars,
                 disturbed, owed, restores>>

SaveTimer ==
  /\ pc = "run"
  /\ CallSave("run") /\ disturbed' = FALSE
  /\ UNCHANGED <<mem, fileVars, stat, restored, faults, signalVars, owed, countVars>>

(* server_handle_CUD removes all events and saves twice.                   *)
ClearUserData ==
  /\ pc = "run" /\ DOMAIN mem # {}
  /\ mem' = EmptyQueue
  /\ CallSave("second") /\ disturbed' = FALSE
  /\ UNCHANGED <<fileVars, stat, restored, faults, signalVars, owed, countVars>>

SaveAgain ==
  /\ pc = "second"
  /\ CallSave("wiped")
  /\ UNCHANGED <<mem, fileVars, stat, restored, faults, signalVars, disturbed, owed,
                 countVars>>

ReplyCleared ==
  /\ pc = "wiped"
  /\ Goto("run")
  /\ UNCHANGED <<mem, fileVars, stat, restored, faults, signalVars, disturbed, owed,
                 countVars>>

(* mainloop_exit_cb, 30 s after the file was found to be replaced.         *)
ExitTimeout ==
  /\ pc = "run" /\ exitTimer
  /\ exitTimer' = FALSE /\ quitting' = TRUE
  /\ UNCHANGED <<mem, fileVars, stat, restored, pc, after, faults, sigpipe,
                 sighnd_exit, signals, disturbed, owed, countVars>>

(* The loop ends; server_quit, queue_quit.                                 *)
(* Mistake: the queue is dropped without being saved.                      *)
LeaveUnsaved ==
  /\ pc = "run" /\ quitting
  /\ disturbed' = FALSE /\ pc' = "gone" /\ after' = "run" /\ exitTimer' = FALSE
  /\ UNCHANGED <<mem, fileVars, stat, restored, faults, signalVars, owed, countVars>>

LeaveMainloop ==
  /\ pc = "run" /\ quitting
  /\ disturbed' = FALSE /\ pc' = "check" /\ after' = "gone" /\ exitTimer' = FALSE
  /\ UNCHANGED <<mem, fileVars, stat, restored, faults, signalVars, owed, countVars>>

Exit ==
  /\ pc = "gone"
  /\ pc' = "down"
  /\ NewProcess
  /\ UNCHANGED <<fileVars, faults, owed, countVars>>

-----------------------------------------------------------------------------
(* A signal that comes while one is still waiting ends the process at once *)
(* (sighnd_pipe_tx_cb); otherwise it goes to the main loop.                *)
Killed == pc' = "down" /\ NewProcess /\ UNCHANGED <<fileVars, faults, owed, countVars>>

Signal(sig) ==
  /\ pc \notin {"down", "init"} /\ signals < MaxSignals
  /\ IF sig = "TERM" /\ sighnd_exit
     THEN Killed
     ELSE /\ signals' = signals + 1
          /\ sighnd_exit' = (sighnd_exit \/ sig = "TERM")
          /\ sigpipe' = sigpipe + 1
          /\ UNCHANGED <<svars, quitting, disturbed, owed, countVars>>

(* sighnd_handler: the first terminating signal stops the main loop.  The  *)
(* loop is left before the pipe is read again.                             *)
(* Mistakes: the loop goes on until another signal comes; the handler runs *)
(* whether or not there is something to read.                              *)
HandleOnly ==
  /\ pc = "run" /\ ~quitting /\ sigpipe > 0
  /\ sigpipe' = sigpipe - 1
  /\ quitting' = (signals > 1) /\ sighnd_exit' = FALSE
  /\ UNCHANGED <<svars, signals, disturbed, owed, countVars>>

HandleSpurious ==
  /\ pc = "run" /\ ~quitting
  /\ sigpipe' = sigpipe - 1
  /\ quitting' = TRUE /\ sighnd_exit' = FALSE
  /\ UNCHANGED <<svars, signals, disturbed, owed, countVars>>

HandleSignal ==
  /\ pc = "run" /\ ~quitting /\ sigpipe > 0
  /\ sigpipe' = sigpipe - 1
  /\ quitting' = TRUE /\ sighnd_exit' = FALSE
  /\ UNCHANGED <<svars, signals, disturbed, owed, countVars>>

(* Power is lost, or the process is killed in any other way.               *)
Crash == pc # "down" /\ Killed

(* The backup tool replaces the file.  Unless the daemon is just loading   *)
(* or saving, the restored queue is to survive whatever the daemon does;   *)
(* in the middle of a save it counts as one of the save's faults.          *)
Restore(q) ==
  /\ restores < MaxRestores
  /\ db' = [q |-> q, id |-> FreshId]
  /\ owed' = IF pc \in {"down", "init", "load", "run"} THEN <<q>> ELSE << >>
  /\ disturbed' = (disturbed \/ pc \in AtFile)
  /\ pc \in AtFile => faults < MaxFaults
  /\ faults' = faults + (IF pc \in AtFile THEN 1 ELSE 0)
  /\ restores' = restores + 1
  /\ UNCHANGED <<mem, bak, tmp, stat, restored, pc, after, exitTimer, signalVars,
                 changes>>

(* A step of loading or saving, seen by the process.                       *)
Storage ==
  /\ StorageStep
  /\ disturbed' = (disturbed \/ faults' # faults)
  /\ owed' = IF pc = "load" THEN << >> ELSE owed
  /\ UNCHANGED <<signalVars, countVars>>

Init ==
  /\ mem = EmptyQueue /\ db = Absent /\ bak = Absent /\ tmp = Absent
  /\ stat = 0 /\ restored = FALSE /\ pc = "down" /\ after = "run"
  /\ exitTimer = FALSE /\ faults = 0
  /\ sigpipe = 0 /\ sighnd_exit = FALSE /\ quitting = FALSE /\ signals = 0
  /\ disturbed = FALSE /\ owed = << >>
  /\ changes = 0 /\ restores = 0

Next ==
  \/ Start \/ InitQueue \/ InitServer \/ Storage
  \/ Change \/ SaveTimer \/ ClearUserData \/ SaveAgain \/ ReplyCleared
  \/ ExitTimeout \/ LeaveMainloop \/ Exit
  \/ \E sig \in Signals : Signal(sig)
  \/ HandleSignal \/ Crash
  \/ \E q \in Tool : Restore(q)

Spec == Init /\ [][Next]_vars

(* The process runs; its main loop serves every source in its turn, and is *)
(* left at the end of the iteration in which it was told to.               *)
Fairness ==
  /\ WF_vars(InitQueue) /\ WF_vars(InitServer) /\ WF_vars(Storage)
  /\ WF_vars(SaveAgain) /\ WF_vars(ReplyCleared) /\ WF_vars(Exit)
  /\ SF_vars(LeaveMainloop) /\ SF_vars(HandleSignal) /\ SF_vars(ExitTimeout)

FairSpec == Spec /\ Fairness

-----------------------------------------------------------------------------
(* Properties.                                                             *)

Debts == {<< >>} \cup {<<q>> : q \in Queues}

TypeOK ==
  /\ mem \in Queues /\ db \in Files /\ bak \in Files /\ tmp \in Files
  /\ stat \in FileIds /\ restored \in BOOLEAN /\ exitTimer \in BOOLEAN
  /\ pc \in Steps /\ after \in {"run", "second", "wiped", "server", "gone"}
  /\ sigpipe \in Nat /\ sighnd_exit \in BOOLEAN /\ quitting \in BOOLEAN
  /\ owed \in Debts
  /\ disturbed \in BOOLEAN /\ faults \in 0 .. MaxFaults

(* The queue that a failing commit would put back.                         *)
SetAside == IF pc = "commit" /\ bak.id # 0 THEN <<bak.q>> ELSE << >>

(* The files keep the promise of a stored queue that is only replaced as a *)
(* whole: wherever a crash, a full disk or a failing rename strikes, the   *)
(* next process finds the queue before or after the save, never a part.    *)
Promise == INSTANCE DurableQueue
           WITH alive <- Alive, store <- Candidate.q, place <- Place,
                aside <- SetAside

KeepsPromise == Promise!DSpec

(* A queue that the backup tool restored while the daemon was not at the   *)
(* file is what the next process loads, whatever the running one does      *)
(* before it ends, its last save and clearing of user data included.       *)
RestoreSurvives == owed # << >> => Candidate.q = owed[1]

(* A process that ends by itself has saved its last queue, unless the file *)
(* is not its own any more or the save was disturbed.                      *)
ExitSaves ==
  [][pc = "gone" /\ pc' = "down" => db.q = mem \/ restored \/ disturbed]_vars

(* A signal that reached the process ends it, and so does the discovery    *)
(* that the file was restored: the process that would never save again     *)
(* does not stay.                                                          *)
Stops == (sigpipe > 0 \/ restored) ~> pc = "down"

-----------------------------------------------------------------------------
(* What a comment says of the program, and it does not do.                 *)

(* server.c: clearing user data saves twice so that the backup gets        *)
(* cleared too.                                                            *)
BackupCleared == pc = "wiped" /\ ~disturbed /\ ~restored => DOMAIN bak.q = {}
=============================================================================
