---------------------------- MODULE QueueStorage ----------------------------
(***************************************************************************)
(* The queue file of alarmd: loading and saving it (queue.c, xutil.c), one *)
(* step per operation on the file system, so that a crash, a failing       *)
(* operation or a backup tool can come between any two of them.  A file    *)
(* that was synchronised or renamed stays so after a crash.                *)
(***************************************************************************)
EXTENDS StoredQueue

VARIABLES
  mem,             (* the queue of the process                             *)
  db, bak, tmp,    (* QUEUE_DATABASE, QUEUE_BACKUP, QUEUE_TEMPSAVE         *)
  stat,            (* queue_save_stat                                      *)
  restored,        (* the static of queue_save_internal                    *)
  pc,              (* the operation that comes next                        *)
  after,           (* where the save in progress returns to                *)
  exitTimer,       (* mainloop_exit_id: the process gives up in 30 s       *)
  faults           (* operations that have failed                          *)

fileVars == <<db, bak, tmp>>
svars == <<mem, fileVars, stat, restored, pc, after, exitTimer, faults>>

CONSTANT MaxFaults     (* bound of failing file operations                 *)

ASSUME MaxFaultsNat == MaxFaults \in Nat

(* A file is what it contains and what stat tells of it: device, inode,    *)
(* size and time become one number, 0 when there is no file.               *)
Absent == [q |-> EmptyQueue, id |-> 0]
FileIds == 0 .. 5
Files == [q : Queues, id : FileIds]

FreshId == CHOOSE i \in FileIds \ {0} : i \notin {db.id, bak.id, tmp.id, stat}

Saving  == {"check", "compare", "open", "write", "unlink", "backup", "commit", "stat"}
Loading == {"init", "load", "loadstat", "loadsave", "server"}
Steps   == {"down", "run", "second", "wiped", "gone"} \cup Saving \cup Loading

(* What the next process will load: the first that exists.                 *)
Candidate == IF db.id # 0 THEN db ELSE IF bak.id # 0 THEN bak ELSE tmp

Place == IF db.id # 0 THEN "main" ELSE IF bak.id # 0 THEN "backup" ELSE "scratch"

-----------------------------------------------------------------------------
Goto(p) == pc' = p /\ UNCHANGED <<after, exitTimer>>

(* An operation of the file system fails; the save returns to its end.     *)
FailTo(p) == faults < MaxFaults /\ faults' = faults + 1 /\ Goto(p)

(* queue_save: the caller waits until the save has returned to it.         *)
CallSave(from) == pc' = "check" /\ after' = from /\ UNCHANGED exitTimer

ReturnFromSave ==
  /\ pc' = after /\ after' = "run"
  /\ UNCHANGED <<mem, fileVars, faults>>

(* Somebody else wrote the file: nothing is saved from now on, and         *)
(* mainloop_exit_request gives the process 30 s to be restarted.           *)
(* Mistake: the block ends with the save that found it.                    *)
SaveCheckOnce ==
  /\ pc = "check"
  /\ IF stat # db.id
     THEN stat' = db.id /\ exitTimer' = TRUE /\ ReturnFromSave /\ UNCHANGED restored
     ELSE Goto("compare") /\ UNCHANGED <<mem, fileVars, stat, restored, faults>>

SaveCheck ==
  /\ pc = "check"
  /\ UNCHANGED stat
  /\ CASE restored -> ReturnFromSave /\ UNCHANGED <<restored, exitTimer>>
       [] ~restored /\ stat # db.id ->
            restored' = TRUE /\ exitTimer' = TRUE /\ ReturnFromSave
       [] OTHER -> Goto("compare") /\ UNCHANGED <<mem, fileVars, restored, faults>>

(* Flash memory is spared: an unchanged queue is not written.              *)
SaveCompare ==
  /\ pc = "compare"
  /\ Goto(IF db.id # 0 /\ db.q = mem THEN "stat" ELSE "open")
  /\ UNCHANGED <<mem, fileVars, stat, restored, faults>>

(* xsavefile.                                                              *)
SaveOpen ==
  /\ pc = "open"
  /\ UNCHANGED <<mem, db, bak, stat, restored>>
  /\ \/ tmp' = [q |-> EmptyQueue, id |-> FreshId] /\ Goto("write") /\ UNCHANGED faults
     \/ UNCHANGED tmp /\ FailTo("stat")

(* Mistake: the result of a short write is not looked at.                  *)
SaveWriteUnchecked ==
  /\ pc = "write"
  /\ UNCHANGED <<mem, db, bak, stat, restored>>
  /\ \/ tmp' = [tmp EXCEPT !.q = mem] /\ Goto("unlink") /\ UNCHANGED faults
     \/ \E p \in Queues : PartOf(p, mem) /\ tmp' = [tmp EXCEPT !.q = p] /\ FailTo("unlink")

SaveWrite ==
  /\ pc = "write"
  /\ UNCHANGED <<mem, db, bak, stat, restored>>
  /\ \/ tmp' = [tmp EXCEPT !.q = mem] /\ Goto("unlink") /\ UNCHANGED faults
     \/ \E p \in Queues : PartOf(p, mem) /\ tmp' = [tmp EXCEPT !.q = p] /\ FailTo("stat")

(* xcyclefiles: the backup is removed, the file becomes the backup, the    *)
(* new file takes its place, or the backup again when that fails.          *)
CycleUnlink ==
  /\ pc = "unlink"
  /\ bak' = Absent /\ Goto("backup")
  /\ UNCHANGED <<mem, db, tmp, stat, restored, faults>>

CycleBackup ==
  /\ pc = "backup"
  /\ UNCHANGED <<mem, tmp, stat, restored>>
  /\ \/ /\ IF db.id # 0 THEN bak' = db /\ db' = Absent ELSE UNCHANGED <<db, bak>>
        /\ Goto("commit") /\ UNCHANGED faults
     \/ db.id # 0 /\ UNCHANGED <<db, bak>> /\ FailTo("stat")

CycleCommit ==
  /\ pc = "commit"
  /\ UNCHANGED <<mem, stat, restored>>
  /\ \/ db' = tmp /\ tmp' = Absent /\ UNCHANGED <<bak, faults>> /\ Goto("stat")
     \/ /\ IF bak.id # 0 THEN db' = bak /\ bak' = Absent ELSE UNCHANGED <<db, bak>>
        /\ UNCHANGED tmp /\ FailTo("stat")

(* xfetchstats: from now on the file as it is counts as ours.              *)
SaveStat ==
  /\ pc = "stat"
  /\ stat' = db.id
  /\ ReturnFromSave /\ UNCHANGED <<restored, exitTimer>>

(* queue_load.                                                             *)
Load ==
  /\ pc = "load"
  /\ mem' = Loaded(Candidate.q)
  /\ Goto(IF db.id # 0 THEN "loadstat" ELSE "loadsave")
  /\ UNCHANGED <<fileVars, stat, restored, faults>>

LoadStat ==
  /\ pc = "loadstat"
  /\ stat' = db.id
  /\ Goto("server")
  /\ UNCHANGED <<mem, fileVars, restored, faults>>

LoadStatAndSave ==
  /\ pc = "loadsave"
  /\ stat' = db.id
  /\ CallSave("server")
  /\ UNCHANGED <<mem, fileVars, restored, faults>>

StorageStep ==
  \/ SaveCheck \/ SaveCompare \/ SaveOpen \/ SaveWrite
  \/ CycleUnlink \/ CycleBackup \/ CycleCommit \/ SaveStat
  \/ Load \/ LoadStat \/ LoadStatAndSave
=============================================================================
