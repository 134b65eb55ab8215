------------------------- MODULE AlarmProcessProofs -------------------------
(***************************************************************************)
(* Proofs about AlarmProcess, for every value of its constants: the type   *)
(* invariant, that a restored queue survives, that a process which ends by *)
(* itself has saved, and that the steps on the files implement the stored  *)
(* queue that is only replaced as a whole.                                 *)
(***************************************************************************)
EXTENDS AlarmProcess, TLAPS

-----------------------------------------------------------------------------
(* The inductive invariant.                                                *)

(* The new file exists from the moment it was opened until it is renamed.  *)
Written == pc \in {"write", "unlink", "backup", "commit"} => tmp.id # 0

(* The files are only renamed around a file that was written completely.   *)
Whole == pc \in {"unlink", "backup", "commit"} => tmp.q = mem

(* When the file is to become the backup, the old backup is gone.          *)
Room == pc = "backup" => bak.id = 0

(* A process that has not loaded has no queue.                             *)
Unloaded == ~Alive => mem = EmptyQueue

(* A restored queue that is owed to the next process is in the queue file, *)
(* and the running process has noticed that the file is not its own, or    *)
(* will at its next save.                                                  *)
OwedSafe ==
  owed # << >> =>
    /\ db.id # 0 /\ db.q = owed[1]
    /\ \/ pc \in {"down", "init", "load"}
       \/ /\ pc \in {"run", "check", "second", "wiped", "gone"}
          /\ restored \/ stat # db.id
    /\ pc = "check" => after # "server"

(* A save that got to its end has stored the queue or was disturbed.       *)
Settled ==
  /\ pc = "stat" => db.q = mem \/ disturbed
  /\ pc = "gone" => db.q = mem \/ restored \/ disturbed

IInv == TypeOK /\ Written /\ Whole /\ Room /\ Unloaded /\ OwedSafe /\ Settled

-----------------------------------------------------------------------------
(* The operators.                                                          *)

(* The empty queue is a queue.                                             *)
LEMMA EmptyOk == EmptyQueue \in Queues
BY DEF EmptyQueue, Queues, Stages

(* Loading a queue gives a queue.                                          *)
LEMMA LoadedOk ==
  ASSUME NEW q \in Queues
  PROVE  Loaded(q) \in Queues
<1>1. PICK A \in SUBSET Alarms : q \in [A -> Stages]
  BY DEF Queues
<1>2. Loaded(q) \in [A -> Stages]
  BY <1>1 DEF Loaded, LoadedStage, Stages
<1> QED BY <1>2 DEF Queues

(* Four files cannot use up five numbers: a new file is told from all the  *)
(* others and from the one the daemon remembers.                           *)
LEMMA FreshIdOk ==
  ASSUME TypeOK
  PROVE  FreshId \in FileIds \ {0, db.id, bak.id, tmp.id, stat}
<1>1. db.id \in FileIds /\ bak.id \in FileIds /\ tmp.id \in FileIds /\ stat \in FileIds
  BY DEF TypeOK, Files
<1>2. \E i \in FileIds \ {0} : i \notin {db.id, bak.id, tmp.id, stat}
  BY <1>1 DEF FileIds
<1> QED BY <1>2 DEF FreshId

(* What the next process loads is a queue.                                 *)
LEMMA CandidateOk ==
  ASSUME TypeOK
  PROVE  Candidate \in Files /\ Candidate.q \in Queues
BY DEF TypeOK, Candidate, Files

(* Nothing is owed, or a restored queue.                                   *)
LEMMA DebtOk == << >> \in Debts /\ \A q \in Queues : <<q>> \in Debts
BY DEF Debts

(* No file is a file.                                                      *)
LEMMA AbsentOk == Absent \in Files /\ Absent.id = 0 /\ Absent.q = EmptyQueue
BY EmptyOk DEF Absent, Files, FileIds

-----------------------------------------------------------------------------
(* The steps keep the invariant.                                           *)

(* A new process starts from nothing; only what it owes is looked at.      *)
LEMMA NewProcessIInv ==
  ASSUME IInv, NewProcess, UNCHANGED <<fileVars, faults, owed>>,
         \/ pc' = "down"
         \/ pc' = "init"
  PROVE  IInv'
<1> USE DEF IInv, NewProcess, fileVars
<1>1. TypeOK'
  <2>1. mem' \in Queues /\ stat' \in FileIds
    BY EmptyOk DEF FileIds
  <2>2. pc' \in Steps
    BY DEF Steps, Loading
  <2>3. UNCHANGED <<db, bak, tmp, faults, owed>>
    OBVIOUS
  <2>4. after' \in {"run", "second", "wiped", "server", "gone"}
    OBVIOUS
  <2> QED BY <2>1, <2>2, <2>3, <2>4 DEF TypeOK
<1>2. (Written /\ Whole /\ Room /\ Unloaded /\ Settled)'
  BY DEF Written, Whole, Room, Unloaded, Settled
<1>3. OwedSafe'
  BY DEF OwedSafe
<1> QED BY <1>1, <1>2, <1>3

(* The steps of the process outside the save.                              *)
LEMMA ProcessIInv ==
  ASSUME IInv,
         \/ InitQueue \/ InitServer \/ Change \/ SaveTimer \/ ClearUserData
         \/ SaveAgain \/ ReplyCleared \/ ExitTimeout \/ LeaveMainloop
  PROVE  IInv'
<1> USE DEF IInv, fileVars, signalVars, countVars, Goto, CallSave
<1>1. CASE InitQueue
  BY <1>1 DEF InitQueue, TypeOK, Steps, Loading, Written, Whole, Room, Unloaded,
              Alive, OwedSafe, Settled
<1>2. CASE InitServer
  BY <1>2 DEF InitServer, TypeOK, Steps, Loading, Saving, Written, Whole, Room,
              Unloaded, Alive, OwedSafe, Settled
<1>3. CASE Change
  BY <1>3 DEF Change, TypeOK, Steps, Loading, Saving, Written, Whole, Room,
              Unloaded, Alive, OwedSafe, Settled
<1>4. CASE SaveTimer
  BY <1>4 DEF SaveTimer, TypeOK, Steps, Loading, Saving, Written, Whole, Room,
              Unloaded, Alive, OwedSafe, Settled
<1>5. CASE ClearUserData
  BY <1>5, EmptyOk DEF ClearUserData, TypeOK, Steps, Loading, Saving, Written, Whole,
              Room, Unloaded, Alive, OwedSafe, Settled
<1>6. CASE SaveAgain
  BY <1>6 DEF SaveAgain, TypeOK, Steps, Loading, Saving, Written, Whole, Room,
              Unloaded, Alive, OwedSafe, Settled
<1>7. CASE ReplyCleared
  BY <1>7 DEF ReplyCleared, TypeOK, Steps, Loading, Saving, Written, Whole, Room,
              Unloaded, Alive, OwedSafe, Settled
<1>8. CASE ExitTimeout
  BY <1>8 DEF ExitTimeout, TypeOK, Steps, Loading, Saving, Written, Whole, Room,
              Unloaded, Alive, OwedSafe, Settled
<1>9. CASE LeaveMainloop
  BY <1>9 DEF LeaveMainloop, TypeOK, Steps, Loading, Saving, Written, Whole, Room,
              Unloaded, Alive, OwedSafe, Settled
<1> QED BY <1>1, <1>2, <1>3, <1>4, <1>5, <1>6, <1>7, <1>8, <1>9

(* A signal waits for the main loop or ends the process at once.           *)
LEMMA SignalIInv ==
  ASSUME IInv, NEW sig \in Signals, Signal(sig) \/ HandleSignal \/ Crash
  PROVE  IInv'
<1>1. CASE Killed
  BY <1>1, NewProcessIInv DEF Killed
<1>2. CASE Signal(sig) /\ ~Killed
  <2>1. /\ UNCHANGED <<mem, db, bak, tmp, stat, restored, pc, after, exitTimer, faults>>
        /\ UNCHANGED <<quitting, disturbed, owed>>
        /\ sigpipe' = sigpipe + 1 /\ sighnd_exit' = (sighnd_exit \/ sig = "TERM")
    BY <1>2 DEF Signal, svars, fileVars
  <2>11. TypeOK'
    BY <2>1 DEF IInv, TypeOK
  <2>12. (Written /\ Whole /\ Room /\ Unloaded)'
    BY <2>1 DEF IInv, Written, Whole, Room, Unloaded, Alive
  <2>13. OwedSafe'
    BY <2>1 DEF IInv, OwedSafe
  <2>14. Settled'
    BY <2>1 DEF IInv, Settled
  <2> QED BY <2>11, <2>12, <2>13, <2>14 DEF IInv
<1>3. CASE HandleSignal
  <2>1. /\ UNCHANGED <<mem, db, bak, tmp, stat, restored, pc, after, exitTimer, faults>>
        /\ UNCHANGED <<disturbed, owed>> /\ quitting' = TRUE /\ sighnd_exit' = FALSE
        /\ sigpipe > 0 /\ sigpipe' = sigpipe - 1
    BY <1>3 DEF HandleSignal, svars, fileVars
  <2>11. TypeOK'
    <3>1. sigpipe' \in Nat
      <4>1. sigpipe \in Nat
        BY DEF IInv, TypeOK
      <4>2. sigpipe > 0 /\ sigpipe' = sigpipe - 1
        BY <2>1
      <4> QED BY <4>1, <4>2
    <3> QED BY <2>1, <3>1 DEF IInv, TypeOK
  <2>12. (Written /\ Whole /\ Room /\ Unloaded)'
    BY <2>1 DEF IInv, Written, Whole, Room, Unloaded, Alive
  <2>13. OwedSafe'
    BY <2>1 DEF IInv, OwedSafe
  <2>14. Settled'
    BY <2>1 DEF IInv, Settled
  <2> QED BY <2>11, <2>12, <2>13, <2>14 DEF IInv
<1> QED BY <1>1, <1>2, <1>3 DEF Crash

(* A restored file is new to the daemon, whatever it remembers.            *)
LEMMA RestoreIInv ==
  ASSUME IInv, NEW q \in Tool, Restore(q)
  PROVE  IInv'
<1> USE DEF IInv, Restore, signalVars
<1>1. q \in Queues /\ FreshId \in FileIds /\ FreshId \notin {0, stat}
  BY FreshIdOk, ToolQueues
<1> HIDE DEF FreshId
<1>2. db' \in Files /\ db'.id = FreshId /\ db'.q = q
  BY <1>1 DEF Files
<1>3. TypeOK'
  BY <1>1, <1>2, DebtOk, MaxFaultsNat DEF TypeOK
<1>4. (Written /\ Whole /\ Room /\ Unloaded)'
  BY DEF Written, Whole, Room, Unloaded, Alive
<1>5. OwedSafe'
  BY <1>1, <1>2 DEF OwedSafe
<1>6. Settled'
  BY DEF Settled, AtFile, Saving
<1> QED BY <1>3, <1>4, <1>5, <1>6

(* What the check at the start of a save comes to.                         *)
LEMMA SaveCheckCases ==
  ASSUME SaveCheck, restored \in BOOLEAN
  PROVE  /\ pc = "check" /\ UNCHANGED <<mem, db, bak, tmp, stat, faults>>
         /\ \/ /\ restored \/ stat # db.id
               /\ restored' /\ restored' \in BOOLEAN
               /\ exitTimer' \in {exitTimer, TRUE}
               /\ pc' = after /\ after' = "run"
            \/ /\ ~restored /\ stat = db.id
               /\ pc' = "compare" /\ UNCHANGED <<after, restored, exitTimer>>
<1> USE DEF SaveCheck, ReturnFromSave, fileVars, Goto
<1>1. CASE restored
  BY <1>1
<1>2. CASE ~restored /\ stat # db.id
  BY <1>2
<1>3. CASE ~restored /\ stat = db.id
  BY <1>3
<1> QED BY <1>1, <1>2, <1>3

(* Nothing is owed while the daemon reads or writes the files.             *)
LEMMA NothingOwed ==
  ASSUME IInv, Storage,
         pc \in {"compare", "open", "write", "unlink", "backup", "commit", "stat",
                "load", "loadstat", "loadsave"}
  PROVE  owed' = << >> /\ OwedSafe'
<1>1. owed' = << >>
  BY DEF IInv, Storage, OwedSafe
<1> QED BY <1>1 DEF OwedSafe

(* The steps of a save and of loading.                                     *)
LEMMA StorageIInv ==
  ASSUME IInv, Storage
  PROVE  IInv'
<1> USE DEF IInv, Storage, fileVars, signalVars, countVars, Goto
<1>0. faults' = faults + 1 => disturbed'
  <2>1. faults \in 0 .. MaxFaults
    BY DEF TypeOK
  <2>2. faults + 1 # faults
    BY <2>1, MaxFaultsNat
  <2> QED BY <2>2
<1>1. CASE SaveCheck
  BY <1>1, SaveCheckCases DEF ReturnFromSave, TypeOK, Steps, Loading, Saving, Written,
              Whole, Room, Unloaded, Alive, OwedSafe, Settled
<1>2. CASE SaveCompare
  BY <1>2 DEF SaveCompare, TypeOK, Steps, Saving, Written, Whole, Room, Unloaded,
              Alive, OwedSafe, Settled
<1>3. CASE SaveOpen
  <2>1. FreshId \in FileIds /\ FreshId # 0
    BY FreshIdOk
  <2> HIDE DEF FreshId
  <2>2. [q |-> EmptyQueue, id |-> FreshId] \in Files
    BY <2>1, EmptyOk DEF Files
  <2>11. TypeOK'
    BY <1>3, <2>1, <2>2, MaxFaultsNat DEF SaveOpen, FailTo, TypeOK, Steps, Saving
  <2>12. (Written /\ Whole /\ Room /\ Unloaded)'
    BY <1>3, <2>1, <2>2, MaxFaultsNat DEF SaveOpen, FailTo, Written, Whole, Room, Unloaded, Alive
  <2>13. OwedSafe'
    BY <1>3, NothingOwed DEF SaveOpen
  <2>14. Settled'
    BY <1>3, <1>0, <2>1, <2>2, MaxFaultsNat DEF SaveOpen, FailTo, Settled
  <2> QED BY <2>11, <2>12, <2>13, <2>14
<1>4. CASE SaveWrite
  <2>1. \A p \in Queues : /\ [tmp EXCEPT !.q = p] \in Files
                          /\ [tmp EXCEPT !.q = p].id = tmp.id
                          /\ [tmp EXCEPT !.q = p].q = p
    BY DEF TypeOK, Files
  <2>11. TypeOK'
    BY <1>4, <2>1, MaxFaultsNat DEF SaveWrite, FailTo, TypeOK, Steps, Saving
  <2>12. (Written /\ Whole /\ Room /\ Unloaded)'
    BY <1>4, <2>1 DEF SaveWrite, FailTo, Written, Whole, Room, Unloaded, Alive, TypeOK
  <2>13. OwedSafe'
    BY <1>4, NothingOwed DEF SaveWrite
  <2>14. Settled'
    BY <1>4, <1>0, <2>1, MaxFaultsNat DEF SaveWrite, FailTo, Settled
  <2> QED BY <2>11, <2>12, <2>13, <2>14
<1>5. CASE CycleUnlink
  BY <1>5, AbsentOk DEF CycleUnlink, TypeOK, Steps, Saving, Written, Whole, Room,
              Unloaded, Alive, OwedSafe, Settled
<1>6. CASE CycleBackup
  <2>11. TypeOK'
    BY <1>6, AbsentOk, MaxFaultsNat DEF CycleBackup, FailTo, TypeOK, Steps, Saving
  <2>12. (Written /\ Whole /\ Room /\ Unloaded)'
    BY <1>6, AbsentOk, MaxFaultsNat DEF CycleBackup, FailTo, Written, Whole, Room, Unloaded, Alive
  <2>13. OwedSafe'
    BY <1>6, NothingOwed DEF CycleBackup
  <2>14. Settled'
    BY <1>6, <1>0, AbsentOk, MaxFaultsNat DEF CycleBackup, FailTo, Settled
  <2> QED BY <2>11, <2>12, <2>13, <2>14
<1>7. CASE CycleCommit
  <2>11. TypeOK'
    BY <1>7, AbsentOk, MaxFaultsNat DEF CycleCommit, FailTo, TypeOK, Steps, Saving
  <2>12. (Written /\ Whole /\ Room /\ Unloaded)'
    BY <1>7, AbsentOk, MaxFaultsNat DEF CycleCommit, FailTo, Written, Whole, Room, Unloaded, Alive
  <2>13. OwedSafe'
    BY <1>7, NothingOwed DEF CycleCommit
  <2>14. Settled'
    BY <1>7, <1>0, AbsentOk, MaxFaultsNat DEF CycleCommit, FailTo, Whole, Settled
  <2> QED BY <2>11, <2>12, <2>13, <2>14
<1>8. CASE SaveStat
  BY <1>8 DEF SaveStat, ReturnFromSave, TypeOK, Files, Steps, Loading, Saving, Written,
              Whole, Room, Unloaded, Alive, OwedSafe, Settled
<1>9. CASE Load
  <2>1. Loaded(Candidate.q) \in Queues
    BY LoadedOk, CandidateOk
  <2> QED
    BY <1>9, <2>1, DebtOk DEF Load, TypeOK, Steps, Loading, Saving, Written, Whole, Room,
              Unloaded, Alive, OwedSafe, Settled
<1>10. CASE LoadStat
  <2>11. TypeOK'
    BY <1>10 DEF LoadStat, TypeOK, Files, Steps, Loading, Saving
  <2>12. (Written /\ Whole /\ Room /\ Unloaded)'
    BY <1>10 DEF LoadStat, Written, Whole, Room, Unloaded, Alive
  <2>13. OwedSafe'
    BY <1>10, NothingOwed DEF LoadStat
  <2>14. Settled'
    BY <1>10 DEF LoadStat, Settled
  <2> QED BY <2>11, <2>12, <2>13, <2>14
<1>11. CASE LoadStatAndSave
  <2>11. TypeOK'
    BY <1>11 DEF LoadStatAndSave, CallSave, TypeOK, Files, Steps, Loading, Saving
  <2>12. (Written /\ Whole /\ Room /\ Unloaded)'
    BY <1>11 DEF LoadStatAndSave, CallSave, Written, Whole, Room, Unloaded, Alive
  <2>13. OwedSafe'
    BY <1>11, NothingOwed DEF LoadStatAndSave
  <2>14. Settled'
    BY <1>11 DEF LoadStatAndSave, CallSave, Settled
  <2> QED BY <2>11, <2>12, <2>13, <2>14
<1> QED
  BY <1>1, <1>2, <1>3, <1>4, <1>5, <1>6, <1>7, <1>8, <1>9, <1>10, <1>11 DEF StorageStep

(* The invariant holds at first and every step keeps it.                   *)
LEMMA Inductive == Spec => []IInv
<1>1. Init => IInv
  <2> SUFFICES ASSUME Init PROVE IInv
    OBVIOUS
  <2>1. TypeOK
    <3>1. faults \in 0 .. MaxFaults /\ stat \in FileIds /\ sigpipe \in Nat
      BY MaxFaultsNat DEF Init, FileIds
    <3>2. pc \in Steps /\ after \in {"run", "second", "wiped", "server", "gone"}
      BY DEF Init, Steps
    <3>3. mem \in Queues /\ db \in Files /\ bak \in Files /\ tmp \in Files
          /\ owed \in Debts
      BY EmptyOk, AbsentOk, DebtOk DEF Init
    <3> QED BY <3>1, <3>2, <3>3 DEF Init, TypeOK
  <2>2. Written /\ Whole /\ Room /\ Unloaded /\ OwedSafe /\ Settled
    BY DEF Init, Written, Whole, Room, Unloaded, OwedSafe, Settled
  <2> QED BY <2>1, <2>2 DEF IInv
<1>2. IInv /\ [Next]_vars => IInv'
  <2> SUFFICES ASSUME IInv, [Next]_vars
               PROVE  IInv'
    OBVIOUS
  <2>1. CASE Start \/ Exit
    BY <2>1, NewProcessIInv DEF Start, Exit, fileVars
  <2>2. CASE \/ InitQueue \/ InitServer \/ Change \/ SaveTimer \/ ClearUserData
             \/ SaveAgain \/ ReplyCleared \/ ExitTimeout \/ LeaveMainloop
    BY <2>2, ProcessIInv
  <2>3. CASE Storage
    BY <2>3, StorageIInv
  <2>4. CASE (\E sig \in Signals : Signal(sig)) \/ HandleSignal \/ Crash
    BY <2>4, SignalIInv DEF Signals
  <2>5. CASE \E q \in Tool : Restore(q)
    BY <2>5, RestoreIInv
  <2>6. CASE UNCHANGED vars
    BY <2>6 DEF vars, svars, fileVars, signalVars, countVars, IInv, TypeOK, Written,
                Whole, Room, Unloaded, Alive, OwedSafe, Settled
  <2> QED BY <2>1, <2>2, <2>3, <2>4, <2>5, <2>6 DEF Next
<1> QED BY <1>1, <1>2, PTL DEF Spec

-----------------------------------------------------------------------------
(* The properties.                                                         *)

(* The process and its files stay within their types.                      *)
THEOREM TypeCorrect == Spec => []TypeOK
<1>1. IInv => TypeOK
  BY DEF IInv
<1> QED BY <1>1, Inductive, PTL

(* The queue that the backup tool restored while the daemon was not at the *)
(* file is what the next process loads.                                    *)
THEOREM RestoredIsLoaded == Spec => []RestoreSurvives
<1>1. IInv => RestoreSurvives
  BY DEF IInv, OwedSafe, RestoreSurvives, Candidate
<1> QED BY <1>1, Inductive, PTL

(* A process that leaves by itself has saved its last queue, unless the    *)
(* file is not its own any more or the save was disturbed.                 *)
THEOREM LeavingSaves == Spec => ExitSaves
<1>1. IInv => (pc = "gone" /\ pc' = "down" => db.q = mem \/ restored \/ disturbed)
  BY DEF IInv, Settled
<1> QED BY <1>1, Inductive, PTL DEF ExitSaves

-----------------------------------------------------------------------------
(* The refinement: the process and its files implement the stored queue.   *)

(* Initially there is no file and no process.                              *)
LEMMA InitRefines == Init => Promise!DInit
BY DEF Init, Promise!DInit, Promise!EmptyQueue, EmptyQueue, Alive, Candidate, Absent,
       Place, SetAside

(* What is seen of a step that leaves the files alone.                     *)
LEMMA SameFiles ==
  ASSUME UNCHANGED <<db, bak, tmp>>
  PROVE  Candidate' = Candidate /\ Place' = Place
BY DEF Candidate, Place

(* The operators of the stored queue are the same on both levels.          *)
LEMMA SameQueues ==
  /\ Promise!EmptyQueue = EmptyQueue /\ Promise!Queues = Queues
  /\ \A q \in Queues : Promise!Loaded(q) = Loaded(q)
  /\ \A p, q \in Queues : /\ Promise!PartOf(p, q) <=> PartOf(p, q)
                          /\ Promise!ChangeTo(p, q) <=> ChangeTo(p, q)
BY DEF Promise!EmptyQueue, EmptyQueue, Promise!Queues, Queues, Promise!Stages, Stages,
       Promise!Loaded, Loaded, Promise!LoadedStage, LoadedStage, Promise!PartOf, PartOf,
       Promise!ChangeTo, ChangeTo

(* A process that ends, or starts from nothing, is a stop or no step.      *)
LEMMA EndRefines ==
  ASSUME IInv, NewProcess, UNCHANGED fileVars, pc' \in {"down", "init"}
  PROVE  Promise!DStop \/ UNCHANGED Promise!dvars
<1>1. UNCHANGED <<Candidate, Place>> /\ SetAside' = << >> /\ ~Alive' /\ mem' = EmptyQueue
  BY SameFiles DEF NewProcess, fileVars, SetAside, Alive
<1>2. CASE Alive
  BY <1>1, <1>2, SameQueues DEF Promise!DStop
<1>3. CASE ~Alive
  <2>1. mem = EmptyQueue /\ SetAside = << >>
    BY <1>3 DEF IInv, Unloaded, SetAside, Alive
  <2>2. Alive' = Alive
    BY <1>1, <1>3 DEF Alive
  <2> QED BY <1>1, <2>1, <2>2 DEF Promise!dvars
<1> QED BY <1>2, <1>3

(* The main loop changes the queue; it does not touch the files.           *)
LEMMA ProcessRefines ==
  ASSUME IInv, IInv',
         \/ InitQueue \/ InitServer \/ Change \/ SaveTimer \/ ClearUserData
         \/ SaveAgain \/ ReplyCleared \/ ExitTimeout \/ LeaveMainloop
  PROVE  Promise!DChange \/ UNCHANGED Promise!dvars
<1>1. UNCHANGED fileVars /\ Alive' = Alive /\ SetAside' = SetAside
  BY DEF InitQueue, InitServer, Change, SaveTimer, ClearUserData, SaveAgain, ReplyCleared,
         ExitTimeout, LeaveMainloop, Goto, CallSave, Alive, SetAside
<1>2. UNCHANGED <<Candidate, Place>>
  BY <1>1, SameFiles DEF fileVars
<1>3. mem \in Queues /\ mem' \in Queues
  BY DEF IInv, TypeOK
<1>4. CASE Change
  <2>1. Alive /\ ChangeTo(mem, mem')
    BY <1>4 DEF Change, Alive
  <2>2. Promise!ChangeTo(mem, mem') /\ mem' \in Promise!Queues
    BY <1>3, <2>1, SameQueues
  <2> QED BY <1>1, <1>2, <2>1, <2>2 DEF Promise!DChange
<1>5. CASE ClearUserData
  <2>1. Alive /\ ChangeTo(mem, mem')
    BY <1>5 DEF ClearUserData, Alive, ChangeTo
  <2>2. Promise!ChangeTo(mem, mem') /\ mem' \in Promise!Queues
    BY <1>3, <2>1, SameQueues
  <2> QED BY <1>1, <1>2, <2>1, <2>2 DEF Promise!DChange
<1>6. CASE mem' = mem
  BY <1>1, <1>2, <1>6 DEF Promise!dvars
<1> QED
  BY <1>4, <1>5, <1>6
  DEF InitQueue, InitServer, SaveTimer, SaveAgain, ReplyCleared, ExitTimeout,
      LeaveMainloop

(* A restored file is the stored queue at once.                            *)
LEMMA RestoreRefines ==
  ASSUME IInv, NEW q \in Tool, Restore(q)
  PROVE  Promise!DRestore
<1>1. FreshId # 0
  BY FreshIdOk DEF IInv
<1> HIDE DEF FreshId
<1>2. db'.id # 0 /\ db'.q = q
  BY <1>1 DEF Restore
<1>3. Candidate' = db' /\ Place' = "main"
  BY <1>2 DEF Candidate, Place
<1>4. UNCHANGED <<mem, Alive, SetAside>>
  BY DEF Restore, Alive, SetAside
<1> QED BY <1>2, <1>3, <1>4 DEF Promise!DRestore

(* Writing the new file is not seen, unless it is all there is.            *)
LEMMA WriteRefines ==
  ASSUME IInv, IInv', SaveOpen \/ SaveWrite
  PROVE  Promise!DScratch \/ UNCHANGED Promise!dvars
<1>1. /\ UNCHANGED <<mem, db, bak>> /\ Alive /\ Alive'
      /\ SetAside = << >> /\ SetAside' = << >>
  BY DEF SaveOpen, SaveWrite, Goto, FailTo, Alive, SetAside
<1>2. CASE Place # "scratch"
  <2>1. UNCHANGED <<Candidate, Place>>
    BY <1>1, <1>2 DEF Candidate, Place
  <2> QED BY <1>1, <2>1 DEF Promise!dvars
<1>3. CASE tmp' = tmp
  BY <1>1, <1>3, SameFiles DEF Promise!dvars
<1>4. CASE Place = "scratch" /\ tmp' # tmp
  <2>1. Candidate' = tmp' /\ Place' = "scratch"
    BY <1>1, <1>4 DEF Candidate, Place
  <2>2. PartOf(mem, mem) /\ PartOf(EmptyQueue, mem)
    BY DEF PartOf, EmptyQueue
  <2>3. PartOf(tmp'.q, mem)
    BY <1>4, <2>2 DEF SaveOpen, SaveWrite, FailTo, IInv, TypeOK, Files
  <2>4. tmp'.q \in Queues /\ mem \in Queues
    BY DEF IInv, TypeOK, Files
  <2>5. Promise!PartOf(tmp'.q, mem)
    BY <2>3, <2>4, SameQueues
  <2> QED BY <1>1, <1>4, <2>1, <2>5 DEF Promise!DScratch
<1> QED BY <1>2, <1>3, <1>4

(* Removing the old backup commits the complete new file when that backup  *)
(* was what the next process would have found.                             *)
LEMMA UnlinkRefines ==
  ASSUME IInv, CycleUnlink
  PROVE  Promise!DCommit \/ UNCHANGED Promise!dvars
<1>1. /\ UNCHANGED <<mem, db, tmp>> /\ Alive /\ Alive' /\ bak' = Absent
      /\ SetAside = << >> /\ SetAside' = << >> /\ tmp.q = mem
  BY DEF CycleUnlink, Goto, Alive, SetAside, IInv, Whole
<1>2. CASE db.id = 0 /\ bak.id # 0
  <2>1. Candidate' = tmp /\ Place' = "scratch" /\ Place = "backup"
    BY <1>1, <1>2, AbsentOk DEF Candidate, Place
  <2> QED BY <1>1, <2>1 DEF Promise!DCommit
<1>3. CASE db.id # 0 \/ bak.id = 0
  <2>1. UNCHANGED <<Candidate, Place>>
    BY <1>1, <1>3, AbsentOk DEF Candidate, Place
  <2> QED BY <1>1, <2>1 DEF Promise!dvars
<1> QED BY <1>2, <1>3

(* The old file is set aside as the backup.                                *)
LEMMA BackupRefines ==
  ASSUME IInv, CycleBackup
  PROVE  Promise!DSetAside \/ UNCHANGED Promise!dvars
<1>1. UNCHANGED <<mem, tmp>> /\ Alive /\ Alive' /\ SetAside = << >> /\ bak.id = 0
  BY DEF CycleBackup, Goto, FailTo, Alive, SetAside, IInv, Room
<1>2. CASE db.id # 0 /\ pc' = "commit"
  <2>1. bak' = db /\ db' = Absent
    BY <1>2 DEF CycleBackup, Goto, FailTo
  <2>2. /\ Candidate = db /\ Place = "main"
        /\ Candidate' = db /\ Place' = "backup" /\ SetAside' = <<db.q>>
    BY <1>2, <2>1, AbsentOk DEF Candidate, Place, SetAside
  <2> QED BY <1>1, <2>2 DEF Promise!DSetAside
<1>3. CASE db.id = 0 \/ pc' # "commit"
  <2>1. UNCHANGED <<db, bak>>
    BY <1>3 DEF CycleBackup, Goto, FailTo
  <2>2. SetAside' = << >>
    BY <1>1, <2>1 DEF SetAside
  <2> QED BY <1>1, <2>1, <2>2, SameFiles DEF Promise!dvars
<1> QED BY <1>2, <1>3

(* The new file takes its place, or the old one is put back.               *)
LEMMA CommitRefines ==
  ASSUME IInv, CycleCommit
  PROVE  Promise!DCommit \/ Promise!DPutBack \/ UNCHANGED Promise!dvars
<1>1. /\ UNCHANGED mem /\ Alive /\ Alive' /\ SetAside' = << >>
      /\ tmp.q = mem /\ tmp.id # 0 /\ pc = "commit"
  BY DEF CycleCommit, Goto, FailTo, Alive, SetAside, IInv, Whole, Written
<1>2. CASE db' = tmp /\ tmp' = Absent /\ bak' = bak
  <2>1. Candidate' = tmp /\ Place' = "main"
    BY <1>1, <1>2 DEF Candidate, Place
  <2> QED BY <1>1, <2>1 DEF Promise!DCommit
<1>3. CASE bak.id # 0 /\ db' = bak
  <2>1. Candidate' = bak /\ Place' = "main" /\ SetAside = <<bak.q>>
    BY <1>1, <1>3 DEF Candidate, Place, SetAside
  <2> QED BY <1>1, <2>1 DEF Promise!DPutBack
<1>4. CASE bak.id = 0 /\ UNCHANGED <<db, bak, tmp>>
  <2>1. SetAside = << >>
    BY <1>4 DEF SetAside
  <2> QED BY <1>1, <1>4, <2>1, SameFiles DEF Promise!dvars
<1> QED BY <1>2, <1>3, <1>4 DEF CycleCommit

(* Loading is the start of a process, for the stored queue.                *)
LEMMA LoadRefines ==
  ASSUME IInv, Load
  PROVE  Promise!DStart
<1>1. /\ UNCHANGED <<db, bak, tmp>> /\ ~Alive /\ Alive'
      /\ SetAside = << >> /\ SetAside' = << >> /\ mem' = Loaded(Candidate.q)
  BY DEF Load, Goto, fileVars, Alive, SetAside
<1>2. mem' = Promise!Loaded(Candidate.q)
  BY <1>1, CandidateOk, SameQueues DEF IInv
<1> QED BY <1>1, <1>2, SameFiles DEF Promise!DStart

(* The other steps of a save are not seen.                                 *)
LEMMA CheckRefines ==
  ASSUME IInv, IInv',
         SaveCheck \/ SaveCompare \/ SaveStat \/ LoadStat \/ LoadStatAndSave
  PROVE  UNCHANGED Promise!dvars
<1>1. UNCHANGED <<mem, db, bak, tmp>> /\ Alive /\ SetAside = << >>
  BY SaveCheckCases
  DEF SaveCompare, SaveStat, LoadStat, LoadStatAndSave, ReturnFromSave, Goto, CallSave,
      fileVars, Alive, SetAside, IInv, TypeOK, SaveCheck
<1>2. pc' \in {"run", "second", "wiped", "server", "gone", "compare", "stat", "open",
              "check"}
  BY SaveCheckCases
  DEF SaveCompare, SaveStat, LoadStat, LoadStatAndSave, ReturnFromSave, Goto, CallSave,
      IInv, TypeOK
<1>3. Alive' /\ SetAside' = << >>
  BY <1>2 DEF Alive, SetAside
<1> QED BY <1>1, <1>3, SameFiles DEF Promise!dvars

(* Every step is a step of the stored queue or not seen.                   *)
LEMMA StepRefines ==
  ASSUME IInv, IInv', [Next]_vars
  PROVE  [Promise!DNext]_(Promise!dvars)
<1>1. CASE Start \/ Exit \/ Killed
  BY <1>1, EndRefines DEF Start, Exit, Killed, Promise!DNext
<1>2. CASE \/ InitQueue \/ InitServer \/ Change \/ SaveTimer \/ ClearUserData
           \/ SaveAgain \/ ReplyCleared \/ ExitTimeout \/ LeaveMainloop
  BY <1>2, ProcessRefines DEF Promise!DNext
<1>3. CASE StorageStep
  <2>1. CASE SaveOpen \/ SaveWrite
    BY <2>1, WriteRefines DEF Promise!DNext
  <2>2. CASE CycleUnlink
    BY <2>2, UnlinkRefines DEF Promise!DNext
  <2>3. CASE CycleBackup
    BY <2>3, BackupRefines DEF Promise!DNext
  <2>4. CASE CycleCommit
    BY <2>4, CommitRefines DEF Promise!DNext
  <2>5. CASE Load
    BY <2>5, LoadRefines DEF Promise!DNext
  <2>6. CASE SaveCheck \/ SaveCompare \/ SaveStat \/ LoadStat \/ LoadStatAndSave
    BY <2>6, CheckRefines
  <2> QED BY <1>3, <2>1, <2>2, <2>3, <2>4, <2>5, <2>6 DEF StorageStep
<1>4. CASE UNCHANGED svars
  <2>1. UNCHANGED <<mem, db, bak, tmp, pc>>
    BY <1>4 DEF svars, fileVars
  <2>2. Alive' = Alive /\ SetAside' = SetAside
    BY <2>1 DEF Alive, SetAside
  <2> QED BY <2>1, <2>2, SameFiles DEF Promise!dvars
<1>5. CASE \E q \in Tool : Restore(q)
  BY <1>5, RestoreRefines DEF Promise!DNext
<1>6. \A sig \in Signals : Signal(sig) => Killed \/ UNCHANGED svars
  BY DEF Signal
<1> QED
  BY <1>1, <1>2, <1>3, <1>4, <1>5, <1>6 DEF Next, Storage, HandleSignal, Crash, vars

(* Every behaviour of the process and its files keeps the promise.         *)
THEOREM PromiseKept == Spec => KeepsPromise
<1>1. Init => Promise!DInit
  BY InitRefines
<1>2. IInv /\ IInv' /\ [Next]_vars => [Promise!DNext]_(Promise!dvars)
  BY StepRefines
<1> QED BY <1>1, <1>2, Inductive, PTL DEF Spec, KeepsPromise, Promise!DSpec

=============================================================================
