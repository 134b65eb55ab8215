--------------------------- MODULE MCAlarmProcess ---------------------------
(***************************************************************************)
(* Instances of AlarmProcess for TLC.                                      *)
(***************************************************************************)
EXTENDS AlarmProcess

CONSTANT a1

AlarmSet   == {a1}
BackupTool == {[x \in {a1} |-> "NEW"]}
=============================================================================
