----------------------------- MODULE MCSaveFile -----------------------------
(***************************************************************************)
(* SaveFile for TLC: a page, its backup, which may be opened and saved     *)
(* like any other file, and the backup of that.                            *)
(***************************************************************************)
EXTENDS SaveFile

MCBackup == [d \in Document |-> IF d = "x" THEN ",x" ELSE ",,x"]
=============================================================================
