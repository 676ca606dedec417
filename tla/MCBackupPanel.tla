---------------------------- MODULE MCBackupPanel ----------------------------
(* BackupPanel for TLC.                                                    *)
EXTENDS BackupPanel
=============================================================================
