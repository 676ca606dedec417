------------------------------ MODULE MCBackup ------------------------------
(* Backup for TLC: a service whose container writes its directory, as      *)
(* vaultwarden, and one whose directory is written by a container that     *)
(* containerMap does not name, as matrix: docker-compose.yml mounts the    *)
(* data of matrix-db and snapshot.ts pauses matrix-server.                 *)
EXTENDS Backup

CONSTANTS vaultwarden, matrix, vault, server, database

MCServices   == {vaultwarden, matrix}
MCContainers == {vault, server, database}
MCContainer  == [s \in MCServices |-> IF s = vaultwarden THEN vault ELSE server]
MCWriters    == [s \in MCServices |-> IF s = vaultwarden THEN {vault} ELSE {database}]
=============================================================================
