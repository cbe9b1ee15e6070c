---------------------------- MODULE MCTaskWorker ----------------------------
(* TaskWorker for TLC; the cfg files give the constants their values.      *)
EXTENDS TaskWorker
=============================================================================
