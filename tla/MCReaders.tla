------------------------------ MODULE MCReaders ------------------------------
(***************************************************************************)
(* Readers with one client and the signals of MCExecuteRun.                *)
(***************************************************************************)
EXTENDS Readers, MCExecuteRun

CONSTANT client
=============================================================================
