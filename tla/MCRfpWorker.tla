---------------------------- MODULE MCRfpWorker ----------------------------
(* RfpWorker with named departments, for TLC. *)
EXTENDS RfpWorker

CONSTANTS marketing, operaciones, procurement
=============================================================================
