---------------------------- MODULE MCEtlRunner ----------------------------
(* Small instances of EtlRunner: a server that can start two tasks, and a  *)
(* command line beside it.                                                 *)
EXTENDS EtlRunner, TLC

CONSTANTS cli, t1, t2, service

OneService == service :> {t1, t2}
=============================================================================
