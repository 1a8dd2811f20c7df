----------------------------- MODULE MCCommonLog -----------------------------
(* Instances of CommonLog: a ring small enough to wrap, expand and fill up. *)
EXTENDS CommonLog

CONSTANTS stdout, logfile
=============================================================================
