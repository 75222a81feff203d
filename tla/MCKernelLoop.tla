---------------------------- MODULE MCKernelLoop ----------------------------
(***************************************************************************)
(* Instances of KernelLoop for TLC.  The actions stand for the kinds the   *)
(* loop tells apart: an answer, a lookup, a file write, a plain command    *)
(* and a delete-like command.                                              *)
(***************************************************************************)
EXTENDS KernelLoop

CONSTANTS respond, look, write, run, delete
=============================================================================
