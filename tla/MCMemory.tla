------------------------------ MODULE MCMemory ------------------------------
(* Small instances of Memory for TLC. *)
EXTENDS Memory, TLC

NoGlobals == <<>>
OneGlobal == <<"defined">>
OneUndefined == <<"undefined">>
=============================================================================
