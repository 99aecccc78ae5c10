----------------------------- MODULE MCProcLife -----------------------------
EXTENDS ProcLife

(* Every pid that can be in use but init's: a killed init panics.          *)
UserPids == 2..MaxPid
=============================================================================
