------------------------------ MODULE MCMuProc ------------------------------
(* A small instance of MuProc for TLC.                                     *)
EXTENDS MuProc, TLC

Cmd(name, args) == [name |-> name, args |-> args]

MCCommands == {Cmd("find", "query" :> "q")}

=============================================================================
