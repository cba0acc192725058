----------------------------- MODULE MCMuServer -----------------------------
(* Small instances of MuServer for TLC. *)
EXTENDS MuServer, TLC

CONSTANTS m1, m2

Symmetry == Permutations(Names)

AllPaths == [name : Names, mdir : Mdirs, flags : Flags]

\* Two copies of one message (sent to oneself, or to a list).
OneMsgId == [n \in Names |-> CHOOSE b \in Bodies : TRUE]

=============================================================================
