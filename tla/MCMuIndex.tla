----------------------------- MODULE MCMuIndex ------------------------------
(* Small instances of MuIndex for TLC. *)
EXTENDS MuIndex, TLC

CONSTANTS root, cur, new, sub, p1, p2, p3

\* All messages are in one directory.
AllInCur == [p \in Paths |-> cur]

\* A maildir with cur and new; a message arrives in new, is renamed to cur.
MaildirTree == (root :> {cur, new}) @@ (cur :> {}) @@ (new :> {})
NewThenCur == [p \in Paths |-> IF p = p1 THEN new ELSE cur]

\* A directory within cur.
NestedTree == (root :> {cur}) @@ (cur :> {sub}) @@ (sub :> {})

=============================================================================
