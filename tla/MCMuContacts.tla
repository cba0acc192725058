---------------------------- MODULE MCMuContacts ----------------------------
(* Small instances of MuContacts for TLC.                                  *)
EXTENDS MuContacts

CONSTANT p1

Contact(type, address, name) ==
  [type |-> type, address |-> address, name |-> name]

\* Two addresses share a group; one message is to me; the newest contact for
\* me has no name, and its date does not fit in an int.
MCMails ==
  [b \in {"mine", "list", "late"} |->
     CASE b = "mine" -> [date |-> 1, contacts |->
            <<Contact("from", "x-y@h", "Old"), Contact("to", "me@h", "Me"),
              Contact("cc", "root", NoName)>>]
       [] b = "list" -> [date |-> 2, contacts |-> <<Contact("from", "x-y@h", "Now")>>]
       [] b = "late" -> [date |-> 4, contacts |->
            <<Contact("from", "x_y@h", "New"), Contact("to", "me@h", NoName)>>]]

MCGroup == [a \in {"x-y@h", "x_y@h", "me@h", "root"} |->
              IF a = "me@h" THEN "meoh" ELSE IF a = "root" THEN a ELSE "xuyoh"]

MCPatterns == {{"x-y@h", "Old"}, {"New", "Me"}}

=============================================================================
