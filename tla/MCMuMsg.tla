------------------------------- MODULE MCMuMsg -------------------------------
(* A small instance of MuMsg for TLC. *)
EXTENDS MuMsg, TLC

CONSTANTS t1, t2, t3, t4, i1, i2, i3

Object == [kind |-> "part", type |-> "text/plain", disp |-> Null, name |-> Null,
           content |-> Null, children |-> <<>>, inside |-> Null, plain |-> Null,
           sigs |-> Null]

Text(c) == [Object EXCEPT !.content = c]
Attached(c, type) == [Text(c) EXCEPT !.disp = "attachment", !.type = type, !.name = "p"]
Multipart(cs) == [Object EXCEPT !.kind = "multipart", !.type = "mixed", !.children = cs]
Inner(m) == [Object EXCEPT !.kind = "message", !.type = "message/rfc822", !.inside = m]

Me == [name |-> "me", address |-> "me@a"]
Anon == [name |-> Null, address |-> "x@a"]
Odd == [name |-> "odd", address |-> "y@a"]
Undisclosed == [name |-> "undisclosed", address |-> Null]

Mail(top) ==
  [subject |-> "s", top |-> top, from |-> <<Anon>>, to |-> <<Me>>, cc |-> <<>>,
   bcc |-> <<>>, replyto |-> <<>>, date |-> 1, msgid |-> i1, size |-> 10,
   refs |-> <<>>, inreplyto |-> <<>>, tags |-> <<<<>>, <<>>, <<>>>>,
   prios |-> <<Null, Null, Null>>]

\* One with all kinds of headers, and an attachment; one with messages in a
\* message in a message, and a reference with a comma; one that is
\* encrypted.
Rich == [Mail(Multipart(<<Text(t1), Attached(t2, "text/plain")>>)) EXCEPT
           !.subject = "odd", !.from = <<Odd>>, !.to = <<Undisclosed, Odd, Me>>,
           !.bcc = <<Anon>>, !.replyto = <<Me>>, !.date = 0,
           !.refs = <<i1, i2, i1>>, !.inreplyto = <<i2>>,
           !.tags = <<<<"a">>, <<>>, <<"b", "a">>>>, !.prios = <<Null, "1", "low">>]
Deep == [Mail(Multipart(<<[Text(t1) EXCEPT !.type = "text/html"],
                         Inner(Mail(Multipart(<<Text(t2), Inner(Mail(Multipart(
                           <<Text(t3), Attached(t4, "text/plain")>>)))>>)))>>)) EXCEPT !.refs = <<i3>>]
Secret == Mail([Object EXCEPT !.kind = "encrypted", !.type = "encrypted",
                  !.children = <<Text(t1)>>, !.plain = Text(t2)])

AllMails == {Rich, Deep, Secret}
RECURSIVE ObjectsOf(_)
ObjectsOf(o) ==
  {o} \cup UNION {ObjectsOf(c) : c \in ToSet(o.children)}
  \cup (IF o.inside = Null THEN {} ELSE ObjectsOf(o.inside.top))
  \cup (IF o.plain = Null THEN {} ELSE ObjectsOf(o.plain))
AllObjects == UNION {ObjectsOf(m.top) : m \in AllMails}

CleanNames == [n \in {"p", "s", "odd"} |-> n]
AsciiNames == [n \in {"me", "odd", "???", "undisclosed"} |-> IF n = "odd" THEN "???" ELSE n]
Splits == (i1 :> <<i1>>) @@ (i2 :> <<i2>>) @@ (i3 :> <<i1, i2>>)

\* "work" is a link to "gmail/work", of which it is the end by chance, and
\* "archive" one to "inbox"; "/new/" is in the path of "new".
inbox == <<"inbox">>
archive == <<"archive">>
new == <<"new">>
work == <<"work">>
gmailWork == <<"gmail", "work">>
gmailInbox == <<"gmail", "inbox">>
Links == [d \in {inbox, archive, new, work, gmailWork, gmailInbox} |->
            IF d = archive THEN inbox ELSE IF d = work THEN gmailWork ELSE d]

NewMaildirs == {new}

Path(mdir, dir, info) == [mdir |-> mdir, dir |-> dir, base |-> "m", info |-> info]
ThePaths == {Path(inbox, "new", NoInfo), Path(archive, "cur", {"S", "k"}),
             Path(inbox, "cur", {"S", "k"}), Path(work, "cur", {"F", "T"}),
             Path(new, "cur", {"R", "2"})}

Delta(sign, f) == [sign |-> sign, flag |-> f]
Requests == {[kind |-> "none"], [kind |-> "set", flags |-> {"F", "T"}],
             [kind |-> "delta", deltas |-> <<Delta("+", "S"), Delta("-", "N")>>],
             [kind |-> "delta", deltas |-> <<Delta("+", "?")>>]}

=============================================================================
