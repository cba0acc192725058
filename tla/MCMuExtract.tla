----------------------------- MODULE MCMuExtract -----------------------------
(* Small instances of MuExtract for TLC. *)
EXTENDS MuExtract

CONSTANTS c1, c2, c3, c4, c5, c6

Object == [kind |-> "part", type |-> "text/plain", disp |-> Null, name |-> Null,
           content |-> Null, children |-> <<>>, inside |-> Null, plain |-> Null,
           sigs |-> Null]

Text(c) == [Object EXCEPT !.content = c]
Attached(c, name) == [Text(c) EXCEPT !.disp = "attachment", !.name = name]
Image(c, name) == [Attached(c, name) EXCEPT !.type = "image", !.disp = "inline"]
Inner(m) == [Object EXCEPT !.kind = "message", !.type = "message/rfc822", !.inside = m]
Multipart(cs) == [Object EXCEPT !.kind = "multipart", !.type = "mixed", !.children = cs]
Sig == [Object EXCEPT !.type = "pgp-signature", !.content = c6]
Signed(cs, sigs) ==
  [Object EXCEPT !.kind = "signed", !.type = "signed", !.children = cs \o <<Sig>>, !.sigs = sigs]
Encrypted(plain) ==
  [Object EXCEPT !.kind = "encrypted", !.type = "encrypted",
     !.children = <<[Text(c4) EXCEPT !.type = "application"],
                    [Text(c5) EXCEPT !.type = "application"]>>, !.plain = plain]

Message(top) == [subject |-> "s", top |-> top]
Plain == Message(Text(c1))

\* Two attachments whose names are the same once they are cleaned up, a part
\* without content, an image; embedded messages; signatures of each kind.
Two == Message(Multipart(<<Text(c1), Attached(c2, "a b"), Attached(c3, "a-b")>>))
Pictures == Message(Multipart(<<[Text(c1) EXCEPT !.disp = "inline"], Image(c2, "p"),
                                Image(Null, Null)>>))
Nested == Message(Multipart(<<Text(c1), Inner(Two),
                              [Inner(Plain) EXCEPT !.inside = [Plain EXCEPT !.subject = Null]]>>))
Broken == Message(Multipart(<<Text(c1), Inner(Null)>>))
Twice(s1, s2) == Message(Multipart(<<Signed(<<Text(c1)>>, s1), Signed(<<Text(c2)>>, s2)>>))
Secret == Message(Multipart(<<Encrypted(Attached(c2, "p")), Image(c3, "p")>>))
Draft(c) == Message(Multipart(<<Text(c1), Image(c, "p")>>))

AllMails == {Plain, Two, Pictures, Nested, Broken, Secret, Draft(c4)}
            \cup {Twice(<<"good">>, s) : s \in {<<"good">>, <<"good", "error">>}}
            \cup {Twice(s, <<"good">>) : s \in {<<"bad">>, Null}}

RECURSIVE ObjectsOf(_)
ObjectsOf(o) ==
  {o} \cup UNION {ObjectsOf(c) : c \in ToSet(o.children)}
  \cup (IF o.inside = Null THEN {} ELSE ObjectsOf(o.inside.top))
  \cup (IF o.plain = Null THEN {} ELSE ObjectsOf(o.plain))
AllObjects == UNION {ObjectsOf(m.top) : m \in AllMails}

CleanNames == ("a b" :> "a-b") @@ ("a-b" :> "a-b") @@ ("p" :> "p") @@ ("s" :> "s")

Extract == [cmd |-> "extract", opts |-> {}, overwrite |-> FALSE, play |-> FALSE,
            targetdir |-> TRUE, attachments |-> FALSE, all |-> FALSE,
            parts |-> Null, pattern |-> Null, index |-> 0]
Server(cmd, i) == [Extract EXCEPT !.cmd = cmd, !.index = i]

AllRequests ==
  {[Extract EXCEPT !.attachments = a, !.all = all, !.pattern = p] :
     a, all \in BOOLEAN, p \in {Null, {<<"a-b">>}}}
  \cup {[Extract EXCEPT !.all = TRUE, !.overwrite = TRUE],
        [Extract EXCEPT !.targetdir = FALSE, !.all = TRUE],
        [Extract EXCEPT !.play = TRUE, !.parts = <<2>>],
        [Extract EXCEPT !.parts = <<1, 2>>],
        [Extract EXCEPT !.parts = <<1>>, !.opts = {"decrypt", "verify"}],
        [Extract EXCEPT !.parts = <<2>>, !.opts = {"decrypt"}],
        [Extract EXCEPT !.cmd = "verify"]}
  \cup {Server("save", 1), Server("save", 2), Server("open", 1), Server("temp", 2)}
  \cup {Server("forward", 0), Server("view", 0)}

Others == {<<"target", <<"a-b">>>>}

=============================================================================
