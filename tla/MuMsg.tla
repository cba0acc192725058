------------------------------- MODULE MuMsg --------------------------------
(***************************************************************************)
(* A MuMsg (lib/mu-msg.c): a message that is known from a document of the  *)
(* database, from its file, or from both.  What the document has not got   *)
(* is read from the file, which is then kept as it was; other programs     *)
(* replace, rename and remove message files meanwhile, also between the    *)
(* steps of a move.                                                        *)
(*                                                                         *)
(* The state of the database is the one document of the message; MuStore   *)
(* models the store, and MuServer the commands that move messages.  A      *)
(* maildir is the sequence of the directories on the way to it from the    *)
(* root of all maildirs, which is <<>>.                                    *)
(***************************************************************************)
EXTENDS MuDoc

CONSTANTS
  Mails,      \* the messages that may be in a file
  Paths,      \* the paths of files; a maildir may be a link to another
  RealMdir,   \* maildir that there is -> the maildir it is in truth
  Asked,      \* the flags that may be asked for in a move
  MaxChanges  \* bound: changes to files and moves

VARIABLES
  files,   \* path -> [mail, stamp]
  changes, \* how much of MaxChanges is used
  doc,     \* the document, or Null
  msg,     \* [doc, file], or Null
  move,    \* what a move of msg has got to (see TypeOK), or Null
  told     \* the last answer, or Null

vars == <<files, changes, doc, msg, move, told>>

\* The paths that files may get: a move keeps the base, and what mu does not
\* know of the information.
Bases == {p.base : p \in Paths}
Chars == FileFlags \cup UNION ({p.info : p \in Paths} \ {NoInfo})
AllPaths == Names(DOMAIN RealMdir, Bases, SUBSET Chars)

Maildirs == Seq(UNION {ToSet(d) : d \in DOMAIN RealMdir})

ContactFields == {"from", "replyto", "to", "cc", "bcc"}
AllContacts == UNION {ToSet(m[f]) : m \in Mails, f \in ContactFields}

FilesRead == [path : AllPaths, mdir : DOMAIN RealMdir \cup {SameMaildir},
              mail : Mails, stamp : 0..MaxChanges]

ASSUME ChangesAssumption == MaxChanges \in Nat
ASSUME PathsAssumption ==
  /\ Paths \subseteq AllPaths
  /\ DOMAIN RealMdir \subseteq Maildirs /\ SameMaildir \notin Maildirs
  /\ \A d \in DOMAIN RealMdir : /\ RealMdir[d] \in DOMAIN RealMdir
                               /\ RealMdir[RealMdir[d]] = RealMdir[d]
ASSUME MailsAssumption ==
  \A m \in Mails :
    /\ NotTooDeep(m) /\ m.date \in Nat /\ m.size \in Nat
    /\ \A f \in ContactFields : m[f] \in Seq(AllContacts)
    /\ m.refs \in Seq(DOMAIN AtCommas) /\ m.inreplyto \in Seq(DOMAIN AtCommas)
ASSUME ContactsAssumption ==
  \A c \in AllContacts : /\ c = [name |-> c.name, address |-> c.address]
                         /\ c.name # Null => c.name \in DOMAIN Asciified

\* What is ASCII stays as it is.
ASSUME AsciiAssumption ==
  \A s \in DOMAIN Asciified : /\ Asciified[s] # Null
                              /\ Asciified[Asciified[s]] = Asciified[s]

\* One string has no comma in it.
ASSUME CommasAssumption ==
  \A id \in DOMAIN AtCommas : Len(AtCommas[id]) = 1 => AtCommas[id] = <<id>>
ASSUME NoValueAssumption ==
  /\ Null \notin Nat
  /\ Null \notin {"ok", "error", "crash", "high", "low", "normal"}
  /\ Null \notin Maildirs
  /\ \A flags \in SUBSET AllFlags : flags # Null
  /\ \A info \in SUBSET Chars : info # NoInfo
  /\ \A m \in Mails, f \in ContactFields : CleanContacts(m[f]) # Null
  /\ Null \notin Seq(UNION {ToSet(AtCommas[id]) : id \in DOMAIN AtCommas})
  /\ Null \notin AllPaths /\ Null \notin FilesRead

TypeOK ==
  /\ \A p \in DOMAIN files : RealMdir[p.mdir] = p.mdir /\ files[p].mail \in Mails
  /\ changes \in 0..MaxChanges
  /\ doc # Null => doc.values.path # Null /\ doc.of \in Mails
  /\ msg # Null => msg.doc # Null \/ msg.file # Null
  /\ move # Null => /\ msg # Null /\ msg.doc # Null
                   /\ move.step \in {"check", "rename", "verify", "open"}
                   /\ move.from \in AllPaths /\ move.mdir \in DOMAIN RealMdir

Real(p) == [p EXCEPT !.mdir = RealMdir[@]]

Init ==
  /\ \E p \in {q \in Paths : Real(q) = q}, mail \in Mails :
       files = [q \in {p} |-> [mail |-> mail, stamp |-> MaxChanges]]
  /\ changes = 0
  /\ doc = Null /\ msg = Null /\ move = Null /\ told = Null

-----------------------------------------------------------------------------
(* Other programs.                                                         *)

Other(new) ==
  /\ changes < MaxChanges /\ changes' = changes + 1
  /\ files' = new
  /\ UNCHANGED <<doc, msg, move, told>>

\* A new file, or other content in a file that is there, as with a draft.
Write(p, mail) ==
  /\ p = Real(p)
  /\ p \in DOMAIN files => files[p].mail # mail
  /\ Other([q \in DOMAIN files \cup {p} |->
             IF q = p THEN [mail |-> mail, stamp |-> changes] ELSE files[q]])

Delete(p) ==
  /\ p \in DOMAIN files
  /\ Other([q \in DOMAIN files \ {p} |-> files[q]])

-----------------------------------------------------------------------------
(* A message and its backends.                                             *)

\* mu_msg_file_new: the path that is kept is the real one.
Exists(p) == p.mdir \in DOMAIN RealMdir /\ Real(p) \in DOMAIN files
FileNew(p, mdir) ==
  [path |-> Real(p), mdir |-> mdir, mail |-> files[Real(p)].mail,
   stamp |-> files[Real(p)].stamp]

\* The file of the message, if it is still as it was when it was indexed and
\* when it was read (history).
TrueFile(m) ==
  LET p == IF m.doc # Null THEN m.doc.values.path ELSE m.file.path IN
  IF /\ p \in DOMAIN files
     /\ m.doc # Null => m.doc.of = files[p].mail
     /\ m.file # Null => m.file.mail = files[p].mail
  THEN FileNew(p, SameMaildir) ELSE Null

Answer(op, value) == told' = [op |-> op, value |-> value, file |-> TrueFile(msg)]

\* mu_store_add_path, for the indexer and the commands add and sent; mu add
\* gives no maildir.
Index(p, mdir) ==
  /\ msg = Null /\ Exists(p)
  /\ mdir \in {p.mdir, SameMaildir}
  /\ doc' \in NewDocs(FileNew(p, mdir))
  /\ UNCHANGED <<files, changes, msg, move, told>>

NewFromDoc ==
  /\ msg = Null /\ doc # Null
  /\ msg' = [doc |-> doc, file |-> Null]
  /\ UNCHANGED <<files, changes, doc, move, told>>

NewFromFile(p) ==
  /\ msg = Null /\ Exists(p)
  /\ msg' = [doc |-> Null, file |-> FileNew(p, SameMaildir)]
  /\ UNCHANGED <<files, changes, doc, move, told>>

Unref ==
  /\ msg # Null
  /\ msg' = Null
  /\ UNCHANGED <<files, changes, doc, move, told>>

\* mu_msg_load_msg_file
Loaded(m) ==
  IF m.file # Null THEN m
  ELSE IF m.doc.values.path # Null /\ Exists(m.doc.values.path)
    THEN [m EXCEPT !.file = FileNew(m.doc.values.path, SameMaildir)]
  ELSE m

\* Only the guile binding unloads, to limit the number of open files.
Unload ==
  /\ msg # Null /\ msg.doc # Null
  /\ msg' = [msg EXCEPT !.file = Null]
  /\ UNCHANGED <<files, changes, doc, move, told>>

-----------------------------------------------------------------------------
(* The fields of a message.  Each function gives the possible values, with *)
(* the message as it is afterwards.                                        *)

\* What is in the file, or the value for no file.
FromFile(m, f, none) ==
  LET l == Loaded(m) IN
  [msg |-> l, values |-> IF l.file = Null THEN {none} ELSE FileField(f, l.file)]

InDoc(m, f) == m.doc # Null /\ f \in ValueFields

GetStr(m, f) ==
  IF InDoc(m, f) THEN [msg |-> m, values |-> {m.doc.values[f]}]
  ELSE IF f \in GmimeFields THEN FromFile(m, f, Null)
  ELSE [msg |-> m, values |-> {Null}]

\* There is no value for the number 0.
GetNum(m, f) ==
  IF InDoc(m, f)
    THEN [msg |-> m, values |-> {IF m.doc.values[f] = Null THEN 0 ELSE m.doc.values[f]}]
  ELSE FromFile(m, f, Null)

\* Mutant: a list is looked for in the document only.
GetListOfDoc(m, f) ==
  IF m.doc = Null THEN FromFile(m, f, Null)
  ELSE [msg |-> m, values |-> {IF InDoc(m, f) THEN m.doc.values[f] ELSE Null}]

\* A list that is not in the document is looked for in the file.
GetList(m, f) ==
  IF InDoc(m, f) /\ m.doc.values[f] # Null
    THEN [msg |-> m, values |-> {m.doc.values[f]}]
  ELSE FromFile(m, f, Null)

Get(m, f) ==
  IF f \in ListFields THEN GetList(m, f)
  ELSE IF f \in NumericFields THEN GetNum(m, f)
  ELSE GetStr(m, f)

\* Mutant: hidden recipients stay hidden.
DocContactsShown(d) ==
  WithAddress(FlattenSeq([i \in 1..3 |->
    LET f == <<"from", "to", "cc">>[i] IN
    IF d.values[f] = Null THEN <<>> ELSE Contacts(d.values, f)]))

\* The addresses in the document are parsed again, and have no reply-to.
DocContacts(d) ==
  WithAddress(FlattenSeq([i \in 1..4 |->
    LET f == <<"from", "to", "cc", "bcc">>[i] IN
    IF d.values[f] = Null THEN <<>> ELSE Contacts(d.values, f)]))

ContactForeach(m) ==
  IF m.file # Null THEN FileContacts(m.file.mail) ELSE DocContacts(m.doc)

\* The fields that are asked for; the others are only for terms.
Retrieved == ValueFields \cup ListFields

GetField(f) ==
  /\ msg # Null
  /\ \E v \in Get(msg, f).values : Answer(f, v)
  /\ msg' = Get(msg, f).msg
  /\ UNCHANGED <<files, changes, doc, move>>

\* mu_msg_get_timestamp: of the file as it was read, or as it is.
GetTimestamp ==
  /\ msg # Null
  /\ LET p == CHOOSE v \in GetStr(msg, "path").values : TRUE IN
     Answer("timestamp", IF msg.file # Null THEN msg.file.stamp
                         ELSE IF p \in DOMAIN files THEN files[p].stamp ELSE 0)
  /\ UNCHANGED <<files, changes, doc, msg, move>>

-----------------------------------------------------------------------------
(* A message for the client: mu_msg_to_sexp.                               *)

HeaderFields == <<"subject", "date", "size", "msgid", "path", "maildir", "prio", "flag">>

\* The message after all these fields were read: one of them may load the file.
AfterAll(m, fs) ==
  IF \A i \in DOMAIN fs : Get(m, fs[i]).msg = m THEN m ELSE Loaded(m)

Headers(m) == [i \in DOMAIN HeaderFields |-> Get(m, HeaderFields[i]).values]

\* Only what is in the database.
SexpHeaders ==
  /\ msg # Null
  /\ Answer("headers", [fields |-> Headers(msg), contacts |-> ContactForeach(msg)])
  /\ msg' = AfterAll(msg, HeaderFields)
  /\ UNCHANGED <<files, changes, doc, move>>

\* The parts, contacts, references and bodies, from the file.
MessageFileParts(m, opts) ==
  [parts |-> SexpParts(m.file.mail, opts), contacts |-> ContactForeach(m),
   references |-> Get(m, "refs").values, inreplyto |-> m.file.mail.inreplyto,
   txt |-> GetBody(m.file.mail, opts, "text/plain"),
   html |-> GetBody(m.file.mail, opts, "text/html")]

Sexp(opts) ==
  /\ msg # Null
  /\ LET m == Loaded(AfterAll(msg, HeaderFields)) IN
     /\ msg' = m
     /\ Answer("view", [fields |-> Headers(msg),
                        view |-> IF m.file = Null THEN Null ELSE MessageFileParts(m, opts)])
  /\ UNCHANGED <<files, changes, doc, move>>

-----------------------------------------------------------------------------
(* Moving a message.  The caller has it from the database.  Other programs *)
(* may act between any two steps.                                          *)

Suffix(maildir, mdir) ==
  /\ Len(maildir) <= Len(mdir)
  /\ maildir = SubSeq(mdir, Len(mdir) - Len(maildir) + 1, Len(mdir))

\* Mutant: only the last directory is taken off.
GetTargetMdirBeside(p, maildir, mdir) == SubSeq(p.mdir, 1, Len(p.mdir) - 1) \o mdir

\* get_target_mdir: the other maildir in the place of the one that the
\* document says, which is taken off the end of the path.
GetTargetMdir(p, maildir, mdir) ==
  SubSeq(p.mdir, 1, Len(p.mdir) - Len(maildir)) \o mdir

MoveFails ==
  /\ msg' = Null /\ move' = Null
  /\ Answer("move", "error")
  /\ UNCHANGED <<files, doc>>

\* The move goes on with its next step.
MoveGoesOn(next) ==
  /\ move' = next
  /\ UNCHANGED <<files, doc, msg, told>>

\* do_move, up to the first look at a file: one that keeps its name is not
\* looked at.
MoveToMaildir(mdir, asked) ==
  /\ msg # Null /\ msg.doc # Null /\ msg.file = Null
  /\ changes < MaxChanges /\ changes' = changes + 1
  /\ LET from    == msg.doc.values.path
         maildir == msg.doc.values.maildir
     IN \E flags \in AskedFlags(asked, from, msg.doc.values.flag) :
          IF flags = Invalid \/ maildir = Null \/ ~Suffix(maildir, from.mdir)
            THEN MoveFails
          ELSE \E to \in {GetNewPath(from, GetTargetMdir(from, maildir, mdir), flags)} :
                 MoveGoesOn([step |-> IF from = to THEN "open" ELSE "check", from |-> from,
                             to |-> to, mdir |-> mdir, asked |-> asked, seen |-> {}])

\* Mutant: it is not looked whether there is a file of that name.
MsgMoveCheckPreBlind ==
  /\ move # Null /\ move.step = "check"
  /\ IF move.from \in DOMAIN files
       THEN MoveGoesOn([move EXCEPT !.step = "rename", !.seen = DOMAIN files])
     ELSE MoveFails
  /\ UNCHANGED changes

\* What is seen is kept in the history.
MsgMoveCheckPre ==
  /\ move # Null /\ move.step = "check"
  /\ IF move.from \in DOMAIN files /\ ~Exists(move.to)
       THEN MoveGoesOn([move EXCEPT !.step = "rename", !.seen = DOMAIN files])
     ELSE MoveFails
  /\ UNCHANGED changes

\* Mutant: the new name is taken for where the file is.
RenamedToLink(from, to) ==
  [q \in (DOMAIN files \ {from}) \cup {to} |->
     IF q = to THEN files[from] ELSE files[q]]

\* rename(2) puts the file in the place of one that came after the check.
Renamed(from, to) ==
  [q \in (DOMAIN files \ {from}) \cup {Real(to)} |->
     IF q = Real(to) THEN files[from] ELSE files[q]]

\* The directory may be missing: a maildir that is the end of a longer path
\* by chance leads to another one.
MsgMove ==
  /\ move # Null /\ move.step = "rename"
  /\ IF move.from \in DOMAIN files /\ move.to.mdir \in DOMAIN RealMdir
       THEN /\ files' = Renamed(move.from, move.to)
            /\ move' = [move EXCEPT !.step = "verify"]
            /\ UNCHANGED <<doc, msg, told>>
     ELSE MoveFails
  /\ UNCHANGED changes

MsgMoveCheckPost ==
  /\ move # Null /\ move.step = "verify"
  /\ IF Exists(move.to) /\ move.from \notin DOMAIN files
       THEN MoveGoesOn([move EXCEPT !.step = "open"])
     ELSE MoveFails
  /\ UNCHANGED changes

\* Mutant: the message keeps its maildir.
NewBackendInPlace == FileNew(move.to, msg.doc.values.maildir)

NewBackend == FileNew(move.to, move.mdir)

\* The message gets its new backend, and the database its new document,
\* unless the store throws.
MoveOpens ==
  /\ move # Null /\ move.step = "open"
  /\ IF Exists(move.to)
       THEN /\ msg' = [doc |-> Null, file |-> NewBackend]
            /\ move' = Null
            /\ \/ doc' \in NewDocs(NewBackend) /\ Answer("move", "ok")
               \/ doc' = doc /\ Answer("move", "error")
            /\ UNCHANGED files
     ELSE MoveFails
  /\ UNCHANGED changes

\* The caller has seen the answer.
Seen ==
  /\ told # Null /\ told' = Null
  /\ UNCHANGED <<files, changes, doc, msg, move>>

Others ==
  \/ \E p \in Paths, mail \in Mails : Write(p, mail)
  \/ \E p \in Paths : Delete(p)

Asks ==
  \/ \E p \in Paths : NewFromFile(p)
  \/ \E p \in Paths, mdir \in DOMAIN RealMdir \cup {SameMaildir} : Index(p, mdir)
  \/ NewFromDoc \/ Unref \/ Unload
  \/ \E f \in Retrieved : GetField(f)
  \/ GetTimestamp \/ SexpHeaders \/ Sexp({"decrypt", "verify"})
  \/ \E mdir \in DOMAIN RealMdir, asked \in Asked : MoveToMaildir(mdir, asked)

Moves == MsgMoveCheckPre \/ MsgMove \/ MsgMoveCheckPost \/ MoveOpens

Next ==
  \/ Seen
  \/ told = Null /\ Others
  \/ told = Null /\ move = Null /\ Asks
  \/ Moves

Spec == Init /\ [][Next]_vars

-----------------------------------------------------------------------------
(* Properties.                                                             *)

HasComma(mail) == \E i \in DOMAIN GetReferences(mail) : Len(AtCommas[GetReferences(mail)[i]]) # 1

\* What the database says of a field is what the file says, as long as the
\* file is as it was when it was indexed: whether the value is in the document,
\* as a value or not, or is looked for in the file.  A message-id with a comma
\* is known not to survive.
FieldsAreTrue ==
  told # Null /\ told.file # Null /\ told.op \in Fields \ {"maildir"} =>
    \/ told.value \in FileField(told.op, told.file)
    \/ told.op = "refs" /\ HasComma(told.file.mail)

\* The contacts of the headers are those of the message, although they were
\* made a string and parsed again; only reply-to is missing, and what is not
\* UTF-8 may have been replaced.
Ascii(cs) ==
  {[c EXCEPT !.name = IF @ = Null THEN Null ELSE Asciified[@]] :
     c \in {d \in ToSet(cs) : d.type # "replyto"}}

HeadersHaveAllContacts ==
  told # Null /\ told.file # Null /\ told.op = "headers" =>
    Ascii(told.value.contacts) = Ascii(FileContacts(told.file.mail))

\* What a message says of itself, field by field or as headers, is true.
AnswersAreTrue == FieldsAreTrue /\ HeadersHaveAllContacts

\* "only deal with attachments/messages; inlines are indexed as body parts"
\* (mu-store-write.cc): one of the two finds every plain text, however deep.
TextIsSearchable ==
  doc # Null /\ "encrypted" \notin GetContentFlags(doc.of) =>
    \A c \in Texts(doc.of) : <<"body", c>> \in doc.terms \/ <<"embed", c>> \in doc.terms

\* The flags that are asked for: of the message, as they are listed, or the
\* signs applied to those in the name that it has.
Wanted(asked, p, old) ==
  IF asked.kind = "none" THEN old
  ELSE IF asked.kind = "set" THEN asked.flags
  ELSE FromStrDelta(asked.deltas, IF p.dir = "new" THEN DirFlags ELSE FlagsFromInfo(p))

\* What mu does not know of a name.
Unknown(p) == IF p.info = NoInfo THEN {} ELSE p.info \ FileFlags

\* The file has one name before and one after the rename, and no other file
\* goes, comes or changes; only one that another program made after the check
\* may be lost.
RenameKeeps ==
  LET from == move.from
      to   == Real(move.to)
  IN /\ files'[to] = files[from] /\ from \notin DOMAIN files'
     /\ to \in DOMAIN files => to \notin move.seen
     /\ DOMAIN files' = (DOMAIN files \ {from}) \cup {to}
     /\ \A q \in DOMAIN files \ {from, to} : files'[q] = files[q]

\* The new document says where the file is and, when the old one named the
\* maildir of its file, the maildir it is in, or a link to it.  The name and
\* the document say the flags that were asked for, and the name those that mu
\* does not know, unless the message is to be new; a "2" among those, or
\* "/new/" in the path, confuses mu (FlagsFromPath).
AnswerSays ==
  LET from   == move.from
      to     == doc'.values.path
      wanted == Wanted(move.asked, from, msg.doc.values.flag)
  IN /\ to \in DOMAIN files'
     /\ from.mdir = msg.doc.values.maildir => RealMdir[doc'.values.maildir] = to.mdir
     /\ {from.mdir, to.mdir} \cap NewlyNamed = {} /\ "2" \notin Unknown(from) =>
          /\ to.dir = "new" <=> "N" \in wanted
          /\ to.dir = "cur" =>
               /\ to.info \cap FileFlags = wanted \cap FileFlags
               /\ doc'.values.flag \cap FileFlags = wanted \cap FileFlags
               /\ Unknown(from) \subseteq to.info

\* Whatever other programs do between the steps of a move: its rename keeps
\* all files, and when it is answered without an error the file and the
\* document are as was asked.
MoveKeepsAll ==
  [][/\ move # Null /\ move' # move /\ files' # files => RenameKeeps
     /\ move # Null /\ told = Null /\ told' # Null /\ told'.value = "ok" => AnswerSays]_vars

\* "we do a sanity check: verify that that maildir is a suffix of rootmaildir"
\* (mu-msg.c): the maildir of a document is the end of a name of the directory
\* that its file is in, however often the message is moved.
DocKnowsItsMaildir ==
  doc # Null /\ doc.values.maildir # Null =>
    \E d \in DOMAIN RealMdir : RealMdir[d] = doc.values.path.mdir
                             /\ Suffix(doc.values.maildir, d)

\* A message that is in use has a document or a file, and its document knows
\* where it is.
WellFormed == TypeOK /\ DocKnowsItsMaildir

=============================================================================
