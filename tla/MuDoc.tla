------------------------------- MODULE MuDoc --------------------------------
(***************************************************************************)
(* What mu reads from a message file (lib/mu-msg-file.c), and the document *)
(* that mu-store-write.cc makes of it for Xapian, by the table of fields   *)
(* in mu-msg-fields.c: values, to show a message without its file, and     *)
(* terms, to find it.                                                      *)
(*                                                                         *)
(* A message has, besides its subject and its top object (MuParts), its    *)
(* lists of contacts, date, identifiers, the words in the headers for      *)
(* tags, and the headers for its priority.  A file that was read is        *)
(* [path, mdir, mail, stamp].                                              *)
(***************************************************************************)
EXTENDS MuParts, MuFlags

CONSTANTS
  IllFormed,    \* the strings that are not UTF-8
  Asciified,    \* what mu_str_asciify_in_place makes of each string
  AtCommas      \* the strings that each message-id has between its commas

-----------------------------------------------------------------------------
(* The fields.                                                             *)

StringFields == {"bcc", "body", "bodyhtml", "cc", "embed", "file", "from",
                 "path", "maildir", "mime", "subject", "to", "msgid", "uid"}
NumericFields == {"date", "flag", "prio", "size"}
ListFields == {"refs", "tag"}
Fields == StringFields \cup NumericFields \cup ListFields

\* The fields with FLAG_XAPIAN_VALUE, FLAG_XAPIAN_TERM, FLAG_XAPIAN_INDEX.
ValueFields == {"bcc", "cc", "date", "flag", "from", "path", "maildir", "prio",
                "size", "subject", "to", "msgid", "refs"}
TermFields == {"date", "file", "flag", "maildir", "mime", "prio", "size",
               "subject", "msgid", "tag", "uid"}
IndexFields == {"body", "embed", "subject"}
GmimeFields == Fields \ {"mime", "uid"}

-----------------------------------------------------------------------------
(* Reading a file.                                                         *)

\* An empty value is none.
OrNone(s) == IF s = <<>> THEN Null ELSE s

Clean(s) == IF s \in IllFormed THEN Asciified[s] ELSE s

\* The string with all contacts is made ASCII when one of them is not UTF-8.
CleanContacts(cs) ==
  IF \E i \in DOMAIN cs : cs[i].name \in IllFormed
    THEN [i \in DOMAIN cs |->
           [cs[i] EXCEPT !.name = IF @ = Null THEN Null ELSE Asciified[@]]]
  ELSE cs

\* "unread" is a flag for new messages, and for those that were not seen.
GetFlags(p, mail) ==
  {LET all == flags \cup {[signed |-> "z", encrypted |-> "x", attach |-> "a"][f] :
                            f \in GetContentFlags(mail)}
   IN IF "N" \in all \/ "S" \notin all THEN all \cup {"u"} ELSE all :
   flags \in FlagsFromPath(p)}

ParsePrio(s) ==
  IF s \in {"high", "1", "2"} THEN "high"
  ELSE IF s \in {"low", "list", "bulk", "4", "5"} THEN "low"
  ELSE "normal"

\* The first of Precedence, X-Priority and Importance decides.
GetPrio(mail) ==
  LET given == Those(mail.prios, LAMBDA s : s # Null)
  IN IF given = <<>> THEN "normal" ELSE ParsePrio(Head(given))

\* Only the first of each is kept.
WithoutDuplicates(s) ==
  FlattenSeq([i \in DOMAIN s |-> IF \E k \in 1..(i - 1) : s[k] = s[i] THEN <<>> ELSE <<s[i]>>])

GetReferences(mail) == WithoutDuplicates(mail.refs \o mail.inreplyto)

\* X-Label, X-Keywords and Keywords, each split at its own separator.
GetTags(mail) == FlattenSeq(mail.tags)

\* The values that a field of a file may have.  Only flags has a choice.
FileField(f, file) ==
  CASE f \in {"bcc", "cc", "to", "from"} -> {OrNone(CleanContacts(file.mail[f]))}
    [] f = "subject" -> {IF file.mail.subject = Null THEN Null ELSE Clean(file.mail.subject)}
    [] f = "path" -> {file.path}
    [] f = "maildir" -> {file.mdir}
    [] f \in {"msgid", "date", "size"} -> {file.mail[f]}
    [] f = "flag" -> GetFlags(file.path, file.mail)
    [] f = "prio" -> {GetPrio(file.mail)}
    [] f = "refs" -> {GetReferences(file.mail)}
    [] f = "tag" -> {GetTags(file.mail)}
    [] OTHER -> {Null}

Contacts(mail, field) ==
  [i \in DOMAIN mail[field] |-> [type |-> field, name |-> mail[field][i].name,
                                 address |-> mail[field][i].address]]

\* Groups, which have no address, are passed over.
WithAddress(cs) == Those(cs, LAMBDA c : c.address # Null)

FileContacts(mail) ==
  WithAddress(FlattenSeq([i \in 1..5 |->
    Contacts(mail, <<"from", "replyto", "to", "cc", "bcc">>[i])]))

-----------------------------------------------------------------------------
(* Making a document.                                                      *)

\* A list is kept as one string, and split when it is read.
Joined(ids) == FlattenSeq([i \in DOMAIN ids |-> AtCommas[ids[i]]])

Values(file, flags) ==
  [f \in ValueFields |->
     CASE f = "flag" -> flags
       [] f = "refs" -> OrNone(Joined(GetReferences(file.mail)))
       [] f = "date" -> IF file.mail.date = 0 THEN Null ELSE file.mail.date
       [] f = "maildir" -> IF file.mdir = SameMaildir THEN Null ELSE file.mdir
       [] OTHER -> CHOOSE v \in FileField(f, file) : TRUE]

\* The body that is shown without asking for html, or else the html.
BodyTerms(mail) ==
  LET text == GetBody(mail, {}, "text/plain") IN
  IF "encrypted" \in GetContentFlags(mail) THEN {}
  ELSE {<<"body", c>> : c \in ToSet(IF text # <<>> THEN text
                                    ELSE GetBody(mail, {}, "text/html"))}

\* Mutant: messages in a message are not looked into.
PartsToIndexFlat(mail) == PartForeach(mail, {})

PartsToIndex(mail) == PartForeach(mail, {"recurse"})

\* The text of attachments and of messages.
EmbeddedTerms(mail) ==
  {<<"embed", c>> : c \in UNION {ToSet(GetText(p, {})) :
     p \in {q \in ToSet(PartsToIndex(mail)) :
              q.object.kind = "message" \/ q.object.disp = "attachment"}}}

AttachTerms(mail) ==
  LET ps == ToSet(PartsToIndex(mail)) IN
  {<<"mime", p.object.type>> : p \in ps}
  \cup {<<"file", GetFilename(p, FALSE)>> : p \in {q \in ps : GetFilename(q, FALSE) # Null}}
  \cup EmbeddedTerms(mail)

\* Reply-to is not among the terms.
ContactTerms(mail) ==
  LET cs == {c \in ToSet(FileContacts(mail)) : c.type # "replyto"} IN
  {<<c.type, c.address>> : c \in cs}
  \cup {<<c.type, c.name>> : c \in {d \in cs : d.name # Null}}

Terms(file, flags) ==
  LET mail == file.mail IN
  BodyTerms(mail) \cup AttachTerms(mail) \cup ContactTerms(mail)
  \cup {<<"flag", f>> : f \in flags} \cup {<<"prio", GetPrio(mail)>>}
  \cup {<<"tag", t>> : t \in ToSet(GetTags(mail))}
  \cup {<<f, Clean(mail[f])>> : f \in {g \in {"subject", "msgid"} : mail[g] # Null}}
  \cup {<<"maildir", m>> : m \in {file.mdir} \ {SameMaildir}}
  \cup {<<"uid", file.path>>}

\* new_doc_from_message
NewDocs(file) ==
  {[values |-> Values(file, flags), terms |-> Terms(file, flags), of |-> file.mail] :
     flags \in GetFlags(file.path, file.mail)}

=============================================================================
