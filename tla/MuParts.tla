------------------------------ MODULE MuParts -------------------------------
(***************************************************************************)
(* The MIME-parts of a message: the walk of lib/mu-msg-part.c, which gives *)
(* every part the number that mu extract and mu4e use for it, and what is  *)
(* made of the parts in mu-msg.c, mu-msg-file.c, mu-msg-crypto.c and       *)
(* mu-msg-sexp.c.                                                          *)
(*                                                                         *)
(* An object of a message is a record with its kind ("part", "message",    *)
(* "multipart", "signed", "encrypted"), type, disposition, filename and    *)
(* content; its children; the message inside it; what it decrypts to; and  *)
(* what became of its signatures.  A message is a record with the object   *)
(* at its top.                                                             *)
(***************************************************************************)
EXTENDS Integers, Sequences, FiniteSets, SequencesExt

CONSTANTS
  Null,
  BuildCrypto,  \* was mu built with GMime 2.6?
  Cleaned,      \* what basename and cleanup_filename make of each name
  Objects,      \* all the objects of messages
  Depth         \* bound: how deep objects are in one another

\* What gpg says of a signature (get_status_report knows no other).
Verdicts == {"good", "bad", "error"}

Kinds == {"part", "message", "multipart", "signed", "encrypted"}

ASSUME CryptoAssumption == BuildCrypto \in BOOLEAN
ASSUME DepthAssumption == Depth \in Nat \ {0}
ASSUME NullAssumption == Null \notin Objects /\ Null \notin Verdicts

\* GMime makes a part of what is of the type of a signature.
ASSUME ObjectsAssumption ==
  \A o \in Objects :
    /\ o.kind \in Kinds /\ o.children \in Seq(Objects)
    /\ o.kind = "message" /\ o.inside # Null => o.inside.top \in Objects
    /\ o.kind = "encrypted" /\ o.plain # Null => o.plain \in Objects
    /\ o.kind = "signed" /\ o.sigs # Null => o.sigs \in Seq(Verdicts)
    /\ o.type = "pgp-signature" => o.kind = "part"

\* SelectSeq, by FlattenSeq.
Those(s, Test(_)) ==
  FlattenSeq([i \in DOMAIN s |-> IF Test(s[i]) THEN <<s[i]>> ELSE <<>>])

-----------------------------------------------------------------------------
(* The walk.  What is not opened yet is opened in its place, level by      *)
(* level, which gives the order of a walk that goes down at once.          *)

Found(o, parent) == [object |-> o, parent |-> parent, opened |-> FALSE]

\* The objects in a multipart come after it.
Opened(w) ==
  FlattenSeq([i \in DOMAIN w |->
    IF w[i].opened THEN <<w[i]>>
    ELSE LET o == w[i].object
         IN <<[w[i] EXCEPT !.opened = TRUE]>>
            \o [k \in DOMAIN o.children |-> Found(o.children[k], o)]])

\* g_mime_message_foreach, and g_mime_multipart_foreach in it.
Walk(m) ==
  LET level[n \in 0..Depth] ==
        IF n = 0 THEN <<Found(m.top, Null)>> ELSE Opened(level[n - 1])
  IN level[Depth]

\* The last signature that is not good decides.
Verdict(sigs) ==
  LET ill == Those(sigs, LAMBDA s : s # "good")
  IN IF ill = <<>> THEN "good" ELSE Last(ill)

\* The report is kept with the multipart, and nothing is kept when gpg failed.
Signature(o, parent, opts) ==
  IF BuildCrypto /\ o.type = "pgp-signature" /\ parent # Null
     /\ parent.kind = "signed" /\ "verify" \in opts /\ parent.sigs # Null
  THEN Verdict(parent.sigs) ELSE Null

\* The objects of a message are numbered from 0, whatever it is inside.
Children(m, freed) ==
  LET w == Walk(m)
  IN [i \in DOMAIN w |-> [object |-> w[i].object, parent |-> w[i].parent,
                          index |-> i - 1, freed |-> freed, handled |-> FALSE]]

\* Parts and message parts are handed to the callback.  A decrypted object has
\* the number after that of the object it was in, is not walked itself, and is
\* freed when the callback has returned.
HandleMimeObject(t, opts) ==
  LET o == t.object
      handed == <<[t EXCEPT !.handled = TRUE]>>
  IN IF o.kind = "part" THEN handed
     ELSE IF o.kind = "message"
       THEN handed \o (IF "recurse" \in opts /\ o.inside # Null
                       THEN Children(o.inside, t.freed) ELSE <<>>)
     ELSE IF o.kind = "encrypted" /\ BuildCrypto /\ "decrypt" \in opts /\ o.plain # Null
       THEN <<[t EXCEPT !.object = o.plain, !.index = @ + 1, !.freed = TRUE]>>
     ELSE <<>>

Handled(ts, opts) ==
  FlattenSeq([i \in DOMAIN ts |->
    IF ts[i].handled THEN <<ts[i]>> ELSE HandleMimeObject(ts[i], opts)])

\* A MuMsgPart.
MsgPart(t, opts) ==
  [index |-> t.index, object |-> t.object, sig |-> Signature(t.object, t.parent, opts),
   freed |-> t.freed]

HandleChildren(m, opts) ==
  LET level[n \in 0..Depth] ==
        IF n = 0 THEN Children(m, FALSE) ELSE Handled(level[n - 1], opts)
  IN level[Depth]

\* What is handed to the callback, in that order.
PartForeach(m, opts) ==
  LET handed == Those(HandleChildren(m, opts), LAMBDA t : t.handled)
  IN [i \in DOMAIN handed |-> MsgPart(handed[i], opts)]

\* Depth is no less than what the message takes.
NotTooDeep(m) ==
  LET ts == ToSet(HandleChildren(m, {"decrypt", "recurse"}))
      within == {t.object.inside : t \in {u \in ts : u.object.kind = "message"}}
  IN /\ m.top \in Objects
     /\ \A t \in ts : t.handled
     /\ \A i \in {m} \cup (within \ {Null}) : \A w \in ToSet(Walk(i)) : w.opened

\* The first part with the number.
GetMimeObjectAtIndex(m, opts, index) ==
  LET those == Those(PartForeach(m, opts), LAMBDA p : p.index = index)
  IN IF those = <<>> THEN Null ELSE Head(those)

-----------------------------------------------------------------------------
(* What is made of a part.                                                 *)

\* The filename of a part, or else one made up when it is needed.
GetFilename(p, construct) ==
  IF p.object.kind = "part" /\ p.object.name # Null
    THEN <<Cleaned[p.object.name]>>
  ELSE IF ~construct THEN Null
  ELSE IF p.object.kind = "message"
    THEN <<IF p.object.inside # Null /\ p.object.inside.subject # Null
           THEN Cleaned[p.object.inside.subject] ELSE "message", "eml">>
  ELSE <<ToString(p.index), "part">>

\* Mutant: text is never taken for an attachment.
NonTextAttachment(p) ==
  p.object.kind = "part" /\ p.object.type \notin {"text/plain", "text/html"}

MaybeAttachment(p) ==
  /\ p.object.kind = "part"
  /\ \/ p.object.type \notin {"text/plain", "text/html"}
     \/ p.object.disp = "attachment"

\* mu_msg_mime_part_to_string: a part of an invalid message has no content.
PartToString(o) == IF o.content = Null THEN <<>> ELSE <<o.content>>

ContentsOf(parts) ==
  FlattenSeq([i \in DOMAIN parts |-> PartToString(parts[i].object)])

\* The text of a part, or of all parts of the message that it is.  (The branch
\* of accumulate_text for a GMimeMessage is never taken: the walk hands out
\* parts and message parts.)
GetText(p, opts) ==
  IF p.object.kind = "part"
    THEN IF p.object.type = "text/plain" THEN PartToString(p.object) ELSE <<>>
  ELSE IF p.object.inside = Null THEN <<>>
  ELSE ContentsOf(Those(PartForeach(p.object.inside, opts),
         LAMBDA q : q.object.kind = "part" /\ q.object.type = "text/plain"))

GetBody(m, opts, type) ==
  ContentsOf(Those(PartForeach(m, opts),
    LAMBDA p : p.object.kind = "part" /\ p.object.disp # "attachment"
               /\ p.object.type = type))

LooksLikeAttachment(o) ==
  /\ o.kind = "part" /\ o.disp # Null
  /\ o.disp = "attachment" \/ o.type \in {"image", "audio", "application"}

\* The flags that come from the content of a message.
GetContentFlags(m) ==
  LET objects == {w.object : w \in ToSet(Walk(m))}
  IN {f \in {"signed", "encrypted", "attach"} : \E o \in objects :
        \/ f = o.kind
        \/ f = "attach" /\ LooksLikeAttachment(o)}

\* What a client is told about each part.
SexpParts(m, opts) ==
  LET ps == PartForeach(m, opts)
  IN [i \in DOMAIN ps |->
       [index |-> ps[i].index, name |-> GetFilename(ps[i], TRUE),
        attachment |-> MaybeAttachment(ps[i]), signature |-> ps[i].sig]]

-----------------------------------------------------------------------------
(* mu verify: what is said of all signatures of a message.                 *)

\* Mutant: the last report decides.
LastVerdict(m, opts) ==
  LET sigs == Those(PartForeach(m, opts \cup {"verify"}), LAMBDA p : p.sig # Null)
  IN IF sigs = <<>> THEN "unsigned" ELSE Last(sigs).sig

\* each_sig: after a signature that is not good nothing changes any more.
CombinedStatus(m, opts) ==
  LET sigs == Those(PartForeach(m, opts \cup {"verify"}), LAMBDA p : p.sig # Null)
      ill  == Those(sigs, LAMBDA p : p.sig # "good")
  IN IF sigs = <<>> THEN "unsigned" ELSE IF ill = <<>> THEN "good" ELSE Head(ill).sig

-----------------------------------------------------------------------------
(* What there is in a message, to say what should be found of it.          *)

\* The messages in m, and in those, and so on.
Within(m) ==
  LET level[n \in 0..Depth] ==
        IF n = 0 THEN {m}
        ELSE level[n - 1] \cup
             ({w.object.inside : w \in {v \in UNION {ToSet(Walk(i)) : i \in level[n - 1]} :
                                         v.object.kind = "message"}} \ {Null})
  IN level[Depth]

\* All the plain text of a message, in messages that are in it as well.
Texts(m) ==
  {w.object.content : w \in {v \in UNION {ToSet(Walk(i)) : i \in Within(m)} :
     v.object.kind = "part" /\ v.object.type = "text/plain"}} \ {Null}

=============================================================================
