----------------------------- MODULE MuMsgProofs -----------------------------
(***************************************************************************)
(* Proofs about MuMsg, and MuDoc and MuFlags under it, for all messages,   *)
(* maildirs and changes to files: the names of files say the flags of      *)
(* their messages, a move keeps every file, the answers about a message    *)
(* are true, and no text of it is missing in the database.                 *)
(***************************************************************************)
EXTENDS MuMsg, SequenceTheorems, TLAPS

-----------------------------------------------------------------------------
(* The parts.  What MuExtractProofs proves of sequences, and of the parts  *)
(* of messages, is used here: both modules extend MuParts.                 *)

Parts == INSTANCE MuExtractProofs WITH
           Mails <- {}, Requests <- {}, Faults <- {}, Strangers <- {}, MaxJobs <- 0,
           MaxEdits <- 0, mail <- Null, edits <- 0, disk <- <<>>, job <- Null,
           jobs <- 0, told <- Null

\* What is assumed there.
LEMMA Given ==
  Parts!Verdicts = Verdicts /\ Parts!Kinds = Kinds /\ Null \notin Parts!Results
BY NoValueAssumption DEF Parts!Results, Parts!Verdicts, Verdicts, Parts!Kinds, Kinds

\* The operators of MuParts are the same there.
LEMMA SameSequences ==
  /\ \A s : Parts!ToSet(s) = ToSet(s)
  /\ \A s : Parts!FlattenSeq(s) = FlattenSeq(s)
  /\ \A s : Parts!Last(s) = Last(s)
BY DEF Parts!ToSet, ToSet, Parts!FlattenSeq, FlattenSeq, Parts!Last, Last

LEMMA SameWalk == \A m : Parts!Walk(m) = Walk(m)
BY DEF Parts!Walk, Walk, Parts!Opened, Opened, Parts!Found, Found,
       Parts!FlattenSeq, FlattenSeq

LEMMA SameTexts == \A m : Parts!Texts(m) = Texts(m)
BY DEF Parts!Walk, Walk, Parts!Opened, Opened, Parts!Found, Found,
       Parts!FlattenSeq, FlattenSeq, Parts!ToSet, ToSet,
       Parts!Texts, Texts, Parts!Within, Within

LEMMA SameChildren ==
  \A m, freed : Parts!Children(m, freed) = Children(m, freed)
BY SameWalk DEF Parts!Children, Children

LEMMA SameHandleMimeObject ==
  \A t, opts : Parts!HandleMimeObject(t, opts) = HandleMimeObject(t, opts)
BY SameChildren DEF Parts!HandleMimeObject, HandleMimeObject

LEMMA SameHandled ==
  ASSUME NEW ts, NEW opts
  PROVE  Parts!Handled(ts, opts) = Handled(ts, opts)
<1>1. [i \in DOMAIN ts |->
         IF ts[i].handled THEN <<ts[i]>> ELSE Parts!HandleMimeObject(ts[i], opts)]
        = [i \in DOMAIN ts |->
             IF ts[i].handled THEN <<ts[i]>> ELSE HandleMimeObject(ts[i], opts)]
  BY SameHandleMimeObject
<1> QED
  BY <1>1, SameSequences DEF Parts!Handled, Handled

LEMMA SameSignature ==
  \A o, parent, opts : Parts!Signature(o, parent, opts) = Signature(o, parent, opts)
BY DEF Parts!Signature, Signature, Parts!Verdict, Verdict, Parts!Those, Those,
       Parts!FlattenSeq, FlattenSeq, Parts!Last, Last

LEMMA SameHandleChildren ==
  ASSUME NEW m, m.top \in Objects, NEW opts
  PROVE  Parts!HandleChildren(m, opts) = HandleChildren(m, opts)
<1> DEFINE first == Children(m, FALSE)
           level == CHOOSE l : l = [n \in 0..Depth |->
                                      IF n = 0 THEN first ELSE Handled(l[n - 1], opts)]
<1>1. PICK l : Parts!Levels(l, m, opts)
  BY Given, CryptoAssumption, DepthAssumption, NullAssumption, ObjectsAssumption,
     Parts!HandleChildrenLevels
<1>2. HandleChildren(m, opts) = level[Depth]
  BY DEF HandleChildren
<1>3. /\ DOMAIN l = 0..Depth /\ l = [n \in 0..Depth |-> l[n]] /\ l[0] = first
      /\ \A n \in 1..Depth : l[n] = Handled(l[n - 1], opts)
      /\ Parts!HandleChildren(m, opts) = l[Depth]
  BY <1>1, SameChildren, SameHandled DEF Parts!Levels
<1> HIDE DEF first
<1>4. \A n \in 0..Depth : l[n] = IF n = 0 THEN first ELSE Handled(l[n - 1], opts)
  BY <1>3, DepthAssumption
<1>5. l = [n \in 0..Depth |-> IF n = 0 THEN first ELSE Handled(l[n - 1], opts)]
  BY <1>3, <1>4
<1>6. level = [n \in 0..Depth |-> IF n = 0 THEN first ELSE Handled(level[n - 1], opts)]
  BY <1>5
<1> HIDE DEF level
<1>7. \A n \in 0..Depth : level[n] = IF n = 0 THEN first ELSE Handled(level[n - 1], opts)
  BY <1>6
<1> DEFINE G == {n \in 0..Depth : level[n] = l[n]}
<1>8. Depth \in Nat /\ 0 \in 0..Depth /\ Depth \in 0..Depth
      /\ \A n \in 1..Depth : n \in 0..Depth /\ n - 1 \in 0..Depth /\ n # 0
  BY DepthAssumption
<1>9. 0 \in G /\ \A n \in 1..Depth : n - 1 \in G => n \in G
  BY <1>4, <1>7, <1>8
<1>10. G = 0..Depth
  <2> HIDE DEF G
  <2>1. G \in SUBSET (0..Depth)
    BY DEF G
  <2> QED
    BY <1>8, <1>9, <2>1, Given, CryptoAssumption, DepthAssumption, NullAssumption,
       ObjectsAssumption, Parts!Upwards
<1> QED
  BY <1>2, <1>3, <1>8, <1>10

LEMMA SamePartForeach ==
  ASSUME NEW m, m.top \in Objects, NEW opts
  PROVE  Parts!PartForeach(m, opts) = PartForeach(m, opts)
<1> DEFINE ts == HandleChildren(m, opts)
           handed == FlattenSeq([i \in DOMAIN ts |->
                                   IF ts[i].handled THEN <<ts[i]>> ELSE <<>>])
<1>1. PartForeach(m, opts) = [i \in DOMAIN handed |-> MsgPart(handed[i], opts)]
  BY DEF PartForeach, Those
<1>2. Parts!PartForeach(m, opts)
        = [i \in DOMAIN handed |-> Parts!MsgPart(handed[i], opts)]
  BY SameHandleChildren, SameSequences DEF Parts!PartForeach, Parts!Those
<1>3. \A t : Parts!MsgPart(t, opts) = MsgPart(t, opts)
  BY SameSignature DEF Parts!MsgPart, MsgPart
<1> HIDE DEF handed
<1> QED
  BY <1>1, <1>2, <1>3

LEMMA SameContents ==
  /\ \A o : Parts!PartToString(o) = PartToString(o)
  /\ \A ps : Parts!ContentsOf(ps) = ContentsOf(ps)
BY DEF Parts!PartToString, PartToString, Parts!ContentsOf, ContentsOf,
       Parts!FlattenSeq, FlattenSeq

LEMMA SameBody ==
  ASSUME NEW m, m.top \in Objects
  PROVE  Parts!GetBody(m, {}, "text/plain") = GetBody(m, {}, "text/plain")
<1> DEFINE ps == PartForeach(m, {})
           body == FlattenSeq([i \in DOMAIN ps |->
                     IF ps[i].object.kind = "part" /\ ps[i].object.disp # "attachment"
                        /\ ps[i].object.type = "text/plain"
                     THEN <<ps[i]>> ELSE <<>>])
<1>1. GetBody(m, {}, "text/plain") = ContentsOf(body)
  BY DEF GetBody, Those
<1>2. Parts!GetBody(m, {}, "text/plain") = Parts!ContentsOf(body)
  BY SamePartForeach, SameSequences DEF Parts!GetBody, Parts!Those
<1> QED
  BY <1>1, <1>2, SameContents

LEMMA SameText ==
  ASSUME NEW p, p.object \in Objects, p.object.kind \in {"part", "message"}
  PROVE  Parts!GetText(p, {}) = GetText(p, {})
<1> DEFINE ps == PartForeach(p.object.inside, {})
           text == FlattenSeq([i \in DOMAIN ps |->
                     IF ps[i].object.kind = "part" /\ ps[i].object.type = "text/plain"
                     THEN <<ps[i]>> ELSE <<>>])
<1>1. CASE p.object.kind = "part"
  BY <1>1, SameContents DEF Parts!GetText, GetText
<1>2. CASE p.object.kind = "message" /\ p.object.inside = Null
  BY <1>2 DEF Parts!GetText, GetText
<1>3. CASE p.object.kind = "message" /\ p.object.inside # Null
  <2>1. GetText(p, {}) = ContentsOf(text)
    BY <1>3 DEF GetText, Those
  <2>2. p.object.inside.top \in Objects
    BY <1>3, ObjectsAssumption
  <2>3. Parts!GetText(p, {}) = Parts!ContentsOf(text)
    BY <1>3, <2>2, SamePartForeach, SameSequences DEF Parts!GetText, Parts!Those
  <2> QED
    BY <2>1, <2>3, SameContents
<1> QED
  BY <1>1, <1>2, <1>3

LEMMA SameNotTooDeep == \A m : NotTooDeep(m) => Parts!NotTooDeep(m)
<1> SUFFICES ASSUME NEW m, NotTooDeep(m) PROVE Parts!NotTooDeep(m)
  OBVIOUS
<1>1. Parts!HandleChildren(m, {"decrypt", "recurse"}) = HandleChildren(m, {"decrypt", "recurse"})
  BY SameHandleChildren DEF NotTooDeep
<1> QED
  BY <1>1, SameSequences, SameWalk DEF NotTooDeep, Parts!NotTooDeep

LEMMA FlattenIs ==
  ASSUME NEW S, NEW ss \in Seq(Seq(S))
  PROVE  /\ FlattenSeq(ss) \in Seq(S)
         /\ \A x : x \in ToSet(FlattenSeq(ss)) <=> \E i \in 1..Len(ss) : x \in ToSet(ss[i])
BY Given, CryptoAssumption, DepthAssumption, NullAssumption, ObjectsAssumption,
   SameSequences, Parts!FlattenIs

LEMMA TextIsFound ==
  ASSUME NEW m, NotTooDeep(m), NEW c \in Texts(m)
  PROVE  \/ c \in ToSet(GetBody(m, {}, "text/plain"))
         \/ \E p \in ToSet(PartForeach(m, {"recurse"})) :
              /\ p.object.kind = "message" \/ p.object.disp = "attachment"
              /\ c \in ToSet(GetText(p, {}))
<1>1. m.top \in Objects
  BY DEF NotTooDeep
<1>2. Parts!NotTooDeep(m) /\ c \in Parts!Texts(m)
  BY SameNotTooDeep, SameTexts
<1>3. \/ c \in ToSet(GetBody(m, {}, "text/plain"))
      \/ \E p \in ToSet(PartForeach(m, {"recurse"})) :
           /\ p.object.kind = "message" \/ p.object.disp = "attachment"
           /\ c \in ToSet(Parts!GetText(p, {}))
  BY <1>1, <1>2, Given, CryptoAssumption, DepthAssumption, NullAssumption,
     ObjectsAssumption, Parts!TextIsFound, SameSequences, SameBody, SamePartForeach
<1>4. ASSUME NEW p \in ToSet(PartForeach(m, {"recurse"}))
      PROVE  p.object \in Objects /\ p.object.kind \in {"part", "message"}
  <2>1. /\ PartForeach(m, {"recurse"}) \in Seq(Parts!MsgParts)
        /\ \A q \in ToSet(PartForeach(m, {"recurse"})) : q.object.kind \in Parts!Shown
    BY <1>1, Given, CryptoAssumption, DepthAssumption, NullAssumption,
       ObjectsAssumption, Parts!PartForeachIs, SameSequences, SamePartForeach
  <2>2. \A q \in ToSet(PartForeach(m, {"recurse"})) : q \in Parts!MsgParts
    BY <2>1 DEF ToSet
  <2> QED
    BY <2>1, <2>2 DEF Parts!MsgParts, Parts!Shown
<1> QED
  BY <1>3, <1>4, SameText

-----------------------------------------------------------------------------
(* The names of files.                                                     *)

LEMMA NotFileFlags == "2" \notin FileFlags /\ "N" \notin FileFlags
BY DEF FileFlags

\* The information part that GetNewPath keeps holds no flag of a file.
Custom(p) == IF p.info = NoInfo THEN {} ELSE CustomFromStr(p.info)
Target(p, mdir) == IF mdir = SameMaildir THEN p.mdir ELSE mdir

LEMMA NewPath ==
  ASSUME NEW p, NEW mdir, NEW flags, "N" \notin flags
  PROVE  LET q == GetNewPath(p, mdir, flags)
         IN  /\ q.mdir = Target(p, mdir) /\ q.dir = "cur" /\ q.base = p.base
             /\ q.info = (flags \cap FileFlags) \cup Custom(p)
             /\ q = [mdir |-> q.mdir, dir |-> q.dir, base |-> q.base,
                     info |-> q.info]
BY DEF GetNewPath, Target, Custom

LEMMA CustomIsNoFlag == ASSUME NEW p PROVE Custom(p) \cap FileFlags = {}
BY DEF Custom, CustomFromStr

\* The name that mu_maildir_get_new_path makes says exactly the flags it was
\* made with (mu-maildir.c:637-676, 690-706, 748-784), custom ones next to them, unless
\* there is a "2" among those or "/new/" in the path of the maildir.  Letters
\* stands for the characters of file names.
THEOREM FlagsAreReadBack ==
  ASSUME NEW Letters, FileFlags \subseteq Letters, NoInfo \notin SUBSET Letters,
         NEW p, p.info = NoInfo \/ p.info \in SUBSET (Letters \ {"2"}),
         NEW mdir, Target(p, mdir) \notin NewlyNamed, NEW flags
  PROVE  FlagsFromPath(GetNewPath(p, mdir, flags)) =
           {IF "N" \in flags THEN DirFlags ELSE flags \cap FileFlags}
<1> DEFINE q == GetNewPath(p, mdir, flags)
<1>1. CASE "N" \in flags
  BY <1>1 DEF GetNewPath, FlagsFromPath
<1>2. CASE "N" \notin flags
  <2>1. /\ q.mdir = Target(p, mdir) /\ q.dir = "cur"
        /\ q.info = (flags \cap FileFlags) \cup Custom(p)
    BY <1>2, NewPath
  <2>2. Custom(p) \subseteq Letters \ {"2"}
    BY DEF Custom, CustomFromStr
  <2> HIDE DEF q
  <2>3. q.info # NoInfo /\ "2" \notin q.info
    BY <2>1, <2>2, NotFileFlags
  <2>4. q.info \cap FileFlags = flags \cap FileFlags
    BY <2>1, CustomIsNoFlag
  <2>5. FlagsFromInfo(q) = flags \cap FileFlags
    BY <2>3, <2>4 DEF FlagsFromInfo, FromStr
  <2>6. FlagsFromPath(q) = {flags \cap FileFlags}
    BY <2>1, <2>5 DEF FlagsFromPath
  <2> QED
    BY <1>2, <2>6 DEF q
<1> QED
  BY <1>1, <1>2

\* A message that is moved where it is, with the flags it has, keeps its name
\* (mu-maildir.c:748-784): asking twice for the same change changes nothing
\* the second time.
THEOREM MoveIsIdempotent ==
  ASSUME NEW Letters, FileFlags \subseteq Letters, NoInfo \notin SUBSET Letters,
         NEW p, p.info = NoInfo \/ p.info \in SUBSET Letters,
         NEW mdir, NEW flags
  PROVE  LET q == GetNewPath(p, mdir, flags)
         IN  GetNewPath(q, SameMaildir, flags) = q
<1> DEFINE q == GetNewPath(p, mdir, flags)
           r == GetNewPath(q, SameMaildir, flags)
<1>1. CASE "N" \in flags
  BY <1>1 DEF GetNewPath
<1>2. CASE "N" \notin flags
  <2>1. /\ q.dir = "cur" /\ q.info = (flags \cap FileFlags) \cup Custom(p)
        /\ q = [mdir |-> q.mdir, dir |-> q.dir, base |-> q.base,
                info |-> q.info]
    BY <1>2, NewPath
  <2> HIDE DEF q
  <2>2. /\ r.mdir = q.mdir /\ r.dir = "cur" /\ r.base = q.base
        /\ r.info = (flags \cap FileFlags) \cup Custom(q)
        /\ r = [mdir |-> r.mdir, dir |-> r.dir, base |-> r.base,
                info |-> r.info]
    BY <1>2, NewPath DEF Target
  <2> HIDE DEF r
  <2>3. Custom(p) \subseteq Letters
    BY DEF Custom, CustomFromStr
  <2>4. q.info # NoInfo
    BY <2>1, <2>3
  <2>5. Custom(q) = Custom(p)
    <3>1. Custom(q) = q.info \ FileFlags
      BY <2>4 DEF Custom, CustomFromStr
    <3> QED
      BY <2>1, <3>1, CustomIsNoFlag
  <2>6. r = q
    BY <2>1, <2>2, <2>5
  <2> QED
    BY <2>6 DEF q, r
<1> QED
  BY <1>1, <1>2

-----------------------------------------------------------------------------
(* The inductive invariant.                                                *)

\* The paths without links.
RealPaths == {p \in AllPaths : RealMdir[p.mdir] = p.mdir}

\* A document was made of a file that was there.
MadeOf(d, file) == d \in NewDocs(file) /\ file.path \in RealPaths

IsDoc(d) == \E file \in FilesRead : MadeOf(d, file)

\* The maildir that the document in the database says is the end of a name of
\* the one that its file is in.
Knows(d) ==
  d.values.maildir # Null =>
    \E e \in DOMAIN RealMdir : /\ RealMdir[e] = d.values.path.mdir
                             /\ Suffix(d.values.maildir, e)

IsFile(file) == file \in FilesRead /\ file.path \in RealPaths

IsMsg(m) ==
  /\ m = [doc |-> m.doc, file |-> m.file]
  /\ m.doc # Null => IsDoc(m.doc)
  /\ m.file # Null => IsFile(m.file)
  /\ m.doc # Null \/ m.file # Null

FilesOK(fs) ==
  /\ DOMAIN fs \subseteq RealPaths
  /\ \A p \in DOMAIN fs : fs[p] \in [mail : Mails, stamp : 0..MaxChanges]

\* What a move v of the message m is about.
Meant(v, m) ==
  /\ v.from = m.doc.values.path /\ v.mdir \in DOMAIN RealMdir
  /\ m.doc.values.maildir \in DOMAIN RealMdir
  /\ Suffix(m.doc.values.maildir, v.from.mdir)
  /\ \E flags \in AskedFlags(v.asked, v.from, m.doc.values.flag) :
       v.to = GetNewPath(v.from, GetTargetMdir(v.from, m.doc.values.maildir, v.mdir), flags)

\* And, before the rename, what was seen of the files.
IsMove(v, m) ==
  /\ m # Null /\ m.doc # Null
  /\ v = [step |-> v.step, from |-> v.from, to |-> v.to, mdir |-> v.mdir,
          asked |-> v.asked, seen |-> v.seen]
  /\ v.step \in {"check", "rename", "verify", "open"}
  /\ Meant(v, m)
  /\ v.step = "rename" => /\ v.from \in v.seen
                          /\ v.to.mdir \in DOMAIN RealMdir => Real(v.to) \notin v.seen

IInv ==
  /\ FilesOK(files) /\ changes \in 0..MaxChanges
  /\ doc # Null => IsDoc(doc) /\ Knows(doc)
  /\ msg # Null => IsMsg(msg)
  /\ move # Null => IsMove(move, msg)

LEMMA RealIs ==
  ASSUME NEW p \in AllPaths
  PROVE  /\ Real(p) \in RealPaths /\ Real(p).mdir = RealMdir[p.mdir]
         /\ Real(p).dir = p.dir /\ Real(p).info = p.info
         /\ p \in RealPaths => Real(p) = p
<1>1. p.mdir \in DOMAIN RealMdir
  BY DEF AllPaths, Names
<1>2. RealMdir[p.mdir] \in DOMAIN RealMdir /\ RealMdir[RealMdir[p.mdir]] = RealMdir[p.mdir]
  BY <1>1, PathsAssumption
<1>3. Real(p) \in AllPaths /\ Real(p).mdir = RealMdir[p.mdir]
      /\ Real(p).dir = p.dir /\ Real(p).info = p.info
  BY <1>2 DEF AllPaths, Names, Real
<1>4. p \in RealPaths => Real(p) = p
  BY DEF AllPaths, Names, Real, RealPaths
<1> QED
  BY <1>2, <1>3, <1>4 DEF RealPaths

LEMMA FileNewIs ==
  ASSUME FilesOK(files), NEW p \in AllPaths, Exists(p),
         NEW mdir \in DOMAIN RealMdir \cup {SameMaildir}
  PROVE  /\ IsFile(FileNew(p, mdir)) /\ FileNew(p, mdir) # Null
         /\ FileNew(p, mdir).path = Real(p) /\ FileNew(p, mdir).mdir = mdir
         /\ FileNew(p, mdir).mail = files[Real(p)].mail
<1>1. Real(p) \in RealPaths /\ Real(p) \in DOMAIN files
  BY RealIs DEF Exists
<1>2. Real(p) \in AllPaths /\ files[Real(p)].mail \in Mails
      /\ files[Real(p)].stamp \in 0..MaxChanges
  BY <1>1 DEF FilesOK, RealPaths
<1> HIDE DEF Real
<1>3. FileNew(p, mdir) \in FilesRead /\ FileNew(p, mdir).path = Real(p)
      /\ FileNew(p, mdir).mdir = mdir /\ FileNew(p, mdir).mail = files[Real(p)].mail
  BY <1>2 DEF FileNew, FilesRead
<1> QED
  BY <1>1, <1>3, NoValueAssumption DEF IsFile

\* What a document has of its file.
LEMMA DocIs ==
  ASSUME NEW d, NEW file \in FilesRead, d \in NewDocs(file)
  PROVE  /\ d.of = file.mail /\ d.values.path = file.path
         /\ d.values.maildir = IF file.mdir = SameMaildir THEN Null ELSE file.mdir
         /\ d.values.flag \in GetFlags(file.path, file.mail)
         /\ \E flags \in GetFlags(file.path, file.mail) :
              d.values = Values(file, flags) /\ d.terms = Terms(file, flags)
<1>1. PICK flags \in GetFlags(file.path, file.mail) :
        d = [values |-> Values(file, flags), terms |-> Terms(file, flags),
             of |-> file.mail]
  BY DEF NewDocs
<1>2. d.of = file.mail /\ d.values = Values(file, flags) /\ d.terms = Terms(file, flags)
  BY <1>1
<1>3. Values(file, flags).path = file.path
  BY DEF Values, ValueFields, FileField
<1>4. Values(file, flags).maildir = IF file.mdir = SameMaildir THEN Null ELSE file.mdir
  BY DEF Values, ValueFields
<1>5. Values(file, flags).flag = flags
  BY DEF Values, ValueFields
<1> QED
  BY <1>2, <1>3, <1>4, <1>5

LEMMA IsDocIs ==
  ASSUME NEW d, IsDoc(d)
  PROVE  /\ d.of \in Mails /\ d.values.path \in RealPaths /\ d.values.path \in AllPaths
         /\ d.values.path # Null
         /\ d.values.maildir # Null => d.values.maildir \in DOMAIN RealMdir
<1>1. PICK file \in FilesRead : MadeOf(d, file)
  BY DEF IsDoc
<1>2. /\ d.of = file.mail /\ d.values.path = file.path
      /\ d.values.maildir = IF file.mdir = SameMaildir THEN Null ELSE file.mdir
  BY <1>1, DocIs DEF MadeOf
<1>3. /\ file.mail \in Mails /\ file.path \in AllPaths
      /\ file.mdir \in DOMAIN RealMdir \cup {SameMaildir}
  BY DEF FilesRead
<1> QED
  BY <1>1, <1>2, <1>3, NoValueAssumption DEF MadeOf

LEMMA LoadedIs ==
  ASSUME FilesOK(files), NEW m, IsMsg(m)
  PROVE  /\ IsMsg(Loaded(m)) /\ Loaded(m).doc = m.doc
         /\ m.file # Null => Loaded(m) = m
         /\ m.file = Null => m.doc # Null
         /\ m.file = Null /\ Loaded(m).file # Null =>
              /\ Exists(m.doc.values.path)
              /\ Loaded(m).file = FileNew(m.doc.values.path, SameMaildir)
<1>1. CASE m.file # Null
  BY <1>1 DEF Loaded
<1>2. CASE m.file = Null /\ m.doc.values.path # Null /\ Exists(m.doc.values.path)
  <2> DEFINE p == m.doc.values.path
             l == [m EXCEPT !.file = FileNew(p, SameMaildir)]
  <2>1. m.doc # Null /\ IsDoc(m.doc) /\ p \in AllPaths
    BY <1>2, IsDocIs DEF IsMsg
  <2>2. IsFile(FileNew(p, SameMaildir))
    BY <1>2, <2>1, FileNewIs
  <2>3. Loaded(m) = l
    BY <1>2 DEF Loaded
  <2>4. l = [doc |-> m.doc, file |-> FileNew(p, SameMaildir)]
    BY DEF IsMsg
  <2>5. l.doc = m.doc /\ l.file = FileNew(p, SameMaildir) /\ l = [doc |-> l.doc, file |-> l.file]
    BY <2>4
  <2> HIDE DEF l
  <2> QED
    BY <1>2, <2>1, <2>2, <2>3, <2>5 DEF IsMsg
<1>3. CASE m.file = Null /\ ~(m.doc.values.path # Null /\ Exists(m.doc.values.path))
  BY <1>3 DEF Loaded, IsMsg
<1> QED
  BY <1>1, <1>2, <1>3

LEMMA GetIs ==
  ASSUME NEW m, NEW f
  PROVE  Get(m, f).msg \in {m, Loaded(m)}
BY DEF Get, GetList, GetNum, GetStr, FromFile

LEMMA AfterAllIs ==
  ASSUME NEW m, NEW fs
  PROVE  AfterAll(m, fs) \in {m, Loaded(m)}
BY DEF AfterAll

\* A move of a message goes where the document says, as far as it says.
LEMMA TargetIs ==
  ASSUME NEW v, NEW m, Meant(v, m), v.from \in AllPaths
  PROVE  LET target == GetTargetMdir(v.from, m.doc.values.maildir, v.mdir)
         IN /\ target \in Maildirs /\ target # SameMaildir
            /\ Suffix(v.mdir, target)
            /\ v.from.mdir = m.doc.values.maildir => target = v.mdir
<1> DEFINE S == UNION {ToSet(d) : d \in DOMAIN RealMdir}
           maildir == m.doc.values.maildir
           mdir == v.from.mdir
           above == SubSeq(mdir, 1, Len(mdir) - Len(maildir))
<1>1. mdir \in Seq(S) /\ maildir \in Seq(S) /\ v.mdir \in Seq(S)
  <2>1. mdir \in DOMAIN RealMdir
    BY DEF AllPaths, Names
  <2> QED
    BY <2>1, PathsAssumption DEF Meant, Maildirs
<1>2. Len(maildir) <= Len(mdir)
  BY DEF Meant, Suffix
<1>3. GetTargetMdir(v.from, maildir, v.mdir) = above \o v.mdir
  BY DEF GetTargetMdir
<1>4. Maildirs = Seq(S)
  BY DEF Maildirs
<1> HIDE DEF S, maildir, mdir
<1>5. above \in Seq(S) /\ (mdir = maildir => above = <<>>)
  <2>1. /\ Len(mdir) \in Nat /\ Len(maildir) \in Nat
        /\ Len(mdir) - Len(maildir) \in 0..Len(mdir)
    BY <1>1, <1>2
  <2>2. above \in Seq(S)
    BY <1>1, <2>1
  <2>3. mdir = maildir => above = <<>>
    BY <1>1, SubSeqEmpty
  <2> QED
    BY <2>2, <2>3
<1> HIDE DEF above
<1> DEFINE target == above \o v.mdir
<1>6. target \in Seq(S) /\ Len(target) = Len(above) + Len(v.mdir)
  BY <1>1, <1>5, ConcatProperties
<1>7. Suffix(v.mdir, target)
  <2>1. Len(above) \in Nat /\ Len(v.mdir) \in Nat
    BY <1>1, <1>5
  <2>2. SubSeq(target, Len(above) + 1, Len(above) + Len(v.mdir)) = v.mdir
    <3>1. SubSeq(target, Len(above) + 1, Len(above) + Len(v.mdir))
            = SubSeq(v.mdir, 1, Len(v.mdir))
      BY <1>1, <1>5, <2>1
    <3> QED
      BY <1>1, <3>1, SubSeqFull
  <2> HIDE DEF target
  <2>3. /\ Len(v.mdir) <= Len(target)
        /\ Len(target) - Len(v.mdir) + 1 = Len(above) + 1
    BY <1>6, <2>1
  <2> QED
    BY <1>6, <2>2, <2>3 DEF Suffix
<1>8. mdir = maildir => target = v.mdir
  BY <1>1, <1>5, ConcatEmptySeq
<1> QED
  BY <1>3, <1>4, <1>6, <1>7, <1>8, PathsAssumption DEF maildir, mdir

LEMMA MoveIs ==
  ASSUME NEW v, NEW m, Meant(v, m), v.from \in AllPaths
  PROVE  /\ v.to.mdir = GetTargetMdir(v.from, m.doc.values.maildir, v.mdir)
         /\ v.to.mdir \in DOMAIN RealMdir => v.to \in AllPaths
         /\ \E flags \in AskedFlags(v.asked, v.from, m.doc.values.flag) :
              /\ v.to.dir = IF "N" \in flags THEN "new" ELSE "cur"
              /\ v.to.dir = "cur" => v.to.info = (flags \cap FileFlags) \cup Unknown(v.from)
<1> DEFINE target == GetTargetMdir(v.from, m.doc.values.maildir, v.mdir)
           from == v.from
           to == v.to
<1>1. PICK flags \in AskedFlags(v.asked, from, m.doc.values.flag) :
        to = GetNewPath(from, target, flags)
  BY DEF Meant
<1>2. target # SameMaildir
  BY TargetIs
<1>3. from.base \in Bases /\ from.info \in (SUBSET Chars) \cup {NoInfo}
  BY DEF AllPaths, Names
<1> HIDE DEF target, from, to
<1>4. CASE "N" \in flags
  <2>1. to = [mdir |-> target, dir |-> "new", base |-> from.base, info |-> NoInfo]
    BY <1>1, <1>2, <1>4 DEF GetNewPath
  <2>2. to.mdir = target /\ to.dir = "new"
    BY <2>1
  <2>3. target \in DOMAIN RealMdir => to \in AllPaths
    BY <1>3, <2>1 DEF AllPaths, Names
  <2> QED
    BY <1>4, <2>2, <2>3 DEF target, from, to
<1>5. CASE "N" \notin flags
  <2>1. /\ to.mdir = target /\ to.dir = "cur" /\ to.base = from.base
        /\ to.info = (flags \cap FileFlags) \cup Custom(from)
        /\ to = [mdir |-> to.mdir, dir |-> to.dir, base |-> to.base, info |-> to.info]
    BY <1>1, <1>2, <1>5, NewPath DEF Target
  <2>2. Custom(from) \subseteq Chars /\ Custom(from) = Unknown(from)
    BY <1>3 DEF Custom, CustomFromStr, Unknown
  <2>3. FileFlags \subseteq Chars
    BY DEF Chars
  <2>4. target \in DOMAIN RealMdir => to \in AllPaths
    BY <1>3, <2>1, <2>2, <2>3 DEF AllPaths, Names
  <2> QED
    BY <1>5, <2>1, <2>2, <2>4 DEF target, from, to
<1> QED
  BY <1>4, <1>5

LEMMA NewDocIs ==
  ASSUME NEW file, IsFile(file), NEW d \in NewDocs(file)
  PROVE  IsDoc(d)
BY DEF IsFile, IsDoc, MadeOf

\* The rename.
LEMMA RenameIs ==
  ASSUME IInv, move # Null, move.step = "rename", move.from \in DOMAIN files,
         move.to.mdir \in DOMAIN RealMdir, files' = Renamed(move.from, move.to)
  PROVE  FilesOK(files)' /\ RenameKeeps
<1> DEFINE from == move.from
           to == Real(move.to)
<1>1. /\ IsMsg(msg) /\ msg.doc # Null /\ Meant(move, msg)
      /\ from \in move.seen /\ to \notin move.seen /\ FilesOK(files)
  BY DEF IInv, IsMove
<1>2. from \in RealPaths /\ from \in AllPaths
  BY <1>1, IsDocIs DEF IsMsg, Meant
<1>3. move.to \in AllPaths
  BY <1>1, <1>2, MoveIs
<1>4. to \in RealPaths
  BY <1>3, RealIs
<1>5. files' = [q \in (DOMAIN files \ {from}) \cup {to} |->
                  IF q = to THEN files[from] ELSE files[q]]
  BY DEF Renamed
<1>6. from \in DOMAIN files /\ from # to
  BY <1>1
<1> HIDE DEF to, from
<1>7. FilesOK(files)'
  <2>1. \A p \in DOMAIN files' : files'[p] \in [mail : Mails, stamp : 0..MaxChanges]
    BY <1>1, <1>5, <1>6 DEF FilesOK
  <2> QED
    BY <1>1, <1>4, <1>5, <2>1 DEF FilesOK
<1>8. /\ files'[to] = files[from] /\ from \notin DOMAIN files'
      /\ DOMAIN files' = (DOMAIN files \ {from}) \cup {to}
      /\ \A q \in DOMAIN files \ {from, to} : files'[q] = files[q]
  BY <1>5, <1>6
<1> QED
  BY <1>1, <1>7, <1>8 DEF RenameKeeps, to, from

\* The flags that are asked for are among those of the move, in the places
\* where mu reads the flags of a name as they are.
LEMMA WantedIs ==
  ASSUME NEW asked, NEW p, p.dir \in {"cur", "new"}, p.mdir \notin NewlyNamed,
         NEW old, NEW flags \in AskedFlags(asked, p, old)
  PROVE  /\ "N" \in Wanted(asked, p, old) <=> "N" \in flags
         /\ Wanted(asked, p, old) \cap FileFlags = flags \cap FileFlags
<1>1. CASE asked.kind = "none"
  BY <1>1 DEF AskedFlags, Wanted
<1>2. CASE asked.kind = "set"
  <2>1. flags = asked.flags \cap AllFlags
    BY <1>2 DEF AskedFlags, FromStr
  <2>2. Wanted(asked, p, old) = asked.flags
    BY <1>2 DEF Wanted
  <2>3. "N" \in AllFlags /\ FileFlags \subseteq AllFlags
    BY DEF AllFlags, DirFlags
  <2> QED
    BY <2>1, <2>2, <2>3
<1>3. CASE asked.kind \notin {"none", "set"}
  <2>1. FlagsFromPath(p) = {IF p.dir = "new" THEN DirFlags ELSE FlagsFromInfo(p)}
    BY DEF FlagsFromPath
  <2>2. flags = FromStrDelta(asked.deltas, IF p.dir = "new" THEN DirFlags ELSE FlagsFromInfo(p))
    BY <1>3, <2>1 DEF AskedFlags
  <2> QED
    BY <1>3, <2>2 DEF Wanted
<1> QED
  BY <1>1, <1>2, <1>3

\* The flags of a file that are read back from its name.
LEMMA ReadBack ==
  ASSUME NEW p, p.dir = "cur", p.mdir \notin NewlyNamed, p.info # NoInfo, "2" \notin p.info,
         NEW mail, NEW flags \in GetFlags(p, mail)
  PROVE  flags \cap FileFlags = p.info \cap FileFlags
<1> DEFINE content == {[signed |-> "z", encrypted |-> "x", attach |-> "a"][f] :
                         f \in GetContentFlags(mail)}
<1>1. FlagsFromPath(p) = {p.info \cap FileFlags}
  BY DEF FlagsFromPath, FlagsFromInfo, FromStr
<1>2. LET all == (p.info \cap FileFlags) \cup content
      IN flags = IF "N" \in all \/ "S" \notin all THEN all \cup {"u"} ELSE all
  BY <1>1 DEF GetFlags
<1>3. content \subseteq {"z", "x", "a"}
  <2>1. GetContentFlags(mail) \subseteq {"signed", "encrypted", "attach"}
    BY DEF GetContentFlags
  <2> QED
    BY <2>1
<1> HIDE DEF content
<1> QED
  BY <1>2, <1>3 DEF FileFlags

\* The last step of a move, when nothing fails.
LEMMA OpenIs ==
  ASSUME IInv, move # Null, Exists(move.to), doc' \in NewDocs(NewBackend), UNCHANGED files
  PROVE  /\ IsDoc(doc') /\ Knows(doc')
         /\ AnswerSays
<1> DEFINE from == move.from
           new == Real(move.to)
           old == msg.doc.values.flag
<1>1. /\ IsMsg(msg) /\ msg.doc # Null /\ Meant(move, msg) /\ FilesOK(files)
      /\ move.mdir \in DOMAIN RealMdir /\ move.to.mdir \in DOMAIN RealMdir
  BY DEF IInv, IsMove, Meant, Exists
<1>2. from \in AllPaths /\ from.dir \in {"cur", "new"} /\ from.info \in (SUBSET Chars) \cup {NoInfo}
  BY <1>1, IsDocIs DEF IsMsg, Meant, AllPaths, Names
<1>3. move.to \in AllPaths
  BY <1>1, <1>2, MoveIs
<1>4. /\ new \in RealPaths /\ new.mdir = RealMdir[move.to.mdir] /\ new.dir = move.to.dir
      /\ new.info = move.to.info /\ new \in DOMAIN files
  BY <1>3, RealIs DEF Exists
<1>5. IsFile(NewBackend) /\ NewBackend.path = new /\ NewBackend.mdir = move.mdir
  BY <1>1, <1>3, FileNewIs DEF NewBackend
<1>6. IsDoc(doc')
  BY <1>5, NewDocIs
<1>7. /\ doc'.values.path = new /\ doc'.values.maildir = move.mdir
      /\ doc'.values.flag \in GetFlags(new, NewBackend.mail)
  <2>1. move.mdir # SameMaildir
    BY <1>1, PathsAssumption
  <2>2. NewBackend \in FilesRead
    BY <1>5 DEF IsFile
  <2> QED
    BY <1>5, <2>1, <2>2, DocIs
<1>8. /\ Suffix(move.mdir, move.to.mdir)
      /\ from.mdir = msg.doc.values.maildir => move.to.mdir = move.mdir
  BY <1>1, <1>2, TargetIs, MoveIs
<1>9. Knows(doc')
  BY <1>1, <1>4, <1>7, <1>8 DEF Knows
<1> DEFINE wanted == Wanted(move.asked, from, old)
<1>10. ASSUME {from.mdir, new.mdir} \cap NewlyNamed = {}, "2" \notin Unknown(from)
       PROVE  /\ new.dir = "new" <=> "N" \in wanted
              /\ new.dir = "cur" =>
                   /\ new.info \cap FileFlags = wanted \cap FileFlags
                   /\ doc'.values.flag \cap FileFlags = wanted \cap FileFlags
                   /\ Unknown(from) \subseteq new.info
  <2>1. PICK flags \in AskedFlags(move.asked, from, old) :
          /\ move.to.dir = IF "N" \in flags THEN "new" ELSE "cur"
          /\ move.to.dir = "cur" => move.to.info = (flags \cap FileFlags) \cup Unknown(from)
    BY <1>1, <1>2, MoveIs
  <2>2. /\ "N" \in wanted <=> "N" \in flags
        /\ wanted \cap FileFlags = flags \cap FileFlags
    BY <1>2, <1>10, WantedIs
  <2>3. CASE new.dir = "cur"
    <3>1. new.info = (flags \cap FileFlags) \cup Unknown(from)
      BY <1>4, <2>1, <2>3
    <3>2. Unknown(from) \cap FileFlags = {} /\ Unknown(from) \subseteq Chars /\ "2" \notin FileFlags
      BY <1>2, NotFileFlags DEF Unknown
    <3>3. new.info \subseteq Chars
      BY <3>1, <3>2 DEF Chars
    <3>4. new.info # NoInfo /\ "2" \notin new.info
      BY <1>10, <3>1, <3>2, <3>3, NoValueAssumption
    <3>5. new.info \cap FileFlags = flags \cap FileFlags
      BY <3>1, <3>2
    <3>6. doc'.values.flag \cap FileFlags = new.info \cap FileFlags
      BY <1>7, <1>10, <2>3, <3>4, ReadBack
    <3> QED
      BY <1>4, <2>1, <2>2, <2>3, <3>1, <3>5, <3>6
  <2>4. CASE new.dir # "cur"
    BY <1>4, <2>1, <2>2, <2>4
  <2> QED
    BY <2>3, <2>4
<1> HIDE DEF from, new, old, wanted
<1>11. AnswerSays
  <2>1. new \in DOMAIN files'
    BY <1>4
  <2>2. from.mdir = msg.doc.values.maildir => RealMdir[doc'.values.maildir] = new.mdir
    BY <1>4, <1>7, <1>8
  <2> QED
    BY <1>7, <1>10, <2>1, <2>2 DEF AnswerSays, from, old, wanted
<1> QED
  BY <1>6, <1>9, <1>11

-----------------------------------------------------------------------------
(* The invariant holds.                                                    *)

LEMMA InitOK == Init => IInv
<1> SUFFICES ASSUME Init PROVE IInv
  OBVIOUS
<1>1. PICK p \in Paths, mail \in Mails :
        /\ Real(p) = p
        /\ files = [q \in {p} |-> [mail |-> mail, stamp |-> MaxChanges]]
  BY DEF Init
<1>2. p \in RealPaths
  BY <1>1, PathsAssumption, RealIs
<1>3. DOMAIN files = {p} /\ files[p] \in [mail : Mails, stamp : 0..MaxChanges]
  BY <1>1, ChangesAssumption
<1>4. FilesOK(files)
  BY <1>2, <1>3 DEF FilesOK
<1> QED
  BY <1>4, ChangesAssumption DEF Init, IInv

LEMMA WriteKeeps ==
  ASSUME IInv, NEW p \in Paths, NEW mail \in Mails, Write(p, mail)
  PROVE  IInv'
<1> DEFINE D == DOMAIN files
           new == [q \in D \cup {p} |->
                     IF q = p THEN [mail |-> mail, stamp |-> changes] ELSE files[q]]
<1>1. /\ p = Real(p) /\ files' = new /\ changes < MaxChanges /\ changes' = changes + 1
      /\ UNCHANGED <<doc, msg, move, told>>
  BY DEF Write, Other
<1>2. p \in RealPaths
  BY <1>1, PathsAssumption, RealIs
<1>3. /\ D \subseteq RealPaths
      /\ \A q \in D : files[q] \in [mail : Mails, stamp : 0..MaxChanges]
      /\ changes \in 0..MaxChanges
  BY DEF IInv, FilesOK
<1>4. changes' \in 0..MaxChanges
  BY <1>1, <1>3, ChangesAssumption
<1>5. \A q \in D \cup {p} : new[q] \in [mail : Mails, stamp : 0..MaxChanges]
  BY <1>3
<1> HIDE DEF D
<1>6. DOMAIN new = D \cup {p}
  OBVIOUS
<1> HIDE DEF new
<1>7. FilesOK(files')
  BY <1>1, <1>2, <1>3, <1>5, <1>6 DEF FilesOK
<1> QED
  BY <1>1, <1>4, <1>7 DEF IInv, FilesOK

LEMMA DeleteKeeps ==
  ASSUME IInv, NEW p, Delete(p)
  PROVE  IInv'
<1> DEFINE D == DOMAIN files
           new == [q \in D \ {p} |-> files[q]]
<1>1. /\ files' = new /\ changes < MaxChanges /\ changes' = changes + 1
      /\ UNCHANGED <<doc, msg, move, told>>
  BY DEF Delete, Other
<1>2. /\ D \subseteq RealPaths
      /\ \A q \in D : files[q] \in [mail : Mails, stamp : 0..MaxChanges]
      /\ changes \in 0..MaxChanges
  BY DEF IInv, FilesOK
<1>3. changes' \in 0..MaxChanges
  BY <1>1, <1>2, ChangesAssumption
<1>4. DOMAIN new = D \ {p} /\ \A q \in D \ {p} : new[q] = files[q]
  OBVIOUS
<1> HIDE DEF D, new
<1>5. FilesOK(files')
  BY <1>1, <1>2, <1>4 DEF FilesOK
<1> QED
  BY <1>1, <1>3, <1>5 DEF IInv, FilesOK

LEMMA IndexKeeps ==
  ASSUME IInv, NEW p \in Paths, NEW mdir \in DOMAIN RealMdir \cup {SameMaildir}, Index(p, mdir)
  PROVE  IInv'
<1> DEFINE file == FileNew(p, mdir)
<1>1. p \in AllPaths /\ p.mdir \in DOMAIN RealMdir
  BY PathsAssumption DEF AllPaths, Names
<1>2. IsFile(file) /\ file.path = Real(p) /\ file.mdir = mdir
  BY <1>1, FileNewIs DEF Index, IInv
<1>3. doc' \in NewDocs(file) /\ UNCHANGED <<files, changes, msg, move, told>>
  BY DEF Index
<1>4. mdir = SameMaildir \/ (mdir = p.mdir /\ RealMdir[mdir] = Real(p).mdir)
  BY <1>1, RealIs DEF Index
<1> HIDE DEF file
<1>5. IsDoc(doc')
  BY <1>2, <1>3, NewDocIs
<1>6. Knows(doc')
  <2>1. /\ doc'.values.path = Real(p)
        /\ doc'.values.maildir = IF mdir = SameMaildir THEN Null ELSE mdir
    BY <1>2, <1>3, DocIs DEF IsFile
  <2>2. Suffix(p.mdir, p.mdir)
    <3>1. p.mdir \in Seq(UNION {ToSet(d) : d \in DOMAIN RealMdir})
      BY <1>1, PathsAssumption DEF Maildirs
    <3> QED
      BY <3>1, SubSeqFull DEF Suffix
  <2> QED
    BY <1>1, <1>4, <2>1, <2>2 DEF Knows
<1> QED
  BY <1>3, <1>5, <1>6 DEF IInv, FilesOK

LEMMA NewFromDocKeeps ==
  ASSUME IInv, NewFromDoc
  PROVE  IInv'
<1>1. /\ doc # Null /\ msg' = [doc |-> doc, file |-> Null]
      /\ UNCHANGED <<files, changes, doc, move, told>>
  BY DEF NewFromDoc
<1>2. IsDoc(doc)
  BY <1>1 DEF IInv
<1>3. msg'.doc = doc /\ msg'.file = Null /\ msg' = [doc |-> msg'.doc, file |-> msg'.file]
  BY <1>1
<1>4. IsMsg(msg')
  BY <1>1, <1>2, <1>3 DEF IsMsg
<1>5. move = Null
  BY DEF NewFromDoc, IInv, IsMove
<1> QED
  BY <1>1, <1>4, <1>5 DEF IInv, FilesOK

LEMMA NewFromFileKeeps ==
  ASSUME IInv, NEW p \in Paths, NewFromFile(p)
  PROVE  IInv'
<1> DEFINE file == FileNew(p, SameMaildir)
<1>1. /\ Exists(p) /\ msg' = [doc |-> Null, file |-> file]
      /\ UNCHANGED <<files, changes, doc, move, told>>
  BY DEF NewFromFile
<1>2. IsFile(file) /\ file # Null
  BY <1>1, PathsAssumption, FileNewIs DEF IInv
<1> HIDE DEF file
<1>3. msg'.doc = Null /\ msg'.file = file /\ msg' = [doc |-> msg'.doc, file |-> msg'.file]
  BY <1>1
<1>4. IsMsg(msg')
  BY <1>2, <1>3 DEF IsMsg
<1>5. move = Null
  BY DEF NewFromFile, IInv, IsMove
<1> QED
  BY <1>1, <1>4, <1>5 DEF IInv, FilesOK

LEMMA UnloadKeeps ==
  ASSUME IInv, move = Null, Unload
  PROVE  IInv'
<1>1. /\ msg # Null /\ msg.doc # Null /\ msg' = [msg EXCEPT !.file = Null]
      /\ UNCHANGED <<files, changes, doc, move, told>>
  BY DEF Unload
<1>2. IsDoc(msg.doc) /\ msg = [doc |-> msg.doc, file |-> msg.file]
  BY <1>1 DEF IInv, IsMsg
<1>3. msg' = [doc |-> msg.doc, file |-> Null]
  BY <1>1, <1>2
<1>4. msg'.doc = msg.doc /\ msg'.file = Null /\ msg' = [doc |-> msg'.doc, file |-> msg'.file]
  BY <1>3
<1>5. IsMsg(msg')
  BY <1>1, <1>2, <1>4 DEF IsMsg
<1> QED
  BY <1>1, <1>5 DEF IInv, FilesOK

\* A message that is asked for something may have loaded its file.
LEMMA AskedKeeps ==
  ASSUME IInv, msg # Null, move = Null,
         msg' \in {msg, Loaded(msg), Loaded(Loaded(msg))},
         UNCHANGED <<files, changes, doc, move>>
  PROVE  IInv'
<1>1. FilesOK(files) /\ IsMsg(msg)
  BY DEF IInv
<1>2. IsMsg(Loaded(msg))
  BY <1>1, LoadedIs
<1>3. IsMsg(Loaded(Loaded(msg)))
  BY <1>1, <1>2, LoadedIs
<1>4. IsMsg(msg')
  BY <1>1, <1>2, <1>3
<1> QED
  BY <1>4 DEF IInv, FilesOK

LEMMA FailsKeeps ==
  ASSUME IInv, MoveFails, changes' \in 0..MaxChanges
  PROVE  IInv'
BY DEF MoveFails, IInv, FilesOK

\* A move that begins: it is about the message as it is.
LEMMA MoveKeeps ==
  ASSUME IInv, move = Null, NEW mdir \in DOMAIN RealMdir, NEW asked, MoveToMaildir(mdir, asked)
  PROVE  IInv'
<1> DEFINE from    == msg.doc.values.path
           maildir == msg.doc.values.maildir
<1>1. /\ msg # Null /\ msg.doc # Null /\ changes < MaxChanges /\ changes' = changes + 1
  BY DEF MoveToMaildir
<1>2. changes' \in 0..MaxChanges
  BY <1>1, ChangesAssumption DEF IInv
<1>3. ASSUME NEW flags \in AskedFlags(asked, from, msg.doc.values.flag),
             maildir # Null, Suffix(maildir, from.mdir),
             NEW to, to = GetNewPath(from, GetTargetMdir(from, maildir, mdir), flags),
             NEW step \in {"open", "check"},
             MoveGoesOn([step |-> step, from |-> from, to |-> to, mdir |-> mdir,
                         asked |-> asked, seen |-> {}])
      PROVE  IInv'
  <2> DEFINE v == [step |-> step, from |-> from, to |-> to, mdir |-> mdir,
                   asked |-> asked, seen |-> {}]
  <2>1. move' = v /\ UNCHANGED <<files, doc, msg, told>>
    BY <1>3 DEF MoveGoesOn
  <2>2. maildir \in DOMAIN RealMdir
    BY <1>1, <1>3, IsDocIs DEF IInv, IsMsg
  <2>3. /\ v.step = step /\ v.from = from /\ v.to = to /\ v.mdir = mdir
        /\ v.asked = asked /\ v.seen = {}
    OBVIOUS
  <2> HIDE DEF v
  <2>4. Meant(v, msg)
    BY <1>3, <2>2, <2>3 DEF Meant
  <2>5. v = [step |-> v.step, from |-> v.from, to |-> v.to, mdir |-> v.mdir,
             asked |-> v.asked, seen |-> v.seen]
    BY DEF v
  <2>6. IsMove(v, msg)
    BY <1>1, <2>3, <2>4, <2>5 DEF IsMove
  <2> QED
    BY <1>2, <2>1, <2>6 DEF IInv, FilesOK
<1>4. PICK flags \in AskedFlags(asked, from, msg.doc.values.flag) :
        IF flags = Invalid \/ maildir = Null \/ ~Suffix(maildir, from.mdir)
          THEN MoveFails
        ELSE \E to \in {GetNewPath(from, GetTargetMdir(from, maildir, mdir), flags)} :
               MoveGoesOn([step |-> IF from = to THEN "open" ELSE "check", from |-> from,
                           to |-> to, mdir |-> mdir, asked |-> asked, seen |-> {}])
  BY DEF MoveToMaildir
<1> QED
  BY <1>2, <1>3, <1>4, FailsKeeps

\* The record of a move with its next step and what was seen.
LEMMA StepIs ==
  ASSUME NEW r, NEW step, NEW seen,
         r = [step |-> r.step, from |-> r.from, to |-> r.to, mdir |-> r.mdir,
              asked |-> r.asked, seen |-> r.seen]
  PROVE  [r EXCEPT !.step = step, !.seen = seen] =
         [step |-> step, from |-> r.from, to |-> r.to, mdir |-> r.mdir,
          asked |-> r.asked, seen |-> seen]
<1> DEFINE q == [r EXCEPT !.step = step]
<1>1. q = [step |-> step, from |-> r.from, to |-> r.to, mdir |-> r.mdir,
           asked |-> r.asked, seen |-> r.seen]
  OBVIOUS
<1>2. [r EXCEPT !.step = step, !.seen = seen] = [q EXCEPT !.seen = seen]
  BY Zenon
<1> HIDE DEF q
<1> QED
  BY <1>1, <1>2

\* A move that goes on is still about the same message.
LEMMA GoesOnKeeps ==
  ASSUME IInv, move # Null, NEW step \in {"rename", "verify", "open"}, NEW seen,
         step = "rename" => /\ move.from \in seen
                            /\ move.to.mdir \in DOMAIN RealMdir => Real(move.to) \notin seen,
         move' = [move EXCEPT !.step = step, !.seen = seen],
         UNCHANGED <<changes, doc, msg>>, FilesOK(files)'
  PROVE  IInv'
<1>1. IsMove(move, msg)
  BY DEF IInv
<1> DEFINE v == [move EXCEPT !.step = step, !.seen = seen]
<1>2. v = [step |-> step, from |-> move.from, to |-> move.to, mdir |-> move.mdir,
           asked |-> move.asked, seen |-> seen]
  BY <1>1, StepIs DEF IsMove
<1>3. /\ v.step = step /\ v.from = move.from /\ v.to = move.to /\ v.mdir = move.mdir
      /\ v.asked = move.asked /\ v.seen = seen
  BY <1>2
<1>4. v = [step |-> v.step, from |-> v.from, to |-> v.to, mdir |-> v.mdir,
           asked |-> v.asked, seen |-> v.seen]
  BY <1>2, <1>3
<1>5. move' = v
  OBVIOUS
<1> HIDE DEF v
<1>6. Meant(v, msg)
  BY <1>1, <1>3 DEF IsMove, Meant
<1>7. IsMove(v, msg)
  BY <1>1, <1>3, <1>4, <1>6 DEF IsMove
<1> QED
  BY <1>5, <1>7 DEF IInv, FilesOK

\* Where a move that goes on leaves the list of what was seen.
LEMMA OnlyStep ==
  ASSUME IInv, move # Null, NEW step
  PROVE  [move EXCEPT !.step = step] = [move EXCEPT !.step = step, !.seen = move.seen]
BY DEF IInv, IsMove

LEMMA CheckPreKeeps ==
  ASSUME IInv, MsgMoveCheckPre
  PROVE  IInv'
<1>1. move # Null /\ changes' = changes /\ changes \in 0..MaxChanges
  BY DEF MsgMoveCheckPre, IInv
<1>2. CASE MoveFails
  BY <1>1, <1>2, FailsKeeps
<1>3. CASE /\ move.from \in DOMAIN files /\ ~Exists(move.to)
           /\ MoveGoesOn([move EXCEPT !.step = "rename", !.seen = DOMAIN files])
  <2>1. move.to.mdir \in DOMAIN RealMdir => Real(move.to) \notin DOMAIN files
    BY <1>3 DEF Exists
  <2>2. FilesOK(files)'
    BY <1>3 DEF MoveGoesOn, IInv, FilesOK
  <2> QED
    BY <1>1, <1>3, <2>1, <2>2, GoesOnKeeps DEF MoveGoesOn
<1> QED
  BY <1>2, <1>3 DEF MsgMoveCheckPre

LEMMA RenameKeepsIt ==
  ASSUME IInv, MsgMove
  PROVE  IInv'
<1>1. move # Null /\ changes' = changes /\ changes \in 0..MaxChanges
  BY DEF MsgMove, IInv
<1>2. CASE MoveFails
  BY <1>1, <1>2, FailsKeeps
<1>3. CASE /\ move.from \in DOMAIN files /\ move.to.mdir \in DOMAIN RealMdir
           /\ files' = Renamed(move.from, move.to)
           /\ move' = [move EXCEPT !.step = "verify"] /\ UNCHANGED <<doc, msg, told>>
  <2>1. FilesOK(files)'
    BY <1>1, <1>3, RenameIs DEF MsgMove
  <2>2. move' = [move EXCEPT !.step = "verify", !.seen = move.seen]
    BY <1>1, <1>3, OnlyStep
  <2> QED
    BY <1>1, <1>3, <2>1, <2>2, GoesOnKeeps
<1> QED
  BY <1>2, <1>3 DEF MsgMove

LEMMA CheckPostKeeps ==
  ASSUME IInv, MsgMoveCheckPost
  PROVE  IInv'
<1>1. move # Null /\ changes' = changes /\ changes \in 0..MaxChanges
  BY DEF MsgMoveCheckPost, IInv
<1>2. CASE MoveFails
  BY <1>1, <1>2, FailsKeeps
<1>3. CASE MoveGoesOn([move EXCEPT !.step = "open"])
  <2>1. move' = [move EXCEPT !.step = "open", !.seen = move.seen]
    BY <1>1, <1>3, OnlyStep DEF MoveGoesOn
  <2>2. FilesOK(files)'
    BY <1>3 DEF MoveGoesOn, IInv, FilesOK
  <2> QED
    BY <1>1, <1>3, <2>1, <2>2, GoesOnKeeps DEF MoveGoesOn
<1> QED
  BY <1>2, <1>3 DEF MsgMoveCheckPost

LEMMA OpenKeeps ==
  ASSUME IInv, MoveOpens
  PROVE  IInv'
<1>1. move # Null /\ changes' = changes /\ changes \in 0..MaxChanges
  BY DEF MoveOpens, IInv
<1>2. CASE MoveFails
  BY <1>1, <1>2, FailsKeeps
<1>3. CASE /\ Exists(move.to) /\ msg' = [doc |-> Null, file |-> NewBackend] /\ move' = Null
           /\ (doc' \in NewDocs(NewBackend) \/ doc' = doc)
           /\ UNCHANGED files
  <2>1. IsMsg(msg) /\ msg.doc # Null /\ Meant(move, msg) /\ FilesOK(files)
    BY <1>1 DEF IInv, IsMove
  <2>2. move.from \in AllPaths
    BY <2>1, IsDocIs DEF IsMsg, Meant
  <2>3. move.to \in AllPaths
    BY <1>3, <2>1, <2>2, MoveIs DEF Exists
  <2>4. IsFile(NewBackend) /\ NewBackend # Null
    BY <1>3, <2>1, <2>3, FileNewIs DEF NewBackend, Meant
  <2>5. msg'.doc = Null /\ msg'.file = NewBackend /\ msg' = [doc |-> msg'.doc, file |-> msg'.file]
    BY <1>3
  <2>6. IsMsg(msg')
    BY <2>4, <2>5 DEF IsMsg
  <2>7. doc' # Null => IsDoc(doc') /\ Knows(doc')
    BY <1>1, <1>3, OpenIs DEF IInv
  <2> QED
    BY <1>1, <1>3, <2>6, <2>7 DEF IInv, FilesOK
<1> QED
  BY <1>2, <1>3 DEF MoveOpens

LEMMA StepKeeps == IInv /\ [Next]_vars => IInv'
<1> SUFFICES ASSUME IInv, [Next]_vars PROVE IInv'
  OBVIOUS
<1>1. CASE Others
  <2>1. ASSUME NEW p \in Paths, NEW mail \in Mails, Write(p, mail) PROVE IInv'
    BY <2>1, WriteKeeps
  <2>2. ASSUME NEW p \in Paths, Delete(p) PROVE IInv'
    BY <2>2, DeleteKeeps
  <2> QED
    BY <1>1, <2>1, <2>2 DEF Others
<1>2. CASE move = Null /\ Asks
  <2>1. ASSUME NEW p \in Paths, NewFromFile(p) PROVE IInv'
    BY <2>1, NewFromFileKeeps
  <2>2. ASSUME NEW p \in Paths, NEW mdir \in DOMAIN RealMdir \cup {SameMaildir}, Index(p, mdir)
        PROVE IInv'
    BY <2>2, IndexKeeps
  <2>3. CASE NewFromDoc
    BY <2>3, NewFromDocKeeps
  <2>4. CASE Unref
    BY <1>2, <2>4 DEF Unref, IInv, FilesOK
  <2>5. CASE Unload
    BY <1>2, <2>5, UnloadKeeps
  <2>6. ASSUME NEW f \in Retrieved, GetField(f) PROVE IInv'
    BY <1>2, <2>6, GetIs, AskedKeeps DEF GetField
  <2>7. CASE GetTimestamp
    BY <1>2, <2>7 DEF GetTimestamp, IInv, FilesOK
  <2>8. CASE SexpHeaders
    BY <1>2, <2>8, AfterAllIs, AskedKeeps DEF SexpHeaders
  <2>9. CASE Sexp({"decrypt", "verify"})
    BY <1>2, <2>9, AfterAllIs, AskedKeeps DEF Sexp
  <2>10. ASSUME NEW mdir \in DOMAIN RealMdir, NEW asked \in Asked, MoveToMaildir(mdir, asked)
         PROVE IInv'
    BY <1>2, <2>10, MoveKeeps
  <2> QED
    BY <1>2, <2>1, <2>2, <2>3, <2>4, <2>5, <2>6, <2>7, <2>8, <2>9, <2>10 DEF Asks
<1>3. CASE Moves
  BY <1>3, CheckPreKeeps, RenameKeepsIt, CheckPostKeeps, OpenKeeps DEF Moves
<1>4. CASE Seen \/ UNCHANGED vars
  BY <1>4 DEF Seen, vars, IInv, FilesOK
<1> QED
  BY <1>1, <1>2, <1>3, <1>4 DEF Next

LEMMA AlwaysOK == Spec => []IInv
BY InitOK, StepKeeps, PTL DEF Spec

\* A message that is in use has a document or a file, every path of a file is
\* the real one, and the maildir that the document of the message says is the
\* end of a name of the directory that its file is in (get_target_mdir,
\* mu_msg_move_to_maildir): whatever is moved, and however often.
THEOREM DocumentsKnowWhereTheyAre == Spec => []WellFormed
<1>1. ASSUME IInv PROVE WellFormed
  <2>1. \A p \in DOMAIN files : RealMdir[p.mdir] = p.mdir /\ files[p].mail \in Mails
    <3> SUFFICES ASSUME NEW p \in DOMAIN files
                 PROVE  RealMdir[p.mdir] = p.mdir /\ files[p].mail \in Mails
      OBVIOUS
    <3>1. p \in RealPaths /\ files[p] \in [mail : Mails, stamp : 0..MaxChanges]
      BY <1>1 DEF IInv, FilesOK
    <3> QED
      BY <3>1 DEF RealPaths
  <2>2. changes \in 0..MaxChanges
    BY <1>1 DEF IInv
  <2>3. doc # Null => doc.values.path # Null /\ doc.of \in Mails
    BY <1>1, IsDocIs DEF IInv
  <2>4. msg # Null => msg.doc # Null \/ msg.file # Null
    BY <1>1 DEF IInv, IsMsg
  <2>5. move # Null => /\ msg # Null /\ msg.doc # Null
                       /\ move.step \in {"check", "rename", "verify", "open"}
                       /\ move.from \in AllPaths /\ move.mdir \in DOMAIN RealMdir
    BY <1>1, IsDocIs DEF IInv, IsMove, Meant, IsMsg
  <2>6. DocKnowsItsMaildir
    BY <1>1 DEF IInv, Knows, DocKnowsItsMaildir
  <2> QED
    BY <2>1, <2>2, <2>3, <2>4, <2>5, <2>6 DEF WellFormed, TypeOK
<1> QED
  BY <1>1, AlwaysOK, PTL

\* However other programs write and delete files between the steps of a move
\* (mu_msg_move_to_maildir, mu_store_update_msg): the rename keeps all files
\* that were there when mu looked, and an answer without an error says the
\* truth about the new name, its flags and its maildir.
THEOREM MovesLoseNothing == Spec => MoveKeepsAll
<1> DEFINE Kept == /\ move # Null /\ move' # move /\ files' # files => RenameKeeps
                   /\ move # Null /\ told = Null /\ told' # Null /\ told'.value = "ok" => AnswerSays
<1>1. ASSUME IInv, Next PROVE Kept
  <2>1. CASE move = Null
    BY <2>1
  <2>2. CASE MoveFails
    BY <2>2 DEF MoveFails, Answer
  <2>3. CASE move # Null /\ ~MoveFails /\ Moves
    <3>1. CASE MsgMoveCheckPre
      BY <2>3, <3>1 DEF MsgMoveCheckPre, MoveGoesOn
    <3>2. CASE MsgMove
      <4>1. /\ move.step = "rename" /\ move.from \in DOMAIN files
            /\ move.to.mdir \in DOMAIN RealMdir /\ files' = Renamed(move.from, move.to)
            /\ told' = told
        BY <2>3, <3>2 DEF MsgMove
      <4>2. RenameKeeps
        BY <1>1, <2>3, <4>1, RenameIs
      <4> QED
        BY <4>1, <4>2
    <3>3. CASE MsgMoveCheckPost
      BY <2>3, <3>3 DEF MsgMoveCheckPost, MoveGoesOn
    <3>4. CASE MoveOpens
      <4>1. /\ Exists(move.to) /\ files' = files /\ move.step = "open"
            /\ \/ doc' \in NewDocs(NewBackend)
               \/ Answer("move", "error")
        BY <2>3, <3>4 DEF MoveOpens
      <4>2. CASE doc' \in NewDocs(NewBackend)
        BY <1>1, <2>3, <4>1, <4>2, OpenIs
      <4>3. CASE Answer("move", "error")
        BY <4>1, <4>3 DEF Answer
      <4> QED
        BY <4>1, <4>2, <4>3
    <3> QED
      BY <2>3, <3>1, <3>2, <3>3, <3>4 DEF Moves
  <2>4. CASE Seen \/ Others
    BY <2>4 DEF Seen, Others, Write, Delete, Other
  <2> HIDE DEF Kept
  <2> QED
    BY <1>1, <2>1, <2>2, <2>3, <2>4 DEF Next
<1>2. IInv /\ [Next]_vars => [Kept]_vars
  <2> HIDE DEF Kept
  <2> QED
    BY <1>1
<1>3. Spec => [][Kept]_vars
  <2> HIDE DEF Kept
  <2> QED
    BY <1>2, AlwaysOK, PTL DEF Spec
<1> QED
  BY <1>3 DEF MoveKeepsAll

-----------------------------------------------------------------------------
(* What a document says of its message.                                    *)

\* A text of a message is among the terms of its document.
LEMMA TextIsATerm ==
  ASSUME NEW d, IsDoc(d), "encrypted" \notin GetContentFlags(d.of), NEW c \in Texts(d.of)
  PROVE  <<"body", c>> \in d.terms \/ <<"embed", c>> \in d.terms
<1>1. PICK file \in FilesRead : MadeOf(d, file)
  BY DEF IsDoc
<1>2. PICK flags : d.of = file.mail /\ d.terms = Terms(file, flags)
  BY <1>1, DocIs DEF MadeOf
<1> DEFINE mail == file.mail
<1>3. NotTooDeep(mail)
  BY MailsAssumption DEF FilesRead
<1>4. BodyTerms(mail) \subseteq d.terms /\ EmbeddedTerms(mail) \subseteq d.terms
  <2>1. EmbeddedTerms(mail) \subseteq AttachTerms(mail)
    BY DEF AttachTerms
  <2> QED
    BY <1>2, <2>1 DEF Terms
<1>5. c \in Texts(mail) /\ "encrypted" \notin GetContentFlags(mail)
  BY <1>2
<1> HIDE DEF mail
<1>6. CASE c \in ToSet(GetBody(mail, {}, "text/plain"))
  <2>1. GetBody(mail, {}, "text/plain") # <<>>
    BY <1>6 DEF ToSet
  <2>2. <<"body", c>> \in BodyTerms(mail)
    BY <1>5, <1>6, <2>1 DEF BodyTerms
  <2> QED
    BY <1>4, <2>2
<1>7. ASSUME NEW p \in ToSet(PartForeach(mail, {"recurse"})),
             p.object.kind = "message" \/ p.object.disp = "attachment",
             c \in ToSet(GetText(p, {}))
      PROVE  <<"embed", c>> \in d.terms
  <2>1. <<"embed", c>> \in EmbeddedTerms(mail)
    BY <1>7 DEF EmbeddedTerms, PartsToIndex
  <2> QED
    BY <1>4, <2>1
<1> QED
  BY <1>3, <1>5, <1>6, <1>7, TextIsFound

\* "only deal with attachments/messages; inlines are indexed as body parts"
\* (mu-store-write.cc): whatever is in a message that is not encrypted, and
\* however deep, a search for words of a plain text in it finds the message.
THEOREM NoTextIsMissed == Spec => []TextIsSearchable
<1>1. IInv => TextIsSearchable
  BY TextIsATerm DEF IInv, TextIsSearchable
<1> QED
  BY <1>1, AlwaysOK, PTL

-----------------------------------------------------------------------------
(* The fields of a message.                                                *)

LEMMA SinglesAre ==
  ASSUME NEW S, NEW s \in Seq(S), NEW ss \in Seq(Seq(S)), Len(ss) = Len(s),
         \A i \in 1..Len(s) : ss[i] = <<s[i]>>
  PROVE  FlattenSeq(ss) = s
BY Given, CryptoAssumption, DepthAssumption, NullAssumption, ObjectsAssumption,
   SameSequences, Parts!SinglesAre

LEMMA ListIs ==
  ASSUME NEW T, NEW n \in Nat, NEW s, s = [i \in 1..n |-> s[i]], \A i \in 1..n : s[i] \in T
  PROVE  s \in Seq(T) /\ Len(s) = n
OBVIOUS

LEMMA ReferencesAre ==
  ASSUME NEW mail \in Mails
  PROVE  GetReferences(mail) \in Seq(DOMAIN AtCommas)
<1> DEFINE S == DOMAIN AtCommas
           s == mail.refs \o mail.inreplyto
           ss == [i \in DOMAIN s |->
                    IF \E k \in 1..(i - 1) : s[k] = s[i] THEN <<>> ELSE <<s[i]>>]
<1>1. s \in Seq(S)
  BY MailsAssumption
<1> HIDE DEF S, s
<1>2. \A i \in 1..Len(s) : ss[i] \in Seq(S)
  BY <1>1
<1>3. Len(s) \in Nat /\ ss = [i \in 1..Len(s) |-> ss[i]]
  BY <1>1
<1> HIDE DEF ss
<1>4. ss \in Seq(Seq(S))
  BY <1>2, <1>3, ListIs
<1>5. FlattenSeq(ss) \in Seq(S)
  BY <1>4, FlattenIs
<1>6. GetReferences(mail) = FlattenSeq(ss)
  BY DEF GetReferences, WithoutDuplicates, ss, s
<1> QED
  BY <1>5, <1>6 DEF S

\* Without commas a list is what it was, when it is split again.
LEMMA JoinedIs ==
  ASSUME NEW mail \in Mails, ~HasComma(mail)
  PROVE  Joined(GetReferences(mail)) = GetReferences(mail)
<1> DEFINE S == DOMAIN AtCommas
           ids == GetReferences(mail)
           ss == [i \in DOMAIN ids |-> AtCommas[ids[i]]]
<1>1. ids \in Seq(S)
  BY ReferencesAre
<1>2. \A i \in DOMAIN ids : Len(AtCommas[ids[i]]) = 1
  BY DEF HasComma
<1> HIDE DEF ids
<1>3. \A i \in 1..Len(ids) : AtCommas[ids[i]] = <<ids[i]>> /\ ids[i] \in S
  BY <1>1, <1>2, CommasAssumption
<1> HIDE DEF S
<1>4. \A i \in 1..Len(ids) : ss[i] \in Seq(S) /\ ss[i] = <<ids[i]>>
  <2> SUFFICES ASSUME NEW i \in 1..Len(ids) PROVE ss[i] \in Seq(S) /\ ss[i] = <<ids[i]>>
    OBVIOUS
  <2>1. ss[i] = AtCommas[ids[i]]
    BY <1>1
  <2>2. ids[i] \in S
    BY <1>3
  <2>3. ss[i] = <<ids[i]>>
    BY <1>3, <2>1
  <2> HIDE DEF ss
  <2> QED
    BY <2>2, <2>3
<1>5. Len(ids) \in Nat /\ ss = [i \in 1..Len(ids) |-> ss[i]]
  BY <1>1
<1> HIDE DEF ss
<1>6. ss \in Seq(Seq(S)) /\ Len(ss) = Len(ids)
  BY <1>4, <1>5, ListIs
<1>7. FlattenSeq(ss) = ids
  BY <1>1, <1>4, <1>6, SinglesAre
<1> QED
  BY <1>7 DEF Joined, ss, ids

LEMMA FlagsAre ==
  ASSUME NEW p, NEW mail, NEW flags \in GetFlags(p, mail)
  PROVE  flags # Null
<1>1. PICK some \in FlagsFromPath(p) :
        LET all == some \cup {[signed |-> "z", encrypted |-> "x", attach |-> "a"][f] :
                                f \in GetContentFlags(mail)}
        IN flags = IF "N" \in all \/ "S" \notin all THEN all \cup {"u"} ELSE all
  BY DEF GetFlags
<1>2. some \subseteq AllFlags
  BY DEF FlagsFromPath, FlagsFromInfo, FromStr, AllFlags, DirFlags
<1>3. GetContentFlags(mail) \subseteq {"signed", "encrypted", "attach"}
  BY DEF GetContentFlags
<1>4. {[signed |-> "z", encrypted |-> "x", attach |-> "a"][f] : f \in GetContentFlags(mail)}
        \subseteq AllFlags
  BY <1>3 DEF AllFlags, ContentFlags
<1>5. flags \subseteq AllFlags
  BY <1>1, <1>2, <1>4 DEF AllFlags, PseudoFlags
<1> QED
  BY <1>5, NoValueAssumption

\* All fields but one depend on the path and the content only.
LEMMA SameField ==
  ASSUME NEW a, NEW b, a.path = b.path, a.mail = b.mail, NEW f, f # "maildir"
  PROVE  FileField(f, a) = FileField(f, b)
BY DEF FileField

\* The values of a document are those of the file that it was made of.
LEMMA ValuesAre ==
  ASSUME NEW file \in FilesRead, NEW flags \in GetFlags(file.path, file.mail),
         NEW f \in ValueFields \ {"maildir", "refs"}
  PROVE  LET v == Values(file, flags)[f]
         IN /\ f \in NumericFields =>
                 (IF v = Null THEN 0 ELSE v) \in FileField(f, file)
            /\ f \notin NumericFields => v \in FileField(f, file)
<1> DEFINE v == Values(file, flags)[f]
           mail == file.mail
<1>1. file.mail \in Mails /\ mail.date \in Nat /\ mail.size \in Nat
  BY MailsAssumption DEF FilesRead
<1>2. CASE f = "flag"
  <2>1. v = flags
    BY <1>2 DEF Values
  <2> QED
    BY <1>2, <2>1, FlagsAre DEF NumericFields, FileField
<1>3. CASE f = "date"
  <2>1. v = IF mail.date = 0 THEN Null ELSE mail.date
    BY <1>3 DEF Values, ValueFields
  <2> QED
    BY <1>1, <1>3, <2>1, NoValueAssumption DEF NumericFields, FileField
<1>4. ASSUME f \notin {"flag", "date"}
      PROVE  v = CHOOSE w \in FileField(f, file) : TRUE
  BY <1>4 DEF Values, ValueFields
<1>5. CASE f \in {"size", "prio"}
  <2>1. CASE f = "size"
    <3>1. v = mail.size /\ FileField(f, file) = {mail.size}
      BY <1>4, <2>1 DEF FileField
    <3> QED
      BY <1>1, <2>1, <3>1, NoValueAssumption DEF NumericFields
  <2>2. CASE f = "prio"
    <3>1. v = GetPrio(mail) /\ FileField(f, file) = {GetPrio(mail)}
      BY <1>4, <2>2 DEF FileField
    <3>2. GetPrio(mail) # Null
      BY NoValueAssumption DEF GetPrio, ParsePrio
    <3> QED
      BY <2>2, <3>1, <3>2 DEF NumericFields
  <2> QED
    BY <1>5, <2>1, <2>2
<1>6. CASE f \in {"bcc", "cc", "to", "from", "subject", "path", "msgid"}
  <2>1. \E x : FileField(f, file) = {x}
    BY <1>6 DEF FileField
  <2>2. v \in FileField(f, file)
    BY <1>4, <1>6, <2>1
  <2> QED
    BY <1>6, <2>2 DEF NumericFields
<1> QED
  BY <1>2, <1>3, <1>5, <1>6 DEF ValueFields

\* The file of a message that is as it was.
LEMMA TrueFileIs ==
  ASSUME FilesOK(files), NEW m, IsMsg(m), TrueFile(m) # Null
  PROVE  LET t == TrueFile(m)
         IN /\ t.mail \in Mails
            /\ m.doc # Null => m.doc.of = t.mail /\ m.doc.values.path = t.path
            /\ m.file # Null => m.file.mail = t.mail
            /\ m.doc = Null => m.file # Null /\ m.file.path = t.path
            /\ m.doc # Null => Loaded(m).file # Null
            /\ Loaded(m).file # Null => Loaded(m).file.mail = t.mail
<1> DEFINE p == IF m.doc # Null THEN m.doc.values.path ELSE m.file.path
           t == FileNew(p, SameMaildir)
<1>1. /\ TrueFile(m) = t /\ p \in DOMAIN files
      /\ m.doc # Null => m.doc.of = files[p].mail
      /\ m.file # Null => m.file.mail = files[p].mail
  BY DEF TrueFile
<1>2. p \in RealPaths /\ p \in AllPaths /\ p # Null
  BY <1>1, NoValueAssumption DEF FilesOK, RealPaths
<1>3. m.doc = Null => m.file # Null
  BY DEF IsMsg
<1>4. Real(p) = p /\ Exists(p)
  <2>1. Real(p) = p /\ p.mdir \in DOMAIN RealMdir
    BY <1>2, RealIs DEF AllPaths, Names
  <2> QED
    BY <1>1, <2>1 DEF Exists
<1>5. t.path = p /\ t.mail = files[p].mail /\ t # Null /\ t.mail \in Mails
  BY <1>2, <1>4, FileNewIs DEF IsFile, FilesRead
<1>6. m.doc # Null => m.doc.values.path = p
  OBVIOUS
<1>7. m.doc = Null => m.file.path = p
  OBVIOUS
<1> HIDE DEF p, t
<1>8. CASE m.file # Null
  BY <1>1, <1>3, <1>5, <1>6, <1>7, <1>8, LoadedIs
<1>9. CASE m.file = Null
  <2>1. Loaded(m) = [m EXCEPT !.file = t]
    BY <1>2, <1>3, <1>4, <1>6, <1>9 DEF Loaded, t
  <2>2. m = [doc |-> m.doc, file |-> m.file]
    BY DEF IsMsg
  <2>3. Loaded(m).file = t
    BY <2>1, <2>2
  <2> QED
    BY <1>1, <1>3, <1>5, <1>6, <1>9, <2>3
<1> QED
  BY <1>8, <1>9

LEMMA FieldIs ==
  ASSUME FilesOK(files), NEW m, IsMsg(m), TrueFile(m) # Null,
         NEW f \in Retrieved \ {"maildir"}, NEW v \in Get(m, f).values
  PROVE  \/ v \in FileField(f, TrueFile(m))
         \/ f = "refs" /\ HasComma(TrueFile(m).mail)
<1> DEFINE t == TrueFile(m)
           l == Loaded(m)
<1>1. /\ t.mail \in Mails
      /\ m.doc # Null => m.doc.of = t.mail /\ m.doc.values.path = t.path
      /\ m.file # Null => m.file.mail = t.mail
      /\ m.doc = Null => m.file # Null /\ m.file.path = t.path
      /\ m.doc # Null => l.file # Null
      /\ l.file # Null => l.file.mail = t.mail
  BY TrueFileIs
<1>2. /\ f \in ListFields => Get(m, f) = GetList(m, f)
      /\ f \in NumericFields => Get(m, f) = GetNum(m, f)
      /\ f \notin ListFields \cup NumericFields => Get(m, f) = GetStr(m, f)
  BY DEF Get, ListFields, NumericFields
<1>3. f \in GmimeFields
  BY DEF Retrieved, ValueFields, ListFields, GmimeFields, Fields, StringFields, NumericFields
<1>4. m.file # Null => l = m
  BY DEF Loaded
<1> HIDE DEF t, l
<1>5. ASSUME l.file # Null, f \in ListFields \/ m.doc = Null, v \in FromFile(m, f, Null).values
      PROVE  v \in FileField(f, t)
  <2>1. v \in FileField(f, l.file)
    BY <1>5 DEF FromFile, l
  <2>2. CASE f \in ListFields
    BY <1>1, <1>5, <2>1, <2>2 DEF ListFields, FileField
  <2>3. CASE m.doc = Null
    BY <1>1, <1>4, <2>1, <2>3, SameField
  <2> QED
    BY <1>5, <2>2, <2>3
<1>6. CASE m.doc = Null
  <2>1. l.file # Null
    BY <1>1, <1>4, <1>6
  <2>2. Get(m, f) = FromFile(m, f, Null)
    BY <1>2, <1>3, <1>6 DEF GetList, GetNum, GetStr, InDoc
  <2> QED
    BY <1>5, <1>6, <2>1, <2>2 DEF t
<1>7. CASE m.doc # Null
  <2>1. IsDoc(m.doc)
    BY <1>7 DEF IsMsg
  <2>2. PICK file \in FilesRead : MadeOf(m.doc, file)
    BY <2>1 DEF IsDoc
  <2>3. PICK flags \in GetFlags(file.path, file.mail) :
          m.doc.values = Values(file, flags)
    BY <2>2, DocIs DEF MadeOf
  <2>4. file.path = t.path /\ file.mail = t.mail
    BY <1>1, <1>7, <2>2, DocIs DEF MadeOf
  <2>5. FileField(f, file) = FileField(f, t)
    BY <2>4, SameField
  <2>6. CASE f \in ValueFields /\ f # "refs"
    <3>1. f \notin ListFields /\ InDoc(m, f)
      BY <1>7, <2>6 DEF ValueFields, ListFields, InDoc
    <3> DEFINE w == Values(file, flags)[f]
    <3>2. /\ f \in NumericFields => (IF w = Null THEN 0 ELSE w) \in FileField(f, file)
          /\ f \notin NumericFields => w \in FileField(f, file)
      BY <2>6, ValuesAre
    <3>3. CASE f \in NumericFields
      <4>1. v = IF m.doc.values[f] = Null THEN 0 ELSE m.doc.values[f]
        BY <1>2, <3>1, <3>3 DEF GetNum
      <4> QED
        BY <2>3, <2>5, <3>2, <3>3, <4>1 DEF t
    <3>4. CASE f \notin NumericFields
      <4>1. v = m.doc.values[f]
        BY <1>2, <3>1, <3>4 DEF GetStr
      <4> QED
        BY <2>3, <2>5, <3>2, <3>4, <4>1 DEF t
    <3> QED
      BY <3>3, <3>4
  <2>7. CASE f = "refs"
    <3>1. m.doc.values[f] = OrNone(Joined(GetReferences(t.mail)))
      BY <2>3, <2>4, <2>7 DEF Values, ValueFields
    <3>2. CASE m.doc.values[f] = Null
      <4>1. v \in FromFile(m, f, Null).values
        BY <1>2, <2>7, <3>2 DEF GetList, ListFields
      <4> QED
        BY <1>1, <1>5, <1>7, <2>7, <4>1 DEF ListFields, t
    <3>3. CASE m.doc.values[f] # Null /\ ~HasComma(t.mail)
      <4>1. Joined(GetReferences(t.mail)) = GetReferences(t.mail)
        BY <1>1, <3>3, JoinedIs
      <4>2. m.doc.values[f] = GetReferences(t.mail)
        BY <3>1, <3>3, <4>1 DEF OrNone
      <4>3. v = m.doc.values[f]
        BY <1>2, <1>7, <2>7, <3>3 DEF GetList, ListFields, ValueFields, InDoc
      <4>4. FileField(f, t) = {GetReferences(t.mail)}
        BY <2>7 DEF FileField
      <4> QED
        BY <4>2, <4>3, <4>4 DEF t
    <3> QED
      BY <2>7, <3>2, <3>3 DEF t
  <2>8. CASE f \notin ValueFields
    <3>1. f \in ListFields /\ ~InDoc(m, f)
      BY <2>8 DEF Retrieved, InDoc
    <3>2. v \in FromFile(m, f, Null).values
      BY <1>2, <3>1 DEF GetList
    <3> QED
      BY <1>1, <1>5, <1>7, <3>1, <3>2 DEF t
  <2> QED
    BY <2>6, <2>7, <2>8
<1> QED
  BY <1>6, <1>7

-----------------------------------------------------------------------------
(* The contacts of a message.                                              *)

LEMMA ToSetIs ==
  ASSUME NEW S, NEW s \in Seq(S)
  PROVE  \A x : x \in ToSet(s) <=> \E i \in 1..Len(s) : x = s[i]
BY Given, CryptoAssumption, DepthAssumption, NullAssumption, ObjectsAssumption,
   SameSequences, Parts!ToSetIs

LEMMA SingleIs ==
  ASSUME NEW S, NEW t \in S
  PROVE  /\ <<t>> \in Seq(S)
         /\ \A x : x \in ToSet(<<t>>) <=> x = t
BY Given, CryptoAssumption, DepthAssumption, NullAssumption, ObjectsAssumption,
   SameSequences, Parts!SingleIs

LEMMA WithAddressIs ==
  ASSUME NEW S, NEW cs \in Seq(S)
  PROVE  \A x : x \in ToSet(WithAddress(cs)) <=> x \in ToSet(cs) /\ x.address # Null
<1> DEFINE n == Len(cs)
           ss == [i \in DOMAIN cs |-> IF cs[i].address # Null THEN <<cs[i]>> ELSE <<>>]
<1>1. n \in Nat /\ \A i \in 1..n : cs[i] \in S
  OBVIOUS
<1>2. \A i \in 1..n : ss[i] = IF cs[i].address # Null THEN <<cs[i]>> ELSE <<>>
  OBVIOUS
<1>3. ss = [i \in 1..n |-> ss[i]]
  OBVIOUS
<1>4. WithAddress(cs) = FlattenSeq(ss)
  BY DEF WithAddress, Those
<1>5. \A x : x \in ToSet(cs) <=> \E i \in 1..n : x = cs[i]
  BY ToSetIs
<1> HIDE DEF ss, n
<1>6. ASSUME NEW i \in 1..n
      PROVE  /\ ss[i] \in Seq(S)
             /\ \A x : x \in ToSet(ss[i]) <=> x = cs[i] /\ x.address # Null
  <2>1. CASE cs[i].address # Null
    <3>1. ss[i] = <<cs[i]>> /\ cs[i] \in S
      BY <1>1, <1>2, <2>1
    <3>2. <<cs[i]>> \in Seq(S) /\ \A x : x \in ToSet(<<cs[i]>>) <=> x = cs[i]
      BY <3>1, SingleIs
    <3> QED
      BY <2>1, <3>1, <3>2, Zenon
  <2>2. CASE cs[i].address = Null
    <3>1. ss[i] = <<>>
      BY <1>2, <2>2
    <3>2. ToSet(<<>>) = {}
      BY DEF ToSet
    <3> QED
      BY <2>2, <3>1, <3>2
  <2> QED
    BY <2>1, <2>2
<1>7. ss \in Seq(Seq(S)) /\ Len(ss) = n
  BY <1>1, <1>3, <1>6, ListIs
<1>8. \A x : x \in ToSet(FlattenSeq(ss)) <=> \E i \in 1..n : x \in ToSet(ss[i])
  BY <1>7, FlattenIs
<1>9. ASSUME NEW x, \E i \in 1..n : x \in ToSet(ss[i])
      PROVE  x \in ToSet(cs) /\ x.address # Null
  <2>1. PICK i \in 1..n : x \in ToSet(ss[i])
    BY <1>9
  <2>2. x = cs[i] /\ x.address # Null
    BY <1>6, <2>1
  <2> QED
    BY <1>5, <2>2
<1>10. ASSUME NEW x \in ToSet(cs), x.address # Null
       PROVE  \E i \in 1..n : x \in ToSet(ss[i])
  <2>1. PICK i \in 1..n : x = cs[i]
    BY <1>5
  <2>2. x \in ToSet(ss[i])
    BY <1>6, <1>10, <2>1
  <2> QED
    BY <2>2
<1>11. \A x : x \in ToSet(FlattenSeq(ss)) <=> x \in ToSet(cs) /\ x.address # Null
  BY <1>8, <1>9, <1>10, Zenon
<1> QED
  BY <1>4, <1>11

\* The kinds of contacts, and the strings and addresses they may have.
ContactsOf(type, cs) ==
  {[type |-> type, name |-> c.name, address |-> c.address] : c \in ToSet(cs)}

LEMMA ContactsAre ==
  ASSUME NEW S, NEW mail, NEW f, mail[f] \in Seq(S)
  PROVE  /\ Contacts(mail, f) \in Seq(ContactsOf(f, mail[f]))
         /\ ToSet(Contacts(mail, f)) = ContactsOf(f, mail[f])
<1> DEFINE cs == mail[f]
           T == ContactsOf(f, cs)
           made == Contacts(mail, f)
<1>1. cs \in Seq(S) /\ Len(cs) \in Nat /\ DOMAIN cs = 1..Len(cs)
  OBVIOUS
<1>2. made = [i \in 1..Len(cs) |-> [type |-> f, name |-> cs[i].name, address |-> cs[i].address]]
  BY <1>1 DEF Contacts
<1>3. \A x : x \in ToSet(cs) <=> \E i \in 1..Len(cs) : x = cs[i]
  BY <1>1, ToSetIs
<1>4. \A x : x \in T <=> \E c \in ToSet(cs) : x = [type |-> f, name |-> c.name, address |-> c.address]
  BY DEF ContactsOf
<1>5. \A i \in 1..Len(cs) : made[i] = [type |-> f, name |-> cs[i].name, address |-> cs[i].address]
  BY <1>2
<1>6. made = [i \in 1..Len(cs) |-> made[i]]
  BY <1>2
<1> HIDE DEF cs, made, T
<1>7. \A i \in 1..Len(cs) : made[i] \in T
  BY <1>3, <1>4, <1>5, Zenon
<1>8. made \in Seq(T) /\ Len(made) = Len(cs)
  BY <1>1, <1>6, <1>7, ListIs
<1>9. \A x : x \in ToSet(made) <=> \E i \in 1..Len(cs) : x = made[i]
  BY <1>8, ToSetIs
<1>10. ASSUME NEW x \in T PROVE x \in ToSet(made)
  <2>1. PICK c \in ToSet(cs) : x = [type |-> f, name |-> c.name, address |-> c.address]
    BY <1>4
  <2>2. PICK i \in 1..Len(cs) : c = cs[i]
    BY <1>3
  <2>3. x = made[i]
    BY <1>5, <2>1, <2>2
  <2> QED
    BY <1>9, <2>3
<1>11. ToSet(made) = T
  BY <1>7, <1>9, <1>10
<1> QED
  BY <1>8, <1>11 DEF cs, made, T

LEMMA AddressedAre ==
  ASSUME NEW S, NEW n \in Nat, NEW ss, ss = [i \in 1..n |-> ss[i]],
         \A i \in 1..n : ss[i] \in Seq(S)
  PROVE  \A x : x \in ToSet(WithAddress(FlattenSeq(ss)))
                <=> x.address # Null /\ \E i \in 1..n : x \in ToSet(ss[i])
<1>1. ss \in Seq(Seq(S)) /\ Len(ss) = n
  BY ListIs
<1>2. /\ FlattenSeq(ss) \in Seq(S)
      /\ \A x : x \in ToSet(FlattenSeq(ss)) <=> \E i \in 1..n : x \in ToSet(ss[i])
  BY <1>1, FlattenIs
<1>3. \A x : x \in ToSet(WithAddress(FlattenSeq(ss)))
             <=> x \in ToSet(FlattenSeq(ss)) /\ x.address # Null
  BY <1>2, WithAddressIs
<1> QED
  BY <1>2, <1>3, Zenon

\* The contacts of a file are those in its fields.
LEMMA FileContactsAre ==
  ASSUME NEW mail \in Mails
  PROVE  \A x : x \in ToSet(FileContacts(mail))
                <=> x.address # Null /\ \E f \in ContactFields : x \in ContactsOf(f, mail[f])
<1> DEFINE F == <<"from", "replyto", "to", "cc", "bcc">>
           S == UNION {ContactsOf(f, mail[f]) : f \in ContactFields}
           ss == [i \in 1..5 |-> Contacts(mail, F[i])]
<1>1. FileContacts(mail) = WithAddress(FlattenSeq(ss))
  BY DEF FileContacts
<1>2. /\ \A i \in 1..5 : F[i] \in ContactFields
      /\ \A f \in ContactFields : \E i \in 1..5 : f = F[i]
  <2>1. F[1] = "from" /\ F[2] = "replyto" /\ F[3] = "to" /\ F[4] = "cc" /\ F[5] = "bcc"
    OBVIOUS
  <2>2. 1..5 = {1, 2, 3, 4, 5}
    OBVIOUS
  <2> HIDE DEF F
  <2> QED
    BY <2>1, <2>2 DEF ContactFields
<1> HIDE DEF F
<1>3. ss = [i \in 1..5 |-> ss[i]] /\ \A i \in 1..5 : ss[i] = Contacts(mail, F[i])
  OBVIOUS
<1> HIDE DEF ss
<1>4. ASSUME NEW i \in 1..5
      PROVE  ss[i] \in Seq(S) /\ ToSet(ss[i]) = ContactsOf(F[i], mail[F[i]])
  <2> DEFINE f == F[i]
  <2>1. f \in ContactFields /\ mail[f] \in Seq(AllContacts)
    BY <1>2, MailsAssumption
  <2> HIDE DEF f
  <2>2. /\ Contacts(mail, f) \in Seq(ContactsOf(f, mail[f]))
        /\ ToSet(Contacts(mail, f)) = ContactsOf(f, mail[f])
    BY <2>1, ContactsAre
  <2>3. ContactsOf(f, mail[f]) \subseteq S
    BY <2>1
  <2> HIDE DEF S
  <2>4. Contacts(mail, f) \in Seq(S)
    BY <2>2, <2>3
  <2> QED
    BY <1>3, <2>2, <2>4 DEF f
<1> HIDE DEF S
<1>5. \A x : x \in ToSet(WithAddress(FlattenSeq(ss)))
             <=> x.address # Null /\ \E i \in 1..5 : x \in ToSet(ss[i])
  BY <1>3, <1>4, AddressedAre
<1>6. \A x : (\E i \in 1..5 : x \in ToSet(ss[i]))
             <=> \E f \in ContactFields : x \in ContactsOf(f, mail[f])
  <2>1. ASSUME NEW x, NEW i \in 1..5, x \in ToSet(ss[i])
        PROVE  \E f \in ContactFields : x \in ContactsOf(f, mail[f])
    BY <1>2, <1>4, <2>1
  <2>2. ASSUME NEW x, NEW f \in ContactFields, x \in ContactsOf(f, mail[f])
        PROVE  \E i \in 1..5 : x \in ToSet(ss[i])
    BY <1>2, <1>4, <2>2
  <2> QED
    BY <2>1, <2>2
<1> QED
  BY <1>1, <1>5, <1>6, Zenon

AsciiName(name) == IF name = Null THEN Null ELSE Asciified[name]

\* What is made of contacts for the database is the same to ASCII.
LEMMA CleanIs ==
  ASSUME NEW cs \in Seq(AllContacts)
  PROVE  LET new == CleanContacts(cs)
         IN /\ new = [i \in 1..Len(cs) |-> new[i]]
            /\ \A i \in 1..Len(cs) : /\ new[i].address = cs[i].address
                                     /\ AsciiName(new[i].name) = AsciiName(cs[i].name)
<1> DEFINE new == CleanContacts(cs)
<1>1. Len(cs) \in Nat /\ DOMAIN cs = 1..Len(cs) /\ cs = [i \in 1..Len(cs) |-> cs[i]]
      /\ \A i \in 1..Len(cs) : cs[i] \in AllContacts
  OBVIOUS
<1>2. CASE \E i \in DOMAIN cs : cs[i].name \in IllFormed
  <2>1. new = [i \in 1..Len(cs) |->
                [cs[i] EXCEPT !.name = IF @ = Null THEN Null ELSE Asciified[@]]]
    BY <1>1, <1>2 DEF CleanContacts
  <2>2. ASSUME NEW i \in 1..Len(cs)
        PROVE  /\ new[i].address = cs[i].address
               /\ AsciiName(new[i].name) = AsciiName(cs[i].name)
    <3> DEFINE c == cs[i]
    <3>1. c \in AllContacts
      BY <1>1
    <3>2. c = [name |-> c.name, address |-> c.address] /\ (c.name # Null => c.name \in DOMAIN Asciified)
      BY <3>1, ContactsAssumption
    <3>3. new[i] = [c EXCEPT !.name = IF @ = Null THEN Null ELSE Asciified[@]]
      BY <2>1
    <3> HIDE DEF c, new
    <3>4. new[i] = [c EXCEPT !.name = AsciiName(c.name)]
      BY <3>3 DEF AsciiName
    <3>5. new[i] = [name |-> AsciiName(c.name), address |-> c.address]
      BY <3>2, <3>4
    <3>6. AsciiName(AsciiName(c.name)) = AsciiName(c.name)
      BY <3>2, AsciiAssumption DEF AsciiName
    <3> QED
      BY <3>5, <3>6 DEF c
  <2>3. new = [i \in 1..Len(cs) |-> new[i]]
    BY <2>1
  <2> HIDE DEF new
  <2> QED
    BY <2>2, <2>3 DEF new
<1>3. CASE ~\E i \in DOMAIN cs : cs[i].name \in IllFormed
  BY <1>1, <1>3 DEF CleanContacts
<1> QED
  BY <1>2, <1>3

\* The contacts that are in a document.
InDocument == {"from", "to", "cc", "bcc"}

\* Those of a document are made of the same fields, but for reply-to.
LEMMA DocContactsAre ==
  ASSUME NEW mail \in Mails, NEW d,
         \A f \in InDocument : d.values[f] = OrNone(CleanContacts(mail[f]))
  PROVE  \A x : x \in ToSet(DocContacts(d))
                <=> x.address # Null /\ \E f \in InDocument : x \in ContactsOf(f, CleanContacts(mail[f]))
<1> DEFINE F == <<"from", "to", "cc", "bcc">>
           new == [f \in InDocument |-> CleanContacts(mail[f])]
           S == UNION {ContactsOf(f, new[f]) : f \in InDocument}
           Of(f) == IF d.values[f] = Null THEN <<>> ELSE Contacts(d.values, f)
           ss == [i \in 1..4 |-> Of(F[i])]
<1>1. DocContacts(d) = WithAddress(FlattenSeq(ss))
  BY DEF DocContacts
<1>2. /\ \A i \in 1..4 : F[i] \in InDocument
      /\ \A f \in InDocument : \E i \in 1..4 : f = F[i]
  <2>1. F[1] = "from" /\ F[2] = "to" /\ F[3] = "cc" /\ F[4] = "bcc"
    OBVIOUS
  <2>2. 1..4 = {1, 2, 3, 4}
    OBVIOUS
  <2> HIDE DEF F
  <2> QED
    BY <2>1, <2>2 DEF InDocument
<1> HIDE DEF F
<1>3. ss = [i \in 1..4 |-> ss[i]] /\ \A i \in 1..4 : ss[i] = Of(F[i])
  OBVIOUS
<1> HIDE DEF ss
<1>4. ASSUME NEW f \in InDocument
      PROVE  Of(f) \in Seq(S) /\ ToSet(Of(f)) = ContactsOf(f, new[f])
  <2>1. f \in ContactFields /\ mail[f] \in Seq(AllContacts)
    BY MailsAssumption DEF InDocument, ContactFields
  <2>2. new[f] # Null /\ d.values[f] = OrNone(new[f]) /\ new[f] = CleanContacts(mail[f])
    BY <2>1, NoValueAssumption
  <2> DEFINE cs == new[f]
             T == {cs[i] : i \in 1..Len(mail[f])}
  <2>3. Len(mail[f]) \in Nat /\ cs = [i \in 1..Len(mail[f]) |-> cs[i]]
    BY <2>1, <2>2, CleanIs
  <2>4. ContactsOf(f, cs) \subseteq S
    OBVIOUS
  <2> HIDE DEF S, new, cs
  <2>5. cs \in Seq(T)
    <3>1. \A i \in 1..Len(mail[f]) : cs[i] \in T
      OBVIOUS
    <3> HIDE DEF T
    <3> QED
      BY <2>3, <3>1, ListIs
  <2> HIDE DEF T
  <2>6. CASE cs = <<>>
    <3>1. d.values[f] = Null
      BY <2>2, <2>6 DEF OrNone, cs
    <3>2. Of(f) = <<>> /\ ToSet(<<>>) = {} /\ <<>> \in Seq(S)
      BY <3>1, EmptySeq DEF ToSet
    <3>3. ContactsOf(f, cs) = {}
      BY <2>6, <3>2 DEF ContactsOf
    <3> QED
      BY <3>2, <3>3 DEF cs
  <2>7. CASE cs # <<>>
    <3>1. d.values[f] = cs /\ cs # Null
      BY <2>2, <2>7 DEF OrNone, cs
    <3>2. Of(f) = Contacts(d.values, f)
      BY <3>1
    <3>3. /\ Contacts(d.values, f) \in Seq(ContactsOf(f, cs))
          /\ ToSet(Contacts(d.values, f)) = ContactsOf(f, cs)
      <4> DEFINE values == d.values
      <4>1. values[f] = cs /\ values[f] \in Seq(T)
        BY <2>5, <3>1
      <4> HIDE DEF values
      <4>2. /\ Contacts(values, f) \in Seq(ContactsOf(f, values[f]))
            /\ ToSet(Contacts(values, f)) = ContactsOf(f, values[f])
        BY <4>1, ContactsAre
      <4> QED
        BY <4>1, <4>2 DEF values
    <3>4. Contacts(d.values, f) \in Seq(S)
      BY <2>4, <3>3
    <3> QED
      BY <3>2, <3>3, <3>4 DEF cs
  <2> QED
    BY <2>6, <2>7
<1> HIDE DEF S, Of
<1>5. \A i \in 1..4 : ss[i] \in Seq(S)
  BY <1>2, <1>3, <1>4
<1>6. \A x : x \in ToSet(WithAddress(FlattenSeq(ss)))
             <=> x.address # Null /\ \E i \in 1..4 : x \in ToSet(ss[i])
  BY <1>3, <1>5, AddressedAre
<1>7. ASSUME NEW x, NEW i \in 1..4, x \in ToSet(ss[i])
      PROVE  \E f \in InDocument : x \in ContactsOf(f, new[f])
  BY <1>2, <1>3, <1>4, <1>7
<1>8. ASSUME NEW x, NEW f \in InDocument, x \in ContactsOf(f, new[f])
      PROVE  \E i \in 1..4 : x \in ToSet(ss[i])
  BY <1>2, <1>3, <1>4, <1>8
<1>9. \A x : (\E i \in 1..4 : x \in ToSet(ss[i]))
             <=> \E f \in InDocument : x \in ContactsOf(f, CleanContacts(mail[f]))
  <2>1. \A f \in InDocument : new[f] = CleanContacts(mail[f])
    OBVIOUS
  <2> HIDE DEF new
  <2> QED
    BY <1>7, <1>8, <2>1
<1> QED
  BY <1>1, <1>6, <1>9, Zenon

\* The contacts of a document and of the file it was made of are the same to
\* ASCII.
LEMMA SameContacts ==
  ASSUME NEW mail \in Mails, NEW d,
         \A f \in InDocument : d.values[f] = OrNone(CleanContacts(mail[f]))
  PROVE  Ascii(DocContacts(d)) = Ascii(FileContacts(mail))
<1> DEFINE new(f) == CleanContacts(mail[f])
           Made(x, f, c) == x = [type |-> f, name |-> AsciiName(c.name), address |-> c.address]
<1>1. ASSUME NEW f \in InDocument
      PROVE  /\ \A c \in ToSet(new(f)) : \E e \in ToSet(mail[f]) :
                   c.address = e.address /\ AsciiName(c.name) = AsciiName(e.name)
             /\ \A e \in ToSet(mail[f]) : \E c \in ToSet(new(f)) :
                   c.address = e.address /\ AsciiName(c.name) = AsciiName(e.name)
  <2>1. mail[f] \in Seq(AllContacts)
    BY MailsAssumption DEF InDocument, ContactFields
  <2> DEFINE cs == mail[f]
             cl == CleanContacts(cs)
             n == Len(cs)
  <2>2. cs \in Seq(AllContacts) /\ new(f) = cl
    BY <2>1
  <2> HIDE DEF cs
  <2>3. /\ n \in Nat /\ cs = [i \in 1..n |-> cs[i]] /\ cl = [i \in 1..n |-> cl[i]]
        /\ \A i \in 1..n : cl[i].address = cs[i].address /\ AsciiName(cl[i].name) = AsciiName(cs[i].name)
    BY <2>2, CleanIs
  <2> HIDE DEF cl, n
  <2>4. DOMAIN cs = 1..n /\ DOMAIN cl = 1..n
    BY <2>3
  <2>5. ASSUME NEW c \in ToSet(cl)
        PROVE  \E e \in ToSet(cs) : c.address = e.address /\ AsciiName(c.name) = AsciiName(e.name)
    <3>1. PICK i \in 1..n : c = cl[i]
      BY <2>4 DEF ToSet
    <3>2. cs[i] \in ToSet(cs)
      BY <2>4 DEF ToSet
    <3> QED
      BY <2>3, <3>1, <3>2
  <2>6. ASSUME NEW e \in ToSet(cs)
        PROVE  \E c \in ToSet(cl) : c.address = e.address /\ AsciiName(c.name) = AsciiName(e.name)
    <3>1. PICK i \in 1..n : e = cs[i]
      BY <2>4 DEF ToSet
    <3>2. cl[i] \in ToSet(cl)
      BY <2>4 DEF ToSet
    <3> QED
      BY <2>3, <3>1, <3>2
  <2> HIDE DEF new
  <2> QED
    BY <2>2, <2>5, <2>6 DEF cs
<1> HIDE DEF new
<1>2. ASSUME NEW f, NEW c
      PROVE  LET x == [type |-> f, name |-> c.name, address |-> c.address]
             IN [x EXCEPT !.name = IF @ = Null THEN Null ELSE Asciified[@]]
                  = [type |-> f, name |-> AsciiName(c.name), address |-> c.address]
  BY DEF AsciiName
<1>3. ASSUME NEW f \in ContactFields, f # "replyto"
      PROVE  f \in InDocument
  BY <1>3 DEF ContactFields, InDocument
<1>4. ASSUME NEW f \in InDocument
      PROVE  f \in ContactFields /\ f # "replyto"
  BY <1>4 DEF ContactFields, InDocument
<1>5. \A x : x \in ToSet(DocContacts(d))
             <=> x.address # Null /\ \E f \in InDocument : x \in ContactsOf(f, new(f))
  BY DocContactsAre DEF new
<1>6. \A x : x \in ToSet(FileContacts(mail))
             <=> x.address # Null /\ \E f \in ContactFields : x \in ContactsOf(f, mail[f])
  BY FileContactsAre
<1>7. ASSUME NEW x \in Ascii(DocContacts(d))
      PROVE  x \in Ascii(FileContacts(mail))
  <2>1. PICK y \in ToSet(DocContacts(d)) :
          /\ y.type # "replyto"
          /\ x = [y EXCEPT !.name = IF @ = Null THEN Null ELSE Asciified[@]]
    BY <1>7 DEF Ascii
  <2>2. y.address # Null /\ \E f \in InDocument : y \in ContactsOf(f, new(f))
    BY <1>5
  <2>3. PICK f \in InDocument : y \in ContactsOf(f, new(f))
    BY <2>2
  <2>4. PICK c \in ToSet(new(f)) : y = [type |-> f, name |-> c.name, address |-> c.address]
    BY <2>3 DEF ContactsOf
  <2>5. PICK e \in ToSet(mail[f]) : c.address = e.address /\ AsciiName(c.name) = AsciiName(e.name)
    BY <1>1
  <2> DEFINE z == [type |-> f, name |-> e.name, address |-> e.address]
  <2>6. z \in ToSet(FileContacts(mail))
    <3>1. z.address # Null
      BY <2>2, <2>4, <2>5
    <3>2. z \in ContactsOf(f, mail[f])
      BY DEF ContactsOf
    <3> QED
      BY <1>4, <1>6, <3>1, <3>2
  <2>7. x = [z EXCEPT !.name = IF @ = Null THEN Null ELSE Asciified[@]]
    <3>1. x = [type |-> f, name |-> AsciiName(c.name), address |-> c.address]
      BY <1>2, <2>1, <2>4
    <3>2. [z EXCEPT !.name = IF @ = Null THEN Null ELSE Asciified[@]]
            = [type |-> f, name |-> AsciiName(e.name), address |-> e.address]
      BY <1>2
    <3> QED
      BY <2>5, <3>1, <3>2
  <2>8. z.type # "replyto"
    BY <1>4
  <2> QED
    BY <2>6, <2>7, <2>8 DEF Ascii
<1>8. ASSUME NEW x \in Ascii(FileContacts(mail))
      PROVE  x \in Ascii(DocContacts(d))
  <2>1. PICK y \in ToSet(FileContacts(mail)) :
          /\ y.type # "replyto"
          /\ x = [y EXCEPT !.name = IF @ = Null THEN Null ELSE Asciified[@]]
    BY <1>8 DEF Ascii
  <2>2. y.address # Null /\ \E f \in ContactFields : y \in ContactsOf(f, mail[f])
    BY <1>6
  <2>3. PICK f \in ContactFields : y \in ContactsOf(f, mail[f])
    BY <2>2
  <2>4. PICK e \in ToSet(mail[f]) : y = [type |-> f, name |-> e.name, address |-> e.address]
    BY <2>3 DEF ContactsOf
  <2>5. f \in InDocument
    BY <1>3, <2>1, <2>4
  <2>6. PICK c \in ToSet(new(f)) : c.address = e.address /\ AsciiName(c.name) = AsciiName(e.name)
    BY <1>1, <2>5
  <2> DEFINE z == [type |-> f, name |-> c.name, address |-> c.address]
  <2>7. z \in ToSet(DocContacts(d))
    <3>1. z.address # Null
      BY <2>2, <2>4, <2>6
    <3>2. z \in ContactsOf(f, new(f))
      BY DEF ContactsOf
    <3> QED
      BY <1>5, <2>5, <3>1, <3>2
  <2>8. x = [z EXCEPT !.name = IF @ = Null THEN Null ELSE Asciified[@]]
    <3>1. x = [type |-> f, name |-> AsciiName(e.name), address |-> e.address]
      BY <1>2, <2>1, <2>4
    <3>2. [z EXCEPT !.name = IF @ = Null THEN Null ELSE Asciified[@]]
            = [type |-> f, name |-> AsciiName(c.name), address |-> c.address]
      BY <1>2
    <3> QED
      BY <2>6, <3>1, <3>2
  <2>9. z.type # "replyto"
    BY <1>4, <2>5
  <2> QED
    BY <2>7, <2>8, <2>9 DEF Ascii
<1> QED
  BY <1>7, <1>8

-----------------------------------------------------------------------------
(* The answers.                                                            *)

LEMMA ContactForeachIs ==
  ASSUME FilesOK(files), NEW m, IsMsg(m), TrueFile(m) # Null
  PROVE  Ascii(ContactForeach(m)) = Ascii(FileContacts(TrueFile(m).mail))
<1> DEFINE mail == TrueFile(m).mail
<1>1. /\ mail \in Mails /\ (m.doc # Null => m.doc.of = mail)
      /\ m.file # Null => m.file.mail = mail
  BY TrueFileIs
<1> HIDE DEF mail
<1>2. CASE m.file # Null
  BY <1>1, <1>2 DEF ContactForeach, mail
<1>3. CASE m.file = Null
  <2>1. m.doc # Null /\ IsDoc(m.doc)
    BY <1>3 DEF IsMsg
  <2>2. PICK file \in FilesRead : MadeOf(m.doc, file)
    BY <2>1 DEF IsDoc
  <2>3. PICK flags : m.doc.values = Values(file, flags)
    BY <2>2, DocIs DEF MadeOf
  <2>4. file.mail = mail
    BY <1>1, <2>1, <2>2, DocIs DEF MadeOf
  <2>5. ASSUME NEW f \in InDocument
        PROVE  m.doc.values[f] = OrNone(CleanContacts(mail[f]))
    <3>1. FileField(f, file) = {OrNone(CleanContacts(mail[f]))}
      BY <2>4 DEF InDocument, FileField
    <3>2. Values(file, flags)[f] = CHOOSE v \in FileField(f, file) : TRUE
      BY DEF InDocument, Values, ValueFields
    <3> QED
      BY <2>3, <3>1, <3>2
  <2>6. Ascii(DocContacts(m.doc)) = Ascii(FileContacts(mail))
    BY <1>1, <2>5, SameContacts
  <2> QED
    BY <1>3, <2>6 DEF ContactForeach, mail
<1> QED
  BY <1>2, <1>3

LEMMA AnswersAreTrueStep == IInv /\ AnswersAreTrue /\ [Next]_vars => AnswersAreTrue'
<1> SUFFICES ASSUME IInv, AnswersAreTrue, [Next]_vars PROVE AnswersAreTrue'
  OBVIOUS
<1>1. CASE told' = told
  BY <1>1 DEF AnswersAreTrue, FieldsAreTrue, HeadersHaveAllContacts
<1>2. CASE told' = Null
  BY <1>2 DEF AnswersAreTrue, FieldsAreTrue, HeadersHaveAllContacts
<1>3. ASSUME NEW op, op \notin Fields \cup {"headers"}, NEW v, Answer(op, v)
      PROVE  AnswersAreTrue'
  <2>1. told'.op = op
    BY <1>3 DEF Answer
  <2> QED
    BY <1>3, <2>1 DEF AnswersAreTrue, FieldsAreTrue, HeadersHaveAllContacts
<1>4. /\ "timestamp" \notin Fields \cup {"headers"} /\ "view" \notin Fields \cup {"headers"}
      /\ "move" \notin Fields \cup {"headers"} /\ "headers" \notin Fields
  BY DEF Fields, StringFields, NumericFields, ListFields
<1>5. ASSUME NEW f \in Retrieved, GetField(f) PROVE AnswersAreTrue'
  <2>1. FilesOK(files) /\ IsMsg(msg)
    BY <1>5 DEF GetField, IInv
  <2>2. PICK v \in Get(msg, f).values : told' = [op |-> f, value |-> v, file |-> TrueFile(msg)]
    BY <1>5 DEF GetField, Answer
  <2>3. told'.op = f /\ told'.value = v /\ told'.file = TrueFile(msg)
    BY <2>2
  <2>4. ASSUME told'.file # Null, told'.op \in Fields \ {"maildir"}
        PROVE  \/ told'.value \in FileField(told'.op, told'.file)
               \/ told'.op = "refs" /\ HasComma(told'.file.mail)
    BY <2>1, <2>3, <2>4, FieldIs
  <2>5. f # "headers"
    BY DEF Retrieved, ValueFields, ListFields
  <2>6. FieldsAreTrue'
    BY <2>4 DEF FieldsAreTrue
  <2>7. HeadersHaveAllContacts'
    BY <2>3, <2>5 DEF HeadersHaveAllContacts
  <2> QED
    BY <2>6, <2>7 DEF AnswersAreTrue
<1>6. CASE SexpHeaders
  <2>1. FilesOK(files) /\ IsMsg(msg)
    BY <1>6 DEF SexpHeaders, IInv
  <2>2. told' = [op |-> "headers", file |-> TrueFile(msg),
                 value |-> [fields |-> Headers(msg), contacts |-> ContactForeach(msg)]]
    BY <1>6 DEF SexpHeaders, Answer
  <2>3. told'.op = "headers" /\ told'.file = TrueFile(msg)
        /\ told'.value.contacts = ContactForeach(msg)
    BY <2>2
  <2>4. HeadersHaveAllContacts'
    BY <2>1, <2>3, ContactForeachIs DEF HeadersHaveAllContacts
  <2>5. FieldsAreTrue'
    BY <1>4, <2>3 DEF FieldsAreTrue
  <2> QED
    BY <2>4, <2>5 DEF AnswersAreTrue
<1>7. CASE GetTimestamp
  BY <1>3, <1>4, <1>7 DEF GetTimestamp
<1>8. CASE Sexp({"decrypt", "verify"})
  BY <1>3, <1>4, <1>8 DEF Sexp
<1>9. CASE MoveFails
  BY <1>3, <1>4, <1>9 DEF MoveFails
<1>10. ASSUME NEW mdir \in DOMAIN RealMdir, NEW asked \in Asked, MoveToMaildir(mdir, asked)
       PROVE  AnswersAreTrue'
  BY <1>1, <1>9, <1>10 DEF MoveToMaildir, MoveGoesOn
<1>11. CASE NewFromDoc \/ Unref \/ Unload \/ Others
  BY <1>1, <1>11 DEF NewFromDoc, Unref, Unload, Others, Write, Delete, Other
<1>12. ASSUME NEW p \in Paths,
              NewFromFile(p) \/ \E mdir \in DOMAIN RealMdir \cup {SameMaildir} : Index(p, mdir)
       PROVE  AnswersAreTrue'
  BY <1>1, <1>12 DEF Index, NewFromFile
<1>13. CASE Seen
  BY <1>2, <1>13 DEF Seen
<1>14. CASE UNCHANGED vars
  BY <1>1, <1>14 DEF vars
<1>15. CASE Moves
  <2>1. CASE Answer("move", "ok")
    BY <1>3, <1>4, <2>1
  <2>2. CASE Answer("move", "error")
    BY <1>3, <1>4, <2>2
  <2>3. CASE MoveOpens
    BY <1>9, <2>1, <2>2, <2>3 DEF MoveOpens
  <2>4. CASE MsgMoveCheckPre \/ MsgMove \/ MsgMoveCheckPost
    BY <1>1, <1>9, <2>4 DEF MsgMoveCheckPre, MsgMove, MsgMoveCheckPost, MoveGoesOn
  <2> QED
    BY <1>15, <2>3, <2>4 DEF Moves
<1>16. CASE Asks
  BY <1>5, <1>6, <1>7, <1>8, <1>10, <1>11, <1>12, <1>16 DEF Asks
<1> HIDE DEF AnswersAreTrue
<1> QED
  BY <1>11, <1>13, <1>14, <1>15, <1>16 DEF Next

\* What mu_msg_get_field_string and its siblings, and mu_msg_contact_foreach,
\* say of a message is what its file says, as long as the file is as it was
\* when it was indexed and when it was read: whether the answer comes from the
\* document or from the file.
THEOREM NoAnswerIsStale == Spec => []AnswersAreTrue
<1>1. Init => AnswersAreTrue
  BY DEF Init, AnswersAreTrue, FieldsAreTrue, HeadersHaveAllContacts
<1> QED
  BY <1>1, AnswersAreTrueStep, AlwaysOK, PTL DEF Spec

=============================================================================
