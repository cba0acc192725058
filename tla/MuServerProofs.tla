--------------------------- MODULE MuServerProofs ----------------------------
(***************************************************************************)
(* Proofs about the server: its answers are true, and what it does it does *)
(* to the message that was meant, for any number of messages, maildirs and *)
(* commands, and however other programs rename the files meanwhile.        *)
(***************************************************************************)
EXTENDS MuServer, MuStoreOpsProofs, FiniteSetTheorems,
        SequenceTheorems

Kinds == {"error", "found", "added", "pong", "indexed", "update", "removed",
          "quitting"}
Replies == [kind : Kinds, id : HeaderIds, path : Paths \cup {NoPath}]
Headers == [id : DocIds, name : Names, old : BOOLEAN]
Jobs == [ids : SUBSET DocIds, id : HeaderIds, path : Paths \cup {NoPath},
         mdir : Mdirs \cup {"same"}, flags : Flags \cup {"none"},
         meant : Headers \cup {NoHeader}]

-----------------------------------------------------------------------------
(* The inductive invariant.                                                *)

\* The server never sees a commit that throws, and its documents have docids
\* of their own.
ServerStore(s) == /\ GoodStore(s) /\ s.badCommits = 0
                  /\ s.badWrites <= WriteFaults /\ OrderedStore(s)

TypeInv ==
  /\ files \subseteq Paths /\ IsFiniteSet(files)
  /\ mail \in 0..MaxMail /\ kills \in 0..MaxKills
  /\ ServerStore(store)
  /\ running \in BOOLEAN /\ clean \in BOOLEAN
  /\ pc \in {"read", "next", "check", "rename", "open", "update", "unlinked"}
  /\ job \in Jobs
  /\ out \in Seq(Replies)
  /\ headers \subseteq Headers

\* What is known of the command in hand: the document it acts on is there
\* until it is replaced or removed.
JobInv ==
  /\ ~running => /\ pc = "read" /\ store.work = store.disk
                 /\ \A h \in headers : h.old
  /\ pc = "read" => job = NoJob
  /\ pc \in {"next", "check", "rename", "open", "update"} => job.flags \in Flags
  /\ pc \in {"check", "rename", "open", "update", "unlinked"} =>
       /\ job.path \in Paths /\ job.id \notin job.ids
       /\ \E d \in store.work.docs : d.id = job.id /\ d.path = job.path
  /\ job.meant # NoHeader => job.ids \subseteq {job.meant.id}

NoError(o) == \A i \in 1..Len(o) : o[i].kind # "error"

TrueReply(r, c) ==
  /\ r.kind \in {"added", "update"} =>
       \E d \in c.docs : d.id = r.id /\ d.path = r.path
  /\ r.kind = "removed" => \A d \in c.docs : d.id # r.id

\* The documents that the command has still to change.
Pending == job.ids \cup (IF pc = "next" THEN {} ELSE {job.id})

AnswersInv ==
  NoError(out) => \A i \in 1..Len(out) :
    /\ TrueReply(out[i], store.work)
    /\ pc # "read" => out[i].kind = "update" /\ out[i].id \notin Pending

\* A header of this session leads to the message that it shows, or nowhere.
TrueHeader(h, c) == /\ h.id <= c.last
                    /\ \A d \in c.docs : d.id = h.id => d.path.name = h.name

MeantInv ==
  store.badWrites = WriteFaults =>
    /\ \A h \in headers \cup {job.meant} :
         h # NoHeader /\ ~h.old => TrueHeader(h, store.work)
    /\ job.id # InvalidDocId /\ job.meant # NoHeader /\ ~job.meant.old =>
         job.path.name = job.meant.name

\* Where the documents are while a message is moved or removed.
AllButJob(S) == \A d \in store.work.docs : d.id # job.id => d.path \in S

CleanInv ==
  clean =>
    /\ OneDocEach(store.work)
    /\ pc \in {"read", "next", "check", "rename"} =>
         \A d \in store.work.docs : d.path \in files
    /\ pc = "rename" => \A d \in store.work.docs : d.path # Target
    /\ pc \in {"open", "update"} => AllButJob(files \ {Target})
    /\ pc = "update" => Target \in files
    /\ pc = "unlinked" => AllButJob(files)

IInv == TypeInv /\ JobInv /\ AnswersInv /\ MeantInv /\ CleanInv

-----------------------------------------------------------------------------
(* Initially.                                                              *)

LEMMA NoJobTyped == NoJob \in Jobs /\ InvalidDocId \in HeaderIds
BY MaxDocIdAssumption DEF NoJob, Jobs, HeaderIds, InvalidDocId, NoHeader

LEMMA InitIInv == Init => IInv
<1> SUFFICES ASSUME Init PROVE IInv
  OBVIOUS
<1>1. /\ store.work = EmptyContent /\ store.disk = EmptyContent
      /\ store.badWrites = WriteFaults /\ store.badCommits = 0
  BY DEF Init
<1>2. GoodStore(store)
  BY ContentsEmpty, BatchSizeAssumption, BoundsAssumption
     DEF Init, GoodStore, Stores
<1>3. ServerStore(store)
  BY <1>1, <1>2, OrderedEmpty, BoundsAssumption DEF ServerStore, OrderedStore
<1>4. <<>> \in Seq(Replies) /\ Len(<<>>) = 0
  OBVIOUS
<1>5. TypeInv
  <2>1. mail \in 0..MaxMail /\ kills \in 0..MaxKills
    BY BoundsAssumption DEF Init
  <2> QED
    BY <1>3, <1>4, <2>1, NoJobTyped, FS_EmptySet DEF Init, TypeInv
<1>6. JobInv
  BY <1>1 DEF Init, JobInv, NoJob
<1>7. AnswersInv
  BY <1>4 DEF Init, AnswersInv
<1>8. MeantInv
  BY DEF Init, MeantInv, NoJob
<1>9. CleanInv
  BY <1>1 DEF Init, CleanInv, OneDocEach, EmptyContent
<1> QED
  BY <1>5, <1>6, <1>7, <1>8, <1>9 DEF IInv

-----------------------------------------------------------------------------
(* Replies.                                                                *)

LEMMA RepliesTyped ==
  /\ Error \in Replies /\ Error.kind = "error"
  /\ \A k \in Kinds : Plain(k) \in Replies /\ Plain(k).kind = k
  /\ \A k \in Kinds, id \in HeaderIds, p \in Paths :
       /\ Reply(k, id, p) \in Replies
       /\ Reply(k, id, p).kind = k /\ Reply(k, id, p).id = id
       /\ Reply(k, id, p).path = p
BY MaxDocIdAssumption
   DEF Error, Plain, Reply, Replies, Kinds, HeaderIds, InvalidDocId

LEMMA OneReply ==
  ASSUME NEW r \in Replies
  PROVE  /\ <<r>> \in Seq(Replies) /\ Len(<<r>>) = 1 /\ <<r>>[1] = r
         /\ \A i \in 1..Len(<<r>>) : <<r>>[i] = r
OBVIOUS

LEMMA MoreReplies ==
  ASSUME NEW o \in Seq(Replies), NEW r \in Replies
  PROVE  LET t == Append(o, r)
         IN  /\ t \in Seq(Replies) /\ Len(t) = Len(o) + 1 /\ Len(o) \in Nat
             /\ t[Len(o) + 1] = r /\ \A i \in 1..Len(o) : t[i] = o[i]
OBVIOUS

LEMMA MoreReplied ==
  ASSUME NEW o \in Seq(Replies), NEW r \in Replies
  PROVE  /\ NoError(Append(o, r)) => NoError(o)
         /\ \A i \in 1..Len(Append(o, r)) :
              \/ i \in 1..Len(o) /\ Append(o, r)[i] = o[i]
              \/ Append(o, r)[i] = r
<1> DEFINE t == Append(o, r)
<1>1. /\ t \in Seq(Replies) /\ Len(t) = Len(o) + 1 /\ Len(o) \in Nat
      /\ t[Len(o) + 1] = r /\ \A i \in 1..Len(o) : t[i] = o[i]
  BY MoreReplies
<1> HIDE DEF t
<1>2. \A i \in 1..Len(t) : i \in 1..Len(o) \/ i = Len(o) + 1
  BY <1>1
<1>3. \A i \in 1..Len(o) : i \in 1..Len(t)
  BY <1>1
<1> QED
  BY <1>1, <1>2, <1>3 DEF t, NoError

LEMMA ErrorReply ==
  /\ <<Error>> \in Seq(Replies) /\ ~NoError(<<Error>>)
  /\ \A o \in Seq(Replies) :
       Append(o, Error) \in Seq(Replies) /\ ~NoError(Append(o, Error))
<1>1. <<Error>> \in Seq(Replies) /\ ~NoError(<<Error>>)
  BY RepliesTyped, OneReply DEF NoError
<1>2. ASSUME NEW o \in Seq(Replies)
      PROVE  Append(o, Error) \in Seq(Replies) /\ ~NoError(Append(o, Error))
  <2> DEFINE t == Append(o, Error)
  <2>1. /\ t \in Seq(Replies) /\ Len(t) = Len(o) + 1 /\ Len(o) \in Nat
        /\ t[Len(o) + 1] = Error
    BY RepliesTyped, MoreReplies
  <2> HIDE DEF t
  <2>2. Len(o) + 1 \in 1..Len(t)
    BY <2>1
  <2>3. ~NoError(t)
    BY <2>1, <2>2, RepliesTyped DEF NoError
  <2> QED
    BY <2>1, <2>3 DEF t
<1> QED
  BY <1>1, <1>2

-----------------------------------------------------------------------------
(* Steps that leave the store alone.                                       *)

\* Other programs change the files.
LEMMA MailStep == IInv /\ Mail => IInv'
<1> SUFFICES ASSUME IInv, Mail PROVE IInv'
  OBVIOUS
<1>1. /\ UNCHANGED <<kills, store, running, pc, job, out, headers>>
      /\ mail < MaxMail /\ mail' = mail + 1
  BY DEF Mail, Arrive, MoveAway, Vanish, Mailing, server
<1>2. /\ files' \subseteq Paths
      /\ \/ clean' = clean /\ files \subseteq files'
         \/ clean' = FALSE
  BY DEF Mail, Arrive, MoveAway, Vanish, IInv, TypeInv
<1>3. TypeInv'
  <2>1. mail' \in 0..MaxMail
    BY <1>1, BoundsAssumption DEF IInv, TypeInv
  <2>2. clean' \in BOOLEAN
    BY <1>2 DEF IInv, TypeInv
  <2>3. IsFiniteSet(files')
    <3>1. IsFiniteSet(files)
      BY DEF IInv, TypeInv
    <3>2. PICK p, q : \/ files' = files \cup {p} \/ files' = files \ {p}
                      \/ files' = (files \ {p}) \cup {q}
      BY DEF Mail, Arrive, MoveAway, Vanish
    <3>3. IsFiniteSet(files \cup {p}) /\ IsFiniteSet(files \ {p})
      BY <3>1, FS_AddElement, FS_RemoveElement
    <3>4. IsFiniteSet((files \ {p}) \cup {q})
      BY <3>3, FS_AddElement
    <3> QED
      BY <3>2, <3>3, <3>4
  <2> QED
    BY <1>1, <1>2, <2>1, <2>2, <2>3 DEF IInv, TypeInv
<1>4. JobInv' /\ AnswersInv' /\ MeantInv'
  BY <1>1 DEF IInv, JobInv, AnswersInv, TrueReply, Pending, MeantInv, TrueHeader
<1>5. CleanInv'
  BY <1>1, <1>2 DEF IInv, CleanInv, OneDocEach, AllButJob, Target
<1> QED
  BY <1>3, <1>4, <1>5 DEF IInv

\* A command ends, with an error or with answers that are true.
LEMMA Ends ==
  ASSUME IInv, UNCHANGED <<world, kills, store, headers>>,
         NEW r \in Seq(Replies), Done(r),
         \/ ~NoError(r)
         \/ /\ pc \in {"read", "next"}
            /\ \A i \in 1..Len(r) : TrueReply(r[i], store.work)
  PROVE  IInv'
<1>1. /\ UNCHANGED <<files, mail, kills, store, headers, running>>
      /\ out' = r /\ pc' = "read" /\ job' = NoJob
      /\ clean' = (clean /\ NoError(r))
  BY DEF Done, world, NoError
<1>2. TypeInv'
  <2>1. clean' \in BOOLEAN
    BY <1>1
  <2> QED
    BY <1>1, <2>1, NoJobTyped DEF IInv, TypeInv
<1>3. JobInv'
  BY <1>1 DEF IInv, JobInv, NoJob
<1>4. AnswersInv'
  BY <1>1 DEF AnswersInv, NoError, TrueReply
<1>5. MeantInv'
  BY <1>1 DEF IInv, MeantInv, NoJob, TrueHeader
<1>6. CleanInv'
  BY <1>1 DEF IInv, CleanInv, OneDocEach
<1> QED
  BY <1>2, <1>3, <1>4, <1>5, <1>6 DEF IInv

\* A message cannot be moved or removed.
LEMMA Fails ==
  ASSUME IInv, UNCHANGED <<world, kills, store, headers>>,
         Fail \/ Done(<<Error>>)
  PROVE  IInv'
BY Ends, ErrorReply DEF Fail, IInv, TypeInv

\* One thing answered that says nothing of the documents.
LEMMA EndsPlainly ==
  ASSUME IInv, UNCHANGED <<world, kills, store, headers>>, pc = "read",
         NEW k \in {"found", "pong", "indexed"}, Done(<<Plain(k)>>)
  PROVE  IInv'
<1>1. Plain(k) \in Replies /\ Plain(k).kind = k
  BY RepliesTyped DEF Kinds
<1>2. <<Plain(k)>> \in Seq(Replies)
  BY <1>1, OneReply
<1>3. \A i \in 1..Len(<<Plain(k)>>) : TrueReply(<<Plain(k)>>[i], store.work)
  BY <1>1, OneReply DEF TrueReply
<1> QED
  BY <1>2, <1>3, Ends

LEMMA BadStep == IInv /\ (CmdBad \/ CmdPing) => IInv'
<1> SUFFICES ASSUME IInv, CmdBad \/ CmdPing PROVE IInv'
  OBVIOUS
<1>1. UNCHANGED <<world, kills, store, headers>> /\ pc = "read"
  BY DEF CmdBad, CmdPing, Ready
<1>2. CASE Done(<<Error>>)
  BY <1>1, <1>2, Fails
<1>3. CASE Done(<<Plain("pong")>>)
  BY <1>1, <1>3, EndsPlainly
<1>4. CASE Done(<<Error, Error>>)
  <2>1. <<Error, Error>> = Append(<<Error>>, Error)
    OBVIOUS
  <2> QED
    BY <1>1, <1>4, <2>1, ErrorReply, Ends
<1> QED
  BY <1>2, <1>3, <1>4 DEF CmdBad, CmdPing

\* A step from one part of a move to the next.
LEMMA Goes ==
  ASSUME IInv, UNCHANGED <<mail, kills, store, headers, running, out, clean>>,
         files' \subseteq Paths, IsFiniteSet(files'), job' \in Jobs, pc # "read",
         pc' \in {"check", "rename", "open", "update"},
         job'.flags = job.flags, job'.meant = job.meant,
         job'.ids \subseteq job.ids, job'.id \notin job'.ids,
         NoError(out) => job'.id \in Pending /\ job'.ids \subseteq Pending,
         job'.path \in Paths, job.flags \in Flags,
         \E d \in store.work.docs : d.id = job'.id /\ d.path = job'.path,
         \/ job'.id = job.id /\ job'.path = job.path
         \/ job'.id \in job.ids,
         CleanInv'
  PROVE  IInv'
<1>1. running
  BY DEF IInv, JobInv
<1>2. TypeInv'
  BY DEF IInv, TypeInv
<1>3. JobInv'
  BY <1>1 DEF IInv, JobInv
<1>4. AnswersInv'
  BY DEF IInv, AnswersInv, TrueReply, Pending
<1>5. MeantInv'
  <2> SUFFICES ASSUME store.badWrites = WriteFaults PROVE MeantInv'
    BY DEF MeantInv
  <2>1. \A h \in headers \cup {job.meant} :
          h # NoHeader /\ ~h.old => TrueHeader(h, store.work)
    BY DEF IInv, MeantInv
  <2>2. ASSUME job.meant # NoHeader, ~job.meant.old, job'.id \in job.ids
        PROVE  job'.path.name = job.meant.name
    <3>1. job'.id = job.meant.id
      BY <2>2 DEF IInv, JobInv
    <3> QED
      BY <2>1, <2>2, <3>1 DEF TrueHeader
  <2>3. ASSUME job'.id = job.id, job'.path = job.path, job.id # InvalidDocId,
               job.meant # NoHeader, ~job.meant.old
        PROVE  job'.path.name = job.meant.name
    BY <2>3 DEF IInv, MeantInv
  <2> QED
    BY <2>1, <2>2, <2>3 DEF MeantInv, TrueHeader
<1> QED
  BY <1>2, <1>3, <1>4, <1>5 DEF IInv

\* Where a message is moved to.
LEMMA TargetTyped ==
  ASSUME job \in Jobs, job.path \in Paths, job.flags \in Flags
  PROVE  Target \in Paths /\ Target.name = job.path.name
BY PathsAssumption DEF Target, Jobs

LEMMA NextMessageStep ==
  ASSUME IInv, NEW id \in DocIds, NextMessage(id)
  PROVE  IInv'
<1>1. UNCHANGED <<world, kills, store, headers>> /\ pc = "next" /\ id \in job.ids
  BY DEF NextMessage
<1>2. CASE Fail
  BY <1>1, <1>2, Fails
<1>3. CASE \E d \in store.work.docs :
             /\ d.id = id
             /\ job' = [job EXCEPT !.ids = @ \ {id}, !.id = id, !.path = d.path]
             /\ Step("check")
  <2> PICK d \in store.work.docs :
             /\ d.id = id
             /\ job' = [job EXCEPT !.ids = @ \ {id}, !.id = id, !.path = d.path]
             /\ Step("check")
    BY <1>3
  <2>1. d.path \in Paths /\ d \in Docs
    BY DEF IInv, TypeInv, ServerStore, GoodStore, Stores, Contents, Docs
  <2>2. /\ job \in Jobs /\ job.flags \in Flags
    BY <1>1 DEF IInv, TypeInv, JobInv
  <2>3. /\ job'.ids = job.ids \ {id} /\ job'.id = id /\ job'.path = d.path
        /\ job'.flags = job.flags /\ job'.meant = job.meant
    BY <2>2 DEF Jobs
  <2>4. job' \in Jobs
    <3>1. id \in HeaderIds
      BY DEF HeaderIds, DocIds
    <3> QED
      BY <2>1, <2>2, <3>1 DEF Jobs
  <2>5. UNCHANGED <<files, mail, kills, store, headers, running, out, clean>>
        /\ pc' = "check"
    BY <1>1 DEF Step, world
  <2>6. CleanInv'
    BY <1>1, <2>5 DEF IInv, CleanInv, OneDocEach
  <2> QED
    <3>1. files' \subseteq Paths /\ IsFiniteSet(files')
      BY <2>5 DEF IInv, TypeInv
    <3>2. job'.id \in Pending /\ job'.ids \subseteq Pending
      BY <1>1, <2>3 DEF Pending
    <3>3. \E x \in store.work.docs : x.id = job'.id /\ x.path = job'.path
      BY <2>3
    <3> QED
      BY <1>1, <2>1, <2>2, <2>3, <2>4, <2>5, <2>6, <3>1, <3>2, <3>3, Goes
<1> QED
  BY <1>2, <1>3 DEF NextMessage

\* The steps that go on with the message in hand.
LEMMA GoesOn ==
  ASSUME IInv, UNCHANGED <<mail, kills, store, headers>>,
         files' \subseteq Paths, IsFiniteSet(files'), UNCHANGED job,
         pc \in {"check", "rename", "open"},
         NEW next \in {"rename", "open", "update"}, Step(next),
         CleanInv'
  PROVE  IInv'
<1>1. /\ job \in Jobs /\ job.flags \in Flags /\ job.path \in Paths
      /\ job.id \notin job.ids
      /\ \E d \in store.work.docs : d.id = job.id /\ d.path = job.path
  BY DEF IInv, TypeInv, JobInv
<1>2. job.id \in Pending /\ job.ids \subseteq Pending
  BY DEF Pending
<1> QED
  BY <1>1, <1>2, Goes DEF Step

LEMMA CheckMoveStep == IInv /\ CheckMove => IInv'
<1> SUFFICES ASSUME IInv, CheckMove PROVE IInv'
  OBVIOUS
<1>1. /\ UNCHANGED <<files, mail, kills, store, headers>> /\ pc = "check"
      /\ files' \subseteq Paths /\ IsFiniteSet(files')
  BY DEF CheckMove, world, IInv, TypeInv
<1>2. CASE Fail
  BY <1>2, Fails DEF CheckMove
<1>3. CASE Target = job.path /\ Step("open") /\ UNCHANGED job
  <2>1. CleanInv'
    BY <1>1, <1>3 DEF Step, IInv, JobInv, CleanInv, AllButJob, OneDocEach, Target
  <2> QED
    BY <1>1, <1>3, <2>1, GoesOn
<1>4. CASE Target \notin files /\ Step("rename") /\ UNCHANGED job
  <2>1. CleanInv'
    BY <1>1, <1>4 DEF Step, IInv, JobInv, CleanInv, AllButJob, OneDocEach, Target
  <2> QED
    BY <1>1, <1>4, <2>1, GoesOn
<1> QED
  BY <1>2, <1>3, <1>4 DEF CheckMove

LEMMA RenameFileStep == IInv /\ RenameFile => IInv'
<1> SUFFICES ASSUME IInv, RenameFile PROVE IInv'
  OBVIOUS
<1>1. UNCHANGED <<mail, kills, store, headers>> /\ pc = "rename"
  BY DEF RenameFile
<1>2. CASE Fail /\ UNCHANGED files
  BY <1>1, <1>2, Fails DEF world
<1>3. CASE /\ files' = (files \ {job.path}) \cup {Target}
           /\ Step("open") /\ UNCHANGED job
  <2>1. Target \in Paths
    BY <1>1, TargetTyped DEF IInv, TypeInv, JobInv
  <2>2. files' \subseteq Paths
    BY <1>3, <2>1 DEF IInv, TypeInv
  <2>3. IsFiniteSet(files')
    <3>1. IsFiniteSet(files \ {job.path})
      BY FS_RemoveElement DEF IInv, TypeInv
    <3> QED
      BY <1>3, <3>1, FS_AddElement
  <2>4. CleanInv'
    BY <1>1, <1>3 DEF Step, IInv, JobInv, CleanInv, AllButJob, OneDocEach, Target
  <2> QED
    BY <1>1, <1>3, <2>2, <2>3, <2>4, GoesOn
<1> QED
  BY <1>2, <1>3 DEF RenameFile

LEMMA OpenMovedStep == IInv /\ OpenMoved => IInv'
<1> SUFFICES ASSUME IInv, OpenMoved PROVE IInv'
  OBVIOUS
<1>1. /\ UNCHANGED <<files, mail, kills, store, headers>> /\ pc = "open"
      /\ files' \subseteq Paths /\ IsFiniteSet(files')
  BY DEF OpenMoved, world, IInv, TypeInv
<1>2. CASE Fail
  BY <1>2, Fails DEF OpenMoved
<1>3. CASE Target \in files /\ Step("update") /\ UNCHANGED job
  <2>1. CleanInv'
    BY <1>1, <1>3 DEF Step, IInv, CleanInv, AllButJob, OneDocEach, Target
  <2> QED
    BY <1>1, <1>3, <2>1, GoesOn
<1> QED
  BY <1>2, <1>3 DEF OpenMoved

-----------------------------------------------------------------------------
(* Steps that change the documents.                                        *)

\* From content c to content e no docid that was handed out passes to a
\* message of another name.
SameNames(c, e) ==
  /\ c.last <= e.last
  /\ \A d \in e.docs : d.id <= c.last =>
       \E x \in c.docs : x.id = d.id /\ x.path.name = d.path.name

LEMMA HeadersStayTrue ==
  ASSUME NEW c \in Contents, NEW e \in Contents, SameNames(c, e),
         NEW h \in Headers, TrueHeader(h, c)
  PROVE  TrueHeader(h, e)
<1>1. h.id <= c.last /\ h.id <= e.last
  <2>1. h.id \in Int /\ c.last \in Int /\ e.last \in Int
    BY MaxDocIdAssumption DEF Headers, DocIds, Contents
  <2> QED
    BY <2>1 DEF TrueHeader, SameNames
<1> QED
  BY <1>1 DEF TrueHeader, SameNames

LEMMA MeantStays ==
  ASSUME IInv, ServerStore(store'), UNCHANGED headers,
         \/ store'.badWrites < store.badWrites
         \/ /\ SameNames(store.work, store'.work)
            /\ store'.badWrites <= store.badWrites,
         job' = job \/ job' = NoJob
  PROVE  MeantInv'
<1> SUFFICES ASSUME store'.badWrites = WriteFaults PROVE MeantInv'
  BY DEF MeantInv
<1>1. /\ store.badWrites = WriteFaults
      /\ SameNames(store.work, store'.work)
  BY BoundsAssumption
     DEF IInv, TypeInv, ServerStore, GoodStore, Stores
<1>2. store.work \in Contents /\ store'.work \in Contents
  BY DEF IInv, TypeInv, ServerStore, GoodStore, Stores
<1>3. \A h \in headers \cup {job.meant} : h = NoHeader \/ h \in Headers
  BY DEF IInv, TypeInv, Jobs
<1>4. \A h \in headers \cup {job.meant} :
         h # NoHeader /\ ~h.old => TrueHeader(h, store'.work)
  BY <1>1, <1>2, <1>3, HeadersStayTrue DEF IInv, MeantInv
<1>5. CASE job' = job
  BY <1>1, <1>4, <1>5 DEF IInv, MeantInv
<1>6. CASE job' = NoJob
  BY <1>1, <1>4, <1>6 DEF IInv, MeantInv, NoJob
<1> QED
  BY <1>5, <1>6

LEMMA SameNamesById ==
  ASSUME NEW c \in Contents, NEW p \in Paths, NEW b \in Bodies,
         NEW x \in c.docs, x.path.name = p.name
  PROVE  SameNames(c, ReplaceById(c, x.id, p, b))
<1> DEFINE e == ReplaceById(c, x.id, p, b)
<1>1. /\ e.docs = {d \in c.docs : d.id # x.id} \cup {Doc(x.id, p, b)}
      /\ e.last = IF x.id > c.last THEN x.id ELSE c.last
  BY DEF ReplaceById, Contents
<1>2. c.last \in Int /\ x.id \in Int
  BY MaxDocIdAssumption DEF Contents, Docs, DocIds
<1>3. Doc(x.id, p, b).id = x.id /\ Doc(x.id, p, b).path = p
  BY DEF Doc
<1> HIDE DEF e
<1>4. c.last <= e.last
  BY <1>1, <1>2
<1>5. \A d \in e.docs : \E y \in c.docs : y.id = d.id /\ y.path.name = d.path.name
  BY <1>1, <1>3
<1> QED
  BY <1>4, <1>5 DEF SameNames, e

LEMMA UpdateStoreStep == IInv /\ UpdateStore => IInv'
<1> SUFFICES ASSUME IInv, UpdateStore PROVE IInv'
  OBVIOUS
<1> DEFINE r == Reply("update", job.id, Target)
           b == MsgIdOf[job.path.name]
<1>1. PICK o \in UpdateMsg(store, job.id, Target, b) :
             /\ store' = o.s
             /\ out' = out \o (IF o.id = InvalidDocId THEN <<Error>> ELSE <<>>)
                           \o <<r>>
             /\ clean' = (clean /\ o.id # InvalidDocId)
  BY DEF UpdateStore
<1>2. /\ pc = "update" /\ pc' = "next"
      /\ UNCHANGED <<files, mail, kills, running, job, headers>>
  BY DEF UpdateStore, world
<1>3. /\ job \in Jobs /\ job.path \in Paths /\ job.flags \in Flags
      /\ job.id \notin job.ids /\ running
  BY <1>2 DEF IInv, TypeInv, JobInv
<1>4. PICK x \in store.work.docs : x.id = job.id /\ x.path = job.path
  BY <1>2 DEF IInv, JobInv
<1>5. Target \in Paths /\ Target.name = job.path.name /\ b \in Bodies
  BY <1>3, TargetTyped, PathsAssumption, MsgIdsAssumption
<1>6. /\ GoodStore(store) /\ store.badCommits = 0 /\ OrderedStore(store)
      /\ store.work \in Contents /\ store.badWrites <= WriteFaults
  BY DEF IInv, TypeInv, ServerStore, GoodStore, Stores
<1>7. job.id \in DocIds /\ job.id \in HeaderIds
  <2>1. job.id \in DocIds
    BY <1>4, <1>6 DEF Contents, Docs
  <2> QED
    BY <1>3, <2>1 DEF Jobs
<1> DEFINE e == ReplaceById(store.work, job.id, Target, b)
<1>8. /\ GoodStore(o.s) /\ o.s.badCommits = 0
      /\ o.id = InvalidDocId \/ o.s.work = e
  BY <1>1, <1>5, <1>6, <1>7, QuietUpdate
<1>9. /\ OrderedStore(o.s) /\ o.s.badWrites <= store.badWrites
      /\ o.s.badWrites < store.badWrites \/ o.s.work = e
  BY <1>1, <1>5, <1>6, <1>7, OrderedUpdate
<1>10. ServerStore(store')
  <2>1. o.s.badWrites \in Int /\ store.badWrites \in Int /\ WriteFaults \in Int
    BY <1>6, <1>8, BoundsAssumption DEF GoodStore, Stores
  <2> QED
    BY <1>1, <1>6, <1>8, <1>9, <2>1 DEF ServerStore
<1>11. r \in Replies /\ r.kind = "update" /\ r.id = job.id /\ r.path = Target
  BY <1>5, <1>7, RepliesTyped DEF Kinds
<1>12. e.docs = {d \in store.work.docs : d.id # job.id}
                   \cup {Doc(job.id, Target, b)}
  BY <1>6 DEF ReplaceById, Contents
<1>13. Doc(job.id, Target, b).id = job.id /\ Doc(job.id, Target, b).path = Target
  BY DEF Doc
<1>14. SameNames(store.work, e)
  BY <1>4, <1>5, <1>6, SameNamesById
<1>15. out \in Seq(Replies) /\ clean \in BOOLEAN
  BY DEF IInv, TypeInv
<1> HIDE DEF r, b, e
<1>16. TypeInv'
  <2>1. out' \in Seq(Replies)
    <3>1. <<r>> \in Seq(Replies) /\ <<Error>> \in Seq(Replies)
          /\ <<>> \in Seq(Replies)
      BY <1>11, OneReply, ErrorReply
    <3> QED
      BY <1>1, <1>15, <3>1, ConcatProperties
  <2>2. clean' \in BOOLEAN
    BY <1>1
  <2> QED
    BY <1>2, <1>10, <2>1, <2>2 DEF IInv, TypeInv
<1>17. JobInv'
  BY <1>2, <1>3 DEF IInv, JobInv
<1>18. MeantInv'
  BY <1>1, <1>2, <1>9, <1>10, <1>14, MeantStays
<1>19. CASE o.id = InvalidDocId
  <2>1. out' = Append(Append(out, Error), r)
    <3>1. /\ Append(out, Error) = out \o <<Error>>
          /\ Append(out, Error) \in Seq(Replies)
      BY <1>15, RepliesTyped, AppendIsConcat, ErrorReply
    <3>2. Append(Append(out, Error), r) = Append(out, Error) \o <<r>>
      BY <1>11, <3>1, AppendIsConcat
    <3> QED
      BY <1>1, <1>19, <3>1, <3>2
  <2>2. Append(out, Error) \in Seq(Replies) /\ ~NoError(Append(out, Error))
    BY <1>15, ErrorReply
  <2>3. ~NoError(out')
    BY <1>11, <2>1, <2>2, MoreReplied
  <2>4. AnswersInv' /\ CleanInv'
    BY <1>1, <1>19, <2>3 DEF AnswersInv, NoError, CleanInv
  <2> QED
    BY <1>16, <1>17, <1>18, <2>4 DEF IInv
<1>20. CASE o.id # InvalidDocId
  <2>1. out' = Append(out, r)
    BY <1>1, <1>11, <1>15, <1>20, ConcatEmptySeq, AppendIsConcat
  <2>2. clean' = clean /\ store'.work = e
    BY <1>1, <1>8, <1>15, <1>20
  <2>3. ASSUME NoError(out'), NEW i \in 1..Len(out')
        PROVE  /\ TrueReply(out'[i], store'.work)
               /\ out'[i].kind = "update" /\ out'[i].id \notin job.ids
    <3>1. CASE out'[i] = r
      <4>1. TrueReply(r, e)
        BY <1>11, <1>12, <1>13 DEF TrueReply
      <4> QED
        BY <1>3, <1>11, <2>2, <3>1, <4>1
    <3>2. CASE i \in 1..Len(out) /\ out'[i] = out[i]
      <4>1. NoError(out)
        BY <1>11, <1>15, <2>1, <2>3, MoreReplied
      <4>2. /\ TrueReply(out[i], store.work) /\ out[i].kind = "update"
            /\ out[i].id \notin Pending
        BY <1>2, <3>2, <4>1 DEF IInv, AnswersInv
      <4>3. out[i].id \notin job.ids /\ out[i].id # job.id
        BY <1>2, <4>2 DEF Pending
      <4>4. TrueReply(out[i], e)
        BY <1>12, <4>2, <4>3 DEF TrueReply
      <4> QED
        BY <2>2, <3>2, <4>2, <4>3, <4>4
    <3> QED
      BY <1>11, <1>15, <2>1, <2>3, <3>1, <3>2, MoreReplied
  <2>4. AnswersInv'
    <3>1. Pending' = job.ids
      BY <1>2 DEF Pending
    <3>2. NoError(out)' = NoError(out')
      BY DEF NoError
    <3> QED
      BY <2>3, <3>1, <3>2 DEF AnswersInv, TrueReply
  <2>5. CleanInv'
    BY <1>2, <1>12, <1>13, <2>2
       DEF IInv, CleanInv, OneDocEach, AllButJob, Target
  <2> QED
    BY <1>16, <1>17, <1>18, <2>4, <2>5 DEF IInv
<1> QED
  BY <1>19, <1>20

LEMMA MoveDoneStep == IInv /\ MoveDone => IInv'
<1> SUFFICES ASSUME IInv, MoveDone PROVE IInv'
  OBVIOUS
<1>1. /\ UNCHANGED <<world, kills, store, headers>> /\ pc = "next"
      /\ Done(out) /\ out \in Seq(Replies)
  BY DEF MoveDone, IInv, TypeInv
<1>2. \/ ~NoError(out)
      \/ \A i \in 1..Len(out) : TrueReply(out[i], store.work)
  BY DEF IInv, AnswersInv
<1> QED
  BY <1>1, <1>2, Ends

-----------------------------------------------------------------------------
(* A command that moves messages begins.                                   *)

LEMMA Begins ==
  ASSUME IInv, UNCHANGED <<world, kills, store, running, headers, clean>>,
         Ready, pc' = "next", out' = <<>>, job' \in Jobs,
         job'.flags \in Flags, job'.id = InvalidDocId,
         job'.meant \in headers \cup {NoHeader},
         job'.meant # NoHeader => job'.ids \subseteq {job'.meant.id}
  PROVE  IInv'
<1>1. UNCHANGED <<files, mail>> /\ pc = "read" /\ running
  BY DEF world, Ready
<1>2. out' \in Seq(Replies) /\ Len(out') = 0
  OBVIOUS
<1>3. TypeInv'
  BY <1>1, <1>2 DEF IInv, TypeInv
<1>4. JobInv'
  BY <1>1 DEF JobInv
<1>5. AnswersInv'
  BY <1>2 DEF AnswersInv
<1>6. MeantInv'
  BY DEF IInv, MeantInv, TrueHeader
<1>7. CleanInv'
  BY <1>1 DEF IInv, CleanInv, OneDocEach
<1> QED
  BY <1>3, <1>4, <1>5, <1>6, <1>7 DEF IInv

LEMMA CmdMoveStep ==
  ASSUME IInv, NEW h \in headers, NEW mdir \in Mdirs, NEW flags \in Flags,
         CmdMove(h, mdir, flags)
  PROVE  IInv'
<1>1. h \in Headers /\ h.id \in DocIds
  BY DEF IInv, TypeInv, Headers
<1>2. /\ job'.ids = {h.id} /\ job'.id = InvalidDocId /\ job'.meant = h
      /\ job'.flags = flags /\ job' \in Jobs
  BY <1>1, NoJobTyped DEF CmdMove, NoJob, Jobs
<1> QED
  BY <1>2, Begins DEF CmdMove

LEMMA CmdMoveMsgidStep ==
  ASSUME IInv, NEW b \in Bodies, NEW flags \in Flags, CmdMoveMsgid(b, flags)
  PROVE  IInv'
<1> DEFINE found == {d \in store.work.docs : d.body = b}
<1>1. CASE Done(<<Error>>)
  BY <1>1, Fails DEF CmdMoveMsgid
<1>2. CASE /\ job' = [NoJob EXCEPT !.ids = {d.id : d \in found}, !.flags = flags]
           /\ pc' = "next" /\ out' = <<>> /\ UNCHANGED <<running, clean>>
  <2>1. {d.id : d \in found} \subseteq DocIds
    BY DEF IInv, TypeInv, ServerStore, GoodStore, Stores, Contents, Docs
  <2> HIDE DEF found
  <2>2. /\ job'.id = InvalidDocId /\ job'.meant = NoHeader
        /\ job'.flags = flags /\ job' \in Jobs
    BY <1>2, <2>1, NoJobTyped DEF NoJob, Jobs
  <2> QED
    BY <1>2, <2>2, Begins DEF CmdMoveMsgid
<1> QED
  BY <1>1, <1>2 DEF CmdMoveMsgid

-----------------------------------------------------------------------------
(* Commands that end with a changed store.                                 *)

LEMMA EndsStored ==
  ASSUME IInv, UNCHANGED <<world, kills, headers>>, running,
         NEW r \in Seq(Replies), Done(r), ServerStore(store'),
         \/ store'.badWrites < store.badWrites
         \/ /\ SameNames(store.work, store'.work)
            /\ store'.badWrites <= store.badWrites,
         NoError(r) =>
           \A i \in 1..Len(r) : TrueReply(r[i], store'.work),
         NoError(r) /\ clean =>
           /\ OneDocEach(store'.work)
           /\ \A d \in store'.work.docs : d.path \in files
  PROVE  IInv'
<1>1. /\ UNCHANGED <<files, mail, kills, headers, running>>
      /\ out' = r /\ pc' = "read" /\ job' = NoJob
      /\ clean' = (clean /\ NoError(r))
  BY DEF Done, world, NoError
<1>2. TypeInv'
  <2>1. clean' \in BOOLEAN
    BY <1>1
  <2> QED
    BY <1>1, <2>1, NoJobTyped DEF IInv, TypeInv
<1>3. JobInv'
  BY <1>1 DEF JobInv, NoJob
<1>4. AnswersInv'
  BY <1>1 DEF AnswersInv, NoError, TrueReply
<1>5. MeantInv'
  BY <1>1, MeantStays
<1>6. CleanInv'
  BY <1>1 DEF CleanInv, OneDocEach
<1> QED
  BY <1>2, <1>3, <1>4, <1>5, <1>6 DEF IInv

LEMMA SameNamesByTerm ==
  ASSUME NEW c \in Contents, Ordered(c), NEW p \in Paths, NEW b \in Bodies,
         NEW id \in IdsForTerm(c, p)
  PROVE  SameNames(c, ReplaceByTerm(c, id, p, b))
<1> DEFINE e == ReplaceByTerm(c, id, p, b)
<1>1. /\ e.docs = (c.docs \ DocsAt(c, p)) \cup {Doc(id, p, b)}
      /\ e.last = IF id > c.last THEN id ELSE c.last
  BY DEF ReplaceByTerm, Contents
<1>2. c.last \in Int /\ id \in Int
  BY MaxDocIdAssumption, ContentsIds DEF Contents, DocIds
<1>3. Doc(id, p, b).id = id /\ Doc(id, p, b).path = p
  BY DEF Doc
<1>4. id <= c.last => \E x \in c.docs : x.id = id /\ x.path = p
  BY <1>2, TermIds DEF DocsAt
<1> HIDE DEF e
<1>5. c.last <= e.last
  BY <1>1, <1>2
<1>6. ASSUME NEW d \in e.docs, d.id <= c.last
      PROVE  \E y \in c.docs : y.id = d.id /\ y.path.name = d.path.name
  BY <1>1, <1>3, <1>4, <1>6
<1> QED
  BY <1>5, <1>6 DEF SameNames, e

LEMMA CmdAddStep ==
  ASSUME IInv, NEW p \in Paths, CmdAdd(p)
  PROVE  IInv'
<1>1. UNCHANGED <<world, kills, headers>> /\ pc = "read" /\ running
  BY DEF CmdAdd, Ready
<1>2. CASE p \notin files
  BY <1>1, <1>2, Fails DEF CmdAdd
<1>3. CASE p \in files
  <2> DEFINE b == MsgIdOf[p.name]
  <2>1. PICK o \in AddMsg(store, p, b) :
               /\ store' = o.s
               /\ Done(<<IF o.id = InvalidDocId THEN Error
                         ELSE Reply("added", o.id, p)>>)
    BY <1>3 DEF CmdAdd
  <2>2. b \in Bodies
    BY PathsAssumption, MsgIdsAssumption
  <2> HIDE DEF b
  <2>3. /\ GoodStore(store) /\ store.badCommits = 0 /\ OrderedStore(store)
        /\ store.work \in Contents /\ Ordered(store.work)
        /\ store.badWrites <= WriteFaults
    BY DEF IInv, TypeInv, ServerStore, GoodStore, Stores, OrderedStore
  <2>4. /\ GoodStore(o.s) /\ o.s.badCommits = 0
        /\ \/ o.id = InvalidDocId
           \/ \E id \in IdsForTerm(store.work, p) :
                 /\ o.id = id
                 /\ o.s.work = ReplaceByTerm(store.work, id, p, b)
    BY <2>1, <2>2, <2>3, QuietAdd
  <2>5. /\ OrderedStore(o.s) /\ o.s.badWrites <= store.badWrites
        /\ \/ o.s.badWrites < store.badWrites
           \/ \E id \in IdsForTerm(store.work, p) :
                 o.s.work = ReplaceByTerm(store.work, id, p, b)
    BY <2>1, <2>2, <2>3, OrderedAdd
  <2>6. ServerStore(store')
    <3>1. o.s.badWrites \in Int /\ store.badWrites \in Int /\ WriteFaults \in Int
      BY <2>3, <2>4, BoundsAssumption DEF GoodStore, Stores
    <3> QED
      BY <2>1, <2>3, <2>4, <2>5, <3>1 DEF ServerStore
  <2>7. \/ store'.badWrites < store.badWrites
        \/ /\ SameNames(store.work, store'.work)
           /\ store'.badWrites <= store.badWrites
    BY <2>1, <2>2, <2>3, <2>5, SameNamesByTerm
  <2>8. CASE o.id = InvalidDocId
    BY <1>1, <2>1, <2>6, <2>7, <2>8, ErrorReply, EndsStored
  <2>9. CASE o.id # InvalidDocId
    <3> DEFINE r == Reply("added", o.id, p)
               e == ReplaceByTerm(store.work, o.id, p, b)
    <3>1. o.s.work = e /\ o.id \in DocIds
      BY <2>3, <2>4, <2>9, ContentsIds
    <3>2. e.docs = (store.work.docs \ DocsAt(store.work, p))
                     \cup {Doc(o.id, p, b)}
      BY <2>3 DEF ReplaceByTerm, Contents
    <3>3. Doc(o.id, p, b).id = o.id /\ Doc(o.id, p, b).path = p
      BY DEF Doc
    <3>4. o.id \in HeaderIds
      BY <3>1 DEF HeaderIds, DocIds
    <3>5. r \in Replies /\ r.kind = "added" /\ r.id = o.id /\ r.path = p
      BY <3>4, RepliesTyped DEF Kinds
    <3> HIDE DEF e, r
    <3>6. TrueReply(r, store'.work)
      BY <2>1, <3>1, <3>2, <3>3, <3>5 DEF TrueReply
    <3>7. /\ <<r>> \in Seq(Replies)
          /\ \A i \in 1..Len(<<r>>) : TrueReply(<<r>>[i], store'.work)
      BY <3>5, <3>6, OneReply
    <3>8. clean => /\ OneDocEach(store'.work)
                   /\ \A d \in store'.work.docs : d.path \in files
      BY <1>1, <1>3, <2>1, <3>1, <3>2, <3>3
         DEF IInv, CleanInv, OneDocEach, DocsAt
    <3>9. Done(<<r>>)
      BY <2>1, <2>9 DEF r
    <3> QED
      BY <1>1, <2>6, <2>7, <3>7, <3>8, <3>9, EndsStored
  <2> QED
    BY <2>8, <2>9
<1> QED
  BY <1>2, <1>3

\* A message is unlinked.
LEMMA CmdRemoveStep ==
  ASSUME IInv, NEW h \in headers, CmdRemove(h)
  PROVE  IInv'
<1>1. UNCHANGED <<mail, kills, store, headers>> /\ pc = "read" /\ running
  BY DEF CmdRemove, Ready
<1>2. CASE Done(<<Error>>) /\ UNCHANGED files
  BY <1>1, <1>2, Fails DEF world
<1>3. CASE \E d \in {x \in store.work.docs : x.id = h.id} :
             /\ d.path \in files
             /\ files' = files \ {d.path}
             /\ job' = [NoJob EXCEPT !.id = h.id, !.path = d.path, !.meant = h]
             /\ pc' = "unlinked" /\ out' = <<>>
             /\ UNCHANGED <<running, clean>>
  <2> PICK d \in store.work.docs :
             /\ d.id = h.id /\ files' = files \ {d.path}
             /\ job' = [NoJob EXCEPT !.id = h.id, !.path = d.path, !.meant = h]
             /\ pc' = "unlinked" /\ out' = <<>>
             /\ UNCHANGED <<running, clean>>
    BY <1>3
  <2>1. d.path \in Paths /\ h \in Headers /\ h.id \in DocIds
    BY DEF IInv, TypeInv, ServerStore, GoodStore, Stores, Contents, Docs, Headers
  <2>2. /\ job'.ids = {} /\ job'.id = h.id /\ job'.path = d.path
        /\ job'.meant = h
    BY DEF NoJob
  <2>3. job' \in Jobs
    <3>1. h.id \in HeaderIds
      BY <2>1 DEF HeaderIds, DocIds
    <3> QED
      BY <2>1, <3>1, NoJobTyped DEF NoJob, Jobs
  <2>4. out' \in Seq(Replies) /\ Len(out') = 0
    OBVIOUS
  <2>5. IsFiniteSet(files') /\ files' \subseteq Paths
    BY FS_RemoveElement DEF IInv, TypeInv
  <2>6. TypeInv'
    BY <1>1, <2>3, <2>4, <2>5 DEF IInv, TypeInv
  <2>7. JobInv'
    BY <1>1, <2>1, <2>2 DEF JobInv
  <2>8. AnswersInv'
    BY <2>4 DEF AnswersInv
  <2>9. MeantInv'
    BY <1>1, <2>2 DEF IInv, MeantInv, TrueHeader
  <2>10. CleanInv'
    BY <1>1, <2>2 DEF IInv, CleanInv, OneDocEach, AllButJob
  <2> QED
    BY <2>6, <2>7, <2>8, <2>9, <2>10 DEF IInv
<1> QED
  BY <1>2, <1>3 DEF CmdRemove

LEMMA RemoveUnlinkedStep == IInv /\ RemoveUnlinked => IInv'
<1> SUFFICES ASSUME IInv, RemoveUnlinked PROVE IInv'
  OBVIOUS
<1> DEFINE r == Reply("removed", job.id, job.path)
           e == DeleteByTerm(store.work, job.path)
<1>1. PICK o \in RemovePath(store, job.path) :
             store' = o.s /\ Done(<<IF o.ok THEN r ELSE Error>>)
  BY DEF RemoveUnlinked
<1>2. UNCHANGED <<world, kills, headers>> /\ pc = "unlinked"
  BY DEF RemoveUnlinked
<1>3. /\ running /\ job \in Jobs /\ job.path \in Paths
      /\ \E d \in store.work.docs : d.id = job.id /\ d.path = job.path
  BY <1>2 DEF IInv, TypeInv, JobInv
<1>4. /\ GoodStore(store) /\ store.badCommits = 0 /\ OrderedStore(store)
      /\ store.work \in Contents /\ Ordered(store.work) /\ Ordered(store.disk)
      /\ store.badWrites <= WriteFaults
  BY DEF IInv, TypeInv, ServerStore, GoodStore, Stores, OrderedStore
<1>5. /\ o.s.badCommits = store.badCommits /\ o.s.disk = store.disk
      /\ \/ o.ok /\ o.s.work = e /\ o.s.badWrites = store.badWrites
         \/ ~o.ok /\ o.s.work = store.disk /\ o.s.badWrites < store.badWrites
  BY <1>1, <1>3, <1>4, RemoveFrame
<1>6. GoodStore(o.s)
  BY <1>1, <1>3, <1>4, GoodRemovePath
<1>7. e.docs = store.work.docs \ DocsAt(store.work, job.path)
      /\ e.last = store.work.last
  BY <1>4 DEF DeleteByTerm, Contents
<1>8. Ordered(e)
  BY <1>3, <1>4, OrderedDelete
<1>9. r \in Replies /\ r.kind = "removed" /\ r.id = job.id
  BY <1>3, RepliesTyped DEF Kinds, Jobs
<1> HIDE DEF r, e
<1>10. ServerStore(store')
  <2>1. o.s.badWrites \in Int /\ store.badWrites \in Int /\ WriteFaults \in Int
    BY <1>4, <1>6, BoundsAssumption DEF GoodStore, Stores
  <2> QED
    BY <1>1, <1>4, <1>5, <1>6, <1>8, <2>1 DEF ServerStore, OrderedStore
<1>11. CASE ~o.ok
  BY <1>1, <1>2, <1>3, <1>5, <1>10, <1>11, ErrorReply, EndsStored
<1>12. CASE o.ok
  <2>1. SameNames(store.work, e) /\ store'.badWrites <= store.badWrites
    <3>1. store.work.last \in Int /\ store.badWrites \in Int
      BY <1>4, MaxDocIdAssumption DEF Contents, GoodStore, Stores
    <3> QED
      BY <1>1, <1>5, <1>7, <1>12, <3>1 DEF SameNames
  <2>2. TrueReply(r, e)
    BY <1>3, <1>4, <1>7, <1>9 DEF TrueReply, Ordered, DocsAt
  <2>3. /\ <<r>> \in Seq(Replies)
        /\ \A i \in 1..Len(<<r>>) : TrueReply(<<r>>[i], e)
    BY <1>9, <2>2, OneReply
  <2>4. clean => OneDocEach(e) /\ \A d \in e.docs : d.path \in files
    BY <1>2, <1>3, <1>4, <1>7
       DEF IInv, CleanInv, OneDocEach, AllButJob, DocsAt, Ordered
  <2>5. Done(<<r>>) /\ store'.work = e
    BY <1>1, <1>5, <1>12
  <2> QED
    BY <1>2, <1>3, <1>10, <2>1, <2>3, <2>4, <2>5, EndsStored
<1> QED
  BY <1>11, <1>12

-----------------------------------------------------------------------------
(* find and index.                                                         *)

LEMMA CmdFindStep == IInv /\ CmdFind => IInv'
<1> SUFFICES ASSUME IInv, CmdFind PROVE IInv'
  OBVIOUS
<1>1. /\ UNCHANGED <<files, mail, kills, store, running>>
      /\ pc = "read" /\ running /\ pc' = "read" /\ job' = NoJob
      /\ out' = <<Plain("found")>>
  BY DEF CmdFind, Ready, world, Done
<1>2. headers' = {[id |-> d.id, name |-> d.path.name, old |-> FALSE] :
                     d \in store.work.docs}
  BY DEF CmdFind
<1>3. /\ out' \in Seq(Replies)
      /\ \A i \in 1..Len(out') : out'[i].kind = "found"
  BY <1>1, RepliesTyped, OneReply DEF Kinds
<1>4. clean' = clean
  <2>1. clean' = (clean /\ NoError(out'))
    BY <1>1 DEF CmdFind, Done, NoError
  <2>2. NoError(out') /\ clean \in BOOLEAN
    BY <1>3 DEF NoError, IInv, TypeInv
  <2> QED
    BY <2>1, <2>2
<1>5. store.work.docs \subseteq Docs /\ Ordered(store.work)
  BY DEF IInv, TypeInv, ServerStore, GoodStore, OrderedStore, Stores, Contents
<1>6. TypeInv'
  <2>1. \A d \in store.work.docs : d.id \in DocIds /\ d.path.name \in Names
    BY <1>5, PathsAssumption DEF Docs
  <2>2. \A d \in store.work.docs :
           [id |-> d.id, name |-> d.path.name, old |-> FALSE] \in Headers
    BY <2>1 DEF Headers
  <2>3. headers' \subseteq Headers
    BY <1>2, <2>2
  <2> QED
    BY <1>1, <1>3, <1>4, <2>3, NoJobTyped DEF IInv, TypeInv
<1>7. JobInv'
  BY <1>1 DEF JobInv, NoJob
<1>8. AnswersInv'
  BY <1>1, <1>3 DEF AnswersInv, TrueReply
<1>9. MeantInv'
  <2>1. \A h \in headers' : TrueHeader(h, store.work)
    BY <1>2, <1>5 DEF TrueHeader, Ordered
  <2> QED
    BY <1>1, <2>1 DEF MeantInv, NoJob
<1>10. CleanInv'
  BY <1>1, <1>4 DEF IInv, CleanInv, OneDocEach
<1> QED
  BY <1>6, <1>7, <1>8, <1>9, <1>10 DEF IInv

LEMMA CleanUpContents ==
  ASSUME NEW c \in Contents
  PROVE  /\ CleanUp(c) \in Contents
         /\ CleanUp(c).docs = {d \in c.docs : d.path \in files}
         /\ CleanUp(c).last = c.last
BY DEF CleanUp, Contents

\* What an index makes of the documents.
LEMMA IndexedContent ==
  ASSUME NEW w \in Contents, w = store.work, Ordered(w), files \subseteq Paths,
         IsFiniteSet(files), w.last + Cardinality(Missing) <= MaxDocId,
         NEW c \in Indexed(w)
  PROVE  /\ CleanUp(c) \in Contents /\ Ordered(CleanUp(c))
         /\ SameNames(w, CleanUp(c))
         /\ \A d \in CleanUp(c).docs : d.path \in files
<1> DEFINE n == Cardinality(Missing)
<1>1. IsFiniteSet(Missing) /\ Missing \subseteq Paths
  BY FS_Subset DEF Missing
<1>2. n \in Nat
  BY <1>1, FS_CardinalityType
<1> HIDE DEF n
<1>3. w.last \in Nat /\ w.last + n \in 0..MaxDocId
  <2>1. w.last \in 0..MaxDocId /\ w.last + n <= MaxDocId
    BY DEF Contents, n
  <2> QED
    BY <1>2, <2>1, MaxDocIdAssumption
<1>4. PICK order \in [Missing -> (w.last + 1)..(w.last + n)] :
             /\ \A p, q \in Missing : order[p] = order[q] => p = q
             /\ c = [w EXCEPT
                       !.docs = @ \cup {Doc(order[p], p, MsgIdOf[p.name]) :
                                          p \in Missing},
                       !.last = @ + n]
  BY DEF Indexed, n
<1> DEFINE new == {Doc(order[p], p, MsgIdOf[p.name]) : p \in Missing}
           e == CleanUp(c)
<1>6. \A p \in Missing : order[p] \in DocIds /\ order[p] > w.last
                         /\ order[p] <= w.last + n
  <2> TAKE p \in Missing
  <2>1. order[p] \in (w.last + 1)..(w.last + n)
    BY <1>4
  <2> QED
    BY <1>2, <1>3, <2>1, MaxDocIdAssumption DEF DocIds
<1>7. \A d \in new : /\ d \in Docs /\ d.path \in Missing /\ d.id = order[d.path]
                     /\ d.id > w.last /\ d.id <= w.last + n
  <2> TAKE d \in new
  <2>1. PICK p \in Missing : d = Doc(order[p], p, MsgIdOf[p.name])
    OBVIOUS
  <2>2. MsgIdOf[p.name] \in Bodies
    BY <1>1, PathsAssumption, MsgIdsAssumption
  <2>3. d \in Docs /\ d.id = order[p] /\ d.path = p
    BY <1>1, <1>6, <2>1, <2>2 DEF Doc, Docs
  <2> QED
    BY <1>6, <2>3
<1>8. \A d, x \in new : d.id = x.id => d = x
  <2> TAKE d, x \in new
  <2>1. PICK p \in Missing : d = Doc(order[p], p, MsgIdOf[p.name])
    OBVIOUS
  <2>2. PICK q \in Missing : x = Doc(order[q], q, MsgIdOf[q.name])
    OBVIOUS
  <2> QED
    BY <1>4, <2>1, <2>2 DEF Doc
<1>5. c = [w EXCEPT !.docs = w.docs \cup new, !.last = w.last + n]
  BY <1>4
<1> HIDE DEF new, e
<1>9. \A d \in w.docs : d \in Docs /\ d.id \in Nat /\ d.id <= w.last
  BY DEF Contents, Docs, DocIds, Ordered
<1>10. /\ e \in Contents /\ e.docs = {d \in w.docs \cup new : d.path \in files}
       /\ e.last = w.last + n
  <2>1. w.docs \cup new \in SUBSET Docs
    BY <1>7, <1>9
  <2>2. /\ c \in Contents /\ c.docs = w.docs \cup new /\ c.last = w.last + n
    <3> DEFINE D == w.docs \cup new
               l == w.last + n
    <3>1. D \in SUBSET Docs /\ l \in 0..MaxDocId
          /\ c = [w EXCEPT !.docs = D, !.last = l]
      BY <1>3, <1>5, <2>1
    <3> HIDE DEF D, l
    <3>2. c \in Contents /\ c.docs = D /\ c.last = l
      BY <3>1 DEF Contents
    <3> QED
      BY <3>2 DEF D, l
  <2> QED
    BY <2>2, CleanUpContents DEF e
<1>11. \A d \in new : d.id \in Nat
  BY <1>7 DEF Docs, DocIds
<1>12. Ordered(e)
  <2>1. \A d \in e.docs : d.id <= e.last
    <3> TAKE d \in e.docs
    <3>1. CASE d \in w.docs
      BY <1>2, <1>3, <1>10, <1>9, <3>1
    <3>2. CASE d \in new
      BY <1>10, <1>7, <3>2
    <3> QED
      BY <1>10, <3>1, <3>2
  <2>2. ASSUME NEW d \in e.docs, NEW x \in e.docs, d.id = x.id PROVE d = x
    <3>1. CASE d \in w.docs /\ x \in w.docs
      BY <2>2, <3>1 DEF Ordered
    <3>2. CASE d \in new /\ x \in new
      BY <1>8, <2>2, <3>2
    <3>3. ~(d \in w.docs /\ x \in new) /\ ~(d \in new /\ x \in w.docs)
      BY <1>3, <1>7, <1>9, <1>11, <2>2
    <3> QED
      BY <1>10, <3>1, <3>2, <3>3
  <2> QED
    BY <2>1, <2>2 DEF Ordered
<1>13. SameNames(w, e)
  <2>1. w.last <= e.last
    BY <1>2, <1>3, <1>10
  <2>2. ASSUME NEW d \in e.docs, d.id <= w.last PROVE d \in w.docs
    BY <1>3, <1>10, <1>7, <1>11, <2>2
  <2> QED
    BY <2>1, <2>2 DEF SameNames
<1>14. \A d \in e.docs : d.path \in files
  BY <1>10
<1> QED
  BY <1>10, <1>12, <1>13, <1>14 DEF e

LEMMA CmdIndexStep == IInv /\ CmdIndex => IInv'
<1> SUFFICES ASSUME IInv, CmdIndex PROVE IInv'
  OBVIOUS
<1>1. /\ UNCHANGED <<files, mail, kills, running, pc, job, headers>>
      /\ pc = "read" /\ running /\ out' = <<Plain("indexed")>>
  BY DEF CmdIndex, Ready, world, server
<1>2. job = NoJob
  BY <1>1 DEF IInv, JobInv
<1>3. PICK c \in Indexed(store.work), n \in 0..(BatchSize - 1) :
             /\ store' \in StoreFlush([store EXCEPT !.work = CleanUp(c),
                                                    !.processed = n])
             /\ clean' = OneDocEach(store'.work)
  BY DEF CmdIndex
<1>4. /\ GoodStore(store) /\ store.badCommits = 0
      /\ store.work \in Contents /\ Ordered(store.work)
      /\ store.badWrites <= WriteFaults /\ store.badWrites \in Nat
  BY DEF IInv, TypeInv, ServerStore, GoodStore, Stores, OrderedStore
<1>5. /\ CleanUp(c) \in Contents /\ Ordered(CleanUp(c))
      /\ SameNames(store.work, CleanUp(c))
      /\ \A d \in CleanUp(c).docs : d.path \in files
  <2>1. store.work.last + Cardinality(Missing) <= MaxDocId
    BY DEF CmdIndex
  <2>2. files \subseteq Paths /\ IsFiniteSet(files)
    BY DEF IInv, TypeInv
  <2> QED
    BY <1>3, <1>4, <2>1, <2>2, IndexedContent
<1> DEFINE s == [store EXCEPT !.work = CleanUp(c), !.processed = n]
<1>6. /\ GoodStore(s) /\ s.work = CleanUp(c) /\ s.badCommits = 0
      /\ s.badWrites = store.badWrites
  BY <1>4, <1>5 DEF GoodStore, Stores
<1>7. store' \in StoreFlush(s)
  BY <1>3
<1> HIDE DEF s
<1>8. /\ GoodStore(store') /\ store'.badCommits = 0
      /\ store'.work = CleanUp(c) /\ store'.disk = CleanUp(c)
  BY <1>6, <1>7, QuietFlush
<1>9. store'.badWrites = store.badWrites
  BY <1>6, <1>7, KeptFlush DEF Kept
<1>10. ServerStore(store')
  BY <1>4, <1>5, <1>8, <1>9 DEF ServerStore, OrderedStore
<1>11. /\ out' \in Seq(Replies)
       /\ \A i \in 1..Len(out') : out'[i].kind = "indexed"
  BY <1>1, RepliesTyped, OneReply DEF Kinds
<1>12. TypeInv'
  <2>1. clean' \in BOOLEAN
    BY <1>3 DEF OneDocEach
  <2> QED
    BY <1>1, <1>10, <1>11, <2>1 DEF IInv, TypeInv
<1>13. JobInv'
  BY <1>1, <1>2 DEF JobInv, NoJob
<1>14. AnswersInv'
  BY <1>1, <1>11 DEF AnswersInv, TrueReply
<1>15. MeantInv'
  BY <1>1, <1>4, <1>5, <1>8, <1>9, <1>10, MeantStays
<1>16. CleanInv'
  BY <1>1, <1>3, <1>5, <1>8 DEF CleanInv, OneDocEach
<1> QED
  BY <1>12, <1>13, <1>14, <1>15, <1>16 DEF IInv

-----------------------------------------------------------------------------
(* The server starts and stops.                                            *)

LEMMA StartStep == IInv /\ Start => IInv'
<1> SUFFICES ASSUME IInv, Start PROVE IInv'
  OBVIOUS
<1>1. /\ UNCHANGED <<files, mail, kills, headers, clean>>
      /\ ~running /\ running' = TRUE /\ pc' = "read" /\ job' = NoJob
      /\ out' = <<>> /\ store' \in OpenWritable(store, FALSE)
  BY DEF Start, world
<1>2. /\ store \in Stores /\ store.badCommits = 0 /\ Ordered(store.disk)
      /\ store.badWrites <= WriteFaults /\ store.work = store.disk
      /\ store.disk \in Contents /\ pc = "read" /\ \A h \in headers : h.old
  BY <1>1 DEF IInv, TypeInv, JobInv, ServerStore, GoodStore, OrderedStore, Stores
<1>3. /\ GoodStore(store') /\ store'.badCommits = 0
      /\ store'.badWrites = store.badWrites
      /\ store'.disk \in {store.disk, EmptyContent}
      /\ store'.work = [store'.disk EXCEPT !.version = "current"]
  BY <1>1, <1>2, GoodOpenWritable, OpenFrame
<1>4. store'.disk \in Contents /\ Ordered(store'.disk)
  BY <1>2, <1>3, ContentsEmpty, OrderedEmpty
<1>5. Ordered(store'.work) /\ store'.work.docs = store'.disk.docs
  BY <1>3, <1>4, OrderedVersion DEF Contents, Versions
<1>6. ServerStore(store')
  BY <1>2, <1>3, <1>4, <1>5 DEF ServerStore, OrderedStore
<1>7. out' \in Seq(Replies) /\ Len(out') = 0
  BY <1>1
<1>8. TypeInv'
  BY <1>1, <1>6, <1>7, NoJobTyped DEF IInv, TypeInv
<1>9. JobInv'
  BY <1>1 DEF JobInv, NoJob
<1>10. AnswersInv'
  BY <1>7 DEF AnswersInv
<1>11. MeantInv'
  BY <1>1, <1>2 DEF MeantInv, NoJob
<1>12. CleanInv'
  <2>1. store'.work.docs = store.work.docs \/ store'.work.docs = {}
    BY <1>2, <1>3, <1>5 DEF EmptyContent
  <2> QED
    BY <1>1, <1>2, <2>1 DEF IInv, CleanInv, OneDocEach
<1> QED
  BY <1>8, <1>9, <1>10, <1>11, <1>12 DEF IInv

LEMMA Stops ==
  ASSUME IInv, UNCHANGED <<files, mail>>, kills' \in 0..MaxKills, Stopped,
         ServerStore(store'), store'.work = store'.disk,
         NEW r \in Seq(Replies), out' = r,
         \A i \in 1..Len(r) : r[i].kind = "quitting",
         clean' = FALSE \/ /\ clean' = clean /\ pc = "read"
                           /\ store'.work.docs = store.work.docs
  PROVE  IInv'
<1>1. /\ ~running' /\ running' \in BOOLEAN /\ pc' = "read" /\ job' = NoJob
      /\ headers' = {[h EXCEPT !.old = TRUE] : h \in headers}
  BY DEF Stopped
<1>2. headers' \subseteq Headers /\ \A h \in headers' : h.old
  BY <1>1 DEF IInv, TypeInv, Headers
<1>3. TypeInv'
  BY <1>1, <1>2, NoJobTyped DEF IInv, TypeInv
<1>4. JobInv'
  BY <1>1, <1>2 DEF JobInv, NoJob
<1>5. AnswersInv'
  BY <1>1 DEF AnswersInv, TrueReply
<1>6. MeantInv'
  BY <1>1, <1>2 DEF MeantInv, NoJob
<1>7. CleanInv'
  BY <1>1 DEF IInv, CleanInv, OneDocEach
<1> QED
  BY <1>3, <1>4, <1>5, <1>6, <1>7 DEF IInv

LEMMA StoreUnopened ==
  ASSUME NEW s, ServerStore(s)
  PROVE  /\ ServerStore(Unopened(s))
         /\ Unopened(s).work = s.disk /\ Unopened(s).disk = s.disk
BY GoodUnopened, UnopenedFrame DEF ServerStore, GoodStore, OrderedStore

LEMMA QuitStep == IInv /\ Quit => IInv'
<1> SUFFICES ASSUME IInv, Quit PROVE IInv'
  OBVIOUS
<1>1. PICK s \in StoreFlush(store) : store' = Unopened(s)
  BY DEF Quit
<1>2. /\ UNCHANGED <<files, mail, kills, clean>> /\ pc = "read" /\ Stopped
      /\ out' = <<Plain("quitting")>>
  BY DEF Quit, Ready, world
<1>3. /\ GoodStore(s) /\ s.badCommits = 0 /\ s.badWrites = store.badWrites
      /\ s.work = store.work /\ s.disk = store.work
  BY <1>1, QuietFlush, KeptFlush DEF IInv, TypeInv, ServerStore, Kept
<1>4. ServerStore(s)
  BY <1>3 DEF IInv, TypeInv, ServerStore, OrderedStore
<1>5. /\ ServerStore(store') /\ store'.work = store'.disk
      /\ store'.work.docs = store.work.docs
  BY <1>1, <1>3, <1>4, StoreUnopened
<1>6. /\ out' \in Seq(Replies)
      /\ \A i \in 1..Len(out') : out'[i].kind = "quitting"
  BY <1>2, RepliesTyped, OneReply DEF Kinds
<1>7. kills' \in 0..MaxKills
  BY <1>2 DEF IInv, TypeInv
<1> QED
  BY <1>2, <1>5, <1>6, <1>7, Stops

LEMMA KillStep == IInv /\ Kill => IInv'
<1> SUFFICES ASSUME IInv, Kill PROVE IInv'
  OBVIOUS
<1>1. /\ UNCHANGED <<files, mail>> /\ Stopped /\ out' = <<>> /\ clean' = FALSE
      /\ store' = Unopened(store) /\ kills < MaxKills /\ kills' = kills + 1
  BY DEF Kill, world
<1>2. ServerStore(store') /\ store'.work = store'.disk
  BY <1>1, StoreUnopened DEF IInv, TypeInv
<1>3. kills' \in 0..MaxKills
  BY <1>1, BoundsAssumption DEF IInv, TypeInv
<1>4. /\ out' \in Seq(Replies)
      /\ \A i \in 1..Len(out') : out'[i].kind = "quitting"
  BY <1>1
<1> QED
  BY <1>1, <1>2, <1>3, <1>4, Stops

-----------------------------------------------------------------------------
(* The invariant is inductive.                                             *)

LEMMA StepIInv == IInv /\ [Next]_vars => IInv'
<1> SUFFICES ASSUME IInv, [Next]_vars PROVE IInv'
  OBVIOUS
<1>1. CASE UNCHANGED vars
  <2>1. UNCHANGED <<files, mail, kills, store, running, pc, job, out, headers,
                    clean>>
    BY <1>1 DEF vars, world, server
  <2>2. TypeInv' /\ JobInv'
    BY <2>1 DEF IInv, TypeInv, JobInv
  <2>3. AnswersInv' /\ MeantInv' /\ CleanInv'
    BY <2>1 DEF IInv, AnswersInv, NoError, TrueReply, Pending, MeantInv,
                TrueHeader, CleanInv, OneDocEach, AllButJob, Target
  <2> QED
    BY <2>2, <2>3 DEF IInv
<1>2. CASE Start \/ Quit \/ Kill \/ Mail
  BY <1>2, StartStep, QuitStep, KillStep, MailStep
<1>3. CASE Commands
  BY <1>3, CmdFindStep, BadStep, CmdIndexStep, CmdAddStep, CmdRemoveStep,
     CmdMoveStep, CmdMoveMsgidStep DEF Commands
<1>4. CASE Moving
  BY <1>4, NextMessageStep, CheckMoveStep, RenameFileStep, OpenMovedStep,
     UpdateStoreStep, MoveDoneStep DEF Moving
<1>5. CASE RemoveUnlinked
  BY <1>5, RemoveUnlinkedStep
<1> QED
  BY <1>1, <1>2, <1>3, <1>4, <1>5 DEF Next

LEMMA IInvAlways == Spec => []IInv
BY InitIInv, StepIInv, PTL DEF Spec

-----------------------------------------------------------------------------
(* The theorems.                                                           *)

\* The variables of the server keep their types, whatever other programs do
\* to the files and wherever the server is killed.
THEOREM TypeCorrect == Spec => []TypeOK
<1>1. IInv => TypeOK
  <2> SUFFICES ASSUME IInv PROVE TypeOK
    OBVIOUS
  <2>1. /\ job.ids \subseteq DocIds /\ job.id \in HeaderIds
        /\ job.path \in Paths \cup {NoPath}
        /\ job.mdir \in Mdirs \cup {"same"} /\ job.flags \in Flags \cup {"none"}
        /\ \A h \in headers \cup {job.meant} : h = NoHeader \/ h \in Headers
    BY DEF IInv, TypeInv, Jobs
  <2>2. \A i \in 1..Len(out) : out[i] \in Replies
    BY DEF IInv, TypeInv
  <2>3. store \in Stores
    BY DEF IInv, TypeInv, ServerStore, GoodStore
  <2> QED
    BY <2>1, <2>2, <2>3 DEF IInv, TypeInv, TypeOK, Headers, Replies, Kinds
<1> QED
  BY <1>1, IInvAlways, PTL

\* A command on a docid that mu4e was shown in this session (do_move,
\* cmd_remove) renames or unlinks the message that mu4e showed under it, or
\* none: Xapian never gives a docid out twice, and moving a message keeps it.
THEOREM CommandsMeanWhatTheySay == Spec => []ActsOnWhatWasMeantInSession
<1>1. IInv => ActsOnWhatWasMeantInSession
  BY DEF IInv, MeantInv, ActsOnWhatWasMeantInSession, ActsOnWhatWasMeant
<1> QED
  BY <1>1, IInvAlways, PTL

\* When cmd_add, cmd_move or cmd_remove answers without an error, the store
\* holds what the answer says, for a move of several messages at the end of
\* the command still what was said of each of them.
THEOREM TrueAnswers == Spec => []AnswersAreTrue
<1>1. IInv => AnswersAreTrue
  BY DEF IInv, AnswersInv, AnswersAreTrue, NoError, TrueReply, Errors
<1> QED
  BY <1>1, IInvAlways, PTL

\* Commands that succeed keep what index left in order: no document of the
\* server is without its file, and no file has two.
THEOREM DocsKeepTheirFiles == Spec => []DocsHaveFiles
<1>1. IInv => DocsHaveFiles
  BY DEF IInv, CleanInv, DocsHaveFiles, Ready
<1> QED
  BY <1>1, IInvAlways, PTL

=============================================================================
