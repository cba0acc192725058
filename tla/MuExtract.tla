----------------------------- MODULE MuExtract ------------------------------
(***************************************************************************)
(* Saving the parts of messages: mu extract and mu verify, and what mu     *)
(* server does for the commands extract, view (with :extract-images) and   *)
(* compose type:forward.  The parts that mu server makes temporary files   *)
(* of are kept in a cache directory, and used again.                       *)
(*                                                                         *)
(* A file is opened in one step and written in the next: writing may fail, *)
(* with or without being noticed, and the program may be killed.  A        *)
(* message file may be replaced by one with other content, as happens to a *)
(* draft.                                                                  *)
(***************************************************************************)
EXTENDS MuParts, TLC

CONSTANTS
  Mails,      \* the messages that the file at Path may hold
  Requests,   \* what mu may be asked (see the MC module)
  Faults,     \* what may go wrong: "write", "short", "close", "kill", "play"
  Strangers,  \* files that others may put in the target directory
  MaxJobs,    \* bound: requests
  MaxEdits    \* bound: times that the message file is replaced or removed

VARIABLES
  mail,   \* the message in the file, or Null
  edits,  \* how often it was replaced
  disk,   \* the files in the target and cache directories (see States)
  job,    \* the request that is being done, or Null
  jobs,   \* how many there were
  told    \* what the last one said, or Null

vars == <<mail, edits, disk, job, jobs, told>>

Results == {"ok", "error", "crash"}
Commands == {"extract", "verify", "view", "save", "open", "temp", "forward"}

\* How much of a file is there: not all of it; all of it; only what a short
\* write wrote; or all but what may be lost as it could not be closed.
States == {"half", "whole", "short", "unclosed"}

ASSUME BoundsAssumption == MaxJobs \in Nat /\ MaxEdits \in Nat
ASSUME MailsAssumption == \A m \in Mails : NotTooDeep(m)
ASSUME RequestsAssumption ==
  \A req \in Requests :
    /\ req.cmd \in Commands /\ req.index \in Nat
    /\ req.attachments \in BOOLEAN /\ req.all \in BOOLEAN /\ req.overwrite \in BOOLEAN
    /\ req.parts # Null => req.parts \in Seq(Nat)
ASSUME ResultsAssumption == Null \notin Results /\ Null \notin Mails

TypeOK ==
  /\ mail \in Mails \cup {Null} /\ edits \in 0..MaxEdits /\ jobs \in 0..MaxJobs
  /\ \A f \in DOMAIN disk : disk[f].state \in States
  /\ job # Null => /\ job.cmd \in Commands /\ job.phase \in {"open", "write"}
                   /\ \A i \in DOMAIN job.todo : job.todo[i].index \in Nat
  /\ told # Null => told.result \in Results

Init ==
  /\ mail \in Mails /\ edits = 0
  /\ disk = <<>>
  /\ job = Null /\ jobs = 0 /\ told = Null

\* A disk with a file more on it, or another one in its place.
With(d, f, file) == [g \in DOMAIN d \cup {f} |-> IF g = f THEN file ELSE d[g]]

-----------------------------------------------------------------------------
(* Others.                                                                 *)

\* The message file is replaced or removed.
Edit ==
  /\ edits < MaxEdits
  /\ mail' \in (Mails \cup {Null}) \ {mail}
  /\ edits' = edits + 1
  /\ UNCHANGED <<disk, job, jobs, told>>

\* Somebody else makes a file in the target directory.
Create(f) ==
  /\ f \notin DOMAIN disk
  /\ disk' = With(disk, f, [of |-> Null, state |-> "whole"])
  /\ UNCHANGED <<mail, edits, job, jobs, told>>

-----------------------------------------------------------------------------
(* What is asked, and which parts are to be saved.                         *)

Tell(j, result) ==
  /\ told' = [cmd |-> j.cmd, req |-> j.req, msg |-> j.msg, result |-> result,
              files |-> j.files]
  /\ job' = Null

\* mu_config_get_msg_options, and the options of each command of the server.
OptionsOf(req) ==
  IF req.cmd \in {"extract", "verify", "view"} THEN req.opts ELSE {}

\* Mutant: compose uses the temporary files that are there.
WritingForwardExisting(req) ==
  IF req.cmd = "save" \/ (req.cmd = "extract" /\ req.overwrite) THEN "overwrite"
  ELSE IF req.cmd = "extract" THEN "new" ELSE "use existing"

Writing(req) ==
  IF req.cmd \in {"save", "forward"} \/ (req.cmd = "extract" /\ req.overwrite)
    THEN "overwrite"
  ELSE IF req.cmd = "extract" THEN "new" ELSE "use existing"

\* The parameters that mu extract does not accept.
BadParams(req) ==
  \/ (req.attachments \/ req.all) /\ (req.parts # Null \/ req.pattern # Null)
  \/ req.attachments /\ req.all

ShowOnly(req) ==
  req.pattern = Null /\ req.parts = Null /\ ~req.attachments /\ ~req.all

\* mu_msg_find_files puts what it finds in front of what it found.
FindFiles(m, opts, names) ==
  Reverse(Those(PartForeach(m, opts), LAMBDA p : GetFilename(p, FALSE) \in names))

\* Mutant: with --save-all everything is saved but attachments.
SaveAllButAttachments(m, req) ==
  Those(PartForeach(m, OptionsOf(req)), LAMBDA p :
    p.object.kind = "part" /\ (MaybeAttachment(p) = ~req.all))

\* ignore_part: leaf parts, and only attachments unless all are wanted.
SaveCertain(m, req) ==
  Those(PartForeach(m, OptionsOf(req)), LAMBDA p :
    p.object.kind = "part" /\ (req.all \/ MaybeAttachment(p)))

Indices(parts) == [i \in DOMAIN parts |-> parts[i].index]

\* The numbers of the parts to save, in the order in which it is done.
Wanted(m, req) ==
  CASE req.cmd = "extract" /\ req.parts # Null -> req.parts
    [] req.cmd = "extract" /\ req.parts = Null /\ req.pattern # Null ->
         Indices(FindFiles(m, OptionsOf(req), req.pattern))
    [] req.cmd = "extract" /\ req.parts = Null /\ req.pattern = Null ->
         Indices(SaveCertain(m, req))
    [] req.cmd = "forward" ->
         Indices(Those(PartForeach(m, {}), MaybeAttachment))
    [] req.cmd = "view" ->
         Indices(Those(PartForeach(m, req.opts), LAMBDA p : p.object.type = "image"))
    [] req.cmd \in {"save", "open", "temp"} -> <<req.index>>

NewJob(req) ==
  [cmd |-> req.cmd, req |-> req, msg |-> mail, phase |-> "open", files |-> {},
   todo |-> LET w == Wanted(mail, req) IN [i \in DOMAIN w |-> [index |-> w[i]]]]

Began(req) == [cmd |-> req.cmd, req |-> req, msg |-> mail, files |-> {}]

\* What is answered at once: nothing is saved.
AnswersAtOnce(req) ==
  IF mail = Null THEN "error"
  ELSE CASE req.cmd = "verify" ->
              IF CombinedStatus(mail, req.opts) = "good" THEN "ok" ELSE "error"
         [] req.cmd = "extract" ->
              IF BadParams(req) THEN "error"
              ELSE IF ShowOnly(req) THEN "ok"
              ELSE IF ~req.targetdir THEN "error"
              ELSE IF req.parts = Null /\ Wanted(mail, req) = <<>> THEN "error"
              ELSE Null
         [] OTHER -> Null

Begin(req) ==
  /\ job = Null /\ jobs < MaxJobs
  /\ jobs' = jobs + 1
  /\ IF AnswersAtOnce(req) # Null THEN Tell(Began(req), AnswersAtOnce(req))
     ELSE job' = NewJob(req) /\ told' = Null
  /\ UNCHANGED <<mail, edits, disk>>

-----------------------------------------------------------------------------
(* Saving one part.                                                        *)

\* The file for a part: in the target directory, where the client wants it,
\* or in the part of the cache that is for the path and the number.
FileOf(j, p) ==
  IF j.cmd = "extract" THEN <<"target", GetFilename(p, TRUE)>>
  ELSE IF j.cmd = "save" THEN <<"client">>
  ELSE <<"cache", p.index, GetFilename(p, TRUE)>>

\* A message part is saved as the message that is in it.
ContentOf(o) == IF o.kind = "message" THEN o.inside ELSE o.content

\* A failure ends mu extract and the commands of the server that save one part;
\* compose and view go on with the next one.
GoesOn(j) == j.cmd \in {"forward", "view"}

\* Mutant: the file of a part is closed before the next part.
Next1Closing(j) == [j EXCEPT !.todo = Tail(@), !.phase = "close"]

Next1(j) == [j EXCEPT !.todo = Tail(@), !.phase = "open"]

PartFailed ==
  /\ IF GoesOn(job) THEN job' = Next1(job) /\ UNCHANGED told ELSE Tell(job, "error")
  /\ UNCHANGED <<mail, edits, jobs>>

PartSaved(p) ==
  /\ job' = [Next1(job) EXCEPT !.files = @ \cup {[file |-> FileOf(job, p), index |-> p.index]}]
  /\ UNCHANGED <<mail, edits, jobs, told>>

Dies ==
  /\ Tell(job, "crash")
  /\ UNCHANGED <<mail, edits, disk, jobs>>

\* A program that plays the part may not be started.
Played(p) ==
  \/ PartSaved(p)
  \/ /\ "play" \in Faults
     /\ job.cmd = "open" \/ (job.cmd = "extract" /\ job.req.play)
     /\ PartFailed

Part == GetMimeObjectAtIndex(job.msg, OptionsOf(job.req), Head(job.todo).index)

\* Mutant: a file that is there is overwritten all the same.
OpensAnyway(f) == TRUE

\* mu_util_create_writeable_fd.
Opens(f) == Writing(job.req) = "overwrite" \/ f \notin DOMAIN disk

\* There may be no such part, which only the command save does not find out
\* before; the message in a message part may be missing, which is not
\* expected; and what was decrypted to find the part is gone.
MayCrash(p) ==
  IF p = Null THEN job.cmd = "save"
  ELSE p.freed \/ (p.object.kind = "message" /\ p.object.inside = Null)

\* save_object, up to the open file.
OpenPart ==
  /\ job # Null /\ job.phase = "open" /\ job.todo # <<>>
  /\ LET p == Part IN
     \/ MayCrash(p) /\ Dies
     \/ p = Null /\ job.cmd # "save" /\ PartFailed /\ UNCHANGED disk
     \/ /\ p # Null /\ (p.object.kind = "part" \/ p.object.inside # Null)
        /\ LET f == FileOf(job, p) IN
           IF Writing(job.req) = "use existing" /\ f \in DOMAIN disk
             THEN Played(p) /\ UNCHANGED disk
           ELSE IF ~Opens(f) THEN PartFailed /\ UNCHANGED disk
           ELSE /\ disk' = With(disk, f, [of |-> ContentOf(p.object), state |-> "half"])
                /\ job' = [job EXCEPT !.phase = "write"]
                /\ UNCHANGED <<mail, edits, jobs, told>>

\* What a write that is taken for success may leave.  One write(2) has to do
\* for a message in a message, and may write less than it was given; and that a
\* file cannot be closed is only noticed by callers that do not care for
\* errors, of which there are none.
Writes(o) ==
  {"whole"} \cup (IF o.kind = "message" THEN {"short"} \cap Faults ELSE {})
            \cup (IF "close" \in Faults THEN {"unclosed"} ELSE {})

\* A part of an invalid message has nothing to write; any write may fail.
WriteFails(p) == ContentOf(p.object) = Null \/ "write" \in Faults

WritePart ==
  /\ job # Null /\ job.phase = "write"
  /\ LET p == Part IN
     \/ /\ ContentOf(p.object) # Null
        /\ \E state \in Writes(p.object) :
             disk' = [disk EXCEPT ![FileOf(job, p)].state = state]
        /\ Played(p)
     \/ /\ WriteFails(p)
        /\ PartFailed /\ UNCHANGED disk

Finish ==
  /\ job # Null /\ job.phase = "open" /\ job.todo = <<>>
  /\ Tell(job, "ok")
  /\ UNCHANGED <<mail, edits, disk, jobs>>

\* The program is killed while it writes.
Kill ==
  /\ "kill" \in Faults
  /\ job # Null /\ job.phase = "write"
  /\ Dies

Next ==
  \/ \E req \in Requests : Begin(req)
  \/ OpenPart \/ WritePart \/ Finish \/ Kill
  \/ Edit \/ \E f \in Strangers : Create(f)

Spec == Init /\ [][Next]_vars

-----------------------------------------------------------------------------
(* Properties.                                                             *)

\* Without --overwrite mu extract leaves the files of others alone, whatever
\* the parts are called and whenever the files came to be.
NothingIsClobbered ==
  [][\A f \in DOMAIN disk :
       disk'[f] # disk[f] =>
         \/ job.cmd # "extract" \/ job.req.overwrite
         \/ job.phase = "write" /\ disk[f].state = "half"]_vars

\* All leaf parts of a message, wherever they are in it.
Leaves(m) == {w.object : w \in {v \in ToSet(Walk(m)) : v.object.kind = "part"}}

\* A file that holds the part o, as far as mu can tell: a short write of a
\* message and a close that fails are not noticed.
Enough(state, o) ==
  state \in {"whole", "unclosed"} \/ (state = "short" /\ o.kind = "message")

Holds(f, o) ==
  f \in DOMAIN disk /\ disk[f].of = ContentOf(o) /\ Enough(disk[f].state, o)

\* Without the options to look into messages and to decrypt, with which parts
\* get other numbers.
Plainly(opts) == "recurse" \notin opts /\ "decrypt" \notin opts

\* mu extract that succeeds has saved everything that was asked for: parts of
\* the same name do not take each other's place.
OkMeansAllSaved ==
  told # Null /\ told.cmd = "extract" /\ told.result = "ok" /\ ~told.req.overwrite
  /\ Plainly(OptionsOf(told.req)) =>
    /\ told.req.all => \A o \in Leaves(told.msg) : \E f \in DOMAIN disk : Holds(f, o)
    /\ told.req.attachments =>
         \A o \in {l \in Leaves(told.msg) : LooksLikeAttachment(l)} :
           \E f \in DOMAIN disk : Holds(f, o)
    /\ told.req.parts # Null =>
         \A i \in ToSet(told.req.parts) :
           \E w \in {Walk(told.msg)[i + 1]} :
             \E f \in DOMAIN disk : Holds(f, w.object)

\* A message that is flagged as one with attachments is not one without them
\* to mu extract --save-attachments: the index and the command have each a
\* notion of their own of what an attachment is.
FlaggedHasAttachments ==
  told # Null /\ told.cmd = "extract" /\ told.req.attachments
  /\ ~BadParams(told.req) /\ told.msg # Null =>
    ("attach" \in GetContentFlags(told.msg) => Wanted(told.msg, told.req) # <<>>)

\* What the server has saved or made a file of to forward is the part that
\* has that number in the message, as far as mu can tell all of it, whatever
\* an earlier attempt or an earlier message left in its place.
SavedIsThePart ==
  told # Null /\ told.cmd \in {"save", "forward"} /\ told.result = "ok" =>
    \A s \in told.files : Holds(s.file, Walk(told.msg)[s.index + 1].object)

\* A command that says it has saved what was asked for has done so; only a
\* message in a message may be cut short, and a file that cannot be closed may
\* lack what was not written by then.
SavedIsWhatWasAsked == OkMeansAllSaved /\ SavedIsThePart

\* mu verify says yes to a message with a signature, when there is none in it
\* that gpg could look at and found bad or could not judge.
VerifiedIsSigned ==
  told # Null /\ told.cmd = "verify" /\ told.result = "ok" =>
    LET signed == {o \in {w.object : w \in ToSet(Walk(told.msg))} :
                     /\ o.kind = "signed"
                     /\ \E i \in DOMAIN o.children : o.children[i].type = "pgp-signature"}
    IN /\ \E o \in signed : o.sigs # Null
       /\ \A o \in signed : o.sigs # Null => ToSet(o.sigs) \subseteq {"good"}

=============================================================================
