------------------------------ MODULE MuServer ------------------------------
(***************************************************************************)
(* `mu server' (mu/mu-cmd-server.c): a loop that reads a command from mu4e *)
(* and handles it, with the moving of message files (lib/mu-maildir.c)     *)
(* that a move consists of.  Other mail programs rename and delete files   *)
(* between any two system calls; the server may be killed and is started   *)
(* again by the next command of mu4e, which keeps its headers.             *)
(*                                                                         *)
(* A path is [name, mdir, flags]: moving a message changes mdir and flags  *)
(* and keeps the name.  The body of a document is its message-id.          *)
(***************************************************************************)
EXTENDS MuStoreOps, Sequences

CONSTANTS
  Names,        \* names of message files, without their flags
  Mdirs,        \* maildirs
  Flags,        \* what the flags make of a file name (new, or cur with flags)
  MsgIdOf,      \* name -> message-id
  MaxMail,      \* bound: what other mail programs do to the files
  MaxKills,     \* bound: how often the server is killed
  WriteFaults   \* bound: Xapian writes that throw

ASSUME PathsAssumption == Paths = [name : Names, mdir : Mdirs, flags : Flags]
ASSUME MsgIdsAssumption == MsgIdOf \in [Names -> Bodies]
ASSUME BoundsAssumption == /\ MaxMail \in Nat /\ MaxKills \in Nat
                           /\ WriteFaults \in Nat

VARIABLES
  files,     \* the paths at which there is a file
  mail,      \* how much of MaxMail is used
  kills,     \* how much of MaxKills is used
  store,     \* the store
  running,   \* the server runs
  pc,        \* what it does with the command it has read
  job,       \* the command: docids still to move, the one in hand, ...
  out,       \* the replies to the last command
  headers,   \* docids mu4e shows, and what it takes them for; one stays
             \*   after its message was removed, for commands already sent
  clean      \* history: nothing has happened since an index that would
             \*   explain a difference between the files and the documents

world == <<files, mail>>
server == <<running, pc, job>>
vars == <<world, kills, store, server, out, headers, clean>>

NoHeader == [id |-> InvalidDocId, name |-> "none", old |-> FALSE]
NoPath == [name |-> "none", mdir |-> "none", flags |-> "none"]
NoJob == [ids |-> {}, id |-> InvalidDocId, path |-> NoPath, mdir |-> "same",
          flags |-> "none", meant |-> NoHeader]

Reply(kind, id, p) == [kind |-> kind, id |-> id, path |-> p]
Error == Reply("error", InvalidDocId, NoPath)
Plain(kind) == Reply(kind, InvalidDocId, NoPath)

Init ==
  /\ files = {} /\ mail = 0 /\ kills = 0
  /\ store = [work |-> EmptyContent, disk |-> EmptyContent,
              xtxn |-> FALSE, inTxn |-> FALSE, processed |-> 0,
              badWrites |-> WriteFaults, badCommits |-> 0]
  /\ running = FALSE /\ pc = "read" /\ job = NoJob
  /\ out = <<>>
  /\ headers = {}
  /\ clean = TRUE

-----------------------------------------------------------------------------
(* Other mail programs.  They never make two files of one name.            *)

Mailing ==
  /\ mail < MaxMail
  /\ mail' = mail + 1
  /\ UNCHANGED <<kills, store, server, out, headers>>

Arrive(p) ==
  /\ \A q \in files : q.name # p.name
  /\ files' = files \cup {p}
  /\ Mailing
  /\ UNCHANGED clean

MoveAway(p, q) ==
  /\ p \in files
  /\ p.name = q.name /\ p # q
  /\ files' = (files \ {p}) \cup {q}
  /\ clean' = FALSE
  /\ Mailing

Vanish(p) ==
  /\ p \in files
  /\ files' = files \ {p}
  /\ clean' = FALSE
  /\ Mailing

-----------------------------------------------------------------------------
(* The process.                                                            *)

Ready == running /\ pc = "read"

\* mu4e starts the server when it has something to send.
Start ==
  /\ ~running
  /\ store' \in OpenWritable(store, FALSE)
  /\ running' = TRUE /\ pc' = "read" /\ job' = NoJob
  /\ out' = <<>>
  /\ UNCHANGED <<world, kills, headers, clean>>

Stopped ==
  /\ running' = FALSE /\ pc' = "read" /\ job' = NoJob
  /\ headers' = {[h EXCEPT !.old = TRUE] : h \in headers}

\* The quit command, or a signal while the server waits for a command.
Quit ==
  /\ Ready
  /\ \E s \in StoreFlush(store) : store' = Unopened(s)
  /\ Stopped
  /\ out' = <<Plain("quitting")>>
  /\ UNCHANGED <<world, kills, clean>>

Kill ==
  /\ running
  /\ kills < MaxKills
  /\ kills' = kills + 1
  /\ store' = Unopened(store)
  /\ Stopped
  /\ out' = <<>>
  /\ clean' = FALSE
  /\ UNCHANGED <<world>>

-----------------------------------------------------------------------------
(* Commands that are handled in one go.                                    *)

\* The command is over: back to the loop, which waits for the next one.
Done(replies) ==
  /\ out' = replies
  /\ pc' = "read" /\ job' = NoJob
  /\ clean' = (clean /\ \A i \in 1..Len(replies) : replies[i].kind # "error")
  /\ UNCHANGED running

\* cmd_find: mu4e shows what is found instead of what it showed before.
CmdFind ==
  /\ Ready
  /\ headers' = {[id |-> d.id, name |-> d.path.name, old |-> FALSE] :
                    d \in store.work.docs}
  /\ Done(<<Plain("found")>>)
  /\ UNCHANGED <<world, kills, store>>

\* cmd_add, cmd_sent
CmdAdd(p) ==
  /\ Ready
  /\ IF p \in files
     THEN \E o \in AddMsg(store, p, MsgIdOf[p.name]) :
            /\ store' = o.s
            /\ Done(<<IF o.id = InvalidDocId THEN Error
                      ELSE Reply("added", o.id, p)>>)
     ELSE Done(<<Error>>) /\ UNCHANGED store
  /\ UNCHANGED <<world, kills, headers>>

\* A command that does not exist, or lacks a parameter: the handler returns
\* its error to the loop, which reports it.
CmdBad ==
  /\ Ready
  /\ Done(<<Error>>)
  /\ UNCHANGED <<world, kills, store, headers>>

\* cmd_ping, when counting the documents throws, reports the error and
\* returns it to the loop as well.
CmdPing ==
  /\ Ready
  /\ Done(<<Plain("pong")>>) \/ Done(<<Error, Error>>)
  /\ UNCHANGED <<world, kills, store, headers>>

\* index_and_cleanup (MuIndex), when nothing throws and no file changes in
\* it: documents for the files that have none, in some order; ...
Missing == {p \in files : DocsAt(store.work, p) = {}}

Indexed(c) ==
  {[c EXCEPT !.docs = @ \cup {Doc(order[p], p, MsgIdOf[p.name]) : p \in Missing},
             !.last = @ + Cardinality(Missing)] :
     order \in {f \in [Missing -> (c.last + 1)..(c.last + Cardinality(Missing))] :
                  \A p, q \in Missing : f[p] = f[q] => p = q}}

\* ... then the stale ones are removed.
CleanUp(c) == [c EXCEPT !.docs = {d \in @ : d.path \in files}]

OneDocEach(c) == \A d, e \in c.docs : d.path = e.path => d = e

CmdIndex ==
  /\ Ready
  /\ store.work.last + Cardinality(Missing) <= MaxDocId
  /\ \E c \in Indexed(store.work), n \in 0..(BatchSize - 1) :
       /\ store' \in StoreFlush([store EXCEPT !.work = CleanUp(c),
                                              !.processed = n])
       /\ clean' = OneDocEach(store'.work)
  /\ out' = <<Plain("indexed")>>
  /\ UNCHANGED <<world, kills, server, headers>>

-----------------------------------------------------------------------------
(* move: cmd_move, move_msgid_maybe, do_move, mu_maildir_move_message.     *)

Step(next) == pc' = next /\ UNCHANGED <<running, out, clean>>

\* A command on the docid of a header, or on every message of a message-id.
CmdMove(h, mdir, flags) ==
  /\ Ready
  /\ job' = [NoJob EXCEPT !.ids = {h.id}, !.mdir = mdir, !.flags = flags,
                          !.meant = h]
  /\ pc' = "next" /\ out' = <<>>
  /\ UNCHANGED <<world, kills, store, running, headers, clean>>

CmdMoveMsgid(b, flags) ==
  LET found == {d \in store.work.docs : d.body = b} IN
  /\ Ready
  /\ IF found = {}
     THEN Done(<<Error>>)
     ELSE /\ job' = [NoJob EXCEPT !.ids = {d.id : d \in found}, !.flags = flags]
          /\ pc' = "next" /\ out' = <<>>
          /\ UNCHANGED <<running, clean>>
  /\ UNCHANGED <<world, kills, store, headers>>

\* An error ends the command, also when messages are left to be moved.
Fail == Done(Append(out, Error))

NextMessage(id) ==
  /\ pc = "next"
  /\ id \in job.ids
  /\ \/ \E d \in store.work.docs :
          /\ d.id = id
          /\ job' = [job EXCEPT !.ids = @ \ {id}, !.id = id, !.path = d.path]
          /\ Step("check")
     \/ /\ \A d \in store.work.docs : d.id # id
        /\ Fail
  /\ UNCHANGED <<world, kills, store, headers>>

Target == [job.path EXCEPT !.mdir = IF job.mdir = "same" THEN @ ELSE job.mdir,
                           !.flags = job.flags]

\* msg_move_check_pre; a message that stays where it is is not renamed.
CheckMove ==
  /\ pc = "check"
  /\ \/ Target = job.path /\ Step("open") /\ UNCHANGED job
     \/ /\ Target # job.path
        /\ job.path \in files /\ Target \notin files
        /\ Step("rename") /\ UNCHANGED job
     \/ /\ Target # job.path
        /\ job.path \notin files \/ Target \in files
        /\ Fail
  /\ UNCHANGED <<world, kills, store, headers>>

\* rename(2)
RenameFile ==
  /\ pc = "rename"
  /\ IF job.path \in files
     THEN /\ files' = (files \ {job.path}) \cup {Target}
          /\ Step("open")
          /\ UNCHANGED job
     ELSE Fail /\ UNCHANGED files
  /\ UNCHANGED <<mail, kills, store, headers>>

\* msg_move_check_post, and mu_msg_file_new on the new path.
OpenMoved ==
  /\ pc = "open"
  /\ IF Target \in files /\ (Target = job.path \/ job.path \notin files)
     THEN Step("update") /\ UNCHANGED job
     ELSE Fail
  /\ UNCHANGED <<world, kills, store, headers>>

\* Mutant: the moved message is added, as if it were a new one.
UpdateStoreByAdd ==
  /\ pc = "update"
  /\ \E o \in AddMsg(store, Target, MsgIdOf[job.path.name]) :
       /\ store' = o.s
       /\ out' = out \o (IF o.id = InvalidDocId THEN <<Error>> ELSE <<>>)
                     \o <<Reply("update", job.id, Target)>>
       /\ clean' = (clean /\ o.id # InvalidDocId)
  /\ pc' = "next"
  /\ UNCHANGED <<world, kills, running, job, headers>>

\* The rest of do_move: an error to store the message is reported, and so
\* is the update.
UpdateStore ==
  /\ pc = "update"
  /\ \E o \in UpdateMsg(store, job.id, Target, MsgIdOf[job.path.name]) :
       /\ store' = o.s
       /\ out' = out \o (IF o.id = InvalidDocId THEN <<Error>> ELSE <<>>)
                     \o <<Reply("update", job.id, Target)>>
       /\ clean' = (clean /\ o.id # InvalidDocId)
  /\ pc' = "next"
  /\ UNCHANGED <<world, kills, running, job, headers>>

MoveDone ==
  /\ pc = "next"
  /\ job.ids = {}
  /\ Done(out)
  /\ UNCHANGED <<world, kills, store, headers>>

-----------------------------------------------------------------------------
(* remove: cmd_remove.                                                     *)

CmdRemove(h) ==
  LET found == {d \in store.work.docs : d.id = h.id} IN
  /\ Ready
  /\ \/ \E d \in found :
          /\ d.path \in files
          /\ files' = files \ {d.path}
          /\ job' = [NoJob EXCEPT !.id = h.id, !.path = d.path, !.meant = h]
          /\ pc' = "unlinked" /\ out' = <<>>
          /\ UNCHANGED <<running, clean>>
     \/ /\ \A d \in found : d.path \notin files
        /\ Done(<<Error>>)
        /\ UNCHANGED files
  /\ UNCHANGED <<mail, kills, store, headers>>

\* Mutant: the result of mu_store_remove_path is not looked at.
RemoveUnlinkedUnchecked ==
  /\ pc = "unlinked"
  /\ \E o \in RemovePath(store, job.path) : store' = o.s
  /\ Done(<<Reply("removed", job.id, job.path)>>)
  /\ UNCHANGED <<world, kills, headers>>

RemoveUnlinked ==
  /\ pc = "unlinked"
  /\ \E o \in RemovePath(store, job.path) :
       /\ store' = o.s
       /\ Done(<<IF o.ok THEN Reply("removed", job.id, job.path) ELSE Error>>)
  /\ UNCHANGED <<world, kills, headers>>

-----------------------------------------------------------------------------

Commands ==
  \/ CmdFind \/ CmdBad \/ CmdPing \/ CmdIndex
  \/ \E p \in Paths : CmdAdd(p)
  \/ \E h \in headers : CmdRemove(h)
  \/ \E h \in headers, mdir \in Mdirs, flags \in Flags : CmdMove(h, mdir, flags)
  \/ \E b \in Bodies, flags \in Flags : CmdMoveMsgid(b, flags)

Moving ==
  \/ \E id \in DocIds : NextMessage(id)
  \/ CheckMove \/ RenameFile \/ OpenMoved \/ UpdateStore \/ MoveDone

Mail == \E p \in Paths : Arrive(p) \/ Vanish(p) \/ \E q \in Paths : MoveAway(p, q)

Next ==
  \/ Start \/ Quit \/ Kill
  \/ Commands
  \/ Moving \/ RemoveUnlinked
  \/ Mail

Spec == Init /\ [][Next]_vars

-----------------------------------------------------------------------------
(* Properties.                                                             *)

HeaderIds == 0..MaxDocId
TypeOK ==
  /\ files \subseteq Paths
  /\ mail \in 0..MaxMail /\ kills \in 0..MaxKills
  /\ store \in Stores
  /\ running \in BOOLEAN /\ clean \in BOOLEAN
  /\ pc \in {"read", "next", "check", "rename", "open", "update", "unlinked"}
  /\ job.ids \subseteq DocIds /\ job.id \in HeaderIds
  /\ job.path \in Paths \cup {NoPath}
  /\ job.mdir \in Mdirs \cup {"same"} /\ job.flags \in Flags \cup {"none"}
  /\ \A h \in headers \cup {job.meant} :
       h = NoHeader \/ h \in [id : DocIds, name : Names, old : BOOLEAN]
  /\ \A i \in 1..Len(out) :
       /\ out[i].kind \in {"error", "found", "added", "pong", "indexed",
                           "update", "removed", "quitting"}
       /\ out[i].id \in HeaderIds /\ out[i].path \in Paths \cup {NoPath}

\* A docid "identifies the message" (mu-server.1:218): a command renames or
\* unlinks the message mu4e shows under the docid, or none.
ActsOnWhatWasMeant ==
  job.id # InvalidDocId /\ job.meant # NoHeader => job.path.name = job.meant.name

\* The same for headers of the session the command is sent in, as long as
\* Xapian does not throw.
ActsOnWhatWasMeantInSession ==
  ~job.meant.old /\ store.badWrites = WriteFaults => ActsOnWhatWasMeant

Errors == {i \in 1..Len(out) : out[i].kind = "error"}

\* When a command is answered without an error the store is as the answers
\* say: the moved message is at its new path under its old docid, the added
\* one is there, the removed one is not.
AnswersAreTrue ==
  Ready /\ Errors = {} =>
    \A i \in 1..Len(out) :
      LET r == out[i] IN
      /\ r.kind \in {"added", "update"} =>
           \E d \in store.work.docs : d.id = r.id /\ d.path = r.path
      /\ r.kind = "removed" => \A d \in store.work.docs : d.id # r.id

\* While the commands succeed, no other program touches the files and the
\* server is not killed, what an index left in order stays in order: there
\* is no document without its file, and one for each file at most.
DocsHaveFiles ==
  clean /\ Ready => /\ \A d \in store.work.docs : d.path \in files
                    /\ OneDocEach(store.work)

=============================================================================
