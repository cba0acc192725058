------------------------------ MODULE MuIndex -------------------------------
(***************************************************************************)
(* The indexer: `mu index' walks the maildirs, stores the messages that    *)
(* are new or changed, stamps every directory it has finished, and then    *)
(* removes the messages whose files are gone (lib/mu-index.c, the walk of  *)
(* lib/mu-maildir.c, mu/mu-cmd-index.c).  Mail programs change the files,  *)
(* the user interrupts or kills the indexer, Xapian may throw.             *)
(*                                                                         *)
(* The store is that of MuStoreOps; the body of a document is the version  *)
(* of the file it was made from.                                           *)
(***************************************************************************)
EXTENDS MuStoreOps, Sequences

CONSTANTS
  Root,           \* the maildir `mu index' is given
  Subdirs,        \* directory -> the directories in it
  LeafDirs,       \* the directories called cur or new
  DirOf,          \* path -> directory
  NoIndex,        \* directories with a .noindex file
  NoUpdate,       \* directories with a .noupdate file
  TooBig,         \* paths whose file exceeds max-msg-size
  Modes,          \* how `mu index' is called
  TimeModulus,    \* width of the unsigned the stamps are compared in
  EditsDuringRun, \* whether files change while the indexer runs
  RenameSetsCtime,\* whether a rename sets the ctime
  MaxNow,         \* bound: clock ticks
  MaxEdits,       \* bound: files created or changed
  MaxMoves,       \* bound: files renamed or deleted
  MaxInterrupts,  \* bound: signals and kills
  WriteFaults,    \* bound: Xapian writes that throw
  CommitFaults    \* bound: Xapian commits that throw

ASSUME TreeAssumption ==
  /\ Root \in Dirs /\ LeafDirs \subseteq Dirs
  /\ Subdirs \in [Dirs -> SUBSET (Dirs \ {Root})]
  /\ DirOf \in [Paths -> Dirs]
  /\ NoIndex \subseteq Dirs /\ NoUpdate \subseteq Dirs /\ TooBig \subseteq Paths
ASSUME ModesAssumption ==
  Modes \subseteq {"update", "reindex", "rebuild", "nocleanup"}
ASSUME BodiesAssumption == Bodies = 1..MaxEdits
ASSUME BoundsAssumption ==
  /\ EditsDuringRun \in BOOLEAN /\ RenameSetsCtime \in BOOLEAN
  /\ TimeModulus \in Nat \ {0} /\ MaxNow \in Nat \ {0}
  /\ MaxEdits \in Nat /\ MaxMoves \in Nat /\ MaxInterrupts \in Nat
  /\ WriteFaults \in Nat /\ CommitFaults \in Nat

VARIABLES
  file,       \* path -> version of the file, 0 if there is none
  ctime,      \* path -> st_ctime
  now,        \* time(NULL)
  edits, moves, interrupts,       \* how much of the bounds is used
  store,      \* the store
  pc,         \* where the indexer is
  mode,       \* how it was called
  frames,     \* the directories being processed, innermost first, each
              \*   with the entries process_dir_entries has still to visit
  dirstamp,   \* MuIndexCallbackData._dirstamp: one for the whole walk
  entry,      \* the message being looked at, with its st_ctime
  todo,       \* the paths mu_store_foreach has still to visit
  result,     \* MuError of the phase that just ended
  calm        \* history: no file changed and no commit threw since the
              \*   last start

fs == <<file, ctime, now, edits, moves>>
walk == <<mode, frames, dirstamp, entry>>
\* What a run does leaves calm alone unless a commit throws in it.
StillCalm == calm' = (calm /\ store'.badCommits = store.badCommits)

vars == <<fs, interrupts, store, pc, walk, todo, result, calm>>

NoEntry == [path |-> "none", ctime |-> 0]

Init ==
  /\ file = [p \in Paths |-> 0]
  /\ ctime = [p \in Paths |-> 0]
  /\ now = 1
  /\ edits = 0 /\ moves = 0 /\ interrupts = 0
  /\ store = [work |-> EmptyContent, disk |-> EmptyContent,
              xtxn |-> FALSE, inTxn |-> FALSE, processed |-> 0,
              badWrites |-> WriteFaults, badCommits |-> CommitFaults]
  /\ pc = "idle"
  /\ mode = "update" /\ frames = <<>> /\ dirstamp = 0 /\ entry = NoEntry
  /\ todo = {}
  /\ result = "ok"
  /\ calm = TRUE

-----------------------------------------------------------------------------
(* The file system, as mail programs change it.                            *)

MayEdit == EditsDuringRun \/ pc = "idle"

FilesChanged ==
  /\ calm' = FALSE
  /\ UNCHANGED <<now, interrupts, store, pc, walk, todo, result>>

\* A message arrives at p, or the one at p is rewritten.
Edit(p) ==
  /\ MayEdit
  /\ edits < MaxEdits
  /\ edits' = edits + 1
  /\ file' = [file EXCEPT ![p] = edits + 1]
  /\ ctime' = [ctime EXCEPT ![p] = now]
  /\ FilesChanged
  /\ UNCHANGED moves

\* A message is moved or flagged: its file is renamed.
Rename(p, q) ==
  /\ MayEdit
  /\ moves < MaxMoves
  /\ file[p] # 0 /\ file[q] = 0
  /\ moves' = moves + 1
  /\ file' = [file EXCEPT ![q] = file[p], ![p] = 0]
  /\ ctime' = [ctime EXCEPT ![q] = IF RenameSetsCtime THEN now ELSE ctime[p],
                            ![p] = 0]
  /\ FilesChanged
  /\ UNCHANGED edits

Delete(p) ==
  /\ MayEdit
  /\ moves < MaxMoves
  /\ file[p] # 0
  /\ moves' = moves + 1
  /\ file' = [file EXCEPT ![p] = 0]
  /\ ctime' = [ctime EXCEPT ![p] = 0]
  /\ FilesChanged
  /\ UNCHANGED edits

Tick ==
  /\ now < MaxNow
  /\ now' = now + 1
  /\ UNCHANGED <<file, ctime, edits, moves, interrupts, store, pc, walk, todo,
                 result, calm>>

-----------------------------------------------------------------------------
(* The walk (mu_maildir_walk and the callbacks of mu_index_run).           *)

\* `mu index --rebuild' overwrites the database when it is opened; only
\* --reindex sets the reindex flag that the walk is given.
Reindex == mode = "reindex"

\* Mutant: .noupdate is obeyed even when everything is to be indexed again.
SkippedNoUpdate(d) == d \in NoIndex \cup NoUpdate

Skipped(d) == d \in NoIndex \/ (~Reindex /\ d \in NoUpdate)

\* What process_dir_entry does something with: files in a cur or new
\* directory, and directories.
Entries(d) ==
  {p \in Paths : DirOf[p] = d /\ d \in LeafDirs /\ file[p] # 0} \cup Subdirs[d]

\* mu_cmd_index: open the store, check the version, make the MuIndex, and
\* have the walk begin at the root.
Start(m) ==
  /\ pc = "idle"
  /\ store' \in OpenWritable(store, m = "rebuild")
  /\ pc' = "walk"
  /\ mode' = m
  /\ frames' = <<[dir |-> "none", todo |-> {Root}]>>
  /\ dirstamp' = 0
  /\ entry' = NoEntry
  /\ result' = "ok"
  /\ calm' = TRUE
  /\ UNCHANGED <<fs, interrupts, todo>>

\* The remaining entries of the innermost directory.
Visit(x) == [frames EXCEPT ![1].todo = @ \ {x}]

\* process_dir: skipped, or entered, which reads its stamp and its entries.
EnterDir(d) ==
  /\ pc = "walk"
  /\ d \in frames[1].todo
  /\ IF Skipped(d)
     THEN /\ frames' = Visit(d)
          /\ UNCHANGED dirstamp
     ELSE /\ frames' = <<[dir |-> d, todo |-> Entries(d)]>> \o Visit(d)
          /\ dirstamp' = GetTimestamp(store, d)
  /\ UNCHANGED <<fs, interrupts, store, pc, mode, entry, todo, result, calm>>

\* A result other than MU_OK unwinds the walk: no directory is left.
Unwind(r) ==
  /\ pc' = "walked"
  /\ result' = r
  /\ frames' = <<>>
  /\ dirstamp' = 0
  /\ entry' = NoEntry

\* process_file finds no file any more.
FileGone(p) ==
  /\ pc = "walk"
  /\ p \in frames[1].todo
  /\ file[p] = 0
  /\ Unwind("error")
  /\ UNCHANGED <<fs, interrupts, store, mode, todo, calm>>

\* process_file stats the file; on_run_maildir_msg ignores a big one and
\* asks the message callback, which lets the walk go on.
StatFile(p) ==
  /\ pc = "walk"
  /\ p \in frames[1].todo
  /\ file[p] # 0
  /\ frames' = Visit(p)
  /\ IF p \in TooBig
     THEN UNCHANGED <<pc, entry>>
     ELSE /\ pc' = "message"
          /\ entry' = [path |-> p, ctime |-> ctime[p]]
  /\ UNCHANGED <<fs, interrupts, store, mode, dirstamp, todo, result, calm>>

\* The callback has caught a signal and answers MU_STOP.
StopAt(p) ==
  /\ pc = "walk"
  /\ p \in frames[1].todo \ TooBig
  /\ file[p] # 0
  /\ interrupts < MaxInterrupts
  /\ interrupts' = interrupts + 1
  /\ Unwind("stop")
  /\ UNCHANGED <<fs, store, mode, todo, calm>>

\* Mutant: a message of the very second of the stamp counts as old.
NeedsIndexStrict(p, filestamp) ==
  \/ Reindex
  \/ ~ContainsMessage(store, p)
  \/ filestamp % TimeModulus > dirstamp % TimeModulus

\* Mutant: only the timestamps are compared.
NeedsIndexByStamp(p, filestamp) ==
  Reindex \/ filestamp % TimeModulus >= dirstamp % TimeModulus

\* needs_index: the ctime is compared with the stamp read last, in unsigned.
NeedsIndex(p, filestamp) ==
  \/ Reindex
  \/ ~ContainsMessage(store, p)
  \/ filestamp % TimeModulus >= dirstamp % TimeModulus

\* insert_or_update_maybe, nothing to do; or the file can no longer be read.
LeaveMessage ==
  /\ pc = "message"
  /\ ~NeedsIndex(entry.path, entry.ctime) \/ file[entry.path] = 0
  /\ pc' = "walk"
  /\ entry' = NoEntry
  /\ UNCHANGED <<fs, interrupts, store, mode, frames, dirstamp, todo, result,
                 calm>>

\* Mutant: the result of mu_store_add_msg is not looked at.
StoreMessageUnchecked ==
  /\ pc = "message"
  /\ NeedsIndex(entry.path, entry.ctime)
  /\ file[entry.path] # 0
  /\ \E o \in AddMsg(store, entry.path, file[entry.path]) : store' = o.s
  /\ pc' = "walk"
  /\ entry' = NoEntry
  /\ StillCalm
  /\ UNCHANGED <<frames, dirstamp, result, fs, interrupts, mode, todo>>

\* insert_or_update_maybe, which stores the file as it is now.
StoreMessage ==
  /\ pc = "message"
  /\ NeedsIndex(entry.path, entry.ctime)
  /\ file[entry.path] # 0
  /\ \E o \in AddMsg(store, entry.path, file[entry.path]) :
       /\ store' = o.s
       /\ IF o.id = InvalidDocId
          THEN Unwind("error")
          ELSE /\ pc' = "walk"
               /\ entry' = NoEntry
               /\ UNCHANGED <<frames, dirstamp, result>>
  /\ StillCalm
  /\ UNCHANGED <<fs, interrupts, mode, todo>>

\* process_dir has visited every entry: on_run_maildir_dir stamps it.
LeaveDir ==
  /\ pc = "walk"
  /\ frames[1].todo = {}
  /\ Len(frames) > 1
  /\ store' \in SetTimestamp(store, frames[1].dir, now)
  /\ frames' = Tail(frames)
  /\ UNCHANGED <<fs, interrupts, pc, mode, dirstamp, entry, todo, result, calm>>

WalkDone ==
  /\ pc = "walk"
  /\ frames[1].todo = {}
  /\ Len(frames) = 1
  /\ Unwind("ok")
  /\ UNCHANGED <<fs, interrupts, store, mode, todo, calm>>

-----------------------------------------------------------------------------
(* After the walk: flush, clean up, flush, close.                          *)

\* mu_index_run flushes whatever the result; mu_cmd_index goes on to the
\* cleanup only after MU_OK, and mu_store_foreach lists the documents.
FlushIndex ==
  /\ pc = "walked"
  /\ store' \in StoreFlush(store)
  /\ IF result = "ok" /\ mode # "nocleanup"
     THEN /\ pc' = "clean"
          /\ todo' = {d.path : d \in store'.work.docs}
     ELSE /\ pc' = "exit"
          /\ UNCHANGED todo
  /\ StillCalm
  /\ UNCHANGED <<fs, interrupts, walk, result>>

EndCleanup(r) ==
  /\ pc' = "cleaned"
  /\ todo' = {}
  /\ result' = r

\* Mutant: only a document whose file is there would be removed.
CleanPathKeep(p) ==
  /\ pc = "clean"
  /\ p \in todo
  /\ todo' = todo \ {p}
  /\ UNCHANGED <<store, pc, result, fs, interrupts, walk, calm>>

\* foreach_doc_cb: a document whose file cannot be accessed is removed.
CleanPath(p) ==
  /\ pc = "clean"
  /\ p \in todo
  /\ IF file[p] # 0
     THEN /\ todo' = todo \ {p}
          /\ UNCHANGED <<store, pc, result>>
     ELSE \E o \in RemovePath(store, p) :
            /\ store' = o.s
            /\ IF o.ok
               THEN /\ todo' = todo \ {p}
                    /\ UNCHANGED <<pc, result>>
               ELSE EndCleanup("error")
  /\ UNCHANGED <<fs, interrupts, walk, calm>>

\* The callback stops the cleanup after p, or there is nothing more to do.
CleanupDone ==
  /\ pc = "clean"
  /\ \/ /\ todo = {}
        /\ EndCleanup("ok")
        /\ UNCHANGED interrupts
     \/ /\ todo # {}
        /\ interrupts < MaxInterrupts
        /\ interrupts' = interrupts + 1
        /\ EndCleanup("stop")
  /\ UNCHANGED <<fs, store, walk, calm>>

FlushCleanup ==
  /\ pc = "cleaned"
  /\ store' \in StoreFlush(store)
  /\ pc' = IF result = "ok" THEN "complete" ELSE "exit"
  /\ StillCalm
  /\ UNCHANGED <<fs, interrupts, walk, todo, result>>

\* mu_store_unref: the destructor flushes and closes.
Exit ==
  /\ pc \in {"exit", "complete"}
  /\ \E s \in StoreFlush(store) : store' = Unopened(s)
  /\ pc' = "idle"
  /\ result' = IF pc = "complete" THEN "complete" ELSE result
  /\ StillCalm
  /\ UNCHANGED <<fs, interrupts, walk, todo>>

\* The indexer is killed.
Crash ==
  /\ pc # "idle"
  /\ interrupts < MaxInterrupts
  /\ interrupts' = interrupts + 1
  /\ store' = Unopened(store)
  /\ pc' = "idle"
  /\ frames' = <<>> /\ dirstamp' = 0 /\ entry' = NoEntry
  /\ todo' = {}
  /\ result' = "error"
  /\ UNCHANGED <<fs, mode, calm>>

-----------------------------------------------------------------------------

Walk ==
  \/ \E d \in Dirs : EnterDir(d)
  \/ \E p \in Paths : FileGone(p) \/ StatFile(p)
  \/ LeaveMessage \/ StoreMessage
  \/ LeaveDir \/ WalkDone

Finish ==
  \/ FlushIndex
  \/ \E p \in Paths : CleanPath(p)
  \/ CleanupDone \/ FlushCleanup \/ Exit

Environment ==
  \/ \E p \in Paths : Edit(p) \/ Delete(p)
  \/ \E p, q \in Paths : Rename(p, q)
  \/ Tick
  \/ \E p \in Paths : StopAt(p)
  \/ Crash

Next ==
  \/ \E m \in Modes : Start(m)
  \/ Walk
  \/ Finish
  \/ Environment

Spec == Init /\ [][Next]_vars

\* The indexer does not stall, and is started again and again (from cron,
\* or by mu4e-update-interval).
FairSpec == Spec /\ WF_vars(Walk \/ Finish) /\ WF_vars(Start("update"))

-----------------------------------------------------------------------------
(* Properties.                                                             *)

Frame == [dir : Dirs \cup {"none"}, todo : SUBSET (Paths \cup Dirs)]

TypeOK ==
  /\ file \in [Paths -> 0..MaxEdits]
  /\ ctime \in [Paths -> 0..MaxNow] /\ now \in 1..MaxNow
  /\ edits \in 0..MaxEdits /\ moves \in 0..MaxMoves
  /\ interrupts \in 0..MaxInterrupts
  /\ store \in Stores
  /\ pc \in {"idle", "walk", "message", "walked", "clean", "cleaned",
             "complete", "exit"}
  /\ mode \in Modes \cup {"update"}
  /\ frames \in Seq(Frame)
  /\ dirstamp \in 0..MaxNow
  /\ entry = NoEntry \/ entry \in [path : Paths, ctime : 1..MaxNow]
  /\ todo \subseteq Paths
  /\ result \in {"ok", "stop", "error", "complete"}
  /\ calm \in BOOLEAN

\* The document of p records the file as it is.
Current(c, p) == \E d \in c.docs : d.path = p /\ d.body = file[p]

\* The messages a run is to record.
Wanted(m) ==
  {p \in Paths \ TooBig :
     /\ file[p] # 0
     /\ DirOf[p] \notin NoIndex
     /\ m = "reindex" \/ DirOf[p] \notin NoUpdate}

\* A message older than the stamp of its directory needs no indexing.
StampSound(c) ==
  \A p \in Wanted("reindex") : ctime[p] < c.stamps[DirOf[p]] => Current(c, p)

\* "xapian stores a per-dir timestamp; we use this timestamp to determine
\* whether a message is up-to-data" (mu-index.c:221): in what the indexer
\* sees, and in what a crash at this moment would leave.
StampsAreSound == StampSound(store.work) /\ StampSound(store.disk)

\* What is on disk is one document for each message, and no other.
MirrorsFiles(m) ==
  /\ \A p \in Wanted(m) : Current(store.disk, p)
  /\ \A d \in store.disk.docs : file[d.path] # 0
  /\ \A d, e \in store.disk.docs : d.path = e.path => d = e

\* A run went all the way; since it began no file changed, no commit threw.
CompleteRun(m) == pc = "idle" /\ result = "complete" /\ calm /\ mode = m

\* `mu index' that ran to its end while no file changed leaves a database
\* that mirrors the maildir, whatever interrupted the runs before it:
\* after the first full scan "it suffices to index the changes"
\* (mu-index.1:44).
CompleteRunMirrors == CompleteRun("update") => MirrorsFiles("update")

\* `mu index --reindex' repairs every database: whatever changed under the
\* runs before it, whatever threw or killed them, and also in directories
\* with a .noupdate file.
ReindexMirrors == CompleteRun("reindex") => MirrorsFiles("reindex")

\* Once the mail programs have gone quiet the database ends up mirroring
\* the maildir, and stays that way.
EventuallyMirrors == <>[]MirrorsFiles("update")

=============================================================================
