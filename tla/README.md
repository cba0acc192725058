# A verification model of mu

The repository is an Emacs Live configuration: packs of Emacs packages, most of
them vendored.  The one program in it with a core logic of its own is **mu
0.9.9** (`src/mu4e-pack/lib/mu-0.9.9`, below called `mu/`), a C/C++ program
that indexes Maildir messages in a Xapian database, finds and shows them, and
serves them to **mu4e**, its Emacs front end.  These modules model mu from the
command line down to the database, and the pipe between mu and mu4e.

## The system

| part | state | operations | what is hard | what makes it correct |
|---|---|---|---|---|
| Message store, `lib/mu-store-*.{cc,hh}` | Xapian database, `_in_transaction`, `_processed`, version, directory stamps | open, add, update, remove, set timestamp, flush, close | writes are grouped in transactions; a failed commit is swallowed; a failed write rolls a batch back; crashes | mu's idea of the transaction is Xapian's; nothing acknowledged is lost without a report; a flush makes durable; what is durable is readable; a docid names one message |
| Contacts cache, `lib/mu-contacts.c`, `mu/mu-cmd-cfind.c` | hash of contacts, `_dirty`, the file | add, load, save, list | filled before the store commits, saved only when the store closes; addresses share entries | the contacts of stored messages are listed; what is listed was seen |
| Indexer, `lib/mu-index.c`, the walk of `lib/mu-maildir.c`, `mu/mu-cmd-index.c` | the directory stack, `_dirstamp` | walk, decide, store, stamp, clean up, stop on a signal | files change while it looks; timestamps in seconds; interrupts; failures in the middle | a stamp never covers a message that is not indexed; a run that completes leaves an exact image; an indexer that is run often enough gets there |
| Server, `mu/mu-cmd-server.c`, moving in `lib/mu-maildir.c` | the command in hand, the store | 14 commands read from a pipe | other programs rename files between its system calls; errors after half the work; docids held by the client | a command acts on the message the user saw; a success report is true |
| mu4e process layer, `mu4e/mu4e-proc.el` | the process, the buffer of received bytes | start, send, filter, sentinel, kill | pieces of replies, handlers that fail, a late sentinel, two servers | every reply handled once, in order; no server outlives Emacs |
| Query, iterator, threader, `lib/mu-query.cc`, `mu-msg-iter.cc`, `mu-threader.c`, `mu-container.c`, `mu/mu-cmd-find.c` | the matches, a forest of containers | query, thread, sort, show | references lie; the database changes while it is read | the forest stays one; every match has a place; the output is the answer |
| Messages, `lib/mu-msg*.c`, document making in `mu-store-write.cc` | a message's document, its file | read a field, show, move | two sources for each field; parts in parts; decryption in the middle of a walk | both sources agree; every text can be found; a move loses nothing |
| Parts, `lib/mu-msg-part.c`, `mu/mu-cmd-extract.c`, `mu-cmd-server.c` | files in a directory and in a cache | extract, verify, save, open | equal names, half written files, reused files | what says it saved has saved; nothing of others is overwritten |
| Flags and paths, `lib/mu-flags.c`, `lib/mu-maildir.c` | none | paths to flags and back | custom flags, `/new/` in a path | flags written are flags read |
| The program, `mu/mu.cc`, `mu-config.c`, `mu-cmd.c`, `lib/mu-runtime.c`, `lib/mu-log.c` | `~/.mu`, the log, exit codes | parse, set up, run one command | two processes share all of it; kills leave halves behind | exit code 0 is true; what is right succeeds |
| mu4e headers, marks, composition; Guile; toys; helpers | buffers | | user interface, I/O | not modelled |

mu opens the store once per process and hands it to the indexer, the server or
a command (`with_store` in `mu/mu-cmd.c`); the indexer calls the store for each
file and directory it visits; the server calls the indexer for its `index`
command and moves files itself; mu4e talks to the server over a pipe, one line
for each command, and starts it again whenever it is not running.  Xapian
allows one writer at a time, and readers see a revision that the writer may
overwrite under them; everything else that changes the Maildir (delivery, mail
synchronisation, other mail programs) does so without telling mu.

## Modules

| module | models | built on |
|---|---|---|
| `MuStoreOps` | the store functions: each operator takes a store record and returns the *set* of its outcomes | |
| `MuStore` | one process that calls them in any order | `MuStoreOps` |
| `MuContacts` | the same process with the contacts cache it feeds, and the readers of the cache | `MuStore` |
| `MuIndex` | the indexer on a changing Maildir | `MuStoreOps` |
| `MuServer` | the server, other mail programs, a client with stale headers | `MuStoreOps` |
| `MuProgram` | several processes of mu run from a shell | `MuStoreOps` |
| `MuProtocol` | what each command of the server may answer | |
| `MuDialog` | abstract: what mu4e and one server promise each other | `MuProtocol` |
| `MuProc` | mu4e, its servers and the pipes; implements `MuDialog` | `MuProtocol` |
| `MuContainer`, `MuThreader` | the containers, and the steps of threading | |
| `MuFind` | one run of `mu find` over a database that changes | `MuThreader` |
| `MuParts` | the MIME walk and what is made of the parts | |
| `MuExtract` | saving parts, from the shell and from the server | `MuParts` |
| `MuFlags` | flags and file names | |
| `MuDoc` | fields of a message in its file and in its document | `MuParts`, `MuFlags` |
| `MuMsg` | a message object over document and file, and moving it | `MuDoc` |
| `Mu*Proofs` | theorems (below) | the module of that name |
| `MCMu*` | small instances for TLC | |

**The store record.**  `work` is what queries of the process see (Xapian
includes uncommitted changes), `disk` what the last commit left; `xtxn` is
Xapian's transaction, `inTxn` mu's `_in_transaction`; `processed` is
`_processed` modulo the batch size, the only way the code uses it; `badWrites`
and `badCommits` are the failures the environment may still inject.  Content is
the set of documents (docid, path, body), the highest docid, the directory
stamps and the version.  Xapian itself is external and modelled from its use:
`replace_document(term)` keeps the lowest docid of the term, a new docid
follows the highest one, `commit` is refused inside a transaction,
`begin_transaction` commits what is pending, and a failed write or commit
discards what was not committed.  Because `MU_XAPIAN_CATCH_BLOCK` swallows
exceptions, `BeginTransaction`, `CommitTransaction` and `StoreFlush` return
stores and no result: the caller cannot know.  A caller that makes several
calls in one handler (`AddMsg` begins, replaces, counts, commits) is one
operator, hence one step.

**MuStore** has one action per function, and history variables: `ret` (the last
call and what it returned), `told` (the paths each docid was returned for) and
`unsaved` (messages in the open batch).  **MuContacts** adds to each of its
actions what the handler does to the cache: `Add` puts the contacts of the
message in the hash before the store is written, `Close` saves the hash before
it flushes, a kill loses it.  A contact's group stands for the folded address
under which it is kept; the date is cut to an `int` when the file is written.

**MuIndex**.  `frames` is the C stack of `process_dir`, each frame with the
entries that `process_dir_entries` read and has still to visit, in any order
(the code sorts by inode, which no property may rely on).  `dirstamp` is the
one `_dirstamp` of the walk.  A file is its version number and its ctime; `now`
is `time(NULL)`.  Looking at a message takes two steps, `StatFile` (stat) and
`StoreMessage` (read and store), so that a file may change between them.  After
the walk come the flush, the cleanup over the documents listed by
`mu_store_foreach`, the second flush and the destructor.  A signal is seen at a
message (`StopAt`) or during the cleanup; a `Crash` may come anywhere.  The
environment writes, renames and deletes files, before a run or
(`EditsDuringRun`) also inside one.  `RenameSetsCtime` distinguishes file
systems on which a rename changes the ctime from those on which, as the comment
at `mu-index.c:102` says, "the time stamps won't change".  The history variable
`calm` says that since the run began no file changed and no commit threw.

**MuServer**.  A path is a name, a Maildir and flags; moving keeps the name.
`job` is the command in hand.  A move is five steps (look the document up,
check, `rename(2)`, check again and open, update the store), between which other
programs act; a move by message-id repeats them for every document found.
Removal is two (`unlink`, then the store).  `index` is one step, since
`MuIndex` has its details and the server handles one command at a time.
`headers` is what mu4e shows: a docid and the message it stands for.  A header
stays after its message is removed, because mu4e sends commands without
waiting, and it stays when the server ends, because mu4e's buffer does; then it
is marked `old`.

**MuProtocol, MuDialog, MuProc**.  `MuProtocol` gives for every command line the
set of its results: the kinds of replies in their order, and what the handler
returns to the loop.  `MuDialog` has, for one server, the commands that wait,
the replies on their way and those handled; its actions are ask, serve, hear,
end.  `MuProc` has Emacs (`cur`, `buf`, whether the filter runs) and servers
with an input and an output pipe; a reply is two pieces, the cookie with the
length and the expression, and `Receive` may deliver any number of them.  Eating
an expression from the buffer is a step, since servers run meanwhile and
handlers send commands.  A handler may signal an error, which leaves the filter;
C-g, `mu4e~proc-kill`, Emacs exiting or crashing, servers that die, and the lock
of the database that a second server cannot get are actions.  The refinement
maps `asked` to the input pipe, `said` to the expressions of that server among
the pieces in `buf` and in its output pipe, `over` to a server that has ended; `safe` is a history flag that falls
when mu4e forgets a server or runs two, and nothing is promised from then on.

**MuContainer, MuThreader, MuFind**.  A heap of containers is a record of
functions (`parent`, `child`, `next`, `last`, `msg`, `flags`), and every function
of `mu-container.c` an operator from heaps to heaps, so that dangling or
circular pointers can be seen.  `MuFind` takes the steps of one `mu find`:
checks, query, threading in four steps, the second query, output.  The reader
holds a revision; two commits later any read may throw, and the query is tried
again.  Another process commits whenever it likes, any number of times.  Thread paths are sequences of digits to `Base` and compared as the
strings are.

**MuParts, MuExtract, MuDoc, MuMsg**.  A message is a tree of objects; the walk
numbers its parts, decrypting on its way when it is told to.  It goes `Depth`
levels deep, each level a value of a recursive function (the code recurses, and
has no bound); `NotTooDeep` says that this is enough for a message.  `MuExtract` opens
a file in one step and writes it in another; a file is then half there, whole,
cut by a short write, or perhaps incomplete as it could not be closed.  A save of a
part that does not exist ends the server.  `MuDoc` has what is read from a
file for every field and what the document keeps of it, as value or as terms;
`MuMsg` is the object that answers from either.  A maildir there is the sequence of
its directories, so that one can be the end of another (`Suffix`), which is what
`get_target_mdir` looks at; the directories above the root of all maildirs are left
out, as no maildir of a document reaches into them.  A move is the steps of `mu_msg_move_to_maildir`:
names, `MsgMoveCheckPre`, `MsgMove` (the `rename(2)`), `MsgMoveCheckPost`, and
`MoveOpens` with the new backend and the store; other programs act between them.
`move` is the move in hand, and its `seen` the files there were at the check
(history).

**MuProgram** runs up to `Procs` processes through parsing, `~/.mu`, the log (with
its rotation), and the commands that no other module has: `add`, `remove`,
`mkdir`, `view`, `find` (its checks and exit code for every format, and what
`--format=links` does), and wrong command lines.  A directory of links may not
open and a link may not go away (`Clear`, `Unlink`); `err` is the first error of
`clear_links`, which `mu_util_g_set_error` lets no later error replace, so that a
search that fails afterwards exits with the code of that one (`Fails`).

Mutants (operators whose comment starts with "Mutant:") are plausible mistakes
that stand beside the operator they would replace; each property is violated by
one.  They are not part of any specification.

## Runs

| run | instance | distinct states |
|---|---|---|
| `store_server` | every call in any order, one write that throws, crashes, rebuilds | 0.23 M |
| `store_contacts` | a commit and a save that fail, two addresses of one group, a date beyond an int, kills, restarts, rebuilds | 0.46 M |
| `index_quiet` | changes between the runs; a signal or a kill, a write that throws, a `.noindex` directory, a message that is too big; liveness | 1.0 M |
| `index_rename` | `new` and `cur`, renames that keep the ctime, `--nocleanup` | 1.9 M |
| `index_repair` | changes *inside* the runs, a commit that throws, a kill, `.noupdate`, `--rebuild`; `--reindex` repairs it all | 0.9 M |
| `server_moves` | moves, removals, additions, index runs, other programs, a write that throws, a kill | 1.8 M |
| `server_docid` | *violated*: docids after a kill | |
| `find` | all command lines; three and four messages that refer to each other in every way; a writer that commits any number of times; liveness | 0.16 M |
| `extract` | eleven messages, requests of every kind, writes that fail or stop short, files that cannot be closed, kills, files of others, a draft that changes | 2.1 M |
| `message` | three messages; two maildirs that are links, one of them the end of its real name; read in any order and moved step by step, while files change | 1.4 M |
| `proc` | two servers, two commands, a kill, a crash, C-g; refinement and liveness | 0.69 M |
| `program` | two processes, twenty command lines, kills, links that stay, failing writes and commits | 2.7 M |

What they show:

- **Store.** `FlushIsDurable` and `TxnFlagsAgree` hold whatever fails;
  `LossIsReported` and `DurableIsReadable` while no *commit* throws (none does in
  `store_server`); `DocidNamesOneMessage` holds within a process;
  `BatchIsBounded` between two removals, because `mu_store_remove_path` counts a
  message but does not look whether the batch is full.
- **Contacts.** `ContactsAreKept`: unless a process with unsaved contacts was
  killed or could not write the file, the group of every address of every stored
  message has an entry, and no older than any named contact of the group as long
  as all dates of the group fit in an int.  Two addresses whose keys are encoded
  alike share one entry: one of them is then not listed.
  `ListedWasSeen`: no filter shows what no message said.
- **Indexer.** `StampsAreSound` and `CompleteRunMirrors` hold when files change
  between the runs only, with interrupts, kills and failing writes anywhere;
  `EventuallyMirrors` says that an indexer which is started again and again gets
  there.  When files change inside a run both fail, and `ReindexMirrors` shows
  that `--reindex` repairs all of it.  In `index_rename` a rename keeps the ctime
  and there is one rename or deletion: reusing the *name* of a deleted message
  for an older one on such a file system is outside what the code can notice,
  and Maildir names are not reused.
- **Server.** `ActsOnWhatWasMeantInSession`, `AnswersAreTrue` and
  `DocsHaveFiles` hold; across a kill docids are not stable (`server_docid`), so
  a command on a header that is still shown may act on another message.
- **Find.** The forest stays one that its pointers agree on, no empty container
  is left where a message could stand, every match has one place, sorted threads
  are together in the output, and the output is of one revision and complete.
  `FindEnds`: the program ends unless the other process commits for ever; nothing
  bounds how often it tries again.
- **Parts and messages.** Saved is what was asked for, as far as mu can tell
  (short writes of messages and closes that fail go unnoticed), nothing of others
  is overwritten, `mu verify` says yes only to what is signed, document and file give
  the same fields, every plain text is indexed as body or as attachment.
  `MoveKeepsAll`: whatever others do between the steps of a move, its `rename`
  loses no file but one that was made under the new name after the check, and an
  answer without an error is true of the name, the flags and, where the old document
  named the maildir of its file, the maildir.
- **mu4e and its servers.** `DialogImplemented` is the refinement of `MuDialog`;
  `FindsAreNotMixed` the promise of the comment in `cmd_find`;
  `ConversationsSettle` that every question is answered in the end unless its
  server ended, was forgotten, or the filter was left early and the reply waits
  in the buffer for the next output; and that no server outlives Emacs.
- **Program.** Exit code 0 is true (`OkMeansDone`) with the three exceptions named
  at the property, and for links only of a search that ran alone; what is right,
  runs alone and can make and remove its files succeeds, whatever earlier runs
  left behind (`RightCommandsSucceed`).

Behaviours of the code that were met on the way and that no run is about: the
properties above are stated so as not to depend on them.

- `mu_store_add_msg` returns a docid even when the commit of its batch threw
  (`mu-store-write.cc:693`); `mu add` and `mu remove` have their exit code before
  the last flush, whose failure nobody learns.
- A file that changes between the moment it is looked at and the moment its
  directory is stamped is not looked at again (`mu-index.c:232`); a directory
  inside `cur` overwrites `_dirstamp` for the rest of `cur` (`mu-index.c:225`);
  `--rebuild` skips `.noupdate` directories although it starts from nothing
  (`mu-cmd-index.c:194`).
- A message that another program moved, that was added at its new place and that
  mu moves back has two documents (`mu-store-write.cc:724`).
- Without a sort field, empty roots can take thread numbers with one digit more,
  and then sort apart (`mu-container.c:591`).
- A temporary file made for a part is used again for a draft that has been edited
  (`mu-msg-part.c:735`).
- `get_target_mdir` asks only that the maildir of the document be the end of the
  real directory of the file (`mu-msg.c:843`).  With `/work` a link to
  `/gmail/work` it takes `/gmail` for the root: the message goes to
  `/gmail/other` and its document says `/other`.  `WellFormed` says what is left.
- A file that another program makes under the new name between the check and the
  `rename(2)` of a move is overwritten (`mu-maildir.c:801` and `:830`).
- `save` of a part that does not exist uses a null pointer (`mu-msg-part.c:770`);
  the other commands look first.  A short `write(2)` of a message in a message is
  taken for success (`mu-msg-part.c:633`).  That a file cannot be closed is
  reported only to callers that do not ask for errors, of which there are none
  (`mu-msg-part.c:674`).  A file that a kill left half written is handed out by
  `open` and `temp`, which use what exists.
- `clear_links` returns success for failure (`mu-maildir.c:612`), although the
  documentation of `mu_maildir_clear_links` says "TRUE if it worked"
  (`mu-maildir.h:127`): with `--clearlinks`, old links that cannot be removed are
  left with a warning and exit code 0, unless they are in the directory that was
  read last.  The first error of the clearing is kept, and a search that finds
  nothing then exits with the code of it.
- "--exec and --format cannot be combined" (`mu-cmd-find.c:675`) is never said:
  with `--exec` the format has been replaced before the check
  (`mu-cmd-find.c:729`).
- `mu_runtime_init` frees `muhome` twice when it fails; `parse_cmd` looks for a
  dash in the name of the program, not in the first parameter, so that an option
  without a command is an unknown command (`mu-config.c:464`); `mu remove` by
  another name of a message needs its file to be there.

**Bounds.**  Batches of two messages make every batch boundary occur within the
two or three messages of an instance.  Two paths are what renames, duplicates
and docid reuse need; the third of `index_quiet` is the oversized one.  One
fault of a kind suffices, since after a fault the state is one that calls
without faults go on from; two can be tried by editing the .cfg.  Two or three
clock ticks give a change before, in and after the second of a stamp.  Docids
are bounded by `MaxDocId`: a step that would need another docid is not taken, so
`index_quiet`, which checks liveness, has more docids than its edits, renames
and interrupts can use up.  `TimeModulus` is beyond the clock of every run: what
happens in 2106 is not checked.  `find` has all shapes of references between
three messages, one missing and one duplicate, and a fourth message for the
case of more roots than matches; `Base` 2 makes numbers of several digits.
Commits have no bound; `age` counts only to the two that it takes to overwrite a
revision.  `proc` needs two
servers for every hazard that is about two, and two commands for mixing; one
reply of each kind (`MaxHeaders`, `MaxCopies`) tells replies apart.  In
`program` two processes, at once or one after the other, two troubles (kills,
vanished files, entries that cannot be made) and one fault of the database.
`extract` has two requests, so that the second meets what the first left.
`MaxChanges` of `message` bounds changes of files and moves together.
`Depth` 3 is what the deepest message of `extract` and `message` takes, with
messages in a message in a message; `NotTooDeep` is checked when TLC starts.
`CHECK_DEADLOCK FALSE` is given because bounded edits, kills, commands and
docids run out, and a process that is not running is a normal end.  Symmetry is
used for paths, names and processes where nothing orders them and no liveness is
checked.

**Fairness.**  `FairSpec` of `MuIndex` has weak fairness of the indexer's own
steps (it is one thread that never waits for anything but the disk) and of the
start of another plain `mu index` (cron, or `mu4e-update-interval`).  The mail
programs, signals, kills and failures have none, and are bounded: liveness says
what happens once they are quiet.  `FairSpec` of `MuFind` says that the one
thread of `mu find` goes on until it ends; it is weak fairness of `Find`, written
without `ENABLED`.  `MuProc` has weak fairness of `Progress`: as long as Emacs has
something to read or a server can go on, one of them does; neither is promised
to come before the other, and no user, kill or crash is promised.

## Proofs

Each theorem holds for every value of the constants that the named assumptions
of the modules allow (a positive batch size, natural bounds, a tree of
directories), hence for any number of messages, failures, signals and kills.

| module | theorem | |
|---|---|---|
| `MuContactsProofs`, about `MuStore` | `TypeCorrect` | `Spec => []TypeOK` |
| | `TransactionFlagsAgree` | `Spec => []TxnFlagsAgree` |
| | `FlushMakesDurable` | `Spec => FlushIsDurable` |
| | `BatchBounded` | `Spec => []BatchIsBounded` |
| | `LossReported` | `CommitFaults = 0 /\ Spec => LossIsReported` |
| | `DurableReadable` | `CommitFaults = 0 /\ Spec => []DurableIsReadable` |
| | `DocidsName` | `Spec => []DocidNamesOneMessage` |
| about `MuContacts` | `CacheFlagsAgree` | `CacheSpec => []TxnFlagsAgree` |
| | `CacheFlushDurable` | `CacheSpec => FlushIsDurable` |
| | `ContactsKept` | `CacheSpec => []ContactsAreKept` |
| | `ListedSeen` | no date before an int `/\ CacheSpec => []ListedWasSeen` |
| `MuIndexProofs` | `TypeCorrect` | `Spec => []TypeOK` |
| | `StampsSound` | `Quiet /\ Spec => []StampsAreSound` |
| | `CompleteRunsMirror` | `Quiet /\ Reached("update") /\ Spec => []CompleteRunMirrors` |
| | `ReindexRepairs` | `MessagesInLeaves /\ Reached("reindex") /\ Spec => []ReindexMirrors` |
| `MuServerProofs` | `TypeCorrect` | `Spec => []TypeOK` |
| | `CommandsMeanWhatTheySay` | `Spec => []ActsOnWhatWasMeantInSession` |
| | `TrueAnswers` | `Spec => []AnswersAreTrue` |
| | `DocsKeepTheirFiles` | `Spec => []DocsHaveFiles` |
| `MuProcProofs` | `ProcInvariant` | `Spec => []ProcInv`, the inductive invariant |
| | `ProcTypeCorrect` | `Spec => []ProcTypeOK` |
| | `SearchesNotMixed` | `Spec => []FindsAreNotMixed` |
| | `DialogKept` | `Spec => DialogImplemented`, the refinement of `MuDialog` |
| `MuProgramProofs` | `ProgInvariant` | `Spec => []ProgInv`, the inductive invariant |
| | `ProgTypeCorrect` | `Spec => []TypeOK` |
| | `OkIsDone` | `Spec => OkMeansDone` |
| | `RightSucceed` | `Spec => RightCommandsSucceed` |
| `MuExtractProofs` | `TypeCorrect` | `Spec => []TypeOK` |
| | `NothingIsEverClobbered` | `Spec => NothingIsClobbered` |
| | `FlaggedMailsHaveAttachments` | `Spec => []FlaggedHasAttachments` |
| | `VerifiedMailsAreSigned` | `Spec => [](PlainlyAsked => VerifiedIsSigned)` |
| | `WhatWasAskedIsSaved` | `Spec => []SavedIsWhatWasAsked` |
| `MuMsgProofs`, about `MuFlags` | `FlagsAreReadBack` | flags put in a name are the flags read from it |
| | `MoveIsIdempotent` | a second move to the same place changes nothing |
| about `MuMsg` | `DocumentsKnowWhereTheyAre` | `Spec => []WellFormed` |
| | `MovesLoseNothing` | `Spec => MoveKeepsAll` |
| | `NoTextIsMissed` | `Spec => []TextIsSearchable` |
| | `NoAnswerIsStale` | `Spec => []AnswersAreTrue` |

**The store functions** (`MuStoreOpsProofs`, lemmas only).  `GoodStore(s)` says
that `s` is a store whose two transaction flags agree; a lemma for each store
function (`GoodXapianCommit`, `GoodBegin`, ..., `GoodAddMsg`) says that it takes
good stores to good stores, whatever throws.  Frame lemmas say what a function
leaves alone, and the `Quiet...` lemmas what exactly it returns while no commit
throws: the document is stored, or the open batch is rolled back to `disk` and
the result says so.

**The store.**  The inductive invariant is `IInv == TypeOK /\ TxnFlagsAgree`;
neither half is inductive alone, since the types of the history variables follow
from what the functions return and the agreement from the lemmas about stores of
the right type.  `FlushMakesDurable` follows from it: when the flags agree, a
flush ends the transaction before it commits, so the commit is not refused.
`BatchIsBounded` is not inductive: `BatchInv`, that the open batch holds at most
`processed` messages (which is below the batch size by its type), is.
`LossReported` takes every call apart with the `Quiet` lemmas; the hypothesis
`CommitFaults = 0` is needed, because a commit that throws loses a batch that
nobody reports.  `DurableReadable` needs it too; its invariant is that nothing
but an empty content is on disk without a version.  `DocidsName` has no such
hypothesis: its invariant `ToldInv` orders docids (no document, and no docid that
was given away in a batch that still exists, is above `last`), so that a docid is
given to a second path only after the batch of the first was lost.  The property
itself speaks of histories without a write or commit that throws: after a rollback,
as after a kill, docids do come back.

**The contacts cache.**  Every step of `MuContacts` is a step of `MuStore`, or one
in which the constructor throws and the store is left unopened; the invariant of
`MuStore` carries over.  `ContactsAreKept` and `ListedWasSeen` follow from
`CacheInv`.  It says of the cache *and* of the file that a contact is under its
own group and was in a message, its date as it was or as an int (`Held`); that
a group is at least as recent as each named contact of it whose date can be
saved (`Newest`); and that the groups of the addresses of every document are
there (`Covers`).  `Covers` speaks of what is on disk as well as of what the
process sees, since a rollback or a kill makes the one the other; and a cache
with nothing to save is equal to the file, which is what a restart relies on.
`AsInt` is proved never to make a date later unless it lies before the least
int, which is the hypothesis of `ListedSeen`; `ContactsKept` needs none, because
`NewestNameStays` speaks of dates that fit.

**The indexer.**  `StampsAreSound` alone is not inductive: what makes it true when
a directory is stamped is that the walk has been through it.  `IndexInv` adds,
for each frame of the walk, that the messages of its directory which are no
longer to be visited are recorded as they are, except the one in hand
(`VisitedCurrent`); that only the innermost frame can be a directory with
messages, and `dirstamp` is its stamp; and that no stamp and no ctime is in the
future, so that a file that changes is no older than any stamp.  `Quiet` names
what this takes: messages are in leaf directories that hold no directories, no
file changes while the indexer runs, every change sets the ctime, times fit in
the unsigned they are compared in, and no commit throws.  Without each of these
the invariant fails, as described under the runs.

`TypeCorrect` has no hypotheses.  Its invariant `Sane` adds to the types that the
walk has frames exactly while it walks, that all but the outermost are of
directories, that the database has one document for each path, and that a file
that is there has a ctime.  `CompleteRunsMirror` and `ReindexRepairs` share
`RunInv(m)`, for a run called as `m` (`"update"` or `"reindex"`) that nothing has
disturbed: while it walks, every message that it is to record is recorded
already, or still pending; after the walk all are recorded; during the cleanup
every document without a file is still in `todo`; after it there is none, and the
last flush puts this on disk.  A message is pending when it is in hand, is in a
frame of the walk, or *is led to* by a directory in a frame: `Leads` is
reachability by directories that are not skipped, defined by closed sets and not
by recursion, so that it can be proved about.  A message is dropped from what is
pending without being read only if its directory's stamp says so, and there
`StampsAreSound` is used; with `--reindex` no stamp is asked, and the theorem
needs neither `Quiet` nor any history.  `Reached(m)` says that the leaf
directories that are not skipped can be reached from the root by directories that
are not skipped; a `.noupdate` file in a *parent* of a maildir would hide it
(`mu-maildir.c:510`), and then the database is not a mirror.

**The server.**  The four theorems share one invariant, `IInv` of
`MuServerProofs`, a conjunction of parts.  `ServerStore` says that the documents
are ordered (no two with one docid, none past the highest), on disk as in the
process.  `JobInv` says that the document in hand is there, with the path that
was read, until the command itself replaces or removes it: the server is the only
writer, whatever becomes of the file.  `AnswersInv` says that each update that is
already reported is still true and that its docid is not among those still to be
moved, which is why a move of several messages ends with true answers only.
`MeantInv` says that a header of the session has a docid that was handed out,
and that if a document has this docid then it is a document of the message the
header shows; a step keeps it because a new docid is past every docid that
headers have (`SameNames`).  It is confined to sessions without a failed write,
since a rollback takes docids back.  `CleanInv` describes where the documents are
between the steps of a move: at their files, except the one in hand, whose file
may be at its old place, its new place or neither.  The store is opened, batched,
rolled back and flushed by the lemmas of `MuStoreOpsProofs`; no commit throws in
`MuServer`.

**mu4e and its servers.**  `ProcInv` is the conjunction of the types, the lock
(`OneUp`), and of what makes the filter work without any knowledge of who printed
what.  `SafeAlone` is its heart: a server that is safe is the only one Emacs
knows, so that `buf` followed by its output pipe is one row of whole replies,
cookie and expression in turn (`Row`); only the death of the server may leave a
cookie without its expression at the end (`Whole`); its input has no `quit`, since
mu4e forgets a server to which it sends one; and the headers in the row belong to
the search that is shown, or the `erase` of their own search comes before them
(`Announced`).  The invariant survives a server that is cut off because the
sentinel clears the buffer before another is started, and two servers because
both lose `safe`.  `SearchesNotMixed` is the conjunct `OneSearch`.
`DialogKept` takes every action of `MuProc` to a step of `MuDialog`, or a stutter,
for each server: what is received moves from the pipe to the buffer and changes
nothing; an expression that is eaten is heard; a command that is served appends
its replies, or as many of them as were printed before the server died
(`ServeKeeps`).  What `Said` computes is a recursive function over the pieces;
`RepliesOfRow` and `RepliesOfOthers` say what it returns for a row of whole
replies and for pieces of others.  They are proved from the definition by looking
at the least number at which they would fail (`LeastNumber`), which the library's
theorems about well-founded relations give without an operator parameter.

**The program.**  The two properties of `MuProgram` are about the step with which a
process exits, and each needs to know what all the steps before it have left
true.  `ProgInv` says it of each process and of the world it shares: `PhaseInv`,
what the process has read so far; `TreeInv`, that a directory it needs is in the
tree or among those it is still to make; `DoneInv`, that while all went well each
message of its command line is seen to in the database it writes, or still to be
seen to; `LinkInv`, that the matches it has seen have their links and, once the
old links are read, that no other is left but those it is still to remove; and
`RightInv`, why a command that is right has not failed.  A process that is
not alone claims nothing about links, and nobody else claims anything about the
database while one has the lock, so a step of one process leaves the others what
they know (`WorldMoves`, `Moves`).  `StepsGood` then takes each action: it keeps
`ProgInv`, and a process that exits with 0 has done its work, while one that
exits with something else had a reason.  `Close` rests on `FlushDurable`: what
the writer saw is on disk if the commit did not fail, hence the exception for
commits in `OkMeansDone`.  `clear_links` never returns what one
expects, and `LinkInv` shows why a process that is alone is not stopped by it:
its `rv` is false after the first directory, and as long as `err` is empty no
`unlink` of its own has failed.

The parameters are sequences in the model, and `FlattenSeq`, which the maildirs
of `mkdir` are put in a row with, is a recursive function: `FlattenHas` says what
it returns, again by the least number at which it would not.

**Parts and saving.**  A walk is a recursive function of the level: each level
opens what the last has left unopened, and `Depth` levels open all
(`NotTooDeep`, which `MuExtract` and `MuMsg` assume of every message).  What
holds of a walk or of the parts that are handed out is proved level by level,
again by the least level at which it would not (`MuExtractProofs`, first half):
that what is found is an object of the message, that its parent is the multipart
it is in, that what is handed to the callback are exactly the parts and message
parts of the walk, and that the number of a part is its place in the walk.
`TypeInv` is the inductive invariant of the state; it adds to the types that
the file which is being written is there and is of the part in hand, and that
an answer was made of the message and the request that it names.
`NothingIsEverClobbered`, `FlaggedMailsHaveAttachments` and
`VerifiedMailsAreSigned` follow from it.  `WhatWasAskedIsSaved` needs
`SavedInv`: each part that was asked for is in whole in its file, or still to be
saved, and no other part of the same request takes the file: without
`--overwrite` a second part of the same name is refused, and the parts that are
forwarded have numbers that rise, each with a directory of the cache of its own.
It says "in its file" as mu can know it (`Enough`): whatever a close that fails
loses, and however much of a message in a message was written.  One hypothesis
says where the code keeps no promise, a part of `SavedIsWhatWasAsked` and of the
theorem about `VerifiedIsSigned`: the request does not decrypt and does not look
into messages (`Plainly`, `PlainlyAsked`).  With these options two parts may have one
number: a decrypted object has the number after that of the object it was in
(`mu-msg-part.c:407`), which is also that of the next part, and the parts of a
message in the message are counted from 0 again (`mu-msg-part.c:558`).  
**Messages.**  The inductive invariant of `MuMsg`, `IInv`, says that files are
at real paths, and that every document, in the database or in a message that is
in use, is one that `NewDocs` makes of a file that was there, with the maildir it
was indexed with or asked to move to (`MadeOf`, `Knows`), and of a move what its
steps have found out (`IsMove`).  A move keeps it, since the document that it
makes is of the file at its new place, whose directory ends as the maildir does
that was put there.  `MovesLoseNothing` takes the rename apart: the new name was
free when it was looked at (a message that keeps its name is not renamed), and
what `GetNewPath` does to the flags is `FlagsAreReadBack`.  `NoTextIsMissed` is a
statement about documents: a plain text that is not of the body is in an
attachment or in a message that is in the message, however deep, and there
`GetText` finds it (`TextIsFound`).  `NoAnswerIsStale` goes through the fields:
what a document has of a field is what `FileField` gives for the file it was
made of (`ValuesAre`), so it is true as long as the file is what it was
(`TrueFileIs`); a list is joined and split at commas, hence the exception for a
message-id with a comma (`JoinedIs`); and the contacts of the headers are proved
to be those of the file after they were made a string and parsed again
(`SameContacts`).  What the proofs assume of strings is named in `MuMsg`: what is
ASCII stays as it is (`AsciiAssumption`), a string that is split at commas into
one is that one (`CommasAssumption`), a value is not the absence of one
(`NoValueAssumption`).  `Parts`, an instance of `MuExtractProofs`, lends its
lemmas about the walk; the lemmas named `Same...` say that an operator of the
instance is that of `MuMsg`.

**Flags** (in `MuMsgProofs`) are statements about operators, proved from their
definitions.

**Model-checked only.**  Liveness (`EventuallyMirrors`, `FindEnds`,
`ConversationsSettle`) is out of reach of the proof system.  The containers and
the threads are `RECURSIVE` operators over pointers that may go round in
circles, for which it has neither a back end nor induction: all of `MuFind`.
Requests to decrypt, for `VerifiedIsSigned`: the run shows it for the messages
in it, the theorem leaves them out.

## What is not modelled

See `components` in `PROJECT.json`.  In the parts that are modelled: what a query
expression matches, character sets, the layout of output, statistics and progress
reports are data; `mu_store_clear` is unreachable (the store's constructor
overwrites the database for `--rebuild` and throws for an old one before
`--autoupgrade` is looked at); the synonyms every writable open adds are constant;
Xapian's own flush threshold (more than 10000 changes outside a transaction) is
ignored; a write of metadata that throws leaves the database as it was.  The
permissions of files and directories do not change while a program runs, and
directories of a Maildir do not come and go while it is indexed.  The Emacs side
beyond the process (headers, marks, composition) edits buffers: what the rest of
the system sees of it are the commands it sends, and those are chosen freely.
The Guile binding and the toys read the store and keep no state; the string,
date and path helpers are pure and abstracted where they are called; everything
outside `mu4e-pack` is third-party Emacs packages and settings.

## Plan

1. *(done)* Store, indexer, server; the store's invariants proved.
2. *(done)* mu4e's process layer with an abstract specification it implements;
   the contacts cache; the program and its exit codes.
3. *(done)* The threader and `mu find`; parts and extraction; fields, documents
   and flags.
4. *(done)* Proofs of the store's other properties, of the soundness of stamps,
   and of the properties of the server.
5. *(done)* Proofs of the indexer's and the contacts' properties, of mu4e's
   process layer with its refinement of `MuDialog`, and of the exit codes of the
   program.
6. *(done)* The MIME walk as a recursive function, and proofs about saving parts
   and about a message over its document and its file.
7. `Mu4eMarks`: the table of marks while updates arrive from the server.
   The wrap-around of stamps in 2106.
   Proofs about `MuFind`, for which the containers would have to be walked by
   functions with a bound, as the parts are.
