----------------------------- MODULE MuProgram ------------------------------
(***************************************************************************)
(* The program mu as it is run from a shell (mu/mu.cc, mu-config.c,        *)
(* mu-cmd.c): a command line is parsed, ~/.mu and the log are made ready   *)
(* (lib/mu-runtime.c, mu-log.c), a command is run, and the exit code says  *)
(* how it went.  Several processes run at once.  They share ~/.mu and its  *)
(* log, the database, which one process at a time may write, and the       *)
(* maildirs that mkdir makes and find fills with links.                    *)
(*                                                                         *)
(* The commands with a module of their own (index, server, extract, cfind) *)
(* are not run here; of find, what its links are and how it exits is here, *)
(* what it shows is in MuFind.                                             *)
(***************************************************************************)
EXTENDS MuStoreOps, Sequences, SequencesExt

CONSTANTS
  Procs,          \* processes that can run at once
  CommandLines,   \* what users ask for (see Line)
  RealPath,       \* name of a file on a command line -> what realpath(3) says
  Relative,       \* the names that are not absolute
  Matching,       \* query -> the messages that it matches (of those --after asks for)
  Subdir,         \* message file -> the directory of a maildir that it is in
  Null,
  MaxStarts,      \* bound: processes started
  Indexings,      \* the sets of messages that the database may hold at first
  MaxTroubles,    \* bound: processes killed, files deleted by others or not made
  MaxFaults       \* bound: writes, and commits, of the database that fail

VARIABLES
  files,   \* the message files that are there
  store,   \* the database (MuStoreOps); work is what its writer sees
  lock,    \* the process that has it open for writing, or Null
  tree,    \* pairs <<maildir, entry>>, directories and .noindex files
  links,   \* triples <<maildir, subdirectory, message>>
  home,    \* the directories that there are of ~/.mu
  log,     \* the log file
  proc,    \* process -> what it is doing
  used     \* how much of each bound is used

shared == <<files, store, lock, tree, links, home, log>>
vars == <<shared, proc, used>>

\* A command line: the names after the command, the names of the options, and
\* what --format and --linksdir say.
Line(cmd, params, opts, format, linksdir) ==
  [cmd |-> cmd, params |-> params, opts |-> opts, format |-> format,
   linksdir |-> linksdir]

(* What a process knows: entries still to be made, parameters and matches   *)
(* still to be seen to, directories still to be cleared, the links read from *)
(* the one that is being cleared, what clear_links returned for the last one *)
(* and whether it left errno set, the error of clear_links that is kept, as  *)
(* mu_util_g_set_error lets no later one in its place, whether all went well *)
(* and anything was shown; what it will return.  And what it does not know:  *)
(* whether it is alone, whether something could not be made or removed, and  *)
(* whether a commit failed.                                                  *)
Fresh(line, alone) ==
  [phase |-> "config", line |-> line, make |-> <<>>, todo |-> <<>>, left |-> {},
   clear |-> {}, listed |-> {}, rv |-> TRUE, errno |-> FALSE, err |-> Null,
   allok |-> TRUE,
   asked |-> {}, count |-> FALSE, code |-> Null, alone |-> alone, hurt |-> FALSE,
   lost |-> FALSE]

NotStarted == [Fresh(Null, FALSE) EXCEPT !.phase = "exit"]

Phases == {"config", "home", "log", "move log", "open log", "execute", "mkdir",
           "open", "clear", "unlink", "view", "add", "remove", "link", "close",
           "exit"}
Codes == {"ok", "error", "in parameters", "write lock", "not up to date",
          "cannot mkdir", "cannot create", "file", "cannot link",
          "invalid source", "no matches", "store failed", "remove failed",
          "empty", "cannot open", "spawn failed", "killed", "aborted"}

Running(p) == proc[p].phase # "exit"

\* The parameters of a command line come in a row; Null is no process and no
\* exit code; the docids are enough for the messages there are at first.
ASSUME LinesAssumption ==
  \A line \in CommandLines : line.params \in Seq(ToSet(line.params))
ASSUME NullAssumption == Null \notin Procs /\ Null \notin Codes
ASSUME IndexingsAssumption ==
  /\ Bodies # {} /\ IsFiniteSet(Paths) /\ Cardinality(Paths) <= MaxDocId
  /\ UNION Indexings \subseteq Paths
ASSUME FaultsAssumption == MaxFaults \in Nat

TypeOK ==
  /\ files \subseteq Paths
  /\ store \in Stores
  /\ lock \in Procs \cup {Null}
  /\ \A p \in Procs : lock = p <=> proc[p].phase \in {"add", "remove", "close"}
  /\ \A l \in links : <<l[1], l[2]>> \in tree
  /\ home \subseteq {"home", "cache", "log"} /\ log \in {"none", "small", "big"}
  /\ \A p \in Procs : /\ proc[p].phase \in Phases
                      /\ proc[p].code \in Codes \cup {Null}
                      /\ proc[p].left \subseteq proc[p].asked

\* Before the first command there is no ~/.mu; later there is, with a log of
\* some size and a database with some of the messages.
Numbering == CHOOSE f \in [Paths -> 1..Cardinality(Paths)] :
               \A a, b \in Paths : a # b => f[a] # f[b]

Indexed(paths) == [EmptyContent EXCEPT
  !.docs = {Doc(Numbering[a], a, CHOOSE b \in Bodies : TRUE) : a \in paths},
  !.last = Cardinality(Paths), !.version = "current"]

Init ==
  /\ files = Paths
  /\ \E content \in {EmptyContent} \cup {Indexed(paths) : paths \in Indexings} :
       /\ store = [work |-> content, disk |-> content, xtxn |-> FALSE,
                   inTxn |-> FALSE, processed |-> 0, badWrites |-> MaxFaults,
                   badCommits |-> MaxFaults]
       /\ IF content.version = "none" THEN home = {} /\ log = "none"
          ELSE home = {"home", "cache", "log"} /\ log \in {"small", "big"}
  /\ lock = Null
  /\ tree = {} /\ links = {}
  /\ proc = [p \in Procs |-> NotStarted]
  /\ used = [starts |-> 0, troubles |-> 0]

Spend(what, bound) == used[what] < bound /\ used' = [used EXCEPT ![what] = @ + 1]

Goes(p, to) == proc' = [proc EXCEPT ![p] = to]
Exits(p, code) == Goes(p, [proc[p] EXCEPT !.phase = "exit", !.code = code])

\* A file, directory or link cannot be made, read or removed: the disk is full,
\* or it is not for us.
Hurts(p, to) == Spend("troubles", MaxTroubles) /\ Goes(p, [to EXCEPT !.hurt = TRUE])
Refused(p, code) == Hurts(p, [proc[p] EXCEPT !.phase = "exit", !.code = code])

-----------------------------------------------------------------------------
(* The world around the processes.                                         *)

Start(p, line) ==
  /\ ~Running(p)
  /\ Spend("starts", MaxStarts)
  /\ LET others == {q \in Procs : Running(q)}
     IN proc' = [q \in Procs |->
                   IF q = p THEN Fresh(line, others = {})
                   ELSE [proc[q] EXCEPT !.alone = q \notin others /\ @]]
  /\ UNCHANGED shared

Kill(p) ==
  /\ Running(p)
  /\ Spend("troubles", MaxTroubles)
  /\ Exits(p, "killed")
  /\ IF lock = p THEN lock' = Null /\ store' = Unopened(store)
     ELSE UNCHANGED <<lock, store>>
  /\ UNCHANGED <<files, tree, links, home, log>>

Vanish(f) ==
  /\ f \in files
  /\ Spend("troubles", MaxTroubles)
  /\ files' = files \ {f}
  /\ UNCHANGED <<store, lock, tree, links, home, log, proc>>

-----------------------------------------------------------------------------
(* Getting ready: mu-config.c, mu-runtime.c, mu-log.c.                     *)

GeneralOptions == {"debug", "quiet", "version", "muhome", "log-stderr",
                   "nocolor", "verbose"}
CryptoOptions == {"auto-retrieve", "use-agent", "decrypt"}

FindOptions == {"fields", "sortfield", "threads", "bookmark", "reverse",
                "linksdir", "clearlinks", "format", "exec", "after"}
ViewOptions == {"summary-len", "terminate", "format"} \cup CryptoOptions

\* get_option_group: what follows a command is parsed with the general options
\* and those of the command; add, remove, help and others have none.
OptionGroup(cmd) == CASE cmd = "mkdir" -> {"mode"}
                      [] cmd = "find" -> FindOptions
                      [] cmd = "view" -> ViewOptions
                      [] OTHER -> {}

ParamsParse(line) == line.opts \subseteq GeneralOptions \cup OptionGroup(line.cmd)

\* set_group_find_defaults, set_group_view_defaults
FormatOf(line) == IF "format" \in line.opts THEN line.format ELSE "plain"

\* mu_config_init and main.  Only an empty command line has no command: when it
\* begins with an option that is an unknown one, as parse_cmd looks for the dash
\* in the name of the program.
Config(p) ==
  LET line == proc[p].line IN
  /\ proc[p].phase = "config"
  /\ IF line.cmd = "none" THEN Exits(p, "ok")
     ELSE IF ~ParamsParse(line) THEN Exits(p, "error")
     ELSE IF "version" \in line.opts THEN Exits(p, "ok")
     ELSE Goes(p, [proc[p] EXCEPT !.phase = "home"])
  /\ UNCHANGED <<shared, used>>

\* The directories up to the first that cannot be made; only the homedir has
\* to be there, mu_runtime_init does not look at what init_paths returns.
RuntimeDirs == <<"home", "cache", "log">>

CreateDirs(p) ==
  /\ proc[p].phase = "home"
  /\ \/ /\ home' = ToSet(RuntimeDirs)
        /\ Goes(p, [proc[p] EXCEPT !.phase = "log"])
        /\ UNCHANGED used
     \/ \E i \in DOMAIN RuntimeDirs :
          /\ RuntimeDirs[i] \notin home
          /\ home' = home \cup {RuntimeDirs[j] : j \in 1..(i - 1)}
          /\ IF i = 1 THEN Refused(p, "error")
             ELSE Hurts(p, [proc[p] EXCEPT !.phase = "log"])
  /\ UNCHANGED <<files, store, lock, tree, links, log>>

\* mu_runtime_init without a log frees muhome twice: runtime_free has freed it
\* already.  Then main returns 1, if there still is a process.
NoLog(p) == \E code \in {"error", "aborted"} : Exits(p, code)

\* log_file_backup_maybe
LogInit(p) ==
  /\ proc[p].phase = "log"
  /\ Goes(p, [proc[p] EXCEPT !.phase = IF log = "big" THEN "move log" ELSE "open log"])
  /\ UNCHANGED <<shared, used>>

\* move_log_file.  By now another process may have moved the log.
MoveLogFile(p) ==
  /\ proc[p].phase = "move log"
  /\ IF log = "none" THEN NoLog(p) /\ UNCHANGED log
     ELSE log' = "none" /\ Goes(p, [proc[p] EXCEPT !.phase = "open log"])
  /\ UNCHANGED <<files, store, lock, tree, links, home, used>>

OpenLog(p) ==
  /\ proc[p].phase = "open log"
  /\ \/ /\ "log" \in home
        /\ log' = IF log = "none" THEN "small" ELSE log
        /\ Goes(p, [proc[p] EXCEPT !.phase = "execute"])
        /\ UNCHANGED used
     \/ /\ "log" \notin home
        /\ NoLog(p)
        /\ UNCHANGED <<log, used>>
     \/ /\ \E code \in {"error", "aborted"} : Refused(p, code)
        /\ UNCHANGED log
  /\ UNCHANGED <<files, store, lock, tree, links, home>>

-----------------------------------------------------------------------------
(* mu_cmd_execute                                                          *)

Entries(dir) == <<<<dir, "new">>, <<dir, "cur">>, <<dir, "tmp">>>>

\* --exec is a format of its own, so that it can be given with any --format.
FindFormat(line) == IF "exec" \in line.opts THEN "exec" ELSE FormatOf(line)

\* query_params_valid, format_params_valid
FindParamsValid(line) ==
  /\ line.params # <<>>
  /\ FindFormat(line) \in {"plain", "sexp", "xml", "xquery", "links", "exec"}
  /\ FindFormat(line) = "links" <=> "linksdir" \in line.opts

\* How a search ends that makes no links, by the messages it can read.
ShownCodes(format, readable) == CASE format = "xquery" -> {"ok"}
                                  [] readable = {} -> {"no matches"}
                                  [] format = "exec" -> {"ok", "spawn failed"}
                                  [] OTHER -> {"ok"}

\* mu_cmd_find: the checks, then the query.
ExecuteFind(p) ==
  LET line    == proc[p].line
      matches == Matching[line.params[1]] \cap {d.path : d \in store.disk.docs}
  IN IF ~ReadOnlyOpens(store) THEN Exits(p, "not up to date")
     ELSE IF ~FindParamsValid(line) THEN Exits(p, "in parameters")
     ELSE IF store.disk.docs = {} THEN Exits(p, "empty")
     ELSE IF FindFormat(line) # "links"
     THEN \E code \in ShownCodes(FindFormat(line), matches \cap files) : Exits(p, code)
     ELSE Goes(p, [proc[p] EXCEPT
            !.phase = "mkdir", !.asked = matches, !.left = matches,
            !.make = Append(Entries(line.linksdir), <<line.linksdir, ".noindex">>)])

Execute(p) ==
  LET line == proc[p].line IN
  /\ proc[p].phase = "execute"
  /\ CASE line.cmd = "help" -> Exits(p, "ok")
       [] line.cmd \in {"add", "remove"} ->
            Goes(p, [proc[p] EXCEPT !.phase = "open", !.todo = line.params])
       [] line.cmd = "mkdir" ->
            IF line.params = <<>> THEN Exits(p, "in parameters")
            ELSE Goes(p, [proc[p] EXCEPT
                   !.phase = "mkdir",
                   !.make = FlattenSeq([i \in DOMAIN line.params |-> Entries(line.params[i])])])
       [] line.cmd = "view" ->
            IF line.params = <<>> \/ FormatOf(line) \notin {"plain", "sexp"}
            THEN Exits(p, "in parameters")
            ELSE Goes(p, [proc[p] EXCEPT !.phase = "view", !.todo = line.params])
       [] line.cmd = "find" -> ExecuteFind(p)
       [] OTHER -> Exits(p, "in parameters")
  /\ UNCHANGED <<shared, used>>

\* mu_cmd_view, handle_msg
View(p) ==
  LET todo == proc[p].todo IN
  /\ proc[p].phase = "view"
  /\ IF todo = <<>> THEN Exits(p, "ok")
     ELSE IF RealPath[Head(todo)] \notin files THEN Exits(p, "error")
     ELSE Goes(p, [proc[p] EXCEPT !.todo = Tail(@)])
  /\ UNCHANGED <<shared, used>>

-----------------------------------------------------------------------------
(* with_store, mu_cmd_add, mu_cmd_remove                                   *)

\* Xapian gives the write lock to one process; the kernel takes it back when
\* the process is gone.
Open(p) ==
  /\ proc[p].phase = "open"
  /\ IF lock # Null THEN Exits(p, "write lock") /\ UNCHANGED <<store, lock>>
     ELSE IF OpenWritable(store, FALSE) = {}
     THEN Exits(p, "not up to date") /\ UNCHANGED <<store, lock>>
     ELSE /\ store' \in OpenWritable(store, FALSE)
          /\ lock' = p
          /\ Goes(p, IF proc[p].todo = <<>>
                     THEN [proc[p] EXCEPT !.phase = "close", !.code = "in parameters"]
                     ELSE [proc[p] EXCEPT !.phase = proc[p].line.cmd])
  /\ UNCHANGED <<files, tree, links, home, log, used>>

\* Mutant: the result of the last message stands for all of them.
DoneLast(p, ok) ==
  [proc[p] EXCEPT !.todo = Tail(@), !.allok = ok,
                  !.phase = IF Len(proc[p].todo) = 1 THEN "close" ELSE @]

Done(p, ok) ==
  [proc[p] EXCEPT !.todo = Tail(@), !.allok = ok /\ @,
                  !.phase = IF Len(proc[p].todo) = 1 THEN "close" ELSE @]

\* What the store did to the process, without a word to it.
Noticing(s, to) == [to EXCEPT !.hurt = @ \/ s.badWrites # store.badWrites,
                              !.lost = @ \/ s.badCommits # store.badCommits]

AddTo(p) ==
  LET name == Head(proc[p].todo) IN
  /\ proc[p].phase = "add"
  /\ IF name \in Relative \/ RealPath[name] \notin files
     THEN Goes(p, Done(p, FALSE)) /\ UNCHANGED store
     ELSE \E o \in AddMsg(store, RealPath[name], CHOOSE b \in Bodies : TRUE) :
            /\ store' = o.s
            /\ Goes(p, Noticing(o.s, Done(p, o.id # InvalidDocId)))
  /\ UNCHANGED <<files, lock, tree, links, home, log, used>>

\* get_uid_term: realpath fails when there is no file, and then the document
\* is looked for under the name as it was given.
TermOf(name) == IF RealPath[name] \in files THEN RealPath[name] ELSE name

RemoveFrom(p) ==
  LET name == Head(proc[p].todo) IN
  /\ proc[p].phase = "remove"
  /\ IF name \in Relative
     THEN Goes(p, Done(p, FALSE)) /\ UNCHANGED store
     ELSE \E o \in RemovePath(store, TermOf(name)) :
            /\ store' = o.s
            /\ Goes(p, Noticing(o.s, Done(p, o.ok)))
  /\ UNCHANGED <<files, lock, tree, links, home, log, used>>

ExitCode(pr) == IF pr.code # Null THEN pr.code
                ELSE IF pr.allok THEN "ok"
                ELSE IF pr.line.cmd = "add" THEN "store failed" ELSE "remove failed"

\* mu_store_unref flushes; nobody learns how that went.
Close(p) ==
  /\ proc[p].phase = "close"
  /\ \E s \in StoreFlush(store) :
       /\ store' = Unopened(s)
       /\ Goes(p, Noticing(s, [proc[p] EXCEPT !.phase = "exit", !.code = ExitCode(proc[p])]))
  /\ lock' = Null
  /\ UNCHANGED <<files, tree, links, home, log, used>>

-----------------------------------------------------------------------------
(* mu_maildir_mkdir, mu_maildir_clear_links, mu_maildir_link               *)

\* Mutant: a directory that is there already cannot be made.
MakeEntryNew(p) ==
  LET entry == Head(proc[p].make) IN
  /\ proc[p].phase = "mkdir" /\ proc[p].make # <<>>
  /\ IF entry \in tree THEN Exits(p, "cannot mkdir") /\ UNCHANGED <<tree, used>>
     ELSE /\ tree' = tree \cup {entry}
          /\ Goes(p, [proc[p] EXCEPT !.make = Tail(@)])
          /\ UNCHANGED used
  /\ UNCHANGED <<files, store, lock, links, home, log>>

\* create_maildir leaves a directory alone that is there; create_noindex opens
\* the file in any case.
MakeEntry(p) ==
  LET entry == Head(proc[p].make) IN
  /\ proc[p].phase = "mkdir" /\ proc[p].make # <<>>
  /\ \/ /\ tree' = tree \cup {entry}
        /\ Goes(p, [proc[p] EXCEPT !.make = Tail(@)])
        /\ UNCHANGED used
     \/ /\ entry \notin tree \/ entry[2] = ".noindex"
        /\ Refused(p, IF entry[2] = ".noindex" THEN "cannot create" ELSE "cannot mkdir")
        /\ UNCHANGED tree
  /\ UNCHANGED <<files, store, lock, links, home, log>>

\* The end of mu_cmd_mkdir, or of mu_maildir_mkdir in prepare_links.
Made(p) ==
  /\ proc[p].phase = "mkdir" /\ proc[p].make = <<>>
  /\ CASE proc[p].line.cmd = "mkdir" -> Exits(p, "ok")
       [] proc[p].line.cmd = "find" /\ "clearlinks" \in proc[p].line.opts ->
            Goes(p, [proc[p] EXCEPT !.phase = "clear", !.rv = TRUE, !.errno = FALSE,
                                    !.clear = {"new", "cur", "tmp"}])
       [] OTHER -> Goes(p, [proc[p] EXCEPT !.phase = "link"])
  /\ UNCHANGED <<shared, used>>

\* What clear_links returns: not what one expects.  It is FALSE for each of
\* new, cur and tmp whether or not their links were removed, so that for the
\* maildir it is TRUE unless the last of them to be cleared left errno set.
ClearLinksReturns(rv, errno) == ~rv /\ ~errno

\* The first error is kept; a command that fails later returns the code of it.
FirstError(err, code) == IF err = Null THEN code ELSE err
Fails(p, code) == Exits(p, FirstError(proc[p].err, code))

\* mu_maildir_clear_links of the maildir and of the directories in it, whose
\* links are read; or a directory cannot be opened.
Clear(p) ==
  LET clear == proc[p].clear IN
  /\ proc[p].phase = "clear"
  /\ \/ \E sub \in clear :
          /\ Goes(p, [proc[p] EXCEPT
               !.phase = "unlink", !.clear = @ \ {sub}, !.rv = TRUE, !.errno = FALSE,
               !.listed = {l \in links : l[1] = proc[p].line.linksdir /\ l[2] = sub}])
          /\ UNCHANGED used
     \/ \E sub \in clear :
          Hurts(p, [proc[p] EXCEPT !.clear = @ \ {sub}, !.rv = FALSE, !.errno = TRUE,
                                   !.err = FirstError(@, "cannot open")])
     \/ clear = {"new", "cur", "tmp"} /\ Refused(p, "cannot open")
     \/ /\ clear = {}
        /\ IF ClearLinksReturns(proc[p].rv, proc[p].errno)
           THEN Goes(p, [proc[p] EXCEPT !.phase = "link"])
           ELSE Fails(p, "file")
        /\ UNCHANGED used
  /\ UNCHANGED shared

\* clear_links of new, cur or tmp.  A link that was read may be gone by now, as
\* another search cleared it, or it cannot be removed.
Unlink(p) ==
  LET listed    == proc[p].listed
      Without(l) == [proc[p] EXCEPT !.listed = @ \ {l}]
      Failed(l)  == [proc[p] EXCEPT !.listed = @ \ {l}, !.rv = FALSE, !.errno = TRUE]
  IN
  /\ proc[p].phase = "unlink"
  /\ \/ \E l \in listed \cap links :
          links' = links \ {l} /\ Goes(p, Without(l)) /\ UNCHANGED used
     \/ \E l \in listed \ links : Goes(p, Failed(l)) /\ UNCHANGED <<links, used>>
     \/ \E l \in listed \cap links : Hurts(p, Failed(l)) /\ UNCHANGED links
     \/ /\ listed = {}
        /\ Goes(p, [proc[p] EXCEPT
             !.phase = "clear", !.rv = ClearLinksReturns(@, proc[p].errno),
             !.err = IF proc[p].errno THEN FirstError(@, "file") ELSE @])
        /\ UNCHANGED <<links, used>>
  /\ UNCHANGED <<files, store, lock, tree, home, log>>

\* output_query_results with output_link, in any order that the query gives.
\* The name of a link has a hash of the path of the message in it.
Link(p) ==
  LET dir == proc[p].line.linksdir IN
  /\ proc[p].phase = "link"
  /\ \/ \E m \in proc[p].left :
          LET link == <<dir, Subdir[m], m>> IN
          IF m \notin files
          THEN Goes(p, [proc[p] EXCEPT !.left = @ \ {m}]) /\ UNCHANGED links
          ELSE IF Subdir[m] \notin {"new", "cur"}
          THEN Fails(p, "invalid source") /\ UNCHANGED links
          ELSE IF link \in links
          THEN Fails(p, "cannot link") /\ UNCHANGED links
          ELSE /\ links' = links \cup {link}
               /\ Goes(p, [proc[p] EXCEPT !.left = @ \ {m}, !.count = TRUE])
     \/ /\ proc[p].left = {}
        /\ IF proc[p].count THEN Exits(p, "ok") ELSE Fails(p, "no matches")
        /\ UNCHANGED links
  /\ UNCHANGED <<files, store, lock, tree, home, log, used>>

-----------------------------------------------------------------------------

Steps(p) ==
  \/ Config(p) \/ CreateDirs(p) \/ LogInit(p) \/ MoveLogFile(p) \/ OpenLog(p)
  \/ Execute(p) \/ View(p) \/ Open(p) \/ AddTo(p) \/ RemoveFrom(p) \/ Close(p)
  \/ MakeEntry(p) \/ Made(p) \/ Clear(p) \/ Unlink(p) \/ Link(p)

Next ==
  \/ \E p \in Procs : Steps(p) \/ Kill(p) \/ \E line \in CommandLines : Start(p, line)
  \/ \E f \in files : Vanish(f)

Spec == Init /\ [][Next]_vars

-----------------------------------------------------------------------------
(* Properties.                                                             *)

HasExited(p) == Running(p) /\ proc'[p].phase = "exit"

Stored == {d.path : d \in store'.disk.docs}
LinksIn(dir) == {l \in links' : l[1] = dir}

IsDone(p) ==
  LET line == proc[p].line IN
  CASE line.cmd = "add" -> \A n \in ToSet(line.params) : RealPath[n] \in Stored
    [] line.cmd = "remove" ->
         \A n \in ToSet(line.params) :
           RealPath[n] \in files \cup {n} => RealPath[n] \notin Stored
    [] line.cmd = "mkdir" ->
         \A dir \in ToSet(line.params) : ToSet(Entries(dir)) \subseteq tree'
    [] line.cmd = "find" /\ FindFormat(line) = "links" /\ proc[p].alone ->
         /\ \A m \in proc[p].asked \cap files :
              <<line.linksdir, Subdir[m], m>> \in links'
         /\ "clearlinks" \in line.opts /\ proc[p].err = Null =>
              \A l \in LinksIn(line.linksdir) : l[3] \in proc[p].asked
    [] OTHER -> TRUE

\* mu "returns 0 upon success" (mu-add.1, mu-remove.1): a command that exits
\* with 0 has done all that was asked for, durably: every message is in the
\* database or out of it, and the maildirs are complete, whatever other processes
\* did and wherever they were killed.  After a search that ran alone the links
\* are those of the matches, whatever earlier processes left there.
\* There are three exceptions: a message that is removed by another name must
\* still have its file; a commit that fails goes unnoticed (with_store has
\* the result before mu_store_unref flushes); and old links that could not be
\* read or removed are left with exit code 0 and no more than a warning, unless
\* they were in the directory that was cleared last (clear_links, which returns
\* FALSE for its directories in any case).
OkMeansDone ==
  [][\A p \in Procs :
       HasExited(p) /\ proc'[p].code = "ok" /\ ~proc'[p].lost
         /\ "version" \notin proc[p].line.opts
         => IsDone(p)]_vars

\* Nothing is wrong with what a process was asked for.
IsRight(line) ==
  /\ line.cmd \in {"add", "remove", "mkdir", "view", "find"}
  /\ ParamsParse(line) /\ line.params # <<>>
  /\ line.cmd = "view" => FormatOf(line) \in {"plain", "sexp"}
  /\ line.cmd = "find" => /\ FindParamsValid(line) /\ FindFormat(line) = "links"
                          /\ "clearlinks" \in line.opts
  /\ line.cmd \in {"add", "view"} => \A n \in ToSet(line.params) : RealPath[n] \in files
  /\ line.cmd \in {"add", "remove"} => ToSet(line.params) \cap Relative = {}

\* A command that is right, runs alone and can make and remove its files succeeds,
\* whatever the processes before it left behind when they failed or were
\* killed: half a maildir, links, a directory without a log, an old lock.
RightCommandsSucceed ==
  [][\A p \in Procs :
       /\ HasExited(p) /\ proc'[p].code # "killed"
       /\ IsRight(proc[p].line) /\ proc[p].alone /\ ~proc'[p].hurt
       /\ proc[p].line.cmd = "find" =>
            /\ store.disk.version = "current"
            /\ \A m \in proc[p].asked : Subdir[m] \in {"new", "cur"}
            /\ proc[p].asked \cap files # {}
       => proc'[p].code = "ok"]_vars

=============================================================================
