------------------------------- MODULE MuFind --------------------------------
(***************************************************************************)
(* One run of mu find (mu/mu-cmd-find.c) over a database that another      *)
(* process may be writing: the query of lib/mu-query.cc, the iterator over *)
(* its matches of lib/mu-msg-iter.cc and the threading of MuThreader.      *)
(*                                                                         *)
(* A Xapian reader sees the revision it opened.  Once a writer has         *)
(* committed twice the blocks of that revision may be overwritten, and any *)
(* read may throw DatabaseModifiedError.                                   *)
(***************************************************************************)
EXTENDS MuThreader

CONSTANTS
  DocIds,       \* what Xapian numbers the messages with
  Messages,     \* the messages a database can hold
  Volatile,     \* those that another process adds and removes
  Files,        \* the paths of the messages
  Starts,       \* pairs of a database and a command line (see TypeOK)
  OldFiles,     \* files that were last changed before --after
  MaxVanished   \* bound: message files that disappear while it runs

Formats == {"plain", "xml", "sexp", "links", "exec", "xquery", "bad"}
Sortfields == {"none", "date", "bad"}
Bookmarks == {"none", "found", "missing", "nofile"}
Results == {"running", "ok", "no matches", "in parameters", "empty",
            "not up to date", "bookmark", "query", "links", "exec", "crash"}
Phases == {"start", "checked", "query", "match", "thread", "roots", "sort",
           "rematch", "prepare", "output", "end"}

ASSUME BoundsAssumption == MaxVanished \in Nat

VARIABLES
  db,        \* the last committed revision
  files,     \* the message files that can be read
  opts,      \* MU_CONFIG
  phase,     \* where the program is
  snap,      \* the revision the reader has open
  age,       \* how many were committed since; 2 stands for more
  matches,   \* _matches from _cursor on
  found,     \* all of _matches
  table,     \* id_table
  head,      \* the first of the root set
  info,      \* _thread_hash
  out,       \* the messages that were printed, linked or passed to a command
  result     \* what mu_cmd_find returned

environment == <<db, files>>
thread == <<table, head, info>>
program == <<opts, phase, snap, age, matches, found, table, head, info, out, result>>
vars == <<environment, program>>

TypeOK ==
  /\ db \subseteq Messages /\ snap \subseteq Messages
  /\ age \in 0..2
  /\ files \subseteq Files
  /\ opts \in [wanted : {Null} \cup SUBSET DocIds,
               params : BOOLEAN, bookmark : Bookmarks, format : Formats,
               exec : BOOLEAN, linksdir : BOOLEAN, threads : BOOLEAN,
               sortfield : Sortfields, reverse : BOOLEAN, after : BOOLEAN,
               upToDate : BOOLEAN]
  /\ phase \in Phases
  /\ matches \in Seq(Messages) /\ found \in Seq(Messages)
  /\ table.ids \subseteq Keys
  /\ head \in Pointers
  /\ out \in Seq(Messages)
  /\ result \in Results
  /\ phase = "end" <=> result # "running"

Init ==
  /\ \E start \in Starts : db = start[1] /\ opts = start[2]
  /\ snap = db
  /\ age = 0
  /\ files = Files
  /\ phase = "start"
  /\ matches = <<>> /\ found = <<>> /\ out = <<>>
  /\ table = EmptyTable /\ head = Null /\ info = <<>>
  /\ result = "running"

Ends(r) ==
  /\ phase' = "end" /\ result' = r
  /\ UNCHANGED <<environment, opts, snap, age, matches, found, thread, out>>

Stale == age > 1

-----------------------------------------------------------------------------
(* The world around mu find.                                               *)

\* A message is added or removed.
Commit ==
  /\ phase # "end"
  /\ \E m \in Volatile :
       \/ db' = db \ {m} /\ m \in db
       \/ db' = db \cup {m} /\ \A n \in db : n.docid # m.docid
  /\ age' = IF Stale THEN age ELSE age + 1
  /\ UNCHANGED <<files, opts, phase, snap, matches, found, thread, out, result>>

\* Files are looked at while the messages are shown; what vanishes earlier is
\* gone by then just the same.
Vanish(f) ==
  /\ phase = "output" /\ Cardinality(Files \ files) < MaxVanished
  /\ files' = files \ {f}
  /\ files' # files
  /\ UNCHANGED <<db, program>>

-----------------------------------------------------------------------------
(* Before the query.                                                       *)

FormatParamsValid(o) ==
  /\ o.format # "bad"
  /\ o.exec => o.format = "exec"
  /\ o.format = "links" <=> o.linksdir

QueryParamsValid(o) == o.params

\* --exec is a format of its own, whatever --format said.
FindFormat(o) == IF o.exec THEN [o EXCEPT !.format = "exec"] ELSE o

CheckParams ==
  /\ phase = "start"
  /\ IF QueryParamsValid(opts) /\ FormatParamsValid(FindFormat(opts))
     THEN /\ phase' = "checked" /\ opts' = FindFormat(opts)
          /\ UNCHANGED <<environment, snap, age, matches, found, thread, out,
                         result>>
     ELSE Ends("in parameters")

\* get_query_obj and get_query: what execute_find checks before it asks.
ExecuteFind ==
  /\ phase = "checked"
  /\ IF snap = {} THEN Ends("empty")
     ELSE IF ~opts.upToDate THEN Ends("not up to date")
     ELSE IF opts.bookmark \in {"missing", "nofile"} THEN Ends("bookmark")
     ELSE IF opts.format = "xquery"
       THEN Ends(IF opts.wanted = Null THEN "query" ELSE "ok")
     ELSE IF opts.sortfield = "bad" THEN Ends("in parameters")
     ELSE /\ phase' = "query"
          /\ UNCHANGED <<environment, opts, snap, age, matches, found, thread,
                         out, result>>

-----------------------------------------------------------------------------
(* The query.                                                              *)

\* The matches in an order that Xapian may give them: by date when asked to
\* (threads are sorted later), and by docid or relevance otherwise.
InSortOrder(seq) ==
  \A i, j \in DOMAIN seq : i < j =>
    IF opts.reverse THEN seq[i].date >= seq[j].date
    ELSE seq[i].date <= seq[j].date

\* Mutant: the query also finds what was added since the database was opened.
MatchOrdersOfLatest ==
  {seq \in Orders({m \in snap \cup db : m.docid \in opts.wanted}) :
     ~opts.threads /\ opts.sortfield = "date" => InSortOrder(seq)}

MatchOrders ==
  {seq \in Orders({m \in snap : m.docid \in opts.wanted}) :
     ~opts.threads /\ opts.sortfield = "date" => InSortOrder(seq)}

\* Mutant: the query is run again without opening the database again.
RequeryUnopened ==
  /\ Stale
  /\ phase' = "query"
  /\ matches' = <<>> /\ found' = <<>>
  /\ table' = EmptyTable /\ head' = Null /\ info' = <<>>
  /\ UNCHANGED <<environment, opts, snap, age, out, result>>

\* try_requery: the database is opened again and everything begins anew.
Requery ==
  /\ Stale
  /\ phase' = "query"
  /\ snap' = db /\ age' = 0
  /\ matches' = <<>> /\ found' = <<>>
  /\ table' = EmptyTable /\ head' = Null /\ info' = <<>>
  /\ UNCHANGED <<environment, opts, out, result>>

RunQuery ==
  /\ phase = "query"
  /\ IF opts.wanted = Null THEN Ends("query")
     ELSE \/ \E seq \in MatchOrders :
               /\ matches' = seq /\ found' = seq
               /\ phase' = IF opts.threads /\ seq # <<>> THEN "thread"
                           ELSE "prepare"
               /\ UNCHANGED <<environment, opts, snap, age, thread, out, result>>
          \/ Requery

\* What a read of a message can give: from an overwritten revision it may
\* give nothing, a message without its message-id, or one without any values.
Reads(m) ==
  {[values |-> "all", msg |-> m]}
  \cup (IF Stale THEN {[values |-> v, msg |-> [m EXCEPT !.msgid = Null]] :
                        v \in {"all", "none", "no message"}}
        ELSE {})

\* One turn of create_containers.  A message that has neither a message-id
\* nor a path is looked up in the table by a null pointer.
CreateContainers ==
  /\ phase = "thread" /\ matches # <<>>
  /\ \E read \in Reads(Head(matches)) :
       IF read.values = "none" THEN Ends("crash")
       ELSE /\ table' = IF read.values = "all" THEN CreateContainer(table, read.msg)
                        ELSE table
            /\ matches' = Tail(matches)
            /\ UNCHANGED <<environment, opts, phase, snap, age, found, head,
                           info, out, result>>

FindRoots ==
  /\ phase = "thread" /\ matches = <<>>
  /\ \E order \in Orders(Roots(table)) :
       LET r == FindRootSet(table, order)
       IN /\ table' = [table EXCEPT !.heap = r.heap]
          /\ head' = r.head
  /\ phase' = "roots"
  /\ UNCHANGED <<environment, opts, snap, age, matches, found, info, out, result>>

Prune ==
  /\ phase = "roots"
  /\ \E r \in {PruneEmptyContainers(table.heap, head)} :
       /\ table' = [table EXCEPT !.heap = r.heap]
       /\ head' = r.head
  /\ phase' = "sort"
  /\ UNCHANGED <<environment, opts, snap, age, matches, found, info, out, result>>

\* Without a sort field the threads stay in the order of the hash table.
SortThreads ==
  /\ phase = "sort"
  /\ \E r \in IF opts.sortfield = "none" \/ head = Null
              THEN {[heap |-> table.heap, head |-> head]}
              ELSE {SortRootSet(table.heap, head, opts.reverse)} :
       /\ table' = [table EXCEPT !.heap = r.heap]
       /\ head' = r.head
       /\ info' = IF r.head = Null THEN <<>>
                  ELSE ThreadInfoHash(r.heap, r.head, Len(found))
  /\ phase' = "rematch"
  /\ UNCHANGED <<environment, opts, snap, age, matches, found, out, result>>

\* The key of a message is its thread path; one without is before them all.
ThreadKeyMaker(m) == IF m.docid \in DOMAIN info THEN info[m.docid].threadpath
                     ELSE <<>>

ByThreadKey ==
  CHOOSE seq \in Orders(ToSet(found)) :
    \A i, j \in DOMAIN seq : i < j =>
      LET ki == ThreadKeyMaker(seq[i])
          kj == ThreadKeyMaker(seq[j])
      IN Less(ki, kj) \/ (ki = kj /\ seq[i].docid < seq[j].docid)

Rematch ==
  /\ phase = "rematch"
  /\ \/ /\ matches' = ByThreadKey /\ found' = ByThreadKey
        /\ phase' = "prepare"
        /\ UNCHANGED <<environment, opts, snap, age, thread, out, result>>
     \/ Requery

-----------------------------------------------------------------------------
(* The output.                                                             *)

\* output_prepare: making the directory of links, or clearing it, may fail.
OutputPrepare ==
  /\ phase = "prepare"
  /\ \/ opts.format = "links" /\ Ends("links")
     \/ /\ phase' = "output"
        /\ UNCHANGED <<environment, opts, snap, age, matches, found, thread,
                       out, result>>

\* A command may not start and a link may not be made; printing does not fail.
OutputFunc == IF opts.format \in {"links", "exec"} THEN {TRUE, FALSE} ELSE {TRUE}

\* get_message passes over what cannot be read or is too old.
Shown(m) == m.path \in files /\ ~(opts.after /\ m.path \in OldFiles)

\* Mutant: the first message that cannot be read ends the list.
GetMessageStopping(m) == {IF Shown(m) THEN "show" ELSE "stop"}
                         \cup (IF Stale THEN {"next", "stop"} ELSE {})

\* From an overwritten revision there may come nothing at all, or a message
\* without its path, which passes for one whose file cannot be read.
GetMessage(m) == {IF Shown(m) THEN "show" ELSE "next"}
                 \cup (IF Stale THEN {"next", "stop"} ELSE {})

\* Mutant: a list without messages is no error and no success either.
OutputFinishUnset == Ends(IF out = <<>> THEN "running" ELSE "ok")

OutputFinish == Ends(IF out = <<>> THEN "no matches" ELSE "ok")

SkipMessage ==
  /\ matches' = Tail(matches)
  /\ UNCHANGED <<environment, opts, phase, snap, age, found, thread, out, result>>

ShowMessage ==
  \E done \in OutputFunc :
    IF done THEN /\ out' = Append(out, Head(matches))
                 /\ matches' = Tail(matches)
                 /\ UNCHANGED <<environment, opts, phase, snap, age, found,
                                thread, result>>
    ELSE Ends(opts.format)

OutputQueryResults ==
  /\ phase = "output"
  /\ \/ matches = <<>> /\ OutputFinish
     \/ /\ matches # <<>>
        /\ \E got \in GetMessage(Head(matches)) :
             \/ got = "stop" /\ OutputFinish
             \/ got = "next" /\ SkipMessage
             \/ got = "show" /\ ShowMessage

-----------------------------------------------------------------------------

Find == \/ CheckParams \/ ExecuteFind \/ RunQuery
        \/ CreateContainers \/ FindRoots \/ Prune \/ SortThreads \/ Rematch
        \/ OutputPrepare \/ OutputQueryResults

Next == Find \/ Commit \/ \E f \in Files : Vanish(f)

Spec == Init /\ [][Next]_vars

\* Nothing keeps mu find from running until it ends; writers and the file
\* system owe it nothing.  This is weak fairness of Find, which is enabled as
\* long as the phase is not "end", said without the ENABLED for which TLC
\* would thread the messages once more.
FindRuns == []<>(phase = "end") \/ []<><<UNCHANGED environment>>_vars

FairSpec == Spec /\ FindRuns

-----------------------------------------------------------------------------
(* Properties.                                                             *)

Threaded == opts.threads /\ found # <<>> /\ phase \in {"rematch", "prepare", "output"}

\* The pointers of mu-container.c "must be kept inter-consistent"
\* (mu-threader.c) while containers are linked, spliced and removed.  (Once
\* they are sorted nobody uses the cached last sibling any more.)
ThreadsAreWellLinked ==
  /\ phase = "thread" => WellLinked(table.heap, {k \in Keys : table.heap.parent[k] = Null})
  /\ phase \in {"roots", "sort"} => WellLinked(table.heap, {head} \ {Null})

\* Pruning leaves no empty container where one of its descendants could
\* stand: within a thread it has several children, and at the top it has
\* several or is the shell of one whose child was promoted.
EmptiesHaveChildren ==
  phase = "sort" =>
    LET h == table.heap
        children(c) == Len(Chain(h, h.child[c]))
    IN \A c \in ToSet(PostOrder(h, head)) :
         h.msg[c] = Null => IF h.parent[c] = Null THEN children(c) # 1
                            ELSE children(c) > 1

\* The variables have their types, and however the containers are linked, cut
\* and spliced the threads stay a forest that its pointers agree on.
WellFormed == TypeOK /\ ThreadsAreWellLinked /\ EmptiesHaveChildren

\* Whatever the references say (loops, lies, duplicates, messages that are
\* missing), every match gets a place of its own in the threads.
EveryMatchHasAPlace ==
  Threaded /\ ~Stale =>
    /\ DOMAIN info = {m.docid : m \in ToSet(found)}
    /\ \A a, b \in DOMAIN info : a # b => info[a].threadpath # info[b].threadpath

\* The chain of parents of c leads to the container above.
Below(h, c, above) ==
  LET up[n \in 0..Cardinality(Keys)] ==
        IF n = 0 THEN c ELSE IF up[n - 1] = Null THEN Null ELSE h.parent[up[n - 1]]
  IN above \in {up[n] : n \in 1..Cardinality(Keys)}

\* The list is sorted by comparing thread paths as strings.  Still, when the
\* threads are sorted by a field (without one, empty roots take numbers of
\* more digits), a reply stands below the message that it replies to, and
\* only messages of the same thread stand between the two.
SortedThreadsAreTogether ==
  Threaded /\ phase # "rematch" /\ ~Stale /\ opts.sortfield # "none" =>
    LET h == table.heap
        key(i) == CHOOSE k \in Keys : h.msg[k] # Null /\ h.msg[k].docid = found[i].docid
    IN \A j \in DOMAIN found :
         LET p == h.parent[key(j)]
         IN p # Null /\ h.msg[p] # Null =>
              \E i \in 1..(j - 1) : /\ key(i) = p
                                    /\ \A n \in (i + 1)..j : Below(h, key(n), p)

OutputIsOfOneRevision ==
  /\ \A m \in ToSet(out) : m \in snap /\ m.docid \in opts.wanted
  /\ \A i, j \in DOMAIN out : i # j => out[i].docid # out[j].docid

OutputIsComplete ==
  result \in {"ok", "no matches"} /\ ~Stale /\ opts.format # "xquery" =>
    {m \in snap : m.docid \in opts.wanted /\ Shown(m)} \subseteq ToSet(out)

\* What is shown is of one revision, and in it matched the query: running the
\* query again after the database was modified leaves nothing behind.  And mu
\* find that says it found something has shown every match whose file can be
\* read, unless its revision was overwritten while it was reading.
OutputIsTheAnswer == OutputIsOfOneRevision /\ OutputIsComplete

\* mu find ends, unless another process commits to the database for ever.  The
\* query is run again as long as its revision was overwritten, and nothing
\* bounds that: "let's assume that infinite regression is impossible"
\* (mu-query.cc).
FindEnds == <>(phase = "end") \/ []<><<db' # db>>_vars

=============================================================================
