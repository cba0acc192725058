----------------------------- MODULE MuProtocol -----------------------------
(***************************************************************************)
(* The commands of `mu server' (mu-cmd-server.c): what each handler may    *)
(* print, in which order, and what it returns to the loop.  What a handler *)
(* does to the store, the files and the cache is in the other modules; here *)
(* whether it succeeds is open, and only the conversation counts.          *)
(*                                                                         *)
(* A command is a name and a function from the parameters it gives to      *)
(* their values.  A result is the kinds of the replies, in order, and rv.  *)
(***************************************************************************)
EXTENDS Naturals, Sequences

CONSTANTS BuildGuile,   \* whether mu was built with guile
          Malformed,    \* the name of a line whose quotes do not match
          MaxHeaders,   \* bound: headers or progress reports of one command
          MaxCopies     \* bound: attachments of, or messages with, one id

ASSUME BuildAssumption == BuildGuile \in BOOLEAN
ASSUME ReplyBounds == MaxHeaders \in Nat /\ MaxCopies \in Nat

Done(replies)   == [replies |-> replies, rv |-> "ok"]
Failed(replies) == [replies |-> replies, rv |-> "error"]

Either(kind) == {Done(<<"error">>), Done(<<kind>>)}
Times(n, kind) == [i \in 1..n |-> kind]

\* GET_STRING_OR_ERROR_RETURN: without its parameters a handler only fails.
Required(args, params, results) ==
  IF params \subseteq DOMAIN args THEN results ELSE {Failed(<<>>)}

Is(args, param, value) == param \in DOMAIN args /\ args[param] = value

\* determine_docid and mu_store_get_msg may both fail; so may what follows.
NamesMessage(args) == {"docid", "msgid"} \cap DOMAIN args # {}
OnMessage(args, results) ==
  {Done(<<"error">>)} \cup (IF NamesMessage(args) THEN results ELSE {})

CmdAdd(args)  == Required(args, {"path", "maildir"}, Either("info"))
CmdSent(args) == Required(args, {"path", "maildir"}, Either("sent"))

\* include_attachments: one error for each part that could not be saved.
IncludeAttachments == {Times(n, "error") : n \in 0..MaxCopies}

CmdCompose(args) ==
  Required(args, {"type"},
    IF Is(args, "type", "new") THEN {Done(<<"compose">>)}
    ELSE IF Is(args, "type", "forward")
      THEN Required(args, {"docid"},
             {Done(<<"error">>)} \cup
             {Done(errors \o <<"compose">>) : errors \in IncludeAttachments})
    ELSE IF Is(args, "type", "reply") \/ Is(args, "type", "edit")
      THEN Required(args, {"docid"}, Either("compose"))
    ELSE {Done(<<"error">>)})

\* An empty list of contacts is nil to mu4e, which takes it for unexpected.
CmdContacts(args) == Either("contacts") \cup Either("unexpected")

\* open_part reports and returns its error when the part has no cache path.
SavePart(args) == Required(args, {"path"}, Either("info"))
OpenPart(args) == Either("info") \cup {Failed(<<"error">>)}
TempPart(args) == Required(args, {"what"}, Either("temp"))

ExtractPart(args) ==
  CASE Is(args, "action", "save") -> SavePart(args)
    [] Is(args, "action", "open") -> OpenPart(args)
    [] Is(args, "action", "temp") -> TempPart(args)
    [] OTHER -> {Done(<<"error">>)}

\* cmd_extract reports what its helper returned, reported before or not.
Reported(result) ==
  Done(IF result.rv = "error" THEN Append(result.replies, "error")
       ELSE result.replies)

CmdExtract(args) ==
  Required(args, {"action", "index"},
           OnMessage(args, {Reported(r) : r \in ExtractPart(args)}))

\* print_sexps skips what it cannot read, and stops when interrupted.
PrintSexps == {Times(n, "header") : n \in 0..MaxHeaders}

\* Mutant: the headers of the last search are left for mu4e to remove.
CmdFindNoErase(args) ==
  Required(args, {"query"},
    {Done(<<"error">>)} \cup
    {Done(headers \o <<"found">>) : headers \in PrintSexps})

CmdFind(args) ==
  Required(args, {"query"},
    {Done(<<"error">>)} \cup
    {Done(<<"erase">> \o headers \o <<"found">>) :
       headers \in IF Is(args, "sortfield", "unknown") THEN {} ELSE PrintSexps})

CmdGuile(args) ==
  IF BuildGuile /\ ("script" \in DOMAIN args) # ("file" \in DOMAIN args)
  THEN {Done(<<>>)} ELSE {Done(<<"error">>)}

\* index_msg_cb reports progress; interrupted or not, "complete" comes last.
CmdIndex(args) ==
  Required(args, {"path"},
    {Done(Times(n, "info") \o <<last>>) :
       n \in 0..MaxHeaders, last \in {"info", "error"}})

CmdMkdir(args) == Required(args, {"path"}, Either("info"))

\* do_move: an update is announced even if the store could not be updated.
DoMove == {<<"update">>, <<"error", "update">>}

\* move_msgid_maybe: the messages with one id, up to the first that fails.
MoveMsgids ==
  LET Moves[n \in 0..MaxCopies] ==
        IF n = 0 THEN {<<>>}
        ELSE {<<"error">>} \cup {m \o rest : m \in DoMove, rest \in Moves[n - 1]}
  IN  UNION {Moves[n] : n \in 1..MaxCopies}

CmdMove(args) ==
  {Done(<<"error">>)} \cup
  (IF {"msgid", "flags"} \subseteq DOMAIN args /\ "maildir" \notin DOMAIN args
   THEN {Done(moves) : moves \in MoveMsgids}
   ELSE OnMessage(args, {Done(move) : move \in DoMove}))

\* cmd_ping reports and returns its error.
CmdPing(args) == {Done(<<"pong">>), Failed(<<"error">>)}

\* What cmd_quit prints is no expression.
CmdQuit(args) == {[replies |-> <<"quiting">>, rv |-> "stop"]}

CmdRemove(args) == OnMessage(args, {Done(<<"remove">>)})

CmdView(args) ==
  IF "path" \in DOMAIN args THEN Either("view")
  ELSE OnMessage(args, {Done(<<"view">>)})

HandleArgs(name, args) ==
  CASE name = "add"      -> CmdAdd(args)
    [] name = "compose"  -> CmdCompose(args)
    [] name = "contacts" -> CmdContacts(args)
    [] name = "extract"  -> CmdExtract(args)
    [] name = "find"     -> CmdFind(args)
    [] name = "guile"    -> CmdGuile(args)
    [] name = "index"    -> CmdIndex(args)
    [] name = "mkdir"    -> CmdMkdir(args)
    [] name = "move"     -> CmdMove(args)
    [] name = "ping"     -> CmdPing(args)
    [] name = "quit"     -> CmdQuit(args)
    [] name = "remove"   -> CmdRemove(args)
    [] name = "sent"     -> CmdSent(args)
    [] name = "view"     -> CmdView(args)
    [] name = ""         -> {Done(<<>>)}
    [] OTHER             -> {Failed(<<>>)}

\* One turn of the loop: it reports the errors that handlers return.
Answers(cmd) ==
  IF cmd.name = Malformed THEN {Done(<<"error">>)}
  ELSE {IF r.rv = "error" THEN Reported(r) ELSE r :
          r \in HandleArgs(cmd.name, cmd.args)}

\* The replies to the n-th command of a session.
Replies(n, kinds) ==
  [i \in DOMAIN kinds |-> [n |-> n, i |-> i, kind |-> kinds[i]]]

Silent(cmd) == \E r \in Answers(cmd) : r.replies = <<>>

=============================================================================
