------------------------------- MODULE MuProc -------------------------------
(***************************************************************************)
(* mu4e and its servers: mu4e-proc.el on one side, the loop and the signal *)
(* handling of mu-cmd-server.c on the other, pipes between them.           *)
(*                                                                         *)
(* Emacs knows one current process and gathers the output of every server  *)
(* it has not seen the end of in one buffer.  A reply is written in two    *)
(* pieces, the cookie with the length and the expression.  A filter run    *)
(* takes a step for each expression, because servers go on meanwhile and   *)
(* handlers may send further commands.                                     *)
(***************************************************************************)
EXTENDS MuProtocol, FiniteSets

CONSTANTS Commands,     \* the commands mu4e may send, apart from quit
          MaxServers,   \* bound: servers started
          MaxAsked,     \* bound: commands sent, apart from quit
          MaxKills,     \* bound: times mu4e kills its server
          MaxFaults    \* bound: servers that die early, and C-g

ASSUME CommandsAssumption == \A cmd \in Commands : cmd.name # "quit"
ASSUME ProcBounds == {MaxServers, MaxAsked, MaxKills, MaxFaults} \subseteq Nat \ {0}

Servers == 1..MaxServers
NoServer == 0
Quit == [name |-> "quit", args |-> <<>>]

VARIABLES emacs,      \* "up" or "gone"
          cur,        \* mu4e~proc-process
          buf,        \* mu4e~proc-buf (nil is the empty buffer)
          filtering,  \* mu4e~proc-filter is running
          server,     \* the server processes and their pipes
          asked,      \* history: the commands sent, and to which server
          heard,      \* history: the replies of safe servers that were handled
          left,       \* history: the last filter run was left early
          shown,      \* the searches of safe servers whose headers are shown
          faults     \* how many more such faults may happen

vars == <<emacs, cur, buf, filtering, server, asked, heard, left, shown,
          faults>>

Alive == {"starting", "up"}
Known == {"starting", "up", "dead"}   \* not buried by the sentinel

NotStarted ==
  [st |-> "none", inp |-> <<>>, out |-> <<>>, term |-> "no", safe |-> TRUE]

Init ==
  /\ emacs = "up"
  /\ cur = NoServer
  /\ buf = <<>>
  /\ filtering = FALSE
  /\ server = [s \in Servers |-> NotStarted]
  /\ asked = <<>>
  /\ heard = [s \in Servers |-> <<>>]
  /\ left = FALSE
  /\ shown = {}
  /\ faults = MaxFaults

-----------------------------------------------------------------------------
(* Emacs sends (mu4e-proc.el).                                             *)

\* A process that died counts as running until Emacs has noticed.
Running == cur # NoServer /\ server[cur].st \in Known
Fresh == {s \in Servers : server[s].st = "none"}
Next1(S) == CHOOSE s \in S : \A t \in S : s <= t

\* mu4e~proc-start: a new process, in a buffer that may still have others.
ProcStart(line) ==
  LET new    == Next1(Fresh)
      others == {s \in Servers : server[s].st \in Known}
  IN  [cur |-> new, buf |-> <<>>, to |-> new,
       server |-> [s \in Servers |->
         IF s = new THEN [NotStarted EXCEPT !.st = "starting", !.inp = <<line>>,
                                            !.safe = (others = {})]
         ELSE [server[s] EXCEPT !.safe = @ /\ s \notin others]]]

ToCurrent(line) ==
  [cur |-> cur, buf |-> buf, to |-> cur,
   server |-> IF server[cur].st \in Alive
              THEN [server EXCEPT ![cur].inp = Append(@, line)] ELSE server]

\* mu4e~proc-send-command, which starts the process if needed
SendCommand(line) ==
  {ToCurrent(line) : s \in {s \in {cur} : Running}}
  \cup {ProcStart(line) :
          s \in {s \in {cur} : /\ Fresh # {}
                               /\ Running => server[cur].st = "dead"}}

Sent(cmds) == SelectSeq(asked, LAMBDA a : a.cmd \in cmds)

\* What is remembered of the servers that are still safe.
Remember(servers) ==
  /\ heard' = [s \in Servers |-> IF servers[s].safe THEN heard[s] ELSE <<>>]
  /\ shown' = {x \in shown : servers[x[1]].safe}

Line(cmd) == [n |-> Len(asked) + 1, cmd |-> cmd]

\* A command from the user, or from a handler while the filter runs.
Send(cmd) ==
  /\ emacs = "up"
  /\ Len(Sent(Commands)) < MaxAsked
  /\ \E sent \in SendCommand(Line(cmd)) :
       /\ cur' = sent.cur
       /\ buf' = sent.buf
       /\ server' = sent.server
       /\ Remember(sent.server)
       /\ asked' = Append(asked, [cmd |-> cmd, to |-> sent.to])
  /\ UNCHANGED <<emacs, filtering, left, faults>>

\* sig_handler, installed once for each signal and only once the store is
\* open.  A signal that comes before the read is noticed after a command.
Signalled(v, late) ==
  IF v.st \notin Alive THEN v
  ELSE IF v.st = "starting" \/ v.term # "no" THEN [v EXCEPT !.st = "dead"]
  ELSE [v EXCEPT !.term = IF late THEN "late" ELSE "seen"]

\* mu4e~proc-kill: quit goes to the current process, the signal to the last
\* process with the buffer, and both are forgotten.
Kill(late) ==
  /\ emacs = "up"
  /\ ~filtering
  /\ LET procs == {s \in Servers : server[s].st \in Known}
     IN  /\ procs # {}
         /\ Len(Sent({Quit})) < MaxKills
         /\ LET p == CHOOSE s \in procs : \A t \in procs : t <= s
            IN  \E sent \in SendCommand(Line(Quit)) :
                  /\ server' = [sent.server EXCEPT
                                  ![p] = Signalled(@, late),
                                  ![p].safe = FALSE, ![sent.to].safe = FALSE]
                  /\ Remember(server')
                  /\ asked' = Append(asked, [cmd |-> Quit, to |-> sent.to])
  /\ cur' = NoServer
  /\ buf' = <<>>
  /\ UNCHANGED <<emacs, filtering, left, faults>>

-----------------------------------------------------------------------------
(* Emacs receives.                                                         *)

\* Some of what a server wrote arrives, and the filter starts.
Receive(s) ==
  /\ emacs = "up"
  /\ ~filtering
  /\ \E k \in 1..Len(server[s].out) :
       /\ buf' = buf \o SubSeq(server[s].out, 1, k)
       /\ server' = [server EXCEPT ![s].out = SubSeq(@, k + 1, Len(@))]
  /\ filtering' = TRUE
  /\ left' = FALSE
  /\ UNCHANGED <<emacs, cur, asked, heard, shown, faults>>

Cookies == {i \in DOMAIN buf : buf[i].part = "cookie"}
From(i) == SubSeq(buf, i, Len(buf))

Nothing(rest) == [rest |-> rest, got |-> "nothing"]
Expression(rest, piece) == [rest |-> rest, got |-> "reply", piece |-> piece]

\* Mutant: the cookie is taken off before the expression has arrived.
EatEarly ==
  IF Cookies = {} THEN {Nothing(buf)}
  ELSE LET i == Next1(Cookies)
       IN  IF i = Len(buf) THEN {Nothing(<<>>)}
           ELSE {Expression(From(i + 2), buf[i + 1])}

\* Mutant: an expression counts as complete once something follows it.
EatLate ==
  IF Cookies = {} THEN {Nothing(buf)}
  ELSE LET i == Next1(Cookies)
       IN  IF i + 1 >= Len(buf) THEN {Nothing(buf)}
           ELSE {Expression(From(i + 2), buf[i + 1])}

\* mu4e~proc-eat-sexp-from-buf: what it may leave in the buffer and return.
\* What comes before a cookie is skipped.  What `quit' prints cannot be read:
\* the error is ignored, and so is the text.  When two servers wrote at once
\* the length may be that of other text, which reads as a symbol.
EatSexp ==
  IF Cookies = {} THEN {Nothing(buf)}
  ELSE LET i == Next1(Cookies)
       IN  IF i = Len(buf) THEN {Nothing(buf)}
           ELSE IF buf[i + 1].part = "sexp" /\ buf[i + 1].s = buf[i].s
             THEN IF buf[i + 1].reply.kind = "quiting"
                  THEN {Nothing(From(i + 1))}
                  ELSE {Expression(From(i + 2), buf[i + 1])}
           ELSE {Nothing(buf)}
                \cup {[rest |-> From(j), got |-> "garbage"] :
                        j \in (i + 2)..(Len(buf) + 1)}

\* The handlers, as far as the headers buffer goes.
Shown(piece) ==
  CASE piece.reply.kind = "erase"  -> {}
    [] piece.reply.kind = "header" /\ server[piece.s].safe ->
         shown \cup {<<piece.s, piece.reply.n>>}
    [] OTHER -> shown

\* One turn of the loop of mu4e~proc-filter.  An error that is reported is
\* signalled, which leaves the loop.
Eat ==
  /\ filtering
  /\ \E eaten \in EatSexp :
       /\ buf' = eaten.rest
       /\ CASE eaten.got = "reply" ->
                 LET s == eaten.piece.s
                 IN  /\ heard' = IF server[s].safe
                                 THEN [heard EXCEPT ![s] = Append(@, eaten.piece.reply)]
                                 ELSE heard
                     /\ shown' = Shown(eaten.piece)
                     /\ filtering' = (eaten.piece.reply.kind # "error")
            [] eaten.got = "nothing" ->
                 filtering' = FALSE /\ UNCHANGED <<heard, shown>>
            [] eaten.got = "garbage" -> UNCHANGED <<filtering, heard, shown>>
       /\ left' = (eaten.got = "reply" /\ ~filtering')
  /\ UNCHANGED <<emacs, cur, server, asked, faults>>

\* with-local-quit: C-g leaves the loop
UserQuits ==
  /\ filtering
  /\ faults > 0
  /\ faults' = faults - 1
  /\ filtering' = FALSE
  /\ left' = TRUE
  /\ UNCHANGED <<emacs, cur, buf, server, asked, heard, shown>>

\* mu4e~proc-sentinel, after the rest of the output; it does not look whether
\* the process that ended is the current one.
Sentinel(s) ==
  /\ emacs = "up"
  /\ ~filtering
  /\ server[s].st = "dead"
  /\ server[s].out = <<>>
  /\ server' = [server EXCEPT ![s].st = "buried"]
  /\ cur' = NoServer
  /\ buf' = <<>>
  /\ UNCHANGED <<emacs, filtering, asked, heard, left, shown, faults>>

\* Emacs sends SIGHUP to its processes when it exits, and nothing when it
\* crashes.  All it knew is gone, the pipes are closed and nothing in them is
\* read any more.
EmacsEnds(after) ==
  /\ emacs = "up"
  /\ emacs' = "gone"
  /\ server' = [s \in Servers |-> [after[s] EXCEPT !.out = <<>>, !.safe = FALSE]]
  /\ cur' = NoServer
  /\ buf' = <<>>
  /\ filtering' = FALSE
  /\ asked' = <<>>
  /\ heard' = [s \in Servers |-> <<>>]
  /\ left' = FALSE
  /\ shown' = {}
  /\ UNCHANGED faults

EmacsExits ==
  \E late \in SUBSET Servers :
    EmacsEnds([s \in Servers |-> Signalled(server[s], s \in late)])

EmacsCrashes == EmacsEnds(server)

-----------------------------------------------------------------------------
(* The server.                                                             *)

emacsVars == <<emacs, cur, buf, filtering, asked, heard, left, shown>>

Ends(s) == server' = [server EXCEPT ![s].st = "dead"]

\* Mutant: the store is not locked.
OpensAnyway(s) ==
  /\ server[s].st = "starting"
  /\ server' = [server EXCEPT ![s].st = "up"]
  /\ UNCHANGED <<emacsVars, faults>>

\* mu opens the store for writing: one process at a time can.
Opens(s) ==
  /\ server[s].st = "starting"
  /\ \A t \in Servers : server[t].st # "up"
  /\ server' = [server EXCEPT ![s].st = "up"]
  /\ UNCHANGED <<emacsVars, faults>>

Locked == \E t \in Servers : server[t].st = "up"

FailsToOpen(s) ==
  /\ server[s].st = "starting"
  /\ Locked \/ faults > 0
  /\ faults' = IF Locked THEN faults ELSE faults - 1
  /\ Ends(s)
  /\ UNCHANGED emacsVars

\* print_expr writes the cookie, then the expression.
Pieces(s, replies) ==
  [i \in 1..2 * Len(replies) |->
     [part |-> IF i % 2 = 1 THEN "cookie" ELSE "sexp",
      s |-> s, reply |-> replies[(i + 1) \div 2]]]

Serves(s) ==
  /\ server[s].st = "up" /\ server[s].term # "seen" /\ server[s].inp # <<>>

First(s) == Head(server[s].inp)

\* Once nobody reads, the first reply raises SIGPIPE, which ends the loop, and
\* the second one kills.
Serve(s) ==
  /\ Serves(s)
  /\ \E r \in Answers(First(s).cmd) :
       LET stops == \/ r.rv = "stop" \/ server[s].term = "late"
                    \/ emacs = "gone" /\ r.replies # <<>>
       IN  server' = [server EXCEPT
             ![s].inp = Tail(@),
             ![s].out = IF emacs = "gone" THEN @
                        ELSE @ \o Pieces(s, Replies(First(s).n, r.replies)),
             ![s].st = IF stops THEN "dead" ELSE @]
  /\ UNCHANGED <<emacsVars, faults>>

\* The server dies in the middle, perhaps of an expression.
DiesServing(s) ==
  /\ Serves(s)
  /\ faults > 0
  /\ faults' = faults - 1
  /\ \E r \in Answers(First(s).cmd) :
       LET pieces == Pieces(s, Replies(First(s).n, r.replies))
       IN  \E k \in 0..(Len(pieces) - 1) :
             server' = [server EXCEPT
               ![s].inp = Tail(@),
               ![s].out = IF emacs = "gone" THEN @ ELSE @ \o SubSeq(pieces, 1, k),
               ![s].st = "dead"]
  /\ UNCHANGED emacsVars

StopsOnSignal(s) ==
  /\ server[s].st = "up"
  /\ server[s].term = "seen"
  /\ Ends(s)
  /\ UNCHANGED <<emacsVars, faults>>

\* Mutant: the prompt is not written, so that nothing ends the loop.
ReadsEofForever(s) ==
  /\ server[s].st = "up"
  /\ emacs = "gone"
  /\ server[s].inp = <<>>
  /\ server[s].term # "no"
  /\ Ends(s)
  /\ UNCHANGED <<emacsVars, faults>>

\* At the end of the file the loop reads empty lines, until its prompts fill
\* the buffer of stdout and writing them raises SIGPIPE.
ReadsEof(s) ==
  /\ server[s].st = "up"
  /\ emacs = "gone"
  /\ server[s].inp = <<>>
  /\ Ends(s)
  /\ UNCHANGED <<emacsVars, faults>>

-----------------------------------------------------------------------------
Next ==
  \/ \E cmd \in Commands : Send(cmd)
  \/ \E late \in BOOLEAN : Kill(late)
  \/ Eat \/ UserQuits \/ EmacsExits \/ EmacsCrashes
  \/ \E s \in Servers :
       \/ Receive(s) \/ Sentinel(s) \/ Opens(s) \/ FailsToOpen(s) \/ Serve(s)
       \/ DiesServing(s) \/ StopsOnSignal(s) \/ ReadsEof(s)

\* Emacs reads its processes and runs their sentinels whenever it is idle, and
\* a server that is not blocked goes on: as long as one of them can do so, one
\* of them does.
Progress ==
  \/ Eat
  \/ \E s \in Servers :
       \/ Receive(s) \/ Sentinel(s) \/ Opens(s) \/ (Locked /\ FailsToOpen(s))
       \/ Serve(s) \/ StopsOnSignal(s) \/ ReadsEof(s)

Spec == Init /\ [][Next]_vars /\ WF_vars(Progress)

-----------------------------------------------------------------------------
(* Properties.                                                             *)

\* At most one server has the store; buried servers left nothing unread, and
\* a filter runs only in an Emacs that is there.
ProcTypeOK ==
  /\ emacs \in {"up", "gone"} /\ cur \in {NoServer} \cup Servers
  /\ Cardinality({s \in Servers : server[s].st = "up"}) <= 1
  /\ \A s \in Servers :
       /\ server[s].st \in Known \cup {"none", "buried"}
       /\ server[s].st = "buried" => server[s].out = <<>>
  /\ filtering => emacs = "up"
  /\ faults \in 0..MaxFaults

\* "the output of two finds will not be mixed" (the comment in cmd_find): the
\* headers shown are those of one search, whatever is sent while another is
\* answered and after restarts, unless two servers ran at once.
FindsAreNotMixed == Cardinality(shown) <= 1

\* The replies of s among pieces.
RepliesOf(s, pieces) ==
  LET UpTo[i \in 0..Len(pieces)] ==
        IF i = 0 THEN <<>>
        ELSE IF pieces[i].part = "sexp" /\ pieces[i].s = s
          THEN Append(UpTo[i - 1], pieces[i].reply)
        ELSE UpTo[i - 1]
  IN  UpTo[Len(pieces)]

\* The replies of s that were printed and are not handled yet.
Said(s) == RepliesOf(s, buf \o server[s].out)

\* Every server keeps the promise of MuDialog: pipes, pieces, the filter and
\* its errors, crashes and restarts lose, repeat or reorder no reply.
D(s) == INSTANCE MuDialog WITH
          asked <- server[s].inp, said <- Said(s), heard <- heard[s],
          safe <- server[s].safe, over <- server[s].st \in {"dead", "buried"}

DialogImplemented ==
  /\ \A s \in Servers : D(s)!Init
  /\ [][\A s \in Servers : [D(s)!Next]_(D(s)!dialog)]_vars

Heard(n) == \E s \in Servers : \E i \in DOMAIN heard[s] : heard[s][i].n = n

\* What may keep the answer to a command from being handled: it went to a
\* server that ended, was killed or ran beside another, Emacs is gone, the
\* command has no answer, or the last filter run was left early and the
\* answer waits for the next output.
Excused(n) ==
  LET to == asked[n].to
  IN  \/ server[to].st \in {"dead", "buried"} \/ ~server[to].safe
      \/ Silent(asked[n].cmd)
      \/ left

\* Every command is answered in the end and the answer is handled, and no
\* server outlives its Emacs, even one that was not told: since the commands
\* are bounded, again and again no question is open and no server is left.
ConversationsSettle ==
  []<>/\ \A n \in DOMAIN asked : Heard(n) \/ Excused(n)
      /\ emacs = "gone" => \A s \in Servers : server[s].st \notin Alive

=============================================================================
