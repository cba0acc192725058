------------------------------ MODULE MCMuFind -------------------------------
(* Small instances of MuFind for TLC. *)
EXTENDS MuFind, TLC

CONSTANTS a, b, c, d, x, y, p1, p2, p3, p4

Message(n, id, path, refs, date) ==
  [docid |-> n, msgid |-> id, path |-> path, refs |-> refs, date |-> date]

Trio(ids, refs, dates) ==
  {Message(i, ids[i], <<p1, p2, p3>>[i], refs[i], dates[i]) : i \in 1..3}

\* Three messages that refer to each other, to themselves or to one that is
\* missing, in any combination; and a few with a duplicate or no message-id.
Double == {<<>>} \cup {<<r>> : r \in {a, b, c, x}}
          \cup ({<<r, s>> : r, s \in {a, b, c, x}} \ {<<r, r>> : r \in {a, b, c, x}})
Threadings == {Trio(<<a, b, c>>, <<r1, r2, r3>>, <<2, 1, 2>>) :
                 r1 \in Double, r2 \in {<<>>, <<a>>, <<c>>}, r3 \in {<<>>, <<x>>}}
              \cup {Trio(ids, <<r1, r2, <<>>>>, <<2, 1, 2>>) :
                      ids \in {<<a, a, b>>, <<a, a, a>>, <<a, Null, Null>>},
                      r1, r2 \in {<<>>, <<a>>, <<x>>}}

\* A thread of two and a message with the same message-id, all or some.
Changing == Trio(<<a, b, a>>, <<<<>>, <<a>>, <<x>>>>, <<3, 4, 3>>)

\* A thread of two and two replies to messages that are missing: there are
\* more roots to number than there are matches.
Shells == {Message(1, a, p1, <<>>, 1), Message(2, b, p2, <<a>>, 2),
           Message(3, c, p3, <<x>>, 2), Message(4, d, p4, <<y>>, 3)}

Every == [docid : 1..4, msgid : {a, b, c, d, Null}, path : {p1, p2, p3, p4},
          refs : Double \cup {<<y>>}, date : 1..4]

Request == [wanted |-> {1, 2, 3}, params |-> TRUE, bookmark |-> "none",
            format |-> "plain", exec |-> FALSE, linksdir |-> FALSE,
            threads |-> FALSE, sortfield |-> "date", reverse |-> FALSE,
            after |-> FALSE, upToDate |-> TRUE]

Threads == {[Request EXCEPT !.threads = TRUE, !.sortfield = s, !.reverse = r] :
              s \in {"none", "date"}, r \in {FALSE}}

\* What is said on the command line, right or wrong.
Others ==
  {[Request EXCEPT !.format = f, !.exec = e, !.linksdir = l, !.wanted = {1, 2}] :
     f \in Formats \ {"exec"}, e, l \in BOOLEAN}
  \cup {[Request EXCEPT !.params = p, !.bookmark = m, !.wanted = {}] :
          p \in BOOLEAN, m \in Bookmarks}
  \cup {[Request EXCEPT !.sortfield = s, !.reverse = TRUE] : s \in Sortfields}
  \cup {[Request EXCEPT !.wanted = Null, !.format = f] : f \in {"plain", "xquery"}}
  \cup {[Request EXCEPT !.upToDate = FALSE]}

Modified == {[Request EXCEPT !.threads = t, !.after = t] : t \in BOOLEAN}

FourThreads == {[r EXCEPT !.wanted = {1, 2, 3, 4}] : r \in Threads}
TornStarts == {Shells} \X FourThreads

AllStarts == (Threadings \X Threads) \cup ({Changing} \X Others)
             \cup TornStarts \cup ((SUBSET Changing) \X Modified)

=============================================================================
