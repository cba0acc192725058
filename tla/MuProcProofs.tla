---------------------------- MODULE MuProcProofs -----------------------------
(***************************************************************************)
(* What holds of mu4e and its servers for any commands, any number of      *)
(* servers, kills and faults.                                              *)
(*                                                                         *)
(* While a server is safe it is the only one Emacs knows, so that what is  *)
(* in the buffer and in its pipe is one row of whole replies, cookie and   *)
(* expression in turn, of which only the last may be cut off, and only by  *)
(* the death of the server.                                                *)
(***************************************************************************)
EXTENDS MuProc, FiniteSetTheorems, SequenceTheorems, WellFoundedInduction,
        TLAPS

-----------------------------------------------------------------------------
(* Sets of numbers and sequences.                                          *)

LEMMA LeastNumber ==
  ASSUME NEW S \in SUBSET Nat, S # {}
  PROVE  \E n \in S : \A k \in S : n <= k
<1> DEFINE R == OpToRel(<, Nat)
<1>1. IsWellFoundedOn(R, Nat)
  BY NatLessThanWellFounded
<1>2. \A x, y \in Nat : x < y => <<x, y>> \in R
  BY DEF OpToRel
<1> HIDE DEF R
<1>3. PICK n \in S : \A k \in S : ~(<<k, n>> \in R)
  BY <1>1, WFMin
<1>4. ASSUME NEW k \in S PROVE n <= k
  <2>1. n \in Nat /\ k \in Nat
    OBVIOUS
  <2>2. ~(k < n)
    BY <1>2, <1>3, <2>1
  <2> QED
    BY <2>1, <2>2
<1> QED
  BY <1>4

LEMMA Next1Least ==
  ASSUME NEW S \in SUBSET Nat, S # {}
  PROVE  Next1(S) \in S /\ \A t \in S : Next1(S) <= t
<1>1. \E n \in S : \A k \in S : n <= k
  BY LeastNumber
<1> QED
  BY <1>1 DEF Next1

-----------------------------------------------------------------------------
(* What the handlers print.                                                *)

Kinds == {"error", "info", "sent", "compose", "contacts", "unexpected", "temp",
          "erase", "header", "found", "update", "pong", "quiting", "remove",
          "view"}

\* A handler other than that of find prints no header, and one other than that
\* of quit prints expressions only.
PlainKinds == Kinds \ {"header", "quiting"}
Plain(r) == r.replies \in Seq(PlainKinds)

\* Headers come after an erase, the first reply.
Ordered(r) ==
  /\ r.replies \in Seq(Kinds \ {"quiting"})
  /\ \A i \in DOMAIN r.replies : r.replies[i] = "header" => r.replies[1] = "erase"

LEMMA PlainOrdered ==
  ASSUME NEW r, Plain(r)
  PROVE  Ordered(r)
<1>1. r.replies \in Seq(PlainKinds)
  BY DEF Plain
<1>2. r.replies \in Seq(Kinds \ {"quiting"})
  <2>1. PlainKinds \subseteq Kinds \ {"quiting"}
    BY DEF PlainKinds
  <2> QED
    BY <1>1, <2>1
<1>3. \A i \in DOMAIN r.replies : r.replies[i] # "header"
  BY <1>1 DEF PlainKinds
<1> QED
  BY <1>2, <1>3 DEF Ordered

LEMMA PlainDone ==
  ASSUME NEW k \in PlainKinds
  PROVE  /\ Plain(Done(<<k>>)) /\ Plain(Failed(<<k>>))
         /\ Plain(Done(<<>>)) /\ Plain(Failed(<<>>))
BY DEF Plain, Done, Failed

LEMMA PlainEither ==
  ASSUME NEW k \in PlainKinds, NEW r \in Either(k)
  PROVE  Plain(r)
BY PlainDone DEF Either, PlainKinds, Kinds

LEMMA PlainRequired ==
  ASSUME NEW args, NEW params, NEW results, \A r \in results : Plain(r),
         NEW r \in Required(args, params, results)
  PROVE  Plain(r)
<1>1. Failed(<<>>).replies = <<>>
  BY DEF Failed
<1>2. <<>> \in Seq(PlainKinds)
  OBVIOUS
<1> QED
  BY <1>1, <1>2 DEF Required, Plain

LEMMA PlainOnMessage ==
  ASSUME NEW args, NEW results, \A r \in results : Plain(r),
         NEW r \in OnMessage(args, results)
  PROVE  Plain(r)
BY PlainDone DEF OnMessage, PlainKinds, Kinds

LEMMA PlainReported ==
  ASSUME NEW r, Plain(r)
  PROVE  Plain(Reported(r))
BY DEF Plain, Reported, Done, PlainKinds, Kinds

LEMMA OrderedReported ==
  ASSUME NEW r, Ordered(r)
  PROVE  Ordered(Reported(r))
<1> DEFINE q == r.replies
           p == Append(q, "error")
<1>1. q \in Seq(Kinds \ {"quiting"})
  BY DEF Ordered
<1>2. \A i \in DOMAIN q : q[i] = "header" => q[1] = "erase"
  BY DEF Ordered
<1>3. p \in Seq(Kinds \ {"quiting"})
  BY <1>1 DEF Kinds
<1>4. \A i \in DOMAIN p : p[i] = "header" => p[1] = "erase"
  <2> SUFFICES ASSUME NEW i \in DOMAIN p, p[i] = "header" PROVE p[1] = "erase"
    OBVIOUS
  <2> HIDE DEF q
  <2>1. i \in 1..(Len(q) + 1) /\ Len(q) \in Nat
    BY <1>1
  <2>2. i # Len(q) + 1
    BY <1>1
  <2>3. i \in 1..Len(q) /\ p[i] = q[i] /\ p[1] = q[1]
    BY <1>1, <2>1, <2>2
  <2> QED
    BY <1>1, <1>2, <2>3
<1> QED
  BY <1>1, <1>2, <1>3, <1>4 DEF Ordered, Reported, Done

LEMMA PlainTimes ==
  ASSUME NEW n \in Nat, NEW k \in PlainKinds
  PROVE  Times(n, k) \in Seq(PlainKinds)
BY DEF Times

LEMMA PlainConcat ==
  ASSUME NEW a \in Seq(PlainKinds), NEW b \in Seq(PlainKinds)
  PROVE  a \o b \in Seq(PlainKinds)
OBVIOUS

LEMMA PlainCompose ==
  ASSUME NEW args, NEW r \in CmdCompose(args)
  PROVE  Plain(r)
<1>1. {"error", "compose"} \subseteq PlainKinds
  BY DEF PlainKinds, Kinds
<1> DEFINE forward == {Done(<<"error">>)} \cup
                      {Done(errors \o <<"compose">>) : errors \in IncludeAttachments}
           results == IF Is(args, "type", "new") THEN {Done(<<"compose">>)}
             ELSE IF Is(args, "type", "forward") THEN Required(args, {"docid"}, forward)
             ELSE IF Is(args, "type", "reply") \/ Is(args, "type", "edit")
               THEN Required(args, {"docid"}, Either("compose"))
             ELSE {Done(<<"error">>)}
<1>2. ASSUME NEW x \in forward PROVE Plain(x)
  <2>1. CASE x = Done(<<"error">>)
    BY <1>1, <2>1, PlainDone
  <2>2. ASSUME NEW errors \in IncludeAttachments, x = Done(errors \o <<"compose">>)
        PROVE  Plain(x)
    <3>1. errors \in Seq(PlainKinds)
      BY <1>1, ReplyBounds, PlainTimes DEF IncludeAttachments
    <3>2. errors \o <<"compose">> \in Seq(PlainKinds)
      BY <1>1, <3>1
    <3> QED
      BY <2>2, <3>2 DEF Plain, Done
  <2> QED
    BY <2>1, <2>2
<1> HIDE DEF forward
<1>3. \A x \in Required(args, {"docid"}, forward) : Plain(x)
  BY <1>2, PlainRequired
<1>4. \A x \in Required(args, {"docid"}, Either("compose")) : Plain(x)
  BY <1>1, PlainEither, PlainRequired
<1>5. Plain(Done(<<"compose">>)) /\ Plain(Done(<<"error">>))
  BY <1>1, PlainDone
<1>6. \A x \in results : Plain(x)
  BY <1>3, <1>4, <1>5
<1>7. r \in Required(args, {"type"}, results)
  BY DEF CmdCompose, forward
<1> HIDE DEF results
<1> QED
  BY <1>6, <1>7, PlainRequired

LEMMA PlainExtract ==
  ASSUME NEW args, NEW r \in CmdExtract(args)
  PROVE  Plain(r)
<1>1. {"error", "info", "temp"} \subseteq PlainKinds
  BY DEF PlainKinds, Kinds
<1>2. \A x \in SavePart(args) : Plain(x)
  BY <1>1, PlainEither, PlainRequired DEF SavePart
<1>3. \A x \in OpenPart(args) : Plain(x)
  BY <1>1, PlainEither, PlainDone DEF OpenPart
<1>4. \A x \in TempPart(args) : Plain(x)
  BY <1>1, PlainEither, PlainRequired DEF TempPart
<1>5. Plain(Done(<<"error">>))
  BY <1>1, PlainDone
<1>6. \A x \in ExtractPart(args) : Plain(x)
  BY <1>2, <1>3, <1>4, <1>5 DEF ExtractPart
<1>7. \A x \in {Reported(y) : y \in ExtractPart(args)} : Plain(x)
  BY <1>6, PlainReported
<1>8. \A x \in OnMessage(args, {Reported(y) : y \in ExtractPart(args)}) : Plain(x)
  BY <1>7, PlainOnMessage
<1> QED
  BY <1>8, PlainRequired DEF CmdExtract

LEMMA PlainIndex ==
  ASSUME NEW args, NEW r \in CmdIndex(args)
  PROVE  Plain(r)
<1> DEFINE results == {Done(Times(n, "info") \o <<last>>) :
                         n \in 0..MaxHeaders, last \in {"info", "error"}}
<1>1. {"info", "error"} \subseteq PlainKinds
  BY DEF PlainKinds, Kinds
<1>2. ASSUME NEW x \in results PROVE Plain(x)
  <2>1. PICK n \in 0..MaxHeaders, last \in {"info", "error"} :
                x = Done(Times(n, "info") \o <<last>>)
    OBVIOUS
  <2>2. Times(n, "info") \in Seq(PlainKinds)
    BY <1>1, ReplyBounds, PlainTimes
  <2>3. Times(n, "info") \o <<last>> \in Seq(PlainKinds)
    BY <1>1, <2>2
  <2> QED
    BY <2>1, <2>3 DEF Plain, Done
<1>3. r \in Required(args, {"path"}, results)
  BY DEF CmdIndex
<1> HIDE DEF results
<1> QED
  BY <1>2, <1>3, PlainRequired

LEMMA OrderedFind ==
  ASSUME NEW args, NEW r \in CmdFind(args)
  PROVE  Ordered(r)
<1>1. {"error"} \subseteq PlainKinds
  BY DEF PlainKinds, Kinds
<1>2. Ordered(Done(<<"error">>)) /\ Ordered(Failed(<<>>))
  BY <1>1, PlainDone, PlainOrdered
<1>3. ASSUME NEW headers \in PrintSexps
      PROVE  Ordered(Done(<<"erase">> \o headers \o <<"found">>))
  <2> DEFINE q == <<"erase">> \o headers \o <<"found">>
  <2>1. PICK n \in 0..MaxHeaders : headers = Times(n, "header")
    BY DEF PrintSexps
  <2>2. headers \in Seq({"header"})
    BY <2>1, ReplyBounds DEF Times
  <2>3. headers \in Seq(Kinds \ {"quiting"})
    BY <2>2 DEF Kinds
  <2>4. q \in Seq(Kinds \ {"quiting"})
    BY <2>3 DEF Kinds
  <2>5. q[1] = "erase"
    BY <2>3
  <2> QED
    BY <2>4, <2>5 DEF Ordered, Done
<1> QED
  BY <1>2, <1>3 DEF CmdFind, Required

-----------------------------------------------------------------------------
(* A definition by recursion on 0..n has a value: the least n without one  *)
(* would have one after all, got from that of n - 1.                       *)

Defines(v0, step, n, h) ==
  \A i \in 0..n : h[i] = IF i = 0 THEN v0 ELSE step[<<i, h[i - 1]>>]

LEMMA RecursionExists ==
  ASSUME NEW V, NEW v0 \in V, NEW step \in [Nat \X V -> V], NEW n \in Nat
  PROVE  \E h \in [0..n -> V] : Defines(v0, step, n, h)
<1> DEFINE Bad == {k \in Nat : ~\E h \in [0..k -> V] : Defines(v0, step, k, h)}
<1>1. SUFFICES ASSUME Bad # {} PROVE FALSE
  OBVIOUS
<1>2. PICK k \in Bad : \A j \in Bad : k <= j
  BY <1>1, LeastNumber
<1>3. k \in Nat /\ ~\E h \in [0..k -> V] : Defines(v0, step, k, h)
  OBVIOUS
<1>4. \A j \in Nat : j < k => \E h \in [0..j -> V] : Defines(v0, step, j, h)
  <2> SUFFICES ASSUME NEW j \in Nat, j < k PROVE j \notin Bad
    OBVIOUS
  <2> HIDE DEF Bad
  <2> QED
    BY <1>2, <1>3
<1> HIDE DEF Bad
<1>5. CASE k = 0
  <2> DEFINE h == [i \in 0..0 |-> v0]
  <2>1. h \in [0..0 -> V] /\ Defines(v0, step, 0, h)
    BY DEF Defines
  <2> QED
    BY <1>3, <1>5, <2>1
<1>6. CASE k # 0
  <2>1. k - 1 \in Nat /\ k - 1 < k /\ k - 1 \in 0..(k - 1)
    BY <1>3, <1>6
  <2>2. PICK g \in [0..(k - 1) -> V] : Defines(v0, step, k - 1, g)
    BY <1>4, <2>1
  <2> DEFINE last == step[<<k, g[k - 1]>>]
             h == [i \in 0..k |-> IF i = k THEN last ELSE g[i]]
  <2>3. last \in V
    <3>1. g[k - 1] \in V
      BY <2>1
    <3> QED
      BY <1>3, <3>1
  <2>4. \A i \in 0..k : i # k => i \in 0..(k - 1)
    BY <1>3
  <2> HIDE DEF last
  <2>5. h \in [0..k -> V]
    BY <2>3, <2>4
  <2>6. ASSUME NEW i \in 0..k
        PROVE  h[i] = IF i = 0 THEN v0 ELSE step[<<i, h[i - 1]>>]
    <3>1. CASE i = k
      <4>1. i # 0 /\ i - 1 \in 0..k /\ i - 1 # k /\ i - 1 = k - 1
        BY <1>3, <1>6, <3>1
      <4>2. h[i] = last /\ h[i - 1] = g[k - 1]
        BY <3>1, <4>1
      <4> QED
        BY <3>1, <4>1, <4>2 DEF last
    <3>2. CASE i # k
      <4>1. i \in 0..(k - 1) /\ h[i] = g[i]
        BY <2>4, <3>2
      <4>2. g[i] = IF i = 0 THEN v0 ELSE step[<<i, g[i - 1]>>]
        BY <2>2, <4>1 DEF Defines
      <4>3. i # 0 => i - 1 \in 0..k /\ i - 1 # k
        BY <1>3, <4>1
      <4>4. i # 0 => h[i - 1] = g[i - 1]
        BY <4>3
      <4> HIDE DEF h
      <4> QED
        BY <4>1, <4>2, <4>4
    <3> QED
      BY <3>1, <3>2
  <2> HIDE DEF h
  <2>7. Defines(v0, step, k, h)
    BY <2>6 DEF Defines
  <2> QED
    BY <1>3, <2>5, <2>7
<1> QED
  BY <1>5, <1>6

LEMMA PlainMove ==
  ASSUME NEW args, NEW r \in CmdMove(args)
  PROVE  Plain(r)
<1> DEFINE P == Seq(PlainKinds)
           more(M) == {<<"error">>} \cup {m \o rest : m \in DoMove, rest \in M}
           step == [x \in Nat \X SUBSET P |-> more(x[2])]
<1>1. {"error", "update"} \subseteq PlainKinds
  BY DEF PlainKinds, Kinds
<1>2. DoMove \subseteq P /\ <<"error">> \in P /\ <<>> \in P
  BY <1>1 DEF DoMove
<1>3. ASSUME NEW M \in SUBSET P PROVE more(M) \in SUBSET P
  <2>1. ASSUME NEW m \in DoMove, NEW rest \in M PROVE m \o rest \in P
    <3>1. m \in Seq(PlainKinds) /\ rest \in Seq(PlainKinds)
      BY <1>2
    <3> QED
      BY <3>1, PlainConcat
  <2> HIDE DEF P
  <2>2. ASSUME NEW x \in more(M) PROVE x \in P
    <3>1. x = <<"error">> \/ \E m \in DoMove, rest \in M : x = m \o rest
      OBVIOUS
    <3> HIDE DEF more
    <3>2. CASE x = <<"error">>
      BY <1>2, <3>2
    <3>3. ASSUME NEW m \in DoMove, NEW rest \in M, x = m \o rest PROVE x \in P
      BY <2>1, <3>3
    <3> QED
      BY <3>1, <3>2, <3>3
  <2> HIDE DEF more
  <2> QED
    BY <2>2
<1>4. MaxCopies \in Nat /\ {<<>>} \in SUBSET P
  BY <1>2, ReplyBounds
<1> DEFINE is(f) == f = [n \in 0..MaxCopies |->
                          IF n = 0 THEN {<<>>} ELSE more(f[n - 1])]
           c == CHOOSE f : is(f)
<1>5. MoveMsgids = UNION {c[n] : n \in 1..MaxCopies}
  BY DEF MoveMsgids
<1> HIDE DEF more, P
<1>6. PICK h \in [0..MaxCopies -> SUBSET P] : Defines({<<>>}, step, MaxCopies, h)
  <2>1. ASSUME NEW x \in Nat \X SUBSET P PROVE more(x[2]) \in SUBSET P
    BY <1>3
  <2>2. step \in [Nat \X SUBSET P -> SUBSET P]
    BY <2>1
  <2> HIDE DEF step
  <2> QED
    BY <1>4, <2>2, RecursionExists
<1>7. ASSUME NEW n \in 0..MaxCopies
      PROVE  h[n] = IF n = 0 THEN {<<>>} ELSE more(h[n - 1])
  <2>1. n # 0 => n - 1 \in 0..MaxCopies /\ n \in Nat
    BY <1>4
  <2>2. n # 0 => h[n - 1] \in SUBSET P
    BY <2>1
  <2>3. n # 0 => <<n, h[n - 1]>> \in Nat \X SUBSET P
    BY <2>1, <2>2
  <2>4. n # 0 => step[<<n, h[n - 1]>>] = more(h[n - 1])
    BY <2>3
  <2> HIDE DEF step
  <2> QED
    BY <1>6, <2>4 DEF Defines
<1>8. is(c)
  <2>1. is(h)
    BY <1>7
  <2> HIDE DEF is
  <2> QED
    BY <2>1
<1>9. \A n \in 0..MaxCopies : c[n] = IF n = 0 THEN {<<>>} ELSE more(c[n - 1])
  <2> HIDE DEF c
  <2> QED
    BY <1>8
<1> HIDE DEF c, is
<1>10. \A n \in 0..MaxCopies : c[n] \in SUBSET P
  <2> DEFINE Bad == {n \in 0..MaxCopies : c[n] \notin SUBSET P}
  <2>1. SUFFICES ASSUME Bad # {} PROVE FALSE
    OBVIOUS
  <2>2. Bad \in SUBSET Nat
    OBVIOUS
  <2>3. PICK n \in Bad : \A j \in Bad : n <= j
    BY <2>1, <2>2, LeastNumber
  <2>4. n \in 0..MaxCopies /\ c[n] \notin SUBSET P
    OBVIOUS
  <2>5. n # 0
    BY <1>4, <1>9, <2>4
  <2>6. n - 1 \in 0..MaxCopies /\ ~(n <= n - 1)
    BY <1>4, <2>4, <2>5
  <2>7. c[n - 1] \in SUBSET P
    BY <2>3, <2>6
  <2> HIDE DEF Bad
  <2> QED
    BY <1>3, <1>9, <2>4, <2>5, <2>7
<1>11. \A moves \in MoveMsgids : moves \in P
  <2>1. \A n \in 1..MaxCopies : n \in 0..MaxCopies
    BY <1>4
  <2> QED
    BY <1>5, <1>10, <2>1
<1>12. \A moves \in MoveMsgids \cup DoMove : Plain(Done(moves))
  BY <1>2, <1>11 DEF Plain, Done, P
<1>13. Plain(Done(<<"error">>))
  BY <1>1, PlainDone
<1>14. \A x \in OnMessage(args, {Done(move) : move \in DoMove}) : Plain(x)
  BY <1>12, PlainOnMessage
<1> QED
  BY <1>12, <1>13, <1>14 DEF CmdMove

LEMMA HandledOrdered ==
  ASSUME NEW name, name # "quit", NEW args, NEW r \in HandleArgs(name, args)
  PROVE  Ordered(r)
<1>1. PlainKinds = Kinds \ {"header", "quiting"}
  BY DEF PlainKinds
<1>2. {"error", "info", "sent", "contacts", "unexpected", "pong", "remove",
       "view"} \subseteq PlainKinds
  BY DEF PlainKinds, Kinds
<1>3. /\ \A x \in CmdAdd(args) : Plain(x)
      /\ \A x \in CmdSent(args) : Plain(x)
      /\ \A x \in CmdMkdir(args) : Plain(x)
  BY <1>2, PlainEither, PlainRequired DEF CmdAdd, CmdSent, CmdMkdir
<1>4. \A x \in CmdContacts(args) : Plain(x)
  BY <1>2, PlainEither DEF CmdContacts
<1>5. /\ \A x \in CmdGuile(args) : Plain(x)
      /\ \A x \in CmdPing(args) : Plain(x)
  BY <1>2, PlainDone DEF CmdGuile, CmdPing
<1>6. \A x \in CmdRemove(args) : Plain(x)
  BY <1>2, PlainDone, PlainOnMessage DEF CmdRemove
<1>7. \A x \in CmdView(args) : Plain(x)
  <2>1. \A x \in OnMessage(args, {Done(<<"view">>)}) : Plain(x)
    BY <1>2, PlainDone, PlainOnMessage
  <2> QED
    BY <1>2, <2>1, PlainEither DEF CmdView
<1>8. \A x \in {Done(<<>>)} \cup {Failed(<<>>)} : Plain(x)
  BY <1>2, PlainDone
<1>9. Plain(r) \/ r \in CmdFind(args)
  BY <1>3, <1>4, <1>5, <1>6, <1>7, <1>8, PlainCompose, PlainExtract, PlainIndex,
     PlainMove DEF HandleArgs
<1> QED
  BY <1>9, PlainOrdered, OrderedFind

LEMMA AnswersOrdered ==
  ASSUME NEW cmd, cmd.name # "quit", NEW r \in Answers(cmd)
  PROVE  Ordered(r)
<1>1. Ordered(Done(<<"error">>))
  <2>1. "error" \in PlainKinds
    BY DEF PlainKinds, Kinds
  <2> QED
    BY <2>1, PlainDone, PlainOrdered
<1>2. \A x \in HandleArgs(cmd.name, cmd.args) : Ordered(x) /\ Ordered(Reported(x))
  BY HandledOrdered, OrderedReported
<1> QED
  BY <1>1, <1>2 DEF Answers

\* For quit as well they are replies.
LEMMA AnswersTyped ==
  ASSUME NEW cmd, NEW r \in Answers(cmd)
  PROVE  r.replies \in Seq(Kinds)
<1>1. CASE cmd.name = "quit"
  <2>1. \A x \in HandleArgs(cmd.name, cmd.args) :
          x = [replies |-> <<"quiting">>, rv |-> "stop"]
    BY <1>1 DEF HandleArgs, CmdQuit
  <2>2. \/ r = Done(<<"error">>)
        \/ r = [replies |-> <<"quiting">>, rv |-> "stop"]
    BY <2>1 DEF Answers
  <2>3. <<"error">> \in Seq(Kinds) /\ <<"quiting">> \in Seq(Kinds)
    BY DEF Kinds
  <2>4. r.replies \in {<<"error">>, <<"quiting">>}
    BY <2>2 DEF Done
  <2> QED
    BY <2>3, <2>4
<1>2. CASE cmd.name # "quit"
  <2>1. r.replies \in Seq(Kinds \ {"quiting"})
    BY <1>2, AnswersOrdered DEF Ordered
  <2> QED
    BY <2>1
<1> QED
  BY <1>1, <1>2

-----------------------------------------------------------------------------
(* Pieces and the replies among them.                                      *)

Reply == [n : Nat, i : Nat, kind : Kinds]
Piece == [part : {"cookie", "sexp"}, s : Servers, reply : Reply]

LEMMA RepliesFold ==
  ASSUME NEW s, NEW p \in Seq(Piece)
  PROVE  \E h : /\ \A i \in 0..Len(p) :
                     h[i] = IF i = 0 THEN <<>>
                            ELSE IF p[i].part = "sexp" /\ p[i].s = s
                              THEN Append(h[i - 1], p[i].reply)
                            ELSE h[i - 1]
                /\ RepliesOf(s, p) = h[Len(p)]
<1> DEFINE V == Seq(Reply)
           n == Len(p)
           mine(i) == p[i].part = "sexp" /\ p[i].s = s
           step == [x \in Nat \X V |->
                      IF x[1] \in 1..n /\ mine(x[1])
                      THEN Append(x[2], p[x[1]].reply) ELSE x[2]]
           is(f) == f = [i \in 0..n |->
                           IF i = 0 THEN <<>>
                           ELSE IF mine(i) THEN Append(f[i - 1], p[i].reply)
                           ELSE f[i - 1]]
           c == CHOOSE f : is(f)
<1>1. n \in Nat /\ <<>> \in V /\ \A i \in 1..n : p[i].reply \in Reply
  <2>1. \A x \in Piece : x.reply \in Reply
    BY DEF Piece
  <2>2. n \in Nat /\ \A i \in 1..n : p[i] \in Piece
    OBVIOUS
  <2>3. <<>> \in V
    OBVIOUS
  <2> QED
    BY <2>1, <2>2, <2>3
<1>2. RepliesOf(s, p) = c[n]
  BY DEF RepliesOf
<1>3. PICK h \in [0..n -> V] : Defines(<<>>, step, n, h)
  <2>1. ASSUME NEW x \in Nat \X V
        PROVE  (IF x[1] \in 1..n /\ mine(x[1])
                THEN Append(x[2], p[x[1]].reply) ELSE x[2]) \in V
    <3>1. x[2] \in V
      OBVIOUS
    <3>2. ASSUME x[1] \in 1..n PROVE Append(x[2], p[x[1]].reply) \in V
      <4>1. p[x[1]].reply \in Reply
        BY <1>1, <3>2
      <4> QED
        BY <3>1, <4>1
    <3> HIDE DEF V, mine
    <3> QED
      BY <3>1, <3>2
  <2> HIDE DEF mine, V
  <2>2. step \in [Nat \X V -> V]
    BY <2>1
  <2> HIDE DEF step
  <2> QED
    BY <1>1, <2>2, RecursionExists
<1>4. ASSUME NEW i \in 0..n
      PROVE  h[i] = IF i = 0 THEN <<>>
                    ELSE IF mine(i) THEN Append(h[i - 1], p[i].reply)
                    ELSE h[i - 1]
  <2> HIDE DEF V, mine
  <2>1. i # 0 => i - 1 \in 0..n /\ i \in Nat /\ i \in 1..n
    BY <1>1
  <2>2. i # 0 => h[i - 1] \in V
    BY <2>1
  <2>3. i # 0 => <<i, h[i - 1]>> \in Nat \X V
    BY <2>1, <2>2
  <2>4. i # 0 => step[<<i, h[i - 1]>>] = IF mine(i) THEN Append(h[i - 1], p[i].reply)
                                         ELSE h[i - 1]
    BY <2>1, <2>3
  <2> HIDE DEF step
  <2> QED
    BY <1>3, <2>4 DEF Defines
<1>5. is(c)
  <2> HIDE DEF mine
  <2>1. is(h)
    BY <1>4
  <2> HIDE DEF is
  <2> QED
    BY <2>1
<1> HIDE DEF c
<1>6. \A i \in 0..n : c[i] = IF i = 0 THEN <<>>
                             ELSE IF mine(i) THEN Append(c[i - 1], p[i].reply)
                             ELSE c[i - 1]
  <2> HIDE DEF mine
  <2> QED
    BY <1>5
<1> QED
  BY <1>2, <1>6

\* Pieces of other servers hold no reply of s.
LEMMA RepliesOfOthers ==
  ASSUME NEW s, NEW p \in Seq(Piece), \A i \in 1..Len(p) : p[i].s # s
  PROVE  RepliesOf(s, p) = <<>>
<1>1. PICK h : /\ \A i \in 0..Len(p) :
                    h[i] = IF i = 0 THEN <<>>
                           ELSE IF p[i].part = "sexp" /\ p[i].s = s
                             THEN Append(h[i - 1], p[i].reply)
                           ELSE h[i - 1]
               /\ RepliesOf(s, p) = h[Len(p)]
  BY RepliesFold
<1> DEFINE Bad == {i \in 0..Len(p) : h[i] # <<>>}
<1>2. SUFFICES ASSUME Bad # {} PROVE FALSE
  <2>1. Len(p) \in 0..Len(p)
    OBVIOUS
  <2> QED
    BY <1>1, <1>2, <2>1
<1>3. Bad \in SUBSET Nat
  OBVIOUS
<1>4. PICK n \in Bad : \A j \in Bad : n <= j
  BY <1>2, <1>3, LeastNumber
<1>5. n \in 0..Len(p) /\ h[n] # <<>>
  OBVIOUS
<1>6. n # 0
  BY <1>1, <1>5
<1>7. n - 1 \in 0..Len(p) /\ ~(n <= n - 1) /\ n \in 1..Len(p)
  BY <1>5, <1>6
<1>8. h[n - 1] = <<>>
  BY <1>4, <1>7
<1> QED
  BY <1>1, <1>5, <1>6, <1>7, <1>8

\* Whole replies of s in a row; the last may lack its expression.
Row(s, p) ==
  /\ p \in Seq(Piece)
  /\ \A i \in 1..Len(p) : p[i].s = s
  /\ \A m \in Nat : 2 * m + 1 <= Len(p) => p[2 * m + 1].part = "cookie"
  /\ \A m \in Nat \ {0} : 2 * m <= Len(p) =>
       p[2 * m].part = "sexp" /\ p[2 * m].reply.kind # "quiting"

Whole(p) == \E k \in Nat : Len(p) = 2 * k

RowReplies(p) == [j \in 1..(Len(p) \div 2) |-> p[2 * j].reply]

LEMMA RepliesOfRow ==
  ASSUME NEW s, NEW p, Row(s, p)
  PROVE  RepliesOf(s, p) = RowReplies(p)
<1>1. p \in Seq(Piece) /\ Len(p) \in Nat
  BY DEF Row
<1>2. PICK h : /\ \A i \in 0..Len(p) :
                    h[i] = IF i = 0 THEN <<>>
                           ELSE IF p[i].part = "sexp" /\ p[i].s = s
                             THEN Append(h[i - 1], p[i].reply)
                           ELSE h[i - 1]
               /\ RepliesOf(s, p) = h[Len(p)]
  BY <1>1, RepliesFold
<1>6. \A i \in 1..Len(p) : p[i].reply \in Reply
  <2>1. \A x \in Piece : x.reply \in Reply
    BY DEF Piece
  <2> QED
    BY <1>1, <2>1
<1>7. \A i \in 1..Len(p) :
        /\ p[i].part = "cookie" => h[i] = h[i - 1]
        /\ p[i].part = "sexp" /\ p[i].s = s => h[i] = Append(h[i - 1], p[i].reply)
  <2>1. \A i \in 1..Len(p) : i \in 0..Len(p) /\ i # 0
    BY <1>1
  <2> QED
    BY <1>2, <2>1
<1> DEFINE so(m) == [j \in 1..m |-> p[2 * j].reply]
           N == Len(p) \div 2
           Bad == {m \in 0..N : h[2 * m] # so(m)}
<1>3. N \in Nat /\ (Len(p) = 2 * N \/ Len(p) = 2 * N + 1)
  BY <1>1
<1> HIDE DEF N
<1>4. \A m \in 0..N : h[2 * m] = so(m)
  <2>1. SUFFICES ASSUME Bad # {} PROVE FALSE
    OBVIOUS
  <2>2. Bad \in SUBSET Nat
    BY <1>3
  <2>3. PICK m \in Bad : \A j \in Bad : m <= j
    BY <2>1, <2>2, LeastNumber
  <2>4. m \in 0..N /\ h[2 * m] # so(m)
    OBVIOUS
  <2>5. m # 0
    <3>1. 0 \in 0..Len(p) /\ 2 * 0 = 0
      BY <1>1
    <3>2. h[0] = <<>>
      BY <1>2, <3>1
    <3>3. so(0) = <<>>
      OBVIOUS
    <3> HIDE DEF so
    <3> QED
      BY <2>4, <3>1, <3>2, <3>3
  <2> DEFINE k == m - 1
  <2>6. k \in 0..N /\ ~(m <= k) /\ m = k + 1 /\ k \in Nat /\ m \in Nat \ {0}
    BY <1>3, <2>4, <2>5
  <2>7. h[2 * k] = so(k)
    <3>1. k \notin Bad
      BY <2>3, <2>6
    <3> HIDE DEF so
    <3> QED
      BY <2>6, <3>1
  <2>8. /\ 2 * m \in 0..Len(p) /\ 2 * m \in 1..Len(p) /\ 2 * m # 0
        /\ 2 * m - 1 \in 0..Len(p) /\ 2 * m - 1 \in 1..Len(p) /\ 2 * m - 1 # 0
        /\ 2 * m - 1 = 2 * k + 1 /\ 2 * k + 1 - 1 = 2 * k
    BY <1>1, <1>3, <2>4, <2>6
  <2> HIDE DEF k
  <2>9. p[2 * m - 1].part = "cookie" /\ p[2 * m].part = "sexp" /\ p[2 * m].s = s
    <3>1. 2 * k + 1 <= Len(p) /\ 2 * m <= Len(p)
      BY <1>1, <2>8
    <3>2. p[2 * k + 1].part = "cookie" /\ p[2 * m].part = "sexp"
      BY <2>6, <3>1 DEF Row
    <3> QED
      BY <2>8, <3>2 DEF Row
  <2>10. h[2 * m - 1] = h[2 * k]
    <3>1. PICK a \in 1..Len(p) : a = 2 * m - 1
      BY <2>8
    <3>2. p[a].part = "cookie"
      BY <2>9, <3>1
    <3>3. h[a] = h[a - 1]
      BY <1>7, <3>2
    <3> QED
      BY <2>6, <2>8, <3>1, <3>3
  <2>11. h[2 * m] = Append(h[2 * m - 1], p[2 * m].reply)
    <3>1. PICK a \in 1..Len(p) : a = 2 * m
      BY <2>8
    <3>2. p[a].part = "sexp" /\ p[a].s = s
      BY <2>9, <3>1
    <3>3. h[a] = Append(h[a - 1], p[a].reply)
      BY <1>7, <3>2
    <3> QED
      BY <2>6, <3>1, <3>3
  <2>12. so(m) = Append(so(k), p[2 * m].reply)
    <3>1. \A j \in 1..k : p[2 * j].reply \in Reply
      <4>1. ASSUME NEW j \in 1..k PROVE 2 * j \in 1..Len(p)
        <5>1. j \in Nat /\ 1 <= j /\ j <= k /\ 2 * k <= Len(p)
          BY <1>1, <2>6, <2>8
        <5> QED
          BY <1>1, <2>6, <5>1
      <4> QED
        BY <1>6, <4>1
    <3>2. p[2 * m].reply \in Reply
      BY <1>6, <2>8
    <3>3. so(k) \in Seq(Reply) /\ Len(so(k)) = k
      BY <2>6, <3>1
    <3> QED
      BY <2>6, <3>2, <3>3
  <2> HIDE DEF so, Bad
  <2> QED
    BY <2>4, <2>7, <2>10, <2>11, <2>12
<1>5. h[Len(p)] = so(N)
  <2>1. N \in 0..N
    BY <1>3
  <2> HIDE DEF so
  <2>2. CASE Len(p) = 2 * N
    BY <1>4, <2>1, <2>2
  <2>3. CASE Len(p) = 2 * N + 1
    <3>1. /\ 2 * N + 1 \in 0..Len(p) /\ 2 * N + 1 # 0 /\ 2 * N + 1 - 1 = 2 * N
          /\ 2 * N + 1 <= Len(p)
      BY <1>3, <2>3
    <3>2. p[2 * N + 1].part = "cookie"
      BY <1>3, <3>1 DEF Row
    <3>3. h[2 * N + 1] = h[2 * N + 1 - 1]
      <4>1. PICK a \in 1..Len(p) : a = 2 * N + 1
        BY <1>1, <1>3, <2>3
      <4>2. p[a].part = "cookie"
        BY <3>2, <4>1
      <4>3. h[a] = h[a - 1]
        BY <1>7, <4>2
      <4> QED
        BY <1>3, <4>1, <4>3
    <3> QED
      BY <1>4, <2>1, <2>3, <3>1, <3>3
  <2> QED
    BY <1>3, <2>2, <2>3
<1> QED
  BY <1>2, <1>5 DEF RowReplies, N

LEMMA Slice ==
  ASSUME NEW S, NEW p \in Seq(S), NEW a \in Nat \ {0}, NEW b \in Nat,
         b <= Len(p)
  PROVE  /\ SubSeq(p, a, b) \in Seq(S)
         /\ Len(SubSeq(p, a, b)) = IF a <= b THEN b - a + 1 ELSE 0
         /\ \A i \in 1..Len(SubSeq(p, a, b)) :
              a + i - 1 \in 1..Len(p) /\ SubSeq(p, a, b)[i] = p[a + i - 1]
<1>1. \A i \in a..b : p[i] \in S
  OBVIOUS
<1>2. a \in Int /\ b \in Int
  OBVIOUS
<1> DEFINE q == SubSeq(p, a, b)
<1>3. /\ q \in Seq(S) /\ Len(q) = IF a <= b THEN b - a + 1 ELSE 0
      /\ \A i \in 1..(b - a + 1) : q[i] = p[a + i - 1]
  BY <1>1, <1>2, SubSeqProperties
<1> HIDE DEF q
<1>4. ASSUME NEW i \in 1..Len(q)
      PROVE  a + i - 1 \in 1..Len(p) /\ i \in 1..(b - a + 1)
  BY <1>3
<1> QED
  BY <1>3, <1>4 DEF q

LEMMA RowRepliesSeq ==
  ASSUME NEW p \in Seq(Piece)
  PROVE  /\ RowReplies(p) \in Seq(Reply)
         /\ Len(RowReplies(p)) = Len(p) \div 2 /\ Len(p) \div 2 \in Nat
         /\ \A j \in 1..(Len(p) \div 2) : /\ 2 * j \in 1..Len(p)
                                          /\ RowReplies(p)[j] = p[2 * j].reply
<1> DEFINE n == Len(p) \div 2
<1>1. n \in Nat /\ 2 * n <= Len(p) /\ Len(p) \in Nat
  OBVIOUS
<1> HIDE DEF n
<1>2. ASSUME NEW j \in 1..n PROVE 2 * j \in 1..Len(p)
  BY <1>1
<1>3. \A x \in Piece : x.reply \in Reply
  BY DEF Piece
<1>4. \A j \in 1..n : p[2 * j].reply \in Reply
  BY <1>2, <1>3
<1>5. RowReplies(p) = [j \in 1..n |-> p[2 * j].reply]
  BY DEF RowReplies, n
<1>6. RowReplies(p) \in Seq(Reply) /\ Len(RowReplies(p)) = n
  BY <1>1, <1>4, <1>5
<1> QED
  BY <1>1, <1>2, <1>5, <1>6 DEF n

LEMMA RowPrefix ==
  ASSUME NEW s, NEW p, Row(s, p), NEW k \in 0..Len(p)
  PROVE  Row(s, SubSeq(p, 1, k))
<1> DEFINE q == SubSeq(p, 1, k)
<1>1. p \in Seq(Piece) /\ Len(p) \in Nat
  BY DEF Row
<1>2. q \in Seq(Piece) /\ Len(q) = k /\ Len(q) <= Len(p)
      /\ \A i \in 1..Len(q) : i \in 1..Len(p) /\ q[i] = p[i]
  BY <1>1, Slice
<1> HIDE DEF q
<1>3. ASSUME NEW m \in Nat, 2 * m + 1 <= Len(q)
      PROVE  q[2 * m + 1].part = "cookie"
  <2>1. 2 * m + 1 \in 1..Len(q) /\ 2 * m + 1 <= Len(p)
    BY <1>1, <1>2, <1>3
  <2> QED
    BY <1>2, <2>1 DEF Row
<1>4. ASSUME NEW m \in Nat \ {0}, 2 * m <= Len(q)
      PROVE  q[2 * m].part = "sexp" /\ q[2 * m].reply.kind # "quiting"
  <2>1. 2 * m \in 1..Len(q) /\ 2 * m <= Len(p)
    BY <1>1, <1>2, <1>4
  <2> QED
    BY <1>2, <2>1 DEF Row
<1> QED
  BY <1>2, <1>3, <1>4 DEF Row, q

RepliesJoin(p, q) == RowReplies(p \o q) = RowReplies(p) \o RowReplies(q)

LEMMA RowConcat ==
  ASSUME NEW s, NEW p, NEW q, Row(s, p), Whole(p), Row(s, q)
  PROVE  /\ Row(s, p \o q)
         /\ RepliesJoin(p, q)
         /\ Whole(q) => Whole(p \o q)
<1> DEFINE r == p \o q
<1>1. p \in Seq(Piece) /\ Len(p) \in Nat /\ q \in Seq(Piece) /\ Len(q) \in Nat
  BY DEF Row
<1>2. PICK l \in Nat : Len(p) = 2 * l
  BY DEF Whole
<1>3. r \in Seq(Piece) /\ Len(r) = Len(p) + Len(q)
      /\ \A i \in 1..Len(r) : r[i] = IF i <= Len(p) THEN p[i] ELSE q[i - Len(p)]
  BY <1>1, ConcatProperties
<1> HIDE DEF r
<1>4. ASSUME NEW i \in 1..Len(r) PROVE r[i].s = s
  <2>1. IF i <= Len(p) THEN i \in 1..Len(p) ELSE i - Len(p) \in 1..Len(q)
    BY <1>1, <1>3
  <2> QED
    BY <1>3, <2>1 DEF Row
<1>5. ASSUME NEW m \in Nat, 2 * m + 1 <= Len(r)
      PROVE  r[2 * m + 1].part = "cookie"
  <2>1. 2 * m + 1 \in 1..Len(r)
    BY <1>1, <1>3, <1>5
  <2>2. CASE 2 * m + 1 <= Len(p)
    BY <1>3, <2>1, <2>2 DEF Row
  <2>3. CASE ~(2 * m + 1 <= Len(p))
    <3>1. /\ m - l \in Nat /\ 2 * (m - l) + 1 <= Len(q)
          /\ 2 * m + 1 - Len(p) = 2 * (m - l) + 1
      BY <1>1, <1>2, <1>3, <1>5, <2>3
    <3>2. q[2 * (m - l) + 1].part = "cookie"
      BY <3>1 DEF Row
    <3> QED
      BY <1>3, <2>1, <2>3, <3>1, <3>2
  <2> QED
    BY <2>2, <2>3
<1>6. ASSUME NEW m \in Nat \ {0}, 2 * m <= Len(r)
      PROVE  r[2 * m].part = "sexp" /\ r[2 * m].reply.kind # "quiting"
  <2>1. 2 * m \in 1..Len(r)
    BY <1>1, <1>3, <1>6
  <2>2. CASE 2 * m <= Len(p)
    BY <1>3, <2>1, <2>2 DEF Row
  <2>3. CASE ~(2 * m <= Len(p))
    <3>1. /\ m - l \in Nat \ {0} /\ 2 * (m - l) <= Len(q)
          /\ 2 * m - Len(p) = 2 * (m - l)
      BY <1>1, <1>2, <1>3, <1>6, <2>3
    <3>2. q[2 * (m - l)].part = "sexp" /\ q[2 * (m - l)].reply.kind # "quiting"
      BY <3>1 DEF Row
    <3> QED
      BY <1>3, <2>1, <2>3, <3>1, <3>2
  <2> QED
    BY <2>2, <2>3
<1>7. Row(s, r)
  BY <1>3, <1>4, <1>5, <1>6 DEF Row
<1>8. RowReplies(r) = RowReplies(p) \o RowReplies(q)
  <2> DEFINE a == RowReplies(p)
             b == RowReplies(q)
             c == RowReplies(r)
             n == Len(q) \div 2
  <2>1. n \in Nat /\ Len(p) \div 2 = l /\ Len(r) \div 2 = l + n
    BY <1>1, <1>2, <1>3
  <2>2. /\ a \in Seq(Reply) /\ Len(a) = l
        /\ \A j \in 1..l : 2 * j \in 1..Len(p) /\ a[j] = p[2 * j].reply
    BY <1>1, <2>1, RowRepliesSeq
  <2>3. /\ b \in Seq(Reply) /\ Len(b) = n
        /\ \A j \in 1..n : 2 * j \in 1..Len(q) /\ b[j] = q[2 * j].reply
    BY <1>1, RowRepliesSeq
  <2>4. /\ c \in Seq(Reply) /\ Len(c) = l + n
        /\ \A j \in 1..(l + n) : 2 * j \in 1..Len(r) /\ c[j] = r[2 * j].reply
    BY <1>3, <2>1, RowRepliesSeq
  <2> HIDE DEF a, b, c, n
  <2>5. /\ a \o b \in Seq(Reply) /\ Len(a \o b) = l + n
        /\ \A j \in 1..(l + n) : (a \o b)[j] = IF j <= l THEN a[j] ELSE b[j - l]
    BY <2>2, <2>3, ConcatProperties
  <2>6. ASSUME NEW j \in 1..(l + n) PROVE c[j] = (a \o b)[j]
    <3>1. CASE j <= l
      <4>1. j \in 1..l /\ 2 * j <= Len(p)
        BY <1>2, <2>1, <3>1
      <4> QED
        BY <1>3, <2>2, <2>4, <2>5, <3>1, <4>1
    <3>2. CASE ~(j <= l)
      <4>1. j - l \in 1..n /\ ~(2 * j <= Len(p)) /\ 2 * j - Len(p) = 2 * (j - l)
        BY <1>2, <2>1, <3>2
      <4> QED
        BY <1>3, <2>3, <2>4, <2>5, <3>2, <4>1
    <3> QED
      BY <3>1, <3>2
  <2>7. c = a \o b
    BY <2>1, <2>4, <2>5, <2>6, SeqEqual
  <2> QED
    BY <2>7 DEF a, b, c
<1>9. Whole(q) => Whole(r)
  <2> SUFFICES ASSUME NEW k \in Nat, Len(q) = 2 * k PROVE \E m \in Nat : Len(r) = 2 * m
    BY DEF Whole
  <2>1. l + k \in Nat /\ Len(r) = 2 * (l + k)
    BY <1>2, <1>3
  <2> QED
    BY <2>1
<1>10. RepliesJoin(p, q)
  BY <1>8 DEF r, RepliesJoin
<1> QED
  BY <1>7, <1>9, <1>10 DEF r

LEMMA RowRest ==
  ASSUME NEW s, NEW p, Row(s, p), Len(p) >= 2
  PROVE  LET rest == SubSeq(p, 3, Len(p))
         IN  /\ Row(s, rest)
             /\ Whole(p) => Whole(rest)
             /\ RowReplies(p) # <<>>
             /\ Head(RowReplies(p)) = p[2].reply
             /\ Tail(RowReplies(p)) = RowReplies(rest)
<1> DEFINE q == SubSeq(p, 3, Len(p))
<1>1. p \in Seq(Piece) /\ Len(p) \in Nat
  BY DEF Row
<1>2. /\ q \in Seq(Piece) /\ Len(q) = Len(p) - 2
      /\ \A i \in 1..Len(q) : i + 2 \in 1..Len(p) /\ q[i] = p[i + 2]
  <2>1. /\ q \in Seq(Piece) /\ Len(q) = IF 3 <= Len(p) THEN Len(p) - 3 + 1 ELSE 0
        /\ \A i \in 1..Len(q) : 3 + i - 1 \in 1..Len(p) /\ q[i] = p[3 + i - 1]
    BY <1>1, Slice
  <2> HIDE DEF q
  <2>2. Len(q) = Len(p) - 2
    <3> DEFINE n == Len(p)
    <3>1. n \in Nat /\ n >= 2 /\ Len(q) = IF 3 <= n THEN n - 3 + 1 ELSE 0
      BY <1>1, <2>1
    <3> HIDE DEF n
    <3>2. Len(q) = n - 2
      BY <3>1
    <3> QED
      BY <3>2 DEF n
  <2>3. ASSUME NEW i \in 1..Len(q) PROVE 3 + i - 1 = i + 2
    BY <1>1, <2>2
  <2> QED
    BY <2>1, <2>2, <2>3
<1> HIDE DEF q
<1>3. ASSUME NEW m \in Nat, 2 * m + 1 <= Len(q)
      PROVE  q[2 * m + 1].part = "cookie"
  <2>1. /\ 2 * m + 1 \in 1..Len(q) /\ 2 * m + 1 + 2 = 2 * (m + 1) + 1
        /\ m + 1 \in Nat /\ 2 * (m + 1) + 1 <= Len(p)
    BY <1>1, <1>2, <1>3
  <2>2. p[2 * (m + 1) + 1].part = "cookie"
    BY <2>1 DEF Row
  <2> QED
    BY <1>2, <2>1, <2>2
<1>4. ASSUME NEW m \in Nat \ {0}, 2 * m <= Len(q)
      PROVE  q[2 * m].part = "sexp" /\ q[2 * m].reply.kind # "quiting"
  <2>1. /\ 2 * m \in 1..Len(q) /\ 2 * m + 2 = 2 * (m + 1)
        /\ m + 1 \in Nat \ {0} /\ 2 * (m + 1) <= Len(p)
    BY <1>1, <1>2, <1>4
  <2>2. p[2 * (m + 1)].part = "sexp" /\ p[2 * (m + 1)].reply.kind # "quiting"
    BY <2>1 DEF Row
  <2> QED
    BY <1>2, <2>1, <2>2
<1>5. \A i \in 1..Len(q) : q[i].s = s
  BY <1>2 DEF Row
<1>6. Row(s, q)
  BY <1>2, <1>3, <1>4, <1>5 DEF Row
<1>7. Whole(p) => Whole(q)
  <2> SUFFICES ASSUME NEW k \in Nat, Len(p) = 2 * k PROVE \E m \in Nat : Len(q) = 2 * m
    BY DEF Whole
  <2>1. k - 1 \in Nat /\ Len(q) = 2 * (k - 1)
    BY <1>2
  <2> QED
    BY <2>1
<1>8. /\ RowReplies(p) # <<>> /\ Head(RowReplies(p)) = p[2].reply
      /\ Tail(RowReplies(p)) = RowReplies(q)
  <2> DEFINE a == RowReplies(p)
             b == RowReplies(q)
             n == Len(q) \div 2
  <2>1. n \in Nat /\ Len(p) \div 2 = n + 1
    BY <1>1, <1>2
  <2>2. /\ a \in Seq(Reply) /\ Len(a) = n + 1
        /\ \A j \in 1..(n + 1) : 2 * j \in 1..Len(p) /\ a[j] = p[2 * j].reply
    BY <1>1, <2>1, RowRepliesSeq
  <2>3. /\ b \in Seq(Reply) /\ Len(b) = n
        /\ \A j \in 1..n : 2 * j \in 1..Len(q) /\ b[j] = q[2 * j].reply
    BY <1>2, RowRepliesSeq
  <2> HIDE DEF a, b, n
  <2>4. a # <<>> /\ Head(a) = a[1] /\ 1 \in 1..(n + 1) /\ 2 * 1 = 2
    BY <2>1, <2>2
  <2>5. /\ Tail(a) \in Seq(Reply) /\ Len(Tail(a)) = n
        /\ \A j \in 1..n : Tail(a)[j] = a[j + 1]
    BY <2>1, <2>2, <2>4, HeadTailProperties
  <2>6. ASSUME NEW j \in 1..n PROVE Tail(a)[j] = b[j]
    <3>1. j + 1 \in 1..(n + 1) /\ 2 * (j + 1) = 2 * j + 2
      BY <2>1
    <3> QED
      BY <1>2, <2>2, <2>3, <2>5, <3>1
  <2>7. Tail(a) = b
    BY <2>1, <2>3, <2>5, <2>6, SeqEqual
  <2>8. a[1] = p[2].reply
    BY <2>2, <2>4
  <2> QED
    BY <2>4, <2>7, <2>8 DEF a, b
<1> QED
  BY <1>6, <1>7, <1>8 DEF q

-----------------------------------------------------------------------------
(* The pieces of an answer.                                                *)

LEMMA RepliesTyped ==
  ASSUME NEW n \in Nat, NEW kinds \in Seq(Kinds)
  PROVE  /\ Replies(n, kinds) \in Seq(Reply)
         /\ Len(Replies(n, kinds)) = Len(kinds)
         /\ \A j \in 1..Len(kinds) : /\ Replies(n, kinds)[j].n = n
                                     /\ Replies(n, kinds)[j].kind = kinds[j]
<1> DEFINE r == Replies(n, kinds)
           l == Len(kinds)
<1>1. l \in Nat /\ DOMAIN kinds = 1..l /\ \A j \in 1..l : kinds[j] \in Kinds
  OBVIOUS
<1>2. r = [i \in 1..l |-> [n |-> n, i |-> i, kind |-> kinds[i]]]
  BY <1>1 DEF Replies
<1> HIDE DEF r, l
<1>3. \A i \in 1..l : [n |-> n, i |-> i, kind |-> kinds[i]] \in Reply
  BY <1>1 DEF Reply
<1>4. r \in Seq(Reply) /\ Len(r) = l
  BY <1>1, <1>2, <1>3
<1> QED
  BY <1>2, <1>4 DEF r, l

LEMMA PiecesTyped ==
  ASSUME NEW s \in Servers, NEW replies \in Seq(Reply)
  PROVE  LET p == Pieces(s, replies)
         IN  /\ p \in Seq(Piece) /\ Len(p) = 2 * Len(replies)
             /\ \A i \in 1..Len(p) : p[i].s = s
             /\ \A j \in 1..Len(replies) :
                  /\ 2 * j - 1 \in 1..Len(p) /\ 2 * j \in 1..Len(p)
                  /\ p[2 * j - 1].part = "cookie" /\ p[2 * j].part = "sexp"
                  /\ p[2 * j - 1].reply = replies[j] /\ p[2 * j].reply = replies[j]
             /\ \A i \in 1..Len(p) : \E j \in 1..Len(replies) :
                  i = 2 * j - 1 \/ i = 2 * j
<1> DEFINE l == Len(replies)
           p == Pieces(s, replies)
<1>1. l \in Nat /\ \A j \in 1..l : replies[j] \in Reply
  OBVIOUS
<1>2. p = [i \in 1..2 * l |->
             [part |-> IF i % 2 = 1 THEN "cookie" ELSE "sexp",
              s |-> s, reply |-> replies[(i + 1) \div 2]]]
  BY DEF Pieces
<1> HIDE DEF p, l
<1>3. ASSUME NEW i \in 1..2 * l
      PROVE  /\ (i + 1) \div 2 \in 1..l
             /\ i = 2 * ((i + 1) \div 2) - 1 \/ i = 2 * ((i + 1) \div 2)
  BY <1>1
<1>4. \A i \in 1..2 * l : [part |-> IF i % 2 = 1 THEN "cookie" ELSE "sexp",
                           s |-> s, reply |-> replies[(i + 1) \div 2]] \in Piece
  BY <1>1, <1>3 DEF Piece
<1>5. 2 * l \in Nat
  BY <1>1
<1>6. p \in Seq(Piece) /\ Len(p) = 2 * l
  BY <1>2, <1>4, <1>5
<1>7. \A i \in 1..2 * l : p[i].s = s
  BY <1>2
<1>8. ASSUME NEW j \in 1..l
      PROVE  /\ 2 * j - 1 \in 1..2 * l /\ 2 * j \in 1..2 * l
             /\ p[2 * j - 1].part = "cookie" /\ p[2 * j].part = "sexp"
             /\ p[2 * j - 1].reply = replies[j] /\ p[2 * j].reply = replies[j]
  <2>1. 2 * j - 1 \in 1..2 * l /\ 2 * j \in 1..2 * l
    BY <1>1
  <2>2. /\ (2 * j - 1) % 2 = 1 /\ (2 * j) % 2 = 0
        /\ (2 * j - 1 + 1) \div 2 = j /\ (2 * j + 1) \div 2 = j
    BY <1>1
  <2> QED
    BY <1>2, <2>1, <2>2
<1>9. \A i \in 1..2 * l : \E j \in 1..l : i = 2 * j - 1 \/ i = 2 * j
  BY <1>3
<1> QED
  BY <1>6, <1>7, <1>8, <1>9 DEF p, l

LEMMA PiecesRow ==
  ASSUME NEW s \in Servers, NEW replies \in Seq(Reply),
         \A j \in 1..Len(replies) : replies[j].kind # "quiting"
  PROVE  LET p == Pieces(s, replies)
         IN  Row(s, p) /\ Whole(p) /\ RowReplies(p) = replies
<1> DEFINE l == Len(replies)
           p == Pieces(s, replies)
<1>1. l \in Nat
  OBVIOUS
<1>2. /\ p \in Seq(Piece) /\ Len(p) = 2 * l
      /\ \A i \in 1..Len(p) : p[i].s = s
      /\ \A j \in 1..l :
           /\ p[2 * j - 1].part = "cookie" /\ p[2 * j].part = "sexp"
           /\ p[2 * j].reply = replies[j]
  BY PiecesTyped
<1>3. Len(p) \div 2 = l
  BY <1>1, <1>2
<1> HIDE DEF p
<1>4. ASSUME NEW m \in Nat, 2 * m + 1 <= Len(p)
      PROVE  p[2 * m + 1].part = "cookie"
  <2>1. m + 1 \in 1..l /\ 2 * (m + 1) - 1 = 2 * m + 1
    BY <1>1, <1>2, <1>4
  <2>2. p[2 * (m + 1) - 1].part = "cookie"
    BY <1>2, <2>1
  <2> QED
    BY <2>1, <2>2
<1>5. ASSUME NEW m \in Nat \ {0}, 2 * m <= Len(p)
      PROVE  p[2 * m].part = "sexp" /\ p[2 * m].reply.kind # "quiting"
  <2>1. m \in 1..l
    BY <1>1, <1>2, <1>5
  <2> QED
    BY <1>2, <2>1
<1>6. Row(s, p)
  BY <1>2, <1>4, <1>5 DEF Row
<1>7. Whole(p)
  BY <1>1, <1>2 DEF Whole
<1>8. RowReplies(p) = replies
  <2>1. /\ RowReplies(p) \in Seq(Reply) /\ Len(RowReplies(p)) = l
        /\ \A j \in 1..l : RowReplies(p)[j] = p[2 * j].reply
    BY <1>2, <1>3, RowRepliesSeq
  <2>2. \A j \in 1..l : RowReplies(p)[j] = replies[j]
    BY <1>2, <2>1
  <2> QED
    BY <2>1, <2>2, SeqEqual
<1> QED
  BY <1>6, <1>7, <1>8 DEF p

\* What is left of the replies when only k of their pieces were written.
LEMMA RowRepliesPrefix ==
  ASSUME NEW p \in Seq(Piece), NEW k \in 0..Len(p)
  PROVE  RowReplies(SubSeq(p, 1, k)) = SubSeq(RowReplies(p), 1, k \div 2)
<1> DEFINE q == SubSeq(p, 1, k)
           a == RowReplies(q)
           b == RowReplies(p)
           n == k \div 2
           c == SubSeq(b, 1, n)
<1>1. Len(p) \in Nat /\ k \in Nat /\ n \in Nat /\ n <= Len(p) \div 2
      /\ Len(p) \div 2 \in Nat
  OBVIOUS
<1>2. q \in Seq(Piece) /\ Len(q) = k /\ \A i \in 1..k : q[i] = p[i]
  BY <1>1, Slice
<1>3. /\ a \in Seq(Reply) /\ Len(a) = n
      /\ \A j \in 1..n : 2 * j \in 1..k /\ a[j] = q[2 * j].reply
  BY <1>2, RowRepliesSeq
<1>4. /\ b \in Seq(Reply) /\ Len(b) = Len(p) \div 2
      /\ \A j \in 1..(Len(p) \div 2) : b[j] = p[2 * j].reply
  BY RowRepliesSeq
<1> HIDE DEF q, a, b, n
<1>5. c \in Seq(Reply) /\ Len(c) = n /\ \A j \in 1..n : c[j] = b[j]
  BY <1>1, <1>4, Slice
<1> HIDE DEF c
<1>6. ASSUME NEW j \in 1..n PROVE a[j] = c[j]
  <2>1. j \in 1..(Len(p) \div 2)
    BY <1>1
  <2> QED
    BY <1>2, <1>3, <1>4, <1>5, <2>1
<1> QED
  BY <1>3, <1>5, <1>6, SeqEqual DEF q, a, b, c, n

-----------------------------------------------------------------------------
(* Headers and what announces them: no header is handled but after the     *)
(* erase that begins its answer.                                           *)

IsHeader(x) == x.part = "sexp" /\ x.reply.kind = "header"
IsErase(x) == x.part = "sexp" /\ x.reply.kind = "erase"

\* The headers of p from e up to i are of the command of p[i].
SameFrom(p, e, i) == \A k \in e..i : IsHeader(p[k]) => p[k].reply.n = p[i].reply.n

BegunAt(p, i) == \E e \in 1..(i - 1) : IsErase(p[e]) /\ SameFrom(p, e, i)
Begun(p) == \A i \in 1..Len(p) : IsHeader(p[i]) => BegunAt(p, i)

\* Of s the headers sh are shown and p is still to be handled.
Announced(s, sh, p) ==
  \A i \in 1..Len(p) : IsHeader(p[i]) =>
    BegunAt(p, i) \/ (sh \subseteq {<<s, p[i].reply.n>>} /\ SameFrom(p, 1, i))

LEMMA AnnouncedPrefix ==
  ASSUME NEW s, NEW sh, NEW T, NEW p \in Seq(T), Announced(s, sh, p),
         NEW q \in Seq(T), Len(q) <= Len(p), \A i \in 1..Len(q) : q[i] = p[i]
  PROVE  Announced(s, sh, q)
<1> SUFFICES ASSUME NEW i \in 1..Len(q), IsHeader(q[i])
             PROVE  \/ BegunAt(q, i)
                    \/ sh \subseteq {<<s, q[i].reply.n>>} /\ SameFrom(q, 1, i)
  BY DEF Announced
<1>1. i \in 1..Len(p) /\ q[i] = p[i] /\ \A k \in 1..i : q[k] = p[k]
  OBVIOUS
<1>2. ASSUME NEW e \in 1..i PROVE SameFrom(q, e, i) <=> SameFrom(p, e, i)
  <2>1. \A k \in e..i : k \in 1..i
    OBVIOUS
  <2> QED
    BY <1>1, <2>1 DEF SameFrom
<1>3. CASE BegunAt(p, i)
  <2>1. PICK e \in 1..(i - 1) : IsErase(p[e]) /\ SameFrom(p, e, i)
    BY <1>3 DEF BegunAt
  <2>2. e \in 1..i
    BY <1>1
  <2> QED
    BY <1>1, <1>2, <2>1, <2>2 DEF BegunAt
<1>4. CASE sh \subseteq {<<s, p[i].reply.n>>} /\ SameFrom(p, 1, i)
  BY <1>1, <1>2, <1>4
<1> QED
  BY <1>1, <1>3, <1>4 DEF Announced

LEMMA AnnouncedConcat ==
  ASSUME NEW s, NEW sh, NEW p \in Seq(Piece), Announced(s, sh, p),
         NEW q \in Seq(Piece), Begun(q)
  PROVE  Announced(s, sh, p \o q)
<1> DEFINE r == p \o q
           l == Len(p)
<1>1. /\ r \in Seq(Piece) /\ Len(r) = l + Len(q) /\ l \in Nat /\ Len(q) \in Nat
      /\ \A i \in 1..Len(r) : r[i] = IF i <= l THEN p[i] ELSE q[i - l]
  BY ConcatProperties
<1> HIDE DEF r, l
<1> SUFFICES ASSUME NEW i \in 1..Len(r), IsHeader(r[i])
             PROVE  \/ BegunAt(r, i)
                    \/ sh \subseteq {<<s, r[i].reply.n>>} /\ SameFrom(r, 1, i)
  BY DEF Announced, r
<1>2. CASE i <= l
  <2>1. i \in 1..l /\ r[i] = p[i] /\ \A k \in 1..i : r[k] = p[k]
    BY <1>1, <1>2
  <2>2. ASSUME NEW e \in 1..i PROVE SameFrom(r, e, i) <=> SameFrom(p, e, i)
    <3>1. \A k \in e..i : k \in 1..i
      BY <1>1
    <3> QED
      BY <2>1, <3>1 DEF SameFrom
  <2>3. CASE BegunAt(p, i)
    <3>1. PICK e \in 1..(i - 1) : IsErase(p[e]) /\ SameFrom(p, e, i)
      BY <2>3 DEF BegunAt
    <3>2. e \in 1..i
      BY <1>1
    <3> QED
      BY <2>1, <2>2, <3>1, <3>2 DEF BegunAt
  <2>4. CASE sh \subseteq {<<s, p[i].reply.n>>} /\ SameFrom(p, 1, i)
    <3>1. 1 \in 1..i
      BY <1>1
    <3> QED
      BY <2>1, <2>2, <2>4, <3>1
  <2> QED
    BY <2>1, <2>3, <2>4 DEF Announced, l
<1>3. CASE ~(i <= l)
  <2> DEFINE j == i - l
  <2>1. j \in 1..Len(q) /\ i = j + l /\ r[i] = q[j]
    <3>1. i \in Nat /\ i <= l + Len(q)
      BY <1>1
    <3>2. i - l \in 1..Len(q) /\ i = (i - l) + l
      BY <1>1, <1>3, <3>1
    <3>3. r[i] = q[i - l]
      BY <1>1, <1>3
    <3> QED
      BY <3>2, <3>3
  <2>2. BegunAt(q, j)
    BY <2>1 DEF Begun
  <2>3. PICK e \in 1..(j - 1) : IsErase(q[e]) /\ SameFrom(q, e, j)
    BY <2>2 DEF BegunAt
  <2> HIDE DEF j
  <2>4. e + l \in 1..(i - 1) /\ e + l \in 1..Len(r) /\ ~(e + l <= l)
        /\ e + l - l = e
    BY <1>1, <2>1
  <2>5. r[e + l] = q[e]
    BY <1>1, <2>4
  <2>6. SameFrom(r, e + l, i)
    <3> SUFFICES ASSUME NEW k \in (e + l)..i, IsHeader(r[k])
                 PROVE  r[k].reply.n = r[i].reply.n
      BY DEF SameFrom
    <3>1. k - l \in e..j /\ k \in 1..Len(r) /\ ~(k <= l)
      BY <1>1, <2>1, <2>4
    <3>2. r[k] = q[k - l]
      BY <1>1, <3>1
    <3> QED
      BY <2>1, <2>3, <3>1, <3>2 DEF SameFrom
  <2> QED
    BY <2>3, <2>4, <2>5, <2>6 DEF BegunAt
<1> QED
  BY <1>2, <1>3

\* Handling the first reply of a row.
LEMMA AnnouncedRest ==
  ASSUME NEW s, NEW sh, NEW p, Row(s, p), Len(p) >= 2, Announced(s, sh, p)
  PROVE  LET rest == SubSeq(p, 3, Len(p))
             x    == p[2]
         IN  /\ IsErase(x) => Announced(s, {}, rest)
             /\ IsHeader(x) =>
                  /\ sh \subseteq {<<s, x.reply.n>>}
                  /\ Announced(s, {<<s, x.reply.n>>}, rest)
             /\ ~IsErase(x) /\ ~IsHeader(x) => Announced(s, sh, rest)
<1> DEFINE q == SubSeq(p, 3, Len(p))
           x == p[2]
<1>1. p \in Seq(Piece) /\ Len(p) \in Nat
  BY DEF Row
<1>2. Len(q) \in Nat /\ \A i \in 1..Len(q) : i + 2 \in 1..Len(p) /\ q[i] = p[i + 2]
  <2>1. /\ q \in Seq(Piece)
        /\ \A i \in 1..Len(q) : 3 + i - 1 \in 1..Len(p) /\ q[i] = p[3 + i - 1]
    BY <1>1, Slice
  <2> HIDE DEF q
  <2>2. Len(q) \in Nat
    BY <2>1
  <2>3. ASSUME NEW i \in 1..Len(q) PROVE 3 + i - 1 = i + 2
    BY <2>2
  <2> QED
    BY <2>1, <2>2, <2>3
<1>3. 1 \in 1..Len(p) /\ 2 \in 1..Len(p)
  BY <1>1
<1>4. ~IsErase(p[1]) /\ ~IsHeader(p[1])
  <2>1. 2 * 0 + 1 = 1 /\ 0 \in Nat /\ 1 <= Len(p)
    BY <1>1
  <2>2. p[1].part = "cookie"
    BY <2>1 DEF Row
  <2> QED
    BY <2>2 DEF IsErase, IsHeader
<1> HIDE DEF q, x
<1>5. ASSUME NEW i \in 1..Len(q), IsHeader(q[i]), NEW e \in 3..(i + 2),
             SameFrom(p, e, i + 2)
      PROVE  SameFrom(q, e - 2, i)
  <2> SUFFICES ASSUME NEW k \in (e - 2)..i, IsHeader(q[k])
               PROVE  q[k].reply.n = q[i].reply.n
    BY DEF SameFrom
  <2>1. k \in 1..Len(q) /\ k + 2 \in e..(i + 2)
    BY <1>2
  <2> QED
    BY <1>2, <1>5, <2>1 DEF SameFrom
<1>6. ASSUME NEW i \in 1..Len(q), IsHeader(q[i])
      PROVE  \/ BegunAt(q, i)
             \/ IsErase(x) /\ SameFrom(q, 1, i)
             \/ /\ sh \subseteq {<<s, q[i].reply.n>>} /\ SameFrom(q, 1, i)
                /\ IsHeader(x) => x.reply.n = q[i].reply.n
  <2>1. i + 2 \in 1..Len(p) /\ q[i] = p[i + 2] /\ i \in Nat \ {0}
    BY <1>2
  <2>2. CASE BegunAt(p, i + 2)
    <3>1. PICK e \in 1..(i + 2 - 1) : IsErase(p[e]) /\ SameFrom(p, e, i + 2)
      BY <2>2 DEF BegunAt
    <3>2. e # 1
      BY <1>4, <3>1
    <3>3. CASE e = 2
      <4>1. SameFrom(p, 3, i + 2)
        <5>1. \A k \in 3..(i + 2) : k \in e..(i + 2)
          BY <2>1, <3>3
        <5> QED
          BY <3>1, <5>1 DEF SameFrom
      <4>2. 3 \in 3..(i + 2) /\ 3 - 2 = 1
        BY <2>1
      <4>3. SameFrom(q, 3 - 2, i)
        BY <1>5, <1>6, <4>1, <4>2
      <4> QED
        BY <3>1, <3>3, <4>2, <4>3 DEF x
    <3>4. CASE e # 2
      <4>1. e \in 3..(i + 2) /\ e - 2 \in 1..(i - 1) /\ e - 2 \in 1..Len(q)
            /\ e - 2 + 2 = e
        BY <1>2, <2>1, <3>2, <3>4
      <4>2. q[e - 2] = p[e]
        BY <1>2, <4>1
      <4>3. SameFrom(q, e - 2, i)
        BY <1>5, <1>6, <3>1, <4>1
      <4> QED
        BY <3>1, <4>1, <4>2, <4>3 DEF BegunAt
    <3> QED
      BY <3>3, <3>4
  <2>3. CASE sh \subseteq {<<s, p[i + 2].reply.n>>} /\ SameFrom(p, 1, i + 2)
    <3>1. SameFrom(p, 3, i + 2)
      <4>1. \A k \in 3..(i + 2) : k \in 1..(i + 2)
        BY <2>1
      <4> QED
        BY <2>3, <4>1 DEF SameFrom
    <3>2. 3 \in 3..(i + 2) /\ 3 - 2 = 1 /\ 2 \in 1..(i + 2)
      BY <2>1
    <3>3. SameFrom(q, 3 - 2, i)
      BY <1>5, <1>6, <3>1, <3>2
    <3>4. IsHeader(x) => x.reply.n = q[i].reply.n
      BY <2>1, <2>3, <3>2 DEF SameFrom, x
    <3> QED
      BY <2>1, <2>3, <3>2, <3>3, <3>4
  <2> QED
    BY <1>6, <2>1, <2>2, <2>3 DEF Announced
<1>7. ASSUME IsHeader(x) PROVE sh \subseteq {<<s, x.reply.n>>}
  <2>1. ~BegunAt(p, 2)
    <3>1. \A e \in 1..(2 - 1) : e = 1
      OBVIOUS
    <3> QED
      BY <1>4, <3>1 DEF BegunAt
  <2> QED
    BY <1>3, <1>7, <2>1 DEF Announced, x
<1>8. ~(IsErase(x) /\ IsHeader(x))
  BY DEF IsErase, IsHeader
<1> QED
  BY <1>6, <1>7, <1>8 DEF Announced, q, x

\* What a handler that prints its replies in order writes, or begins to.
LEMMA AnswerBegun ==
  ASSUME NEW s \in Servers, NEW n \in Nat, NEW r, Ordered(r),
         NEW k \in 0..Len(Pieces(s, Replies(n, r.replies)))
  PROVE  Begun(SubSeq(Pieces(s, Replies(n, r.replies)), 1, k))
<1> DEFINE kinds == r.replies
           replies == Replies(n, kinds)
           l == Len(kinds)
           q == Pieces(s, replies)
           p == SubSeq(q, 1, k)
<1>1. kinds \in Seq(Kinds) /\ l \in Nat /\ DOMAIN kinds = 1..l
  BY DEF Ordered
<1>2. \A j \in 1..l : kinds[j] = "header" => kinds[1] = "erase"
  BY <1>1 DEF Ordered
<1> HIDE DEF kinds
<1>3. /\ replies \in Seq(Reply) /\ Len(replies) = l
      /\ \A j \in 1..l : replies[j].n = n /\ replies[j].kind = kinds[j]
  BY <1>1, RepliesTyped
<1> HIDE DEF replies, l
<1>4. /\ q \in Seq(Piece) /\ Len(q) = 2 * l
      /\ \A j \in 1..l :
           /\ q[2 * j - 1].part = "cookie" /\ q[2 * j].part = "sexp"
           /\ q[2 * j].reply = replies[j]
      /\ \A i \in 1..Len(q) : \E j \in 1..l : i = 2 * j - 1 \/ i = 2 * j
  <2>1. l = Len(replies)
    BY <1>3
  <2>2. /\ q \in Seq(Piece) /\ Len(q) = 2 * Len(replies)
        /\ \A j \in 1..Len(replies) :
             /\ q[2 * j - 1].part = "cookie" /\ q[2 * j].part = "sexp"
             /\ q[2 * j].reply = replies[j]
        /\ \A i \in 1..Len(q) : \E j \in 1..Len(replies) :
             i = 2 * j - 1 \/ i = 2 * j
    <3>1. replies \in Seq(Reply)
      BY <1>3
    <3> HIDE DEF q
    <3> QED
      BY <3>1, PiecesTyped DEF q
  <2> QED
    BY <2>1, <2>2
<1>5. k \in 0..Len(q)
  BY DEF kinds, replies
<1> HIDE DEF q
<1>6. Len(p) = k /\ \A i \in 1..k : i \in 1..Len(q) /\ p[i] = q[i]
  BY <1>1, <1>4, <1>5
<1> HIDE DEF p
<1>7. ASSUME NEW i \in 1..k, IsHeader(p[i])
      PROVE  \E j \in 1..l : i = 2 * j /\ kinds[j] = "header" /\ p[i].reply.n = n
  <2>1. PICK j \in 1..l : i = 2 * j - 1 \/ i = 2 * j
    BY <1>4, <1>6
  <2>2. i = 2 * j
    BY <1>4, <1>6, <1>7, <2>1 DEF IsHeader
  <2>3. p[i].reply = replies[j]
    BY <1>4, <1>6, <2>2
  <2> QED
    BY <1>3, <1>7, <2>2, <2>3 DEF IsHeader
<1> SUFFICES ASSUME NEW i \in 1..k, IsHeader(p[i])
             PROVE  BegunAt(p, i)
  BY <1>6 DEF Begun, p, q, replies, kinds
<1>8. PICK j \in 1..l : i = 2 * j /\ kinds[j] = "header" /\ p[i].reply.n = n
  BY <1>7
<1>9. 1 \in 1..l /\ kinds[1] = "erase"
  BY <1>1, <1>2, <1>8
<1>10. j # 1
  BY <1>8, <1>9
<1>11. 2 \in 1..(i - 1) /\ 2 \in 1..k /\ 2 * 1 = 2
  BY <1>1, <1>5, <1>4, <1>8, <1>10
<1>12. q[2 * 1].part = "sexp" /\ q[2 * 1].reply = replies[1]
  BY <1>4, <1>9
<1>13. replies[1].kind = "erase"
  BY <1>3, <1>9
<1>14. IsErase(p[2])
  BY <1>6, <1>11, <1>12, <1>13 DEF IsErase
<1>15. \A m \in 2..i : m \in 1..k
  BY <1>5, <1>4, <1>1
<1>16. SameFrom(p, 2, i)
  BY <1>7, <1>8, <1>15 DEF SameFrom
<1> QED
  BY <1>11, <1>14, <1>16 DEF BegunAt

\* The pieces of an answer, or the first of them, and the replies they bring.
LEMMA Answered ==
  ASSUME NEW s \in Servers, NEW n \in Nat, NEW r, Ordered(r),
         NEW k \in 0..Len(Pieces(s, Replies(n, r.replies)))
  PROVE  LET q == Pieces(s, Replies(n, r.replies))
             p == SubSeq(q, 1, k)
         IN  /\ Row(s, q) /\ Whole(q)
             /\ Row(s, p)
             /\ Begun(p)
             /\ RowReplies(p) = SubSeq(Replies(n, r.replies), 1, k \div 2)
             /\ k \div 2 \in 0..Len(r.replies)
             /\ k < Len(q) => k \div 2 < Len(r.replies)
             /\ Len(q) = 2 * Len(r.replies) /\ Len(r.replies) \in Nat
             /\ Len(Replies(n, r.replies)) = Len(r.replies)
<1> DEFINE replies == Replies(n, r.replies)
           q == Pieces(s, replies)
           p == SubSeq(q, 1, k)
           l == Len(r.replies)
<1>1. /\ r.replies \in Seq(Kinds) /\ l \in Nat
      /\ \A j \in 1..l : r.replies[j] # "quiting"
  BY DEF Ordered
<1>2. /\ replies \in Seq(Reply) /\ Len(replies) = l
      /\ \A j \in 1..l : replies[j].kind # "quiting"
  BY <1>1, RepliesTyped
<1>3. Begun(p)
  BY AnswerBegun
<1> HIDE DEF replies, l
<1>4. Row(s, q) /\ Whole(q) /\ RowReplies(q) = replies
  BY <1>2, PiecesRow
<1>5. q \in Seq(Piece) /\ Len(q) = 2 * l
  BY <1>2, PiecesTyped
<1>6. k \in 0..Len(q)
  BY DEF replies
<1> HIDE DEF q
<1>7. Row(s, p) /\ RowReplies(p) = SubSeq(replies, 1, k \div 2)
  BY <1>4, <1>5, <1>6, RowPrefix, RowRepliesPrefix
<1>8. k \div 2 \in 0..l /\ (k < Len(q) => k \div 2 < l)
  BY <1>1, <1>5, <1>6
<1> QED
  BY <1>1, <1>2, <1>3, <1>4, <1>5, <1>7, <1>8 DEF q, p, l, replies

-----------------------------------------------------------------------------
(* The invariant.                                                          *)

Order == [n : Nat, cmd : Commands \cup {Quit}]

Proc == [st : Known \cup {"none", "buried"}, inp : Seq(Order), out : Seq(Piece),
         term : {"no", "late", "seen"}, safe : BOOLEAN]

Typed ==
  /\ emacs \in {"up", "gone"} /\ cur \in {NoServer} \cup Servers
  /\ buf \in Seq(Piece)
  /\ filtering \in BOOLEAN /\ (filtering => emacs = "up")
  /\ server \in [Servers -> Proc]
  /\ asked \in Seq([cmd : Commands \cup {Quit}, to : Servers])
  /\ heard \in [Servers -> Seq(Reply)]
  /\ faults \in 0..MaxFaults

\* The store is locked.
OneUp == \A s, t \in Servers : server[s].st = "up" /\ server[t].st = "up" => s = t

\* What Emacs reads is of servers it has not seen the end of.
Unread ==
  /\ \A s \in Servers : server[s].st \notin Known => server[s].out = <<>>
  /\ \A s \in Servers : \A i \in 1..Len(server[s].out) : server[s].out[i].s = s
  /\ \A i \in 1..Len(buf) : server[buf[i].s].st \in Known

\* Servers that Emacs may still start are as in the beginning, and once it is
\* gone nothing is promised.
Untouched ==
  \A s \in Servers :
    IF emacs = "gone" THEN ~server[s].safe
    ELSE server[s].st = "none" => server[s] = NotStarted

Unhandled(s) == buf \o server[s].out

Safe(s) == server[s].safe /\ server[s].st \in Known

\* A safe server is alone, and what it wrote is whole, in order and announced.
SafeAlone ==
  \A s \in Servers : Safe(s) =>
    /\ \A t \in Servers : server[t].st \in Known => t = s
    /\ server[s].inp \in Seq([n : Nat, cmd : Commands])
    /\ Row(s, Unhandled(s))
    /\ server[s].st \in Alive => Whole(Unhandled(s))
    /\ Announced(s, shown, Unhandled(s))

OneSearch == \E x : shown \subseteq {x}

ProcInv == Typed /\ OneUp /\ Unread /\ Untouched /\ SafeAlone /\ OneSearch

DStep(s) == [D(s)!Next]_(D(s)!dialog)

\* A server that is not safe any more is promised nothing.
LEMMA Forgotten ==
  ASSUME NEW s \in Servers, ~server'[s].safe
  PROVE  DStep(s)
BY DEF DStep, D!Next, D!Abandon

\* Nothing of s that could be handled.
LEMMA NothingSaid ==
  ASSUME NEW s \in Servers, NEW b \in Seq(Piece), NEW o, o = <<>>,
         \A i \in 1..Len(b) : b[i].s # s
  PROVE  RepliesOf(s, b \o o) = <<>>
<1>1. b \o o = b
  OBVIOUS
<1> QED
  BY <1>1, RepliesOfOthers

LEMMA BuriedSaid ==
  ASSUME Typed, Unread, NEW s \in Servers, server[s].st \notin Known
  PROVE  Said(s) = <<>>
<1>1. \A i \in 1..Len(buf) : buf[i].s # s
  BY DEF Unread
<1>2. server[s].out = <<>>
  BY DEF Unread
<1> QED
  BY <1>1, <1>2, NothingSaid DEF Said, Typed

\* A server that takes no part in a step.
LEMMA Bystander ==
  ASSUME ProcInv, ProcInv', NEW s \in Servers, server'[s] = server[s],
         heard'[s] = heard[s], buf' = buf \/ server[s].st \notin Known
  PROVE  DStep(s)
<1>1. CASE buf' = buf
  <2>1. Said(s)' = Said(s)
    BY <1>1 DEF Said
  <2> QED
    BY <2>1 DEF DStep, D!dialog
<1>2. CASE server[s].st \notin Known
  <2>1. Said(s) = <<>>
    BY <1>2, BuriedSaid DEF ProcInv
  <2>2. /\ \A i \in 1..Len(buf') : buf'[i].s # s
        /\ server'[s].out = <<>>
    BY <1>2 DEF ProcInv, Unread
  <2>3. Said(s)' = <<>>
    BY <2>2, NothingSaid DEF Said, Typed, ProcInv
  <2> QED
    BY <2>1, <2>3 DEF DStep, D!dialog
<1> QED
  BY <1>1, <1>2

-----------------------------------------------------------------------------
(* What a server does.                                                     *)

LEMMA Statuses ==
  /\ Alive \subseteq Known /\ "dead" \in Known /\ "dead" \notin Alive
  /\ "up" \in Alive /\ "none" \notin Known /\ "buried" \notin Known
  /\ "starting" \in Alive
BY DEF Alive, Known

LEMMA OwnerTyped ==
  ASSUME NEW b \in Seq(Piece), NEW i \in 1..Len(b)
  PROVE  b[i] \in Piece /\ b[i].s \in Servers /\ b[i].reply \in Reply
<1>1. b[i] \in Piece
  OBVIOUS
<1> QED
  BY <1>1 DEF Piece

LEMMA ServerKeepsInv ==
  ASSUME ProcInv, UNCHANGED emacsVars, faults' \in 0..MaxFaults,
         NEW s \in Servers, server[s].st \in Alive,
         NEW v \in Proc, server' = [server EXCEPT ![s] = v],
         v.st \in Known, v.safe = server[s].safe,
         v.st = "up" => \A t \in Servers \ {s} : server[t].st # "up",
         \A i \in 1..Len(v.out) : v.out[i].s = s,
         v.safe => /\ v.inp \in Seq([n : Nat, cmd : Commands])
                   /\ Row(s, buf \o v.out)
                   /\ v.st \in Alive => Whole(buf \o v.out)
                   /\ Announced(s, shown, buf \o v.out)
  PROVE  ProcInv'
<1>1. /\ server \in [Servers -> Proc] /\ server'[s] = v
      /\ \A t \in Servers \ {s} : server'[t] = server[t]
  BY DEF ProcInv, Typed
<1>2. \A t \in Servers : server'[t].st \in Known <=> server[t].st \in Known
  BY <1>1, Statuses
<1>3. Typed'
  BY DEF ProcInv, Typed, emacsVars
<1>4. OneUp'
  BY <1>1 DEF ProcInv, OneUp
<1>5. Unread'
  <2>1. \A t \in Servers : server'[t].st \notin Known => server'[t].out = <<>>
    BY <1>1 DEF ProcInv, Unread
  <2>2. \A t \in Servers : \A i \in 1..Len(server'[t].out) : server'[t].out[i].s = t
    BY <1>1 DEF ProcInv, Unread
  <2>3. \A i \in 1..Len(buf') : server'[buf'[i].s].st \in Known
    <3> SUFFICES ASSUME NEW i \in 1..Len(buf) PROVE server'[buf[i].s].st \in Known
      BY DEF emacsVars
    <3>1. buf[i].s \in Servers /\ server[buf[i].s].st \in Known
      BY OwnerTyped DEF ProcInv, Unread, Typed
    <3> QED
      BY <1>2, <3>1
  <2> QED
    BY <2>1, <2>2, <2>3 DEF Unread
<1>6. Untouched'
  <2>1. server[s].st # "none" /\ v.st # "none"
    BY Statuses
  <2> QED
    BY <1>1, <2>1 DEF ProcInv, Untouched, emacsVars
<1>7. SafeAlone'
  <2> SUFFICES ASSUME NEW t \in Servers, Safe(t)'
               PROVE  /\ \A o \in Servers : server'[o].st \in Known => o = t
                      /\ server'[t].inp \in Seq([n : Nat, cmd : Commands])
                      /\ Row(t, Unhandled(t))'
                      /\ server'[t].st \in Alive => Whole(Unhandled(t))'
                      /\ Announced(t, shown, Unhandled(t))'
    BY DEF SafeAlone
  <2>1. Safe(t)
    BY <1>1, <1>2 DEF Safe
  <2>2. \A o \in Servers : server'[o].st \in Known => o = t
    BY <1>2, <2>1 DEF ProcInv, SafeAlone
  <2>3. t = s
    BY <1>1, <2>2
  <2>4. Unhandled(t)' = buf \o v.out /\ server'[t] = v /\ shown' = shown /\ v.safe
    BY <1>1, <2>3 DEF Unhandled, emacsVars, Safe
  <2>5. /\ server'[t].inp \in Seq([n : Nat, cmd : Commands])
        /\ server'[t].st \in Alive => Whole(Unhandled(t)')
    BY <2>3, <2>4
  <2>6. Row(t, Unhandled(t)') /\ Announced(t, shown', Unhandled(t)')
    BY <2>3, <2>4
  <2> QED
    BY <2>2, <2>5, <2>6 DEF Row, Whole, Announced, BegunAt, SameFrom, IsErase, IsHeader
<1>8. OneSearch'
  BY DEF ProcInv, OneSearch, emacsVars
<1> QED
  BY <1>3, <1>4, <1>5, <1>6, <1>7, <1>8 DEF ProcInv

\* A server that opens the store, or ends, without having printed anything.
LEMMA ChangesStatus ==
  ASSUME ProcInv, UNCHANGED emacsVars, faults' \in 0..MaxFaults,
         NEW s \in Servers, server[s].st \in Alive, NEW st \in {"up", "dead"},
         server' = [server EXCEPT ![s].st = st],
         st = "up" => /\ server[s].st = "starting"
                      /\ \A t \in Servers : server[t].st # "up"
  PROVE  /\ ProcInv' /\ \A t \in Servers : DStep(t)
<1> DEFINE v == [server[s] EXCEPT !.st = st]
<1>1. server \in [Servers -> Proc] /\ server[s] \in Proc
  BY DEF ProcInv, Typed
<1>2. /\ v \in Proc /\ v.st = st /\ v.safe = server[s].safe
      /\ v.inp = server[s].inp /\ v.out = server[s].out
  BY <1>1 DEF Proc, Known
<1>3. server' = [server EXCEPT ![s] = v]
  BY <1>1
<1> HIDE DEF v
<1>4. \A i \in 1..Len(v.out) : v.out[i].s = s
  BY <1>2 DEF ProcInv, Unread
<1>5. ASSUME v.safe
      PROVE  /\ v.inp \in Seq([n : Nat, cmd : Commands])
             /\ Row(s, buf \o v.out)
             /\ v.st \in Alive => Whole(buf \o v.out)
             /\ Announced(s, shown, buf \o v.out)
  <2>1. Safe(s) /\ Unhandled(s) = buf \o v.out
    BY <1>2, <1>5, Statuses DEF Safe, Unhandled
  <2> QED
    BY <1>2, <2>1 DEF ProcInv, SafeAlone
<1>6. v.st \in Known
  BY <1>2, Statuses
<1>7. ProcInv'
  BY <1>2, <1>3, <1>4, <1>5, <1>6, ServerKeepsInv
<1>8. ASSUME NEW t \in Servers PROVE DStep(t)
  <2>1. CASE t # s
    BY <1>3, <1>7, <2>1, Bystander DEF emacsVars
  <2>2. CASE t = s
    <3>1. server'[s] = v
      BY <1>1, <1>3
    <3>2. Said(s)' = Said(s)
      BY <1>2, <3>1 DEF Said, emacsVars
    <3>3. CASE st = "up"
      BY <1>2, <2>2, <3>1, <3>2, <3>3 DEF DStep, D!dialog, emacsVars
    <3>4. CASE st = "dead"
      <4>1. D(s)!End
        BY <1>2, <3>1, <3>2, <3>4, Statuses DEF D!End, emacsVars, Alive
      <4> QED
        BY <2>2, <4>1 DEF DStep, D!Next
    <3> QED
      BY <3>3, <3>4
  <2> QED
    BY <2>1, <2>2
<1> QED
  BY <1>7, <1>8

LEMMA OpensKeeps ==
  ASSUME ProcInv, NEW s \in Servers, Opens(s)
  PROVE  ProcInv' /\ \A t \in Servers : DStep(t)
<1>1. faults' \in 0..MaxFaults /\ server[s].st \in Alive
  BY Statuses DEF Opens, ProcInv, Typed
<1> QED
  BY <1>1, ChangesStatus DEF Opens

LEMMA FailsToOpenKeeps ==
  ASSUME ProcInv, NEW s \in Servers, FailsToOpen(s)
  PROVE  ProcInv' /\ \A t \in Servers : DStep(t)
<1>1. server[s].st \in Alive
  BY Statuses DEF FailsToOpen
<1>2. faults \in 0..MaxFaults /\ MaxFaults \in Nat
  BY ProcBounds DEF ProcInv, Typed
<1>3. faults' \in 0..MaxFaults
  BY <1>2 DEF FailsToOpen
<1> QED
  BY <1>1, <1>3, ChangesStatus DEF FailsToOpen, Ends

LEMMA StopsOnSignalKeeps ==
  ASSUME ProcInv, NEW s \in Servers, StopsOnSignal(s)
  PROVE  ProcInv' /\ \A t \in Servers : DStep(t)
<1>1. faults' \in 0..MaxFaults /\ server[s].st \in Alive
  BY Statuses DEF StopsOnSignal, ProcInv, Typed
<1> QED
  BY <1>1, ChangesStatus DEF StopsOnSignal, Ends

LEMMA ReadsEofKeeps ==
  ASSUME ProcInv, NEW s \in Servers, ReadsEof(s)
  PROVE  ProcInv' /\ \A t \in Servers : DStep(t)
<1>1. faults' \in 0..MaxFaults /\ server[s].st \in Alive
  BY Statuses DEF ReadsEof, ProcInv, Typed
<1> QED
  BY <1>1, ChangesStatus DEF ReadsEof, Ends

LEMMA HeadTyped ==
  ASSUME NEW S, NEW q \in Seq(S), q # <<>>
  PROVE  Head(q) \in S /\ Tail(q) \in Seq(S)
OBVIOUS

LEMMA AppendTyped ==
  ASSUME NEW S, NEW q \in Seq(S), NEW x \in S
  PROVE  Append(q, x) \in Seq(S)
OBVIOUS

LEMMA OwnConcat ==
  ASSUME NEW s, NEW o \in Seq(Piece), NEW p \in Seq(Piece),
         \A i \in 1..Len(o) : o[i].s = s, \A i \in 1..Len(p) : p[i].s = s
  PROVE  o \o p \in Seq(Piece) /\ \A i \in 1..Len(o \o p) : (o \o p)[i].s = s
<1> DEFINE q == o \o p
           l == Len(o)
<1>1. /\ q \in Seq(Piece) /\ Len(q) = l + Len(p) /\ l \in Nat /\ Len(p) \in Nat
      /\ \A i \in 1..Len(q) : q[i] = IF i <= l THEN o[i] ELSE p[i - l]
  BY ConcatProperties
<1> HIDE DEF q, l
<1> SUFFICES ASSUME NEW i \in 1..Len(q) PROVE q[i].s = s
  BY <1>1 DEF q
<1>2. CASE i <= l
  <2>1. i \in 1..Len(o)
    BY <1>1, <1>2 DEF l
  <2> QED
    BY <1>1, <1>2, <2>1
<1>3. CASE ~(i <= l)
  <2>1. i - l \in 1..Len(p)
    BY <1>1, <1>3
  <2> QED
    BY <1>1, <1>3, <2>1
<1> QED
  BY <1>2, <1>3

\* An answer p, or its beginning, after whole replies u.
Continues(s, sh, u, p, all) ==
  /\ Row(s, all) /\ (Whole(p) => Whole(all))
  /\ Announced(s, sh, all)
  /\ RepliesOf(s, all) = RepliesOf(s, u) \o RowReplies(p)

LEMMA RowContinues ==
  ASSUME NEW s, NEW b \in Seq(Piece), NEW o \in Seq(Piece), NEW sh,
         Row(s, b \o o), Whole(b \o o), Announced(s, sh, b \o o),
         NEW p, Row(s, p), Begun(p)
  PROVE  Continues(s, sh, b \o o, p, b \o (o \o p))
<1> DEFINE u == b \o o
<1>1. p \in Seq(Piece)
  BY DEF Row
<1>2. b \o (o \o p) = u \o p
  BY <1>1, ConcatAssociative
<1>3. Row(s, u) /\ Whole(u) /\ Announced(s, sh, u) /\ u \in Seq(Piece)
  OBVIOUS
<1> HIDE DEF u
<1>4. Row(s, u \o p) /\ RepliesJoin(u, p) /\ (Whole(p) => Whole(u \o p))
  BY <1>3, RowConcat
<1>5. Announced(s, sh, u \o p)
  BY <1>1, <1>3, AnnouncedConcat
<1>6. RepliesOf(s, u) = RowReplies(u) /\ RepliesOf(s, u \o p) = RowReplies(u \o p)
  BY <1>3, <1>4, RepliesOfRow
<1>7. RepliesOf(s, u \o p) = RepliesOf(s, u) \o RowReplies(p)
  BY <1>4, <1>6, Zenon DEF RepliesJoin
<1> QED
  BY <1>2, <1>4, <1>5, <1>7, Zenon DEF Continues, u

LEMMA HalfOfTwice ==
  ASSUME NEW l \in Nat
  PROVE  (2 * l) \div 2 = l
OBVIOUS

\* A server takes a command and prints the first k pieces of an answer, all of
\* them if it goes on; of one that is not safe only the types matter.
LEMMA Printing ==
  ASSUME ProcInv, UNCHANGED emacsVars, faults' \in 0..MaxFaults,
         NEW s \in Servers, server[s].st = "up", server[s].inp # <<>>,
         NEW r \in Answers(First(s).cmd),
         NEW k \in 0..Len(Pieces(s, Replies(First(s).n, r.replies))),
         NEW st \in {"up", "dead"}, NEW out,
         out = IF emacs = "gone" THEN server[s].out
               ELSE server[s].out \o
                      SubSeq(Pieces(s, Replies(First(s).n, r.replies)), 1, k),
         server' = [server EXCEPT ![s].inp = Tail(@), ![s].out = out, ![s].st = st],
         st = "up" => k = Len(Pieces(s, Replies(First(s).n, r.replies))),
         r.rv = "stop" => st = "dead"
  PROVE  ProcInv' /\ \A t \in Servers : DStep(t)
<1> DEFINE v == [server[s] EXCEPT !.inp = Tail(@), !.out = out, !.st = st]
           line == First(s)
           q == Pieces(s, Replies(line.n, r.replies))
           p == SubSeq(q, 1, k)
<1>1. server \in [Servers -> Proc] /\ server[s] \in Proc
  BY DEF ProcInv, Typed
<1>2. /\ server[s].inp \in Seq(Order) /\ server[s].out \in Seq(Piece)
      /\ server[s].safe \in BOOLEAN /\ buf \in Seq(Piece)
  BY <1>1 DEF Proc, ProcInv, Typed
<1>3. line \in Order /\ Tail(server[s].inp) \in Seq(Order)
  BY <1>2, HeadTyped DEF First
<1>4. line.n \in Nat
  BY <1>3 DEF Order
<1>5. /\ q \in Seq(Piece) /\ Len(q) \in Nat /\ k \in 0..Len(q)
      /\ \A i \in 1..Len(q) : q[i].s = s
  <2>1. Replies(line.n, r.replies) \in Seq(Reply)
    BY <1>4, AnswersTyped, RepliesTyped
  <2> HIDE DEF line
  <2>2. q \in Seq(Piece) /\ \A i \in 1..Len(q) : q[i].s = s
    BY <2>1, PiecesTyped
  <2>3. k \in 0..Len(q)
    BY DEF line
  <2> QED
    BY <2>2, <2>3
<1> HIDE DEF line, q
<1>6. p \in Seq(Piece) /\ Len(p) = k /\ \A i \in 1..Len(p) : p[i].s = s
  BY <1>5
<1>7. out = IF emacs = "gone" THEN server[s].out ELSE server[s].out \o p
  BY DEF q, line
<1> HIDE DEF p
<1>8. out \in Seq(Piece) /\ \A i \in 1..Len(out) : out[i].s = s
  <2>1. \A i \in 1..Len(server[s].out) : server[s].out[i].s = s
    BY DEF ProcInv, Unread
  <2>2. CASE emacs = "gone"
    BY <1>2, <1>7, <2>1, <2>2
  <2>3. CASE emacs # "gone"
    <3> DEFINE o == server[s].out
    <3>1. out = o \o p
      BY <1>7, <2>3
    <3>2. o \in Seq(Piece) /\ \A i \in 1..Len(o) : o[i].s = s
      BY <1>2, <2>1
    <3> HIDE DEF o
    <3>3. o \o p \in Seq(Piece) /\ \A i \in 1..Len(o \o p) : (o \o p)[i].s = s
      BY <1>6, <3>2, OwnConcat
    <3> QED
      BY <3>1, <3>3
  <2> QED
    BY <2>2, <2>3
<1>9. /\ v \in Proc /\ v.st = st /\ v.safe = server[s].safe
      /\ v.inp = Tail(server[s].inp) /\ v.out = out
  BY <1>1, <1>3, <1>8 DEF Proc, Known
<1>10. server' = [server EXCEPT ![s] = v]
  BY <1>1
<1> HIDE DEF v
<1>11. ASSUME server[s].safe
       PROVE  /\ Tail(server[s].inp) \in Seq([n : Nat, cmd : Commands])
              /\ out = server[s].out \o p
              /\ Row(s, buf \o out) /\ (st = "up" => Whole(buf \o out))
              /\ Announced(s, shown, buf \o out)
              /\ Said(s)' = Said(s) \o
                   SubSeq(Replies(line.n, r.replies), 1, k \div 2)
              /\ k \div 2 \in 0..Len(r.replies)
              /\ k < Len(q) => k \div 2 < Len(r.replies)
  <2>1. Safe(s)
    BY <1>11, Statuses DEF Safe
  <2>2. /\ server[s].inp \in Seq([n : Nat, cmd : Commands])
        /\ Row(s, buf \o server[s].out) /\ Whole(buf \o server[s].out)
        /\ Announced(s, shown, buf \o server[s].out)
    BY <2>1, Statuses DEF ProcInv, SafeAlone, Unhandled
  <2>3. emacs # "gone"
    BY <1>11 DEF ProcInv, Untouched
  <2>4. line \in [n : Nat, cmd : Commands] /\ Tail(server[s].inp) \in Seq([n : Nat, cmd : Commands])
    BY <2>2, HeadTyped DEF First, line
  <2>5. line.cmd.name # "quit"
    BY <2>4, CommandsAssumption
  <2>6. Ordered(r)
    BY <2>5, AnswersOrdered DEF line
  <2>7. /\ Row(s, q) /\ Whole(q) /\ Row(s, p) /\ Begun(p)
        /\ RowReplies(p) = SubSeq(Replies(line.n, r.replies), 1, k \div 2)
        /\ k \div 2 \in 0..Len(r.replies)
        /\ k < Len(q) => k \div 2 < Len(r.replies)
    BY <1>4, <2>6, Answered DEF q, p, line
  <2>8. out = server[s].out \o p
    BY <1>7, <2>3
  <2>9. st = "up" => Whole(p)
    <3>1. ASSUME st = "up" PROVE p = q
      <4>1. k = Len(q)
        BY <3>1 DEF q, line
      <4> QED
        BY <1>5, <4>1 DEF p
    <3> QED
      BY <2>7, <3>1
  <2>10. /\ Row(s, buf \o out) /\ (Whole(p) => Whole(buf \o out))
         /\ Announced(s, shown, buf \o out)
         /\ RepliesOf(s, buf \o out) = RepliesOf(s, buf \o server[s].out) \o RowReplies(p)
    <3> DEFINE o == server[s].out
    <3>1. /\ Row(s, buf \o o) /\ Whole(buf \o o) /\ Announced(s, shown, buf \o o)
          /\ o \in Seq(Piece) /\ out = o \o p /\ Row(s, p) /\ Begun(p)
          /\ buf \in Seq(Piece)
      BY <1>2, <2>2, <2>7, <2>8
    <3> HIDE DEF o
    <3>2. Continues(s, shown, buf \o o, p, buf \o (o \o p))
      BY <3>1, RowContinues
    <3>3. Continues(s, shown, buf \o o, p, buf \o out)
      BY <3>1, <3>2, Zenon
    <3> QED
      BY <3>3, Zenon DEF Continues, o
  <2>11. Said(s)' = RepliesOf(s, buf \o out)
    <3>1. server'[s].out = out /\ buf' = buf
      BY <1>1, <1>9, <1>10 DEF emacsVars
    <3> QED
      BY <3>1 DEF Said
  <2> QED
    BY <2>4, <2>7, <2>8, <2>9, <2>10, <2>11 DEF Said
<1>12. ProcInv'
  <2>1. v.safe => /\ v.inp \in Seq([n : Nat, cmd : Commands])
                  /\ Row(s, buf \o v.out)
                  /\ v.st \in Alive => Whole(buf \o v.out)
                  /\ Announced(s, shown, buf \o v.out)
    BY <1>9, <1>11, Statuses
  <2>2. /\ v.st \in Known /\ server[s].st \in Alive
        /\ \A t \in Servers \ {s} : server[t].st # "up"
    BY <1>9, Statuses DEF ProcInv, OneUp
  <2>3. \A i \in 1..Len(v.out) : v.out[i].s = s
    BY <1>8, <1>9
  <2> QED
    BY <1>9, <1>10, <2>1, <2>2, <2>3, ServerKeepsInv
<1>13. ASSUME NEW t \in Servers PROVE DStep(t)
  <2>1. CASE t # s
    <3>1. server'[t] = server[t] /\ heard'[t] = heard[t] /\ buf' = buf
      BY <1>1, <1>10, <2>1 DEF emacsVars
    <3> QED
      BY <1>12, <3>1, Bystander
  <2>2. CASE t = s /\ ~server[s].safe
    <3>1. ~server'[s].safe
      BY <1>1, <1>9, <1>10, <2>2
    <3> QED
      BY <2>2, <3>1, Forgotten
  <2>3. CASE t = s /\ server[s].safe
    <3>1. server'[s] = v
      BY <1>1, <1>10
    <3>2. Head(server[s].inp) = line
      BY DEF First, line
    <3>3. ~(server[s].st \in {"dead", "buried"})
      OBVIOUS
    <3>4. k \div 2 < Len(r.replies) \/ r.rv = "stop" =>
             server'[s].st \in {"dead", "buried"}
      <4>1. ASSUME st # "dead" PROVE ~(k \div 2 < Len(r.replies))
        <5>1. k = Len(q)
          BY <4>1 DEF q, line
        <5>2. Ordered(r)
          <6>1. server[s].inp \in Seq([n : Nat, cmd : Commands])
            BY <2>3, Statuses DEF ProcInv, SafeAlone, Safe
          <6>2. line \in [n : Nat, cmd : Commands]
            BY <6>1, HeadTyped DEF First, line
          <6>3. line.cmd.name # "quit"
            BY <6>2, CommandsAssumption
          <6> QED
            BY <6>3, AnswersOrdered DEF line
        <5>3. Len(q) = 2 * Len(r.replies) /\ Len(r.replies) \in Nat
          BY <1>4, <5>2, Answered DEF q, line
        <5> QED
          <6> DEFINE m == Len(r.replies)
          <6>1. k = 2 * m /\ m \in Nat
            BY <5>1, <5>3
          <6> HIDE DEF m
          <6>2. k \div 2 = m
            BY <6>1, HalfOfTwice, Zenon
          <6>3. ~(m < m)
            BY <6>1
          <6> QED
            BY <6>2, <6>3, Zenon DEF m
      <4> QED
        BY <1>9, <3>1, <4>1
    <3>5. /\ Said(s)' = Said(s) \o SubSeq(Replies(line.n, r.replies), 1, k \div 2)
          /\ k \div 2 \in 0..Len(r.replies)
      BY <1>11, <2>3
    <3>6. r \in Answers(line.cmd)
      BY DEF line
    <3>7. D(s)!Serve
      BY <1>9, <3>1, <3>2, <3>3, <3>4, <3>5, <3>6 DEF D!Serve, emacsVars
    <3> QED
      BY <2>3, <3>7 DEF DStep, D!Next
  <2> QED
    BY <2>1, <2>2, <2>3
<1> QED
  BY <1>12, <1>13

LEMMA ServeKeeps ==
  ASSUME ProcInv, NEW s \in Servers, Serve(s)
  PROVE  ProcInv' /\ \A t \in Servers : DStep(t)
<1>1. /\ server[s].st = "up" /\ server[s].inp # <<>>
      /\ UNCHANGED emacsVars /\ faults' \in 0..MaxFaults
  BY DEF Serve, Serves, ProcInv, Typed
<1>2. PICK r \in Answers(First(s).cmd) :
        LET stops == \/ r.rv = "stop" \/ server[s].term = "late"
                     \/ emacs = "gone" /\ r.replies # <<>>
        IN  server' = [server EXCEPT
              ![s].inp = Tail(@),
              ![s].out = IF emacs = "gone" THEN @
                         ELSE @ \o Pieces(s, Replies(First(s).n, r.replies)),
              ![s].st = IF stops THEN "dead" ELSE @]
  BY DEF Serve
<1> DEFINE q == Pieces(s, Replies(First(s).n, r.replies))
           k == Len(q)
           stops == \/ r.rv = "stop" \/ server[s].term = "late"
                    \/ emacs = "gone" /\ r.replies # <<>>
           st == IF stops THEN "dead" ELSE "up"
           out == IF emacs = "gone" THEN server[s].out
                  ELSE server[s].out \o SubSeq(q, 1, k)
<1>3. q \in Seq(Piece)
  <2>1. server[s].inp \in Seq(Order)
    BY DEF ProcInv, Typed, Proc
  <2>2. First(s) \in Order
    BY <1>1, <2>1, HeadTyped DEF First
  <2>3. First(s).n \in Nat
    BY <2>2 DEF Order
  <2>4. Replies(First(s).n, r.replies) \in Seq(Reply)
    BY <2>3, AnswersTyped, RepliesTyped
  <2> QED
    BY <2>4, PiecesTyped
<1>4. SubSeq(q, 1, k) = q /\ k \in Nat /\ k \in 0..k
  <2> HIDE DEF q
  <2> QED
    BY <1>3, SubSeqFull
<1>5. st \in {"up", "dead"} /\ (r.rv = "stop" => st = "dead")
  OBVIOUS
<1>6. server' = [server EXCEPT ![s].inp = Tail(@), ![s].out = out, ![s].st = st]
  <2>1. server \in [Servers -> Proc]
    BY DEF ProcInv, Typed
  <2>2. server' = [server EXCEPT
              ![s].inp = Tail(@),
              ![s].out = IF emacs = "gone" THEN @ ELSE @ \o q,
              ![s].st = IF stops THEN "dead" ELSE @]
    BY <1>2
  <2> HIDE DEF q, stops
  <2> QED
    BY <1>1, <1>4, <2>1, <2>2
<1>7. /\ out = IF emacs = "gone" THEN server[s].out
               ELSE server[s].out \o
                      SubSeq(Pieces(s, Replies(First(s).n, r.replies)), 1, k)
      /\ k = Len(Pieces(s, Replies(First(s).n, r.replies)))
  OBVIOUS
<1> HIDE DEF k, st, out
<1> QED
  BY <1>1, <1>4, <1>5, <1>6, <1>7, Printing

LEMMA DiesServingKeeps ==
  ASSUME ProcInv, NEW s \in Servers, DiesServing(s)
  PROVE  ProcInv' /\ \A t \in Servers : DStep(t)
<1>1. /\ server[s].st = "up" /\ server[s].inp # <<>>
      /\ UNCHANGED emacsVars /\ faults > 0 /\ faults' = faults - 1
  BY DEF DiesServing, Serves
<1>2. faults' \in 0..MaxFaults
  <2>1. faults \in 0..MaxFaults /\ MaxFaults \in Nat
    BY ProcBounds DEF ProcInv, Typed
  <2> QED
    BY <1>1, <2>1
<1>3. PICK r \in Answers(First(s).cmd) :
        LET pieces == Pieces(s, Replies(First(s).n, r.replies))
        IN  \E k \in 0..(Len(pieces) - 1) :
              server' = [server EXCEPT
                ![s].inp = Tail(@),
                ![s].out = IF emacs = "gone" THEN @ ELSE @ \o SubSeq(pieces, 1, k),
                ![s].st = "dead"]
  BY DEF DiesServing
<1> DEFINE q == Pieces(s, Replies(First(s).n, r.replies))
<1>4. PICK k \in 0..(Len(q) - 1) :
        server' = [server EXCEPT
          ![s].inp = Tail(@),
          ![s].out = IF emacs = "gone" THEN @ ELSE @ \o SubSeq(q, 1, k),
          ![s].st = "dead"]
  BY <1>3
<1> DEFINE out == IF emacs = "gone" THEN server[s].out
                  ELSE server[s].out \o SubSeq(q, 1, k)
<1>5. Len(q) \in Nat
  <2>1. server[s].inp \in Seq(Order)
    BY DEF ProcInv, Typed, Proc
  <2>2. First(s) \in Order
    BY <1>1, <2>1, HeadTyped DEF First
  <2>3. First(s).n \in Nat
    BY <2>2 DEF Order
  <2>4. Replies(First(s).n, r.replies) \in Seq(Reply)
    BY <2>3, AnswersTyped, RepliesTyped
  <2>5. q \in Seq(Piece)
    BY <2>4, PiecesTyped
  <2> HIDE DEF q
  <2> QED
    BY <2>5
<1>6. k \in 0..Len(q)
  <2> HIDE DEF q
  <2> QED
    BY <1>5
<1>7. server' = [server EXCEPT ![s].inp = Tail(@), ![s].out = out, ![s].st = "dead"]
  <2>1. server \in [Servers -> Proc]
    BY DEF ProcInv, Typed
  <2> HIDE DEF q
  <2> QED
    BY <1>4, <2>1
<1>8. out = IF emacs = "gone" THEN server[s].out
            ELSE server[s].out \o
                   SubSeq(Pieces(s, Replies(First(s).n, r.replies)), 1, k)
  OBVIOUS
<1> DEFINE st == "dead"
<1>9. /\ st \in {"up", "dead"} /\ st = "dead" /\ st # "up"
      /\ server' = [server EXCEPT ![s].inp = Tail(@), ![s].out = out, ![s].st = st]
  BY <1>7
<1> HIDE DEF out, st
<1> QED
  BY <1>1, <1>2, <1>6, <1>8, <1>9, Printing

-----------------------------------------------------------------------------
(* What Emacs hears of a server.                                           *)

LEMMA SplitPieces ==
  ASSUME NEW b \in Seq(Piece), NEW o \in Seq(Piece), NEW k \in 1..Len(o)
  PROVE  LET p == SubSeq(o, 1, k)
             r == SubSeq(o, k + 1, Len(o))
         IN  /\ p \in Seq(Piece) /\ r \in Seq(Piece)
             /\ \A i \in 1..Len(p) : \E j \in 1..Len(o) : p[i] = o[j]
             /\ \A i \in 1..Len(r) : \E j \in 1..Len(o) : r[i] = o[j]
             /\ (b \o p) \o r = b \o o
<1> DEFINE p == SubSeq(o, 1, k)
           r == SubSeq(o, k + 1, Len(o))
           n == Len(o)
<1>1. n \in Nat /\ k \in Nat \ {0} /\ k <= n /\ k + 1 \in Nat \ {0}
  OBVIOUS
<1>2. /\ p \in Seq(Piece) /\ Len(p) = k
      /\ \A i \in 1..Len(p) : 1 + i - 1 \in 1..n /\ p[i] = o[1 + i - 1]
  BY <1>1, Slice
<1>3. /\ r \in Seq(Piece) /\ Len(r) = n - k
      /\ \A i \in 1..Len(r) : k + 1 + i - 1 \in 1..n /\ r[i] = o[k + 1 + i - 1]
  <2>1. Len(r) = IF k + 1 <= n THEN n - (k + 1) + 1 ELSE 0
    BY <1>1, Slice
  <2> HIDE DEF r
  <2>2. Len(r) = n - k
    BY <1>1, <2>1
  <2> USE DEF r
  <2> QED
    BY <1>1, <2>2, Slice
<1> HIDE DEF p, r, n
<1>4. p \o r = o
  <2>1. /\ p \o r \in Seq(Piece) /\ Len(p \o r) = n
        /\ \A i \in 1..n : (p \o r)[i] = IF i <= k THEN p[i] ELSE r[i - k]
    <3>1. p \in Seq(Piece) /\ r \in Seq(Piece)
      BY <1>2, <1>3
    <3>2. /\ p \o r \in Seq(Piece) /\ Len(p \o r) = Len(p) + Len(r)
          /\ \A i \in 1..Len(p) + Len(r) :
               (p \o r)[i] = IF i <= Len(p) THEN p[i] ELSE r[i - Len(p)]
      BY <3>1, ConcatProperties
    <3>3. Len(p) = k /\ Len(p) + Len(r) = n
      BY <1>1, <1>2, <1>3
    <3> QED
      BY <3>2, <3>3
  <2>2. ASSUME NEW i \in 1..n PROVE (p \o r)[i] = o[i]
    <3>1. CASE i <= k
      <4>1. i \in 1..Len(p) /\ 1 + i - 1 = i
        BY <1>1, <1>2, <3>1
      <4> QED
        BY <1>2, <2>1, <3>1, <4>1
    <3>2. CASE ~(i <= k)
      <4>0. i \in Nat /\ i <= n /\ i > k /\ n \in Nat /\ k \in Nat
        BY <1>1, <3>2
      <4>1. i - k \in 1..Len(r) /\ k + 1 + (i - k) - 1 = i
        <5>1. Len(r) = n - k
          BY <1>3, Zenon
        <5>2. i - k \in 1..(n - k) /\ k + 1 + (i - k) - 1 = i
          BY <4>0
        <5> QED
          BY <5>1, <5>2, Zenon
      <4> QED
        BY <1>3, <2>1, <3>2, <4>1
    <3> QED
      BY <3>1, <3>2
  <2> QED
    BY <2>1, <2>2, SeqEqual DEF n
<1>5. (b \o p) \o r = b \o (p \o r)
  <2>1. p \in Seq(Piece) /\ r \in Seq(Piece)
    BY <1>2, <1>3
  <2> QED
    BY <2>1, ConcatAssociative, SMTT(30)
<1>6. (b \o p) \o r = b \o o
  BY <1>4, <1>5
<1>7. \A i \in 1..Len(p) : \E j \in 1..n : p[i] = o[j]
  BY <1>2
<1>8. \A i \in 1..Len(r) : \E j \in 1..n : r[i] = o[j]
  BY <1>3
<1> QED
  BY <1>2, <1>3, <1>6, <1>7, <1>8 DEF p, r, n

LEMMA ReceiveKeeps ==
  ASSUME ProcInv, NEW s \in Servers, Receive(s)
  PROVE  ProcInv' /\ \A t \in Servers : DStep(t)
<1>1. PICK k \in 1..Len(server[s].out) :
        /\ buf' = buf \o SubSeq(server[s].out, 1, k)
        /\ server' = [server EXCEPT ![s].out = SubSeq(@, k + 1, Len(@))]
  BY DEF Receive
<1>2. /\ emacs = "up" /\ ~filtering /\ filtering' = TRUE
      /\ UNCHANGED <<emacs, cur, asked, heard, shown, faults>>
  BY DEF Receive
<1> DEFINE o == server[s].out
           p == SubSeq(o, 1, k)
           r == SubSeq(o, k + 1, Len(o))
<1>3. /\ server \in [Servers -> Proc] /\ server[s] \in Proc
      /\ o \in Seq(Piece) /\ buf \in Seq(Piece)
  BY DEF ProcInv, Typed, Proc
<1>4. /\ server'[s] = [server[s] EXCEPT !.out = r]
      /\ \A t \in Servers \ {s} : server'[t] = server[t]
      /\ server' = [server EXCEPT ![s] = [server[s] EXCEPT !.out = r]]
      /\ buf' = buf \o p
  BY <1>1, <1>3
<1>5. /\ p \in Seq(Piece) /\ r \in Seq(Piece)
      /\ \A i \in 1..Len(p) : \E j \in 1..Len(o) : p[i] = o[j]
      /\ \A i \in 1..Len(r) : \E j \in 1..Len(o) : r[i] = o[j]
      /\ (buf \o p) \o r = buf \o o
  BY <1>3, SplitPieces
<1>6. o # <<>> /\ \A i \in 1..Len(o) : o[i].s = s
  <2>1. \A i \in 1..Len(o) : o[i].s = s
    BY DEF ProcInv, Unread
  <2>2. Len(o) # 0
    OBVIOUS
  <2> QED
    BY <2>1, <2>2
<1>7. server[s].st \in Known
  BY <1>6 DEF ProcInv, Unread
<1> HIDE DEF p, r
<1>8. /\ server'[s] \in Proc /\ server'[s].out = r
      /\ server'[s].st = server[s].st /\ server'[s].safe = server[s].safe
      /\ server'[s].inp = server[s].inp
  BY <1>3, <1>4, <1>5 DEF Proc
<1>9. \A t \in Servers : /\ server'[t].st = server[t].st
                         /\ server'[t].safe = server[t].safe
                         /\ server'[t].inp = server[t].inp
  BY <1>4, <1>8
<1>10. Typed'
  <2>1. server' \in [Servers -> Proc]
    BY <1>3, <1>4, <1>8
  <2>2. buf' \in Seq(Piece)
    BY <1>3, <1>4, <1>5
  <2> QED
    BY <1>2, <2>1, <2>2 DEF ProcInv, Typed
<1>11. OneUp'
  BY <1>9 DEF ProcInv, OneUp
<1>12. Unread'
  <2>1. ASSUME NEW t \in Servers, server'[t].st \notin Known PROVE server'[t].out = <<>>
    <3>1. t # s
      BY <1>7, <1>9, <2>1
    <3> QED
      BY <1>4, <1>9, <2>1, <3>1 DEF ProcInv, Unread
  <2>2. ASSUME NEW t \in Servers, NEW i \in 1..Len(server'[t].out)
        PROVE  server'[t].out[i].s = t
    <3>1. CASE t # s
      BY <1>4, <2>2, <3>1 DEF ProcInv, Unread
    <3>2. CASE t = s
      <4>1. PICK j \in 1..Len(o) : r[i] = o[j]
        BY <1>5, <1>8, <2>2, <3>2
      <4> QED
        BY <1>6, <1>8, <3>2, <4>1
    <3> QED
      BY <3>1, <3>2
  <2>3. ASSUME NEW i \in 1..Len(buf') PROVE server'[buf'[i].s].st \in Known
    <3>1. /\ Len(buf) \in Nat /\ Len(p) \in Nat /\ Len(buf') = Len(buf) + Len(p)
          /\ buf'[i] = IF i <= Len(buf) THEN buf[i] ELSE p[i - Len(buf)]
      <4>1. \A a \in Seq(Piece) : Len(a) \in Nat
        OBVIOUS
      <4>2. /\ Len(buf \o p) = Len(buf) + Len(p)
            /\ \A j \in 1..Len(buf) + Len(p) : (buf \o p)[j] =
                 IF j <= Len(buf) THEN buf[j] ELSE p[j - Len(buf)]
        BY <1>3, <1>5, ConcatProperties
      <4> QED
        BY <1>3, <1>4, <1>5, <4>1, <4>2
    <3>2. CASE i <= Len(buf)
      <4>1. i \in 1..Len(buf)
        BY <3>1, <3>2
      <4>2. server[buf[i].s].st \in Known /\ buf[i].s \in Servers
        BY <1>3, <4>1, OwnerTyped DEF ProcInv, Unread
      <4> QED
        BY <1>9, <3>1, <3>2, <4>2
    <3>3. CASE ~(i <= Len(buf))
      <4>1. i - Len(buf) \in 1..Len(p)
        BY <3>1, <3>3
      <4>2. PICK j \in 1..Len(o) : p[i - Len(buf)] = o[j]
        BY <1>5, <4>1
      <4>3. buf'[i].s = s
        BY <1>6, <3>1, <3>3, <4>2
      <4> QED
        BY <1>7, <1>9, <4>3
    <3> QED
      BY <3>2, <3>3
  <2> QED
    BY <2>1, <2>2, <2>3 DEF Unread
<1>13. Untouched'
  <2> SUFFICES ASSUME NEW t \in Servers, server'[t].st = "none"
               PROVE  server'[t] = NotStarted
    BY <1>2 DEF Untouched
  <2>1. t # s /\ server[t].st = "none"
    BY <1>7, <1>9, Statuses
  <2> QED
    BY <1>2, <1>4, <2>1 DEF ProcInv, Untouched
<1>14. ASSUME NEW t \in Servers, Safe(t) PROVE t = s /\ Unhandled(t)' = Unhandled(t)
  <2>1. t = s
    BY <1>7, <1>14 DEF ProcInv, SafeAlone
  <2> QED
    BY <1>4, <1>5, <1>8, <2>1 DEF Unhandled
<1>15. SafeAlone'
  <2> SUFFICES ASSUME NEW t \in Servers, Safe(t)'
               PROVE  /\ \A x \in Servers : server'[x].st \in Known => x = t
                      /\ server'[t].inp \in Seq([n : Nat, cmd : Commands])
                      /\ Row(t, Unhandled(t)')
                      /\ server'[t].st \in Alive => Whole(Unhandled(t)')
                      /\ Announced(t, shown', Unhandled(t)')
    BY DEF SafeAlone, Row, Whole, Announced, BegunAt, SameFrom, IsErase, IsHeader
  <2>1. Safe(t)
    BY <1>9 DEF Safe
  <2>2. Unhandled(t)' = Unhandled(t) /\ shown' = shown
    BY <1>2, <1>14, <2>1
  <2> QED
    BY <1>9, <2>1, <2>2 DEF ProcInv, SafeAlone
<1>16. OneSearch'
  BY <1>2 DEF ProcInv, OneSearch
<1>17. ProcInv'
  BY <1>10, <1>11, <1>12, <1>13, <1>15, <1>16 DEF ProcInv
<1>18. ASSUME NEW t \in Servers PROVE DStep(t)
  <2>1. CASE Safe(t)
    <3>1. Said(t)' = Said(t)
      BY <1>14, <2>1 DEF Said, Unhandled
    <3> QED
      BY <1>2, <1>9, <3>1 DEF DStep, D!dialog
  <2>2. CASE ~server[t].safe
    BY <1>9, <2>2, Forgotten
  <2>3. CASE server[t].st \notin Known
    <3>1. server'[t] = server[t] /\ heard'[t] = heard[t]
      BY <1>2, <1>4, <1>7, <2>3
    <3> QED
      BY <1>17, <2>3, <3>1, Bystander
  <2> QED
    BY <2>1, <2>2, <2>3 DEF Safe
<1> QED
  BY <1>17, <1>18

LEMMA UserQuitsKeeps ==
  ASSUME ProcInv, UserQuits
  PROVE  ProcInv' /\ \A t \in Servers : DStep(t)
<1>1. /\ filtering' = FALSE /\ faults > 0 /\ faults' = faults - 1
      /\ UNCHANGED <<emacs, cur, buf, server, asked, heard, shown>>
  BY DEF UserQuits
<1>2. faults' \in 0..MaxFaults
  <2>1. faults \in 0..MaxFaults /\ MaxFaults \in Nat
    BY ProcBounds DEF ProcInv, Typed
  <2> QED
    BY <1>1, <2>1
<1>3. Typed'
  BY <1>1, <1>2 DEF ProcInv, Typed
<1>4. OneUp' /\ Unread' /\ Untouched' /\ OneSearch'
  BY <1>1 DEF ProcInv, OneUp, Unread, Untouched, OneSearch
<1>5. SafeAlone'
  <2> SUFFICES ASSUME NEW t \in Servers, Safe(t)'
               PROVE  /\ \A x \in Servers : server'[x].st \in Known => x = t
                      /\ server'[t].inp \in Seq([n : Nat, cmd : Commands])
                      /\ Row(t, Unhandled(t)')
                      /\ server'[t].st \in Alive => Whole(Unhandled(t)')
                      /\ Announced(t, shown', Unhandled(t)')
    BY DEF SafeAlone, Row, Whole, Announced, BegunAt, SameFrom, IsErase, IsHeader
  <2>1. Safe(t)
    BY <1>1 DEF Safe
  <2>2. Unhandled(t)' = Unhandled(t) /\ shown' = shown
    BY <1>1 DEF Unhandled
  <2> QED
    BY <1>1, <2>1, <2>2 DEF ProcInv, SafeAlone
<1>6. ProcInv'
  BY <1>3, <1>4, <1>5 DEF ProcInv
<1> QED
  BY <1>1, <1>6, Bystander

LEMMA SentinelKeeps ==
  ASSUME ProcInv, NEW s \in Servers, Sentinel(s)
  PROVE  ProcInv' /\ \A t \in Servers : DStep(t)
<1>1. /\ emacs = "up" /\ server[s].st = "dead" /\ server[s].out = <<>>
      /\ server' = [server EXCEPT ![s].st = "buried"]
      /\ cur' = NoServer /\ buf' = <<>>
      /\ UNCHANGED <<emacs, filtering, asked, heard, left, shown, faults>>
  BY DEF Sentinel
<1>2. /\ server \in [Servers -> Proc] /\ server[s] \in Proc
      /\ server'[s] = [server[s] EXCEPT !.st = "buried"]
      /\ \A t \in Servers \ {s} : server'[t] = server[t]
  BY <1>1 DEF ProcInv, Typed
<1>3. /\ server'[s] \in Proc /\ server'[s].st = "buried" /\ server'[s].out = <<>>
      /\ server'[s].inp = server[s].inp /\ server'[s].safe = server[s].safe
  BY <1>1, <1>2 DEF Proc, Known
<1>4. Typed'
  <2>1. server' \in [Servers -> Proc]
    BY <1>1, <1>2, <1>3
  <2>2. buf' \in Seq(Piece)
    BY <1>1
  <2> QED
    BY <1>1, <2>1, <2>2 DEF ProcInv, Typed
<1>5. OneUp'
  <2>1. ASSUME NEW t \in Servers, server'[t].st = "up"
        PROVE  server[t].st = "up"
    <3>1. t # s
      BY <1>3, <2>1
    <3> QED
      BY <1>2, <2>1, <3>1
  <2> QED
    BY <2>1 DEF ProcInv, OneUp
<1>6. Unread'
  <2>1. \A t \in Servers : server'[t].st \notin Known => server'[t].out = <<>>
    BY <1>2, <1>3 DEF ProcInv, Unread
  <2>2. \A t \in Servers : \A i \in 1..Len(server'[t].out) : server'[t].out[i].s = t
    BY <1>1, <1>2, <1>3 DEF ProcInv, Unread
  <2>3. \A i \in 1..Len(buf') : server'[buf'[i].s].st \in Known
    BY <1>1
  <2> QED
    BY <2>1, <2>2, <2>3 DEF Unread
<1>7. Untouched'
  BY <1>1, <1>2, <1>3 DEF ProcInv, Untouched
<1>8. \A t \in Servers : ~Safe(t)'
  <2> SUFFICES ASSUME NEW t \in Servers, Safe(t)' PROVE FALSE
    OBVIOUS
  <2>1. t # s /\ Safe(t)
    BY <1>2, <1>3, Statuses DEF Safe
  <2>2. server[s].st \in Known
    BY <1>1, Statuses
  <2> QED
    BY <2>1, <2>2 DEF ProcInv, SafeAlone
<1>9. SafeAlone' /\ OneSearch'
  BY <1>1, <1>8 DEF ProcInv, SafeAlone, OneSearch
<1>10. ProcInv'
  BY <1>4, <1>5, <1>6, <1>7, <1>9 DEF ProcInv
<1>11. ASSUME NEW t \in Servers PROVE DStep(t)
  <2>1. CASE t # s /\ server[t].st \notin Known
    BY <1>1, <1>2, <1>10, <2>1, Bystander
  <2>2. CASE t # s /\ server[t].st \in Known
    <3>1. ~server'[t].safe
      BY <1>2, <1>8, <2>2 DEF Safe
    <3> QED
      BY <3>1, Forgotten
  <2>3. CASE t = s
    <3>1. Said(s)' = <<>>
      <4>1. server'[s].out = <<>> /\ buf' = <<>> /\ <<>> \in Seq(Piece)
        BY <1>1, <1>3
      <4>2. \A i \in 1..Len(<<>>) : <<>>[i].s # s
        OBVIOUS
      <4>3. RepliesOf(s, <<>> \o server'[s].out) = <<>>
        BY <4>1, <4>2, NothingSaid
      <4> QED
        BY <4>1, <4>3 DEF Said
    <3>2. D(s)!Forget
      BY <1>1, <1>3, <3>1 DEF D!Forget
    <3> QED
      BY <2>3, <3>2 DEF DStep, D!Next
  <2> QED
    BY <2>1, <2>2, <2>3
<1> QED
  BY <1>10, <1>11

LEMMA EmacsEndsKeeps ==
  ASSUME ProcInv, NEW after \in [Servers -> Proc], EmacsEnds(after),
         \A s \in Servers : after[s].st = "up" => server[s].st = "up"
  PROVE  ProcInv' /\ \A t \in Servers : DStep(t)
<1>1. /\ emacs' = "gone" /\ cur' = NoServer /\ buf' = <<>> /\ filtering' = FALSE
      /\ server' = [s \in Servers |-> [after[s] EXCEPT !.out = <<>>, !.safe = FALSE]]
      /\ asked' = <<>> /\ heard' = [s \in Servers |-> <<>>]
      /\ shown' = {} /\ faults' = faults
  BY DEF EmacsEnds
<1>2. ASSUME NEW s \in Servers
      PROVE  /\ server'[s] \in Proc /\ server'[s].st = after[s].st
             /\ server'[s].out = <<>> /\ ~server'[s].safe
  <2>1. after[s] \in Proc /\ <<>> \in Seq(Piece)
    OBVIOUS
  <2>2. server'[s] = [after[s] EXCEPT !.out = <<>>, !.safe = FALSE]
    BY <1>1
  <2> QED
    BY <2>1, <2>2 DEF Proc
<1>3. Typed'
  <2>1. server' \in [Servers -> Proc]
    BY <1>1, <1>2
  <2>2. buf' \in Seq(Piece)
    <3>1. buf' = <<>>
      BY <1>1, Zenon
    <3> QED
      BY <3>1
  <2>3. asked' \in Seq([cmd : Commands \cup {Quit}, to : Servers])
    <3>1. asked' = <<>>
      BY <1>1, Zenon
    <3> QED
      BY <3>1
  <2>4. heard' \in [Servers -> Seq(Reply)]
    <3>1. <<>> \in Seq(Reply)
      OBVIOUS
    <3> QED
      BY <1>1, <3>1
  <2> QED
    BY <1>1, <2>1, <2>2, <2>3, <2>4 DEF ProcInv, Typed
<1>4. OneUp'
  BY <1>2 DEF ProcInv, OneUp
<1>5. Unread'
  <2>2. \A i \in 1..Len(<<>>) : FALSE
    OBVIOUS
  <2>3. \A i \in 1..Len(buf') : server'[buf'[i].s].st \in Known
    <3>1. buf' = <<>>
      BY <1>1, Zenon
    <3> QED
      BY <2>2, <3>1, Zenon
  <2>4. \A s \in Servers : \A i \in 1..Len(server'[s].out) : server'[s].out[i].s = s
    BY <1>2, <2>2
  <2> QED
    BY <1>2, <2>3, <2>4 DEF Unread
<1>6. Untouched'
  BY <1>1, <1>2 DEF Untouched
<1>7. SafeAlone' /\ OneSearch'
  BY <1>1, <1>2 DEF SafeAlone, Safe, OneSearch
<1> QED
  BY <1>2, <1>3, <1>4, <1>5, <1>6, <1>7, Forgotten DEF ProcInv

LEMMA SignalledTyped ==
  ASSUME NEW v \in Proc, NEW late \in BOOLEAN
  PROVE  /\ Signalled(v, late) \in Proc
         /\ Signalled(v, late).st = "up" => v.st = "up"
         /\ Signalled(v, late).st \in Known <=> v.st \in Known
         /\ Signalled(v, late).st = "none" <=> v.st = "none"
         /\ Signalled(v, late).out = v.out /\ Signalled(v, late).inp = v.inp
         /\ Signalled(v, late).safe = v.safe
<1>1. CASE v.st \notin Alive
  BY <1>1 DEF Signalled
<1>2. CASE v.st \in Alive /\ (v.st = "starting" \/ v.term # "no")
  <2>1. Signalled(v, late) = [v EXCEPT !.st = "dead"]
    BY <1>2 DEF Signalled
  <2> QED
    BY <1>2, <2>1 DEF Proc, Known, Alive
<1>3. CASE v.st \in Alive /\ ~(v.st = "starting" \/ v.term # "no")
  <2>1. Signalled(v, late) = [v EXCEPT !.term = IF late THEN "late" ELSE "seen"]
    BY <1>3 DEF Signalled
  <2> QED
    BY <2>1 DEF Proc
<1> QED
  BY <1>1, <1>2, <1>3

LEMMA EmacsExitsKeeps ==
  ASSUME ProcInv, EmacsExits
  PROVE  ProcInv' /\ \A t \in Servers : DStep(t)
<1>1. PICK late \in SUBSET Servers :
        EmacsEnds([s \in Servers |-> Signalled(server[s], s \in late)])
  BY DEF EmacsExits
<1> DEFINE after == [s \in Servers |-> Signalled(server[s], s \in late)]
<1>2. ASSUME NEW s \in Servers
      PROVE  /\ after[s] \in Proc
             /\ after[s].st = "up" => server[s].st = "up"
  <2>1. server[s] \in Proc
    BY DEF ProcInv, Typed
  <2>2. (s \in late) \in BOOLEAN
    OBVIOUS
  <2> QED
    BY <2>1, <2>2, SignalledTyped
<1>3. after \in [Servers -> Proc] /\ EmacsEnds(after)
  BY <1>1, <1>2
<1> HIDE DEF after
<1> QED
  BY <1>2, <1>3, EmacsEndsKeeps

LEMMA EmacsCrashesKeeps ==
  ASSUME ProcInv, EmacsCrashes
  PROVE  ProcInv' /\ \A t \in Servers : DStep(t)
BY EmacsEndsKeeps DEF EmacsCrashes, ProcInv, Typed

-----------------------------------------------------------------------------
(* What the filter makes of the buffer.                                    *)

LEMMA FromTyped ==
  ASSUME buf \in Seq(Piece), NEW j \in 1..(Len(buf) + 1)
  PROVE  /\ From(j) \in Seq(Piece)
         /\ \A i \in 1..Len(From(j)) : \E m \in 1..Len(buf) : From(j)[i] = buf[m]
<1>1. Len(buf) \in Nat /\ j \in Nat \ {0}
  OBVIOUS
<1>2. /\ SubSeq(buf, j, Len(buf)) \in Seq(Piece)
      /\ \A i \in 1..Len(SubSeq(buf, j, Len(buf))) :
           /\ j + i - 1 \in 1..Len(buf)
           /\ SubSeq(buf, j, Len(buf))[i] = buf[j + i - 1]
  BY <1>1, Slice
<1> QED
  BY <1>2, Zenon DEF From

LEMMA EatenTyped ==
  ASSUME buf \in Seq(Piece), NEW eaten \in EatSexp
  PROVE  /\ eaten.rest \in Seq(Piece)
         /\ \A i \in 1..Len(eaten.rest) : \E m \in 1..Len(buf) : eaten.rest[i] = buf[m]
         /\ eaten.got \in {"nothing", "garbage", "reply"}
         /\ eaten.got = "reply" => \E m \in 1..Len(buf) : eaten.piece = buf[m]
<1> DEFINE From1(rest) ==
             /\ rest \in Seq(Piece)
             /\ \A i \in 1..Len(rest) : \E m \in 1..Len(buf) : rest[i] = buf[m]
<1>1. From1(buf) /\ Len(buf) \in Nat
  OBVIOUS
<1>2. \A j \in 1..(Len(buf) + 1) : From1(From(j))
  BY FromTyped
<1> HIDE DEF From1
<1>3. SUFFICES /\ From1(eaten.rest)
               /\ eaten.got \in {"nothing", "garbage", "reply"}
               /\ eaten.got = "reply" => \E m \in 1..Len(buf) : eaten.piece = buf[m]
  BY DEF From1
<1>4. CASE eaten = Nothing(buf)
  BY <1>1, <1>4 DEF Nothing
<1>5. CASE eaten # Nothing(buf)
  <2> DEFINE i == Next1(Cookies)
  <2>1. Cookies # {}
    BY <1>5 DEF EatSexp
  <2>2. i \in 1..Len(buf)
    <3>1. Cookies \subseteq 1..Len(buf)
      BY DEF Cookies
    <3>2. Cookies \in SUBSET Nat
      BY <3>1
    <3> QED
      BY <2>1, <3>1, <3>2, Next1Least
  <2>3. eaten \in IF i = Len(buf) THEN {Nothing(buf)}
         ELSE IF buf[i + 1].part = "sexp" /\ buf[i + 1].s = buf[i].s
             THEN IF buf[i + 1].reply.kind = "quiting"
                  THEN {Nothing(From(i + 1))}
                  ELSE {Expression(From(i + 2), buf[i + 1])}
           ELSE {Nothing(buf)}
                \cup {[rest |-> From(j), got |-> "garbage"] :
                        j \in (i + 2)..(Len(buf) + 1)}
    BY <2>1 DEF EatSexp
  <2> HIDE DEF i
  <2>4. /\ i + 1 \in 1..Len(buf)
        /\ \/ eaten = Nothing(From(i + 1))
           \/ eaten = Expression(From(i + 2), buf[i + 1])
           \/ \E j \in (i + 2)..(Len(buf) + 1) :
                eaten = [rest |-> From(j), got |-> "garbage"]
    <3>1. i # Len(buf)
      BY <1>5, <2>3
    <3>2. i + 1 \in 1..Len(buf)
      BY <1>1, <2>2, <3>1
    <3>3. \/ eaten = Nothing(From(i + 1))
          \/ eaten = Expression(From(i + 2), buf[i + 1])
          \/ \E j \in (i + 2)..(Len(buf) + 1) :
                eaten = [rest |-> From(j), got |-> "garbage"]
      BY <1>5, <2>3, <3>1
    <3> QED
      BY <3>2, <3>3
  <2>5. /\ i + 1 \in 1..(Len(buf) + 1) /\ i + 2 \in 1..(Len(buf) + 1)
        /\ \A j \in (i + 2)..(Len(buf) + 1) : j \in 1..(Len(buf) + 1)
    BY <1>1, <2>2, <2>4
  <2>6. CASE eaten = Nothing(From(i + 1))
    BY <1>2, <2>5, <2>6 DEF Nothing
  <2>7. CASE eaten = Expression(From(i + 2), buf[i + 1])
    BY <1>2, <2>4, <2>5, <2>7 DEF Expression
  <2>8. CASE \E j \in (i + 2)..(Len(buf) + 1) :
                eaten = [rest |-> From(j), got |-> "garbage"]
    BY <1>2, <2>5, <2>8
  <2> QED
    BY <2>4, <2>6, <2>7, <2>8
<1> QED
  BY <1>4, <1>5

LEMMA SafeEats ==
  ASSUME ProcInv, NEW s \in Servers, Safe(s), NEW eaten \in EatSexp
  PROVE  \/ eaten = Nothing(buf)
         \/ /\ Len(buf) >= 2 /\ eaten = Expression(From(3), buf[2])
            /\ buf[2].part = "sexp" /\ buf[2].s = s
<1> DEFINE o == server[s].out
           u == buf \o o
<1>1. buf \in Seq(Piece) /\ o \in Seq(Piece)
  BY DEF ProcInv, Typed, Proc
<1>2. Row(s, u)
  BY DEF ProcInv, SafeAlone, Unhandled
<1> HIDE DEF o
<1>3. /\ Len(buf) \in Nat /\ Len(u) \in Nat /\ Len(u) >= Len(buf)
      /\ \A i \in 1..Len(buf) : i \in 1..Len(u) /\ u[i] = buf[i]
  <2>1. Len(buf) \in Nat /\ Len(o) \in Nat
    BY <1>1
  <2>2. /\ Len(u) = Len(buf) + Len(o)
        /\ \A i \in 1..Len(buf) + Len(o) :
             u[i] = IF i <= Len(buf) THEN buf[i] ELSE o[i - Len(buf)]
    BY <1>1, ConcatProperties
  <2> HIDE DEF u
  <2> QED
    BY <2>1, <2>2
<1> HIDE DEF u
<1>4. CASE Len(buf) = 0
  <2>1. Cookies = {}
    BY <1>1, <1>4 DEF Cookies
  <2> QED
    BY <2>1 DEF EatSexp
<1>5. CASE Len(buf) > 0
  <2>1. 1 \in 1..Len(buf) /\ u[1] = buf[1] /\ Len(u) >= 1
    BY <1>3, <1>5
  <2>2. buf[1].part = "cookie" /\ buf[1].s = s
    <3>1. 0 \in Nat /\ 2 * 0 + 1 = 1 /\ 2 * 0 + 1 <= Len(u)
      BY <1>3, <2>1
    <3>2. u[2 * 0 + 1].part = "cookie"
      BY <1>2, <3>1 DEF Row
    <3>3. u[1].s = s
      BY <1>2, <1>3, <2>1 DEF Row
    <3> QED
      BY <2>1, <3>1, <3>2, <3>3
  <2>3. Next1(Cookies) = 1 /\ Cookies # {}
    <3>1. 1 \in Cookies /\ Cookies \subseteq 1..Len(buf)
      BY <1>1, <2>1, <2>2 DEF Cookies
    <3>2. Cookies \in SUBSET Nat
      BY <3>1
    <3>3. Next1(Cookies) \in 1..Len(buf) /\ Next1(Cookies) <= 1
      BY <3>1, <3>2, Next1Least
    <3> QED
      BY <1>3, <3>1, <3>3
  <2>4. CASE Len(buf) = 1
    BY <2>3, <2>4 DEF EatSexp
  <2>5. CASE Len(buf) # 1
    <3>1. 2 \in 1..Len(buf) /\ u[2] = buf[2] /\ Len(u) >= 2 /\ Len(buf) >= 2
      <4>1. Len(buf) \in Nat /\ Len(buf) >= 2 /\ Len(u) >= 2
        BY <1>3, <1>5, <2>5
      <4>2. 2 \in 1..Len(buf)
        BY <4>1
      <4>3. u[2] = buf[2]
        BY <1>3, <4>2
      <4> QED
        BY <4>1, <4>2, <4>3
    <3>2. 1 \in Nat \ {0} /\ 2 * 1 = 2 /\ 2 * 1 <= Len(u)
      BY <3>1
    <3>3. u[2 * 1].part = "sexp" /\ u[2 * 1].reply.kind # "quiting"
      BY <1>2, <3>2 DEF Row
    <3>4. u[2].s = s
      BY <1>2, <1>3, <3>1 DEF Row
    <3>5. /\ buf[1 + 1].part = "sexp" /\ buf[1 + 1].reply.kind # "quiting"
          /\ buf[1 + 1].s = buf[1].s /\ buf[2].s = s /\ buf[2].part = "sexp"
      BY <2>2, <3>1, <3>2, <3>3, <3>4
    <3>6. eaten = Expression(From(1 + 2), buf[1 + 1])
      BY <2>3, <2>5, <3>5 DEF EatSexp
    <3> QED
      BY <3>1, <3>5, <3>6
  <2> QED
    BY <2>4, <2>5
<1> QED
  BY <1>3, <1>4, <1>5

\* What is left of the buffer after its first reply, with what follows it.
LEMMA RestConcat ==
  ASSUME buf \in Seq(Piece), Len(buf) >= 2, NEW o \in Seq(Piece)
  PROVE  /\ From(3) \o o = SubSeq(buf \o o, 3, Len(buf \o o))
         /\ (buf \o o)[2] = buf[2] /\ Len(buf \o o) >= 2
<1> DEFINE u == buf \o o
           r == SubSeq(u, 3, Len(u))
           f == SubSeq(buf, 3, Len(buf))
           b == Len(buf)
           l == Len(o)
<1>1. b \in Nat /\ l \in Nat /\ b >= 2
  OBVIOUS
<1>2. /\ u \in Seq(Piece) /\ Len(u) = b + l
      /\ \A i \in 1..b + l : u[i] = IF i <= b THEN buf[i] ELSE o[i - b]
  BY ConcatProperties
<1> HIDE DEF u
<1>3. /\ f \in Seq(Piece)
      /\ Len(f) = IF 3 <= b THEN b - 3 + 1 ELSE 0
      /\ \A i \in 1..Len(f) : 3 + i - 1 \in 1..b /\ f[i] = buf[3 + i - 1]
  BY <1>1, Slice
<1>4. /\ r \in Seq(Piece)
      /\ Len(r) = IF 3 <= Len(u) THEN Len(u) - 3 + 1 ELSE 0
      /\ \A i \in 1..Len(r) : 3 + i - 1 \in 1..Len(u) /\ r[i] = u[3 + i - 1]
  <2>1. Len(u) \in Nat /\ 3 \in Nat \ {0}
    BY <1>1, <1>2
  <2> QED
    BY <1>2, <2>1, Slice
<1> HIDE DEF f, r, b, l
<1>5. Len(f) = b - 2 /\ Len(r) = b + l - 2
  <2>1. Len(f) = b - 2
    BY <1>1, <1>3
  <2>2. Len(r) = b + l - 2
    BY <1>1, <1>2, <1>4
  <2> QED
    BY <2>1, <2>2
<1>6. /\ f \o o \in Seq(Piece) /\ Len(f \o o) = b + l - 2
      /\ \A i \in 1..(b + l - 2) : (f \o o)[i] = IF i <= b - 2 THEN f[i] ELSE o[i - (b - 2)]
  <2>1. f \in Seq(Piece)
    BY <1>3
  <2>2. /\ f \o o \in Seq(Piece) /\ Len(f \o o) = Len(f) + Len(o)
        /\ \A i \in 1..Len(f) + Len(o) :
             (f \o o)[i] = IF i <= Len(f) THEN f[i] ELSE o[i - Len(f)]
    BY <2>1, ConcatProperties
  <2>3. Len(f) = b - 2 /\ Len(f) + Len(o) = b + l - 2
    BY <1>1, <1>5 DEF l
  <2> QED
    BY <2>2, <2>3
<1>7. ASSUME NEW i \in 1..(b + l - 2) PROVE (f \o o)[i] = r[i]
  <2>1. r[i] = u[i + 2] /\ i + 2 \in 1..(b + l)
    <3>1. 3 + i - 1 = i + 2 /\ i + 2 \in 1..(b + l)
      BY <1>1
    <3> QED
      BY <1>4, <1>5, <3>1
  <2>2. CASE i <= b - 2
    <3>1. i \in 1..Len(f) /\ 3 + i - 1 = i + 2 /\ i + 2 <= b
      BY <1>1, <1>5, <2>2
    <3> QED
      BY <1>2, <1>3, <1>6, <2>1, <2>2, <3>1
  <2>3. CASE ~(i <= b - 2)
    <3>1. ~(i + 2 <= b) /\ (i + 2) - b = i - (b - 2)
      BY <1>1, <2>3
    <3>2. u[i + 2] = o[(i + 2) - b]
      BY <1>2, <2>1, <3>1
    <3>3. (f \o o)[i] = o[i - (b - 2)]
      BY <1>6, <2>3
    <3> QED
      BY <2>1, <3>1, <3>2, <3>3
  <2> QED
    BY <2>2, <2>3
<1>8. f \o o = r
  BY <1>4, <1>5, <1>6, <1>7, SeqEqual
<1>9. u[2] = buf[2] /\ Len(u) >= 2
  <2>1. 2 \in 1..(b + l) /\ 2 <= b
    BY <1>1
  <2> QED
    BY <1>1, <1>2, <2>1
<1> QED
  BY <1>8, <1>9, Zenon DEF From, f, r, u

LEMMA FirstReplyEaten ==
  ASSUME ProcInv, NEW s \in Servers, Safe(s), Len(buf) >= 2, buf[2].s = s,
         buf[2].part = "sexp"
  PROVE  LET rest == From(3) \o server[s].out
         IN  /\ Row(s, rest)
             /\ server[s].st \in Alive => Whole(rest)
             /\ Announced(s, Shown(buf[2]), rest)
             /\ \E x : Shown(buf[2]) \subseteq {x}
             /\ Said(s) # <<>> /\ Head(Said(s)) = buf[2].reply
             /\ Tail(Said(s)) = RepliesOf(s, rest)
<1> DEFINE o == server[s].out
           u == buf \o o
           rest == From(3) \o o
           x == buf[2]
<1>1. buf \in Seq(Piece) /\ o \in Seq(Piece) /\ server[s].safe
  BY DEF ProcInv, Typed, Proc, Safe
<1>2. /\ Row(s, u) /\ (server[s].st \in Alive => Whole(u))
      /\ Announced(s, shown, u)
  BY DEF ProcInv, SafeAlone, Unhandled
<1> HIDE DEF o
<1>3. rest = SubSeq(u, 3, Len(u)) /\ u[2] = x /\ Len(u) >= 2
  BY <1>1, RestConcat
<1>4. Said(s) = RepliesOf(s, u)
  BY DEF Said, o
<1> HIDE DEF u, rest
<1>5. /\ Row(s, rest) /\ (Whole(u) => Whole(rest))
      /\ RowReplies(u) # <<>> /\ Head(RowReplies(u)) = x.reply
      /\ Tail(RowReplies(u)) = RowReplies(rest)
  <2> DEFINE r == SubSeq(u, 3, Len(u))
  <2>1. /\ Row(s, r) /\ (Whole(u) => Whole(r))
        /\ RowReplies(u) # <<>> /\ Head(RowReplies(u)) = u[2].reply
        /\ Tail(RowReplies(u)) = RowReplies(r)
    BY <1>2, <1>3, RowRest
  <2> QED
    BY <1>3, <2>1, Zenon
<1>6. /\ IsErase(x) => Announced(s, {}, rest)
      /\ IsHeader(x) => /\ shown \subseteq {<<s, x.reply.n>>}
                        /\ Announced(s, {<<s, x.reply.n>>}, rest)
      /\ ~IsErase(x) /\ ~IsHeader(x) => Announced(s, shown, rest)
  <2> DEFINE r == SubSeq(u, 3, Len(u))
  <2>1. /\ IsErase(u[2]) => Announced(s, {}, r)
        /\ IsHeader(u[2]) => /\ shown \subseteq {<<s, u[2].reply.n>>}
                             /\ Announced(s, {<<s, u[2].reply.n>>}, r)
        /\ ~IsErase(u[2]) /\ ~IsHeader(u[2]) => Announced(s, shown, r)
    BY <1>2, <1>3, AnnouncedRest
  <2> QED
    BY <1>3, <2>1, Zenon
<1>7. RepliesOf(s, u) = RowReplies(u) /\ RepliesOf(s, rest) = RowReplies(rest)
  BY <1>2, <1>5, RepliesOfRow
<1>8. Announced(s, Shown(x), rest) /\ \E y : Shown(x) \subseteq {y}
  <2>1. PICK z : shown \subseteq {z}
    BY DEF ProcInv, OneSearch
  <2>2. CASE x.reply.kind = "erase"
    <3>1. Shown(x) = {} /\ IsErase(x)
      BY <2>2 DEF Shown, IsErase
    <3> QED
      BY <1>6, <3>1
  <2>3. CASE x.reply.kind = "header"
    <3>1. IsHeader(x) /\ Shown(x) = shown \cup {<<s, x.reply.n>>}
      BY <1>1, <2>3 DEF Shown, IsHeader
    <3>2. Shown(x) = {<<s, x.reply.n>>}
      BY <1>6, <3>1
    <3> QED
      BY <1>6, <3>1, <3>2
  <2>4. CASE x.reply.kind \notin {"erase", "header"}
    <3>1. Shown(x) = shown /\ ~IsErase(x) /\ ~IsHeader(x)
      BY <2>4 DEF Shown, IsErase, IsHeader
    <3> QED
      BY <1>6, <2>1, <3>1
  <2> QED
    BY <2>2, <2>3, <2>4
<1>9. /\ Said(s) # <<>> /\ Head(Said(s)) = x.reply
      /\ Tail(Said(s)) = RepliesOf(s, rest)
  BY <1>4, <1>5, <1>7, Zenon
<1>10. server[s].st \in Alive => Whole(rest)
  BY <1>2, <1>5
<1> QED
  BY <1>5, <1>8, <1>9, <1>10, Zenon DEF rest, o

LEMMA EatKeeps ==
  ASSUME ProcInv, Eat
  PROVE  ProcInv' /\ \A t \in Servers : DStep(t)
<1>1. PICK eaten \in EatSexp :
       /\ buf' = eaten.rest
       /\ CASE eaten.got = "reply" ->
                 LET s == eaten.piece.s
                 IN  /\ heard' = IF server[s].safe
                                 THEN [heard EXCEPT ![s] = Append(@, eaten.piece.reply)]
                                 ELSE heard
                     /\ shown' = Shown(eaten.piece)
                     /\ filtering' = (eaten.piece.reply.kind # "error")
            [] eaten.got = "nothing" ->
                 filtering' = FALSE /\ UNCHANGED <<heard, shown>>
            [] eaten.got = "garbage" -> UNCHANGED <<filtering, heard, shown>>
  BY DEF Eat
<1>2. filtering /\ emacs = "up" /\ UNCHANGED <<emacs, cur, server, asked, faults>>
  BY DEF Eat, ProcInv, Typed
<1> DEFINE x == eaten.piece
<1>3. /\ buf \in Seq(Piece) /\ server \in [Servers -> Proc]
      /\ heard \in [Servers -> Seq(Reply)]
  BY DEF ProcInv, Typed
<1>4. /\ eaten.rest \in Seq(Piece)
      /\ \A i \in 1..Len(eaten.rest) : \E m \in 1..Len(buf) : eaten.rest[i] = buf[m]
      /\ eaten.got \in {"nothing", "garbage", "reply"}
      /\ eaten.got = "reply" => \E m \in 1..Len(buf) : x = buf[m]
  BY <1>3, EatenTyped
<1>5. ASSUME eaten.got = "reply"
      PROVE  /\ heard' = IF server[x.s].safe
                         THEN [heard EXCEPT ![x.s] = Append(@, x.reply)] ELSE heard
             /\ shown' = Shown(x)
             /\ filtering' \in BOOLEAN
             /\ x.s \in Servers /\ x.reply \in Reply /\ server[x.s].st \in Known
  <2>1. PICK m \in 1..Len(buf) : x = buf[m]
    BY <1>4, <1>5
  <2>2. x.s \in Servers /\ x.reply \in Reply
    BY <1>3, <2>1, OwnerTyped
  <2>3. server[x.s].st \in Known
    BY <2>1 DEF ProcInv, Unread
  <2>4. /\ heard' = IF server[x.s].safe
                    THEN [heard EXCEPT ![x.s] = Append(@, x.reply)] ELSE heard
        /\ shown' = Shown(x)
        /\ filtering' = (x.reply.kind # "error")
    BY <1>1, <1>5
  <2> QED
    BY <2>2, <2>3, <2>4
<1>6. ASSUME eaten.got # "reply"
      PROVE  heard' = heard /\ shown' = shown /\ filtering' \in BOOLEAN
  <2>1. CASE eaten.got = "nothing"
    BY <1>1, <2>1
  <2>2. CASE eaten.got = "garbage"
    BY <1>1, <1>2, <2>2
  <2> QED
    BY <1>4, <1>6, <2>1, <2>2
<1>7. ASSUME NEW s \in Servers, Safe(s)
      PROVE  \/ buf' = buf /\ heard' = heard /\ shown' = shown
             \/ /\ Len(buf) >= 2 /\ buf[2].s = s /\ buf[2].part = "sexp"
                /\ buf' = From(3) /\ shown' = Shown(buf[2])
                /\ heard' = [heard EXCEPT ![s] = Append(@, buf[2].reply)]
  <2>1. CASE eaten = Nothing(buf)
    <3>1. eaten.rest = buf /\ eaten.got # "reply"
      BY <2>1 DEF Nothing
    <3> QED
      BY <1>1, <1>6, <3>1
  <2>2. CASE /\ Len(buf) >= 2 /\ eaten = Expression(From(3), buf[2])
             /\ buf[2].part = "sexp" /\ buf[2].s = s
    <3>1. eaten.rest = From(3) /\ eaten.got = "reply" /\ x = buf[2]
      BY <2>2 DEF Expression
    <3>2. server[s].safe
      BY <1>7 DEF Safe
    <3> QED
      BY <1>1, <1>5, <2>2, <3>1, <3>2
  <2> QED
    BY <1>7, <2>1, <2>2, SafeEats
<1>8. ASSUME NEW s \in Servers PROVE server'[s] = server[s] /\ (Safe(s)' <=> Safe(s))
  BY <1>2 DEF Safe
<1>9. Typed'
  <2>1. heard' \in [Servers -> Seq(Reply)]
    <3>1. CASE eaten.got # "reply"
      BY <1>3, <1>6, <3>1
    <3>2. CASE eaten.got = "reply"
      <4>1. heard[x.s] \in Seq(Reply) /\ Append(heard[x.s], x.reply) \in Seq(Reply)
        BY <1>3, <1>5, <3>2, AppendTyped
      <4> QED
        BY <1>3, <1>5, <3>2, <4>1
    <3> QED
      BY <3>1, <3>2
  <2>2. filtering' \in BOOLEAN
    BY <1>5, <1>6
  <2>3. buf' \in Seq(Piece)
    BY <1>1, <1>4
  <2> QED
    BY <1>2, <2>1, <2>2, <2>3 DEF ProcInv, Typed
<1>10. OneUp' /\ Untouched'
  BY <1>2 DEF ProcInv, OneUp, Untouched
<1>11. Unread'
  <2>1. ASSUME NEW i \in 1..Len(buf') PROVE server'[buf'[i].s].st \in Known
    <3>1. PICK m \in 1..Len(buf) : buf'[i] = buf[m]
      BY <1>1, <1>4
    <3> QED
      BY <1>2, <3>1 DEF ProcInv, Unread
  <2> QED
    BY <1>2, <2>1 DEF ProcInv, Unread
<1>12. SafeAlone'
  <2> SUFFICES ASSUME NEW t \in Servers, Safe(t)'
               PROVE  /\ \A y \in Servers : server'[y].st \in Known => y = t
                      /\ server'[t].inp \in Seq([n : Nat, cmd : Commands])
                      /\ Row(t, Unhandled(t)')
                      /\ server'[t].st \in Alive => Whole(Unhandled(t)')
                      /\ Announced(t, shown', Unhandled(t)')
    BY DEF SafeAlone, Row, Whole, Announced, BegunAt, SameFrom, IsErase, IsHeader
  <2>1. Safe(t) /\ server' = server /\ Unhandled(t)' = buf' \o server[t].out
    BY <1>2, <1>8 DEF Unhandled
  <2>2. /\ \A y \in Servers : server[y].st \in Known => y = t
        /\ server[t].inp \in Seq([n : Nat, cmd : Commands])
        /\ Row(t, Unhandled(t))
        /\ server[t].st \in Alive => Whole(Unhandled(t))
        /\ Announced(t, shown, Unhandled(t))
    BY <2>1 DEF ProcInv, SafeAlone
  <2>3. CASE buf' = buf /\ shown' = shown
    <3>1. Unhandled(t)' = Unhandled(t)
      BY <2>1, <2>3 DEF Unhandled
    <3> QED
      BY <2>1, <2>2, <2>3, <3>1
  <2>4. CASE /\ Len(buf) >= 2 /\ buf[2].s = t /\ buf[2].part = "sexp"
             /\ buf' = From(3) /\ shown' = Shown(buf[2])
    <3> DEFINE rest == From(3) \o server[t].out
    <3>1. /\ Row(t, rest)
          /\ server[t].st \in Alive => Whole(rest)
          /\ Announced(t, Shown(buf[2]), rest)
      BY <2>1, <2>4, FirstReplyEaten
    <3>2. Unhandled(t)' = rest
      BY <2>1, <2>4
    <3> HIDE DEF rest
    <3> QED
      BY <2>1, <2>2, <2>4, <3>1, <3>2
  <2> QED
    BY <1>7, <2>1, <2>3, <2>4
<1>13. OneSearch'
  <2>1. CASE shown' \subseteq shown
    BY <2>1 DEF ProcInv, OneSearch
  <2>2. CASE ~(shown' \subseteq shown)
    <3>1. eaten.got = "reply"
      BY <1>6, <2>2
    <3>2. server[x.s].safe
      BY <1>5, <2>2, <3>1 DEF Shown
    <3>3. Safe(x.s) /\ x.s \in Servers
      BY <1>5, <3>1, <3>2 DEF Safe
    <3>4. /\ Len(buf) >= 2 /\ buf[2].s = x.s /\ buf[2].part = "sexp"
          /\ shown' = Shown(buf[2])
      BY <1>7, <2>2, <3>3
    <3>5. \E y : Shown(buf[2]) \subseteq {y}
      BY <3>3, <3>4, FirstReplyEaten
    <3> QED
      BY <3>4, <3>5 DEF OneSearch
  <2> QED
    BY <2>1, <2>2
<1>14. ProcInv'
  BY <1>9, <1>10, <1>11, <1>12, <1>13 DEF ProcInv
<1>15. ASSUME NEW t \in Servers PROVE DStep(t)
  <2>1. CASE ~server[t].safe
    BY <1>8, <2>1, Forgotten
  <2>2. CASE server[t].st \notin Known
    <3>1. heard'[t] = heard[t]
      <4>1. CASE eaten.got = "reply"
        BY <1>3, <1>5, <2>2, <4>1
      <4>2. CASE eaten.got # "reply"
        BY <1>6, <4>2
      <4> QED
        BY <4>1, <4>2
    <3> QED
      BY <1>8, <1>14, <2>2, <3>1, Bystander
  <2>3. CASE Safe(t)
    <3>1. CASE buf' = buf /\ heard' = heard
      BY <1>8, <1>14, <3>1, Bystander
    <3>2. CASE /\ Len(buf) >= 2 /\ buf[2].s = t /\ buf[2].part = "sexp"
               /\ buf' = From(3)
               /\ heard' = [heard EXCEPT ![t] = Append(@, buf[2].reply)]
      <4>1. /\ Said(t) # <<>> /\ Head(Said(t)) = buf[2].reply
            /\ Tail(Said(t)) = RepliesOf(t, From(3) \o server[t].out)
        BY <2>3, <3>2, FirstReplyEaten
      <4>2. Said(t)' = Tail(Said(t))
        BY <1>2, <3>2, <4>1 DEF Said
      <4>3. heard'[t] = Append(heard[t], Head(Said(t)))
        BY <1>3, <3>2, <4>1
      <4>4. D(t)!Hear
        BY <1>8, <4>1, <4>2, <4>3 DEF D!Hear
      <4> QED
        BY <4>4 DEF DStep, D!Next
    <3> QED
      BY <1>7, <2>3, <3>1, <3>2
  <2> QED
    BY <2>1, <2>2, <2>3 DEF Safe
<1> QED
  BY <1>14, <1>15

-----------------------------------------------------------------------------
(* What Emacs sends.                                                       *)

\* Fewer headers shown leave more to be announced only by what is shown.
LEMMA AnnouncedFewer ==
  ASSUME NEW s, NEW sh, NEW p, Announced(s, sh, p), NEW t, t \subseteq sh
  PROVE  Announced(s, t, p)
<1> SUFFICES ASSUME NEW i \in 1..Len(p), IsHeader(p[i])
             PROVE  BegunAt(p, i) \/ (t \subseteq {<<s, p[i].reply.n>>} /\ SameFrom(p, 1, i))
  BY DEF Announced
<1> QED
  BY DEF Announced

\* Nothing is left in the buffer of a server that was just started.
LEMMA NothingAnnounced ==
  ASSUME NEW s, NEW sh, NEW p, p = <<>>
  PROVE  Row(s, p) /\ Whole(p) /\ Announced(s, sh, p)
<1>1. p \in Seq(Piece) /\ Len(p) = 0 /\ 0 \in Nat /\ 0 = 2 * 0
  OBVIOUS
<1>2. \A i \in 1..Len(p) : FALSE
  BY <1>1
<1>3. \A m \in Nat : ~(2 * m + 1 <= Len(p))
  BY <1>1
<1>4. \A m \in Nat \ {0} : ~(2 * m <= Len(p))
  BY <1>1
<1> QED
  BY <1>1, <1>2, <1>3, <1>4 DEF Row, Whole, Announced

LEMMA FreshTyped ==
  ASSUME Fresh # {}
  PROVE  Next1(Fresh) \in Servers /\ server[Next1(Fresh)].st = "none"
<1>1. Fresh \in SUBSET Nat
  BY ProcBounds DEF Fresh, Servers
<1>2. Next1(Fresh) \in Fresh
  BY <1>1, Next1Least
<1> QED
  BY <1>2 DEF Fresh

LEMMA LineTyped ==
  ASSUME ProcInv, NEW C, NEW cmd \in C
  PROVE  Line(cmd) \in [n : Nat, cmd : C]
<1>1. asked \in Seq([cmd : Commands \cup {Quit}, to : Servers])
  BY DEF ProcInv, Typed
<1>2. Len(asked) + 1 \in Nat
  BY <1>1
<1> QED
  BY <1>2 DEF Line

\* A line for the current process, m is what becomes of the servers.
LEMMA ToCurrentServers ==
  ASSUME ProcInv, Running, NEW line \in Order
  PROVE  LET m == ToCurrent(line).server
         IN  /\ m \in [Servers -> Proc] /\ cur \in Servers
             /\ server[cur].st \in Known
             /\ \A t \in Servers \ {cur} : m[t] = server[t]
             /\ m[cur] = IF server[cur].st \in Alive
                         THEN [server[cur] EXCEPT !.inp = Append(@, line)]
                         ELSE server[cur]
             /\ \A t \in Servers : /\ m[t].st = server[t].st
                                   /\ m[t].out = server[t].out
                                   /\ m[t].safe = server[t].safe
<1> DEFINE m == ToCurrent(line).server
<1>1. server \in [Servers -> Proc] /\ cur \in Servers /\ server[cur].st \in Known
  BY DEF Running, ProcInv, Typed, NoServer
<1>2. server[cur] \in Proc /\ server[cur].inp \in Seq(Order)
  BY <1>1 DEF Proc
<1>3. m = IF server[cur].st \in Alive
          THEN [server EXCEPT ![cur].inp = Append(@, line)] ELSE server
  BY DEF ToCurrent
<1> HIDE DEF m
<1> DEFINE v == [server[cur] EXCEPT !.inp = Append(@, line)]
<1>4. Append(server[cur].inp, line) \in Seq(Order)
  BY <1>2, AppendTyped
<1>5. /\ v \in Proc /\ v.st = server[cur].st /\ v.out = server[cur].out
      /\ v.safe = server[cur].safe
  BY <1>2, <1>4 DEF Proc
<1> HIDE DEF v
<1>6. CASE server[cur].st \in Alive
  <2>1. m = [server EXCEPT ![cur] = v]
    BY <1>1, <1>3, <1>6 DEF v
  <2>2. m \in [Servers -> Proc] /\ m[cur] = v /\ \A t \in Servers \ {cur} : m[t] = server[t]
    BY <1>1, <1>5, <2>1
  <2> QED
    BY <1>1, <1>5, <1>6, <2>2 DEF v, m
<1>7. CASE server[cur].st \notin Alive
  BY <1>1, <1>3, <1>7 DEF m
<1> QED
  BY <1>6, <1>7

\* A line for a new process.
Others == {s \in Servers : server[s].st \in Known}

LEMMA ProcStartServers ==
  ASSUME ProcInv, Fresh # {}, NEW line \in Order
  PROVE  LET m   == ProcStart(line).server
             new == Next1(Fresh)
         IN  /\ m \in [Servers -> Proc] /\ new \in Servers
             /\ server[new].st = "none"
             /\ m[new].st = "starting" /\ m[new].inp = <<line>>
             /\ m[new].out = <<>> /\ m[new].safe = (Others = {})
             /\ \A t \in Servers \ {new} : /\ m[t].st = server[t].st
                                           /\ m[t].out = server[t].out
                                           /\ m[t].safe => t \notin Others
                                           /\ t \notin Others => m[t] = server[t]
<1> DEFINE m == ProcStart(line).server
           new == Next1(Fresh)
           v == [NotStarted EXCEPT !.st = "starting", !.inp = <<line>>,
                                   !.safe = (Others = {})]
           u(t) == [server[t] EXCEPT !.safe = @ /\ t \notin Others]
<1>1. server \in [Servers -> Proc] /\ new \in Servers /\ server[new].st = "none"
  BY FreshTyped DEF ProcInv, Typed
<1>2. m = [s \in Servers |-> IF s = new THEN v ELSE u(s)]
  BY DEF ProcStart, Others
<1>3. /\ v \in Proc /\ v.st = "starting" /\ v.inp = <<line>> /\ v.out = <<>>
      /\ v.safe = (Others = {})
  <2>1. <<line>> \in Seq(Order) /\ <<>> \in Seq(Piece)
    OBVIOUS
  <2> DEFINE b == Others = {}
  <2>2. b \in BOOLEAN
    OBVIOUS
  <2>3. NotStarted \in Proc
    BY <2>1 DEF NotStarted, Proc
  <2>4. v = [NotStarted EXCEPT !.st = "starting", !.inp = <<line>>, !.safe = b]
    OBVIOUS
  <2> HIDE DEF b, v
  <2>5. /\ v \in Proc /\ v.st = "starting" /\ v.inp = <<line>>
        /\ v.out = NotStarted.out /\ v.safe = b
    BY <2>1, <2>2, <2>3, <2>4, Statuses DEF Proc
  <2>6. NotStarted.out = <<>>
    BY DEF NotStarted
  <2> QED
    BY <2>5, <2>6, Zenon DEF b
<1>4. ASSUME NEW t \in Servers
      PROVE  /\ u(t) \in Proc /\ u(t).st = server[t].st /\ u(t).out = server[t].out
             /\ u(t).safe => t \notin Others
             /\ t \notin Others => u(t) = server[t]
  <2>1. server[t] \in Proc
    BY <1>1
  <2> DEFINE b == server[t].safe /\ t \notin Others
  <2>2. b \in BOOLEAN /\ (b => t \notin Others)
    OBVIOUS
  <2>3. t \notin Others => b = server[t].safe
    BY <2>1 DEF Proc
  <2>4. u(t) = [server[t] EXCEPT !.safe = b]
    OBVIOUS
  <2> HIDE DEF b, u
  <2>5. /\ u(t) \in Proc /\ u(t).st = server[t].st /\ u(t).out = server[t].out
        /\ u(t).safe = b
    BY <2>1, <2>2, <2>4 DEF Proc
  <2>6. t \notin Others => u(t) = server[t]
    BY <2>1, <2>3, <2>4 DEF Proc
  <2> QED
    BY <2>2, <2>5, <2>6, Zenon
<1> HIDE DEF m, new, v, u
<1>5. m \in [Servers -> Proc]
  BY <1>2, <1>3, <1>4
<1>6. m[new] = v /\ \A t \in Servers \ {new} : m[t] = u(t)
  BY <1>1, <1>2
<1> QED
  BY <1>1, <1>3, <1>4, <1>5, <1>6, Zenon DEF m, new

LEMMA HeardRemembered ==
  ASSUME ProcInv, NEW servers, Remember(servers)
  PROVE  /\ heard' \in [Servers -> Seq(Reply)]
         /\ \A s \in Servers : servers[s].safe => heard'[s] = heard[s]
         /\ shown' \subseteq shown
<1>1. heard \in [Servers -> Seq(Reply)]
  BY DEF ProcInv, Typed
<1>2. <<>> \in Seq(Reply)
  OBVIOUS
<1> QED
  BY <1>1, <1>2 DEF Remember

LEMMA SendsToCurrent ==
  ASSUME ProcInv, NEW cmd \in Commands, emacs = "up", Running,
         buf' = buf, cur' = cur, server' = ToCurrent(Line(cmd)).server,
         Remember(server'), UNCHANGED <<emacs, filtering, left, faults>>,
         asked' \in Seq([cmd : Commands \cup {Quit}, to : Servers])
  PROVE  ProcInv' /\ \A t \in Servers : DStep(t)
<1> DEFINE line == Line(cmd)
<1>1. line \in [n : Nat, cmd : Commands] /\ line \in Order
  <2>1. line \in [n : Nat, cmd : Commands]
    BY LineTyped
  <2> QED
    BY <2>1 DEF Order
<1>2. /\ server' \in [Servers -> Proc] /\ cur \in Servers
      /\ server[cur].st \in Known
      /\ \A t \in Servers \ {cur} : server'[t] = server[t]
      /\ server'[cur] = IF server[cur].st \in Alive
                        THEN [server[cur] EXCEPT !.inp = Append(@, line)]
                        ELSE server[cur]
      /\ \A t \in Servers : /\ server'[t].st = server[t].st
                            /\ server'[t].out = server[t].out
                            /\ server'[t].safe = server[t].safe
  BY <1>1, ToCurrentServers
<1>3. /\ heard' \in [Servers -> Seq(Reply)]
      /\ \A s \in Servers : server'[s].safe => heard'[s] = heard[s]
      /\ shown' \subseteq shown
  BY HeardRemembered
<1> HIDE DEF line
<1>4. Typed'
  BY <1>2, <1>3 DEF ProcInv, Typed
<1>5. OneUp'
  BY <1>2 DEF ProcInv, OneUp
<1>6. Unread'
  <2>1. \A t \in Servers : server'[t].st \notin Known => server'[t].out = <<>>
    BY <1>2 DEF ProcInv, Unread
  <2>2. \A t \in Servers : \A i \in 1..Len(server'[t].out) : server'[t].out[i].s = t
    BY <1>2 DEF ProcInv, Unread
  <2>3. ASSUME NEW i \in 1..Len(buf') PROVE server'[buf'[i].s].st \in Known
    <3>1. buf \in Seq(Piece) /\ i \in 1..Len(buf) /\ buf'[i] = buf[i]
      BY DEF ProcInv, Typed
    <3>2. buf[i].s \in Servers /\ server[buf[i].s].st \in Known
      BY <3>1, OwnerTyped DEF ProcInv, Unread
    <3> QED
      BY <1>2, <3>1, <3>2
  <2> QED
    BY <2>1, <2>2, <2>3 DEF Unread
<1>7. Untouched'
  <2> SUFFICES ASSUME NEW t \in Servers, server'[t].st = "none"
               PROVE  server'[t] = NotStarted
    BY DEF Untouched
  <2>1. t # cur /\ server[t].st = "none"
    BY <1>2, Statuses
  <2> QED
    BY <1>2, <2>1 DEF ProcInv, Untouched
<1>8. SafeAlone'
  <2> SUFFICES ASSUME NEW t \in Servers, Safe(t)'
               PROVE  /\ \A x \in Servers : server'[x].st \in Known => x = t
                      /\ server'[t].inp \in Seq([n : Nat, cmd : Commands])
                      /\ Row(t, Unhandled(t)')
                      /\ server'[t].st \in Alive => Whole(Unhandled(t)')
                      /\ Announced(t, shown', Unhandled(t)')
    BY DEF SafeAlone, Row, Whole, Announced, BegunAt, SameFrom, IsErase, IsHeader
  <2>1. Safe(t) /\ Unhandled(t)' = Unhandled(t)
    BY <1>2 DEF Safe, Unhandled
  <2>2. /\ \A x \in Servers : server[x].st \in Known => x = t
        /\ server[t].inp \in Seq([n : Nat, cmd : Commands])
        /\ Row(t, Unhandled(t))
        /\ server[t].st \in Alive => Whole(Unhandled(t))
        /\ Announced(t, shown, Unhandled(t))
    BY <2>1 DEF ProcInv, SafeAlone
  <2>3. t = cur
    BY <1>2, <2>2
  <2>4. server'[t].inp \in Seq([n : Nat, cmd : Commands])
    <3>1. Append(server[t].inp, line) \in Seq([n : Nat, cmd : Commands])
      BY <1>1, <2>2, AppendTyped
    <3>2. server'[t].inp = Append(server[t].inp, line) \/ server'[t].inp = server[t].inp
      <4>1. server[t] \in Proc
        BY DEF ProcInv, Typed
      <4> QED
        BY <1>2, <2>3, <4>1 DEF Proc
    <3> QED
      BY <2>2, <3>1, <3>2
  <2>5. Announced(t, shown', Unhandled(t))
    BY <1>3, <2>2, AnnouncedFewer
  <2> QED
    BY <1>2, <2>1, <2>2, <2>4, <2>5
<1>9. OneSearch'
  BY <1>3 DEF ProcInv, OneSearch
<1>10. ProcInv'
  BY <1>4, <1>5, <1>6, <1>7, <1>8, <1>9 DEF ProcInv
<1>11. ASSUME NEW t \in Servers PROVE DStep(t)
  <2>1. CASE ~server'[t].safe
    BY <2>1, Forgotten
  <2>2. CASE server'[t].safe /\ server'[t] = server[t]
    BY <1>3, <1>10, <2>2, Bystander
  <2>3. CASE server'[t].safe /\ server'[t] # server[t]
    <3>1. /\ t = cur /\ server[t].st \in Alive
          /\ server'[t] = [server[t] EXCEPT !.inp = Append(@, line)]
      BY <1>2, <2>3
    <3>2. server[t] \in Proc /\ server[t].inp \in Seq(Order)
      BY DEF ProcInv, Typed, Proc
    <3>3. server'[t].inp = Append(server[t].inp, line)
      BY <3>1, <3>2 DEF Proc
    <3>4. line \in {server'[t].inp[i] : i \in DOMAIN server'[t].inp}
      <4> DEFINE q == server[t].inp
                 a == Append(q, line)
      <4>1. q \in Seq(Order) /\ line \in Order
        BY <1>1, <3>2
      <4> HIDE DEF q
      <4>2. Len(q) + 1 \in DOMAIN a /\ a[Len(q) + 1] = line
        BY <4>1
      <4> HIDE DEF a
      <4> QED
        BY <3>3, <4>2 DEF a, q
    <3>5. Said(t)' = Said(t) /\ heard'[t] = heard[t]
      BY <1>2, <1>3, <2>3 DEF Said
    <3>6. ~(server[t].st \in {"dead", "buried"})
      BY <3>1 DEF Alive
    <3>7. D(t)!Ask
      BY <1>2, <3>3, <3>4, <3>5, <3>6 DEF D!Ask
    <3> QED
      BY <3>7 DEF DStep, D!Next
  <2> QED
    BY <2>1, <2>2, <2>3
<1> QED
  BY <1>10, <1>11

LEMMA SendsToNew ==
  ASSUME ProcInv, NEW cmd \in Commands, emacs = "up", Fresh # {},
         buf' = <<>>, cur' = Next1(Fresh), server' = ProcStart(Line(cmd)).server,
         Remember(server'), UNCHANGED <<emacs, filtering, left, faults>>,
         asked' \in Seq([cmd : Commands \cup {Quit}, to : Servers])
  PROVE  ProcInv' /\ \A t \in Servers : DStep(t)
<1> DEFINE line == Line(cmd)
<1>0. PICK new : new = Next1(Fresh)
  OBVIOUS
<1>1. line \in [n : Nat, cmd : Commands] /\ line \in Order
  <2>1. line \in [n : Nat, cmd : Commands]
    BY LineTyped
  <2> QED
    BY <2>1 DEF Order
<1>2. /\ server' \in [Servers -> Proc] /\ new \in Servers
      /\ server[new].st = "none"
      /\ server'[new].st = "starting" /\ server'[new].inp = <<line>>
      /\ server'[new].out = <<>> /\ server'[new].safe = (Others = {})
      /\ \A t \in Servers \ {new} : /\ server'[t].st = server[t].st
                                    /\ server'[t].out = server[t].out
                                    /\ server'[t].safe => t \notin Others
                                    /\ t \notin Others => server'[t] = server[t]
  BY <1>0, <1>1, ProcStartServers
<1>3. /\ heard' \in [Servers -> Seq(Reply)]
      /\ \A s \in Servers : server'[s].safe => heard'[s] = heard[s]
      /\ shown' \subseteq shown
  BY HeardRemembered
<1>4. /\ cur' = new /\ buf' = <<>> /\ <<>> \in Seq(Piece)
  BY <1>0
<1> HIDE DEF line
<1>5. Typed'
  BY <1>2, <1>3, <1>4 DEF ProcInv, Typed
<1>6. OneUp'
  <2>1. ASSUME NEW t \in Servers, server'[t].st = "up" PROVE server[t].st = "up"
    BY <1>2, <2>1
  <2> QED
    BY <2>1 DEF ProcInv, OneUp
<1>7. Unread'
  <2>1. ASSUME NEW t \in Servers, server'[t].st \notin Known PROVE server'[t].out = <<>>
    BY <1>2, <2>1 DEF ProcInv, Unread
  <2>2. ASSUME NEW t \in Servers, NEW i \in 1..Len(server'[t].out)
        PROVE  server'[t].out[i].s = t
    <3>1. CASE t = new
      <4>1. server'[t].out = <<>>
        BY <1>2, <3>1
      <4>2. \A j \in 1..Len(<<>>) : FALSE
        OBVIOUS
      <4> QED
        BY <2>2, <4>1, <4>2, Zenon
    <3>2. CASE t # new
      BY <1>2, <2>2, <3>2 DEF ProcInv, Unread
    <3> QED
      BY <3>1, <3>2
  <2>3. \A i \in 1..Len(buf') : server'[buf'[i].s].st \in Known
    BY <1>4
  <2> QED
    BY <2>1, <2>2, <2>3 DEF Unread
<1>8. Untouched'
  <2> SUFFICES ASSUME NEW t \in Servers, server'[t].st = "none"
               PROVE  server'[t] = NotStarted
    BY DEF Untouched
  <2>1. t # new
    BY <1>2
  <2>2. server[t].st = "none" /\ t \notin Others
    BY <1>2, <2>1, Statuses DEF Others
  <2> QED
    BY <1>2, <2>1, <2>2 DEF ProcInv, Untouched
<1>9. ASSUME NEW t \in Servers, Safe(t)'
      PROVE  t = new /\ Others = {}
  <2>1. t = new
    <3> SUFFICES ASSUME t # new PROVE FALSE
      OBVIOUS
    <3>1. t \in Others
      BY <1>2, <1>9 DEF Safe, Others
    <3> QED
      BY <1>2, <1>9, <3>1 DEF Safe
  <2> QED
    BY <1>2, <1>9, <2>1 DEF Safe
<1>10. Said(new)' = <<>> /\ Unhandled(new)' = <<>>
  <2>1. Unhandled(new)' = <<>>
    BY <1>2, <1>4 DEF Unhandled
  <2>2. \A i \in 1..Len(<<>>) : <<>>[i].s # new
    OBVIOUS
  <2>3. RepliesOf(new, <<>> \o server'[new].out) = <<>>
    BY <1>2, <1>4, <2>2, NothingSaid
  <2> QED
    BY <1>4, <2>1, <2>3 DEF Said
<1>11. SafeAlone'
  <2> SUFFICES ASSUME NEW t \in Servers, Safe(t)'
               PROVE  /\ \A x \in Servers : server'[x].st \in Known => x = t
                      /\ server'[t].inp \in Seq([n : Nat, cmd : Commands])
                      /\ Row(t, Unhandled(t)')
                      /\ server'[t].st \in Alive => Whole(Unhandled(t)')
                      /\ Announced(t, shown', Unhandled(t)')
    BY DEF SafeAlone, Row, Whole, Announced, BegunAt, SameFrom, IsErase, IsHeader
  <2>1. t = new /\ Others = {}
    BY <1>9
  <2>2. \A x \in Servers : server'[x].st \in Known => x = t
    BY <1>2, <2>1 DEF Others
  <2>3. server'[t].inp \in Seq([n : Nat, cmd : Commands])
    <3>1. \A x \in [n : Nat, cmd : Commands] : <<x>> \in Seq([n : Nat, cmd : Commands])
      OBVIOUS
    <3>2. server'[t].inp = <<line>>
      BY <1>2, <2>1
    <3>3. <<line>> \in Seq([n : Nat, cmd : Commands])
      BY <1>1, <3>1, Zenon
    <3> QED
      BY <3>2, <3>3, Zenon
  <2>4. Unhandled(t)' = <<>>
    BY <1>10, <2>1
  <2> QED
    BY <2>2, <2>3, <2>4, NothingAnnounced
<1>12. OneSearch'
  BY <1>3 DEF ProcInv, OneSearch
<1>13. ProcInv'
  BY <1>5, <1>6, <1>7, <1>8, <1>11, <1>12 DEF ProcInv
<1>14. ASSUME NEW t \in Servers PROVE DStep(t)
  <2>1. CASE ~server'[t].safe
    BY <2>1, Forgotten
  <2>2. CASE server'[t].safe /\ t # new
    <3>1. server'[t] = server[t] /\ server[t].st \notin Known
      BY <1>2, <2>2 DEF Others
    <3> QED
      BY <1>3, <1>13, <2>2, <3>1, Bystander
  <2>3. CASE server'[t].safe /\ t = new
    <3>1. server[t] = NotStarted
      BY <1>2, <2>3 DEF ProcInv, Untouched
    <3>2. server[t].inp = <<>> /\ server[t].safe /\ server[t].st = "none"
      BY <3>1 DEF NotStarted
    <3>3. Said(t) = <<>>
      BY <3>2, BuriedSaid, Statuses DEF ProcInv
    <3>4. server'[t].inp = Append(server[t].inp, line)
      BY <1>2, <2>3, <3>2
    <3>5. line \in {server'[t].inp[i] : i \in DOMAIN server'[t].inp}
      <4>1. 1 \in DOMAIN <<line>> /\ <<line>>[1] = line
        OBVIOUS
      <4> QED
        BY <1>2, <2>3, <4>1
    <3>6. D(t)!Ask
      BY <1>2, <1>3, <1>10, <2>3, <3>2, <3>3, <3>4, <3>5 DEF D!Ask
    <3> QED
      BY <3>6 DEF DStep, D!Next
  <2> QED
    BY <2>1, <2>2, <2>3
<1> QED
  BY <1>13, <1>14

LEMMA SendKeeps ==
  ASSUME ProcInv, NEW cmd \in Commands, Send(cmd)
  PROVE  ProcInv' /\ \A t \in Servers : DStep(t)
<1>1. PICK sent \in SendCommand(Line(cmd)) :
        /\ cur' = sent.cur /\ buf' = sent.buf /\ server' = sent.server
        /\ Remember(sent.server)
        /\ asked' = Append(asked, [cmd |-> cmd, to |-> sent.to])
  BY DEF Send
<1>2. emacs = "up" /\ UNCHANGED <<emacs, filtering, left, faults>>
  BY DEF Send
<1>3. ASSUME sent.to \in Servers
      PROVE  asked' \in Seq([cmd : Commands \cup {Quit}, to : Servers])
  <2>1. asked \in Seq([cmd : Commands \cup {Quit}, to : Servers])
    BY DEF ProcInv, Typed
  <2> QED
    BY <1>1, <1>3, <2>1, AppendTyped
<1>4. CASE Running /\ sent = ToCurrent(Line(cmd))
  <2>1. sent.cur = cur /\ sent.buf = buf /\ sent.to = cur
    BY <1>4 DEF ToCurrent
  <2>2. cur \in Servers
    BY <1>4 DEF Running, ProcInv, Typed
  <2> QED
    BY <1>1, <1>2, <1>3, <1>4, <2>1, <2>2, SendsToCurrent
<1>5. CASE Fresh # {} /\ sent = ProcStart(Line(cmd))
  <2>1. sent.cur = Next1(Fresh) /\ sent.buf = <<>> /\ sent.to = Next1(Fresh)
    BY <1>5 DEF ProcStart
  <2>2. Next1(Fresh) \in Servers
    BY <1>5, FreshTyped
  <2> QED
    BY <1>1, <1>2, <1>3, <1>5, <2>1, <2>2, SendsToNew
<1> QED
  BY <1>4, <1>5 DEF SendCommand

\* What quit is sent to, and what else becomes of the servers then.
QuitSent(m, to) ==
  /\ m \in [Servers -> Proc] /\ to \in Servers /\ m[to].st \in Known
  /\ \A t \in Servers :
       /\ m[t].st = "up" => server[t].st = "up"
       /\ server[t].st \in Known => m[t].st \in Known
       /\ m[t].st \notin Known => m[t].out = <<>>
       /\ \A i \in 1..Len(m[t].out) : m[t].out[i].s = t
       /\ m[t].st = "none" => m[t] = NotStarted
       /\ m[t].safe /\ t # to =>
            IF m[t].st \in Known THEN Safe(t)
            ELSE m[t] = server[t] /\ server[t].st \notin Known

LEMMA QuitToCurrent ==
  ASSUME ProcInv, emacs = "up", Running, NEW line \in Order
  PROVE  QuitSent(ToCurrent(line).server, cur)
<1> DEFINE m == ToCurrent(line).server
<1>1. /\ m \in [Servers -> Proc] /\ cur \in Servers /\ server[cur].st \in Known
      /\ \A t \in Servers \ {cur} : m[t] = server[t]
      /\ \A t \in Servers : /\ m[t].st = server[t].st /\ m[t].out = server[t].out
                            /\ m[t].safe = server[t].safe
  BY ToCurrentServers
<1> HIDE DEF m
<1>2. ASSUME NEW t \in Servers
      PROVE  /\ m[t].st \notin Known => m[t].out = <<>>
             /\ \A i \in 1..Len(m[t].out) : m[t].out[i].s = t
             /\ m[t].st = "none" => m[t] = NotStarted
  <2>1. m[t].st = "none" => t # cur
    BY <1>1, Statuses
  <2> QED
    BY <1>1, <2>1 DEF ProcInv, Unread, Untouched
<1> QED
  BY <1>1, <1>2 DEF QuitSent, Safe, m

LEMMA QuitToNew ==
  ASSUME ProcInv, emacs = "up", Fresh # {}, NEW line \in Order
  PROVE  QuitSent(ProcStart(line).server, Next1(Fresh))
<1> DEFINE m == ProcStart(line).server
           new == Next1(Fresh)
<1>1. /\ m \in [Servers -> Proc] /\ new \in Servers
      /\ server[new].st = "none"
      /\ m[new].st = "starting" /\ m[new].out = <<>>
      /\ \A t \in Servers \ {new} : /\ m[t].st = server[t].st
                                    /\ m[t].out = server[t].out
                                    /\ m[t].safe => t \notin Others
                                    /\ t \notin Others => m[t] = server[t]
  BY ProcStartServers
<1> HIDE DEF m, new
<1>2. ASSUME NEW t \in Servers, t # new
      PROVE  /\ m[t].st \notin Known => m[t].out = <<>>
             /\ \A i \in 1..Len(m[t].out) : m[t].out[i].s = t
             /\ m[t].st = "none" => m[t] = NotStarted
             /\ m[t].safe => m[t] = server[t] /\ server[t].st \notin Known
  <2>1. server[t].st = "none" => t \notin Others
    BY Statuses DEF Others
  <2>2. m[t].safe => m[t] = server[t] /\ server[t].st \notin Known
    BY <1>1, <1>2 DEF Others
  <2>3. m[t].st = "none" => m[t] = NotStarted
    BY <1>1, <1>2, <2>1 DEF ProcInv, Untouched
  <2> QED
    BY <1>1, <1>2, <2>2, <2>3 DEF ProcInv, Unread
<1>3. \A i \in 1..Len(m[new].out) : m[new].out[i].s = new
  <2>1. \A i \in 1..Len(<<>>) : FALSE
    OBVIOUS
  <2> QED
    BY <1>1, <2>1, Zenon
<1>4. m[new].st \in Known
  BY <1>1, Statuses
<1>5. ASSUME NEW t \in Servers
      PROVE  /\ m[t].st = "up" => server[t].st = "up"
             /\ server[t].st \in Known => m[t].st \in Known
             /\ m[t].st \notin Known => m[t].out = <<>>
             /\ \A i \in 1..Len(m[t].out) : m[t].out[i].s = t
             /\ m[t].st = "none" => m[t] = NotStarted
             /\ m[t].safe /\ t # new =>
                  IF m[t].st \in Known THEN Safe(t)
                  ELSE m[t] = server[t] /\ server[t].st \notin Known
  <2>1. CASE t = new
    BY <1>1, <1>3, <1>4, <2>1
  <2>2. CASE t # new
    BY <1>1, <1>2, <2>2
  <2> QED
    BY <2>1, <2>2
<1> QED
  BY <1>1, <1>4, <1>5 DEF QuitSent, m, new

\* The servers m after a signal to p and a quit to another.
Killed(m, p, to, late) ==
  [m EXCEPT ![p] = Signalled(@, late), ![p].safe = FALSE, ![to].safe = FALSE]

LEMMA KilledServers ==
  ASSUME NEW m \in [Servers -> Proc], NEW p \in Servers, NEW to \in Servers,
         NEW late \in BOOLEAN, NEW after, after = Killed(m, p, to, late)
  PROVE  /\ after \in [Servers -> Proc]
         /\ \A t \in Servers : /\ after[t].st = "up" => m[t].st = "up"
                               /\ after[t].st \in Known <=> m[t].st \in Known
                               /\ after[t].out = m[t].out
                               /\ after[t].safe => t # p /\ t # to
                               /\ t # p /\ t # to => after[t] = m[t]
<1> DEFINE v == Signalled(m[p], late)
           x == [m EXCEPT ![p] = v]
           y == [x EXCEPT ![p].safe = FALSE]
           z == [y EXCEPT ![to].safe = FALSE]
<1>1. after = z
  BY Zenon DEF Killed
<1>2. m[p] \in Proc
  OBVIOUS
<1>3. /\ v \in Proc /\ (v.st = "up" => m[p].st = "up")
      /\ (v.st \in Known <=> m[p].st \in Known) /\ v.out = m[p].out
  BY <1>2, SignalledTyped
<1> HIDE DEF v
<1>4. x \in [Servers -> Proc] /\ x[p] = v /\ \A t \in Servers \ {p} : x[t] = m[t]
  BY <1>3
<1> HIDE DEF x
<1> DEFINE Unsafe(r) == [r EXCEPT !.safe = FALSE]
<1>5. ASSUME NEW r \in Proc
      PROVE  /\ Unsafe(r) \in Proc /\ Unsafe(r).st = r.st /\ Unsafe(r).out = r.out
             /\ ~Unsafe(r).safe
  BY DEF Proc
<1>6. /\ y = [x EXCEPT ![p] = Unsafe(x[p])] /\ z = [y EXCEPT ![to] = Unsafe(y[to])]
  BY <1>4
<1> HIDE DEF Unsafe, y, z
<1>7. /\ y \in [Servers -> Proc] /\ y[p] = Unsafe(x[p])
      /\ \A t \in Servers \ {p} : y[t] = x[t]
  BY <1>4, <1>5, <1>6
<1>8. /\ z \in [Servers -> Proc] /\ z[to] = Unsafe(y[to])
      /\ \A t \in Servers \ {to} : z[t] = y[t]
  BY <1>5, <1>6, <1>7
<1>9. ASSUME NEW t \in Servers
      PROVE  /\ z[t].st = x[t].st /\ z[t].out = x[t].out
             /\ z[t].safe => t # p /\ t # to
             /\ t # p /\ t # to => z[t] = x[t]
  <2>1. x[t] \in Proc /\ y[t] \in Proc
    BY <1>4, <1>7
  <2>2. y[t] = IF t = p THEN Unsafe(x[t]) ELSE x[t]
    BY <1>7
  <2>3. z[t] = IF t = to THEN Unsafe(y[t]) ELSE y[t]
    BY <1>8
  <2>4. /\ Unsafe(x[t]).st = x[t].st /\ Unsafe(x[t]).out = x[t].out
        /\ Unsafe(y[t]).st = y[t].st /\ Unsafe(y[t]).out = y[t].out
        /\ ~Unsafe(x[t]).safe /\ ~Unsafe(y[t]).safe
    BY <1>5, <2>1
  <2>5. CASE t = to
    BY <2>2, <2>3, <2>4, <2>5
  <2>6. CASE t # to
    BY <2>2, <2>3, <2>4, <2>6
  <2> QED
    BY <2>5, <2>6
<1>10. ASSUME NEW t \in Servers
       PROVE  /\ z[t].st = "up" => m[t].st = "up"
              /\ z[t].st \in Known <=> m[t].st \in Known
              /\ z[t].out = m[t].out
              /\ z[t].safe => t # p /\ t # to
              /\ t # p /\ t # to => z[t] = m[t]
  <2>1. CASE t = p
    BY <1>3, <1>4, <1>9, <2>1
  <2>2. CASE t # p
    BY <1>4, <1>9, <2>2
  <2> QED
    BY <2>1, <2>2
<1> QED
  BY <1>1, <1>8, <1>10

LEMMA QuitKeeps ==
  ASSUME ProcInv, emacs = "up", NEW m, NEW to, QuitSent(m, to),
         NEW p \in Servers, server[p].st \in Known, NEW late \in BOOLEAN,
         server' = Killed(m, p, to, late),
         cur' = NoServer, buf' = <<>>, Remember(server'),
         UNCHANGED <<emacs, filtering, left, faults>>,
         asked' \in Seq([cmd : Commands \cup {Quit}, to : Servers])
  PROVE  ProcInv' /\ \A t \in Servers : DStep(t)
<1>1. m \in [Servers -> Proc] /\ to \in Servers /\ m[to].st \in Known
  BY DEF QuitSent
<1>2. ASSUME NEW t \in Servers
      PROVE  /\ m[t].st = "up" => server[t].st = "up"
             /\ server[t].st \in Known => m[t].st \in Known
             /\ m[t].st \notin Known => m[t].out = <<>>
             /\ \A i \in 1..Len(m[t].out) : m[t].out[i].s = t
             /\ m[t].st = "none" => m[t] = NotStarted
             /\ m[t].safe /\ t # to =>
                  IF m[t].st \in Known THEN Safe(t)
                  ELSE m[t] = server[t] /\ server[t].st \notin Known
  BY DEF QuitSent
<1>3. /\ server' \in [Servers -> Proc]
      /\ \A t \in Servers : /\ server'[t].st = "up" => m[t].st = "up"
                            /\ server'[t].st \in Known <=> m[t].st \in Known
                            /\ server'[t].out = m[t].out
                            /\ server'[t].safe => t # p /\ t # to
                            /\ t # p /\ t # to => server'[t] = m[t]
  <2> DEFINE after == server'
  <2>1. after = Killed(m, p, to, late)
    BY Zenon
  <2> HIDE DEF after
  <2>2. /\ after \in [Servers -> Proc]
        /\ \A t \in Servers : /\ after[t].st = "up" => m[t].st = "up"
                              /\ after[t].st \in Known <=> m[t].st \in Known
                              /\ after[t].out = m[t].out
                              /\ after[t].safe => t # p /\ t # to
                              /\ t # p /\ t # to => after[t] = m[t]
    BY <1>1, <2>1, KilledServers
  <2> QED
    BY <2>2, Zenon DEF after
<1>4. /\ heard' \in [Servers -> Seq(Reply)]
      /\ \A s \in Servers : server'[s].safe => heard'[s] = heard[s]
      /\ shown' \subseteq shown
  BY HeardRemembered
<1>5. /\ buf' \in Seq(Piece) /\ buf' = <<>>
      /\ UNCHANGED <<emacs, filtering, left, faults>>
  OBVIOUS
<1>6. Typed'
  BY <1>3, <1>4, <1>5 DEF ProcInv, Typed
<1>7. OneUp'
  BY <1>2, <1>3 DEF ProcInv, OneUp
<1>8. Unread'
  <2>1. \A i \in 1..Len(<<>>) : FALSE
    OBVIOUS
  <2>2. \A i \in 1..Len(buf') : server'[buf'[i].s].st \in Known
    BY <1>5, <2>1, Zenon
  <2>3. \A t \in Servers : server'[t].st \notin Known => server'[t].out = <<>>
    BY <1>2, <1>3
  <2>4. \A t \in Servers : \A i \in 1..Len(server'[t].out) : server'[t].out[i].s = t
    BY <1>2, <1>3
  <2> QED
    BY <2>2, <2>3, <2>4 DEF Unread
<1>9. Untouched'
  <2> SUFFICES ASSUME NEW t \in Servers, server'[t].st = "none"
               PROVE  server'[t] = NotStarted
    BY DEF Untouched
  <2>1. m[t].st \notin Known
    BY <1>3, Statuses
  <2>2. t # p /\ t # to
    BY <1>1, <1>2, <2>1
  <2> QED
    BY <1>2, <1>3, <2>2
<1>10. ASSUME NEW t \in Servers, server'[t].safe
       PROVE  server'[t] = server[t] /\ server[t].st \notin Known
  <2>1. t # p /\ t # to /\ server'[t] = m[t] /\ m[t].safe
    BY <1>3, <1>10
  <2>2. ~Safe(t)
    BY <2>1 DEF ProcInv, SafeAlone
  <2> QED
    BY <1>2, <2>1, <2>2
<1>11. SafeAlone' /\ OneSearch'
  <2>1. \A t \in Servers : ~Safe(t)'
    BY <1>10 DEF Safe
  <2> QED
    BY <1>4, <2>1 DEF ProcInv, SafeAlone, OneSearch
<1>12. ProcInv'
  BY <1>6, <1>7, <1>8, <1>9, <1>11 DEF ProcInv
<1>13. ASSUME NEW t \in Servers PROVE DStep(t)
  <2>1. CASE ~server'[t].safe
    BY <2>1, Forgotten
  <2>2. CASE server'[t].safe
    BY <1>4, <1>10, <1>12, <2>2, Bystander
  <2> QED
    BY <2>1, <2>2
<1> QED
  BY <1>12, <1>13

LEMMA KillKeeps ==
  ASSUME ProcInv, NEW late \in BOOLEAN, Kill(late)
  PROVE  ProcInv' /\ \A t \in Servers : DStep(t)
<1> DEFINE p == CHOOSE s \in Others : \A t \in Others : t <= s
<1>1. PICK sent \in SendCommand(Line(Quit)) :
        /\ server' = Killed(sent.server, p, sent.to, late)
        /\ Remember(server')
        /\ asked' = Append(asked, [cmd |-> Quit, to |-> sent.to])
  BY DEF Kill, Others, Killed
<1>2. /\ emacs = "up" /\ cur' = NoServer /\ buf' = <<>> /\ Others # {}
      /\ UNCHANGED <<emacs, filtering, left, faults>>
  BY DEF Kill, Others
<1>3. p \in Servers /\ server[p].st \in Known
  <2>1. \E s \in Others : \A t \in Others : t <= s
    <3> DEFINE S == {MaxServers - t : t \in Others}
    <3>1. MaxServers \in Nat /\ \A t \in Others : t \in 1..MaxServers
      BY ProcBounds DEF Others, Servers
    <3>2. S \in SUBSET Nat /\ S # {}
      BY <1>2, <3>1
    <3> HIDE DEF S
    <3>3. PICK n \in S : \A k \in S : n <= k
      BY <3>2, LeastNumber
    <3>4. PICK s \in Others : n = MaxServers - s
      BY <3>3 DEF S
    <3>5. ASSUME NEW t \in Others PROVE t <= s
      <4>1. MaxServers - t \in S
        BY DEF S
      <4>2. MaxServers - s <= MaxServers - t
        BY <3>3, <3>4, <4>1
      <4> QED
        BY <3>1, <4>2
    <3> QED
      BY <3>5
  <2>2. p \in Others
    BY <2>1
  <2> HIDE DEF p
  <2> QED
    BY <2>2 DEF Others
<1> HIDE DEF p
<1>4. Line(Quit) \in Order
  <2>1. Quit \in Commands \cup {Quit}
    OBVIOUS
  <2>2. Line(Quit) \in [n : Nat, cmd : Commands \cup {Quit}]
    BY <2>1, LineTyped
  <2> QED
    BY <2>2 DEF Order
<1>5. QuitSent(sent.server, sent.to)
  <2>1. CASE Running /\ sent = ToCurrent(Line(Quit))
    <3>1. sent.to = cur
      BY <2>1 DEF ToCurrent
    <3> QED
      BY <1>2, <1>4, <2>1, <3>1, QuitToCurrent
  <2>2. CASE Fresh # {} /\ sent = ProcStart(Line(Quit))
    <3>1. sent.to = Next1(Fresh)
      BY <2>2 DEF ProcStart
    <3> QED
      BY <1>2, <1>4, <2>2, <3>1, QuitToNew
  <2> QED
    BY <2>1, <2>2 DEF SendCommand
<1>6. asked' \in Seq([cmd : Commands \cup {Quit}, to : Servers])
  <2>1. asked \in Seq([cmd : Commands \cup {Quit}, to : Servers])
    BY DEF ProcInv, Typed
  <2>2. sent.to \in Servers
    BY <1>5 DEF QuitSent
  <2> QED
    BY <1>1, <2>1, <2>2, AppendTyped
<1> QED
  BY <1>1, <1>2, <1>3, <1>5, <1>6, QuitKeeps

-----------------------------------------------------------------------------
(* The theorems.                                                           *)

LEMMA InitEstablishes ==
  ASSUME Init
  PROVE  ProcInv /\ \A s \in Servers : D(s)!Init
<1>1. /\ emacs = "up" /\ cur = NoServer /\ buf = <<>> /\ filtering = FALSE
      /\ server = [s \in Servers |-> NotStarted] /\ asked = <<>>
      /\ shown = {} /\ faults = MaxFaults
      /\ \A s \in Servers : server[s] = NotStarted
  BY DEF Init
<1>2. heard = [s \in Servers |-> <<>>]
  BY DEF Init
<1>3. /\ NotStarted \in Proc /\ NotStarted.st = "none" /\ NotStarted.safe
      /\ NotStarted.out = <<>> /\ NotStarted.inp = <<>>
  <2>1. <<>> \in Seq(Order) /\ <<>> \in Seq(Piece)
    OBVIOUS
  <2> QED
    BY <2>1 DEF NotStarted, Proc
<1>4. Typed
  <2>1. server \in [Servers -> Proc]
    BY <1>1, <1>3
  <2>2. heard \in [Servers -> Seq(Reply)]
    <3>1. <<>> \in Seq(Reply)
      OBVIOUS
    <3> QED
      BY <1>2, <3>1
  <2>3. faults \in 0..MaxFaults
    BY <1>1, ProcBounds
  <2>4. buf \in Seq(Piece) /\ asked \in Seq([cmd : Commands \cup {Quit}, to : Servers])
    BY <1>1
  <2> QED
    BY <1>1, <2>1, <2>2, <2>3, <2>4 DEF Typed
<1>5. OneUp
  BY <1>1, <1>3 DEF OneUp
<1>6. Unread
  <2>1. \A i \in 1..Len(<<>>) : FALSE
    OBVIOUS
  <2>2. \A i \in 1..Len(buf) : server[buf[i].s].st \in Known
    BY <1>1, <2>1, Zenon
  <2>3. \A s \in Servers : server[s].out = <<>>
    BY <1>1, <1>3
  <2>4. \A s \in Servers : \A i \in 1..Len(server[s].out) : server[s].out[i].s = s
    BY <2>1, <2>3
  <2> QED
    BY <2>2, <2>3, <2>4 DEF Unread
<1>7. Untouched
  BY <1>1 DEF Untouched
<1>8. SafeAlone
  BY <1>1, <1>3, Statuses DEF SafeAlone, Safe
<1>9. OneSearch
  BY <1>1 DEF OneSearch
<1>10. ProcInv
  BY <1>4, <1>5, <1>6, <1>7, <1>8, <1>9 DEF ProcInv
<1>11. ASSUME NEW s \in Servers PROVE D(s)!Init
  <2>1. Said(s) = <<>>
    BY <1>1, <1>3, <1>10, BuriedSaid, Statuses DEF ProcInv
  <2>2. heard[s] = <<>>
    BY <1>2
  <2> QED
    BY <1>1, <1>3, <2>1, <2>2 DEF D!Init
<1> QED
  BY <1>10, <1>11

\* Every step keeps the invariant and is a step of the dialog of each server.
LEMMA StepsKeep ==
  ASSUME ProcInv, [Next]_vars
  PROVE  ProcInv' /\ \A s \in Servers : DStep(s)
<1>1. CASE UNCHANGED vars
  <2>1. UNCHANGED <<emacs, cur, buf, filtering, server, asked, heard, left, shown, faults>>
    BY <1>1 DEF vars
  <2>2. ProcInv'
    <3>1. Typed' /\ OneUp' /\ Unread' /\ Untouched' /\ OneSearch'
      BY <2>1 DEF ProcInv, Typed, OneUp, Unread, Untouched, OneSearch
    <3>2. SafeAlone'
      <4> SUFFICES ASSUME NEW t \in Servers, Safe(t)'
                   PROVE  /\ \A x \in Servers : server'[x].st \in Known => x = t
                          /\ server'[t].inp \in Seq([n : Nat, cmd : Commands])
                          /\ Row(t, Unhandled(t)')
                          /\ server'[t].st \in Alive => Whole(Unhandled(t)')
                          /\ Announced(t, shown', Unhandled(t)')
        BY DEF SafeAlone, Row, Whole, Announced, BegunAt, SameFrom, IsErase,
               IsHeader
      <4>1. Safe(t) /\ Unhandled(t)' = Unhandled(t)
        BY <2>1 DEF Safe, Unhandled
      <4> QED
        BY <2>1, <4>1 DEF ProcInv, SafeAlone
    <3> QED
      BY <3>1, <3>2 DEF ProcInv
  <2> QED
    BY <2>1, <2>2, Bystander
<1>2. ASSUME NEW cmd \in Commands, Send(cmd)
      PROVE  ProcInv' /\ \A s \in Servers : DStep(s)
  BY <1>2, SendKeeps
<1>3. ASSUME NEW late \in BOOLEAN, Kill(late)
      PROVE  ProcInv' /\ \A s \in Servers : DStep(s)
  BY <1>3, KillKeeps
<1>4. CASE Eat
  BY <1>4, EatKeeps
<1>5. CASE UserQuits
  BY <1>5, UserQuitsKeeps
<1>6. CASE EmacsExits
  BY <1>6, EmacsExitsKeeps
<1>7. CASE EmacsCrashes
  BY <1>7, EmacsCrashesKeeps
<1>8. ASSUME NEW t \in Servers, Receive(t)
      PROVE  ProcInv' /\ \A s \in Servers : DStep(s)
  BY <1>8, ReceiveKeeps
<1>9. ASSUME NEW t \in Servers, Sentinel(t)
      PROVE  ProcInv' /\ \A s \in Servers : DStep(s)
  BY <1>9, SentinelKeeps
<1>10. ASSUME NEW t \in Servers, Opens(t)
       PROVE  ProcInv' /\ \A s \in Servers : DStep(s)
  BY <1>10, OpensKeeps
<1>11. ASSUME NEW t \in Servers, FailsToOpen(t)
       PROVE  ProcInv' /\ \A s \in Servers : DStep(s)
  BY <1>11, FailsToOpenKeeps
<1>12. ASSUME NEW t \in Servers, Serve(t)
       PROVE  ProcInv' /\ \A s \in Servers : DStep(s)
  BY <1>12, ServeKeeps
<1>13. ASSUME NEW t \in Servers, DiesServing(t)
       PROVE  ProcInv' /\ \A s \in Servers : DStep(s)
  BY <1>13, DiesServingKeeps
<1>14. ASSUME NEW t \in Servers, StopsOnSignal(t)
       PROVE  ProcInv' /\ \A s \in Servers : DStep(s)
  BY <1>14, StopsOnSignalKeeps
<1>15. ASSUME NEW t \in Servers, ReadsEof(t)
       PROVE  ProcInv' /\ \A s \in Servers : DStep(s)
  BY <1>15, ReadsEofKeeps
<1> QED
  BY <1>1, <1>2, <1>3, <1>4, <1>5, <1>6, <1>7, <1>8, <1>9, <1>10, <1>11, <1>12,
     <1>13, <1>14, <1>15 DEF Next

\* The invariant of mu4e and its servers (mu4e-proc.el, mu-cmd-server.c): a
\* safe server is the only one Emacs knows, and what it printed is in the
\* buffer and the pipe whole, in order and announced.
THEOREM ProcInvariant == Spec => []ProcInv
<1>1. Init => ProcInv
  BY InitEstablishes
<1>2. ProcInv /\ [Next]_vars => ProcInv'
  BY StepsKeep
<1> QED
  BY <1>1, <1>2, PTL DEF Spec

LEMMA InvTypeOK ==
  ASSUME ProcInv
  PROVE  ProcTypeOK
<1> DEFINE up == {s \in Servers : server[s].st = "up"}
<1>1. Cardinality(up) <= 1
  <2>1. CASE up = {}
    BY <2>1, FS_EmptySet
  <2>2. CASE up # {}
    <3>1. PICK s : s \in up
      BY <2>2
    <3>2. up = {s}
      BY <3>1 DEF ProcInv, OneUp
    <3>3. Cardinality({s}) = 1
      BY FS_Singleton
    <3> HIDE DEF up
    <3> QED
      BY <3>2, <3>3
  <2> QED
    BY <2>1, <2>2
<1>2. \A s \in Servers : /\ server[s].st \in Known \cup {"none", "buried"}
                         /\ server[s].st = "buried" => server[s].out = <<>>
  BY Statuses DEF ProcInv, Typed, Proc, Unread
<1> QED
  BY <1>1, <1>2 DEF ProcTypeOK, ProcInv, Typed

\* At most one server has the store open for writing, servers that Emacs has
\* seen the end of left nothing unread, and a filter runs only in an Emacs that
\* is there (mu_store_new_writable, mu4e~proc-sentinel, mu4e~proc-filter).
THEOREM ProcTypeCorrect == Spec => []ProcTypeOK
<1>1. ProcInv => ProcTypeOK
  BY InvTypeOK
<1> QED
  BY <1>1, ProcInvariant, PTL

LEMMA InvNotMixed ==
  ASSUME ProcInv
  PROVE  FindsAreNotMixed
<1>1. PICK x : shown \subseteq {x}
  BY DEF ProcInv, OneSearch
<1>2. shown = {} \/ shown = {x}
  BY <1>1
<1>3. Cardinality({}) = 0 /\ Cardinality({x}) = 1
  BY FS_EmptySet, FS_Singleton
<1> QED
  BY <1>2, <1>3 DEF FindsAreNotMixed

\* "the output of two finds will not be mixed" (the comment in cmd_find): the
\* headers mu4e shows are those of one search, for any commands and any number
\* of servers, restarts, kills and faults.
THEOREM SearchesNotMixed == Spec => []FindsAreNotMixed
<1>1. ProcInv => FindsAreNotMixed
  BY InvNotMixed
<1> QED
  BY <1>1, ProcInvariant, PTL

\* The pipes, the pieces of the replies, the filter of mu4e-proc.el, restarts
\* and crashes implement MuDialog for every server: no reply of a server that
\* is safe is lost, repeated or handled out of order.
THEOREM DialogKept == Spec => DialogImplemented
<1>1. Init => \A s \in Servers : D(s)!Init
  BY InitEstablishes
<1>2. ProcInv /\ [Next]_vars =>
        [\A s \in Servers : [D(s)!Next]_(D(s)!dialog)]_vars
  <2> SUFFICES ASSUME ProcInv, [Next]_vars
               PROVE  \A s \in Servers : [D(s)!Next]_(D(s)!dialog)
    OBVIOUS
  <2>1. \A s \in Servers : DStep(s)
    BY StepsKeep
  <2> QED
    BY <2>1 DEF DStep
<1> QED
  BY <1>1, <1>2, ProcInvariant, PTL DEF Spec, DialogImplemented

=============================================================================
