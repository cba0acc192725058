-------------------------- MODULE MuProgramProofs ---------------------------
(***************************************************************************)
(* Proofs about MuProgram for any number of processes, command lines and   *)
(* messages: what exit code 0 promises, and when it is certain.            *)
(***************************************************************************)
EXTENDS MuProgram, MuStoreOpsProofs, FiniteSetTheorems, FunctionTheorems,
        SequenceTheorems

-----------------------------------------------------------------------------
(* What sequences have.                                                    *)

LEMMA ToSetIs ==
  ASSUME NEW S, NEW s \in Seq(S)
  PROVE  \A x : x \in ToSet(s) <=> \E i \in 1..Len(s) : x = s[i]
BY DEF ToSet

LEMMA ToSetConcat ==
  ASSUME NEW S, NEW a \in Seq(S), NEW b \in Seq(S)
  PROVE  ToSet(a) \cup ToSet(b) \subseteq ToSet(a \o b)
<1>1. a \o b \in Seq(S)
  OBVIOUS
<1>2. \A k \in 1..Len(a) : k \in 1..Len(a \o b) /\ (a \o b)[k] = a[k]
  OBVIOUS
<1>3. \A k \in 1..Len(b) : /\ k + Len(a) \in 1..Len(a \o b)
                           /\ (a \o b)[k + Len(a)] = b[k]
  OBVIOUS
<1>4. \A x : x \in ToSet(a \o b) <=> \E i \in 1..Len(a \o b) : x = (a \o b)[i]
  BY <1>1, ToSetIs, Zenon
<1>5. /\ \A x : x \in ToSet(a) <=> \E i \in 1..Len(a) : x = a[i]
      /\ \A x : x \in ToSet(b) <=> \E i \in 1..Len(b) : x = b[i]
  BY ToSetIs, Zenon
<1>6. ASSUME NEW x \in ToSet(a) PROVE x \in ToSet(a \o b)
  <2>1. PICK i \in 1..Len(a) : x = a[i]
    BY <1>5, Zenon
  <2>2. i \in 1..Len(a \o b) /\ x = (a \o b)[i]
    BY <1>2, <2>1, Zenon
  <2> QED
    BY <1>4, <2>2, Zenon
<1>7. ToSet(b) \subseteq ToSet(a \o b)
  BY <1>3, <1>4, <1>5, Zenon
<1> QED
  BY <1>6, <1>7, Zenon

LEMMA ToSetTail ==
  ASSUME NEW S, NEW s \in Seq(S), s # <<>>
  PROVE  /\ Head(s) \in S /\ Tail(s) \in Seq(S)
         /\ ToSet(s) = {Head(s)} \cup ToSet(Tail(s))
         /\ Len(s) = 1 <=> Tail(s) = <<>>
<1>1. /\ Len(s) \in Nat \ {0} /\ Head(s) = s[1] /\ Tail(s) \in Seq(S)
      /\ Len(Tail(s)) = Len(s) - 1
      /\ \A i \in 1..(Len(s) - 1) : Tail(s)[i] = s[i + 1]
  OBVIOUS
<1>2. \A i \in 1..Len(s) : i = 1 \/ (i - 1 \in 1..(Len(s) - 1) /\ (i - 1) + 1 = i)
  BY <1>1
<1>3. \A i \in 1..(Len(s) - 1) : i + 1 \in 1..Len(s)
  BY <1>1
<1>4. 1 \in 1..Len(s) /\ (Len(s) = 1 <=> Tail(s) = <<>>)
  <2>1. Tail(s) = <<>> <=> Len(Tail(s)) = 0
    BY <1>1, EmptySeq
  <2> QED
    BY <1>1, <2>1
<1>0. /\ \A x : x \in ToSet(s) <=> \E i \in 1..Len(s) : x = s[i]
      /\ \A x : x \in ToSet(Tail(s)) <=> \E i \in 1..Len(Tail(s)) : x = Tail(s)[i]
  BY <1>1, ToSetIs, Zenon
<1>5. ASSUME NEW x \in ToSet(s) PROVE x \in {Head(s)} \cup ToSet(Tail(s))
  <2>1. PICK i \in 1..Len(s) : x = s[i]
    BY <1>0, <1>5
  <2> QED
    BY <1>0, <1>1, <1>2, <2>1
<1>6. ASSUME NEW x \in {Head(s)} \cup ToSet(Tail(s)) PROVE x \in ToSet(s)
  <2>1. CASE x = Head(s)
    BY <1>0, <1>1, <1>4, <2>1
  <2>2. CASE x \in ToSet(Tail(s))
    <3>1. PICK i \in 1..Len(Tail(s)) : x = Tail(s)[i]
      BY <1>0, <2>2, Zenon
    <3>2. i \in 1..(Len(s) - 1)
      BY <1>1
    <3> QED
      BY <1>0, <1>1, <1>3, <3>1, <3>2
  <2> QED
    BY <1>6, <2>1, <2>2
<1>7. Head(s) \in S
  BY <1>1
<1> QED
  BY <1>1, <1>4, <1>5, <1>6, <1>7

LEMMA ToSetAppend ==
  ASSUME NEW S, NEW s \in Seq(S), NEW e \in S
  PROVE  ToSet(Append(s, e)) = ToSet(s) \cup {e}
<1>1. /\ Append(s, e) \in Seq(S) /\ Len(Append(s, e)) = Len(s) + 1
      /\ Append(s, e)[Len(s) + 1] = e
      /\ \A i \in 1..Len(s) : Append(s, e)[i] = s[i]
      /\ Len(s) \in Nat
  OBVIOUS
<1>2. \A i \in 1..(Len(s) + 1) : i = Len(s) + 1 \/ i \in 1..Len(s)
  BY <1>1
<1>3. Len(s) + 1 \in 1..(Len(s) + 1) /\ \A i \in 1..Len(s) : i \in 1..(Len(s) + 1)
  BY <1>1
<1>0. /\ \A x : x \in ToSet(s) <=> \E i \in 1..Len(s) : x = s[i]
      /\ \A x : x \in ToSet(Append(s, e))
                <=> \E i \in 1..Len(Append(s, e)) : x = Append(s, e)[i]
  BY <1>1, ToSetIs, Zenon
<1>4. ASSUME NEW x \in ToSet(Append(s, e)) PROVE x \in ToSet(s) \cup {e}
  <2>1. PICK i \in 1..Len(Append(s, e)) : x = Append(s, e)[i]
    BY <1>0, <1>4, Zenon
  <2>2. i = Len(s) + 1 \/ i \in 1..Len(s)
    BY <1>1, <1>2
  <2> QED
    BY <1>0, <1>1, <2>1, <2>2
<1>5. ASSUME NEW x \in ToSet(s) \cup {e} PROVE x \in ToSet(Append(s, e))
  <2>1. CASE x = e
    BY <1>0, <1>1, <1>3, <2>1
  <2>2. CASE x \in ToSet(s)
    <3>1. PICK i \in 1..Len(s) : x = s[i]
      BY <1>0, <2>2, Zenon
    <3> QED
      BY <1>0, <1>1, <1>3, <3>1
  <2> QED
    BY <1>5, <2>1, <2>2
<1> QED
  BY <1>4, <1>5

-----------------------------------------------------------------------------
(* The entries of several maildirs in a row.                               *)

\* f is a value of the recursive definition in FlattenSeq, for the first n of
\* the sequences ss.
Flattens(ss, n, f) ==
  f = [i \in 1..n |-> IF i = 1 THEN ss[i] ELSE f[i - 1] \o ss[i]]

\* The least n without a value would get one from that of n - 1.
LEMMA FlattenExists ==
  ASSUME NEW ss, NEW n \in Nat
  PROVE  \E f : Flattens(ss, n, f)
<1> DEFINE Bad == {k \in Nat : ~\E f : Flattens(ss, k, f)}
<1>1. SUFFICES ASSUME Bad # {} PROVE FALSE
  OBVIOUS
<1>2. PICK k \in Bad : \A j \in Bad : k <= j
  BY <1>1, LeastNat
<1>3. k \in Nat /\ ~\E f : Flattens(ss, k, f)
  OBVIOUS
<1>4. \A j \in Nat : j < k => \E f : Flattens(ss, j, f)
  <2> SUFFICES ASSUME NEW j \in Nat, j < k PROVE j \notin Bad
    OBVIOUS
  <2> HIDE DEF Bad
  <2> QED
    BY <1>2, <1>3
<1> HIDE DEF Bad
<1>5. CASE k = 0
  <2> DEFINE f == [i \in 1..0 |-> ss[i]]
  <2>1. f = [i \in 1..0 |-> IF i = 1 THEN ss[i] ELSE f[i - 1] \o ss[i]]
    OBVIOUS
  <2> QED
    BY <1>3, <1>5, <2>1 DEF Flattens
<1>6. CASE k # 0
  <2>1. k - 1 \in Nat /\ k - 1 < k
    BY <1>3, <1>6
  <2>2. PICK g : Flattens(ss, k - 1, g)
    BY <1>4, <2>1
  <2> DEFINE f == [i \in 1..k |-> IF i = k
                                  THEN IF k = 1 THEN ss[k] ELSE g[k - 1] \o ss[k]
                                  ELSE g[i]]
             r == [i \in 1..k |-> IF i = 1 THEN ss[i] ELSE f[i - 1] \o ss[i]]
  <2>3. \A i \in 1..k : f[i] = r[i]
    <3> SUFFICES ASSUME NEW i \in 1..k PROVE f[i] = r[i]
      OBVIOUS
    <3>1. CASE i = k
      <4>1. CASE k = 1
        BY <3>1, <4>1
      <4>2. CASE k # 1
        <5>1. k - 1 \in 1..k /\ k - 1 # k
          BY <1>3, <1>6, <4>2
        <5> QED
          BY <3>1, <4>2, <5>1
      <4> QED
        BY <4>1, <4>2
    <3>2. CASE i # k
      <4>1. i \in 1..(k - 1)
        BY <1>3, <3>2
      <4>2. g[i] = IF i = 1 THEN ss[i] ELSE g[i - 1] \o ss[i]
        BY <2>2, <4>1 DEF Flattens
      <4>3. CASE i = 1
        BY <3>2, <4>2, <4>3
      <4>4. CASE i # 1
        <5>1. i - 1 \in 1..k /\ i - 1 # k
          BY <1>3, <4>1, <4>4
        <5> QED
          BY <3>2, <4>2, <4>4, <5>1
      <4> QED
        BY <4>3, <4>4
    <3> QED
      BY <3>1, <3>2
  <2>4. f = r
    BY <2>3
  <2>5. Flattens(ss, k, f)
    BY <2>4 DEF Flattens
  <2> QED
    BY <1>3, <2>5
<1> QED
  BY <1>5, <1>6

\* FlattenSeq(ss) has what the sequences of ss have.
LEMMA FlattenHas ==
  ASSUME NEW S, NEW ss \in Seq(Seq(S))
  PROVE  /\ FlattenSeq(ss) \in Seq(S)
         /\ \A i \in 1..Len(ss) : ToSet(ss[i]) \subseteq ToSet(FlattenSeq(ss))
<1> DEFINE n == Len(ss)
           f == CHOOSE g : Flattens(ss, n, g)
<1>1. n \in Nat /\ \A i \in 1..n : ss[i] \in Seq(S)
  OBVIOUS
<1>2. Flattens(ss, n, f)
  BY <1>1, FlattenExists
<1>3. CASE n = 0
  <2>1. FlattenSeq(ss) = <<>>
    BY <1>3 DEF FlattenSeq
  <2> QED
    BY <1>3, <2>1
<1>4. CASE n # 0
  <2>1. FlattenSeq(ss) = f[n]
    BY <1>4 DEF FlattenSeq, Flattens
  <2> HIDE DEF f
  <2> DEFINE Good(i) == /\ f[i] \in Seq(S)
                        /\ \A j \in 1..i : ToSet(ss[j]) \subseteq ToSet(f[i])
             Bad == {i \in 1..n : ~Good(i)}
  <2>2. Good(1)
    <3>1. f[1] = ss[1]
      BY <1>1, <1>2, <1>4 DEF Flattens
    <3>2. \A j \in 1..1 : j = 1
      OBVIOUS
    <3> QED
      BY <1>1, <1>4, <3>1, <3>2
  <2>3. ASSUME NEW i \in 1..n, i # 1, Good(i - 1) PROVE Good(i)
    <3>1. i - 1 \in 1..n /\ i \in Nat
      BY <1>1, <2>3
    <3>2. f[i] = f[i - 1] \o ss[i]
      BY <1>2, <2>3 DEF Flattens
    <3>3. f[i] \in Seq(S)
      BY <1>1, <2>3, <3>2
    <3>4. /\ f[i - 1] \in Seq(S) /\ ss[i] \in Seq(S)
          /\ ToSet(f[i - 1]) \cup ToSet(ss[i]) \subseteq ToSet(f[i - 1] \o ss[i])
      <4> QED
        BY <1>1, <2>3, ToSetConcat
    <3>5. ASSUME NEW j \in 1..i PROVE ToSet(ss[j]) \subseteq ToSet(f[i])
      <4>1. j = i \/ j \in 1..(i - 1)
        BY <3>1
      <4> QED
        BY <2>3, <3>2, <3>4, <4>1
    <3> QED
      BY <3>3, <3>5
  <2>4. Bad = {}
    <3> SUFFICES ASSUME Bad # {} PROVE FALSE
      OBVIOUS
    <3>1. Bad \in SUBSET Nat
      OBVIOUS
    <3> HIDE DEF Good
    <3>2. PICK i \in Bad : \A j \in Bad : i <= j
      <4> HIDE DEF Bad
      <4> QED
        BY <3>1, LeastNat
    <3>3. i \in 1..n /\ ~Good(i) /\ i # 1
      BY <2>2
    <3>4. i - 1 \in 1..n /\ ~(i <= i - 1)
      BY <1>1, <3>3
    <3>5. Good(i - 1)
      BY <3>2, <3>4
    <3> QED
      BY <2>3, <3>3, <3>5
  <2>5. n \in 1..n
    BY <1>1, <1>4
  <2>6. Good(n)
    <3> HIDE DEF Good
    <3> QED
      BY <2>4, <2>5
  <2> QED
    BY <2>1, <2>6
<1> QED
  BY <1>3, <1>4


-----------------------------------------------------------------------------
(* The inductive invariant.                                                *)

Places == (UNION {ToSet(line.params) : line \in CommandLines})
            \cup {line.linksdir : line \in CommandLines}
Entry == Places \X {"new", "cur", "tmp", ".noindex"}
LinkSet == Places \X {"new", "cur"} \X Paths

PState ==
  [phase : Phases, line : CommandLines \cup {Null}, make : Seq(Entry),
   todo : Seq(Places), left : SUBSET Paths, clear : SUBSET {"new", "cur", "tmp"},
   listed : SUBSET LinkSet, rv : BOOLEAN, errno : BOOLEAN,
   err : {Null, "file", "cannot open"}, allok : BOOLEAN,
   asked : SUBSET Paths, count : BOOLEAN, code : Codes \cup {Null},
   alone : BOOLEAN, hurt : BOOLEAN, lost : BOOLEAN]

Writing == {"add", "remove", "close"}
Linking == {"clear", "unlink", "link"}

\* What is known of a process in each phase of it.
PhaseInv(r) ==
  /\ r.left \subseteq r.asked
  /\ r.phase \notin {"link", "exit"} => r.left = r.asked
  /\ r.phase # "exit" => r.line \in CommandLines
  /\ r.phase \notin {"exit", "close"} => r.code = Null
  /\ r.phase = "close" => /\ r.todo = <<>>
                          /\ r.code # Null => /\ r.code = "in parameters"
                                              /\ r.line.params = <<>>
  /\ r.phase \in {"open"} \cup Writing => r.line.cmd \in {"add", "remove"}
  /\ r.phase \notin {"exit"} \cup Writing => r.allok
  /\ r.phase \notin {"exit"} \cup Linking => r.err = Null
  /\ r.phase \in {"config", "home", "log", "move log", "open log", "execute"}
       => r.asked = {}
  /\ r.phase = "open" => r.todo = r.line.params
  /\ r.phase \in {"add", "remove"} => r.phase = r.line.cmd /\ r.todo # <<>>
  /\ r.phase \in {"add", "remove", "view"}
       => ToSet(r.todo) \subseteq ToSet(r.line.params)
  /\ r.phase = "view" => r.line.cmd = "view"
  /\ r.phase = "mkdir" => r.line.cmd \in {"mkdir", "find"}
  /\ r.phase \in Linking => r.line.cmd = "find"
  /\ r.phase \in {"clear", "unlink"} => "clearlinks" \in r.line.opts

\* The maildirs that a process needs are in the tree t, or it will make them.
Needed(line) ==
  IF line.cmd = "mkdir"
  THEN UNION {ToSet(Entries(dir)) : dir \in ToSet(line.params)}
  ELSE ToSet(Entries(line.linksdir))

TreeInv(r, t) ==
  /\ r.phase = "mkdir" => Needed(r.line) \subseteq t \cup ToSet(r.make)
  /\ r.phase \in Linking => Needed(r.line) \subseteq t

\* What add or remove is to do with the file of that name is done in the
\* content c, with files fs.
In(c) == {d.path : d \in c.docs}
IsIn(line, n, c, fs) ==
  IF line.cmd = "add" THEN RealPath[n] \in In(c)
  ELSE RealPath[n] \in fs \cup {n} => RealPath[n] \notin In(c)

DoneInv(r, c, fs) ==
  r.phase \in Writing /\ r.allok /\ ~r.lost =>
    \A n \in ToSet(r.line.params) : n \in ToSet(r.todo) \/ IsIn(r.line, n, c, fs)

\* The matches seen to have their links, and there are no other links where
\* they were to be cleared, unless there is an error that says so; only a process
\* that is alone can be sure of that.
LinkInv(r, ls, fs) ==
  LET dir  == r.line.linksdir
      seen == r.asked \ r.left
  IN  /\ r.phase = "link" /\ ~r.count => seen \cap fs = {}
      /\ r.alone /\ r.phase = "link" =>
           /\ \A m \in seen \cap fs : <<dir, Subdir[m], m>> \in ls
           /\ "clearlinks" \in r.line.opts /\ r.err = Null
                => \A l \in ls : l[1] = dir => l[3] \in seen
      /\ r.alone /\ r.phase = "clear" /\ r.err = Null =>
           /\ ~r.errno /\ (r.clear # {"new", "cur", "tmp"} => ~r.rv)
           /\ \A l \in ls : l[1] = dir => l[2] \in r.clear
      /\ r.alone /\ r.phase = "unlink" /\ r.err = Null /\ ~r.errno =>
           /\ r.rv /\ r.listed \subseteq ls
           /\ \A l \in ls : l[1] = dir => l[2] \in r.clear \/ l \in r.listed
      /\ r.alone /\ ~r.hurt /\ r.phase \in Linking =>
           /\ r.err = Null
           /\ r.phase = "unlink" => ~r.errno

\* Nothing is wrong with the names for add or remove.
Named(line, fs) ==
  /\ ToSet(line.params) \cap Relative = {}
  /\ line.cmd = "add" => \A n \in ToSet(line.params) : RealPath[n] \in fs

\* Why a command that is right does not fail.
RightInv(r, hm, lg, fs) ==
  /\ ~r.hurt /\ r.phase \in {"log", "move log", "open log"} => "log" \in hm
  /\ r.alone /\ r.phase = "move log" => lg = "big"
  /\ ~r.hurt /\ r.phase \in Writing /\ Named(r.line, fs) => r.allok

PInv(r, c, fs, t, ls, hm, lg) ==
  /\ PhaseInv(r) /\ TreeInv(r, t) /\ DoneInv(r, c, fs)
  /\ LinkInv(r, ls, fs) /\ RightInv(r, hm, lg, fs)

\* The parts that processes share.
Fit(s) == GoodStore(s) /\ s.work.version # "old" /\ s.disk.version # "old"

LinksFit(ls, t) == ls \subseteq LinkSet /\ \A l \in ls : <<l[1], l[2]>> \in t

SharedInv ==
  /\ files \subseteq Paths /\ Fit(store) /\ LinksFit(links, tree)
  /\ home \subseteq {"home", "cache", "log"} /\ log \in {"none", "small", "big"}
  /\ lock \in Procs \cup {Null}

ProgInv ==
  /\ SharedInv
  /\ proc \in [Procs -> PState]
  /\ \A p \in Procs : lock = p <=> proc[p].phase \in Writing
  /\ \A p \in Procs : PInv(proc[p], store.work, files, tree, links, home, log)
  /\ \A p, q \in Procs : Running(p) /\ proc[p].alone /\ p # q => ~Running(q)

LEMMA InvTypeOK ==
  ASSUME ProgInv
  PROVE  TypeOK
<1>1. \A p \in Procs : /\ proc[p].phase \in Phases
                       /\ proc[p].code \in Codes \cup {Null}
  BY DEF ProgInv, PState
<1>2. \A p \in Procs : proc[p].left \subseteq proc[p].asked
  BY DEF ProgInv, PInv, PhaseInv
<1>3. store \in Stores
  BY DEF ProgInv, SharedInv, Fit, GoodStore
<1> QED
  BY <1>1, <1>2, <1>3 DEF ProgInv, SharedInv, LinksFit, TypeOK, Writing

\* What others do to the world takes nothing from what is known of a process
\* that they cannot disturb.
LEMMA WorldMoves ==
  ASSUME NEW r, NEW c, NEW fs, NEW t, NEW ls, NEW hm, NEW lg,
         PInv(r, c, fs, t, ls, hm, lg),
         NEW c2, c2 = c \/ r.phase \notin Writing,
         NEW fs2 \in SUBSET fs, NEW t2, t \subseteq t2, NEW hm2, hm \subseteq hm2,
         NEW ls2, NEW lg2,
         (ls2 = ls /\ lg2 = lg) \/ ~r.alone \/ r.phase = "exit"
  PROVE  PInv(r, c2, fs2, t2, ls2, hm2, lg2)
<1>1. PhaseInv(r)
  BY DEF PInv
<1>2. TreeInv(r, t2)
  BY DEF PInv, TreeInv
<1>3. DoneInv(r, c2, fs2)
  BY DEF PInv, DoneInv, IsIn
<1>4. LinkInv(r, ls2, fs2)
  BY DEF PInv, LinkInv
<1>5. RightInv(r, hm2, lg2, fs2)
  BY DEF PInv, RightInv, Named, Writing
<1> QED
  BY <1>1, <1>2, <1>3, <1>4, <1>5 DEF PInv

\* A step of the process p, which goes to r.
LEMMA Moves ==
  ASSUME ProgInv, NEW p \in Procs, Running(p), NEW r \in PState, Goes(p, r),
         r.alone = proc[p].alone, SharedInv',
         PInv(r, store'.work, files', tree', links', home', log'),
         files' \subseteq files, tree \subseteq tree', home \subseteq home',
         \/ lock' = lock /\ (lock = p <=> r.phase \in Writing)
         \/ lock = Null /\ lock' = p /\ r.phase \in Writing
         \/ lock = p /\ lock' = Null /\ r.phase \notin Writing,
         store' = store \/ lock = p \/ lock' = p
  PROVE  ProgInv' /\ \A q \in Procs \ {p} : ~HasExited(q)
<1>1. /\ proc' \in [Procs -> PState] /\ proc'[p] = r
      /\ \A q \in Procs \ {p} : proc'[q] = proc[q]
  BY DEF ProgInv, Goes
<1>2. ASSUME NEW q \in Procs PROVE lock' = q <=> proc'[q].phase \in Writing
  <2>1. CASE q = p
    BY <1>1, <2>1, NullAssumption
  <2>2. CASE q # p
    <3>1. lock = q <=> proc'[q].phase \in Writing
      BY <1>1, <2>2 DEF ProgInv
    <3>2. lock' = q <=> lock = q
      BY <2>2, NullAssumption
    <3> QED
      BY <3>1, <3>2
  <2> QED
    BY <2>1, <2>2
<1>3. ASSUME NEW q \in Procs
      PROVE  PInv(proc'[q], store'.work, files', tree', links', home', log')
  <2>1. CASE q = p
    BY <1>1, <2>1
  <2>2. CASE q # p
    <3>1. ~proc[q].alone \/ proc[q].phase = "exit"
      BY <2>2 DEF ProgInv, Running
    <3>2. store'.work = store.work \/ proc[q].phase \notin Writing
      <4>1. proc[q].phase \in Writing => lock = q
        BY DEF ProgInv
      <4> QED
        BY <2>2, <4>1, NullAssumption
    <3>3. PInv(proc[q], store.work, files, tree, links, home, log)
      BY DEF ProgInv
    <3> QED
      BY <1>1, <2>2, <3>1, <3>2, <3>3, WorldMoves
  <2> QED
    BY <2>1, <2>2
<1>4. ASSUME NEW a \in Procs, NEW b \in Procs,
             proc'[a].phase # "exit", proc'[a].alone, a # b
      PROVE  proc'[b].phase = "exit"
  <2>1. proc[a].phase # "exit" /\ proc[a].alone
    BY <1>1, <1>4 DEF Running
  <2>2. proc[b].phase = "exit"
    BY <1>4, <2>1 DEF ProgInv, Running
  <2> QED
    BY <1>1, <2>2 DEF Running
<1>5. \A q \in Procs \ {p} : ~HasExited(q)
  BY <1>1 DEF HasExited, Running
<1> QED
  BY <1>1, <1>2, <1>3, <1>4, <1>5 DEF ProgInv, Running

LEMMA NumberingIs ==
  /\ Numbering \in [Paths -> 1..Cardinality(Paths)]
  /\ 1..Cardinality(Paths) \subseteq DocIds
  /\ Cardinality(Paths) \in 0..MaxDocId
<1>1. Cardinality(Paths) \in Nat
  BY IndexingsAssumption, FS_CardinalityType
<1>2. ExistsBijection(1..Cardinality(Paths), Paths)
  BY IndexingsAssumption, FS_CardinalityType
<1>3. \E f \in [Paths -> 1..Cardinality(Paths)] :
               \A a, b \in Paths : a # b => f[a] # f[b]
  <2>1. ExistsBijection(Paths, 1..Cardinality(Paths))
    BY <1>2, Fun_ExistsBijSymmetric
  <2> QED
    BY <2>1 DEF ExistsBijection, Bijection, Injection, Surjection, IsInjective
<1>4. Numbering \in [Paths -> 1..Cardinality(Paths)]
  BY <1>3 DEF Numbering
<1> QED
  BY <1>1, <1>4, IndexingsAssumption, MaxDocIdAssumption DEF DocIds

LEMMA IndexedIsContent ==
  ASSUME NEW paths \in Indexings
  PROVE  Indexed(paths) \in Contents /\ Indexed(paths).version = "current"
<1>1. \A a \in paths : Doc(Numbering[a], a, CHOOSE b \in Bodies : TRUE) \in Docs
  BY NumberingIs, IndexingsAssumption DEF Doc, Docs
<1>2. EmptyContent \in Contents
  BY ContentsEmpty
<1> QED
  BY <1>1, <1>2, NumberingIs DEF Indexed, Contents, Versions

LEMMA InitProgInv == Init => ProgInv
<1> SUFFICES ASSUME Init PROVE ProgInv
  OBVIOUS
<1>1. PICK content \in {EmptyContent} \cup {Indexed(paths) : paths \in Indexings} :
         store = [work |-> content, disk |-> content, xtxn |-> FALSE,
                  inTxn |-> FALSE, processed |-> 0, badWrites |-> MaxFaults,
                  badCommits |-> MaxFaults]
  BY DEF Init
<1>2. content \in Contents /\ content.version # "old"
  BY ContentsEmpty, IndexedIsContent DEF EmptyContent
<1>3. 0 \in 0..(BatchSize - 1)
  BY BatchSizeAssumption
<1>4. Fit(store)
  BY <1>1, <1>2, <1>3, FaultsAssumption DEF Fit, GoodStore, Stores
<1>5. NotStarted \in PState
  <2>1. /\ <<>> \in Seq(Entry) /\ <<>> \in Seq(Places)
        /\ "exit" \in Phases
    BY DEF Phases
  <2> QED
    BY <2>1 DEF NotStarted, Fresh, PState
<1>6. NotStarted.phase = "exit" /\ NotStarted.left = {}
  BY DEF NotStarted, Fresh
<1>7. \A t, ls, c, fs, hm, lg : PInv(NotStarted, c, fs, t, ls, hm, lg)
  BY <1>6 DEF PInv, PhaseInv, TreeInv, DoneInv, LinkInv, RightInv, Writing, Linking
<1>8. SharedInv
  BY <1>4 DEF Init, SharedInv, LinksFit
<1>9. \A p \in Procs : proc[p] = NotStarted
  BY DEF Init
<1> QED
  BY <1>5, <1>6, <1>7, <1>8, <1>9, NullAssumption DEF Init, ProgInv, Running, Writing

-----------------------------------------------------------------------------
(* What a step must do: keep the invariant, exit with 0 only if all is     *)
(* done, and exit with something else only if something is wrong.          *)

OkStep(p) ==
  HasExited(p) /\ proc'[p].code = "ok" /\ ~proc'[p].lost
    /\ "version" \notin proc[p].line.opts
    => IsDone(p)

RightRun(p) ==
  /\ IsRight(proc[p].line) /\ proc[p].alone
  /\ proc[p].line.cmd = "find" =>
       /\ store.disk.version = "current"
       /\ \A m \in proc[p].asked : Subdir[m] \in {"new", "cur"}
       /\ proc[p].asked \cap files # {}

RightStep(p) ==
  HasExited(p) /\ proc'[p].code # "killed" /\ RightRun(p) /\ ~proc'[p].hurt
    => proc'[p].code = "ok"

StepGood == ProgInv' /\ \A q \in Procs : OkStep(q) /\ RightStep(q)

\* The world after a step that is not one of the database.
WorldKept ==
  /\ files' \subseteq files /\ tree \subseteq tree' /\ home \subseteq home'
  /\ store' = store /\ lock' = lock

\* A step after which the process p still runs, and one with which it exits.
LEMMA RunsOn ==
  ASSUME ProgInv, NEW p \in Procs, Running(p), NEW r \in PState, Goes(p, r),
         r.phase # "exit", r.alone = proc[p].alone, SharedInv', WorldKept,
         lock = p <=> r.phase \in Writing,
         PInv(r, store.work, files', tree', links', home', log')
  PROVE  StepGood
<1>1. ProgInv' /\ \A q \in Procs \ {p} : ~HasExited(q)
  BY Moves DEF WorldKept
<1>2. ~HasExited(p)
  BY DEF ProgInv, Goes, HasExited
<1> QED
  BY <1>1, <1>2 DEF StepGood, OkStep, RightStep

LEMMA ExitFits ==
  ASSUME NEW r, r.phase = "exit", r.left \subseteq r.asked
  PROVE  \A c, fs, t, ls, hm, lg : PInv(r, c, fs, t, ls, hm, lg)
BY DEF PInv, PhaseInv, TreeInv, DoneInv, LinkInv, RightInv, Writing, Linking

LEMMA Ends ==
  ASSUME ProgInv, NEW p \in Procs, Running(p), NEW code \in Codes,
         NEW hurt \in BOOLEAN,
         Goes(p, [proc[p] EXCEPT !.phase = "exit", !.code = code, !.hurt = hurt]),
         SharedInv', WorldKept, lock # p,
         code = "ok" /\ "version" \notin proc[p].line.opts => IsDone(p),
         code \notin {"ok", "killed"} /\ ~hurt => ~RightRun(p)
  PROVE  StepGood
<1> DEFINE r == [proc[p] EXCEPT !.phase = "exit", !.code = code, !.hurt = hurt]
<1>1. proc \in [Procs -> PState] /\ proc[p] \in PState
      /\ proc[p].left \subseteq proc[p].asked
  BY DEF ProgInv, PInv, PhaseInv
<1>2. /\ r \in PState /\ r.phase = "exit" /\ r.code = code /\ r.hurt = hurt
      /\ r.alone = proc[p].alone /\ r.left \subseteq r.asked
  BY <1>1 DEF PState, Phases
<1>3. Goes(p, r)
  OBVIOUS
<1> HIDE DEF r
<1>4. ProgInv' /\ \A q \in Procs \ {p} : ~HasExited(q)
  BY <1>2, <1>3, ExitFits, Moves DEF WorldKept, Writing
<1>5. proc'[p] = r
  BY <1>1, <1>3 DEF Goes
<1>6. OkStep(p) /\ RightStep(p)
  BY <1>2, <1>5 DEF OkStep, RightStep
<1> QED
  BY <1>4, <1>6 DEF StepGood, OkStep, RightStep

\* The same for Exits, Fails and Refused.
LEMMA ExitsEnds ==
  ASSUME ProgInv, NEW p \in Procs, Running(p), NEW code \in Codes, Exits(p, code),
         SharedInv', WorldKept, lock # p,
         code = "ok" /\ "version" \notin proc[p].line.opts => IsDone(p),
         code \notin {"ok", "killed"} /\ ~proc[p].hurt => ~RightRun(p)
  PROVE  StepGood
<1>1. proc[p] \in PState
  BY DEF ProgInv
<1>2. [proc[p] EXCEPT !.phase = "exit", !.code = code]
        = [proc[p] EXCEPT !.phase = "exit", !.code = code, !.hurt = proc[p].hurt]
  BY <1>1 DEF PState
<1>3. proc[p].hurt \in BOOLEAN
  BY <1>1 DEF PState
<1> QED
  BY <1>2, <1>3, Ends DEF Exits

LEMMA FirstErrorIs ==
  ASSUME NEW err \in {Null, "file", "cannot open"}, NEW code \in Codes
  PROVE  /\ FirstError(err, code) \in Codes /\ FirstError(err, code) # Null
         /\ FirstError(err, code) \in {code, "file", "cannot open"}
<1>1. "file" \in Codes /\ "cannot open" \in Codes
  BY DEF Codes
<1>2. Null \notin Codes
  BY NullAssumption
<1>3. CASE err = Null
  BY <1>2, <1>3 DEF FirstError
<1>4. CASE err # Null
  BY <1>1, <1>2, <1>4 DEF FirstError
<1> QED
  BY <1>3, <1>4

LEMMA FailsEnds ==
  ASSUME ProgInv, NEW p \in Procs, Running(p), NEW code \in Codes \ {"ok"},
         Fails(p, code), SharedInv', WorldKept, lock # p,
         ~proc[p].hurt => ~RightRun(p)
  PROVE  StepGood
<1>1. proc[p] \in PState
  BY DEF ProgInv
<1>3. proc[p].err \in {Null, "file", "cannot open"}
  BY <1>1 DEF PState
<1>4. /\ code \in Codes /\ FirstError(proc[p].err, code) \in Codes
      /\ FirstError(proc[p].err, code) \in {code, "file", "cannot open"}
  BY <1>3, FirstErrorIs
<1>2. FirstError(proc[p].err, code) \in Codes /\ FirstError(proc[p].err, code) # "ok"
  BY <1>4
<1> QED
  BY <1>2, ExitsEnds DEF Fails

LEMMA RefusedEnds ==
  ASSUME ProgInv, NEW p \in Procs, Running(p), NEW code \in Codes, Refused(p, code),
         SharedInv', WorldKept, lock # p, code # "ok"
  PROVE  StepGood
<1>1. proc[p] \in PState
  BY DEF ProgInv
<1>2. [[proc[p] EXCEPT !.phase = "exit", !.code = code] EXCEPT !.hurt = TRUE]
        = [proc[p] EXCEPT !.phase = "exit", !.code = code, !.hurt = TRUE]
  BY <1>1 DEF PState
<1> QED
  BY <1>2, Ends DEF Refused, Hurts

LEMMA SharedKept ==
  ASSUME ProgInv, UNCHANGED shared
  PROVE  SharedInv' /\ WorldKept
BY DEF ProgInv, SharedInv, shared, WorldKept, LinksFit, Fit

\* What is known of a process.
LEMMA Known ==
  ASSUME ProgInv, NEW p \in Procs
  PROVE  /\ proc[p] \in PState /\ PhaseInv(proc[p])
         /\ TreeInv(proc[p], tree) /\ DoneInv(proc[p], store.work, files)
         /\ LinkInv(proc[p], links, files) /\ RightInv(proc[p], home, log, files)
         /\ lock = p <=> proc[p].phase \in Writing
         /\ SharedInv
BY DEF ProgInv, PInv

-----------------------------------------------------------------------------
(* Getting ready.                                                          *)

\* A process in one of the phases before the commands.
Early == {"config", "home", "log", "move log", "open log", "execute"}

LEMMA GoesEarly ==
  ASSUME ProgInv, NEW p \in Procs, proc[p].phase \in Early,
         NEW r \in PState, r.phase \in Early, r.line = proc[p].line,
         r.code = proc[p].code, r.err = proc[p].err,
         r.left = proc[p].left, r.asked = proc[p].asked,
         r.allok = proc[p].allok,
         NEW hm, NEW lg,
         ~r.hurt /\ r.phase \in {"log", "move log", "open log"} => "log" \in hm,
         r.alone /\ r.phase = "move log" => lg = "big"
  PROVE  \A c, fs, t, ls : PInv(r, c, fs, t, ls, hm, lg)
<1>1. proc[p] \in PState /\ PhaseInv(proc[p])
  BY Known
<1>2. proc[p].code = Null /\ proc[p].line \in CommandLines
      /\ proc[p].left = proc[p].asked /\ proc[p].allok
      /\ proc[p].err = Null /\ proc[p].asked = {}
  BY <1>1 DEF PhaseInv, Early, Writing, Linking
<1>3. PhaseInv(r)
  BY <1>2 DEF PhaseInv, Early, Writing, Linking
<1>4. \A c, fs, t, ls : TreeInv(r, t) /\ DoneInv(r, c, fs) /\ LinkInv(r, ls, fs)
  BY DEF TreeInv, DoneInv, LinkInv, Early, Writing, Linking
<1>5. \A fs : RightInv(r, hm, lg, fs)
  BY DEF RightInv, Early, Writing
<1> QED
  BY <1>3, <1>4, <1>5 DEF PInv

LEMMA EarlyGood ==
  ASSUME ProgInv, NEW p \in Procs, proc[p].phase \in Early, NEW phase \in Early,
         NEW hurt \in BOOLEAN,
         Goes(p, [proc[p] EXCEPT !.phase = phase, !.hurt = hurt]),
         SharedInv', WorldKept,
         ~hurt /\ phase \in {"log", "move log", "open log"} => "log" \in home',
         proc[p].alone /\ phase = "move log" => log' = "big"
  PROVE  StepGood
<1> DEFINE r == [proc[p] EXCEPT !.phase = phase, !.hurt = hurt]
<1>1. proc[p] \in PState /\ lock # p /\ Running(p)
  BY Known DEF Early, Writing, Running
<1>2. /\ r \in PState /\ r.phase = phase /\ r.alone = proc[p].alone
      /\ r.hurt = hurt /\ r.line = proc[p].line
      /\ r.code = proc[p].code /\ r.err = proc[p].err
      /\ r.left = proc[p].left /\ r.asked = proc[p].asked
      /\ r.allok = proc[p].allok
  BY <1>1 DEF PState, Phases, Early
<1>3. Goes(p, r)
  OBVIOUS
<1> HIDE DEF r
<1>4. \A c, fs, t, ls : PInv(r, c, fs, t, ls, home', log')
  BY <1>2, GoesEarly
<1>5. r.phase # "exit" /\ r.phase \notin Writing
  BY <1>2 DEF Early, Writing
<1> QED
  BY <1>1, <1>2, <1>3, <1>4, <1>5, RunsOn

LEMMA ConfigGood ==
  ASSUME ProgInv, NEW p \in Procs, Config(p)
  PROVE  StepGood
<1>1. /\ SharedInv' /\ WorldKept /\ lock # p /\ Running(p)
      /\ proc[p] \in PState /\ proc[p].phase = "config"
  BY SharedKept, Known DEF Config, Writing, Running
<1>2. CASE Exits(p, "ok") /\ proc[p].line.cmd = "none"
  <2>1. IsDone(p)
    BY <1>2 DEF IsDone
  <2> QED
    BY <1>1, <1>2, <2>1, ExitsEnds DEF Codes
<1>3. CASE Exits(p, "error") /\ ~ParamsParse(proc[p].line)
  <2>1. ~RightRun(p)
    BY <1>3 DEF RightRun, IsRight
  <2> QED
    BY <1>1, <1>3, <2>1, ExitsEnds DEF Codes
<1>4. CASE Exits(p, "ok") /\ "version" \in proc[p].line.opts
  BY <1>1, <1>4, ExitsEnds DEF Codes
<1>5. CASE Goes(p, [proc[p] EXCEPT !.phase = "home"])
  <2>1. [proc[p] EXCEPT !.phase = "home"]
          = [proc[p] EXCEPT !.phase = "home", !.hurt = proc[p].hurt]
        /\ proc[p].hurt \in BOOLEAN
    BY <1>1 DEF PState
  <2>2. Goes(p, [proc[p] EXCEPT !.phase = "home", !.hurt = proc[p].hurt])
    BY <1>5, <2>1
  <2> QED
    BY <1>1, <2>1, <2>2, EarlyGood DEF Early
<1> QED
  BY <1>2, <1>3, <1>4, <1>5 DEF Config

LEMMA CreateDirsGood ==
  ASSUME ProgInv, NEW p \in Procs, CreateDirs(p)
  PROVE  StepGood
<1>1. /\ proc[p].phase = "home" /\ proc[p] \in PState /\ lock # p /\ Running(p)
      /\ SharedInv
  BY Known DEF CreateDirs, Writing, Running
<1>2. /\ 1 \in DOMAIN RuntimeDirs /\ DOMAIN RuntimeDirs = {1, 2, 3}
      /\ RuntimeDirs[1] = "home" /\ RuntimeDirs[2] = "cache" /\ RuntimeDirs[3] = "log"
  BY DEF RuntimeDirs
<1>3. ToSet(RuntimeDirs) = {"home", "cache", "log"}
  BY <1>2 DEF ToSet
<1>4. home \subseteq {"home", "cache", "log"}
  BY <1>1 DEF SharedInv
<1>5. ASSUME home' \subseteq {"home", "cache", "log"}, home \subseteq home'
      PROVE  SharedInv' /\ WorldKept
  BY <1>1, <1>5 DEF CreateDirs, SharedInv, LinksFit, Fit, WorldKept
<1>6. CASE /\ home' = ToSet(RuntimeDirs)
           /\ Goes(p, [proc[p] EXCEPT !.phase = "log"])
  <2>1. [proc[p] EXCEPT !.phase = "log"]
          = [proc[p] EXCEPT !.phase = "log", !.hurt = proc[p].hurt]
        /\ proc[p].hurt \in BOOLEAN
    BY <1>1 DEF PState
  <2>2. Goes(p, [proc[p] EXCEPT !.phase = "log", !.hurt = proc[p].hurt])
    BY <1>6, <2>1
  <2>3. SharedInv' /\ WorldKept /\ "log" \in home'
    BY <1>3, <1>4, <1>5, <1>6
  <2> QED
    BY <1>1, <2>1, <2>2, <2>3, EarlyGood DEF Early
<1>7. ASSUME NEW i \in DOMAIN RuntimeDirs,
             home' = home \cup {RuntimeDirs[j] : j \in 1..(i - 1)},
             IF i = 1 THEN Refused(p, "error")
             ELSE Hurts(p, [proc[p] EXCEPT !.phase = "log"])
      PROVE  StepGood
  <2>1. \A j \in 1..(i - 1) : j \in {1, 2, 3}
    BY <1>2
  <2>2. SharedInv' /\ WorldKept
    BY <1>2, <1>4, <1>5, <1>7, <2>1
  <2>3. CASE i = 1
    BY <1>1, <1>7, <2>2, <2>3, RefusedEnds DEF Codes
  <2>4. CASE i # 1
    <3>1. [[proc[p] EXCEPT !.phase = "log"] EXCEPT !.hurt = TRUE]
            = [proc[p] EXCEPT !.phase = "log", !.hurt = TRUE]
      BY <1>1 DEF PState
    <3>2. Goes(p, [proc[p] EXCEPT !.phase = "log", !.hurt = TRUE])
      BY <1>7, <2>4, <3>1 DEF Hurts
    <3> QED
      BY <1>1, <2>2, <3>2, EarlyGood DEF Early
  <2> QED
    BY <2>3, <2>4
<1> QED
  BY <1>6, <1>7 DEF CreateDirs

LEMMA LogInitGood ==
  ASSUME ProgInv, NEW p \in Procs, LogInit(p)
  PROVE  StepGood
<1> DEFINE phase == IF log = "big" THEN "move log" ELSE "open log"
<1>1. /\ proc[p].phase = "log" /\ proc[p] \in PState /\ SharedInv' /\ WorldKept
      /\ RightInv(proc[p], home, log, files) /\ home' = home /\ log' = log
  BY Known, SharedKept DEF LogInit, shared
<1>2. /\ phase \in Early /\ proc[p].phase \in Early
      /\ phase = "move log" => log' = "big"
      /\ ~proc[p].hurt => "log" \in home'
      /\ Goes(p, [proc[p] EXCEPT !.phase = phase])
  BY <1>1 DEF LogInit, Early, RightInv
<1> HIDE DEF phase
<1>3. [proc[p] EXCEPT !.phase = phase]
        = [proc[p] EXCEPT !.phase = phase, !.hurt = proc[p].hurt]
      /\ proc[p].hurt \in BOOLEAN
  BY <1>1 DEF PState
<1>4. Goes(p, [proc[p] EXCEPT !.phase = phase, !.hurt = proc[p].hurt])
  BY <1>2, <1>3
<1> QED
  BY <1>1, <1>2, <1>3, <1>4, EarlyGood

LEMMA MoveLogFileGood ==
  ASSUME ProgInv, NEW p \in Procs, MoveLogFile(p)
  PROVE  StepGood
<1>1. /\ proc[p].phase = "move log" /\ proc[p] \in PState /\ Running(p) /\ lock # p
      /\ RightInv(proc[p], home, log, files) /\ SharedInv /\ home' = home
  BY Known DEF MoveLogFile, Running, Writing
<1>2. ASSUME log' \in {"none", log} PROVE SharedInv' /\ WorldKept
  BY <1>1, <1>2 DEF MoveLogFile, SharedInv, LinksFit, Fit, WorldKept
<1>3. ASSUME log = "none", NEW code \in {"error", "aborted"}, Exits(p, code),
             log' = log
      PROVE  StepGood
  <2>1. ~RightRun(p)
    BY <1>1, <1>3 DEF RightInv, RightRun
  <2> QED
    BY <1>1, <1>2, <1>3, <2>1, ExitsEnds DEF Codes
<1>4. CASE log' = "none" /\ Goes(p, [proc[p] EXCEPT !.phase = "open log"])
  <2>1. [proc[p] EXCEPT !.phase = "open log"]
          = [proc[p] EXCEPT !.phase = "open log", !.hurt = proc[p].hurt]
        /\ proc[p].hurt \in BOOLEAN
    BY <1>1 DEF PState
  <2>2. Goes(p, [proc[p] EXCEPT !.phase = "open log", !.hurt = proc[p].hurt])
    BY <1>4, <2>1
  <2>3. ~proc[p].hurt => "log" \in home'
    BY <1>1 DEF RightInv
  <2>4. SharedInv' /\ WorldKept
    BY <1>2, <1>4
  <2> QED
    BY <1>1, <2>1, <2>2, <2>3, <2>4, EarlyGood DEF Early
<1> QED
  BY <1>3, <1>4 DEF MoveLogFile, NoLog

LEMMA OpenLogGood ==
  ASSUME ProgInv, NEW p \in Procs, OpenLog(p)
  PROVE  StepGood
<1>1. /\ proc[p].phase = "open log" /\ proc[p] \in PState /\ Running(p) /\ lock # p
      /\ RightInv(proc[p], home, log, files) /\ SharedInv /\ home' = home
  BY Known DEF OpenLog, Running, Writing
<1>2. ASSUME log' \in {"small", log} PROVE SharedInv' /\ WorldKept
  BY <1>1, <1>2 DEF OpenLog, SharedInv, LinksFit, Fit, WorldKept
<1>3. CASE /\ log' = IF log = "none" THEN "small" ELSE log
           /\ Goes(p, [proc[p] EXCEPT !.phase = "execute"])
  <2>1. [proc[p] EXCEPT !.phase = "execute"]
          = [proc[p] EXCEPT !.phase = "execute", !.hurt = proc[p].hurt]
        /\ proc[p].hurt \in BOOLEAN
    BY <1>1 DEF PState
  <2>2. Goes(p, [proc[p] EXCEPT !.phase = "execute", !.hurt = proc[p].hurt])
    BY <1>3, <2>1
  <2>3. SharedInv' /\ WorldKept
    BY <1>2, <1>3
  <2> QED
    BY <1>1, <2>1, <2>2, <2>3, EarlyGood DEF Early
<1>4. ASSUME "log" \notin home, NEW code \in {"error", "aborted"}, Exits(p, code),
             log' = log
      PROVE  StepGood
  <2>1. proc[p].hurt
    BY <1>1, <1>4 DEF RightInv
  <2> QED
    BY <1>1, <1>2, <1>4, <2>1, ExitsEnds DEF Codes
<1>5. ASSUME NEW code \in {"error", "aborted"}, Refused(p, code), log' = log
      PROVE  StepGood
  BY <1>1, <1>2, <1>5, RefusedEnds DEF Codes
<1> QED
  BY <1>3, <1>4, <1>5 DEF OpenLog, NoLog

-----------------------------------------------------------------------------
(* mu_cmd_execute and view.                                                *)

LEMMA ParamsAre ==
  ASSUME NEW line \in CommandLines
  PROVE  /\ line.params \in Seq(ToSet(line.params)) /\ line.params \in Seq(Places)
         /\ line.linksdir \in Places /\ ToSet(line.params) \subseteq Places
<1>1. line.params \in Seq(ToSet(line.params))
  BY LinesAssumption
<1>2. line.linksdir \in Places /\ ToSet(line.params) \subseteq Places
  BY DEF Places
<1>3. ASSUME NEW S, NEW T, S \subseteq T, NEW s \in Seq(S) PROVE s \in Seq(T)
  BY <1>3
<1> QED
  BY <1>1, <1>2, <1>3

LEMMA EntriesAre ==
  ASSUME NEW dir \in Places
  PROVE  /\ Entries(dir) \in Seq(Entry) /\ <<dir, ".noindex">> \in Entry
         /\ ToSet(Entries(dir)) = {<<dir, "new">>, <<dir, "cur">>, <<dir, "tmp">>}
<1>1. /\ <<dir, "new">> \in Entry /\ <<dir, "cur">> \in Entry
      /\ <<dir, "tmp">> \in Entry /\ <<dir, ".noindex">> \in Entry
  BY DEF Entry
<1>2. ASSUME NEW S, NEW a \in S, NEW b \in S, NEW c \in S
      PROVE  <<a, b, c>> \in Seq(S) /\ ToSet(<<a, b, c>>) = {a, b, c}
  <2>1. <<a, b, c>> \in Seq(S) /\ DOMAIN <<a, b, c>> = {1, 2, 3}
    OBVIOUS
  <2>2. <<a, b, c>>[1] = a /\ <<a, b, c>>[2] = b /\ <<a, b, c>>[3] = c
    OBVIOUS
  <2> QED
    BY <2>1, <2>2 DEF ToSet
<1> QED
  BY <1>1, <1>2 DEF Entries

\* What mkdir has to make is all that it promises.
LEMMA AllEntries ==
  ASSUME NEW line \in CommandLines, line.cmd = "mkdir"
  PROVE  LET make == FlattenSeq([i \in DOMAIN line.params |-> Entries(line.params[i])])
         IN  make \in Seq(Entry) /\ Needed(line) \subseteq ToSet(make)
<1> DEFINE ps == line.params
           ss == [i \in DOMAIN ps |-> Entries(ps[i])]
           make == FlattenSeq(ss)
<1>1. ps \in Seq(ToSet(ps)) /\ ToSet(ps) \subseteq Places
  BY ParamsAre
<1>2. DOMAIN ps = 1..Len(ps) /\ Len(ps) \in Nat
  BY <1>1
<1>3. \A i \in 1..Len(ps) : ps[i] \in Places
  BY <1>1
<1>4. \A i \in 1..Len(ps) : Entries(ps[i]) \in Seq(Entry)
  BY <1>3, EntriesAre
<1>5. ss \in Seq(Seq(Entry)) /\ Len(ss) = Len(ps)
      /\ \A i \in 1..Len(ps) : ss[i] = Entries(ps[i])
  BY <1>2, <1>4
<1> HIDE DEF ss
<1>6. make \in Seq(Entry) /\ \A i \in 1..Len(ss) : ToSet(ss[i]) \subseteq ToSet(make)
  BY <1>5, FlattenHas
<1>7. ASSUME NEW dir \in ToSet(ps) PROVE ToSet(Entries(dir)) \subseteq ToSet(make)
  <2>1. PICK i \in 1..Len(ps) : dir = ps[i]
    BY <1>1, ToSetIs
  <2> QED
    BY <1>5, <1>6, <2>1
<1>8. Needed(line) \subseteq ToSet(make)
  BY <1>7 DEF Needed
<1> QED
  BY <1>6, <1>8 DEF ss

\* A process that has read its parameters goes on to the phases of its command.
LEMMA GoesToWork ==
  ASSUME ProgInv, NEW p \in Procs, proc[p].phase = "execute",
         NEW r \in PState, Goes(p, r), UNCHANGED shared,
         r.phase \in {"open", "view", "mkdir"}, r.line = proc[p].line,
         r.code = proc[p].code, r.err = proc[p].err, r.left = r.asked, r.alone = proc[p].alone,
         r.allok = proc[p].allok,
         r.phase = "open" => r.line.cmd \in {"add", "remove"},
         r.phase = "view" => r.line.cmd = "view",
         r.phase \in {"open", "view"} => r.todo = r.line.params,
         r.phase = "mkdir" => /\ r.line.cmd \in {"mkdir", "find"}
                              /\ Needed(r.line) \subseteq ToSet(r.make)
  PROVE  StepGood
<1>1. /\ PhaseInv(proc[p]) /\ SharedInv' /\ WorldKept /\ lock # p /\ Running(p)
  BY Known, SharedKept DEF Running, Writing
<1>2. PhaseInv(r)
  BY <1>1 DEF PhaseInv, Writing, Linking
<1>3. \A t, c, fs, ls : TreeInv(r, t) /\ DoneInv(r, c, fs) /\ LinkInv(r, ls, fs)
  BY DEF TreeInv, DoneInv, LinkInv, Writing, Linking
<1>4. \A hm, lg, fs : RightInv(r, hm, lg, fs)
  BY DEF RightInv, Writing
<1>5. PInv(r, store.work, files', tree', links', home', log')
  BY <1>2, <1>3, <1>4 DEF PInv
<1> QED
  BY <1>1, <1>5, RunsOn DEF Writing

LEMMA ExecuteFindGood ==
  ASSUME ProgInv, NEW p \in Procs, proc[p].phase = "execute",
         proc[p].line.cmd = "find", ExecuteFind(p), UNCHANGED shared
  PROVE  StepGood
<1> DEFINE line == proc[p].line
           matches == Matching[line.params[1]] \cap {d.path : d \in store.disk.docs}
           make == Append(Entries(line.linksdir), <<line.linksdir, ".noindex">>)
           r == [proc[p] EXCEPT !.phase = "mkdir", !.asked = matches,
                                !.left = matches, !.make = make]
<1>1. /\ proc[p] \in PState /\ PhaseInv(proc[p]) /\ SharedInv /\ Running(p)
      /\ SharedInv' /\ WorldKept /\ lock # p
  BY Known, SharedKept DEF Running, Writing
<1>2. ASSUME NEW code \in {"not up to date", "in parameters", "empty", "no matches",
                          "spawn failed"},
             Exits(p, code), ~RightRun(p)
      PROVE  StepGood
  BY <1>1, <1>2, ExitsEnds DEF Codes
<1>3. CASE Exits(p, "not up to date") /\ ~ReadOnlyOpens(store)
  BY <1>2, <1>3 DEF RightRun, ReadOnlyOpens
<1>4. CASE Exits(p, "in parameters") /\ ~FindParamsValid(line)
  <2>1. ~RightRun(p)
    BY <1>4 DEF RightRun, IsRight
  <2> QED
    BY <1>2, <1>4, <2>1
<1>6. CASE Exits(p, "empty") /\ store.disk.docs = {}
  <2>1. ~RightRun(p)
    <3>1. proc[p].asked = {}
      BY <1>1 DEF PhaseInv
    <3> QED
      BY <3>1 DEF RightRun
  <2> QED
    BY <1>2, <1>6, <2>1
<1>7. ASSUME FindFormat(line) # "links",
             NEW code \in ShownCodes(FindFormat(line), matches \cap files), Exits(p, code)
      PROVE  StepGood
  <2>1. ~RightRun(p) /\ IsDone(p)
    BY <1>7 DEF RightRun, IsRight, IsDone
  <2>2. code \in {"ok", "no matches", "spawn failed"}
    BY <1>7 DEF ShownCodes
  <2> QED
    BY <1>1, <1>2, <1>7, <2>1, <2>2, ExitsEnds DEF Codes
<1>5. CASE Goes(p, r)
  <2>1. line \in CommandLines
    BY <1>1 DEF PhaseInv
  <2>2. matches \subseteq Paths
    BY <1>1 DEF SharedInv, Fit, GoodStore, Stores, Contents, Docs
  <2>3. /\ make \in Seq(Entry)
        /\ Needed(line) \subseteq ToSet(make)
    <3>1. /\ Entries(line.linksdir) \in Seq(Entry)
          /\ <<line.linksdir, ".noindex">> \in Entry
      BY <2>1, ParamsAre, EntriesAre
    <3>2. make \in Seq(Entry)
      BY <3>1
    <3>3. ToSet(Entries(line.linksdir)) \subseteq ToSet(make)
      BY <3>1, ToSetAppend
    <3> QED
      BY <3>2, <3>3 DEF Needed
  <2> HIDE DEF matches, make
  <2>4. /\ r \in PState /\ r.phase = "mkdir" /\ r.line = line
        /\ r.code = proc[p].code /\ r.err = proc[p].err /\ r.left = r.asked /\ r.make = make
        /\ r.alone = proc[p].alone /\ r.allok = proc[p].allok
    BY <1>1, <2>2, <2>3 DEF PState, Phases
  <2> HIDE DEF r
  <2> QED
    BY <1>5, <2>3, <2>4, GoesToWork
<1> QED
  BY <1>3, <1>4, <1>5, <1>6, <1>7 DEF ExecuteFind

LEMMA ExecuteGood ==
  ASSUME ProgInv, NEW p \in Procs, Execute(p)
  PROVE  StepGood
<1> DEFINE line == proc[p].line
<1>1. /\ proc[p] \in PState /\ PhaseInv(proc[p]) /\ Running(p)
      /\ SharedInv' /\ WorldKept /\ lock # p /\ proc[p].phase = "execute"
      /\ UNCHANGED shared
  BY Known, SharedKept DEF Execute, Running, Writing
<1>2. /\ line \in CommandLines /\ proc[p].left = proc[p].asked
      /\ line.params \in Seq(Places)
      /\ line.cmd = "mkdir" =>
           LET make == FlattenSeq([i \in DOMAIN line.params |-> Entries(line.params[i])])
           IN  make \in Seq(Entry) /\ Needed(line) \subseteq ToSet(make)
  BY <1>1, ParamsAre, AllEntries DEF PhaseInv
<1>3. CASE line.cmd = "help" /\ Exits(p, "ok")
  <2>1. IsDone(p)
    BY <1>3 DEF IsDone
  <2> QED
    BY <1>1, <1>3, <2>1, ExitsEnds DEF Codes
<1>4. CASE Exits(p, "in parameters") /\ ~IsRight(line)
  BY <1>1, <1>4, ExitsEnds DEF Codes, RightRun
<1>5. CASE /\ line.cmd \in {"add", "remove"}
           /\ Goes(p, [proc[p] EXCEPT !.phase = "open", !.todo = line.params])
  <2> DEFINE r == [proc[p] EXCEPT !.phase = "open", !.todo = line.params]
  <2>1. /\ r \in PState /\ r.phase = "open" /\ r.line = line /\ r.todo = line.params
        /\ r.code = proc[p].code /\ r.err = proc[p].err /\ r.left = r.asked
        /\ r.alone = proc[p].alone /\ r.allok = proc[p].allok
    BY <1>1, <1>2 DEF PState, Phases
  <2>2. Goes(p, r)
    BY <1>5
  <2> HIDE DEF r
  <2> QED
    BY <1>1, <1>5, <2>1, <2>2, GoesToWork
<1>6. CASE /\ line.cmd = "view"
           /\ Goes(p, [proc[p] EXCEPT !.phase = "view", !.todo = line.params])
  <2> DEFINE r == [proc[p] EXCEPT !.phase = "view", !.todo = line.params]
  <2>1. /\ r \in PState /\ r.phase = "view" /\ r.line = line /\ r.todo = line.params
        /\ r.code = proc[p].code /\ r.err = proc[p].err /\ r.left = r.asked
        /\ r.alone = proc[p].alone /\ r.allok = proc[p].allok
    BY <1>1, <1>2 DEF PState, Phases
  <2>2. Goes(p, r)
    BY <1>6
  <2> HIDE DEF r
  <2> QED
    BY <1>1, <1>6, <2>1, <2>2, GoesToWork
<1>7. CASE line.cmd = "mkdir"
  <2> DEFINE make == FlattenSeq([i \in DOMAIN line.params |-> Entries(line.params[i])])
             r == [proc[p] EXCEPT !.phase = "mkdir", !.make = make]
  <2>1. make \in Seq(Entry) /\ Needed(line) \subseteq ToSet(make)
    BY <1>2, <1>7
  <2>2. CASE Exits(p, "in parameters") /\ line.params = <<>>
    BY <1>4, <2>2 DEF IsRight
  <2>3. CASE Goes(p, r)
    <3> HIDE DEF make
    <3>1. /\ r \in PState /\ r.phase = "mkdir" /\ r.line = line /\ r.make = make
          /\ r.code = proc[p].code /\ r.err = proc[p].err /\ r.left = r.asked
          /\ r.alone = proc[p].alone /\ r.allok = proc[p].allok
      BY <1>1, <1>2, <2>1 DEF PState, Phases
    <3> HIDE DEF r
    <3> QED
      BY <1>1, <1>7, <2>1, <2>3, <3>1, GoesToWork
  <2> QED
    BY <1>7, <2>2, <2>3 DEF Execute
<1>8. CASE line.cmd = "find" /\ ExecuteFind(p)
  BY <1>1, <1>8, ExecuteFindGood
<1> QED
  BY <1>1, <1>3, <1>4, <1>5, <1>6, <1>7, <1>8 DEF Execute, IsRight

LEMMA ViewGood ==
  ASSUME ProgInv, NEW p \in Procs, View(p)
  PROVE  StepGood
<1> DEFINE todo == proc[p].todo
<1>1. /\ proc[p] \in PState /\ PhaseInv(proc[p]) /\ Running(p)
      /\ SharedInv' /\ WorldKept /\ lock # p /\ proc[p].phase = "view"
      /\ todo \in Seq(Places)
  BY Known, SharedKept DEF View, Running, Writing, PState
<1>2. /\ proc[p].line \in CommandLines /\ proc[p].line.cmd = "view"
      /\ ToSet(todo) \subseteq ToSet(proc[p].line.params)
  BY <1>1 DEF PhaseInv
<1>3. CASE todo = <<>> /\ Exits(p, "ok")
  <2>1. IsDone(p)
    BY <1>2 DEF IsDone
  <2> QED
    BY <1>1, <1>3, <2>1, ExitsEnds DEF Codes
<1>4. CASE todo # <<>> /\ RealPath[Head(todo)] \notin files /\ Exits(p, "error")
  <2>1. Head(todo) \in ToSet(proc[p].line.params)
    BY <1>1, <1>2, <1>4, ToSetTail
  <2>2. ~RightRun(p)
    BY <1>2, <1>4, <2>1 DEF RightRun, IsRight
  <2> QED
    BY <1>1, <1>4, <2>2, ExitsEnds DEF Codes
<1>5. CASE todo # <<>> /\ Goes(p, [proc[p] EXCEPT !.todo = Tail(@)])
  <2> DEFINE r == [proc[p] EXCEPT !.todo = Tail(@)]
  <2>1. Tail(todo) \in Seq(Places) /\ ToSet(Tail(todo)) \subseteq ToSet(todo)
    BY <1>1, <1>5, ToSetTail
  <2>2. /\ r \in PState /\ r.todo = Tail(todo) /\ r.phase = "view"
        /\ r.line = proc[p].line /\ r.code = proc[p].code
        /\ r.err = proc[p].err /\ r.left = proc[p].left
        /\ r.asked = proc[p].asked /\ r.allok = proc[p].allok
        /\ r.alone = proc[p].alone
    BY <1>1, <2>1 DEF PState
  <2>3. Goes(p, r)
    BY <1>5
  <2> HIDE DEF r
  <2>4. PhaseInv(r)
    BY <1>1, <1>2, <2>1, <2>2 DEF PhaseInv, Writing, Linking
  <2>5. \A c, fs, t, ls, hm, lg :
          /\ TreeInv(r, t) /\ DoneInv(r, c, fs) /\ LinkInv(r, ls, fs)
          /\ RightInv(r, hm, lg, fs)
    BY <2>2 DEF TreeInv, DoneInv, LinkInv, RightInv, Writing, Linking
  <2>6. PInv(r, store.work, files', tree', links', home', log')
    BY <2>4, <2>5 DEF PInv
  <2> QED
    BY <1>1, <2>2, <2>3, <2>6, RunsOn DEF Writing
<1> QED
  BY <1>3, <1>4, <1>5 DEF View

-----------------------------------------------------------------------------
(* The commands that write the database.                                   *)

\* A step of a process that has the database open, or opens it.
LEMMA WritesOn ==
  ASSUME ProgInv, NEW p \in Procs, Running(p), NEW r \in PState, Goes(p, r),
         r.phase \in Writing, r.alone = proc[p].alone, Fit(store'),
         lock' = p, lock \in {p, Null},
         UNCHANGED <<files, tree, links, home, log>>,
         PhaseInv(r), DoneInv(r, store'.work, files),
         ~r.hurt /\ Named(r.line, files) => r.allok
  PROVE  StepGood
<1>1. SharedInv'
  <2>1. SharedInv
    BY Known
  <2>2. links' \subseteq LinkSet /\ \A l \in links' : <<l[1], l[2]>> \in tree'
    BY <2>1 DEF SharedInv, LinksFit
  <2> QED
    BY <2>1, <2>2 DEF SharedInv, LinksFit, Fit
<1>2. TreeInv(r, tree') /\ LinkInv(r, links', files')
  BY DEF TreeInv, LinkInv, Writing, Linking
<1>3. RightInv(r, home', log', files')
  BY DEF RightInv, Writing
<1>4. PInv(r, store'.work, files', tree', links', home', log')
  BY <1>2, <1>3 DEF PInv
<1>5. ProgInv' /\ \A q \in Procs \ {p} : ~HasExited(q)
  <2>1. files' \subseteq files /\ tree \subseteq tree' /\ home \subseteq home'
    OBVIOUS
  <2> QED
    BY <1>1, <1>4, <2>1, Moves
<1>6. ~HasExited(p)
  BY DEF ProgInv, Goes, HasExited, Writing
<1> QED
  BY <1>5, <1>6 DEF StepGood, OkStep, RightStep

LEMMA OpenGood ==
  ASSUME ProgInv, NEW p \in Procs, Open(p)
  PROVE  StepGood
<1> DEFINE line == proc[p].line
<1>1. /\ proc[p] \in PState /\ PhaseInv(proc[p]) /\ Running(p)
      /\ SharedInv /\ lock # p /\ proc[p].phase = "open"
  BY Known DEF Open, Running, Writing
<1>2. /\ line \in CommandLines /\ proc[p].left = proc[p].asked
      /\ proc[p].todo = line.params /\ proc[p].allok /\ proc[p].code = Null
      /\ line.cmd \in {"add", "remove"} /\ proc[p].err = Null
  BY <1>1 DEF PhaseInv, Writing, Linking
<1>3. ASSUME NEW code \in {"write lock", "not up to date"}, Exits(p, code),
             store' = store, lock' = lock, ~RightRun(p)
      PROVE  StepGood
  <2>1. SharedInv' /\ WorldKept
    BY <1>1, <1>3 DEF Open, SharedInv, LinksFit, Fit, WorldKept
  <2> QED
    BY <1>1, <1>3, <2>1, ExitsEnds DEF Codes
<1>4. CASE lock # Null /\ Exits(p, "write lock") /\ UNCHANGED <<store, lock>>
  <2>1. PICK q \in Procs : q = lock /\ q # p
    BY <1>1, <1>4 DEF SharedInv
  <2>2. Running(q)
    BY <2>1 DEF ProgInv, Running, Writing
  <2>3. ~proc[p].alone
    BY <1>1, <2>1, <2>2 DEF ProgInv
  <2> QED
    BY <1>3, <1>4, <2>3 DEF RightRun
<1>5. CASE OpenWritable(store, FALSE) = {}
  BY <1>1, <1>5 DEF OpenWritable, OnlyIf, SharedInv, Fit
<1>6. CASE /\ lock = Null /\ store' \in OpenWritable(store, FALSE) /\ lock' = p
           /\ Goes(p, IF proc[p].todo = <<>>
                     THEN [proc[p] EXCEPT !.phase = "close", !.code = "in parameters"]
                     ELSE [proc[p] EXCEPT !.phase = line.cmd])
  <2> DEFINE r == IF proc[p].todo = <<>>
                  THEN [proc[p] EXCEPT !.phase = "close", !.code = "in parameters"]
                  ELSE [proc[p] EXCEPT !.phase = line.cmd]
  <2>1. Fit(store')
    <3>1. store \in Stores /\ FALSE \in BOOLEAN /\ store.disk.version # "old"
          /\ store.disk \in Contents
      BY <1>1 DEF SharedInv, Fit, GoodStore, Stores
    <3>2. GoodStore(store')
      BY <1>6, <3>1, GoodOpenWritable
    <3>3. /\ store'.disk \in {store.disk, EmptyContent}
          /\ store'.work = [store'.disk EXCEPT !.version = "current"]
      BY <1>6, <3>1, OpenFrame
    <3>4. store'.disk \in Contents /\ store'.disk.version # "old"
      <4>1. EmptyContent \in Contents
        BY ContentsEmpty
      <4>2. EmptyContent.version # "old"
        BY DEF EmptyContent
      <4> QED
        BY <3>1, <3>3, <4>1, <4>2
    <3>5. store'.work.version # "old"
      BY <3>3, <3>4 DEF Contents
    <3> QED
      BY <3>2, <3>4, <3>5 DEF Fit
  <2>2. /\ r \in PState /\ r.phase \in Writing /\ r.line = line
        /\ r.alone = proc[p].alone /\ r.left = r.asked /\ r.allok
        /\ r.todo = line.params /\ r.err = Null
        /\ \/ r.phase = "close" /\ r.code = "in parameters" /\ line.params = <<>>
           \/ r.phase = line.cmd /\ r.code = Null /\ line.params # <<>>
    <3>1. /\ "in parameters" \in Codes
          /\ "close" \in Phases /\ line.cmd \in Phases
      BY <1>2 DEF Codes, Phases
    <3>2. CASE proc[p].todo = <<>>
      BY <1>1, <1>2, <3>1, <3>2 DEF PState, Writing
    <3>3. CASE proc[p].todo # <<>>
      BY <1>1, <1>2, <3>1, <3>3 DEF PState, Writing
    <3> QED
      BY <3>2, <3>3
  <2>3. Goes(p, r)
    BY <1>6
  <2> HIDE DEF r
  <2>4. PhaseInv(r)
    BY <1>2, <2>2 DEF PhaseInv, Writing, Linking
  <2>5. DoneInv(r, store'.work, files)
    BY <2>2 DEF DoneInv
  <2>6. UNCHANGED <<files, tree, links, home, log>>
    BY DEF Open
  <2> QED
    BY <1>1, <1>6, <2>1, <2>2, <2>3, <2>4, <2>5, <2>6, WritesOn
<1> QED
  BY <1>4, <1>5, <1>6 DEF Open

\* r is what Done and Noticing make of a process that adds or removes messages.
Finished(p, ok, s, r) ==
  /\ r \in PState /\ r.phase \in Writing /\ PhaseInv(r)
  /\ r.line = proc[p].line /\ r.alone = proc[p].alone
  /\ r.allok <=> ok /\ proc[p].allok
  /\ r.hurt <=> proc[p].hurt \/ s.badWrites # store.badWrites
  /\ r.lost <=> proc[p].lost \/ s.badCommits # store.badCommits
  /\ ToSet(proc[p].todo) = {Head(proc[p].todo)} \cup ToSet(r.todo)

WithDone(q, todo, allok, phase, hurt, lost) ==
  [q EXCEPT !.todo = todo, !.allok = allok, !.phase = phase, !.hurt = hurt,
            !.lost = lost]

LEMMA FinishedFields ==
  ASSUME NEW q \in PState, NEW tail \in Seq(Places), NEW phase \in Phases,
         NEW allok \in BOOLEAN, NEW hurt \in BOOLEAN, NEW lost \in BOOLEAN,
         NEW r, r = WithDone(q, tail, allok, phase, hurt, lost)
  PROVE  /\ r \in PState /\ r.phase = phase /\ r.line = q.line
         /\ r.alone = q.alone /\ r.allok = allok /\ r.todo = tail
         /\ r.hurt = hurt /\ r.lost = lost /\ r.left = q.left
         /\ r.asked = q.asked /\ r.code = q.code /\ r.err = q.err
BY DEF PState, WithDone

LEMMA DoneIs ==
  ASSUME ProgInv, NEW p \in Procs, proc[p].phase \in {"add", "remove"},
         NEW ok \in BOOLEAN, NEW s, NEW r, r = Noticing(s, Done(p, ok))
  PROVE  Finished(p, ok, s, r)
<1> DEFINE todo  == proc[p].todo
           tail  == Tail(todo)
           phase == IF Len(todo) = 1 THEN "close" ELSE proc[p].phase
           allok == ok /\ proc[p].allok
           hurt  == proc[p].hurt \/ s.badWrites # store.badWrites
           lost  == proc[p].lost \/ s.badCommits # store.badCommits
<1>1. proc[p] \in PState /\ PhaseInv(proc[p])
  BY Known
<1>2. /\ todo \in Seq(Places) /\ todo # <<>> /\ proc[p].allok \in BOOLEAN
      /\ proc[p].phase = proc[p].line.cmd /\ proc[p].line \in CommandLines
      /\ proc[p].left = proc[p].asked /\ proc[p].code = Null
      /\ ToSet(todo) \subseteq ToSet(proc[p].line.params) /\ proc[p].err = Null
  BY <1>1 DEF PhaseInv, PState, Writing, Linking
<1>3. /\ tail \in Seq(Places)
      /\ Len(todo) = 1 <=> tail = <<>>
      /\ ToSet(todo) = {Head(todo)} \cup ToSet(tail)
  BY <1>2, ToSetTail
<1>4. r = WithDone(proc[p], tail, allok, phase, hurt, lost)
  BY <1>1 DEF Noticing, Done, PState, WithDone
<1>5. /\ phase \in {"add", "remove", "close"} /\ phase \in Phases
      /\ allok \in BOOLEAN /\ hurt \in BOOLEAN /\ lost \in BOOLEAN
  BY DEF Phases
<1>6. (phase = "close" <=> tail = <<>>) /\ (phase # "close" => phase = proc[p].line.cmd)
  <2>1. proc[p].phase # "close"
    OBVIOUS
  <2>2. CASE Len(todo) = 1
    <3>1. phase = "close" /\ tail = <<>>
      BY <1>3, <2>2, Zenon
    <3> QED
      BY <3>1
  <2>3. CASE Len(todo) # 1
    <3>1. phase = proc[p].phase /\ tail # <<>>
      BY <1>3, <2>3, Zenon
    <3> QED
      BY <1>2, <2>1, <3>1
  <2> QED
    BY <2>2, <2>3, Zenon
<1>7. (allok <=> ok /\ proc[p].allok)
      /\ (hurt <=> proc[p].hurt \/ s.badWrites # store.badWrites)
      /\ (lost <=> proc[p].lost \/ s.badCommits # store.badCommits)
  OBVIOUS
<1> HIDE DEF phase, allok, hurt, lost, tail, todo
<1>10. tail \in Seq(Places) /\ phase \in Phases
  BY <1>3, <1>5, Zenon
<1>11. proc[p] \in PState
  BY <1>1
<1>12. allok \in BOOLEAN /\ hurt \in BOOLEAN /\ lost \in BOOLEAN
  BY <1>5
<1>8. /\ r \in PState /\ r.phase = phase /\ r.line = proc[p].line
      /\ r.alone = proc[p].alone /\ r.allok = allok /\ r.todo = tail
      /\ r.hurt = hurt /\ r.lost = lost /\ r.left = proc[p].left
      /\ r.asked = proc[p].asked /\ r.code = proc[p].code /\ r.err = proc[p].err
  <2> SUFFICES ASSUME NEW t, t = tail, NEW ph, ph = phase, NEW a, a = allok,
                      NEW h, h = hurt, NEW l, l = lost, NEW q, q = proc[p]
               PROVE  /\ r \in PState /\ r.phase = ph /\ r.line = q.line
                      /\ r.alone = q.alone /\ r.allok = a /\ r.todo = t
                      /\ r.hurt = h /\ r.lost = l /\ r.left = q.left
                      /\ r.asked = q.asked /\ r.code = q.code /\ r.err = q.err
    OBVIOUS
  <2>1. r = WithDone(q, t, a, ph, h, l)
    BY <1>4
  <2>2. /\ q \in PState /\ t \in Seq(Places) /\ ph \in Phases
        /\ a \in BOOLEAN /\ h \in BOOLEAN /\ l \in BOOLEAN
    BY <1>10, <1>11, <1>12
  <2> QED
    BY <2>1, <2>2, FinishedFields
<1>9. PhaseInv(r)
  <2>1. ToSet(tail) \subseteq ToSet(proc[p].line.params)
    BY <1>2, <1>3
  <2> QED
    BY <1>2, <1>5, <1>6, <1>8, <2>1 DEF PhaseInv, Writing, Linking
<1> QED
  BY <1>3, <1>5, <1>7, <1>8, <1>9 DEF Finished, Writing, todo

\* The next message is not what it should be.
LEMMA WrongName ==
  ASSUME ProgInv, NEW p \in Procs, proc[p].phase \in {"add", "remove"},
         Head(proc[p].todo) \in Relative
           \/ (proc[p].phase = "add" /\ RealPath[Head(proc[p].todo)] \notin files),
         Goes(p, Done(p, FALSE)), store' = store, lock' = lock,
         UNCHANGED <<files, tree, links, home, log>>
  PROVE  StepGood
<1> DEFINE ok == FALSE
           r == Noticing(store, Done(p, ok))
<1>1. /\ proc[p] \in PState /\ PhaseInv(proc[p]) /\ lock = p /\ Running(p)
      /\ Fit(store)
  BY Known DEF Writing, Running, SharedInv
<1>2. Done(p, FALSE) = r
  BY <1>1 DEF Noticing, Done, PState
<1>3. Goes(p, r) /\ ok \in BOOLEAN /\ ~ok
  BY <1>2
<1>4. r = Noticing(store, Done(p, ok))
  OBVIOUS
<1> HIDE DEF r, ok
<1>5. Finished(p, ok, store, r)
  BY <1>3, <1>4, DoneIs
<1>6. DoneInv(r, store'.work, files)
  BY <1>3, <1>5 DEF DoneInv, Finished
<1>7. ~Named(r.line, files)
  <2>1. /\ Head(proc[p].todo) \in ToSet(proc[p].line.params)
        /\ proc[p].phase = proc[p].line.cmd
    BY <1>1, <1>5 DEF PhaseInv, Finished
  <2> QED
    BY <1>5, <2>1 DEF Named, Finished
<1>8. Fit(store')
  BY <1>1 DEF Fit
<1> QED
  BY <1>1, <1>3, <1>5, <1>6, <1>7, <1>8, WritesOn DEF Finished

LEMMA AddedIn ==
  ASSUME NEW c \in Contents, NEW path \in Paths, NEW id, NEW b
  PROVE  LET e == ReplaceByTerm(c, id, path, b)
         IN  In(c) \cup {path} \subseteq In(e) /\ e.version = c.version
<1> DEFINE e == ReplaceByTerm(c, id, path, b)
<1>1. e.docs = (c.docs \ DocsAt(c, path)) \cup {Doc(id, path, b)}
      /\ e.version = c.version
  BY DEF ReplaceByTerm, Contents
<1>2. Doc(id, path, b).path = path
  BY DEF Doc
<1> HIDE DEF e
<1>3. path \in In(e)
  BY <1>1, <1>2 DEF In
<1>4. ASSUME NEW d \in c.docs PROVE d.path \in In(e)
  BY <1>1, <1>3 DEF In, DocsAt
<1> QED
  BY <1>1, <1>3, <1>4 DEF In, e

LEMMA AddToGood ==
  ASSUME ProgInv, NEW p \in Procs, AddTo(p)
  PROVE  StepGood
<1> DEFINE name == Head(proc[p].todo)
           b == CHOOSE x \in Bodies : TRUE
<1>1. /\ proc[p] \in PState /\ PhaseInv(proc[p]) /\ lock = p /\ Running(p)
      /\ SharedInv /\ proc[p].phase = "add"
      /\ DoneInv(proc[p], store.work, files) /\ RightInv(proc[p], home, log, files)
  BY Known DEF AddTo, Writing, Running
<1>2. /\ GoodStore(store) /\ store.work \in Contents /\ store.disk \in Contents
      /\ store.work.version # "old" /\ store.disk.version # "old"
      /\ store.badCommits \in Nat /\ files \subseteq Paths
      /\ proc[p].hurt \in BOOLEAN /\ proc[p].lost \in BOOLEAN
      /\ proc[p].line.cmd = "add"
  BY <1>1 DEF SharedInv, Fit, GoodStore, Stores, PState, PhaseInv
<1>3. b \in Bodies
  BY IndexingsAssumption
<1> HIDE DEF b
<1>4. CASE /\ name \in Relative \/ RealPath[name] \notin files
           /\ Goes(p, Done(p, FALSE)) /\ UNCHANGED store
  BY <1>1, <1>4, WrongName DEF AddTo
<1>5. ASSUME RealPath[name] \in files, NEW o \in AddMsg(store, RealPath[name], b),
             store' = o.s, Goes(p, Noticing(o.s, Done(p, o.id # InvalidDocId)))
      PROVE  StepGood
  <2> DEFINE path == RealPath[name]
             ok == o.id # InvalidDocId
             r == Noticing(o.s, Done(p, ok))
  <2>1. path \in Paths
    BY <1>2, <1>5
  <2>2. /\ GoodStore(o.s)
        /\ \/ o.id = InvalidDocId
           \/ o.s.badCommits < store.badCommits
           \/ \E id \in IdsForTerm(store.work, path) :
                 o.s.work = ReplaceByTerm(store.work, id, path, b)
        /\ o.id = InvalidDocId => o.s.badWrites < store.badWrites
        /\ \A c \in {o.s.work, o.s.disk} :
             \/ c \in {store.work, store.disk}
             \/ \E e \in {store.work, store.disk} : \E id \in IdsForTerm(e, path) :
                   c = ReplaceByTerm(e, id, path, b)
    BY <1>2, <1>3, <1>5, <2>1, GoodAddMsg, AddOutcome
  <2>3. Fit(store')
    <3>1. \A e \in {store.work, store.disk} : \A id :
            ReplaceByTerm(e, id, path, b).version = e.version
      BY <1>2, <2>1, AddedIn
    <3>2. \A c \in {o.s.work, o.s.disk} : c.version # "old"
      BY <1>2, <2>2, <3>1
    <3> QED
      BY <1>5, <2>2, <3>2 DEF Fit
  <2>4. ok \in BOOLEAN
    OBVIOUS
  <2>5. Goes(p, r) /\ r = Noticing(o.s, Done(p, ok))
    BY <1>5
  <2>6. ok /\ o.s.badCommits = store.badCommits
          => In(store.work) \cup {path} \subseteq In(store'.work)
    <3>1. \A id : In(store.work) \cup {path}
                    \subseteq In(ReplaceByTerm(store.work, id, path, b))
      BY <1>2, <2>1, AddedIn
    <3> QED
      BY <1>2, <1>5, <2>2, <3>1
  <2>7. o.s.badWrites = store.badWrites => ok
    <3>1. store.badWrites \in Nat
      BY <1>2 DEF GoodStore, Stores
    <3> QED
      BY <2>2, <3>1
  <2> HIDE DEF ok, path, r
  <2>8. Finished(p, ok, o.s, r)
    BY <1>1, <2>4, <2>5, DoneIs
  <2>9. /\ r \in PState /\ r.phase \in Writing /\ PhaseInv(r)
        /\ r.line = proc[p].line /\ r.alone = proc[p].alone
        /\ r.allok <=> ok /\ proc[p].allok
        /\ ~r.hurt => ~proc[p].hurt /\ o.s.badWrites = store.badWrites
        /\ ~r.lost => ~proc[p].lost /\ o.s.badCommits = store.badCommits
        /\ ToSet(proc[p].todo) = {name} \cup ToSet(r.todo)
    BY <2>8 DEF Finished
  <2>10. DoneInv(r, store'.work, files)
    <3> SUFFICES ASSUME r.allok, ~r.lost, NEW n \in ToSet(r.line.params),
                        n \notin ToSet(r.todo)
                 PROVE  RealPath[n] \in In(store'.work)
      BY <1>2, <2>9 DEF DoneInv, IsIn
    <3>1. In(store.work) \cup {path} \subseteq In(store'.work)
      BY <2>6, <2>9
    <3>2. CASE n = name
      BY <3>1, <3>2 DEF path
    <3>3. CASE n # name
      <4>1. n \notin ToSet(proc[p].todo) /\ proc[p].allok /\ ~proc[p].lost
        BY <2>9, <3>3
      <4>2. RealPath[n] \in In(store.work)
        BY <1>1, <1>2, <2>9, <4>1 DEF DoneInv, IsIn, Writing
      <4> QED
        BY <3>1, <4>2
    <3> QED
      BY <3>2, <3>3
  <2>11. ~r.hurt /\ Named(r.line, files) => r.allok
    BY <1>1, <2>7, <2>9 DEF RightInv, Writing
  <2>12. lock' = p /\ UNCHANGED <<files, tree, links, home, log>>
    BY <1>1 DEF AddTo
  <2> QED
    BY <1>1, <2>3, <2>5, <2>9, <2>10, <2>11, <2>12, WritesOn
<1> QED
  BY <1>4, <1>5 DEF AddTo, b

LEMMA RemoveFromGood ==
  ASSUME ProgInv, NEW p \in Procs, RemoveFrom(p)
  PROVE  StepGood
<1> DEFINE name == Head(proc[p].todo)
           path == TermOf(name)
<1>1. /\ proc[p] \in PState /\ PhaseInv(proc[p]) /\ lock = p /\ Running(p)
      /\ SharedInv /\ proc[p].phase = "remove"
      /\ DoneInv(proc[p], store.work, files) /\ RightInv(proc[p], home, log, files)
  BY Known DEF RemoveFrom, Writing, Running
<1>2. /\ GoodStore(store) /\ store.work \in Contents /\ store.disk \in Contents
      /\ store.work.version # "old" /\ store.disk.version # "old"
      /\ store.badWrites \in Nat /\ proc[p].line.cmd = "remove"
  BY <1>1 DEF SharedInv, Fit, GoodStore, Stores, PhaseInv
<1>3. CASE name \in Relative /\ Goes(p, Done(p, FALSE)) /\ UNCHANGED store
  BY <1>1, <1>3, WrongName DEF RemoveFrom
<1>4. ASSUME NEW o \in RemovePath(store, path), store' = o.s,
             Goes(p, Noticing(o.s, Done(p, o.ok)))
      PROVE  StepGood
  <2> DEFINE ok == o.ok
             r == Noticing(o.s, Done(p, ok))
  <2>1. /\ GoodStore(o.s) /\ o.s.disk = store.disk
        /\ o.s.badCommits = store.badCommits
        /\ \/ o.ok /\ o.s.work = DeleteByTerm(store.work, path)
           \/ ~o.ok /\ o.s.work = store.disk /\ o.s.badWrites < store.badWrites
    BY <1>2, <1>4, GoodRemovePath, RemoveFrame
  <2>2. ok \in BOOLEAN
    <3>1. \/ o = [s |-> IncProcessed([store EXCEPT !.work = DeleteByTerm(@, path)]),
                  ok |-> TRUE]
          \/ o = [s |-> WriteThrew(store), ok |-> FALSE]
      BY <1>4 DEF RemovePath, OnlyIf
    <3>2. \A t, x : [s |-> t, ok |-> x].ok = x
      OBVIOUS
    <3> QED
      BY <3>1, <3>2
  <2>3. Fit(store')
    <3>1. DeleteByTerm(store.work, path).version = store.work.version
      BY <1>2 DEF DeleteByTerm, Contents
    <3> QED
      BY <1>2, <1>4, <2>1, <3>1 DEF Fit
  <2>4. ok => In(store'.work) = In(store.work) \ {path}
    <3>1. DeleteByTerm(store.work, path).docs = store.work.docs \ DocsAt(store.work, path)
      BY <1>2 DEF DeleteByTerm, Contents
    <3> QED
      BY <1>4, <2>1, <3>1 DEF In, DocsAt
  <2>5. Goes(p, r) /\ r = Noticing(o.s, Done(p, ok))
    BY <1>4
  <2>6. o.s.badWrites = store.badWrites => ok
    BY <1>2, <2>1
  <2> HIDE DEF ok, path, r
  <2>7. Finished(p, ok, o.s, r)
    BY <1>1, <2>2, <2>5, DoneIs
  <2>8. /\ r \in PState /\ r.phase \in Writing /\ PhaseInv(r)
        /\ r.line = proc[p].line /\ r.alone = proc[p].alone
        /\ r.allok <=> ok /\ proc[p].allok
        /\ ~r.hurt => ~proc[p].hurt /\ o.s.badWrites = store.badWrites
        /\ ~r.lost => ~proc[p].lost
        /\ ToSet(proc[p].todo) = {name} \cup ToSet(r.todo)
    BY <2>7 DEF Finished
  <2>9. DoneInv(r, store'.work, files)
    <3> SUFFICES ASSUME r.allok, ~r.lost, NEW n \in ToSet(r.line.params),
                        n \notin ToSet(r.todo), RealPath[n] \in files \cup {n}
                 PROVE  RealPath[n] \notin In(store'.work)
      BY <1>2, <2>8 DEF DoneInv, IsIn
    <3>1. In(store'.work) = In(store.work) \ {path}
      BY <2>4, <2>8
    <3>2. CASE n = name
      BY <3>1, <3>2 DEF path, TermOf
    <3>3. CASE n # name
      <4>1. n \notin ToSet(proc[p].todo) /\ proc[p].allok /\ ~proc[p].lost
        BY <2>8, <3>3
      <4>2. RealPath[n] \notin In(store.work)
        BY <1>1, <1>2, <2>8, <4>1 DEF DoneInv, IsIn, Writing
      <4> QED
        BY <3>1, <4>2
    <3> QED
      BY <3>2, <3>3
  <2>10. ~r.hurt /\ Named(r.line, files) => r.allok
    BY <1>1, <2>6, <2>8 DEF RightInv, Writing
  <2>11. lock' = p /\ UNCHANGED <<files, tree, links, home, log>>
    BY <1>1 DEF RemoveFrom
  <2> QED
    BY <1>1, <2>3, <2>5, <2>8, <2>9, <2>10, <2>11, WritesOn
<1> QED
  BY <1>3, <1>4 DEF RemoveFrom

WithExit(q, code, hurt, lost) ==
  [q EXCEPT !.phase = "exit", !.code = code, !.hurt = hurt, !.lost = lost]

LEMMA WithExitFields ==
  ASSUME NEW q \in PState, NEW code \in Codes, NEW hurt \in BOOLEAN,
         NEW lost \in BOOLEAN, NEW r, r = WithExit(q, code, hurt, lost)
  PROVE  /\ r \in PState /\ r.phase = "exit" /\ r.alone = q.alone
         /\ r.code = code /\ r.left = q.left /\ r.asked = q.asked
         /\ r.hurt = hurt /\ r.lost = lost
BY DEF PState, Phases, WithExit

LEMMA CloseGood ==
  ASSUME ProgInv, NEW p \in Procs, Close(p)
  PROVE  StepGood
<1> DEFINE line == proc[p].line
           code == ExitCode(proc[p])
<1>1. /\ proc[p] \in PState /\ PhaseInv(proc[p]) /\ lock = p /\ Running(p)
      /\ SharedInv /\ proc[p].phase = "close"
      /\ DoneInv(proc[p], store.work, files) /\ RightInv(proc[p], home, log, files)
  BY Known DEF Close, Writing, Running
<1>2. /\ GoodStore(store) /\ line.cmd \in {"add", "remove"}
      /\ proc[p].todo = <<>> /\ line \in CommandLines
      /\ proc[p].code # Null => proc[p].code = "in parameters" /\ line.params = <<>>
      /\ store.work.version # "old" /\ store.disk.version # "old"
      /\ proc[p].left \subseteq proc[p].asked
  BY <1>1 DEF SharedInv, Fit, PhaseInv, Writing
<1>3. PICK s \in StoreFlush(store) :
         /\ store' = Unopened(s)
         /\ Goes(p, Noticing(s, [proc[p] EXCEPT !.phase = "exit", !.code = code]))
  BY DEF Close
<1>4. code \in Codes /\ code # "killed"
  BY <1>1, <1>2 DEF ExitCode, PState, Codes
<1>5. code = "ok" => proc[p].allok
  BY <1>2 DEF ExitCode
<1>6. line.params # <<>> /\ proc[p].allok => code = "ok"
  BY <1>2 DEF ExitCode
<1> DEFINE r == Noticing(s, [proc[p] EXCEPT !.phase = "exit", !.code = code])
<1> HIDE DEF code
<1>7. /\ r \in PState /\ r.phase = "exit" /\ r.alone = proc[p].alone /\ r.code = code
      /\ r.left \subseteq r.asked
      /\ ~r.hurt => ~proc[p].hurt
      /\ ~r.lost => ~proc[p].lost /\ s.badCommits = store.badCommits
  <2> DEFINE hurt == proc[p].hurt \/ s.badWrites # store.badWrites
             lost == proc[p].lost \/ s.badCommits # store.badCommits
  <2>1. r = WithExit(proc[p], code, hurt, lost)
    BY <1>1 DEF PState, Noticing, WithExit
  <2>2. hurt \in BOOLEAN /\ lost \in BOOLEAN
    OBVIOUS
  <2>3. /\ ~hurt => ~proc[p].hurt
        /\ ~lost => ~proc[p].lost /\ s.badCommits = store.badCommits
    OBVIOUS
  <2> HIDE DEF r, hurt, lost
  <2>4. /\ r \in PState /\ r.phase = "exit" /\ r.alone = proc[p].alone
        /\ r.code = code /\ r.left = proc[p].left /\ r.asked = proc[p].asked
        /\ r.hurt = hurt /\ r.lost = lost
    <3> SUFFICES ASSUME NEW q, q = proc[p], NEW h, h = hurt, NEW l, l = lost,
                        NEW c, c = code
                 PROVE  /\ r \in PState /\ r.phase = "exit" /\ r.alone = q.alone
                        /\ r.code = c /\ r.left = q.left /\ r.asked = q.asked
                        /\ r.hurt = h /\ r.lost = l
      OBVIOUS
    <3> QED
      BY <1>1, <1>4, <2>1, <2>2, WithExitFields
  <2> QED
    BY <1>2, <2>3, <2>4
<1>8. Goes(p, r)
  BY <1>3
<1> HIDE DEF r
<1>9. GoodStore(s) /\ s \in Stores
  BY <1>2, GoodFlush DEF GoodStore
<1>10. Fit(store')
  <2>1. GoodStore(store') /\ store'.work = s.disk /\ store'.disk = s.disk
    BY <1>3, <1>9, GoodUnopened, UnopenedFrame
  <2>2. s.disk \in {store.disk, store.work}
    BY <1>2, KeptFlush DEF Kept
  <2> QED
    BY <1>2, <2>1, <2>2 DEF Fit
<1>11. SharedInv'
  <2>1. UNCHANGED <<files, tree, links, home, log>> /\ lock' = Null
    BY DEF Close
  <2>2. links' \subseteq LinkSet /\ \A l \in links' : <<l[1], l[2]>> \in tree'
    BY <1>1, <2>1 DEF SharedInv, LinksFit
  <2> QED
    BY <1>1, <1>10, <2>1, <2>2 DEF SharedInv, LinksFit, Fit
<1>12. PInv(r, store'.work, files', tree', links', home', log')
  BY <1>7, ExitFits
<1>13. ProgInv' /\ \A q \in Procs \ {p} : ~HasExited(q)
  <2>1. /\ files' \subseteq files /\ tree \subseteq tree' /\ home \subseteq home'
        /\ lock' = Null /\ r.phase \notin Writing
    BY <1>7 DEF Close, Writing
  <2> QED
    BY <1>1, <1>7, <1>8, <1>11, <1>12, <2>1, Moves
<1>14. proc'[p] = r
  BY <1>8 DEF ProgInv, Goes
<1>15. OkStep(p)
  <2> SUFFICES ASSUME code = "ok", ~r.lost PROVE IsDone(p)
    BY <1>7, <1>14 DEF OkStep
  <2>1. store'.disk = store.work
    BY <1>2, <1>3, <1>7, <1>9, FlushDurable, UnopenedFrame
  <2>2. Stored = In(store.work)
    BY <2>1 DEF Stored, In
  <2>3. \A n \in ToSet(line.params) : IsIn(line, n, store.work, files)
    <3>1. ToSet(proc[p].todo) = {}
      <4>1. ToSet(<<>>) = {}
        BY DEF ToSet
      <4> QED
        BY <1>2, <4>1
    <3> QED
      BY <1>1, <1>5, <1>7, <3>1 DEF DoneInv, Writing
  <2> QED
    BY <1>2, <2>2, <2>3 DEF IsDone, IsIn
<1>16. RightStep(p)
  <2> SUFFICES ASSUME RightRun(p), ~r.hurt PROVE code = "ok"
    BY <1>7, <1>14 DEF RightStep
  <2>1. line.params # <<>> /\ Named(line, files)
    BY <1>2 DEF RightRun, IsRight, Named
  <2> QED
    BY <1>1, <1>6, <1>7, <2>1 DEF RightInv, Writing
<1> QED
  BY <1>13, <1>15, <1>16 DEF StepGood, OkStep, RightStep

-----------------------------------------------------------------------------
(* The commands that make maildirs and links.                              *)

\* A step of a process that goes on with them.
LEMMA LinksOn ==
  ASSUME ProgInv, NEW p \in Procs, proc[p].phase \in {"mkdir"} \cup Linking,
         NEW r \in PState, Goes(p, r), r.phase \in {"mkdir"} \cup Linking,
         r.line = proc[p].line, r.code = proc[p].code, r.alone = proc[p].alone,
         r.phase = "mkdir" => r.err = proc[p].err,
         r.allok = proc[p].allok, r.asked = proc[p].asked,
         r.left \subseteq proc[p].left, r.phase # "link" => r.left = proc[p].left,
         r.phase = "mkdir" => proc[p].phase = "mkdir",
         r.phase \in Linking => r.line.cmd = "find",
         r.phase \in {"clear", "unlink"} => "clearlinks" \in r.line.opts,
         r.phase \in {"clear", "unlink"} => proc[p].phase # "link",
         SharedInv', WorldKept, files' = files,
         TreeInv(r, tree'), LinkInv(r, links', files)
  PROVE  StepGood
<1>1. PhaseInv(proc[p]) /\ lock # p /\ Running(p)
  BY Known DEF Running, Writing, Linking
<1>2. r.phase \notin {"exit", "open", "view"} \cup Writing
  BY DEF Writing, Linking
<1>3. PhaseInv(r)
  <2>1. /\ proc[p].line \in CommandLines /\ proc[p].code = Null /\ proc[p].allok
        /\ proc[p].left \subseteq proc[p].asked
        /\ proc[p].phase # "link" => proc[p].left = proc[p].asked
        /\ proc[p].phase = "mkdir" => /\ proc[p].line.cmd \in {"mkdir", "find"}
                                      /\ proc[p].err = Null
    BY <1>1 DEF PhaseInv, Writing, Linking
  <2>2. r.left \subseteq r.asked /\ (r.phase # "link" => r.left = r.asked)
    BY <2>1 DEF Linking
  <2> QED
    BY <1>2, <2>1, <2>2 DEF PhaseInv, Writing, Linking
<1>4. DoneInv(r, store.work, files)
  BY <1>2 DEF DoneInv
<1>5. RightInv(r, home', log', files)
  BY <1>2 DEF RightInv, Linking
<1>6. PInv(r, store.work, files', tree', links', home', log')
  BY <1>3, <1>4, <1>5 DEF PInv
<1> QED
  BY <1>1, <1>2, <1>6, RunsOn

LEMMA MakeEntryGood ==
  ASSUME ProgInv, NEW p \in Procs, MakeEntry(p)
  PROVE  StepGood
<1> DEFINE make == proc[p].make
           tail == Tail(make)
           entry == Head(make)
           r == [proc[p] EXCEPT !.make = tail]
<1>1. /\ proc[p] \in PState /\ TreeInv(proc[p], tree) /\ PhaseInv(proc[p])
      /\ proc[p].phase = "mkdir" /\ SharedInv /\ lock # p /\ Running(p)
      /\ make \in Seq(Entry) /\ make # <<>>
  BY Known DEF MakeEntry, PState, Running, Writing
<1>2. /\ tail \in Seq(Entry) /\ ToSet(make) = {entry} \cup ToSet(tail)
  BY <1>1, ToSetTail
<1>3. UNCHANGED <<files, store, lock, links, home, log>>
  BY DEF MakeEntry
<1>4. ASSUME tree \subseteq tree' PROVE SharedInv' /\ WorldKept
  BY <1>1, <1>3, <1>4 DEF SharedInv, LinksFit, Fit, WorldKept
<1>5. CASE tree' = tree \cup {entry} /\ Goes(p, r)
  <2> HIDE DEF tail
  <2>1. /\ r \in PState /\ r.phase = "mkdir" /\ r.line = proc[p].line
        /\ r.code = proc[p].code /\ r.err = proc[p].err /\ r.alone = proc[p].alone
        /\ r.allok = proc[p].allok /\ r.asked = proc[p].asked
        /\ r.left = proc[p].left /\ r.make = tail
    BY <1>1, <1>2 DEF PState
  <2>2. Goes(p, r)
    BY <1>5
  <2> HIDE DEF r
  <2>3. TreeInv(r, tree')
    BY <1>1, <1>2, <1>5, <2>1 DEF TreeInv, Linking
  <2>4. LinkInv(r, links', files)
    BY <2>1 DEF LinkInv, Linking
  <2>5. SharedInv' /\ WorldKept
    BY <1>4, <1>5
  <2> QED
    BY <1>1, <1>3, <2>1, <2>2, <2>3, <2>4, <2>5, LinksOn DEF Linking
<1>6. ASSUME NEW code \in {"cannot create", "cannot mkdir"}, Refused(p, code),
             tree' = tree
      PROVE  StepGood
  BY <1>1, <1>4, <1>6, RefusedEnds DEF Codes
<1> QED
  BY <1>5, <1>6 DEF MakeEntry

LEMMA MadeGood ==
  ASSUME ProgInv, NEW p \in Procs, Made(p)
  PROVE  StepGood
<1> DEFINE line == proc[p].line
<1>1. /\ proc[p] \in PState /\ TreeInv(proc[p], tree) /\ PhaseInv(proc[p])
      /\ proc[p].phase = "mkdir" /\ proc[p].make = <<>> /\ lock # p /\ Running(p)
      /\ SharedInv /\ SharedInv' /\ WorldKept /\ UNCHANGED shared
  BY Known, SharedKept DEF Made, Running, Writing
<1>2. Needed(line) \subseteq tree /\ proc[p].left = proc[p].asked
      /\ line.cmd \in {"mkdir", "find"} /\ proc[p].err = Null
  <2>1. ToSet(<<>>) = {}
    BY DEF ToSet
  <2> QED
    BY <1>1, <2>1 DEF TreeInv, PhaseInv, Linking
<1>3. CASE line.cmd = "mkdir" /\ Exits(p, "ok")
  <2>1. IsDone(p)
    BY <1>1, <1>2, <1>3 DEF IsDone, Needed, shared
  <2> QED
    BY <1>1, <1>3, <2>1, ExitsEnds DEF Codes
<1>4. CASE /\ line.cmd = "find" /\ "clearlinks" \in line.opts
           /\ Goes(p, [proc[p] EXCEPT !.phase = "clear", !.rv = TRUE, !.errno = FALSE,
                                      !.clear = {"new", "cur", "tmp"}])
  <2> DEFINE r == [proc[p] EXCEPT !.phase = "clear", !.rv = TRUE, !.errno = FALSE,
                                  !.clear = {"new", "cur", "tmp"}]
  <2>1. /\ r \in PState /\ r.phase = "clear" /\ r.line = line
        /\ r.code = proc[p].code /\ r.err = proc[p].err
        /\ r.alone = proc[p].alone /\ r.hurt = proc[p].hurt
        /\ r.allok = proc[p].allok /\ r.asked = proc[p].asked
        /\ r.left = proc[p].left /\ r.clear = {"new", "cur", "tmp"} /\ ~r.errno
    BY <1>1 DEF PState, Phases
  <2>2. Goes(p, r)
    BY <1>4
  <2> HIDE DEF r
  <2>3. TreeInv(r, tree')
    BY <1>1, <1>2, <2>1 DEF TreeInv, shared
  <2>4. LinkInv(r, links', files)
    <3>1. \A l \in links' : l[2] \in r.clear
      BY <1>1, <2>1 DEF SharedInv, LinksFit, LinkSet, shared
    <3> QED
      BY <1>2, <2>1, <3>1 DEF LinkInv, Linking
  <2> QED
    BY <1>1, <1>4, <2>1, <2>2, <2>3, <2>4, LinksOn DEF Linking, shared
<1>5. CASE /\ line.cmd = "find" /\ "clearlinks" \notin line.opts
           /\ Goes(p, [proc[p] EXCEPT !.phase = "link"])
  <2> DEFINE r == [proc[p] EXCEPT !.phase = "link"]
  <2>1. /\ r \in PState /\ r.phase = "link" /\ r.line = line
        /\ r.code = proc[p].code /\ r.err = proc[p].err
        /\ r.alone = proc[p].alone /\ r.hurt = proc[p].hurt
        /\ r.allok = proc[p].allok /\ r.asked = proc[p].asked
        /\ r.left = proc[p].left
    BY <1>1 DEF PState, Phases
  <2>2. Goes(p, r)
    BY <1>5
  <2> HIDE DEF r
  <2>3. TreeInv(r, tree')
    BY <1>1, <1>2, <2>1 DEF TreeInv, shared
  <2>4. LinkInv(r, links', files)
    BY <1>2, <1>5, <2>1 DEF LinkInv
  <2> QED
    BY <1>1, <1>5, <2>1, <2>2, <2>3, <2>4, LinksOn DEF Linking, shared
<1> QED
  BY <1>2, <1>3, <1>4, <1>5 DEF Made

LEMMA ClearGood ==
  ASSUME ProgInv, NEW p \in Procs, Clear(p)
  PROVE  StepGood
<1> DEFINE line == proc[p].line
           dir == line.linksdir
<1>1. /\ proc[p] \in PState /\ TreeInv(proc[p], tree) /\ PhaseInv(proc[p])
      /\ LinkInv(proc[p], links, files) /\ proc[p].phase = "clear" /\ lock # p
      /\ SharedInv /\ SharedInv' /\ WorldKept /\ UNCHANGED shared /\ Running(p)
  BY Known, SharedKept DEF Clear, Running, Writing
<1>2. /\ proc[p].left = proc[p].asked /\ line.cmd = "find"
      /\ "clearlinks" \in line.opts
      /\ proc[p].clear \subseteq {"new", "cur", "tmp"}
      /\ links \subseteq LinkSet
  BY <1>1 DEF PhaseInv, Linking, PState, SharedInv, LinksFit
<1>3. ASSUME NEW sub \in proc[p].clear,
             Goes(p, [proc[p] EXCEPT
               !.phase = "unlink", !.clear = @ \ {sub}, !.rv = TRUE, !.errno = FALSE,
               !.listed = {l \in links : l[1] = proc[p].line.linksdir /\ l[2] = sub}])
      PROVE  StepGood
  <2> DEFINE clear == proc[p].clear \ {sub}
             listed == {l \in links : l[1] = dir /\ l[2] = sub}
             r == [proc[p] EXCEPT !.phase = "unlink", !.clear = clear, !.rv = TRUE,
                                  !.errno = FALSE, !.listed = listed]
  <2>1. clear \in SUBSET {"new", "cur", "tmp"} /\ listed \in SUBSET LinkSet
    BY <1>2
  <2>2. Goes(p, r)
    BY <1>1, <1>3 DEF PState
  <2>3. /\ \A l \in links : l \in listed <=> l[1] = dir /\ l[2] = sub
        /\ \A x \in proc[p].clear : x \in clear \/ x = sub
        /\ listed \subseteq links
    OBVIOUS
  <2> HIDE DEF clear, listed
  <2>4. /\ r \in PState /\ r.phase = "unlink" /\ r.line = line
        /\ r.code = proc[p].code /\ r.err = proc[p].err
        /\ r.alone = proc[p].alone /\ r.hurt = proc[p].hurt
        /\ r.allok = proc[p].allok /\ r.asked = proc[p].asked
        /\ r.left = proc[p].left /\ r.clear = clear /\ r.rv /\ ~r.errno
        /\ r.listed = listed
    BY <1>1, <2>1 DEF PState, Phases
  <2> HIDE DEF r
  <2>5. TreeInv(r, tree')
    BY <1>1, <2>4 DEF TreeInv, shared, Linking
  <2>6. LinkInv(r, links', files)
    <3>1. links' = links
      BY <1>1 DEF shared
    <3>2. proc[p].alone /\ proc[p].err = Null
            => \A l \in links : l[1] = dir => l[2] \in proc[p].clear
      BY <1>1 DEF LinkInv
    <3>3. proc[p].alone /\ ~proc[p].hurt => proc[p].err = Null
      BY <1>1 DEF LinkInv, Linking
    <3> QED
      BY <2>3, <2>4, <3>1, <3>2, <3>3 DEF LinkInv
  <2> QED
    BY <1>1, <1>2, <2>2, <2>4, <2>5, <2>6, LinksOn DEF Linking, shared
<1>4. CASE /\ proc[p].clear = {} /\ ClearLinksReturns(proc[p].rv, proc[p].errno)
           /\ Goes(p, [proc[p] EXCEPT !.phase = "link"])
  <2> DEFINE r == [proc[p] EXCEPT !.phase = "link"]
  <2>1. /\ r \in PState /\ r.phase = "link" /\ r.line = line
        /\ r.code = proc[p].code /\ r.err = proc[p].err
        /\ r.alone = proc[p].alone /\ r.hurt = proc[p].hurt
        /\ r.allok = proc[p].allok /\ r.asked = proc[p].asked
        /\ r.left = proc[p].left
    BY <1>1 DEF PState, Phases
  <2>2. Goes(p, r)
    BY <1>4
  <2> HIDE DEF r
  <2>3. TreeInv(r, tree')
    BY <1>1, <2>1 DEF TreeInv, shared, Linking
  <2>4. LinkInv(r, links', files)
    <3>1. proc[p].alone /\ proc[p].err = Null => \A l \in links' : l[1] # dir
      BY <1>1, <1>4 DEF LinkInv, shared
    <3>2. proc[p].alone /\ ~proc[p].hurt => proc[p].err = Null
      BY <1>1 DEF LinkInv, Linking
    <3> QED
      BY <1>2, <2>1, <3>1, <3>2 DEF LinkInv
  <2> QED
    BY <1>1, <1>2, <2>1, <2>2, <2>3, <2>4, LinksOn DEF Linking, shared
<1>5. CASE /\ proc[p].clear = {} /\ ~ClearLinksReturns(proc[p].rv, proc[p].errno)
           /\ Fails(p, "file")
  <2>1. ~proc[p].alone \/ proc[p].hurt
    BY <1>1, <1>5 DEF LinkInv, ClearLinksReturns, Linking
  <2> QED
    BY <1>1, <1>5, <2>1, FailsEnds DEF Codes, RightRun
<1>6. CASE Refused(p, "cannot open")
  BY <1>1, <1>6, RefusedEnds DEF Codes
<1>7. ASSUME NEW sub \in proc[p].clear,
             Hurts(p, [proc[p] EXCEPT !.clear = @ \ {sub}, !.rv = FALSE, !.errno = TRUE,
                                      !.err = FirstError(@, "cannot open")])
      PROVE  StepGood
  <2> DEFINE clear == proc[p].clear \ {sub}
             err == FirstError(proc[p].err, "cannot open")
             r == [proc[p] EXCEPT !.clear = clear, !.rv = FALSE, !.errno = TRUE,
                                  !.err = err, !.hurt = TRUE]
  <2>1. clear \in SUBSET {"new", "cur", "tmp"}
        /\ err \in {"file", "cannot open"} /\ err # Null
    BY <1>1, <1>2, FirstErrorIs DEF PState, Codes
  <2>2. Goes(p, r)
    BY <1>1, <1>7 DEF PState, Hurts
  <2> HIDE DEF clear, err
  <2>3. /\ r \in PState /\ r.phase = "clear" /\ r.line = line
        /\ r.code = proc[p].code /\ r.err # Null
        /\ r.alone = proc[p].alone /\ r.hurt
        /\ r.allok = proc[p].allok /\ r.asked = proc[p].asked
        /\ r.left = proc[p].left
    BY <1>1, <2>1 DEF PState
  <2> HIDE DEF r
  <2>4. TreeInv(r, tree')
    BY <1>1, <2>3 DEF TreeInv, shared, Linking
  <2>5. LinkInv(r, links', files)
    BY <2>3 DEF LinkInv
  <2> QED
    BY <1>1, <1>2, <2>2, <2>3, <2>4, <2>5, LinksOn DEF Linking, shared
<1> QED
  BY <1>3, <1>4, <1>5, <1>6, <1>7 DEF Clear

LEMMA UnlinkGood ==
  ASSUME ProgInv, NEW p \in Procs, Unlink(p)
  PROVE  StepGood
<1> DEFINE line == proc[p].line
           dir == line.linksdir
<1>1. /\ proc[p] \in PState /\ TreeInv(proc[p], tree) /\ PhaseInv(proc[p])
      /\ LinkInv(proc[p], links, files) /\ proc[p].phase = "unlink" /\ lock # p
      /\ SharedInv /\ Running(p) /\ UNCHANGED <<files, store, lock, tree, home, log>>
  BY Known DEF Unlink, Running, Writing
<1>2. /\ proc[p].left = proc[p].asked /\ line.cmd = "find"
      /\ "clearlinks" \in line.opts /\ proc[p].listed \subseteq LinkSet
      /\ proc[p].rv \in BOOLEAN /\ proc[p].errno \in BOOLEAN
      /\ proc[p].clear \subseteq {"new", "cur", "tmp"}
  BY <1>1 DEF PhaseInv, Linking, PState
<1>3. ASSUME links' \subseteq links PROVE SharedInv' /\ WorldKept
  <2>1. links' \subseteq LinkSet /\ \A l \in links' : <<l[1], l[2]>> \in tree'
    BY <1>1, <1>3 DEF SharedInv, LinksFit
  <2> QED
    BY <1>1, <2>1 DEF SharedInv, LinksFit, Fit, WorldKept
<1>4. /\ proc[p].alone /\ proc[p].err = Null /\ ~proc[p].errno =>
           /\ proc[p].rv /\ proc[p].listed \subseteq links
           /\ \A l \in links : l[1] = dir =>
                l[2] \in proc[p].clear \/ l \in proc[p].listed
      /\ proc[p].alone /\ ~proc[p].hurt => proc[p].err = Null /\ ~proc[p].errno
  BY <1>1 DEF LinkInv, Linking
<1>5. ASSUME NEW l \in proc[p].listed \cap links, links' = links \ {l},
             Goes(p, [proc[p] EXCEPT !.listed = @ \ {l}])
      PROVE  StepGood
  <2> DEFINE listed == proc[p].listed \ {l}
             r == [proc[p] EXCEPT !.listed = listed]
  <2>1. listed \in SUBSET LinkSet
    BY <1>2
  <2>2. Goes(p, r)
    BY <1>1, <1>5 DEF PState
  <2>3. proc[p].alone /\ proc[p].err = Null /\ ~proc[p].errno =>
           /\ proc[p].rv /\ listed \subseteq links'
           /\ \A k \in links' : k[1] = dir => k[2] \in proc[p].clear \/ k \in listed
    BY <1>4, <1>5
  <2> HIDE DEF listed
  <2>4. /\ r \in PState /\ r.phase = "unlink" /\ r.line = line
        /\ r.code = proc[p].code /\ r.err = proc[p].err
        /\ r.alone = proc[p].alone /\ r.hurt = proc[p].hurt
        /\ r.allok = proc[p].allok /\ r.asked = proc[p].asked
        /\ r.left = proc[p].left /\ r.clear = proc[p].clear /\ r.rv = proc[p].rv
        /\ r.errno = proc[p].errno /\ r.listed = listed
    BY <1>1, <2>1 DEF PState
  <2> HIDE DEF r
  <2>5. TreeInv(r, tree')
    BY <1>1, <2>4 DEF TreeInv, Linking
  <2>6. LinkInv(r, links', files)
    BY <1>4, <2>3, <2>4 DEF LinkInv
  <2>7. SharedInv' /\ WorldKept
    BY <1>3, <1>5
  <2> QED
    BY <1>1, <1>2, <2>2, <2>4, <2>5, <2>6, <2>7, LinksOn DEF Linking
<1>6. ASSUME NEW l \in proc[p].listed, NEW hurt \in BOOLEAN, links' = links,
             l \in links => hurt, proc[p].hurt => hurt,
             Goes(p, [proc[p] EXCEPT !.listed = @ \ {l}, !.rv = FALSE, !.errno = TRUE,
                                     !.hurt = hurt])
      PROVE  StepGood
  <2> DEFINE listed == proc[p].listed \ {l}
             r == [proc[p] EXCEPT !.listed = listed, !.rv = FALSE, !.errno = TRUE,
                                  !.hurt = hurt]
  <2>1. listed \in SUBSET LinkSet
    BY <1>2
  <2>2. Goes(p, r)
    BY <1>1, <1>6 DEF PState
  <2>3. proc[p].alone => hurt
    BY <1>4, <1>6
  <2> HIDE DEF listed
  <2>4. /\ r \in PState /\ r.phase = "unlink" /\ r.line = line
        /\ r.code = proc[p].code
        /\ r.alone = proc[p].alone /\ r.hurt = hurt
        /\ r.allok = proc[p].allok /\ r.asked = proc[p].asked
        /\ r.left = proc[p].left /\ r.errno
    BY <1>1, <1>6, <2>1 DEF PState
  <2> HIDE DEF r
  <2>5. TreeInv(r, tree')
    BY <1>1, <2>4 DEF TreeInv, Linking
  <2>6. LinkInv(r, links', files)
    BY <2>3, <2>4 DEF LinkInv
  <2>7. SharedInv' /\ WorldKept
    BY <1>3, <1>6
  <2> QED
    BY <1>1, <1>2, <2>2, <2>4, <2>5, <2>6, <2>7, LinksOn DEF Linking
<1>7. ASSUME NEW l \in proc[p].listed \ links, links' = links,
             Goes(p, [proc[p] EXCEPT !.listed = @ \ {l}, !.rv = FALSE, !.errno = TRUE])
      PROVE  StepGood
  <2>1. [proc[p] EXCEPT !.listed = @ \ {l}, !.rv = FALSE, !.errno = TRUE]
          = [proc[p] EXCEPT !.listed = @ \ {l}, !.rv = FALSE, !.errno = TRUE,
                            !.hurt = proc[p].hurt]
        /\ proc[p].hurt \in BOOLEAN
    BY <1>1 DEF PState
  <2> QED
    BY <1>6, <1>7, <2>1
<1>8. ASSUME NEW l \in proc[p].listed, links' = links,
             Hurts(p, [proc[p] EXCEPT !.listed = @ \ {l}, !.rv = FALSE, !.errno = TRUE])
      PROVE  StepGood
  <2>1. [[proc[p] EXCEPT !.listed = @ \ {l}, !.rv = FALSE, !.errno = TRUE]
           EXCEPT !.hurt = TRUE]
          = [proc[p] EXCEPT !.listed = @ \ {l}, !.rv = FALSE, !.errno = TRUE,
                            !.hurt = TRUE]
    BY <1>1 DEF PState
  <2> QED
    BY <1>6, <1>8, <2>1 DEF Hurts
<1>9. CASE /\ proc[p].listed = {} /\ links' = links
           /\ Goes(p, [proc[p] EXCEPT
                !.phase = "clear", !.rv = ClearLinksReturns(@, proc[p].errno),
                !.err = IF proc[p].errno THEN FirstError(@, "file") ELSE @])
  <2> DEFINE rv == ClearLinksReturns(proc[p].rv, proc[p].errno)
             err == IF proc[p].errno THEN FirstError(proc[p].err, "file") ELSE proc[p].err
             r == [proc[p] EXCEPT !.phase = "clear", !.rv = rv, !.err = err]
  <2>1. rv \in BOOLEAN /\ (proc[p].rv => ~rv)
    BY DEF ClearLinksReturns
  <2>2. /\ err \in {Null, "file", "cannot open"}
        /\ err = Null <=> proc[p].err = Null /\ ~proc[p].errno
    <3>1. proc[p].err \in {Null, "file", "cannot open"} /\ "file" \in Codes
      BY <1>1 DEF PState, Codes
    <3>2. /\ FirstError(proc[p].err, "file") # Null
          /\ FirstError(proc[p].err, "file") \in {"file", "cannot open"}
      BY <3>1, FirstErrorIs
    <3> QED
      BY <1>2, <3>1, <3>2
  <2>3. Goes(p, r)
    BY <1>1, <1>9 DEF PState
  <2> HIDE DEF rv, err
  <2>4. /\ r \in PState /\ r.phase = "clear" /\ r.line = line
        /\ r.code = proc[p].code /\ r.err = err
        /\ r.alone = proc[p].alone /\ r.hurt = proc[p].hurt
        /\ r.allok = proc[p].allok /\ r.asked = proc[p].asked
        /\ r.left = proc[p].left /\ r.clear = proc[p].clear /\ r.rv = rv
        /\ r.errno = proc[p].errno
    BY <1>1, <2>1, <2>2 DEF PState, Phases
  <2> HIDE DEF r
  <2>5. TreeInv(r, tree')
    BY <1>1, <2>4 DEF TreeInv, Linking
  <2>6. LinkInv(r, links', files)
    BY <1>4, <1>9, <2>1, <2>2, <2>4 DEF LinkInv
  <2>7. SharedInv' /\ WorldKept
    BY <1>3, <1>9
  <2> QED
    BY <1>1, <1>2, <2>3, <2>4, <2>5, <2>6, <2>7, LinksOn DEF Linking
<1> QED
  BY <1>5, <1>7, <1>8, <1>9 DEF Unlink

LEMMA LinkGood ==
  ASSUME ProgInv, NEW p \in Procs, Link(p)
  PROVE  StepGood
<1> DEFINE line == proc[p].line
           dir == line.linksdir
           seen == proc[p].asked \ proc[p].left
<1>1. /\ proc[p] \in PState /\ TreeInv(proc[p], tree) /\ PhaseInv(proc[p])
      /\ LinkInv(proc[p], links, files) /\ proc[p].phase = "link" /\ lock # p
      /\ SharedInv /\ Running(p) /\ UNCHANGED <<files, store, lock, tree, home, log>>
  BY Known DEF Link, Running, Writing
<1>2. /\ proc[p].left \subseteq proc[p].asked /\ line.cmd = "find"
      /\ proc[p].asked \subseteq Paths /\ line \in CommandLines
      /\ proc[p].count \in BOOLEAN
  BY <1>1 DEF PhaseInv, Linking, PState
<1>3. ASSUME LinksFit(links', tree) PROVE SharedInv' /\ WorldKept
  <2>1. links' \subseteq LinkSet /\ \A l \in links' : <<l[1], l[2]>> \in tree'
    BY <1>1, <1>3 DEF LinksFit
  <2> QED
    BY <1>1, <2>1 DEF SharedInv, LinksFit, Fit, WorldKept
<1>4. /\ ~proc[p].count => seen \cap files = {}
      /\ proc[p].alone =>
           /\ \A m \in seen \cap files : <<dir, Subdir[m], m>> \in links
           /\ "clearlinks" \in line.opts /\ proc[p].err = Null
                => \A l \in links : l[1] = dir => l[3] \in seen
      /\ proc[p].alone /\ ~proc[p].hurt => proc[p].err = Null
  BY <1>1 DEF LinkInv, Linking
<1>5. links' = links => SharedInv' /\ WorldKept
  BY <1>1, <1>3 DEF SharedInv
<1>6. ASSUME NEW m \in proc[p].left, NEW count \in BOOLEAN,
             Goes(p, [proc[p] EXCEPT !.left = @ \ {m}, !.count = count]),
             LinksFit(links', tree), links \subseteq links',
             \A l \in links' : l \in links \/ l = <<dir, Subdir[m], m>>,
             m \in files => count /\ <<dir, Subdir[m], m>> \in links',
             proc[p].count => count
      PROVE  StepGood
  <2> DEFINE left == proc[p].left \ {m}
             r == [proc[p] EXCEPT !.left = left, !.count = count]
  <2>1. left \in SUBSET Paths /\ left \subseteq proc[p].left
        /\ proc[p].asked \ left = seen \cup {m}
    BY <1>2
  <2>2. Goes(p, r)
    BY <1>1, <1>6 DEF PState
  <2> HIDE DEF left
  <2>3. /\ r \in PState /\ r.phase = "link" /\ r.line = line
        /\ r.code = proc[p].code /\ r.err = proc[p].err
        /\ r.alone = proc[p].alone /\ r.hurt = proc[p].hurt
        /\ r.allok = proc[p].allok /\ r.asked = proc[p].asked
        /\ r.left = left /\ r.count = count
    BY <1>1, <2>1 DEF PState, Phases
  <2> HIDE DEF r, seen
  <2>4. TreeInv(r, tree')
    BY <1>1, <2>3 DEF TreeInv, Linking
  <2>5. LinkInv(r, links', files)
    <3>1. ~count => (seen \cup {m}) \cap files = {}
      BY <1>4, <1>6
    <3>2. proc[p].alone =>
            \A k \in (seen \cup {m}) \cap files : <<dir, Subdir[k], k>> \in links'
      BY <1>4, <1>6
    <3>3. proc[p].alone /\ "clearlinks" \in line.opts /\ proc[p].err = Null
            => \A l \in links' : l[1] = dir => l[3] \in seen \cup {m}
      BY <1>4, <1>6
    <3>4. r.asked \ r.left = seen \cup {m}
      BY <2>1, <2>3
    <3> QED
      BY <1>4, <2>3, <3>1, <3>2, <3>3, <3>4 DEF LinkInv
  <2>6. SharedInv' /\ WorldKept
    BY <1>3, <1>6
  <2> QED
    BY <1>1, <1>2, <2>1, <2>2, <2>3, <2>4, <2>5, <2>6, LinksOn DEF Linking
<1>7. ASSUME NEW m \in proc[p].left
      PROVE  /\ m \notin files /\ Goes(p, [proc[p] EXCEPT !.left = @ \ {m}])
                /\ links' = links => StepGood
             /\ Subdir[m] \notin {"new", "cur"} /\ Fails(p, "invalid source")
                /\ links' = links => StepGood
             /\ <<dir, Subdir[m], m>> \in links /\ Fails(p, "cannot link")
                /\ links' = links => StepGood
             /\ /\ Subdir[m] \in {"new", "cur"}
                /\ links' = links \cup {<<dir, Subdir[m], m>>}
                /\ Goes(p, [proc[p] EXCEPT !.left = @ \ {m}, !.count = TRUE])
                => StepGood
  <2>1. CASE m \notin files /\ Goes(p, [proc[p] EXCEPT !.left = @ \ {m}])
             /\ links' = links
    <3>1. [proc[p] EXCEPT !.left = @ \ {m}]
            = [proc[p] EXCEPT !.left = @ \ {m}, !.count = proc[p].count]
      BY <1>1 DEF PState
    <3>2. Goes(p, [proc[p] EXCEPT !.left = @ \ {m}, !.count = proc[p].count])
      BY <2>1, <3>1
    <3>3. LinksFit(links', tree)
      BY <1>1, <2>1 DEF SharedInv
    <3> QED
      BY <1>2, <1>6, <2>1, <3>2, <3>3
  <2>2. CASE Subdir[m] \notin {"new", "cur"} /\ Fails(p, "invalid source")
             /\ links' = links
    <3>1. ~RightRun(p)
      BY <1>2, <2>2 DEF RightRun
    <3> QED
      BY <1>1, <1>5, <2>2, <3>1, FailsEnds DEF Codes
  <2>3. CASE <<dir, Subdir[m], m>> \in links /\ Fails(p, "cannot link")
             /\ links' = links
    <3>1. ~(proc[p].alone /\ ~proc[p].hurt /\ "clearlinks" \in line.opts)
      BY <1>4, <2>3
    <3>2. ~proc[p].hurt => ~RightRun(p)
      BY <1>2, <3>1 DEF RightRun, IsRight
    <3> QED
      BY <1>1, <1>5, <2>3, <3>2, FailsEnds DEF Codes
  <2>4. CASE /\ Subdir[m] \in {"new", "cur"}
             /\ links' = links \cup {<<dir, Subdir[m], m>>}
             /\ Goes(p, [proc[p] EXCEPT !.left = @ \ {m}, !.count = TRUE])
    <3>1. dir \in Places /\ m \in Paths
      BY <1>2, ParamsAre
    <3>2. <<dir, Subdir[m]>> \in tree
      <4>1. ToSet(Entries(dir)) \subseteq tree
        BY <1>1, <1>2 DEF TreeInv, Needed, Linking
      <4> QED
        BY <2>4, <3>1, <4>1, EntriesAre
    <3>3. LinksFit(links', tree)
      BY <1>1, <2>4, <3>1, <3>2 DEF SharedInv, LinksFit, LinkSet
    <3> QED
      BY <1>6, <2>4, <3>3
  <2> QED
    BY <2>1, <2>2, <2>3, <2>4
<1>8. CASE proc[p].left = {} /\ links' = links /\ ~proc[p].count
           /\ Fails(p, "no matches")
  <2>1. ~RightRun(p)
    BY <1>2, <1>4, <1>8 DEF RightRun
  <2> QED
    BY <1>1, <1>5, <1>8, <2>1, FailsEnds DEF Codes
<1>9. CASE proc[p].left = {} /\ links' = links /\ Exits(p, "ok")
  <2>1. IsDone(p)
    <3>1. seen = proc[p].asked
      BY <1>9
    <3>2. proc[p].alone => /\ \A m \in proc[p].asked \cap files :
                                <<line.linksdir, Subdir[m], m>> \in links'
                           /\ "clearlinks" \in line.opts /\ proc[p].err = Null =>
                                \A l \in links' : l[1] = dir => l[3] \in proc[p].asked
      BY <1>4, <1>9, <3>1
    <3> QED
      BY <1>2, <3>2 DEF IsDone, LinksIn
  <2> QED
    BY <1>1, <1>5, <1>9, <2>1, ExitsEnds DEF Codes
<1> QED
  BY <1>7, <1>8, <1>9 DEF Link

-----------------------------------------------------------------------------
(* The world around the processes.                                         *)

\* A process that is not alone is one of which less is known.
LEMMA AloneFits ==
  ASSUME NEW q \in PState, NEW a \in BOOLEAN, a => q.alone,
         NEW c, NEW fs, NEW t, NEW ls, NEW hm, NEW lg, PInv(q, c, fs, t, ls, hm, lg),
         NEW r, r = [q EXCEPT !.alone = a]
  PROVE  /\ r \in PState /\ r.phase = q.phase /\ r.alone = a
         /\ PInv(r, c, fs, t, ls, hm, lg)
<1>1. /\ r \in PState /\ r.phase = q.phase /\ r.line = q.line /\ r.make = q.make
      /\ r.todo = q.todo /\ r.left = q.left /\ r.clear = q.clear
      /\ r.listed = q.listed /\ r.rv = q.rv /\ r.errno = q.errno /\ r.err = q.err
      /\ r.allok = q.allok /\ r.asked = q.asked /\ r.count = q.count
      /\ r.code = q.code /\ r.alone = a /\ r.hurt = q.hurt /\ r.lost = q.lost
  BY DEF PState
<1>2. PhaseInv(r)
  <2>1. PhaseInv(q)
    BY DEF PInv
  <2>2. /\ r.phase = q.phase /\ r.line = q.line /\ r.todo = q.todo
        /\ r.left = q.left /\ r.err = q.err /\ r.allok = q.allok
        /\ r.asked = q.asked /\ r.code = q.code
    BY <1>1
  <2>3. /\ r.left \subseteq r.asked
        /\ r.phase \notin {"link", "exit"} => r.left = r.asked
        /\ r.phase # "exit" => r.line \in CommandLines
        /\ r.phase \notin {"exit", "close"} => r.code = Null
        /\ r.phase = "close" => /\ r.todo = <<>>
                                /\ r.code # Null => /\ r.code = "in parameters"
                                                    /\ r.line.params = <<>>
    BY <2>1, <2>2 DEF PhaseInv
  <2>4. /\ r.phase \in {"open"} \cup Writing => r.line.cmd \in {"add", "remove"}
        /\ r.phase \notin {"exit"} \cup Writing => r.allok
        /\ r.phase \notin {"exit"} \cup Linking => r.err = Null
        /\ r.phase \in {"config", "home", "log", "move log", "open log", "execute"}
             => r.asked = {}
    BY <2>1, <2>2 DEF PhaseInv
  <2>5. /\ r.phase = "open" => r.todo = r.line.params
        /\ r.phase \in {"add", "remove"} => r.phase = r.line.cmd /\ r.todo # <<>>
        /\ r.phase \in {"add", "remove", "view"}
             => ToSet(r.todo) \subseteq ToSet(r.line.params)
        /\ r.phase = "view" => r.line.cmd = "view"
    BY <2>1, <2>2 DEF PhaseInv
  <2>6. /\ r.phase = "mkdir" => r.line.cmd \in {"mkdir", "find"}
        /\ r.phase \in Linking => r.line.cmd = "find"
        /\ r.phase \in {"clear", "unlink"} => "clearlinks" \in r.line.opts
    BY <2>1, <2>2 DEF PhaseInv
  <2> QED
    BY <2>3, <2>4, <2>5, <2>6 DEF PhaseInv
<1>3. TreeInv(r, t)
  BY <1>1 DEF PInv, TreeInv
<1>4. DoneInv(r, c, fs)
  BY <1>1 DEF PInv, DoneInv
<1>5. LinkInv(r, ls, fs)
  BY <1>1 DEF PInv, LinkInv
<1>6. RightInv(r, hm, lg, fs)
  BY <1>1 DEF PInv, RightInv
<1> QED
  BY <1>1, <1>2, <1>3, <1>4, <1>5, <1>6 DEF PInv

LEMMA FreshFits ==
  ASSUME NEW line \in CommandLines, NEW alone \in BOOLEAN
  PROVE  /\ Fresh(line, alone) \in PState /\ Fresh(line, alone).phase = "config"
         /\ Fresh(line, alone).alone = alone
         /\ \A c, fs, t, ls, hm, lg : PInv(Fresh(line, alone), c, fs, t, ls, hm, lg)
<1> DEFINE r == Fresh(line, alone)
<1>1. <<>> \in Seq(Entry) /\ <<>> \in Seq(Places) /\ "config" \in Phases
  BY DEF Phases
<1>2. r \in PState
  BY <1>1 DEF Fresh, PState
<1>3. /\ r.phase = "config" /\ r.alone = alone /\ r.line = line /\ r.code = Null
      /\ r.err = Null /\ r.left = {} /\ r.asked = {} /\ r.allok
  BY DEF Fresh
<1> HIDE DEF r
<1>4. \A c, fs, t, ls, hm, lg : PInv(r, c, fs, t, ls, hm, lg)
  BY <1>3 DEF PInv, PhaseInv, TreeInv, DoneInv, LinkInv, RightInv, Writing, Linking
<1> QED
  BY <1>2, <1>3, <1>4 DEF r

LEMMA StartGood ==
  ASSUME ProgInv, NEW p \in Procs, NEW line \in CommandLines, Start(p, line)
  PROVE  StepGood
<1>1. PICK others : others = {q \in Procs : Running(q)}
  OBVIOUS
<1>2. PICK alone \in BOOLEAN : alone <=> others = {}
  OBVIOUS
<1>3. /\ p \notin others /\ UNCHANGED shared /\ alone = (others = {})
  BY <1>1, <1>2 DEF Start
<1>4. proc' = [q \in Procs |-> IF q = p THEN Fresh(line, alone)
                               ELSE [proc[q] EXCEPT !.alone = q \notin others /\ @]]
  BY <1>1, <1>3 DEF Start
<1>5. /\ proc'[p] = Fresh(line, alone)
      /\ \A q \in Procs \ {p} :
           proc'[q] = [proc[q] EXCEPT !.alone = q \notin others /\ proc[q].alone]
  BY <1>4 DEF ProgInv, PState
<1>6. ASSUME NEW q \in Procs \ {p}
      PROVE  /\ proc'[q] \in PState /\ proc'[q].phase = proc[q].phase
             /\ proc'[q].alone <=> q \notin others /\ proc[q].alone
             /\ PInv(proc'[q], store.work, files, tree, links, home, log)
  <2>1. proc[q] \in PState /\ PInv(proc[q], store.work, files, tree, links, home, log)
    BY DEF ProgInv
  <2>2. PICK a \in BOOLEAN : a <=> q \notin others /\ proc[q].alone
    OBVIOUS
  <2>3. proc'[q] = [proc[q] EXCEPT !.alone = a]
    BY <1>5, <2>1, <2>2 DEF PState
  <2> QED
    BY <2>1, <2>2, <2>3, AloneFits
<1>7. /\ proc'[p] \in PState /\ proc'[p].phase = "config"
      /\ proc'[p].alone <=> others = {}
      /\ PInv(proc'[p], store.work, files, tree, links, home, log)
  BY <1>2, <1>5, FreshFits
<1>8. proc' \in [Procs -> PState]
  BY <1>4, <1>5, <1>6, <1>7
<1>9. SharedInv' /\ UNCHANGED <<files, store, lock, tree, links, home, log>>
  BY <1>3, SharedKept DEF shared
<1>10. \A q \in Procs : lock' = q <=> proc'[q].phase \in Writing
  <2>1. \A q \in Procs : lock = q <=> proc[q].phase \in Writing
    BY DEF ProgInv
  <2>2. proc[p].phase \notin Writing /\ proc'[p].phase \notin Writing
    BY <1>7 DEF Start, Running, Writing
  <2> QED
    BY <1>6, <1>9, <2>1, <2>2
<1>11. ASSUME NEW a \in Procs, NEW b \in Procs, proc'[a].phase # "exit",
              proc'[a].alone, a # b
       PROVE  proc'[b].phase = "exit"
  <2>1. a = p
    BY <1>1, <1>6, <1>11 DEF Running
  <2> QED
    BY <1>1, <1>6, <1>7, <1>11, <2>1 DEF Running
<1>12. ProgInv'
  BY <1>6, <1>7, <1>8, <1>9, <1>10, <1>11 DEF ProgInv, Running
<1>13. \A q \in Procs : ~HasExited(q)
  BY <1>6, <1>7 DEF HasExited, Running
<1> QED
  BY <1>12, <1>13 DEF StepGood, OkStep, RightStep

LEMMA KillGood ==
  ASSUME ProgInv, NEW p \in Procs, Kill(p)
  PROVE  StepGood
<1> DEFINE r == [proc[p] EXCEPT !.phase = "exit", !.code = "killed"]
<1>1. /\ proc[p] \in PState /\ PhaseInv(proc[p]) /\ Running(p) /\ SharedInv
      /\ lock = p <=> proc[p].phase \in Writing
  BY Known DEF Kill
<1>2. Goes(p, r)
  BY DEF Kill, Exits
<1>3. /\ r \in PState /\ r.phase = "exit" /\ r.code = "killed"
      /\ r.alone = proc[p].alone /\ r.left \subseteq r.asked
  BY <1>1 DEF PState, Phases, Codes, PhaseInv
<1> HIDE DEF r
<1>4. Fit(store')
  <2>1. Fit(store) /\ store \in Stores
    BY <1>1 DEF SharedInv, Fit, GoodStore
  <2>2. GoodStore(Unopened(store)) /\ Unopened(store).work = store.disk
        /\ Unopened(store).disk = store.disk
    BY <2>1, GoodUnopened, UnopenedFrame
  <2>3. store' = store \/ store' = Unopened(store)
    BY DEF Kill
  <2> QED
    BY <2>1, <2>2, <2>3 DEF Fit
<1>5. SharedInv'
  <2>1. UNCHANGED <<files, tree, links, home, log>> /\ lock' \in {lock, Null}
    BY DEF Kill
  <2>2. links' \subseteq LinkSet /\ \A l \in links' : <<l[1], l[2]>> \in tree'
    BY <1>1, <2>1 DEF SharedInv, LinksFit
  <2> QED
    BY <1>1, <1>4, <2>1, <2>2 DEF SharedInv, LinksFit, Fit
<1>6. PInv(r, store'.work, files', tree', links', home', log')
  BY <1>3, ExitFits
<1>7. ProgInv' /\ \A q \in Procs \ {p} : ~HasExited(q)
  <2>1. /\ files' \subseteq files /\ tree \subseteq tree' /\ home \subseteq home'
        /\ r.phase \notin Writing
        /\ \/ lock = p /\ lock' = Null
           \/ lock # p /\ lock' = lock /\ store' = store
    BY <1>3 DEF Kill, Writing
  <2> QED
    BY <1>1, <1>2, <1>3, <1>5, <1>6, <2>1, Moves
<1>8. proc'[p] = r
  BY <1>2 DEF ProgInv, Goes
<1> QED
  BY <1>3, <1>7, <1>8 DEF StepGood, OkStep, RightStep

\* The processes stand still while other programs delete files, or nothing at
\* all happens.
LEMMA WorldGood ==
  ASSUME ProgInv, UNCHANGED <<store, lock, tree, links, home, log, proc>>,
         files' \subseteq files
  PROVE  StepGood
<1>1. SharedInv'
  <2>1. SharedInv
    BY DEF ProgInv
  <2>2. links' \subseteq LinkSet /\ \A l \in links' : <<l[1], l[2]>> \in tree'
    BY <2>1 DEF SharedInv, LinksFit
  <2> QED
    BY <2>1, <2>2 DEF SharedInv, LinksFit, Fit
<1>2. ASSUME NEW q \in Procs
      PROVE  PInv(proc'[q], store'.work, files', tree', links', home', log')
  <2>1. PInv(proc[q], store.work, files, tree, links, home, log)
    BY DEF ProgInv
  <2> QED
    BY <2>1, WorldMoves
<1>3. ProgInv'
  BY <1>1, <1>2 DEF ProgInv, Running
<1>4. \A q \in Procs : ~HasExited(q)
  BY DEF HasExited, Running
<1> QED
  BY <1>3, <1>4 DEF StepGood, OkStep, RightStep

-----------------------------------------------------------------------------
(* The theorems.                                                           *)

LEMMA StepsGood == ProgInv /\ [Next]_vars => StepGood
<1> SUFFICES ASSUME ProgInv, [Next]_vars PROVE StepGood
  OBVIOUS
<1>1. ASSUME NEW p \in Procs, Steps(p) PROVE StepGood
  BY <1>1, ConfigGood, CreateDirsGood, LogInitGood, MoveLogFileGood, OpenLogGood,
     ExecuteGood, ViewGood, OpenGood, AddToGood, RemoveFromGood, CloseGood,
     MakeEntryGood, MadeGood, ClearGood, UnlinkGood, LinkGood DEF Steps
<1>2. ASSUME NEW p \in Procs, Kill(p) PROVE StepGood
  BY <1>2, KillGood
<1>3. ASSUME NEW p \in Procs, NEW line \in CommandLines, Start(p, line)
      PROVE  StepGood
  BY <1>3, StartGood
<1>4. ASSUME NEW f \in files, Vanish(f) PROVE StepGood
  BY <1>4, WorldGood DEF Vanish
<1>5. CASE UNCHANGED vars
  BY <1>5, WorldGood DEF vars, shared
<1> QED
  BY <1>1, <1>2, <1>3, <1>4, <1>5 DEF Next

\* What is known of each process and of what they share holds at all times, so
\* that one process at a time has the database open for writing, and a link is
\* never in a directory that is not there.
THEOREM ProgInvariant == Spec => []ProgInv
<1>1. ProgInv /\ [Next]_vars => ProgInv'
  BY StepsGood DEF StepGood
<1> QED
  BY InitProgInv, <1>1, PTL DEF Spec

THEOREM ProgTypeCorrect == Spec => []TypeOK
BY ProgInvariant, InvTypeOK, PTL

\* Exit code 0 says that messages are added or removed and maildirs made, whatever
\* other processes did, were killed at, or left behind; and of a search that ran
\* alone, that its links are there, and the old ones gone unless some of them
\* could not be read or removed (see OkMeansDone for the exceptions).
THEOREM OkIsDone == Spec => OkMeansDone
<1> DEFINE A == \A p \in Procs :
                  HasExited(p) /\ proc'[p].code = "ok" /\ ~proc'[p].lost
                    /\ "version" \notin proc[p].line.opts
                    => IsDone(p)
<1>1. ProgInv /\ [Next]_vars => [A]_vars
  BY StepsGood DEF StepGood, OkStep
<1>2. Spec => [][A]_vars
  BY ProgInvariant, <1>1, PTL DEF Spec
<1> QED
  BY <1>2 DEF OkMeansDone

\* A command that is right, runs alone and can make and remove its files cannot
\* be made to fail by what others left behind.
THEOREM RightSucceed == Spec => RightCommandsSucceed
<1> DEFINE A == \A p \in Procs :
       /\ HasExited(p) /\ proc'[p].code # "killed"
       /\ IsRight(proc[p].line) /\ proc[p].alone /\ ~proc'[p].hurt
       /\ proc[p].line.cmd = "find" =>
            /\ store.disk.version = "current"
            /\ \A m \in proc[p].asked : Subdir[m] \in {"new", "cur"}
            /\ proc[p].asked \cap files # {}
       => proc'[p].code = "ok"
<1>1. ProgInv /\ [Next]_vars => [A]_vars
  BY StepsGood DEF StepGood, RightStep, RightRun
<1>2. Spec => [][A]_vars
  BY ProgInvariant, <1>1, PTL DEF Spec
<1> QED
  BY <1>2 DEF RightCommandsSucceed
=============================================================================
