----------------------------- MODULE MuContainer -----------------------------
(***************************************************************************)
(* The containers of lib/mu-container.c: nodes that are linked into a      *)
(* forest by parent, child and next pointers, with a cached pointer to the *)
(* last sibling at the head of a list.  A container is known by the key    *)
(* under which mu-threader.c keeps it, a message-id or, for want of one,   *)
(* the path of the message.                                                *)
(*                                                                         *)
(* A heap is a record of functions over Keys.  Operators take a heap and   *)
(* give the heap that the function of that name leaves behind.             *)
(***************************************************************************)
EXTENDS Naturals, Sequences, SequencesExt, FiniteSets, FiniteSetsExt

CONSTANTS
  Keys,   \* message-ids and paths: what a container can stand for
  Null,   \* the null pointer
  Base    \* base of the numbers in a thread path (16 in the code)

ASSUME NullAssumption == Null \notin Keys
ASSUME BaseAssumption == Base \in Nat /\ Base > 1

Pointers == Keys \cup {Null}

\* A container without a message has the message Null.
EmptyHeap ==
  [parent |-> [k \in Keys |-> Null], child |-> [k \in Keys |-> Null],
   next |-> [k \in Keys |-> Null], last |-> [k \in Keys |-> Null],
   msg |-> [k \in Keys |-> Null], flags |-> [k \in Keys |-> {}]]

Fill(h, c, msg) == [h EXCEPT !.msg[c] = msg]
Flag(h, c, f) == [h EXCEPT !.flags[c] = @ \cup {f}]

\* c and the siblings that follow it.
RECURSIVE Chain(_, _)
Chain(h, c) == IF c = Null THEN <<>> ELSE <<c>> \o Chain(h, h.next[c])

\* The order in which mu_container_foreach calls its function: below c,
\* after c, c.  A call may change the children of the container it is
\* given and nothing that is still to be visited.
RECURSIVE PostOrder(_, _)
PostOrder(h, c) ==
  IF c = Null THEN <<>>
  ELSE PostOrder(h, h.child[c]) \o PostOrder(h, h.next[c]) \o <<c>>

Reachable(h, haystack, needle) == needle \in ToSet(PostOrder(h, haystack))

-----------------------------------------------------------------------------
(* Changing the forest.                                                    *)

RECURSIVE SetParent(_, _, _)
SetParent(h, c, parent) ==
  IF c = Null THEN h
  ELSE SetParent([h EXCEPT !.parent[c] = parent], h.next[c], parent)

LastOf(h, c) == IF h.last[c] # Null THEN h.last[c] ELSE Last(Chain(h, c))

AppendSiblings(h, c, sibling) ==
  LET s == SetParent(h, sibling, h.parent[c])
  IN [s EXCEPT !.next[LastOf(s, c)] = sibling,
               !.last[c] = IF s.last[sibling] # Null THEN s.last[sibling]
                           ELSE sibling]

\* Mutant: the cached last sibling survives the removal of a sibling.
RemoveSiblingKeepingLast(h, c, sibling) ==
  LET list == Chain(h, c)
      at == SelectInSeq(list, LAMBDA k : k = sibling)
      head == IF at = 1 THEN h.next[c] ELSE c
  IN [heap |-> IF at > 1 THEN [h EXCEPT !.next[list[at - 1]] = h.next[sibling]]
               ELSE h,
      head |-> head]

\* Gives the heap and the new head of the list.
RemoveSibling(h, c, sibling) ==
  LET list == Chain(h, c)
      at == SelectInSeq(list, LAMBDA k : k = sibling)
      head == IF at = 1 THEN h.next[c] ELSE c
      unlinked == IF at > 1 THEN [h EXCEPT !.next[list[at - 1]] = h.next[sibling]]
                  ELSE h
  IN [heap |-> IF head = Null THEN unlinked
               ELSE [unlinked EXCEPT !.last[head] = Null],
      head |-> head]

AppendChildren(h, c, child) ==
  LET s == SetParent(h, child, c)
  IN IF s.child[c] = Null THEN [s EXCEPT !.child[c] = child]
     ELSE AppendSiblings(s, s.child[c], child)

RemoveChild(h, c, child) ==
  LET r == RemoveSibling(h, h.child[c], child)
  IN [r.heap EXCEPT !.child[c] = r.head]

SpliceChildren(h, parent, child) ==
  LET grandchild == h.child[child]
      childless == [h EXCEPT !.child[child] = Null]
  IN AppendChildren(RemoveChild(childless, parent, child), parent, grandchild)

-----------------------------------------------------------------------------
(* Sorting.  A message is a record with, among others, a date.             *)

\* The message that stands for a container: its own, or that of the first
\* child of an empty one.
RECURSIVE Stand(_, _)
Stand(h, c) == IF h.msg[c] = Null /\ h.child[c] # Null THEN Stand(h, h.child[c])
               ELSE c

\* Mutant: a container without any message comes before the others.
PrecedesEmptyFirst(h, x, y, revert) ==
  LET mx == h.msg[Stand(h, x)]
      my == h.msg[Stand(h, y)]
  IN \/ my # Null /\ mx = Null
     \/ my # Null /\ mx # Null /\ IF revert THEN mx.date > my.date ELSE mx.date < my.date

\* sort_func_wrapper: x must come before y.  Containers without any message
\* come last, whatever the direction.
Precedes(h, x, y, revert) ==
  LET mx == h.msg[Stand(h, x)]
      my == h.msg[Stand(h, y)]
  IN \/ mx # Null /\ my = Null
     \/ mx # Null /\ my # Null /\ IF revert THEN mx.date > my.date ELSE mx.date < my.date

\* The sort is stable and is given the list from its end: what need not come
\* before or after each other comes out in reverse.
RECURSIVE Sorted(_, _, _)
Sorted(h, list, revert) ==
  LET before(i, j) == \/ Precedes(h, list[i], list[j], revert)
                      \/ ~Precedes(h, list[j], list[i], revert) /\ i > j
      first == CHOOSE i \in DOMAIN list : \A j \in DOMAIN list \ {i} : before(i, j)
  IN IF list = <<>> THEN <<>>
     ELSE <<list[first]>> \o Sorted(h, RemoveAt(list, first), revert)

\* mu_container_from_list: the list is linked up as it is given; what the
\* containers cached as their last sibling stays.
RECURSIVE Relink(_, _)
Relink(h, list) ==
  IF list = <<>> THEN h
  ELSE Relink([h EXCEPT !.next[list[1]] = IF Len(list) = 1 THEN Null ELSE list[2]],
              Tail(list))

\* Children are sorted before the lists they are in.  The heap and the head.
RECURSIVE SortList(_, _, _), SortChildren(_, _, _)
SortList(h, c, revert) ==
  LET below == SortChildren(h, c, revert)
      list == Sorted(below, Chain(below, c), revert)
  IN IF c = Null THEN [heap |-> h, head |-> Null]
     ELSE [heap |-> Relink(below, list), head |-> list[1]]
SortChildren(h, c, revert) ==
  IF c = Null THEN h
  ELSE LET s == SortList(h, h.child[c], revert)
       IN SortChildren([s.heap EXCEPT !.child[c] = s.head], h.next[c], revert)

-----------------------------------------------------------------------------
(* Thread paths.  A path holds the number of a container among its         *)
(* siblings and those of its ancestors among theirs.                       *)

RECURSIVE Numbered(_, _, _, _)
Numbered(h, c, above, n) ==
  IF c = Null THEN {}
  ELSE {<<c, Append(above, n)>>}
       \cup Numbered(h, h.child[c], Append(above, n), 0)
       \cup Numbered(h, h.next[c], above, n + 1)

\* The width that fits numbers up to matchnum: the rounded up logarithm.
Width(matchnum) == CHOOSE w \in 0..matchnum :
                     /\ Base ^ w >= matchnum
                     /\ \A v \in 0..matchnum : Base ^ v >= matchnum => w <= v

\* A number in base Base, padded with zeros to a width it may exceed.
RECURSIVE Digits(_, _)
Digits(n, width) == IF n < Base THEN [i \in 1..(Max({width, 1}) - 1) |-> 0] \o <<n>>
                    ELSE Digits(n \div Base, Max({width, 1}) - 1) \o <<n % Base>>

\* Characters in the order of strcmp: the colon is between 9 and a.
Colon == 10
Character(digit) == IF digit < 10 THEN digit ELSE digit + 1
RECURSIVE ThreadPath(_, _)
ThreadPath(numbers, width) ==
  LET first == [i \in DOMAIN Digits(numbers[1], width) |->
                  Character(Digits(numbers[1], width)[i])]
  IN IF Len(numbers) = 1 THEN first
     ELSE first \o <<Colon>> \o ThreadPath(Tail(numbers), width)

\* strcmp (a, b) < 0
Less(a, b) ==
  \/ Len(a) < Len(b) /\ SubSeq(b, 1, Len(a)) = a
  \/ \E i \in 1..Min({Len(a), Len(b)}) :
       a[i] < b[i] /\ \A j \in 1..(i - 1) : a[j] = b[j]

ThreadInfo(h, c, path) ==
  [threadpath |-> path,
   level |-> Cardinality({i \in DOMAIN path : path[i] = Colon}),
   root |-> h.parent[c] = Null,
   first_child |-> h.parent[c] # Null /\ h.child[h.parent[c]] = c,
   empty_parent |-> h.parent[c] # Null /\ h.msg[h.parent[c]] = Null,
   has_child |-> h.child[c] # Null,
   dup |-> "dup" \in h.flags[c]]

\* docid -> thread info, for the containers that hold a message.  (The empty
\* ones share the key 0, which no query has.)
ThreadInfoHash(h, root, matchnum) ==
  LET numbered == {p \in Numbered(h, root, <<>>, 0) : h.msg[p[1]] # Null}
      at(id) == CHOOSE p \in numbered : h.msg[p[1]].docid = id
  IN [id \in {h.msg[p[1]].docid : p \in numbered} |->
        ThreadInfo(h, at(id)[1], ThreadPath(at(id)[2], Width(matchnum)))]

-----------------------------------------------------------------------------
(* What must be true of a heap whose forest starts at the given heads.     *)

Lists(h, heads) == {c \in heads : h.parent[c] = Null}
                   \cup ({h.child[k] : k \in Keys} \ {Null})

\* The pointers agree with each other: whoever is in a child list has that
\* parent, nobody is in two lists, and a cached last sibling is the last.
WellLinked(h, heads) ==
  /\ \A k \in Keys : h.child[k] # Null =>
       \A c \in ToSet(Chain(h, h.child[k])) : h.parent[c] = k
  /\ \A a, b \in Lists(h, heads) : a # b =>
       ToSet(Chain(h, a)) \cap ToSet(Chain(h, b)) = {}
  /\ \A a \in Lists(h, heads) : h.last[a] # Null => h.last[a] = Last(Chain(h, a))

=============================================================================
