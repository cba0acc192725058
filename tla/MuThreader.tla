----------------------------- MODULE MuThreader ------------------------------
(***************************************************************************)
(* lib/mu-threader.c: the messages that a query found are arranged in      *)
(* threads by their references.  The steps of mu_threader_calculate are    *)
(* operators here; MuFind takes them one after the other.                  *)
(*                                                                         *)
(* A message is [docid, msgid, path, refs, date]; its msgid may be Null.   *)
(* A table is [heap, ids]: the containers and the keys of id_table.        *)
(***************************************************************************)
EXTENDS MuContainer

EmptyTable == [heap |-> EmptyHeap, ids |-> {}]

\* A container for a message that others refer to: made when there is none.
FindOrCreateReferred(t, msgid) == [t EXCEPT !.ids = @ \cup {msgid}]

\* The container of a message and the table with it.  A second message with
\* the same message-id becomes a child of the first, and its references are
\* not looked at: its container is Null.
FindOrCreate(t, m) ==
  LET key == IF m.msgid # Null THEN m.msgid ELSE m.path
      fresh == [t EXCEPT !.ids = @ \cup {key}, !.heap = Fill(t.heap, key, m)]
      dup == Flag(Fill(t.heap, m.path, m), m.path, "dup")
  IN IF t.heap.msg[key] = Null THEN [table |-> fresh, container |-> key]
     ELSE [table |-> [t EXCEPT !.ids = @ \cup {m.path},
                               !.heap = AppendChildren(dup, key, m.path)],
           container |-> Null]

ChildElligible(h, parent, child) ==
  /\ parent # Null /\ child # Null
  /\ h.parent[child] = Null
  /\ ~Reachable(h, parent, child)
  /\ ~Reachable(h, child, parent)

LinkMaybe(h, parent, child) ==
  IF ChildElligible(h, parent, child) THEN AppendChildren(h, parent, child)
  ELSE h

\* The references are linked in their order, and the message to the last.
HandleReferences(t, c) ==
  LET refs == t.heap.msg[c].refs
      above(i) == IF i = 1 THEN Null ELSE refs[i - 1]
      link[i \in 0..Len(refs)] ==
        IF i = 0 THEN t
        ELSE LET s == FindOrCreateReferred(link[i - 1], refs[i])
             IN [s EXCEPT !.heap = LinkMaybe(@, above(i), refs[i])]
      linked == link[Len(refs)]
  IN IF refs = <<>> THEN t
     ELSE [linked EXCEPT !.heap = LinkMaybe(@, Last(refs), c)]

\* One turn of the loop of create_containers.
CreateContainer(t, m) ==
  LET f == FindOrCreate(t, m)
  IN IF f.container = Null THEN f.table
     ELSE HandleReferences(f.table, f.container)

-----------------------------------------------------------------------------

\* Containers that have no parent, and are not there as duplicates.
Roots(t) == {k \in t.ids : t.heap.parent[k] = Null /\ "dup" \notin t.heap.flags[k]}

\* The orders in which the hash table may give them.
RECURSIVE Orders(_)
Orders(set) == IF set = {} THEN {<<>>}
               ELSE UNION {{<<k>> \o rest : rest \in Orders(set \ {k})} : k \in set}

FindRootSet(t, roots) ==
  LET chained[i \in 1..Len(roots)] ==
        IF i = 1 THEN t.heap
        ELSE AppendSiblings(chained[i - 1], roots[1], roots[i])
  IN IF roots = <<>> THEN [heap |-> t.heap, head |-> Null]
     ELSE [heap |-> chained[Len(roots)], head |-> roots[1]]

\* The loop over the children in prune_maybe, from cur on.
RECURSIVE PruneChildren(_, _, _)
PruneChildren(h, c, cur) ==
  IF cur = Null THEN h
  ELSE LET pruned == IF "delete" \in h.flags[cur] THEN RemoveChild(h, c, cur)
                     ELSE IF "splice" \in h.flags[cur]
                          THEN SpliceChildren(h, c, cur)
                     ELSE h
       IN PruneChildren(pruned, c, pruned.next[cur])

\* Mutant: an empty container with one child stays.
PruneMaybeKeeping(h, c) ==
  LET p == PruneChildren(h, c, h.child[c])
  IN IF p.msg[c] = Null /\ p.child[c] = Null THEN Flag(p, c, "delete") ELSE p

\* What is left empty is marked for its parent to remove: without children
\* it is deleted, with one child it is replaced by it, with more it stays.
PruneMaybe(h, c) ==
  LET p == PruneChildren(h, c, h.child[c])
  IN IF p.msg[c] # Null THEN p
     ELSE IF p.child[c] = Null THEN Flag(p, c, "delete")
     ELSE IF p.next[p.child[c]] # Null THEN p
     ELSE Flag(p, c, "splice")

\* Mutant: the child of an empty root is cut off from it and forgotten.
RECURSIVE PruneRootsForgetting(_, _, _)
PruneRootsForgetting(h, head, cur) ==
  IF cur = Null THEN [heap |-> h, head |-> head]
  ELSE IF "delete" \in h.flags[cur]
    THEN LET r == RemoveSibling(h, head, cur)
         IN PruneRootsForgetting(r.heap, r.head, r.heap.next[cur])
  ELSE IF "splice" \in h.flags[cur]
    THEN LET r == RemoveSibling(h, head, cur)
         IN PruneRootsForgetting(r.heap, r.head, r.heap.next[cur])
  ELSE PruneRootsForgetting(h, head, h.next[cur])

\* The loop over the root set.  The one child of an empty root goes to the
\* end of the list, while the root stays in it and has no children then.
RECURSIVE PruneRoots(_, _, _)
PruneRoots(h, head, cur) ==
  IF cur = Null THEN [heap |-> h, head |-> head]
  ELSE IF "delete" \in h.flags[cur]
    THEN LET r == RemoveSibling(h, head, cur)
         IN PruneRoots(r.heap, r.head, r.heap.next[cur])
  ELSE IF "splice" \in h.flags[cur]
    THEN LET promoted == AppendSiblings([h EXCEPT !.child[cur] = Null],
                                        head, h.child[cur])
         IN PruneRoots(promoted, head, promoted.next[cur])
  ELSE PruneRoots(h, head, h.next[cur])

PruneEmptyContainers(h, head) ==
  LET order == PostOrder(h, head)
      pruned[i \in 0..Len(order)] ==
        IF i = 0 THEN h ELSE PruneMaybe(pruned[i - 1], order[i])
      below == pruned[Len(order)]
  IN PruneRoots(below, head, head)

SortRootSet(h, head, revert) == SortList(h, head, revert)

=============================================================================
