------------------------------ MODULE MuStore -------------------------------
(***************************************************************************)
(* One mu process that holds the store for writing (mu index, mu add, mu   *)
(* remove, mu server) calls its functions in any order; it may crash, and  *)
(* Xapian may throw.                                                       *)
(***************************************************************************)
EXTENDS MuStoreOps

CONSTANTS MaxStamp,       \* bound: highest timestamp stored
          WriteFaults,    \* bound: Xapian writes that throw
          CommitFaults,   \* bound: Xapian commits that throw
          MaxUnsaved      \* bound: what unsaved can count to

ASSUME FaultsAssumption == WriteFaults \in Nat /\ CommitFaults \in Nat
ASSUME BoundsAssumption == MaxStamp \in Nat /\ MaxUnsaved \in Nat

VARIABLES store,    \* the store (MuStoreOps)
          isOpen,   \* a process has the store open for writing
          ret,      \* what the last call was and what it returned
          told,     \* docid -> the paths this process returned it for
          unsaved   \* messages stored since the last commit, loss or removal

vars == <<store, isOpen, ret, told, unsaved>>

NoPath == "no path"
Calls == {"open", "refused", "add", "update", "remove", "stamp", "flush",
          "close", "crash"}

\* What the caller knows after a call: which one it was, the docid it
\* returned (0 for an error, or for a call that returns none), its path.
Returned(call, id, p) == [call |-> call, id |-> id, path |-> p]

TypeOK ==
  /\ store \in Stores
  /\ isOpen \in BOOLEAN
  /\ ret \in [call : Calls, id : 0..MaxDocId, path : Paths \cup {NoPath}]
  /\ told \in [DocIds -> SUBSET Paths]
  /\ unsaved \in Nat

\* A database that does not exist yet, or one an older mu left behind.
FirstDisk == {EmptyContent, [EmptyContent EXCEPT !.version = "old"]}

NothingTold == [id \in DocIds |-> {}]

Init ==
  /\ \E c \in FirstDisk :
       store = [work |-> c, disk |-> c, xtxn |-> FALSE, inTxn |-> FALSE,
                processed |-> 0, badWrites |-> WriteFaults,
                badCommits |-> CommitFaults]
  /\ isOpen = FALSE
  /\ ret = Returned("close", 0, NoPath)
  /\ told = NothingTold
  /\ unsaved = 0

\* A batch ends when the transaction that held it is no longer open.
CountStored(s) ==
  /\ unsaved < MaxUnsaved
  /\ unsaved' = IF s.inTxn THEN unsaved + 1 ELSE 0

-----------------------------------------------------------------------------

Open(rebuild) ==
  /\ ~isOpen
  /\ IF OpenWritable(store, rebuild) = {}
     THEN /\ ret' = Returned("refused", 0, NoPath)
          /\ UNCHANGED <<store, isOpen, told, unsaved>>
     ELSE /\ store' \in OpenWritable(store, rebuild)
          /\ isOpen' = TRUE
          /\ ret' = Returned("open", 0, NoPath)
          /\ told' = NothingTold
          /\ unsaved' = 0

Add(p, b) ==
  /\ isOpen
  /\ \E o \in AddMsg(store, p, b) :
       /\ store' = o.s
       /\ ret' = Returned("add", o.id, p)
       /\ told' = IF o.id = InvalidDocId THEN told
                  ELSE [told EXCEPT ![o.id] = @ \cup {p}]
       /\ CountStored(o.s)
  /\ UNCHANGED isOpen

\* do_move in mu-cmd-server.c: the docid is that of a stored message, whose
\* file has just been given the path p.
Update(id, p, b) ==
  /\ isOpen
  /\ \E d \in store.work.docs : d.id = id
  /\ \E o \in UpdateMsg(store, id, p, b) :
       /\ store' = o.s
       /\ ret' = Returned("update", o.id, p)
       /\ told' = IF o.id = InvalidDocId THEN told
                  ELSE [told EXCEPT ![id] = {p}]
       /\ CountStored(o.s)
  /\ UNCHANGED isOpen

Remove(p) ==
  /\ isOpen
  /\ \E o \in RemovePath(store, p) :
       /\ store' = o.s
       /\ ret' = Returned("remove", 0, IF o.ok THEN p ELSE NoPath)
  /\ unsaved' = 0
  /\ UNCHANGED <<isOpen, told>>

Stamp(d, stamp) ==
  /\ isOpen
  /\ store' \in SetTimestamp(store, d, stamp)
  /\ ret' = Returned("stamp", 0, NoPath)
  /\ UNCHANGED <<isOpen, told, unsaved>>

Flush ==
  /\ isOpen
  /\ store' \in StoreFlush(store)
  /\ ret' = Returned("flush", 0, NoPath)
  /\ unsaved' = 0
  /\ UNCHANGED <<isOpen, told>>

\* The destructor flushes; then the process lets go of the database.
Close ==
  /\ isOpen
  /\ \E s \in StoreFlush(store) : store' = Unopened(s)
  /\ isOpen' = FALSE
  /\ ret' = Returned("close", 0, NoPath)
  /\ unsaved' = 0
  /\ UNCHANGED told

Crash ==
  /\ isOpen
  /\ store' = Unopened(store)
  /\ isOpen' = FALSE
  /\ ret' = Returned("crash", 0, NoPath)
  /\ unsaved' = 0
  /\ UNCHANGED told

Next ==
  \/ \E rebuild \in BOOLEAN : Open(rebuild)
  \/ \E p \in Paths, b \in Bodies : Add(p, b)
  \/ \E id \in DocIds, p \in Paths, b \in Bodies : Update(id, p, b)
  \/ \E p \in Paths : Remove(p)
  \/ \E d \in Dirs, stamp \in 0..MaxStamp : Stamp(d, stamp)
  \/ Flush
  \/ Close
  \/ Crash

Spec == Init /\ [][Next]_vars

-----------------------------------------------------------------------------
(* Properties.                                                             *)

\* mu's _in_transaction says exactly whether Xapian has a transaction open,
\* also after a begin or a commit threw and nobody was told.  It is what
\* lets mu_store_flush end a transaction before it commits, and an add open
\* one that a rollback can undo.
TxnFlagsAgree == store.inTxn = store.xtxn

\* mu_store_flush and the destructor leave everything this process saw on
\* disk, unless the commit itself threw.
FlushIsDurable ==
  [][ret'.call \in {"flush", "close"} /\ store'.badCommits = store.badCommits
       => store'.disk = store.work]_vars

\* A message this process could find is found no longer only if the caller
\* removed it, moved it, was told 0 or FALSE, or the process ended: a batch
\* is never rolled back behind the caller's back.
Reported(d) ==
  \/ ret'.call \in {"open", "crash"}
  \/ ret'.call = "remove" /\ ret'.path \in {d.path, NoPath}
  \/ ret'.call \in {"add", "update"} /\ ret'.id \in {d.id, InvalidDocId}

LossIsReported ==
  [][\A d \in store.work.docs :
        DocsAt(store'.work, d.path) = {} => Reported(d)]_vars

\* Whatever reached the disk can be read by mu find and the other readers:
\* messages are never durable without "an embedded version number"
\* (mu-index.1), which the read-only constructor asks for.
DurableIsReadable == store.disk.docs # {} => ReadOnlyOpens(store)

\* The open transaction never grows by a whole batch (mu-index.1, xbatchsize),
\* however many commits throw.  A removal begins the count anew: it advances
\* the counter of the batch and does not commit, so that the next message may
\* step over the end of the batch.
BatchIsBounded == unsaved < BatchSize

\* While Xapian does not throw, a docid the process returned keeps naming
\* the one message it was returned for: not even the docid of a removed
\* message is given to another one.
NothingThrew == /\ store.badWrites = WriteFaults
                /\ store.badCommits = CommitFaults

OneMessagePerDocid == \A id \in DocIds : Cardinality(told[id]) <= 1

DocidNamesOneMessage == NothingThrew => OneMessagePerDocid

=============================================================================
