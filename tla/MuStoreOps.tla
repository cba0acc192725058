----------------------------- MODULE MuStoreOps -----------------------------
(***************************************************************************)
(* The message store of mu (lib/mu-store-*.cc): a Xapian database behind a *)
(* layer that groups writes in transactions of BatchSize messages.         *)
(*                                                                         *)
(* A store is a record:                                                    *)
(*   work       the content every query of this process sees               *)
(*   disk       the content the last Xapian commit left on disk            *)
(*   xtxn       Xapian has a transaction open                              *)
(*   inTxn      _MuStore::_in_transaction, mu's own idea of xtxn           *)
(*   processed  _MuStore::_processed modulo the batch size, which is the   *)
(*              only way the code uses it                                  *)
(*   badWrites, badCommits   how many more times the environment may make  *)
(*              a Xapian write or commit throw                             *)
(*                                                                         *)
(* A store function is an operator that returns the set of its possible    *)
(* outcomes, so that a caller that makes several calls in one handler can  *)
(* be modelled as one step.                                                *)
(***************************************************************************)
EXTENDS Integers, FiniteSets

CONSTANTS Paths,      \* canonical paths of message files
          Bodies,     \* what a document may record of a message file
          Dirs,       \* directories that may carry a timestamp
          MaxDocId,   \* bound: highest docid handed out
          BatchSize   \* messages per Xapian transaction (mu_store_set_batch_size)

ASSUME BatchSizeAssumption == BatchSize \in Nat \ {0}
ASSUME MaxDocIdAssumption == MaxDocId \in Nat

DocIds == 1..MaxDocId
InvalidDocId == 0                       \* MU_STORE_INVALID_DOCID
Versions == {"none", "current", "old"}  \* metadata MU_STORE_VERSION_KEY

Docs == [id : DocIds, path : Paths, body : Bodies]

Contents == [docs    : SUBSET Docs,
             last    : 0..MaxDocId,     \* Xapian's highest docid so far
             stamps  : [Dirs -> Nat],   \* mu_store_set_timestamp
             version : Versions]

EmptyContent == [docs |-> {}, last |-> 0,
                 stamps |-> [d \in Dirs |-> 0], version |-> "none"]

Stores == [work : Contents, disk : Contents,
           xtxn : BOOLEAN, inTxn : BOOLEAN, processed : 0..(BatchSize - 1),
           badWrites : Nat, badCommits : Nat]

OnlyIf(cond, S) == IF cond THEN S ELSE {}

-----------------------------------------------------------------------------
(* Xapian, as the store uses it (external).                                *)

\* A thrown commit or write discards everything since the last commit; a
\* thrown write leaves the transaction itself open.
Discarded(s) == [s EXCEPT !.work = s.disk]
CommitThrew(s) == [Discarded(s) EXCEPT !.badCommits = @ - 1]
WriteThrew(s) == [Discarded(s) EXCEPT !.badWrites = @ - 1]

\* WritableDatabase::commit: refused inside a transaction.
XapianCommit(s) ==
  IF s.xtxn THEN {s}
  ELSE {[s EXCEPT !.disk = s.work]}
         \cup OnlyIf(s.badCommits > 0 /\ s.work # s.disk, {CommitThrew(s)})

\* begin_transaction first commits what is pending outside a transaction.
XapianBegin(s) ==
  {[t |-> [c EXCEPT !.xtxn = TRUE], threw |-> FALSE] :
                       c \in {[s EXCEPT !.disk = s.work]}}
    \cup OnlyIf(s.badCommits > 0 /\ s.work # s.disk,
                {[t |-> CommitThrew(s), threw |-> TRUE]})

\* replace_document by unique term keeps the lowest docid that has the term
\* and drops the others; a new document gets the docid after the highest.
DocsAt(c, p) == {d \in c.docs : d.path = p}

\* Mutant: the next docid is the highest one so far (off by one).
IdsForTermOffByOne(c, p) ==
  IF DocsAt(c, p) = {} THEN {c.last} ELSE {d.id : d \in DocsAt(c, p)}

\* Mutant: the next docid follows from the number of documents.
IdsForTermByCount(c, p) ==
  IF DocsAt(c, p) = {} THEN OnlyIf(c.last < MaxDocId,
                                   {Cardinality(c.docs) + 1})
  ELSE {d.id : d \in DocsAt(c, p)}

IdsForTerm(c, p) ==
  IF DocsAt(c, p) = {} THEN OnlyIf(c.last < MaxDocId, {c.last + 1})
  ELSE {d.id : d \in {x \in DocsAt(c, p) :
                        \A y \in DocsAt(c, p) : x.id <= y.id}}

Doc(id, p, b) == [id |-> id, path |-> p, body |-> b]

ReplaceByTerm(c, id, p, b) ==
  [c EXCEPT !.docs = (@ \ DocsAt(c, p)) \cup {Doc(id, p, b)},
            !.last = IF id > @ THEN id ELSE @]

ReplaceById(c, id, p, b) ==
  [c EXCEPT !.docs = {d \in @ : d.id # id} \cup {Doc(id, p, b)},
            !.last = IF id > @ THEN id ELSE @]

DeleteByTerm(c, p) == [c EXCEPT !.docs = @ \ DocsAt(c, p)]

-----------------------------------------------------------------------------
(* Transactions (mu-store-write.cc).  MU_XAPIAN_CATCH_BLOCK swallows what  *)
(* Xapian throws, so a caller never learns that one of these failed.       *)

BeginTransaction(s) ==
  IF s.xtxn THEN {s}
  ELSE {IF o.threw THEN o.t ELSE [o.t EXCEPT !.inTxn = TRUE] :
                                                     o \in XapianBegin(s)}

\* Mutant: _in_transaction is reset only after a commit that did not throw.
CommitTransactionThenReset(s) ==
  LET t == [s EXCEPT !.xtxn = FALSE]
  IN  IF s.xtxn THEN {[t EXCEPT !.inTxn = FALSE, !.disk = s.work]}
                       \cup OnlyIf(s.badCommits > 0, {CommitThrew(t)})
      ELSE {t}

CommitTransaction(s) ==
  LET t == [s EXCEPT !.inTxn = FALSE, !.xtxn = FALSE]
  IN  IF s.xtxn THEN XapianCommit(t) ELSE {t}

RollbackTransaction(s) ==
  LET t == [s EXCEPT !.inTxn = FALSE, !.xtxn = FALSE]
  IN  IF s.xtxn THEN Discarded(t) ELSE t

\* Mutant: mu_store_flush commits without ending the transaction first.
StoreFlushOnlyCommit(s) == XapianCommit(s)

\* mu_store_flush
StoreFlush(s) ==
  UNION {XapianCommit(t) :
           t \in IF s.inTxn THEN CommitTransaction(s) ELSE {s}}

-----------------------------------------------------------------------------
(* Storing, removing, metadata (mu-store-write.cc).                        *)

IncProcessed(s) == [s EXCEPT !.processed = (@ + 1) % BatchSize]

BeginIfNeeded(s) == IF s.inTxn THEN {s} ELSE BeginTransaction(s)
CommitIfDue(s) == IF s.processed = 0 THEN CommitTransaction(s) ELSE {s}
RollbackIfOpen(s) == IF s.inTxn THEN RollbackTransaction(s) ELSE s

\* The common tail of mu_store_add_msg and mu_store_update_msg: the write
\* of content c, then the batch check; or the exception path.
StoreDocument(s, c, id) ==
  {[s |-> t, id |-> id] :
      t \in CommitIfDue(IncProcessed([s EXCEPT !.work = c]))}
    \cup OnlyIf(s.badWrites > 0,
           {[s |-> RollbackIfOpen(WriteThrew(s)), id |-> InvalidDocId]})

\* mu_store_add_msg
AddMsg(s, p, b) ==
  UNION {UNION {StoreDocument(t, ReplaceByTerm(t.work, id, p, b), id) :
                  id \in IdsForTerm(t.work, p)} :
           t \in BeginIfNeeded(s)}

\* Mutant: an update counts as processed but never ends the batch.
UpdateMsgNoBatch(s, id, p, b) ==
  {[s |-> IncProcessed([t EXCEPT !.work = ReplaceById(@, id, p, b)]),
    id |-> id] : t \in BeginIfNeeded(s)}

\* mu_store_update_msg
UpdateMsg(s, id, p, b) ==
  UNION {StoreDocument(t, ReplaceById(t.work, id, p, b), id) :
           t \in BeginIfNeeded(s)}

\* Mutant: mu_store_remove_path returns TRUE when Xapian threw.
RemovePathTrue(s, p) ==
  {[s |-> IncProcessed([s EXCEPT !.work = DeleteByTerm(@, p)]), ok |-> TRUE]}
    \cup OnlyIf(s.badWrites > 0 /\ DocsAt(s.work, p) # {},
                {[s |-> WriteThrew(s), ok |-> TRUE]})

\* mu_store_remove_path: it counts as processed but never ends the batch.
RemovePath(s, p) ==
  {[s |-> IncProcessed([s EXCEPT !.work = DeleteByTerm(@, p)]), ok |-> TRUE]}
    \cup OnlyIf(s.badWrites > 0 /\ DocsAt(s.work, p) # {},
                {[s |-> WriteThrew(s), ok |-> FALSE]})

\* mu_store_set_timestamp, by way of mu_store_set_metadata
SetTimestamp(s, d, stamp) ==
  {[s EXCEPT !.work.stamps[d] = stamp]}
    \cup OnlyIf(s.badWrites > 0, {[s EXCEPT !.badWrites = @ - 1]})

\* mu_store_contains_message, mu_store_get_timestamp
ContainsMessage(s, p) == DocsAt(s.work, p) # {}
GetTimestamp(s, d) == s.work.stamps[d]

-----------------------------------------------------------------------------
(* Opening and losing a store (mu-store-priv.hh).                          *)

\* The state of a store nobody has open: only what is on disk is left.
Unopened(s) == [s EXCEPT !.work = s.disk, !.xtxn = FALSE, !.inTxn = FALSE,
                         !.processed = 0]

\* Mutant: an overwritten database does not get its version.
OpenWritableKeepVersion(s, rebuild) ==
  LET base == IF rebuild THEN EmptyContent ELSE s.disk
      t    == Unopened([s EXCEPT !.disk = base])
  IN  OnlyIf(base.version # "old",
             {IF rebuild THEN t ELSE [t EXCEPT !.work.version = "current"]})

\* The read-write constructor.  rebuild is DB_CREATE_OR_OVERWRITE; then
\* check_set_version adds a missing version and throws on another one.
OpenWritable(s, rebuild) ==
  LET base == IF rebuild THEN EmptyContent ELSE s.disk
      t    == Unopened([s EXCEPT !.disk = base])
  IN  OnlyIf(base.version # "old", {[t EXCEPT !.work.version = "current"]})

\* The read-only constructor succeeds (mu find and the other readers).
ReadOnlyOpens(s) == s.disk.version = "current"

=============================================================================
