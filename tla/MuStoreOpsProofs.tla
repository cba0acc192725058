-------------------------- MODULE MuStoreOpsProofs --------------------------
(***************************************************************************)
(* Lemmas about the functions of the store: what each of them preserves,   *)
(* for every batch size, and what it can do to the contents.               *)
(***************************************************************************)
EXTENDS MuStoreOps, WellFoundedInduction, TLAPS

\* Induction: a set of numbers has a least one, so a property that fails for
\* some number fails for one before which it holds.
LEMMA LeastNat ==
  ASSUME NEW S \in SUBSET Nat, S # {}
  PROVE  \E n \in S : \A k \in S : n <= k
<1> DEFINE R == OpToRel(<, Nat)
<1>1. IsWellFoundedOn(R, Nat)
  BY NatLessThanWellFounded
<1>2. \A x, y \in Nat : x < y => <<x, y>> \in R
  BY DEF OpToRel
<1> HIDE DEF R
<1>3. PICK n \in S : \A k \in S : ~(<<k, n>> \in R)
  BY <1>1, WFMin
<1>4. ASSUME NEW k \in S PROVE n <= k
  <2>1. n \in Nat /\ k \in Nat
    OBVIOUS
  <2>2. ~(k < n)
    BY <1>2, <1>3, <2>1
  <2> QED
    BY <2>1, <2>2
<1> QED
  BY <1>4

\* What every store function preserves: the types, and the agreement of
\* mu's transaction flag with Xapian's transaction.
GoodStore(s) == s \in Stores /\ s.inTxn = s.xtxn

-----------------------------------------------------------------------------
(* Lemmas: each store function takes good stores to good stores.           *)

LEMMA ContentsEmpty ==
  /\ EmptyContent \in Contents
  /\ [EmptyContent EXCEPT !.version = "old"] \in Contents
BY MaxDocIdAssumption DEF EmptyContent, Contents, Versions

LEMMA ContentsVersion ==
  ASSUME NEW c \in Contents
  PROVE  [c EXCEPT !.version = "current"] \in Contents
BY DEF Contents, Versions

LEMMA ContentsStamp ==
  ASSUME NEW c \in Contents, NEW d \in Dirs, NEW n \in Nat
  PROVE  [c EXCEPT !.stamps[d] = n] \in Contents
BY DEF Contents

LEMMA ContentsIds ==
  ASSUME NEW c \in Contents, NEW p \in Paths, NEW id \in IdsForTerm(c, p)
  PROVE  id \in DocIds
BY MaxDocIdAssumption
   DEF Contents, IdsForTerm, DocsAt, OnlyIf, DocIds, Docs

LEMMA ContentsDocs ==
  ASSUME NEW c \in Contents, NEW id \in DocIds, NEW p \in Paths,
         NEW b \in Bodies
  PROVE  /\ ReplaceByTerm(c, id, p, b) \in Contents
         /\ ReplaceById(c, id, p, b) \in Contents
         /\ DeleteByTerm(c, p) \in Contents
<1>1. Doc(id, p, b) \in Docs
  BY DEF Doc, Docs
<1>2. (IF id > c.last THEN id ELSE c.last) \in 0..MaxDocId
  BY MaxDocIdAssumption DEF Contents, DocIds
<1>3. ReplaceByTerm(c, id, p, b) \in Contents
  BY <1>1, <1>2 DEF ReplaceByTerm, Contents, DocsAt
<1>4. ReplaceById(c, id, p, b) \in Contents
  BY <1>1, <1>2 DEF ReplaceById, Contents
<1>5. DeleteByTerm(c, p) \in Contents
  BY DEF DeleteByTerm, Contents, DocsAt
<1> QED
  BY <1>3, <1>4, <1>5

LEMMA GoodWork ==
  ASSUME NEW s, GoodStore(s), NEW c \in Contents
  PROVE  GoodStore([s EXCEPT !.work = c])
BY DEF GoodStore, Stores

LEMMA GoodDiscarded ==
  ASSUME NEW s, GoodStore(s)
  PROVE  GoodStore(Discarded(s))
BY DEF GoodStore, Stores, Discarded

LEMMA GoodThrew ==
  ASSUME NEW s, GoodStore(s)
  PROVE  /\ s.badCommits > 0 => GoodStore(CommitThrew(s))
         /\ s.badWrites > 0 => GoodStore(WriteThrew(s))
         /\ s.badWrites > 0 => GoodStore([s EXCEPT !.badWrites = @ - 1])
<1> DEFINE u == Discarded(s)
<1>1. GoodStore(u) /\ u.badCommits = s.badCommits /\ u.badWrites = s.badWrites
  BY GoodDiscarded DEF Discarded, GoodStore, Stores
<1>2. ASSUME NEW t, GoodStore(t)
      PROVE  /\ t.badCommits > 0 => GoodStore([t EXCEPT !.badCommits = @ - 1])
             /\ t.badWrites > 0 => GoodStore([t EXCEPT !.badWrites = @ - 1])
  <2>1. t.badCommits > 0 => t.badCommits - 1 \in Nat
    BY <1>2 DEF GoodStore, Stores
  <2>2. t.badWrites > 0 => t.badWrites - 1 \in Nat
    BY <1>2 DEF GoodStore, Stores
  <2> QED
    BY <1>2, <2>1, <2>2 DEF GoodStore, Stores
<1> HIDE DEF u
<1>3. CommitThrew(s) = [u EXCEPT !.badCommits = @ - 1]
  BY DEF CommitThrew, u
<1>4. WriteThrew(s) = [u EXCEPT !.badWrites = @ - 1]
  BY DEF WriteThrew, u
<1> QED
  BY <1>1, <1>2, <1>3, <1>4

LEMMA GoodXapianCommit ==
  ASSUME NEW s, GoodStore(s), NEW t \in XapianCommit(s)
  PROVE  GoodStore(t)
<1>1. GoodStore([s EXCEPT !.disk = s.work])
  BY DEF GoodStore, Stores
<1> QED
  BY <1>1, GoodThrew DEF XapianCommit, OnlyIf

LEMMA GoodBegin ==
  ASSUME NEW s, GoodStore(s), NEW t \in BeginTransaction(s)
  PROVE  GoodStore(t)
<1>1. CASE s.xtxn
  BY <1>1 DEF BeginTransaction
<1>2. CASE ~s.xtxn
  <2>1. PICK o \in XapianBegin(s) :
              t = IF o.threw THEN o.t ELSE [o.t EXCEPT !.inTxn = TRUE]
    BY <1>2 DEF BeginTransaction
  <2>2. CASE o.threw
    <3>1. o.t = CommitThrew(s) /\ s.badCommits > 0
      BY <2>2 DEF XapianBegin, OnlyIf
    <3> QED
      BY <2>1, <2>2, <3>1, GoodThrew
  <2>3. CASE ~o.threw
    <3>1. o.t = [s EXCEPT !.disk = s.work, !.xtxn = TRUE]
      BY <2>3 DEF XapianBegin, OnlyIf, GoodStore, Stores
    <3>2. t = [s EXCEPT !.disk = s.work, !.xtxn = TRUE, !.inTxn = TRUE]
      BY <2>1, <2>3, <3>1
    <3> QED
      BY <3>2 DEF GoodStore, Stores
  <2> QED
    BY <2>2, <2>3
<1> QED
  BY <1>1, <1>2

LEMMA GoodEnded ==
  ASSUME NEW s, s \in Stores
  PROVE  GoodStore([s EXCEPT !.inTxn = FALSE, !.xtxn = FALSE])
BY DEF GoodStore, Stores

LEMMA GoodCommit ==
  ASSUME NEW s, GoodStore(s), NEW t \in CommitTransaction(s)
  PROVE  GoodStore(t)
BY GoodEnded, GoodXapianCommit DEF CommitTransaction, GoodStore

LEMMA GoodRollback ==
  ASSUME NEW s, GoodStore(s)
  PROVE  GoodStore(RollbackTransaction(s))
BY GoodEnded, GoodDiscarded DEF RollbackTransaction, GoodStore

LEMMA GoodFlush ==
  ASSUME NEW s, GoodStore(s), NEW t \in StoreFlush(s)
  PROVE  GoodStore(t)
<1>1. PICK u \in (IF s.inTxn THEN CommitTransaction(s) ELSE {s}) :
            t \in XapianCommit(u)
  BY DEF StoreFlush
<1>2. GoodStore(u)
  BY <1>1, GoodCommit
<1> QED
  BY <1>1, <1>2, GoodXapianCommit

LEMMA GoodProcessed ==
  ASSUME NEW s, GoodStore(s)
  PROVE  GoodStore(IncProcessed(s))
<1>1. s.processed \in 0..(BatchSize - 1)
  BY DEF GoodStore, Stores
<1>2. (s.processed + 1) % BatchSize \in 0..(BatchSize - 1)
  BY <1>1, BatchSizeAssumption
<1> QED
  BY <1>2 DEF GoodStore, Stores, IncProcessed

LEMMA GoodStoreDocument ==
  ASSUME NEW s, GoodStore(s), NEW c \in Contents, NEW id \in DocIds,
         NEW o \in StoreDocument(s, c, id)
  PROVE  GoodStore(o.s) /\ o.id \in 0..MaxDocId
<1>1. CASE \E t \in CommitIfDue(IncProcessed([s EXCEPT !.work = c])) :
              o = [s |-> t, id |-> id]
  <2>1. GoodStore(IncProcessed([s EXCEPT !.work = c]))
    BY GoodWork, GoodProcessed
  <2>2. \A t \in CommitIfDue(IncProcessed([s EXCEPT !.work = c])) : GoodStore(t)
    BY <2>1, GoodCommit DEF CommitIfDue
  <2> QED
    BY <1>1, <2>2 DEF DocIds
<1>2. CASE /\ s.badWrites > 0
           /\ o = [s |-> RollbackIfOpen(WriteThrew(s)), id |-> InvalidDocId]
  <2>1. GoodStore(WriteThrew(s))
    BY <1>2, GoodThrew
  <2>2. GoodStore(RollbackIfOpen(WriteThrew(s)))
    BY <2>1, GoodRollback DEF RollbackIfOpen
  <2> QED
    BY <1>2, <2>2, MaxDocIdAssumption DEF InvalidDocId
<1> QED
  BY <1>1, <1>2 DEF StoreDocument, OnlyIf

LEMMA GoodBeginIfNeeded ==
  ASSUME NEW s, GoodStore(s), NEW t \in BeginIfNeeded(s)
  PROVE  GoodStore(t)
BY GoodBegin DEF BeginIfNeeded

LEMMA GoodAddMsg ==
  ASSUME NEW s, GoodStore(s), NEW p \in Paths, NEW b \in Bodies,
         NEW o \in AddMsg(s, p, b)
  PROVE  GoodStore(o.s) /\ o.id \in 0..MaxDocId
<1>0. PICK t \in BeginIfNeeded(s) :
            \E id \in IdsForTerm(t.work, p) :
               o \in StoreDocument(t, ReplaceByTerm(t.work, id, p, b), id)
  BY DEF AddMsg
<1>1. PICK id \in IdsForTerm(t.work, p) :
            o \in StoreDocument(t, ReplaceByTerm(t.work, id, p, b), id)
  BY <1>0
<1>2. GoodStore(t) /\ t.work \in Contents
  BY GoodBeginIfNeeded DEF GoodStore, Stores
<1>3. id \in DocIds
  BY <1>2, ContentsIds
<1>4. ReplaceByTerm(t.work, id, p, b) \in Contents
  BY <1>2, <1>3, ContentsDocs
<1> QED
  BY <1>1, <1>2, <1>3, <1>4, GoodStoreDocument

LEMMA GoodUpdateMsg ==
  ASSUME NEW s, GoodStore(s), NEW id \in DocIds, NEW p \in Paths,
         NEW b \in Bodies, NEW o \in UpdateMsg(s, id, p, b)
  PROVE  GoodStore(o.s) /\ o.id \in 0..MaxDocId
<1>1. PICK t \in BeginIfNeeded(s) :
            o \in StoreDocument(t, ReplaceById(t.work, id, p, b), id)
  BY DEF UpdateMsg
<1>2. GoodStore(t) /\ t.work \in Contents
  BY GoodBeginIfNeeded DEF GoodStore, Stores
<1>3. ReplaceById(t.work, id, p, b) \in Contents
  BY <1>2, ContentsDocs
<1> QED
  BY <1>1, <1>2, <1>3, GoodStoreDocument

LEMMA GoodRemovePath ==
  ASSUME NEW s, GoodStore(s), NEW p, NEW o \in RemovePath(s, p)
  PROVE  GoodStore(o.s)
<1>1. CASE o = [s |-> IncProcessed([s EXCEPT !.work = DeleteByTerm(@, p)]),
                ok |-> TRUE]
  <2>1. DeleteByTerm(s.work, p) \in Contents
    BY DEF DeleteByTerm, DocsAt, Contents, GoodStore, Stores
  <2>2. GoodStore([s EXCEPT !.work = DeleteByTerm(s.work, p)])
    BY <2>1, GoodWork
  <2> QED
    BY <1>1, <2>2, GoodProcessed
<1>2. CASE s.badWrites > 0 /\ o = [s |-> WriteThrew(s), ok |-> FALSE]
  BY <1>2, GoodThrew
<1> QED
  BY <1>1, <1>2 DEF RemovePath, OnlyIf

LEMMA GoodSetTimestamp ==
  ASSUME NEW s, GoodStore(s), NEW d \in Dirs, NEW n \in Nat,
         NEW t \in SetTimestamp(s, d, n)
  PROVE  GoodStore(t)
<1>1. CASE t = [s EXCEPT !.work.stamps[d] = n]
  <2>1. [s.work EXCEPT !.stamps[d] = n] \in Contents
    BY ContentsStamp DEF GoodStore, Stores
  <2>2. t = [s EXCEPT !.work = [s.work EXCEPT !.stamps[d] = n]]
    BY <1>1
  <2> QED
    BY <2>1, <2>2, GoodWork
<1>2. CASE s.badWrites > 0 /\ t = [s EXCEPT !.badWrites = @ - 1]
  BY <1>2, GoodThrew
<1> QED
  BY <1>1, <1>2 DEF SetTimestamp, OnlyIf

LEMMA GoodUnopened ==
  ASSUME NEW s, s \in Stores
  PROVE  GoodStore(Unopened(s))
<1>1. GoodStore([s EXCEPT !.inTxn = FALSE, !.xtxn = FALSE])
  BY GoodEnded
<1>2. 0 \in 0..(BatchSize - 1)
  BY BatchSizeAssumption
<1>3. Unopened(s) = [[s EXCEPT !.inTxn = FALSE, !.xtxn = FALSE]
                       EXCEPT !.work = s.disk, !.processed = 0]
  BY DEF Unopened, Stores
<1>4. s.disk \in Contents
  BY DEF Stores
<1> QED
  BY <1>1, <1>2, <1>3, <1>4 DEF GoodStore, Stores

LEMMA GoodOpenWritable ==
  ASSUME NEW s, s \in Stores, NEW r \in BOOLEAN, NEW t \in OpenWritable(s, r)
  PROVE  GoodStore(t)
<1> DEFINE base == IF r THEN EmptyContent ELSE s.disk
           u == Unopened([s EXCEPT !.disk = base])
<1>1. base \in Contents
  BY ContentsEmpty DEF Stores
<1>2. [s EXCEPT !.disk = base] \in Stores
  BY <1>1 DEF Stores
<1>3. GoodStore(u) /\ u.work \in Contents
  BY <1>2, GoodUnopened DEF GoodStore, Stores
<1>4. t = [u EXCEPT !.work = [u.work EXCEPT !.version = "current"]]
  BY DEF OpenWritable, OnlyIf
<1> HIDE DEF u
<1> QED
  BY <1>3, <1>4, ContentsVersion, GoodWork

-----------------------------------------------------------------------------
(* What counts as processed, and how a transaction ends.                   *)

LEMMA XapianCommitFrame ==
  ASSUME NEW s, s \in Stores, NEW t \in XapianCommit(s)
  PROVE  t.inTxn = s.inTxn /\ t.processed = s.processed
BY DEF XapianCommit, OnlyIf, CommitThrew, Discarded, Stores

LEMMA BeginFrame ==
  ASSUME NEW s, s \in Stores, NEW t \in BeginIfNeeded(s)
  PROVE  t.processed = s.processed
<1>1. CASE t = s
  BY <1>1
<1>2. CASE t \in BeginTransaction(s) /\ ~s.xtxn
  <2>1. PICK o \in XapianBegin(s) :
              t = IF o.threw THEN o.t ELSE [o.t EXCEPT !.inTxn = TRUE]
    BY <1>2 DEF BeginTransaction
  <2>2. CASE o = [t |-> [[s EXCEPT !.disk = s.work] EXCEPT !.xtxn = TRUE],
                  threw |-> FALSE]
    BY <2>1, <2>2 DEF Stores
  <2>3. CASE o = [t |-> CommitThrew(s), threw |-> TRUE]
    BY <2>1, <2>3 DEF Stores, CommitThrew, Discarded
  <2> QED
    BY <2>2, <2>3 DEF XapianBegin, OnlyIf
<1> QED
  BY <1>1, <1>2 DEF BeginIfNeeded, BeginTransaction

\* A message that leaves the transaction open has advanced the batch
\* counter; one that fails has ended the transaction.
LEMMA StoreDocumentFrame ==
  ASSUME NEW s, GoodStore(s), NEW c \in Contents, NEW id \in DocIds,
         NEW o \in StoreDocument(s, c, id)
  PROVE  \/ ~o.s.inTxn
         \/ o.s.processed = s.processed + 1
<1> DEFINE u == IncProcessed([s EXCEPT !.work = c])
<1>1. GoodStore(u) /\ u.processed = (s.processed + 1) % BatchSize
  BY GoodWork, GoodProcessed DEF IncProcessed, GoodStore, Stores
<1>2. s.processed \in 0..(BatchSize - 1)
  BY DEF GoodStore, Stores
<1>3. u.processed # 0 => u.processed = s.processed + 1
  <2>1. CASE s.processed + 1 < BatchSize
    BY <1>1, <1>2, <2>1, BatchSizeAssumption
  <2>2. CASE s.processed + 1 = BatchSize
    BY <1>1, <1>2, <2>2, BatchSizeAssumption
  <2> QED
    BY <1>2, <2>1, <2>2, BatchSizeAssumption
<1> HIDE DEF u
<1>4. CASE \E t \in CommitIfDue(u) : o = [s |-> t, id |-> id]
  <2>1. PICK t \in CommitIfDue(u) : o = [s |-> t, id |-> id]
    BY <1>4
  <2>2. CASE u.processed = 0
    <3>1. t \in CommitTransaction(u)
      BY <2>1, <2>2 DEF CommitIfDue
    <3>2. GoodStore([u EXCEPT !.inTxn = FALSE, !.xtxn = FALSE])
      BY <1>1, GoodEnded DEF GoodStore
    <3>3. ~t.inTxn
      BY <1>1, <3>1, <3>2, XapianCommitFrame
         DEF CommitTransaction, GoodStore, Stores
    <3> QED
      BY <2>1, <3>3
  <2>3. CASE u.processed # 0
    BY <1>3, <2>1, <2>3 DEF CommitIfDue
  <2> QED
    BY <2>2, <2>3
<1>5. CASE /\ s.badWrites > 0
           /\ o = [s |-> RollbackIfOpen(WriteThrew(s)), id |-> InvalidDocId]
  <2>1. GoodStore(WriteThrew(s))
    BY <1>5, GoodThrew
  <2>2. ~RollbackIfOpen(WriteThrew(s)).inTxn
    BY <2>1 DEF RollbackIfOpen, RollbackTransaction, Discarded, GoodStore, Stores
  <2> QED
    BY <1>5, <2>2
<1> QED
  BY <1>4, <1>5 DEF StoreDocument, OnlyIf, u

-----------------------------------------------------------------------------
(* What a flush leaves on disk.                                            *)

LEMMA XapianCommitDurable ==
  ASSUME NEW s, GoodStore(s), ~s.xtxn, NEW t \in XapianCommit(s)
  PROVE  \/ /\ t.disk = s.work /\ t.work = s.work /\ ~t.xtxn
            /\ t.badCommits = s.badCommits
         \/ ~t.xtxn /\ t.badCommits < s.badCommits
<1>1. CASE t = [s EXCEPT !.disk = s.work]
  BY <1>1 DEF GoodStore, Stores
<1>2. CASE t = CommitThrew(s)
  <2>1. s.badCommits \in Nat
    BY DEF GoodStore, Stores
  <2> QED
    BY <1>2, <2>1 DEF GoodStore, Stores, CommitThrew, Discarded
<1> QED
  BY <1>1, <1>2 DEF XapianCommit, OnlyIf

LEMMA FlushDurable ==
  ASSUME NEW s, GoodStore(s), NEW t \in StoreFlush(s),
         t.badCommits = s.badCommits
  PROVE  t.disk = s.work
<1> DEFINE r == [s EXCEPT !.inTxn = FALSE, !.xtxn = FALSE]
<1>1. PICK u \in (IF s.inTxn THEN CommitTransaction(s) ELSE {s}) :
            t \in XapianCommit(u)
  BY DEF StoreFlush
<1>2. GoodStore(r) /\ ~r.xtxn /\ r.work = s.work /\ r.badCommits = s.badCommits
  BY GoodEnded DEF GoodStore, Stores
<1>3. GoodStore(u)
  BY <1>1, GoodCommit
<1>4. \/ u.work = s.work /\ ~u.xtxn /\ u.badCommits = s.badCommits
      \/ ~u.xtxn /\ u.badCommits < s.badCommits
  <2>1. CASE s.inTxn
    <3>1. u \in XapianCommit(r)
      BY <1>1, <2>1 DEF CommitTransaction, GoodStore
    <3> HIDE DEF r
    <3> QED
      BY <1>2, <3>1, XapianCommitDurable
  <2>2. CASE ~s.inTxn
    BY <1>1, <2>2 DEF GoodStore
  <2> QED
    BY <2>1, <2>2
<1>5. s.badCommits \in Nat /\ u.badCommits \in Nat /\ t.badCommits \in Nat
  BY <1>3, <1>1, GoodXapianCommit DEF GoodStore, Stores
<1>6. \/ t.disk = u.work /\ t.badCommits = u.badCommits
      \/ t.badCommits < u.badCommits
  BY <1>1, <1>3, <1>4, XapianCommitDurable
<1> QED
  BY <1>4, <1>5, <1>6

-----------------------------------------------------------------------------
(* What beginning and ending transactions can do to the contents: nothing, *)
(* unless a commit throws.                                                 *)

Kept(s, t) ==
  /\ t.work \in {s.work, s.disk}
  /\ t.disk \in {s.work, s.disk}
  /\ t.badWrites = s.badWrites
  /\ t.badCommits <= s.badCommits
  /\ t.badCommits = s.badCommits => t.work = s.work

LEMMA KeptTransitive ==
  ASSUME NEW s \in Stores, NEW t \in Stores, NEW u \in Stores,
         Kept(s, t), Kept(t, u)
  PROVE  Kept(s, u)
<1>1. /\ s.badCommits \in Nat /\ t.badCommits \in Nat /\ u.badCommits \in Nat
  BY DEF Stores
<1>2. u.badCommits <= s.badCommits
      /\ (u.badCommits = s.badCommits => t.badCommits = s.badCommits)
  BY <1>1 DEF Kept
<1> QED
  BY <1>2 DEF Kept

LEMMA KeptXapianCommit ==
  ASSUME NEW s, GoodStore(s), NEW t \in XapianCommit(s)
  PROVE  Kept(s, t)
<1>1. s.badCommits \in Nat
  BY DEF GoodStore, Stores
<1>2. CASE t = s
  BY <1>1, <1>2 DEF Kept
<1>3. CASE t = [s EXCEPT !.disk = s.work]
  BY <1>1, <1>3 DEF Kept, GoodStore, Stores
<1>4. CASE t = CommitThrew(s)
  BY <1>1, <1>4 DEF Kept, CommitThrew, Discarded, GoodStore, Stores
<1> QED
  BY <1>2, <1>3, <1>4 DEF XapianCommit, OnlyIf

LEMMA KeptCommit ==
  ASSUME NEW s, GoodStore(s), NEW t \in CommitTransaction(s)
  PROVE  Kept(s, t)
<1> DEFINE r == [s EXCEPT !.inTxn = FALSE, !.xtxn = FALSE]
<1>1. GoodStore(r)
  BY GoodEnded DEF GoodStore
<1>2. /\ r.work = s.work /\ r.disk = s.disk
      /\ r.badWrites = s.badWrites /\ r.badCommits = s.badCommits
  BY DEF GoodStore, Stores
<1>3. t = r \/ t \in XapianCommit(r)
  BY DEF CommitTransaction
<1>4. s.badCommits \in Nat
  BY DEF GoodStore, Stores
<1> HIDE DEF r
<1>5. CASE t = r
  BY <1>2, <1>4, <1>5 DEF Kept
<1>6. CASE t \in XapianCommit(r)
  BY <1>1, <1>2, <1>6, KeptXapianCommit DEF Kept
<1> QED
  BY <1>3, <1>5, <1>6

LEMMA KeptBegin ==
  ASSUME NEW s, GoodStore(s), NEW t \in BeginIfNeeded(s)
  PROVE  Kept(s, t)
<1>1. s.badCommits \in Nat
  BY DEF GoodStore, Stores
<1>2. CASE t = s
  BY <1>1, <1>2 DEF Kept
<1>3. CASE t \in BeginTransaction(s) /\ ~s.xtxn
  <2>1. PICK o \in XapianBegin(s) :
              t = IF o.threw THEN o.t ELSE [o.t EXCEPT !.inTxn = TRUE]
    BY <1>3 DEF BeginTransaction
  <2>2. CASE o = [t |-> [[s EXCEPT !.disk = s.work] EXCEPT !.xtxn = TRUE],
                  threw |-> FALSE]
    <3>1. t = [s EXCEPT !.disk = s.work, !.xtxn = TRUE, !.inTxn = TRUE]
      BY <2>1, <2>2 DEF GoodStore, Stores
    <3> QED
      BY <1>1, <3>1 DEF Kept, GoodStore, Stores
  <2>3. CASE o = [t |-> CommitThrew(s), threw |-> TRUE]
    <3>1. t = CommitThrew(s)
      BY <2>1, <2>3
    <3> QED
      BY <1>1, <3>1 DEF Kept, GoodStore, Stores, CommitThrew, Discarded
  <2> QED
    BY <2>2, <2>3 DEF XapianBegin, OnlyIf
<1> QED
  BY <1>2, <1>3 DEF BeginIfNeeded, BeginTransaction

LEMMA KeptFlush ==
  ASSUME NEW s, GoodStore(s), NEW t \in StoreFlush(s)
  PROVE  Kept(s, t)
<1>1. PICK u \in (IF s.inTxn THEN CommitTransaction(s) ELSE {s}) :
            t \in XapianCommit(u)
  BY DEF StoreFlush
<1>2. GoodStore(u) /\ Kept(s, u)
  <2>1. CASE s.inTxn
    BY <1>1, <2>1, GoodCommit, KeptCommit
  <2>2. CASE ~s.inTxn
    BY <1>1, <2>2 DEF Kept, GoodStore, Stores
  <2> QED
    BY <2>1, <2>2
<1>3. GoodStore(t) /\ Kept(u, t)
  BY <1>1, <1>2, GoodXapianCommit, KeptXapianCommit
<1> QED
  BY <1>2, <1>3, KeptTransitive DEF GoodStore

\* A message is stored, and its batch perhaps ended; or the write threw, and
\* all since the last commit is discarded.
LEMMA DocumentStored ==
  ASSUME NEW s, GoodStore(s), NEW c \in Contents, NEW id \in DocIds,
         NEW o \in StoreDocument(s, c, id)
  PROVE  \/ o.id = id /\ Kept([s EXCEPT !.work = c], o.s)
         \/ /\ o.id = InvalidDocId
            /\ o.s.work = s.disk /\ o.s.disk = s.disk
            /\ o.s.badWrites < s.badWrites /\ o.s.badCommits = s.badCommits
<1> DEFINE w == [s EXCEPT !.work = c]
           u == IncProcessed(w)
<1>1. CASE \E t \in CommitIfDue(u) : o = [s |-> t, id |-> id]
  <2>1. PICK t \in CommitIfDue(u) : o = [s |-> t, id |-> id]
    BY <1>1
  <2>2. GoodStore(w) /\ GoodStore(u)
    BY GoodWork, GoodProcessed
  <2>3. Kept(w, u)
    BY <2>2 DEF Kept, IncProcessed, GoodStore, Stores
  <2> HIDE DEF u, w
  <2>4. GoodStore(t) /\ Kept(u, t)
    <3>1. CASE t = u
      BY <2>2, <3>1 DEF Kept, GoodStore, Stores
    <3>2. CASE t \in CommitTransaction(u)
      BY <2>2, <3>2, GoodCommit, KeptCommit
    <3> QED
      BY <2>1, <3>1, <3>2 DEF CommitIfDue
  <2>5. Kept(w, t)
    BY <2>2, <2>3, <2>4, KeptTransitive DEF GoodStore
  <2> QED
    BY <2>1, <2>5 DEF w
<1>2. CASE /\ s.badWrites > 0
           /\ o = [s |-> RollbackIfOpen(WriteThrew(s)), id |-> InvalidDocId]
  <2>1. s.badWrites \in Nat
    BY DEF GoodStore, Stores
  <2> QED
    BY <1>2, <2>1 DEF RollbackIfOpen, RollbackTransaction, WriteThrew, Discarded,
                      GoodStore, Stores
<1> QED
  BY <1>1, <1>2 DEF StoreDocument, OnlyIf

-----------------------------------------------------------------------------
(* What the calls do to the store when no commit throws.                   *)

LEMMA QuietKept ==
  ASSUME NEW s, GoodStore(s), s.badCommits = 0, NEW t, GoodStore(t), Kept(s, t)
  PROVE  t.badCommits = 0 /\ t.work = s.work /\ t.badWrites = s.badWrites
BY DEF Kept, GoodStore, Stores

LEMMA QuietFlush ==
  ASSUME NEW s, GoodStore(s), s.badCommits = 0, NEW t \in StoreFlush(s)
  PROVE  /\ GoodStore(t) /\ t.badCommits = 0
         /\ t.work = s.work /\ t.disk = s.work
<1>1. GoodStore(t) /\ Kept(s, t)
  BY GoodFlush, KeptFlush
<1>2. t.badCommits = 0 /\ t.work = s.work
  BY <1>1, QuietKept
<1> QED
  BY <1>1, <1>2, FlushDurable

LEMMA QuietStored ==
  ASSUME NEW s, GoodStore(s), s.badCommits = 0,
         NEW c \in Contents, NEW id \in DocIds,
         NEW o \in StoreDocument(s, c, id)
  PROVE  /\ GoodStore(o.s) /\ o.s.badCommits = 0
         /\ \/ o.id = id /\ o.s.work = c /\ o.s.disk \in {c, s.disk}
            \/ o.id = InvalidDocId /\ o.s.work = s.disk /\ o.s.disk = s.disk
<1> DEFINE w == [s EXCEPT !.work = c]
<1>1. GoodStore(o.s)
  BY GoodStoreDocument
<1>2. GoodStore(w) /\ w.work = c /\ w.disk = s.disk /\ w.badCommits = 0
  BY GoodWork DEF GoodStore, Stores
<1>3. \/ o.id = id /\ Kept(w, o.s)
      \/ /\ o.id = InvalidDocId
         /\ o.s.work = s.disk /\ o.s.disk = s.disk
         /\ o.s.badWrites < s.badWrites /\ o.s.badCommits = s.badCommits
  BY DocumentStored
<1> HIDE DEF w
<1>4. CASE o.id = id /\ Kept(w, o.s)
  BY <1>1, <1>2, <1>4, QuietKept DEF Kept
<1> QED
  BY <1>1, <1>3, <1>4

LEMMA QuietAdd ==
  ASSUME NEW s, GoodStore(s), s.badCommits = 0, NEW p \in Paths,
         NEW b \in Bodies, NEW o \in AddMsg(s, p, b)
  PROVE  /\ GoodStore(o.s) /\ o.s.badCommits = 0
         /\ o.s.disk \in {s.work, s.disk, o.s.work}
         /\ \/ o.id = InvalidDocId /\ o.s.work \in {s.work, s.disk}
            \/ \E id \in IdsForTerm(s.work, p) :
                  /\ o.id = id
                  /\ o.s.work = ReplaceByTerm(s.work, id, p, b)
<1>1. PICK t \in BeginIfNeeded(s) :
            \E id \in IdsForTerm(t.work, p) :
               o \in StoreDocument(t, ReplaceByTerm(t.work, id, p, b), id)
  BY DEF AddMsg
<1>2. /\ GoodStore(t) /\ t.badCommits = 0 /\ t.work = s.work
      /\ s.work \in Contents
  BY GoodBeginIfNeeded, KeptBegin, QuietKept DEF GoodStore, Stores
<1>3. t.disk \in {s.work, s.disk}
  BY KeptBegin DEF Kept
<1>4. PICK id \in IdsForTerm(s.work, p) :
            o \in StoreDocument(t, ReplaceByTerm(s.work, id, p, b), id)
  BY <1>1, <1>2
<1>5. id \in DocIds /\ ReplaceByTerm(s.work, id, p, b) \in Contents
  BY <1>2, ContentsIds, ContentsDocs
<1> DEFINE c == ReplaceByTerm(s.work, id, p, b)
<1> HIDE DEF c
<1>6. /\ GoodStore(o.s) /\ o.s.badCommits = 0
      /\ \/ o.id = id /\ o.s.work = c /\ o.s.disk \in {c, t.disk}
         \/ o.id = InvalidDocId /\ o.s.work = t.disk /\ o.s.disk = t.disk
  BY <1>2, <1>4, <1>5, QuietStored DEF c
<1> QED
  BY <1>3, <1>6 DEF c

\* The same when commits may throw: unless one did, or the store answers that
\* nothing was stored, the content is the one that was meant.
LEMMA AddOutcome ==
  ASSUME NEW s, GoodStore(s), NEW p \in Paths, NEW b \in Bodies,
         NEW o \in AddMsg(s, p, b)
  PROVE  /\ \/ o.id = InvalidDocId
            \/ o.s.badCommits < s.badCommits
            \/ \E id \in IdsForTerm(s.work, p) :
                  o.s.work = ReplaceByTerm(s.work, id, p, b)
         /\ o.id = InvalidDocId => o.s.badWrites < s.badWrites
         /\ \A c \in {o.s.work, o.s.disk} :
              \/ c \in {s.work, s.disk}
              \/ \E e \in {s.work, s.disk} : \E id \in IdsForTerm(e, p) :
                    c = ReplaceByTerm(e, id, p, b)
<1>1. PICK t \in BeginIfNeeded(s) :
            \E id \in IdsForTerm(t.work, p) :
               o \in StoreDocument(t, ReplaceByTerm(t.work, id, p, b), id)
  BY DEF AddMsg
<1>2. PICK id \in IdsForTerm(t.work, p) :
            o \in StoreDocument(t, ReplaceByTerm(t.work, id, p, b), id)
  BY <1>1
<1> DEFINE c == ReplaceByTerm(t.work, id, p, b)
<1>3. GoodStore(t) /\ Kept(s, t) /\ t.work \in Contents
  BY GoodBeginIfNeeded, KeptBegin DEF GoodStore, Stores
<1>4. id \in DocIds /\ c \in Contents
  BY <1>3, ContentsIds, ContentsDocs
<1>5. o \in StoreDocument(t, c, id)
  BY <1>2
<1>6. c = ReplaceByTerm(t.work, id, p, b)
  OBVIOUS
<1> HIDE DEF c
<1>7. \/ o.id = id /\ Kept([t EXCEPT !.work = c], o.s)
      \/ /\ o.id = InvalidDocId
         /\ o.s.work = t.disk /\ o.s.disk = t.disk
         /\ o.s.badWrites < t.badWrites
  BY <1>3, <1>4, <1>5, DocumentStored
<1>8. /\ s.badCommits \in Nat /\ t.badCommits \in Nat /\ o.s.badCommits \in Nat
      /\ t \in Stores
  BY <1>3, <1>4, <1>5, GoodStoreDocument DEF GoodStore, Stores
<1>9. CASE /\ o.id = InvalidDocId
           /\ o.s.work = t.disk /\ o.s.disk = t.disk
           /\ o.s.badWrites < t.badWrites
  BY <1>3, <1>9 DEF Kept
<1>10. CASE o.id = id /\ Kept([t EXCEPT !.work = c], o.s)
  <2> DEFINE w == [t EXCEPT !.work = c]
  <2>1. w.work = c /\ w.disk = t.disk /\ w.badCommits = t.badCommits
    BY <1>8 DEF Stores
  <2> HIDE DEF w
  <2>2. Kept(w, o.s)
    BY <1>10 DEF w
  <2>3. o.s.work \in {c, t.disk} /\ o.s.disk \in {c, t.disk}
    BY <2>1, <2>2 DEF Kept
  <2>4. o.s.badCommits < s.badCommits \/ (o.s.work = c /\ t.work = s.work)
    BY <1>3, <1>8, <2>1, <2>2 DEF Kept
  <2>5. t.disk \in {s.work, s.disk} /\ t.work \in {s.work, s.disk}
    BY <1>3 DEF Kept
  <2>6. o.id # InvalidDocId
    BY <1>4, <1>10, MaxDocIdAssumption DEF DocIds, InvalidDocId
  <2> QED
    BY <1>2, <1>6, <2>3, <2>4, <2>5, <2>6
<1> QED
  BY <1>7, <1>9, <1>10

LEMMA QuietUpdate ==
  ASSUME NEW s, GoodStore(s), s.badCommits = 0, NEW id \in DocIds,
         NEW p \in Paths, NEW b \in Bodies, NEW o \in UpdateMsg(s, id, p, b)
  PROVE  /\ GoodStore(o.s) /\ o.s.badCommits = 0
         /\ \/ o.id = InvalidDocId
            \/ o.id = id /\ o.s.work = ReplaceById(s.work, id, p, b)
<1>1. PICK t \in BeginIfNeeded(s) :
            o \in StoreDocument(t, ReplaceById(t.work, id, p, b), id)
  BY DEF UpdateMsg
<1>2. GoodStore(t) /\ t.badCommits = 0 /\ t.work = s.work /\ s.work \in Contents
  BY GoodBeginIfNeeded, KeptBegin, QuietKept DEF GoodStore, Stores
<1>3. ReplaceById(s.work, id, p, b) \in Contents
  BY <1>2, ContentsDocs
<1> QED
  BY <1>1, <1>2, <1>3, QuietStored

LEMMA UpdateOutcome ==
  ASSUME NEW s, GoodStore(s), NEW id \in DocIds, NEW p \in Paths,
         NEW b \in Bodies, NEW o \in UpdateMsg(s, id, p, b)
  PROVE  \A c \in {o.s.work, o.s.disk} :
           \/ c \in {s.work, s.disk}
           \/ \E e \in {s.work, s.disk} : c = ReplaceById(e, id, p, b)
<1>1. PICK t \in BeginIfNeeded(s) :
            o \in StoreDocument(t, ReplaceById(t.work, id, p, b), id)
  BY DEF UpdateMsg
<1> DEFINE c == ReplaceById(t.work, id, p, b)
<1>2. GoodStore(t) /\ Kept(s, t) /\ t.work \in Contents
  BY GoodBeginIfNeeded, KeptBegin DEF GoodStore, Stores
<1>3. c \in Contents
  BY <1>2, ContentsDocs
<1>4. o \in StoreDocument(t, c, id)
  BY <1>1
<1>5. c = ReplaceById(t.work, id, p, b)
  OBVIOUS
<1> HIDE DEF c
<1>6. \/ Kept([t EXCEPT !.work = c], o.s)
      \/ o.s.work = t.disk /\ o.s.disk = t.disk
  BY <1>2, <1>3, <1>4, DocumentStored
<1>7. t.disk \in {s.work, s.disk} /\ t.work \in {s.work, s.disk}
  BY <1>2 DEF Kept
<1>8. Kept([t EXCEPT !.work = c], o.s)
        => o.s.work \in {c, t.disk} /\ o.s.disk \in {c, t.disk}
  <2> DEFINE w == [t EXCEPT !.work = c]
  <2>1. w.work = c /\ w.disk = t.disk
    BY <1>2 DEF GoodStore, Stores
  <2> HIDE DEF w
  <2>2. Kept(w, o.s) => o.s.work \in {c, t.disk} /\ o.s.disk \in {c, t.disk}
    BY <2>1 DEF Kept
  <2> QED
    BY <2>2 DEF w
<1> QED
  BY <1>5, <1>6, <1>7, <1>8

LEMMA RemoveFrame ==
  ASSUME NEW s, GoodStore(s), NEW p, NEW o \in RemovePath(s, p)
  PROVE  /\ o.s.badCommits = s.badCommits /\ o.s.disk = s.disk
         /\ o.s.inTxn = s.inTxn
         /\ \/ /\ o.ok /\ o.s.work = DeleteByTerm(s.work, p)
               /\ o.s.badWrites = s.badWrites
            \/ /\ ~o.ok /\ o.s.work = s.disk /\ DocsAt(s.work, p) # {}
               /\ o.s.badWrites < s.badWrites
<1>1. CASE o = [s |-> IncProcessed([s EXCEPT !.work = DeleteByTerm(@, p)]),
                ok |-> TRUE]
  <2>1. DeleteByTerm(s.work, p) \in Contents
    BY DEF GoodStore, Stores, Contents, DeleteByTerm, DocsAt
  <2> QED
    BY <1>1, <2>1 DEF IncProcessed, GoodStore, Stores
<1>2. CASE /\ s.badWrites > 0 /\ DocsAt(s.work, p) # {}
           /\ o = [s |-> WriteThrew(s), ok |-> FALSE]
  <2>1. o.s = WriteThrew(s) /\ ~o.ok /\ DocsAt(s.work, p) # {}
    BY <1>2
  <2>2. LET t == WriteThrew(s)
        IN  /\ t.badCommits = s.badCommits /\ t.disk = s.disk
            /\ t.inTxn = s.inTxn /\ t.work = s.disk
            /\ t.badWrites < s.badWrites
    BY DEF WriteThrew, Discarded, GoodStore, Stores
  <2> QED
    BY <2>1, <2>2
<1> QED
  BY <1>1, <1>2 DEF RemovePath, OnlyIf

LEMMA StampFrame ==
  ASSUME NEW s, GoodStore(s), NEW d \in Dirs, NEW n \in Nat,
         NEW t \in SetTimestamp(s, d, n)
  PROVE  /\ t.badCommits = s.badCommits /\ t.disk = s.disk /\ t.inTxn = s.inTxn
         /\ t.work.docs = s.work.docs /\ t.work.last = s.work.last
         /\ t.work.version = s.work.version
         /\ t.badWrites <= s.badWrites
         /\ t.work.stamps \in {s.work.stamps, [s.work.stamps EXCEPT ![d] = n]}
<1>1. s.badWrites \in Nat
  BY DEF GoodStore, Stores
<1>2. CASE t = [s EXCEPT !.work.stamps[d] = n]
  BY <1>1, <1>2 DEF GoodStore, Stores, Contents
<1>3. CASE s.badWrites > 0 /\ t = [s EXCEPT !.badWrites = @ - 1]
  BY <1>1, <1>3 DEF GoodStore, Stores
<1> QED
  BY <1>2, <1>3 DEF SetTimestamp, OnlyIf

LEMMA OpenFrame ==
  ASSUME NEW s, s \in Stores, NEW r \in BOOLEAN, NEW t \in OpenWritable(s, r)
  PROVE  /\ t.badCommits = s.badCommits /\ t.badWrites = s.badWrites
         /\ ~t.inTxn
         /\ t.disk \in {s.disk, EmptyContent}
         /\ t.work = [t.disk EXCEPT !.version = "current"]
<1> DEFINE base == IF r THEN EmptyContent ELSE s.disk
           u == Unopened([s EXCEPT !.disk = base])
<1>1. base \in Contents /\ base \in {s.disk, EmptyContent}
  BY ContentsEmpty DEF Stores
<1>2. t = [u EXCEPT !.work.version = "current"]
  BY DEF OpenWritable, OnlyIf
<1> HIDE DEF base
<1>3. [s EXCEPT !.disk = base] \in Stores
  BY <1>1 DEF Stores
<1>4. /\ u.badCommits = s.badCommits /\ u.badWrites = s.badWrites /\ ~u.inTxn
      /\ u.disk = base /\ u.work = base /\ u \in Stores
  BY <1>1, <1>3, GoodUnopened DEF Unopened, Stores, GoodStore
<1> HIDE DEF u
<1> QED
  BY <1>1, <1>2, <1>4 DEF Stores

LEMMA UnopenedFrame ==
  ASSUME NEW s, s \in Stores
  PROVE  /\ Unopened(s).work = s.disk /\ Unopened(s).disk = s.disk
         /\ ~Unopened(s).inTxn
         /\ Unopened(s).badCommits = s.badCommits
         /\ Unopened(s).badWrites = s.badWrites
BY DEF Unopened, Stores

-----------------------------------------------------------------------------
(* Contents in which no two documents have one docid, and none has a docid *)
(* past the highest.                                                       *)

Ordered(c) == /\ \A d \in c.docs : d.id <= c.last
              /\ \A d, e \in c.docs : d.id = e.id => d = e

LEMMA OrderedEmpty == Ordered(EmptyContent)
BY DEF Ordered, EmptyContent

LEMMA OrderedVersion ==
  ASSUME NEW c \in Contents, Ordered(c), NEW v \in Versions
  PROVE  Ordered([c EXCEPT !.version = v])
BY DEF Ordered, Contents

LEMMA TermIds ==
  ASSUME NEW c \in Contents, Ordered(c), NEW p \in Paths,
         NEW id \in IdsForTerm(c, p)
  PROVE  \/ id = c.last + 1 /\ DocsAt(c, p) = {}
         \/ \E d \in DocsAt(c, p) : d.id = id
BY DEF IdsForTerm, OnlyIf

\* A new document gets a docid that no document at another path has.
LEMMA OrderedReplaceByTerm ==
  ASSUME NEW c \in Contents, Ordered(c), NEW p \in Paths, NEW b \in Bodies,
         NEW id \in IdsForTerm(c, p)
  PROVE  /\ Ordered(ReplaceByTerm(c, id, p, b))
         /\ \A d \in c.docs : d.path # p => d.id # id
<1> DEFINE r == ReplaceByTerm(c, id, p, b)
<1>1. id \in DocIds /\ c.last \in 0..MaxDocId
      /\ \A d \in c.docs : d.id \in DocIds
  BY ContentsIds DEF Contents, Docs
<1>2. \A d \in c.docs : d.path # p => d.id # id
  <2> SUFFICES ASSUME NEW d \in c.docs, d.path # p, d.id = id PROVE FALSE
    OBVIOUS
  <2>1. CASE id = c.last + 1
    <3>1. d.id <= c.last
      BY DEF Ordered
    <3> QED
      BY <1>1, <2>1, <3>1 DEF DocIds
  <2>2. CASE \E e \in DocsAt(c, p) : e.id = id
    BY <2>2 DEF Ordered, DocsAt
  <2> QED
    BY <2>1, <2>2, TermIds
<1>3. /\ r.docs = (c.docs \ DocsAt(c, p)) \cup {Doc(id, p, b)}
      /\ r.last = IF id > c.last THEN id ELSE c.last
  BY DEF ReplaceByTerm, Contents
<1>4. Doc(id, p, b).id = id
  BY DEF Doc
<1> HIDE DEF r
<1>5. \A d \in r.docs : d.id <= r.last
  <2> TAKE d \in r.docs
  <2>1. CASE d \in c.docs
    <3>1. d.id <= c.last
      BY <2>1 DEF Ordered
    <3> QED
      BY <1>1, <1>3, <2>1, <3>1, MaxDocIdAssumption DEF DocIds
  <2>2. CASE d = Doc(id, p, b)
    BY <1>1, <1>3, <1>4, <2>2, MaxDocIdAssumption DEF DocIds
  <2> QED
    BY <1>3, <2>1, <2>2
<1>6. \A d \in r.docs : d = Doc(id, p, b) \/ (d \in c.docs /\ d.id # id)
  BY <1>2, <1>3 DEF DocsAt
<1>7. \A d, e \in r.docs : d.id = e.id => d = e
  BY <1>4, <1>6 DEF Ordered
<1> QED
  BY <1>2, <1>5, <1>7 DEF Ordered, r

LEMMA OrderedReplaceById ==
  ASSUME NEW c \in Contents, Ordered(c), NEW p \in Paths, NEW b \in Bodies,
         NEW id \in DocIds
  PROVE  Ordered(ReplaceById(c, id, p, b))
<1> DEFINE r == ReplaceById(c, id, p, b)
<1>1. c.last \in 0..MaxDocId /\ \A d \in c.docs : d.id \in DocIds
  BY DEF Contents, Docs
<1>2. /\ r.docs = {d \in c.docs : d.id # id} \cup {Doc(id, p, b)}
      /\ r.last = IF id > c.last THEN id ELSE c.last
  BY DEF ReplaceById, Contents
<1>3. Doc(id, p, b).id = id
  BY DEF Doc
<1> HIDE DEF r
<1>4. \A d \in r.docs : d.id <= r.last
  <2> TAKE d \in r.docs
  <2>1. CASE d \in c.docs
    <3>1. d.id <= c.last
      BY <2>1 DEF Ordered
    <3> QED
      BY <1>1, <1>2, <2>1, <3>1, MaxDocIdAssumption DEF DocIds
  <2>2. CASE d = Doc(id, p, b)
    BY <1>1, <1>2, <1>3, <2>2, MaxDocIdAssumption DEF DocIds
  <2> QED
    BY <1>2, <2>1, <2>2
<1>5. \A d, e \in r.docs : d.id = e.id => d = e
  BY <1>2, <1>3 DEF Ordered
<1> QED
  BY <1>4, <1>5 DEF Ordered, r

OrderedStore(s) == Ordered(s.work) /\ Ordered(s.disk)

LEMMA OrderedKept ==
  ASSUME NEW s, OrderedStore(s), NEW t, Kept(s, t)
  PROVE  OrderedStore(t)
BY DEF OrderedStore, Kept

\* What storing a document does to a store: all is kept but the document,
\* or else something threw.
Throws(s, t) ==
  /\ t.badWrites <= s.badWrites /\ t.badCommits <= s.badCommits
  /\ t.badWrites < s.badWrites \/ t.badCommits < s.badCommits

LEMMA OrderedStored ==
  ASSUME NEW s, GoodStore(s), OrderedStore(s),
         NEW t \in BeginIfNeeded(s), NEW c \in Contents, Ordered(c),
         NEW id \in DocIds, NEW o \in StoreDocument(t, c, id)
  PROVE  /\ OrderedStore(o.s)
         /\ \/ Throws(s, o.s)
            \/ /\ t.work = s.work /\ o.id = id /\ o.s.work = c
               /\ o.s.badWrites = s.badWrites
               /\ o.s.badCommits = s.badCommits
<1> DEFINE w == [t EXCEPT !.work = c]
<1>1. GoodStore(t) /\ Kept(s, t) /\ OrderedStore(t)
  BY GoodBeginIfNeeded, KeptBegin, OrderedKept
<1>2. /\ GoodStore(w) /\ OrderedStore(w) /\ w.work = c /\ w.disk = t.disk
      /\ w.badWrites = t.badWrites /\ w.badCommits = t.badCommits
  BY <1>1, GoodWork DEF GoodStore, Stores, OrderedStore
<1>3. GoodStore(o.s)
  BY <1>1, GoodStoreDocument
<1>4. /\ s.badWrites \in Nat /\ t.badWrites \in Nat /\ o.s.badWrites \in Nat
      /\ s.badCommits \in Nat /\ t.badCommits \in Nat /\ o.s.badCommits \in Nat
  BY <1>1, <1>3 DEF GoodStore, Stores
<1>5. \/ o.id = id /\ Kept(w, o.s)
      \/ /\ o.s.work = t.disk /\ o.s.disk = t.disk
         /\ o.s.badWrites < t.badWrites /\ o.s.badCommits = t.badCommits
  BY <1>1, DocumentStored
<1> HIDE DEF w
<1>6. CASE o.id = id /\ Kept(w, o.s)
  <2>1. OrderedStore(o.s)
    BY <1>2, <1>6, OrderedKept
  <2>2. CASE o.s.badCommits = s.badCommits
    BY <1>1, <1>2, <1>4, <1>6, <2>1, <2>2 DEF Kept
  <2>3. CASE o.s.badCommits # s.badCommits
    BY <1>1, <1>2, <1>4, <1>6, <2>1, <2>3 DEF Kept, Throws
  <2> QED
    BY <2>2, <2>3
<1>7. CASE /\ o.s.work = t.disk /\ o.s.disk = t.disk
           /\ o.s.badWrites < t.badWrites /\ o.s.badCommits = t.badCommits
  BY <1>1, <1>4, <1>7 DEF Kept, Throws, OrderedStore
<1> QED
  BY <1>5, <1>6, <1>7

LEMMA OrderedDelete ==
  ASSUME NEW c \in Contents, Ordered(c), NEW p \in Paths
  PROVE  Ordered(DeleteByTerm(c, p))
BY DEF Ordered, DeleteByTerm, Contents

-----------------------------------------------------------------------------
(* Storing a document while no commit throws: either a write threw, or the *)
(* content is the one that was meant.                                      *)

LEMMA OrderedAdd ==
  ASSUME NEW s, GoodStore(s), s.badCommits = 0, OrderedStore(s),
         NEW p \in Paths, NEW b \in Bodies, NEW o \in AddMsg(s, p, b)
  PROVE  /\ OrderedStore(o.s) /\ o.s.badWrites <= s.badWrites
         /\ \/ o.s.badWrites < s.badWrites
            \/ \E id \in IdsForTerm(s.work, p) :
                  o.s.work = ReplaceByTerm(s.work, id, p, b)
<1>1. PICK t \in BeginIfNeeded(s) :
             \E id \in IdsForTerm(t.work, p) :
                o \in StoreDocument(t, ReplaceByTerm(t.work, id, p, b), id)
  BY DEF AddMsg
<1> PICK id \in IdsForTerm(t.work, p) :
             o \in StoreDocument(t, ReplaceByTerm(t.work, id, p, b), id)
  BY <1>1
<1>2. GoodStore(t) /\ OrderedStore(t) /\ t.work \in Contents
  BY GoodBeginIfNeeded, KeptBegin, OrderedKept DEF GoodStore, Stores
<1>3. id \in DocIds
  BY <1>2, ContentsIds
<1>4. ReplaceByTerm(t.work, id, p, b) \in Contents
  BY <1>2, <1>3, ContentsDocs
<1>5. Ordered(ReplaceByTerm(t.work, id, p, b))
  BY <1>2, OrderedReplaceByTerm DEF OrderedStore
<1>6. /\ OrderedStore(o.s)
      /\ \/ Throws(s, o.s)
         \/ /\ t.work = s.work /\ o.id = id
            /\ o.s.work = ReplaceByTerm(t.work, id, p, b)
            /\ o.s.badWrites = s.badWrites
  BY <1>1, <1>3, <1>4, <1>5, OrderedStored
<1>7. s.badWrites \in Nat /\ o.s.badCommits \in Nat
  BY GoodAddMsg DEF GoodStore, Stores
<1> QED
  BY <1>1, <1>6, <1>7 DEF Throws

LEMMA OrderedUpdate ==
  ASSUME NEW s, GoodStore(s), s.badCommits = 0, OrderedStore(s),
         NEW id \in DocIds, NEW p \in Paths, NEW b \in Bodies,
         NEW o \in UpdateMsg(s, id, p, b)
  PROVE  /\ OrderedStore(o.s) /\ o.s.badWrites <= s.badWrites
         /\ \/ o.s.badWrites < s.badWrites
            \/ o.s.work = ReplaceById(s.work, id, p, b)
<1>1. PICK t \in BeginIfNeeded(s) :
             o \in StoreDocument(t, ReplaceById(t.work, id, p, b), id)
  BY DEF UpdateMsg
<1>2. GoodStore(t) /\ OrderedStore(t) /\ t.work \in Contents
  BY GoodBeginIfNeeded, KeptBegin, OrderedKept DEF GoodStore, Stores
<1>3. ReplaceById(t.work, id, p, b) \in Contents
  BY <1>2, ContentsDocs
<1>4. Ordered(ReplaceById(t.work, id, p, b))
  BY <1>2, OrderedReplaceById DEF OrderedStore
<1>5. /\ OrderedStore(o.s)
      /\ \/ Throws(s, o.s)
         \/ /\ t.work = s.work /\ o.id = id
            /\ o.s.work = ReplaceById(t.work, id, p, b)
            /\ o.s.badWrites = s.badWrites
  BY <1>1, <1>3, <1>4, OrderedStored
<1>6. s.badWrites \in Nat /\ o.s.badCommits \in Nat
  BY GoodUpdateMsg DEF GoodStore, Stores
<1> QED
  BY <1>5, <1>6 DEF Throws

=============================================================================
