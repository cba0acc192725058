-------------------------- MODULE MuContactsProofs ---------------------------
(***************************************************************************)
(* Proofs about MuStore for every batch size, every number of messages and *)
(* every number of Xapian failures, and that the store keeps its promises  *)
(* when it feeds the contacts cache (MuContacts): the composition adds one *)
(* way to change the store, a constructor that throws because the cache    *)
(* file is broken, after it has overwritten the database.                  *)
(***************************************************************************)
EXTENDS MuContacts, MuStoreOpsProofs, FiniteSetTheorems

-----------------------------------------------------------------------------
(* The inductive invariant.  TxnFlagsAgree is not inductive without the    *)
(* types; TypeOK is, but the flush needs both.                             *)

IInv == TypeOK /\ TxnFlagsAgree

LEMMA IInvGood == IInv => GoodStore(store)
BY DEF IInv, TypeOK, TxnFlagsAgree, GoodStore

LEMMA GoodIInv ==
  ASSUME GoodStore(store)',
         isOpen' \in BOOLEAN,
         ret' \in [call : Calls, id : 0..MaxDocId, path : Paths \cup {NoPath}],
         told' \in [DocIds -> SUBSET Paths],
         unsaved' \in Nat
  PROVE  IInv'
BY DEF IInv, TypeOK, TxnFlagsAgree, GoodStore

LEMMA ReturnedType ==
  ASSUME NEW call \in Calls, NEW id \in 0..MaxDocId,
         NEW p \in Paths \cup {NoPath}
  PROVE  Returned(call, id, p)
           \in [call : Calls, id : 0..MaxDocId, path : Paths \cup {NoPath}]
BY DEF Returned

LEMMA InitIInv == Init => IInv
<1> SUFFICES ASSUME Init PROVE IInv
  OBVIOUS
<1>1. PICK c \in FirstDisk :
            store = [work |-> c, disk |-> c, xtxn |-> FALSE, inTxn |-> FALSE,
                     processed |-> 0, badWrites |-> WriteFaults,
                     badCommits |-> CommitFaults]
  BY DEF Init
<1>2. c \in Contents
  BY ContentsEmpty DEF FirstDisk
<1>3. 0 \in 0..(BatchSize - 1)
  BY BatchSizeAssumption
<1>4. store \in Stores /\ store.inTxn = store.xtxn
  BY <1>1, <1>2, <1>3, FaultsAssumption DEF Stores
<1>5. /\ isOpen \in BOOLEAN
      /\ ret \in [call : Calls, id : 0..MaxDocId, path : Paths \cup {NoPath}]
      /\ told \in [DocIds -> SUBSET Paths]
      /\ unsaved \in Nat
  <2>1. Returned("close", 0, NoPath)
          \in [call : Calls, id : 0..MaxDocId, path : Paths \cup {NoPath}]
    BY MaxDocIdAssumption, ReturnedType DEF Calls
  <2>2. NothingTold \in [DocIds -> SUBSET Paths]
    BY DEF NothingTold
  <2> QED
    BY <2>1, <2>2 DEF Init
<1> QED
  BY <1>4, <1>5 DEF IInv, TypeOK, TxnFlagsAgree

LEMMA StepIInv == IInv /\ [Next]_vars => IInv'
<1> SUFFICES ASSUME IInv, [Next]_vars PROVE IInv'
  OBVIOUS
<1>1. GoodStore(store) /\ store \in Stores
  BY IInvGood DEF GoodStore
<1>2. /\ isOpen \in BOOLEAN
      /\ ret \in [call : Calls, id : 0..MaxDocId, path : Paths \cup {NoPath}]
      /\ told \in [DocIds -> SUBSET Paths]
      /\ unsaved \in Nat
  BY DEF IInv, TypeOK
<1>3. 0 \in 0..MaxDocId /\ NoPath \in Paths \cup {NoPath}
  BY MaxDocIdAssumption
<1>4. ASSUME NEW call \in Calls
      PROVE  Returned(call, 0, NoPath)
               \in [call : Calls, id : 0..MaxDocId, path : Paths \cup {NoPath}]
  BY <1>3, ReturnedType
<1>5. ASSUME NEW r \in BOOLEAN, Open(r) PROVE IInv'
  <2>1. CASE OpenWritable(store, r) = {}
    <3>1. ret' = Returned("refused", 0, NoPath)
          /\ UNCHANGED <<store, isOpen, told, unsaved>>
      BY <1>5, <2>1 DEF Open
    <3>2. GoodStore(store)'
      BY <1>1, <3>1 DEF GoodStore
    <3> QED
      BY <1>2, <1>4, <3>1, <3>2, GoodIInv DEF Calls
  <2>2. CASE OpenWritable(store, r) # {}
    <3>1. /\ store' \in OpenWritable(store, r)
          /\ isOpen' = TRUE
          /\ ret' = Returned("open", 0, NoPath)
          /\ told' = NothingTold
          /\ unsaved' = 0
      BY <1>5, <2>2 DEF Open
    <3>2. GoodStore(store')
      BY <1>1, <3>1, GoodOpenWritable
    <3>3. told' \in [DocIds -> SUBSET Paths]
      BY <3>1 DEF NothingTold
    <3> QED
      BY <1>4, <3>1, <3>2, <3>3, GoodIInv DEF Calls, GoodStore
  <2> QED
    BY <2>1, <2>2
<1>6. ASSUME NEW p \in Paths, NEW b \in Bodies, Add(p, b) PROVE IInv'
  <2>1. PICK o \in AddMsg(store, p, b) :
              /\ store' = o.s
              /\ ret' = Returned("add", o.id, p)
              /\ told' = IF o.id = InvalidDocId THEN told
                         ELSE [told EXCEPT ![o.id] = @ \cup {p}]
              /\ CountStored(o.s)
    BY <1>6 DEF Add
  <2>2. GoodStore(o.s) /\ o.id \in 0..MaxDocId
    BY <1>1, GoodAddMsg
  <2>3. told' \in [DocIds -> SUBSET Paths]
    BY <1>2, <2>1, <2>2 DEF DocIds, InvalidDocId
  <2>4. unsaved' \in Nat
    BY <1>2, <2>1 DEF CountStored
  <2>5. ret' \in [call : Calls, id : 0..MaxDocId, path : Paths \cup {NoPath}]
    BY <2>1, <2>2, ReturnedType DEF Calls
  <2> QED
    BY <1>2, <1>6, <2>1, <2>2, <2>3, <2>4, <2>5, GoodIInv DEF Add, GoodStore
<1>7. ASSUME NEW id \in DocIds, NEW p \in Paths, NEW b \in Bodies,
             Update(id, p, b)
      PROVE  IInv'
  <2>1. PICK o \in UpdateMsg(store, id, p, b) :
              /\ store' = o.s
              /\ ret' = Returned("update", o.id, p)
              /\ told' = IF o.id = InvalidDocId THEN told
                         ELSE [told EXCEPT ![id] = {p}]
              /\ CountStored(o.s)
    BY <1>7 DEF Update
  <2>2. GoodStore(o.s) /\ o.id \in 0..MaxDocId
    BY <1>1, GoodUpdateMsg
  <2>3. told' \in [DocIds -> SUBSET Paths]
    BY <1>2, <2>1 DEF DocIds
  <2>4. unsaved' \in Nat
    BY <1>2, <2>1 DEF CountStored
  <2>5. ret' \in [call : Calls, id : 0..MaxDocId, path : Paths \cup {NoPath}]
    BY <2>1, <2>2, ReturnedType DEF Calls
  <2> QED
    BY <1>2, <1>7, <2>1, <2>2, <2>3, <2>4, <2>5, GoodIInv DEF Update, GoodStore
<1>8. ASSUME NEW p \in Paths, Remove(p) PROVE IInv'
  <2>1. PICK o \in RemovePath(store, p) :
              /\ store' = o.s
              /\ ret' = Returned("remove", 0, IF o.ok THEN p ELSE NoPath)
              /\ unsaved' = 0
    BY <1>8 DEF Remove
  <2>2. GoodStore(o.s)
    BY <1>1, GoodRemovePath
  <2>3. ret' \in [call : Calls, id : 0..MaxDocId, path : Paths \cup {NoPath}]
    BY <1>3, <2>1, ReturnedType DEF Calls
  <2> QED
    BY <1>2, <1>8, <2>1, <2>2, <2>3, GoodIInv DEF Remove, GoodStore
<1>9. ASSUME NEW d \in Dirs, NEW n \in 0..MaxStamp, Stamp(d, n) PROVE IInv'
  <2>1. GoodStore(store')
    BY <1>1, <1>9, BoundsAssumption, GoodSetTimestamp DEF Stamp
  <2> QED
    BY <1>2, <1>4, <1>9, <2>1, GoodIInv DEF Stamp, Calls, GoodStore
<1>10. ASSUME Flush PROVE IInv'
  <2>1. GoodStore(store')
    BY <1>1, <1>10, GoodFlush DEF Flush
  <2> QED
    BY <1>2, <1>4, <1>10, <2>1, GoodIInv DEF Flush, Calls, GoodStore
<1>11. ASSUME Close PROVE IInv'
  <2>1. GoodStore(store')
    BY <1>1, <1>11, GoodFlush, GoodUnopened DEF Close, GoodStore
  <2> QED
    BY <1>2, <1>4, <1>11, <2>1, GoodIInv DEF Close, Calls, GoodStore
<1>12. ASSUME Crash PROVE IInv'
  <2>1. GoodStore(store')
    BY <1>1, <1>12, GoodUnopened DEF Crash
  <2> QED
    BY <1>2, <1>4, <1>12, <2>1, GoodIInv DEF Crash, Calls, GoodStore
<1>13. CASE UNCHANGED vars
  BY <1>13 DEF vars, IInv, TypeOK, TxnFlagsAgree
<1> QED
  BY <1>5, <1>6, <1>7, <1>8, <1>9, <1>10, <1>11, <1>12, <1>13 DEF Next

\* Every reachable state of the store has the declared types, whatever the
\* batch size and however often Xapian throws.
THEOREM TypeCorrect == Spec => []TypeOK
<1>1. IInv => TypeOK
  BY DEF IInv
<1> QED
  BY InitIInv, StepIInv, <1>1, PTL DEF Spec

\* _in_transaction always agrees with Xapian (mu-store-write.cc:42-66).
THEOREM TransactionFlagsAgree == Spec => []TxnFlagsAgree
<1>1. IInv => TxnFlagsAgree
  BY DEF IInv
<1> QED
  BY InitIInv, StepIInv, <1>1, PTL DEF Spec

-----------------------------------------------------------------------------
(* What a flush leaves on disk.                                            *)

Durable ==
  ret'.call \in {"flush", "close"} /\ store'.badCommits = store.badCommits
    => store'.disk = store.work

LEMMA StepDurable == IInv /\ [Next]_vars => [Durable]_vars
<1> SUFFICES ASSUME IInv, Next PROVE Durable
  OBVIOUS
<1> SUFFICES ASSUME ret'.call \in {"flush", "close"},
                    store'.badCommits = store.badCommits
             PROVE  store'.disk = store.work
  BY DEF Durable
<1>1. GoodStore(store)
  BY IInvGood
<1>2. CASE Flush
  BY <1>1, <1>2, FlushDurable DEF Flush
<1>3. CASE Close
  <2>1. PICK s \in StoreFlush(store) : store' = Unopened(s)
    BY <1>3 DEF Close
  <2>2. GoodStore(s)
    BY <1>1, GoodFlush
  <2>3. store'.disk = s.disk /\ store'.badCommits = s.badCommits
    BY <2>1, <2>2 DEF Unopened, GoodStore, Stores
  <2> QED
    BY <1>1, <2>3, FlushDurable
<1>4. CASE \E r \in BOOLEAN : Open(r)
  BY <1>4 DEF Open, Returned
<1>5. CASE \E p \in Paths, b \in Bodies : Add(p, b)
  BY <1>5 DEF Add, Returned
<1>6. CASE \E id \in DocIds, p \in Paths, b \in Bodies : Update(id, p, b)
  BY <1>6 DEF Update, Returned
<1>7. CASE \E p \in Paths : Remove(p)
  BY <1>7 DEF Remove, Returned
<1>8. CASE \E d \in Dirs, n \in 0..MaxStamp : Stamp(d, n)
  BY <1>8 DEF Stamp, Returned
<1>9. CASE Crash
  BY <1>9 DEF Crash, Returned
<1> QED
  BY <1>2, <1>3, <1>4, <1>5, <1>6, <1>7, <1>8, <1>9 DEF Next

\* A flush, or the destructor, leaves all this process saw on disk unless
\* the commit threw (mu-store-write.cc:189-200, mu-store-priv.hh:132-150).
THEOREM FlushMakesDurable == Spec => FlushIsDurable
BY InitIInv, StepIInv, StepDurable, PTL DEF Spec, FlushIsDurable, Durable

-----------------------------------------------------------------------------
(* How much an open transaction can hold.  The strengthening: since the    *)
(* last commit or removal no more messages were stored than processed      *)
(* since the last full batch.                                              *)

BatchInv == unsaved <= store.processed

LEMMA CountedBatch ==
  ASSUME IInv, BatchInv, NEW t \in BeginIfNeeded(store),
         NEW c \in Contents, NEW id \in DocIds,
         NEW o \in StoreDocument(t, c, id), CountStored(o.s), store' = o.s
  PROVE  unsaved' <= store'.processed
<1>1. GoodStore(store) /\ GoodStore(t) /\ t.processed = store.processed
  BY IInvGood, GoodBeginIfNeeded, BeginFrame DEF GoodStore
<1>2. GoodStore(o.s)
  BY <1>1, GoodStoreDocument
<1>3. o.s.processed \in 0..(BatchSize - 1) /\ store.processed \in 0..(BatchSize - 1)
  BY <1>1, <1>2 DEF GoodStore, Stores
<1>4. unsaved \in Nat /\ unsaved <= store.processed
  BY DEF IInv, TypeOK, BatchInv
<1>5. CASE ~o.s.inTxn
  BY <1>3, <1>5, BatchSizeAssumption DEF CountStored
<1>6. CASE o.s.inTxn
  <2>1. o.s.processed = store.processed + 1
    BY <1>1, <1>6, StoreDocumentFrame
  <2> QED
    BY <1>3, <1>4, <1>6, <2>1, BatchSizeAssumption DEF CountStored
<1> QED
  BY <1>5, <1>6

LEMMA StepBatchInv == IInv /\ BatchInv /\ [Next]_vars => BatchInv'
<1> SUFFICES ASSUME IInv, BatchInv, [Next]_vars
             PROVE  unsaved' <= store'.processed
  BY DEF BatchInv
<1>1. GoodStore(store) /\ unsaved <= store.processed
  BY IInvGood DEF BatchInv
<1>2. GoodStore(store')
  BY StepIInv, IInvGood DEF IInv, TypeOK, TxnFlagsAgree, GoodStore
<1>3. store.processed \in 0..(BatchSize - 1) /\ store'.processed \in 0..(BatchSize - 1)
  BY <1>1, <1>2 DEF GoodStore, Stores
<1>4. unsaved' = 0 => unsaved' <= store'.processed
  BY <1>3, BatchSizeAssumption
<1>5. UNCHANGED <<store, unsaved>> => unsaved' <= store'.processed
  BY <1>1
<1>6. ASSUME NEW p \in Paths, NEW b \in Bodies, Add(p, b)
      PROVE  unsaved' <= store'.processed
  <2>1. PICK o \in AddMsg(store, p, b) : store' = o.s /\ CountStored(o.s)
    BY <1>6 DEF Add
  <2>2. PICK t \in BeginIfNeeded(store) :
              \E id \in IdsForTerm(t.work, p) :
                 o \in StoreDocument(t, ReplaceByTerm(t.work, id, p, b), id)
    BY DEF AddMsg
  <2>3. PICK id \in IdsForTerm(t.work, p) :
              o \in StoreDocument(t, ReplaceByTerm(t.work, id, p, b), id)
    BY <2>2
  <2>4. t.work \in Contents
    BY <1>1, GoodBeginIfNeeded DEF GoodStore, Stores
  <2>5. id \in DocIds /\ ReplaceByTerm(t.work, id, p, b) \in Contents
    BY <2>4, ContentsIds, ContentsDocs
  <2> QED
    BY <2>1, <2>3, <2>5, CountedBatch
<1>7. ASSUME NEW id \in DocIds, NEW p \in Paths, NEW b \in Bodies,
             Update(id, p, b)
      PROVE  unsaved' <= store'.processed
  <2>1. PICK o \in UpdateMsg(store, id, p, b) : store' = o.s /\ CountStored(o.s)
    BY <1>7 DEF Update
  <2>2. PICK t \in BeginIfNeeded(store) :
              o \in StoreDocument(t, ReplaceById(t.work, id, p, b), id)
    BY DEF UpdateMsg
  <2>3. t.work \in Contents
    BY <1>1, GoodBeginIfNeeded DEF GoodStore, Stores
  <2>4. ReplaceById(t.work, id, p, b) \in Contents
    BY <2>3, ContentsDocs
  <2> QED
    BY <2>1, <2>2, <2>4, CountedBatch
<1>8. ASSUME NEW d \in Dirs, NEW n \in 0..MaxStamp, Stamp(d, n)
      PROVE  unsaved' <= store'.processed
  <2>1. store'.processed = store.processed
    BY <1>1, <1>8 DEF Stamp, SetTimestamp, OnlyIf, GoodStore, Stores
  <2> QED
    BY <1>1, <1>8, <2>1 DEF Stamp
<1>9. ASSUME NEW r \in BOOLEAN, Open(r) PROVE unsaved' <= store'.processed
  BY <1>4, <1>5, <1>9 DEF Open
<1> QED
  BY <1>4, <1>5, <1>6, <1>7, <1>8, <1>9
     DEF Next, Remove, Flush, Close, Crash, vars

\* Between two removals the open transaction never grows by a whole batch, for
\* every batch size and also when Xapian throws (mu-store-write.cc:690-701): a
\* crash costs a process that only adds less than one batch.
THEOREM BatchBounded == Spec => []BatchIsBounded
<1>1. IInv /\ BatchInv => BatchIsBounded
  BY BatchSizeAssumption
     DEF IInv, TypeOK, Stores, BatchInv, BatchIsBounded
<1>2. Init => BatchInv
  BY DEF Init, BatchInv
<1> QED
  BY InitIInv, StepIInv, <1>1, <1>2, StepBatchInv, PTL DEF Spec

-----------------------------------------------------------------------------
(* No document is lost silently.                                           *)

NoBadCommits == store.badCommits = 0

LEMMA StepNoBadCommits == IInv /\ NoBadCommits /\ [Next]_vars => NoBadCommits'
<1> SUFFICES ASSUME IInv, NoBadCommits, [Next]_vars PROVE store'.badCommits = 0
  BY DEF NoBadCommits
<1>1. GoodStore(store) /\ store \in Stores /\ store.badCommits = 0
  BY IInvGood DEF NoBadCommits, GoodStore
<1>2. ASSUME NEW r \in BOOLEAN, Open(r) PROVE store'.badCommits = 0
  BY <1>1, <1>2, OpenFrame DEF Open
<1>3. ASSUME NEW p \in Paths, NEW b \in Bodies, Add(p, b)
      PROVE  store'.badCommits = 0
  BY <1>1, <1>3, QuietAdd DEF Add
<1>4. ASSUME NEW id \in DocIds, NEW p \in Paths, NEW b \in Bodies,
             Update(id, p, b)
      PROVE  store'.badCommits = 0
  BY <1>1, <1>4, QuietUpdate DEF Update
<1>5. ASSUME NEW p \in Paths, Remove(p) PROVE store'.badCommits = 0
  BY <1>1, <1>5, RemoveFrame DEF Remove
<1>6. ASSUME NEW d \in Dirs, NEW n \in 0..MaxStamp, Stamp(d, n)
      PROVE  store'.badCommits = 0
  BY <1>1, <1>6, StampFrame, BoundsAssumption DEF Stamp
<1>7. CASE Flush
  BY <1>1, <1>7, QuietFlush DEF Flush
<1>8. CASE Close
  <2>1. PICK s \in StoreFlush(store) : store' = Unopened(s)
    BY <1>8 DEF Close
  <2> QED
    BY <1>1, <2>1, QuietFlush, UnopenedFrame DEF GoodStore
<1>9. CASE Crash
  BY <1>1, <1>9, UnopenedFrame DEF Crash
<1>10. CASE UNCHANGED vars
  BY <1>1, <1>10 DEF vars
<1> QED
  BY <1>2, <1>3, <1>4, <1>5, <1>6, <1>7, <1>8, <1>9, <1>10 DEF Next

\* As long as no commit throws, a message that can no longer be found was
\* removed, moved or reported as failed (mu-store-write.cc:671-703, 707-744, 771-799):
\* a write that throws costs the rest of its batch, and its caller learns it.
THEOREM LossReported == CommitFaults = 0 /\ Spec => LossIsReported
<1> DEFINE Lossless ==
             \A d \in store.work.docs :
               DocsAt(store'.work, d.path) = {} => Reported(d)
<1>1. IInv /\ NoBadCommits /\ [Next]_vars => [Lossless]_vars
  <2> SUFFICES ASSUME IInv, NoBadCommits, Next,
                      NEW d \in store.work.docs,
                      DocsAt(store'.work, d.path) = {}
               PROVE  Reported(d)
    OBVIOUS
  <2>1. /\ GoodStore(store) /\ store \in Stores /\ store.badCommits = 0
        /\ d.id \in DocIds /\ d.path \in Paths
    BY IInvGood DEF NoBadCommits, GoodStore, Stores, Contents, Docs
  <2>2. d \notin store'.work.docs
    BY DEF DocsAt
  <2>3. ASSUME NEW r \in BOOLEAN, Open(r) PROVE Reported(d)
    BY <2>2, <2>3 DEF Open, Reported, Returned
  <2>4. ASSUME NEW p \in Paths, NEW b \in Bodies, Add(p, b) PROVE Reported(d)
    <3>1. PICK o \in AddMsg(store, p, b) :
                store' = o.s /\ ret' = Returned("add", o.id, p)
      BY <2>4 DEF Add
    <3>2. CASE o.id = InvalidDocId
      BY <3>1, <3>2 DEF Reported, Returned
    <3>3. CASE o.s.work.docs = (store.work.docs \ DocsAt(store.work, p))
                                  \cup {Doc(o.id, p, b)}
      <4>1. d.path = p
        BY <2>2, <3>1, <3>3 DEF DocsAt
      <4>2. Doc(o.id, p, b) \in DocsAt(store'.work, d.path)
        BY <3>1, <3>3, <4>1 DEF DocsAt, Doc
      <4> QED
        BY <4>2
    <3>4. o.id # InvalidDocId =>
            o.s.work.docs = (store.work.docs \ DocsAt(store.work, p))
                               \cup {Doc(o.id, p, b)}
      <4> SUFFICES ASSUME o.id # InvalidDocId
                   PROVE  o.s.work.docs =
                            (store.work.docs \ DocsAt(store.work, p))
                               \cup {Doc(o.id, p, b)}
        OBVIOUS
      <4>1. o.s.work = ReplaceByTerm(store.work, o.id, p, b)
        BY <2>1, QuietAdd
      <4>2. store.work \in Contents
        BY <2>1 DEF Stores
      <4> QED
        BY <4>1, <4>2 DEF ReplaceByTerm, Contents
    <3> QED
      BY <3>2, <3>3, <3>4
  <2>5. ASSUME NEW id \in DocIds, NEW p \in Paths, NEW b \in Bodies,
               Update(id, p, b)
        PROVE  Reported(d)
    <3>1. PICK o \in UpdateMsg(store, id, p, b) :
                store' = o.s /\ ret' = Returned("update", o.id, p)
      BY <2>5 DEF Update
    <3>2. CASE o.id = InvalidDocId
      BY <3>1, <3>2 DEF Reported, Returned
    <3>3. CASE o.id = id /\ o.s.work = ReplaceById(store.work, id, p, b)
      <4>1. store.work \in Contents
        BY <2>1 DEF Stores
      <4>2. d.id = id
        BY <2>2, <3>1, <3>3, <4>1 DEF ReplaceById, Contents
      <4> QED
        BY <3>1, <3>3, <4>2 DEF Reported, Returned
    <3> QED
      BY <2>1, <3>2, <3>3, QuietUpdate
  <2>6. ASSUME NEW p \in Paths, Remove(p) PROVE Reported(d)
    <3>1. PICK o \in RemovePath(store, p) :
                /\ store' = o.s
                /\ ret' = Returned("remove", 0, IF o.ok THEN p ELSE NoPath)
      BY <2>6 DEF Remove
    <3>2. CASE ~o.ok
      BY <3>1, <3>2 DEF Reported, Returned
    <3>3. CASE o.ok
      <4>1. o.s.work = DeleteByTerm(store.work, p) /\ store.work \in Contents
        BY <2>1, <3>3, RemoveFrame DEF Stores
      <4>2. d.path = p
        BY <2>2, <3>1, <4>1 DEF DeleteByTerm, DocsAt, Contents
      <4> QED
        BY <3>1, <3>3, <4>2 DEF Reported, Returned
    <3> QED
      BY <3>2, <3>3
  <2>7. ASSUME NEW e \in Dirs, NEW n \in 0..MaxStamp, Stamp(e, n)
        PROVE  Reported(d)
    BY <2>1, <2>2, <2>7, StampFrame, BoundsAssumption DEF Stamp
  <2>8. CASE Flush
    BY <2>1, <2>2, <2>8, QuietFlush DEF Flush
  <2>9. CASE Close
    <3>1. PICK s \in StoreFlush(store) : store' = Unopened(s)
      BY <2>9 DEF Close
    <3>2. s \in Stores /\ s.disk = store.work
      BY <2>1, <3>1, QuietFlush DEF GoodStore
    <3> QED
      BY <2>2, <3>1, <3>2, UnopenedFrame
  <2>10. CASE Crash
    BY <2>10 DEF Crash, Reported, Returned
  <2> QED
    BY <2>3, <2>4, <2>5, <2>6, <2>7, <2>8, <2>9, <2>10 DEF Next
<1>2. CommitFaults = 0 /\ Init => NoBadCommits
  BY DEF Init, NoBadCommits
<1> QED
  BY InitIInv, StepIInv, StepNoBadCommits, <1>1, <1>2, PTL
     DEF Spec, LossIsReported

-----------------------------------------------------------------------------
(* What is durable can be read.  The strengthening: until the first begin  *)
(* has put the version on disk, there are no documents, and no transaction *)
(* for documents to come.                                                  *)

ReadableInv ==
  /\ isOpen => store.work.version = "current"
  /\ \/ store.disk.version = "current"
     \/ /\ store.disk.docs = {}
        /\ isOpen => ~store.inTxn /\ store.work.docs = {}

\* A message is only stored in a transaction, and beginning one commits the
\* version.
LEMMA BegunIsReadable ==
  ASSUME NEW s, GoodStore(s), s.badCommits = 0, s.work.version = "current",
         s.inTxn => s.disk.version = "current",
         NEW t \in BeginIfNeeded(s)
  PROVE  GoodStore(t) /\ t.badCommits = 0 /\ t.work = s.work
         /\ t.disk.version = "current"
<1>1. GoodStore(t) /\ t.badCommits = 0 /\ t.work = s.work
  BY GoodBeginIfNeeded, KeptBegin, QuietKept
<1>2. CASE s.inTxn
  BY <1>1, <1>2 DEF BeginIfNeeded
<1>3. CASE ~s.inTxn
  <2>1. t \in BeginTransaction(s) /\ ~s.xtxn
    BY <1>3 DEF BeginIfNeeded, GoodStore
  <2>2. XapianBegin(s) = {[t |-> [[s EXCEPT !.disk = s.work] EXCEPT !.xtxn = TRUE],
                           threw |-> FALSE]}
    BY DEF XapianBegin, OnlyIf
  <2> DEFINE b == [[s EXCEPT !.disk = s.work] EXCEPT !.xtxn = TRUE]
  <2>3. t = [b EXCEPT !.inTxn = TRUE]
    <3> HIDE DEF b
    <3>1. \A o \in XapianBegin(s) : o = [t |-> b, threw |-> FALSE]
      BY <2>2 DEF b
    <3> QED
      BY <2>1, <3>1 DEF BeginTransaction
  <2> QED
    BY <1>1, <2>3 DEF GoodStore, Stores
<1> QED
  BY <1>2, <1>3

LEMMA StoredIsReadable ==
  ASSUME NEW s, GoodStore(s), s.badCommits = 0, s.work.version = "current",
         s.inTxn => s.disk.version = "current",
         NEW t \in BeginIfNeeded(s), NEW id \in DocIds,
         NEW c \in Contents, c.version = t.work.version,
         NEW o \in StoreDocument(t, c, id)
  PROVE  o.s.work.version = "current" /\ o.s.disk.version = "current"
<1>1. GoodStore(t) /\ t.badCommits = 0 /\ t.work = s.work
      /\ t.disk.version = "current"
  BY BegunIsReadable
<1> QED
  BY <1>1, QuietStored

LEMMA StepReadableInv ==
  IInv /\ NoBadCommits /\ ReadableInv /\ [Next]_vars => ReadableInv'
<1> SUFFICES ASSUME IInv, NoBadCommits, ReadableInv, [Next]_vars
             PROVE  ReadableInv'
  OBVIOUS
<1>1. GoodStore(store) /\ store \in Stores /\ store.badCommits = 0
      /\ store.work \in Contents /\ store.disk \in Contents
  BY IInvGood DEF NoBadCommits, GoodStore, Stores
<1>2. isOpen => store.work.version = "current"
                /\ (store.inTxn => store.disk.version = "current")
  BY DEF ReadableInv
<1>3. ASSUME NEW r \in BOOLEAN, Open(r) PROVE ReadableInv'
  <2>1. CASE UNCHANGED <<store, isOpen>>
    BY <2>1 DEF ReadableInv
  <2>2. CASE store' \in OpenWritable(store, r) /\ isOpen'
    <3>1. ~store'.inTxn /\ store'.disk \in {store.disk, EmptyContent}
          /\ store'.work = [store'.disk EXCEPT !.version = "current"]
      BY <1>1, <2>2, OpenFrame
    <3>2. store'.disk \in Contents
      BY <1>1, <3>1, ContentsEmpty
    <3>3. store'.work.version = "current" /\ store'.work.docs = store'.disk.docs
      BY <3>1, <3>2 DEF Contents
    <3>4. store'.disk.version = "current" \/ store'.disk.docs = {}
      BY <3>1 DEF ReadableInv, EmptyContent
    <3> QED
      BY <2>2, <3>1, <3>3, <3>4 DEF ReadableInv
  <2> QED
    BY <1>3, <2>1, <2>2 DEF Open
<1>4. ASSUME NEW p \in Paths, NEW b \in Bodies, Add(p, b) PROVE ReadableInv'
  <2>1. PICK o \in AddMsg(store, p, b) : store' = o.s
    BY <1>4 DEF Add
  <2>2. PICK t \in BeginIfNeeded(store) :
              \E id \in IdsForTerm(t.work, p) :
                 o \in StoreDocument(t, ReplaceByTerm(t.work, id, p, b), id)
    BY DEF AddMsg
  <2>3. PICK id \in IdsForTerm(t.work, p) :
              o \in StoreDocument(t, ReplaceByTerm(t.work, id, p, b), id)
    BY <2>2
  <2>4. t.work \in Contents
    BY <1>1, GoodBeginIfNeeded DEF GoodStore, Stores
  <2>5. id \in DocIds /\ ReplaceByTerm(t.work, id, p, b) \in Contents
    BY <2>4, ContentsIds, ContentsDocs
  <2>6. ReplaceByTerm(t.work, id, p, b).version = t.work.version
    BY <2>4 DEF ReplaceByTerm, Contents
  <2>7. o.s.work.version = "current" /\ o.s.disk.version = "current"
    BY <1>1, <1>2, <1>4, <2>3, <2>5, <2>6, StoredIsReadable DEF Add
  <2> QED
    BY <2>1, <2>7 DEF ReadableInv
<1>5. ASSUME NEW id \in DocIds, NEW p \in Paths, NEW b \in Bodies,
             Update(id, p, b)
      PROVE  ReadableInv'
  <2>1. PICK o \in UpdateMsg(store, id, p, b) : store' = o.s
    BY <1>5 DEF Update
  <2>2. PICK t \in BeginIfNeeded(store) :
              o \in StoreDocument(t, ReplaceById(t.work, id, p, b), id)
    BY DEF UpdateMsg
  <2>3. t.work \in Contents
    BY <1>1, GoodBeginIfNeeded DEF GoodStore, Stores
  <2>4. ReplaceById(t.work, id, p, b) \in Contents
    BY <2>3, ContentsDocs
  <2>5. ReplaceById(t.work, id, p, b).version = t.work.version
    BY <2>3 DEF ReplaceById, Contents
  <2>6. o.s.work.version = "current" /\ o.s.disk.version = "current"
    BY <1>1, <1>2, <1>5, <2>2, <2>4, <2>5, StoredIsReadable DEF Update
  <2> QED
    BY <2>1, <2>6 DEF ReadableInv
<1>6. ASSUME NEW p \in Paths, Remove(p) PROVE ReadableInv'
  <2>1. PICK o \in RemovePath(store, p) : store' = o.s
    BY <1>6 DEF Remove
  <2>2. o.s.disk = store.disk /\ o.s.inTxn = store.inTxn
    BY <1>1, RemoveFrame
  <2>3. CASE o.s.work = DeleteByTerm(store.work, p)
    <3>1. o.s.work.version = store.work.version
          /\ (store.work.docs = {} => o.s.work.docs = {})
      BY <1>1, <2>3 DEF DeleteByTerm, DocsAt, Contents
    <3> QED
      BY <1>6, <2>1, <2>2, <3>1 DEF Remove, ReadableInv
  <2>4. CASE o.s.work = store.disk /\ DocsAt(store.work, p) # {}
    <3>1. store.disk.version = "current"
      BY <1>6, <2>4 DEF Remove, ReadableInv, DocsAt
    <3> QED
      BY <2>1, <2>2, <2>4, <3>1 DEF ReadableInv
  <2> QED
    BY <1>1, <2>3, <2>4, RemoveFrame
<1>7. ASSUME NEW d \in Dirs, NEW n \in 0..MaxStamp, Stamp(d, n)
      PROVE  ReadableInv'
  BY <1>1, <1>7, StampFrame, BoundsAssumption DEF Stamp, ReadableInv
<1>8. CASE Flush
  BY <1>1, <1>2, <1>8, QuietFlush DEF Flush, ReadableInv
<1>9. CASE Close
  <2>1. PICK s \in StoreFlush(store) : store' = Unopened(s)
    BY <1>9 DEF Close
  <2>2. s \in Stores /\ s.disk = store.work
    BY <1>1, <2>1, QuietFlush DEF GoodStore
  <2> QED
    BY <1>2, <1>9, <2>1, <2>2, UnopenedFrame DEF Close, ReadableInv
<1>10. CASE Crash
  BY <1>1, <1>10, UnopenedFrame DEF Crash, ReadableInv
<1>11. CASE UNCHANGED vars
  BY <1>11 DEF vars, ReadableInv
<1> QED
  BY <1>3, <1>4, <1>5, <1>6, <1>7, <1>8, <1>9, <1>10, <1>11 DEF Next

\* As long as no commit throws, a database that has messages on disk has its
\* version on disk (mu-store-priv.hh:105-120, mu-store-write.cc:42-49), so that
\* a reader can open it: also after a crash, and while it is being rebuilt.
THEOREM DurableReadable == CommitFaults = 0 /\ Spec => []DurableIsReadable
<1>1. ReadableInv => DurableIsReadable
  BY DEF ReadableInv, DurableIsReadable, ReadOnlyOpens
<1>2. CommitFaults = 0 /\ Init => NoBadCommits /\ ReadableInv
  BY DEF Init, FirstDisk, EmptyContent, NoBadCommits, ReadableInv
<1> QED
  BY InitIInv, StepIInv, StepNoBadCommits, StepReadableInv, <1>1, <1>2, PTL
     DEF Spec

-----------------------------------------------------------------------------
(* A docid names one message.  The strengthening: no two documents have    *)
(* one docid and none has a docid past the highest; as long as nothing     *)
(* threw, no docid past the highest was returned, and the document of a    *)
(* docid is the one it was returned for.                                   *)

ToldInv ==
  /\ OrderedStore(store)
  /\ store.badWrites <= WriteFaults /\ store.badCommits <= CommitFaults
  /\ NothingThrew => \A id \in DocIds :
                        told[id] = {} \/ \E p \in Paths : told[id] = {p}
  /\ NothingThrew /\ isOpen =>
       /\ \A id \in DocIds : told[id] # {} => id <= store.work.last
       /\ \A d \in store.work.docs : told[d.id] \subseteq {d.path}

LEMMA ToldThrew ==
  ASSUME GoodStore(store), GoodStore(store)', ToldInv,
         OrderedStore(store'), Throws(store, store')
  PROVE  ToldInv'
<1>1. /\ store.badWrites \in Nat /\ store'.badWrites \in Nat
      /\ store.badCommits \in Nat /\ store'.badCommits \in Nat
  BY DEF GoodStore, Stores
<1>2. /\ store'.badWrites <= WriteFaults /\ store'.badCommits <= CommitFaults
      /\ ~NothingThrew'
  BY <1>1, FaultsAssumption DEF ToldInv, Throws, NothingThrew
<1> QED
  BY <1>2 DEF ToldInv

\* Nothing was returned, and the documents that are left are as they were.
LEMMA ToldKept ==
  ASSUME GoodStore(store), GoodStore(store)', ToldInv,
         OrderedStore(store'), told' = told,
         store'.badWrites = store.badWrites,
         store'.badCommits = store.badCommits,
         isOpen' => /\ isOpen
                    /\ store'.work.docs \subseteq store.work.docs
                    /\ store'.work.last = store.work.last
  PROVE  ToldInv'
BY DEF ToldInv, NothingThrew

LEMMA ToldStep ==
  ASSUME GoodStore(store), GoodStore(store)', ToldInv,
         OrderedStore(store'), told' = told,
         \/ Throws(store, store')
         \/ /\ store'.badWrites = store.badWrites
            /\ store'.badCommits = store.badCommits
            /\ isOpen' => /\ isOpen
                          /\ store'.work.docs \subseteq store.work.docs
                          /\ store'.work.last = store.work.last
  PROVE  ToldInv'
BY ToldThrew, ToldKept

LEMMA KeptThrows ==
  ASSUME NEW s, GoodStore(s), NEW t, GoodStore(t), Kept(s, t)
  PROVE  \/ Throws(s, t)
         \/ /\ t.badWrites = s.badWrites /\ t.badCommits = s.badCommits
            /\ t.work = s.work
BY DEF Kept, Throws, GoodStore, Stores

LEMMA AddToldInv ==
  ASSUME IInv, ToldInv, GoodStore(store)',
         NEW p \in Paths, NEW b \in Bodies, Add(p, b)
  PROVE  ToldInv'
<1>1. GoodStore(store) /\ OrderedStore(store)
      /\ told \in [DocIds -> SUBSET Paths]
  BY IInvGood DEF ToldInv, IInv, TypeOK
<1>2. PICK o \in AddMsg(store, p, b) :
            /\ store' = o.s
            /\ told' = IF o.id = InvalidDocId THEN told
                       ELSE [told EXCEPT ![o.id] = @ \cup {p}]
  BY DEF Add
<1>3. PICK t \in BeginIfNeeded(store) :
            \E id \in IdsForTerm(t.work, p) :
               o \in StoreDocument(t, ReplaceByTerm(t.work, id, p, b), id)
  BY DEF AddMsg
<1>4. PICK id \in IdsForTerm(t.work, p) :
            o \in StoreDocument(t, ReplaceByTerm(t.work, id, p, b), id)
  BY <1>3
<1> DEFINE c == ReplaceByTerm(t.work, id, p, b)
<1>5. t.work \in Contents /\ Ordered(t.work)
  BY <1>1, GoodBeginIfNeeded, KeptBegin, OrderedKept
     DEF GoodStore, Stores, OrderedStore
<1>6. id \in DocIds /\ c \in Contents /\ Ordered(c)
      /\ \A d \in t.work.docs : d.path # p => d.id # id
  BY <1>5, ContentsIds, ContentsDocs, OrderedReplaceByTerm
<1>7. /\ c.docs = (t.work.docs \ DocsAt(t.work, p)) \cup {Doc(id, p, b)}
      /\ c.last = IF id > t.work.last THEN id ELSE t.work.last
      /\ t.work.last \in 0..MaxDocId
  BY <1>5 DEF ReplaceByTerm, Contents
<1> HIDE DEF c
<1>8. o \in StoreDocument(t, c, id)
  BY <1>4 DEF c
<1>9. CASE Throws(store, o.s)
  BY <1>1, <1>2, <1>6, <1>8, <1>9, OrderedStored, ToldThrew
<1>10. CASE /\ t.work = store.work /\ o.id = id /\ o.s.work = c
            /\ o.s.badWrites = store.badWrites
            /\ o.s.badCommits = store.badCommits
  <2>1. OrderedStore(store')
    BY <1>1, <1>2, <1>6, <1>8, OrderedStored
  <2>2. told' = [told EXCEPT ![id] = @ \cup {p}]
    BY <1>2, <1>6, <1>10 DEF DocIds, InvalidDocId
  <2>3. store'.work = c
    BY <1>2, <1>10
  <2>4. isOpen /\ isOpen'
    BY DEF Add
  <2>5. /\ store'.badWrites <= WriteFaults /\ store'.badCommits <= CommitFaults
        /\ (NothingThrew' <=> NothingThrew)
    BY <1>2, <1>10 DEF ToldInv, NothingThrew
  <2>6. ASSUME NothingThrew
        PROVE  /\ told[id] \subseteq {p}
               /\ \A i \in DocIds : told[i] # {} => i <= c.last
               /\ \A i \in DocIds :
                     told[i] = {} \/ \E q \in Paths : told[i] = {q}
    <3>1. /\ \A i \in DocIds : told[i] # {} => i <= store.work.last
          /\ \A d \in store.work.docs : told[d.id] \subseteq {d.path}
          /\ \A i \in DocIds : told[i] = {} \/ \E q \in Paths : told[i] = {q}
      BY <2>4, <2>6 DEF ToldInv
    <3>2. told[id] \subseteq {p}
      <4>1. CASE id = t.work.last + 1
        <5>1. ~(id <= store.work.last)
          BY <1>6, <1>7, <1>10, <4>1 DEF DocIds
        <5> QED
          BY <1>6, <3>1, <5>1
      <4>2. CASE \E d \in DocsAt(t.work, p) : d.id = id
        BY <1>10, <3>1, <4>2 DEF DocsAt
      <4> QED
        BY <1>4, <1>5, <4>1, <4>2, TermIds
    <3>3. \A i \in DocIds : i <= store.work.last => i <= c.last
      BY <1>6, <1>7, <1>10, MaxDocIdAssumption DEF DocIds
    <3> QED
      BY <3>1, <3>2, <3>3
  <2>7. id <= c.last
    BY <1>6, <1>7, MaxDocIdAssumption DEF DocIds
  <2>8. ASSUME NothingThrew, NEW i \in DocIds
        PROVE  /\ told'[i] = IF i = id THEN {p} ELSE told[i]
               /\ told'[i] = {} \/ \E q \in Paths : told'[i] = {q}
               /\ told'[i] # {} => i <= store'.work.last
    <3>1. told'[i] = IF i = id THEN {p} ELSE told[i]
      BY <1>1, <1>6, <2>2, <2>6, <2>8
    <3> QED
      BY <2>3, <2>6, <2>7, <2>8, <3>1
  <2>9. ASSUME NothingThrew, NEW d \in store'.work.docs
        PROVE  told'[d.id] \subseteq {d.path}
    <3>1. CASE d = Doc(id, p, b)
      BY <1>6, <2>8, <2>9, <3>1 DEF Doc
    <3>2. CASE d \in store.work.docs /\ d.path # p
      <4>1. d.id \in DocIds
        BY <1>5, <1>10, <3>2 DEF Contents, Docs
      <4>2. told[d.id] \subseteq {d.path}
        BY <2>4, <2>9, <3>2 DEF ToldInv
      <4>3. d.id # id
        BY <1>6, <1>10, <3>2
      <4> QED
        BY <2>8, <2>9, <4>1, <4>2, <4>3
    <3> QED
      BY <1>7, <1>10, <2>3, <3>1, <3>2 DEF DocsAt
  <2> QED
    BY <2>1, <2>5, <2>8, <2>9 DEF ToldInv
<1> QED
  BY <1>1, <1>6, <1>8, <1>9, <1>10, OrderedStored

LEMMA UpdateToldInv ==
  ASSUME IInv, ToldInv, GoodStore(store)',
         NEW id \in DocIds, NEW p \in Paths, NEW b \in Bodies, Update(id, p, b)
  PROVE  ToldInv'
<1>1. GoodStore(store) /\ OrderedStore(store)
      /\ told \in [DocIds -> SUBSET Paths]
  BY IInvGood DEF ToldInv, IInv, TypeOK
<1>2. PICK o \in UpdateMsg(store, id, p, b) :
            /\ store' = o.s
            /\ told' = IF o.id = InvalidDocId THEN told
                       ELSE [told EXCEPT ![id] = {p}]
  BY DEF Update
<1>3. PICK t \in BeginIfNeeded(store) :
            o \in StoreDocument(t, ReplaceById(t.work, id, p, b), id)
  BY DEF UpdateMsg
<1> DEFINE c == ReplaceById(t.work, id, p, b)
<1>4. t.work \in Contents /\ Ordered(t.work)
  BY <1>1, GoodBeginIfNeeded, KeptBegin, OrderedKept
     DEF GoodStore, Stores, OrderedStore
<1>5. c \in Contents /\ Ordered(c)
  BY <1>4, ContentsDocs, OrderedReplaceById
<1>6. /\ c.docs = {d \in t.work.docs : d.id # id} \cup {Doc(id, p, b)}
      /\ c.last = IF id > t.work.last THEN id ELSE t.work.last
      /\ t.work.last \in 0..MaxDocId
  BY <1>4 DEF ReplaceById, Contents
<1> HIDE DEF c
<1>7. o \in StoreDocument(t, c, id)
  BY <1>3 DEF c
<1>8. CASE Throws(store, o.s)
  BY <1>1, <1>2, <1>5, <1>7, <1>8, OrderedStored, ToldThrew
<1>9. CASE /\ t.work = store.work /\ o.id = id /\ o.s.work = c
           /\ o.s.badWrites = store.badWrites
           /\ o.s.badCommits = store.badCommits
  <2>1. OrderedStore(store')
    BY <1>1, <1>2, <1>5, <1>7, OrderedStored
  <2>2. told' = [told EXCEPT ![id] = {p}]
    BY <1>2, <1>9 DEF DocIds, InvalidDocId
  <2>3. store'.work = c
    BY <1>2, <1>9
  <2>4. isOpen /\ isOpen'
    BY DEF Update
  <2>5. /\ store'.badWrites <= WriteFaults /\ store'.badCommits <= CommitFaults
        /\ (NothingThrew' <=> NothingThrew)
    BY <1>2, <1>9 DEF ToldInv, NothingThrew
  <2>6. \A i \in DocIds : i = id \/ i <= store.work.last => i <= c.last
    BY <1>6, <1>9, MaxDocIdAssumption DEF DocIds
  <2>7. ASSUME NothingThrew, NEW i \in DocIds
        PROVE  /\ told'[i] = IF i = id THEN {p} ELSE told[i]
               /\ told'[i] = {} \/ \E q \in Paths : told'[i] = {q}
               /\ told'[i] # {} => i <= store'.work.last
    <3>1. told'[i] = IF i = id THEN {p} ELSE told[i]
      BY <1>1, <2>2
    <3> QED
      BY <2>3, <2>4, <2>6, <2>7, <3>1 DEF ToldInv
  <2>8. ASSUME NothingThrew, NEW d \in store'.work.docs
        PROVE  told'[d.id] \subseteq {d.path}
    <3>1. CASE d = Doc(id, p, b)
      BY <2>7, <2>8, <3>1 DEF Doc
    <3>2. CASE d \in store.work.docs /\ d.id # id
      <4>1. told[d.id] \subseteq {d.path} /\ d.id \in DocIds
        BY <1>4, <1>9, <2>4, <2>8, <3>2 DEF ToldInv, Contents, Docs
      <4> QED
        BY <2>7, <2>8, <3>2, <4>1
    <3> QED
      BY <1>6, <1>9, <2>3, <3>1, <3>2
  <2> QED
    BY <2>1, <2>5, <2>7, <2>8 DEF ToldInv
<1> QED
  BY <1>1, <1>5, <1>7, <1>8, <1>9, OrderedStored

LEMMA StepToldInv == IInv /\ ToldInv /\ [Next]_vars => ToldInv'
<1> SUFFICES ASSUME IInv, ToldInv, [Next]_vars PROVE ToldInv'
  OBVIOUS
<1>1. /\ GoodStore(store) /\ store \in Stores
      /\ Ordered(store.work) /\ Ordered(store.disk)
      /\ store.work \in Contents /\ store.disk \in Contents
  BY IInvGood DEF ToldInv, OrderedStore, GoodStore, Stores
<1>2. GoodStore(store)'
  BY StepIInv, IInvGood DEF IInv, TypeOK, TxnFlagsAgree, GoodStore
<1>3. ASSUME NEW r \in BOOLEAN, Open(r) PROVE ToldInv'
  <2>1. CASE UNCHANGED <<store, isOpen, told>>
    BY <2>1 DEF ToldInv, NothingThrew
  <2>2. CASE store' \in OpenWritable(store, r) /\ told' = NothingTold
    <3>1. /\ store'.badCommits = store.badCommits
          /\ store'.badWrites = store.badWrites
          /\ store'.disk \in {store.disk, EmptyContent}
          /\ store'.work = [store'.disk EXCEPT !.version = "current"]
      BY <1>1, <2>2, OpenFrame
    <3>2. Ordered(store'.disk) /\ store'.disk \in Contents
      BY <1>1, <3>1, OrderedEmpty, ContentsEmpty
    <3>3. "current" \in Versions
      BY DEF Versions
    <3>4. Ordered(store'.work)
      BY <3>1, <3>2, <3>3, OrderedVersion
    <3>5. \A i \in DocIds : told'[i] = {}
      BY <2>2 DEF NothingTold
    <3>6. \A d \in store'.work.docs : d.id \in DocIds
      BY <1>2 DEF GoodStore, Stores, Contents, Docs
    <3> QED
      BY <3>1, <3>2, <3>4, <3>5, <3>6 DEF ToldInv, OrderedStore
  <2> QED
    BY <1>3, <2>1, <2>2 DEF Open
<1>4. ASSUME NEW p \in Paths, Remove(p) PROVE ToldInv'
  <2>1. PICK o \in RemovePath(store, p) : store' = o.s
    BY <1>4 DEF Remove
  <2>2. /\ store'.badCommits = store.badCommits /\ store'.disk = store.disk
        /\ \/ /\ store'.work = DeleteByTerm(store.work, p)
              /\ store'.badWrites = store.badWrites
           \/ /\ store'.work = store.disk
              /\ store'.badWrites < store.badWrites
    BY <1>1, <2>1, RemoveFrame
  <2>3. /\ Ordered(DeleteByTerm(store.work, p))
        /\ DeleteByTerm(store.work, p).docs \subseteq store.work.docs
        /\ DeleteByTerm(store.work, p).last = store.work.last
    BY <1>1 DEF Ordered, DeleteByTerm, Contents
  <2>4. store.badWrites \in Nat /\ store'.badWrites \in Nat
        /\ store.badCommits \in Nat
    BY <1>1, <1>2 DEF GoodStore, Stores
  <2>5. OrderedStore(store')
    BY <1>1, <2>2, <2>3 DEF OrderedStore
  <2> QED
    BY <1>1, <1>2, <1>4, <2>2, <2>3, <2>4, <2>5, ToldStep DEF Throws, Remove
<1>5. ASSUME NEW d \in Dirs, NEW n \in 0..MaxStamp, Stamp(d, n) PROVE ToldInv'
  <2>1. /\ store'.badCommits = store.badCommits /\ store'.disk = store.disk
        /\ store'.work.docs = store.work.docs
        /\ store'.work.last = store.work.last
        /\ store'.badWrites <= store.badWrites
    BY <1>1, <1>5, StampFrame, BoundsAssumption DEF Stamp
  <2>2. OrderedStore(store')
    BY <1>1, <2>1 DEF OrderedStore, Ordered
  <2>3. store.badWrites \in Nat /\ store'.badWrites \in Nat
        /\ store.badCommits \in Nat
    BY <1>1, <1>2 DEF GoodStore, Stores
  <2> QED
    BY <1>1, <1>2, <1>5, <2>1, <2>2, <2>3, ToldStep DEF Throws, Stamp
<1>6. CASE Flush
  <2>1. Kept(store, store')
    BY <1>1, <1>6, KeptFlush DEF Flush
  <2>2. OrderedStore(store')
    BY <2>1, OrderedKept DEF ToldInv
  <2> QED
    BY <1>1, <1>2, <1>6, <2>1, <2>2, KeptThrows, ToldStep DEF Flush, GoodStore
<1>7. CASE Close
  <2>1. PICK s \in StoreFlush(store) : store' = Unopened(s)
    BY <1>7 DEF Close
  <2>2. GoodStore(s) /\ Kept(store, s)
    BY <1>1, <2>1, GoodFlush, KeptFlush
  <2>3. /\ store'.work = s.disk /\ store'.disk = s.disk
        /\ store'.badCommits = s.badCommits /\ store'.badWrites = s.badWrites
    BY <2>1, <2>2, UnopenedFrame DEF GoodStore
  <2>4. OrderedStore(store')
    BY <2>2, <2>3, OrderedKept DEF ToldInv, OrderedStore
  <2>5. Throws(store, s) \/ (s.badWrites = store.badWrites
                             /\ s.badCommits = store.badCommits)
    BY <1>1, <2>2, KeptThrows
  <2> QED
    BY <1>1, <1>2, <1>7, <2>3, <2>4, <2>5, ToldStep DEF Close, Throws
<1>8. CASE Crash
  <2>1. /\ store'.work = store.disk /\ store'.disk = store.disk
        /\ store'.badCommits = store.badCommits
        /\ store'.badWrites = store.badWrites
    BY <1>1, <1>8, UnopenedFrame DEF Crash
  <2>2. OrderedStore(store')
    BY <1>1, <2>1 DEF OrderedStore
  <2> QED
    BY <1>1, <1>2, <1>8, <2>1, <2>2, ToldStep DEF Crash
<1>9. CASE UNCHANGED vars
  BY <1>9 DEF vars, ToldInv, NothingThrew
<1> QED
  BY <1>2, <1>3, <1>4, <1>5, <1>6, <1>7, <1>8, <1>9, AddToldInv, UpdateToldInv
     DEF Next

\* As long as Xapian does not throw, a docid names the one message it was
\* returned for while the process runs (mu-store-write.cc:671-744): what is
\* returned for a new path is past every docid that was given out, also after
\* removals and replacements.  Nothing is said of what a rollback, a kill or a
\* new start does, after which docids come back.
THEOREM DocidsName == Spec => []DocidNamesOneMessage
<1>1. ToldInv => DocidNamesOneMessage
  <2> SUFFICES ASSUME ToldInv, NothingThrew, NEW id \in DocIds
               PROVE  Cardinality(told[id]) <= 1
    BY DEF DocidNamesOneMessage, OneMessagePerDocid
  <2>1. CASE told[id] = {}
    BY <2>1, FS_EmptySet
  <2>2. CASE \E p \in Paths : told[id] = {p}
    BY <2>2, FS_Singleton
  <2> QED
    BY <2>1, <2>2 DEF ToldInv
<1>2. Init => ToldInv
  <2> SUFFICES ASSUME Init PROVE ToldInv
    OBVIOUS
  <2>1. PICK c \in FirstDisk :
              /\ store.work = c /\ store.disk = c
              /\ store.badWrites = WriteFaults /\ store.badCommits = CommitFaults
    BY DEF Init
  <2>2. Ordered(c)
    BY OrderedEmpty DEF FirstDisk, EmptyContent, Ordered
  <2>3. \A id \in DocIds : told[id] = {}
    BY DEF Init, NothingTold
  <2>4. ~isOpen
    BY DEF Init
  <2> QED
    BY <2>1, <2>2, <2>3, <2>4, FaultsAssumption DEF ToldInv, OrderedStore
<1> QED
  BY InitIInv, StepIInv, StepToldInv, <1>1, <1>2, PTL DEF Spec


-----------------------------------------------------------------------------
(* The store with the contacts cache.                                      *)

\* Every step of the composition is a step of the store, or that one.
LEMMA StoreStep ==
  ASSUME [CacheNext]_<<vars, cacheVars>>
  PROVE  [Next]_vars \/ \E rebuild \in BOOLEAN : OpenWithBrokenContacts(rebuild)
<1>1. CASE UNCHANGED <<vars, cacheVars>>
  BY <1>1
<1>2. ASSUME NEW rebuild \in BOOLEAN, NEW my, OpenWithContacts(rebuild, my)
      PROVE  Next
  BY <1>2 DEF OpenWithContacts, Next
<1>3. ASSUME NEW p \in Paths, NEW b \in Bodies, AddWithContacts(p, b)
      PROVE  Next
  BY <1>3 DEF AddWithContacts, Next
<1>4. ASSUME NEW id \in DocIds, NEW p \in Paths, NEW b \in Bodies,
             UpdateWithContacts(id, p, b)
      PROVE  Next
  BY <1>4 DEF UpdateWithContacts, Next
<1>5. ASSUME NEW p \in Paths, RemoveWithContacts(p) PROVE Next
  BY <1>5 DEF RemoveWithContacts, Next
<1>6. FlushWithContacts \/ CloseWithContacts \/ CrashWithContacts => Next
  BY DEF FlushWithContacts, CloseWithContacts, CrashWithContacts, Next
<1> QED
  BY <1>1, <1>2, <1>3, <1>4, <1>5, <1>6 DEF CacheNext

LEMMA BrokenIInv ==
  ASSUME IInv, NEW rebuild \in BOOLEAN, OpenWithBrokenContacts(rebuild)
  PROVE  IInv'
<1>1. GoodStore(store) /\ store \in Stores
  BY IInvGood DEF GoodStore
<1>2. [store EXCEPT !.disk = EmptyContent] \in Stores
  BY <1>1, ContentsEmpty DEF Stores
<1>3. GoodStore(store')
  BY <1>1, <1>2, GoodUnopened DEF OpenWithBrokenContacts
<1>4. ret' \in [call : Calls, id : 0..MaxDocId, path : Paths \cup {NoPath}]
  BY MaxDocIdAssumption, ReturnedType DEF OpenWithBrokenContacts, Calls
<1>5. /\ isOpen' \in BOOLEAN
      /\ told' \in [DocIds -> SUBSET Paths]
      /\ unsaved' \in Nat
  BY DEF OpenWithBrokenContacts, IInv, TypeOK
<1>6. GoodStore(store)'
  BY <1>3 DEF GoodStore
<1> QED
  BY <1>4, <1>5, <1>6, GoodIInv

LEMMA CacheStepIInv ==
  IInv /\ [CacheNext]_<<vars, cacheVars>> => IInv'
BY StoreStep, BrokenIInv, StepIInv

\* _in_transaction agrees with Xapian also in a process that collects contacts
\* while it makes documents (mu-store-write.cc:42-66, 641-662), and when its
\* constructor throws on a broken contacts file (mu-store-priv.hh:66-71).
THEOREM CacheFlagsAgree == CacheSpec => []TxnFlagsAgree
<1>1. IInv => TxnFlagsAgree
  BY DEF IInv
<1>2. CacheInit => IInv
  BY InitIInv DEF CacheInit
<1> QED
  BY <1>1, <1>2, CacheStepIInv, PTL DEF CacheSpec

\* The destructor, which saves the contacts first, still leaves on disk all
\* that the process saw unless the commit throws (mu-store-priv.hh:132-150),
\* whether or not it could save the contacts.
THEOREM CacheFlushDurable == CacheSpec => FlushIsDurable
<1>1. IInv /\ [CacheNext]_<<vars, cacheVars>> => [Durable]_vars
  <2> SUFFICES ASSUME IInv, [CacheNext]_<<vars, cacheVars>>
               PROVE  [Durable]_vars
    OBVIOUS
  <2>1. CASE [Next]_vars
    BY <2>1, StepDurable
  <2>2. ASSUME NEW rebuild \in BOOLEAN, OpenWithBrokenContacts(rebuild)
        PROVE  Durable
    BY <2>2 DEF OpenWithBrokenContacts, Returned, Durable
  <2> QED
    BY <2>1, <2>2, StoreStep
<1>2. CacheInit => IInv
  BY InitIInv DEF CacheInit
<1> QED
  BY <1>1, <1>2, CacheStepIInv, PTL DEF CacheSpec, FlushIsDurable, Durable

-----------------------------------------------------------------------------
(* What a cache or its file holds, and the contacts that were seen.        *)

GroupOf(e) == EncodeEmailAddress(e.email)

IsContact(e) ==
  e = ContactInfo(e.email, e.name, e.personal, e.tstamp) /\ e.tstamp \in Int

\* The contact e is one of S, with its time as it was or as it was saved.
Heard(S, e) ==
  \E x \in S : /\ x.email = e.email /\ x.name = e.name
               /\ x.personal = e.personal
               /\ e.tstamp \in {x.tstamp, AsInt(x.tstamp)}

Held(S, f) ==
  \A g \in DOMAIN f : IsContact(f[g]) /\ GroupOf(f[g]) = g /\ Heard(S, f[g])

\* The times of group g in S can be saved.
Saveable(S, g) == \A x \in S : GroupOf(x) = g => x.tstamp < IntLimit

Newest(S, f) ==
  \A e \in S : e.name # NoName /\ Saveable(S, GroupOf(e))
                 => GroupOf(e) \in DOMAIN f /\ f[GroupOf(e)].tstamp >= e.tstamp

\* The addresses of the documents have their groups.
Covers(f, c) ==
  \A d \in c.docs : \A i \in Listed(d.body) :
    EncodeEmailAddress(Contacts(d.body)[i].address) \in DOMAIN f

\* The inductive invariant.  What is on disk is what is left when a batch is
\* rolled back or the process is killed, so the contacts of its documents must
\* be known as well; and when nothing is to be saved the cache is the file.
CacheInv ==
  /\ dirty \in BOOLEAN /\ lost \in BOOLEAN /\ badSaves \in 0..SaveFaults
  /\ \A x \in seen : IsContact(x) /\ x.tstamp \in Times
  /\ isOpen => file # Broken
  /\ ~isOpen => cache = NoContacts /\ ~dirty
  /\ Held(seen, cache)
  /\ file # Broken => Held(seen, file)
  /\ isOpen /\ ~dirty => cache = file
  /\ ~lost /\ file # Broken =>
       Covers(Known, store.work) /\ Covers(Known, store.disk)
         /\ Newest(seen, Known)

ContactsInv == IInv /\ CacheInv

-----------------------------------------------------------------------------
(* Times written as an int.                                                *)

LEMMA Remainder ==
  ASSUME NEW a \in Int, NEW m \in Nat \ {0}
  PROVE  a % m \in 0..(m - 1)
OBVIOUS

LEMMA RemainderOfSmall ==
  ASSUME NEW a \in Int, NEW m \in Nat \ {0}, a \in 0..(m - 1)
  PROVE  a % m = a
OBVIOUS

LEMMA AsIntBounds ==
  ASSUME NEW t \in Int
  PROVE  /\ AsInt(t) \in Int /\ AsInt(t) < IntLimit /\ -IntLimit <= AsInt(t)
         /\ t < IntLimit => AsInt(t) >= t
         /\ -IntLimit <= t => AsInt(t) <= t
         /\ AsInt(AsInt(t)) = AsInt(t)
<1> DEFINE m == 2 * IntLimit
           a == t + IntLimit
           r == a % m
<1>1. m \in Nat \ {0} /\ IntLimit \in Nat \ {0}
  BY IntAssumption
<1>2. a \in Int /\ AsInt(t) = r - IntLimit
  BY <1>1 DEF AsInt
<1>3. m = IntLimit + IntLimit
  BY <1>1
<1>4. a = t + IntLimit
  OBVIOUS
<1>5. AsInt(r - IntLimit) = ((r - IntLimit + IntLimit) % m) - IntLimit
  BY DEF AsInt
<1> HIDE DEF m, a
<1>6. r \in 0..(m - 1) /\ (a \in 0..(m - 1) => r = a)
  BY <1>1, <1>2, Remainder, RemainderOfSmall
<1>7. r % m = r
  BY <1>1, <1>6, RemainderOfSmall
<1> HIDE DEF r
<1>8. /\ AsInt(t) \in Int /\ AsInt(t) < IntLimit /\ -IntLimit <= AsInt(t)
  BY <1>1, <1>2, <1>3, <1>6
<1>9. t < IntLimit => AsInt(t) >= t
  <2> SUFFICES ASSUME t < IntLimit PROVE r >= a
    BY <1>1, <1>2, <1>4, <1>6
  <2>1. a < m
    BY <1>1, <1>3, <1>4
  <2> QED
    BY <1>1, <1>2, <1>6, <2>1
<1>10. -IntLimit <= t => AsInt(t) <= t
  <2> SUFFICES ASSUME -IntLimit <= t PROVE r <= a
    BY <1>1, <1>2, <1>4, <1>6
  <2>1. 0 <= a
    BY <1>1, <1>4
  <2> QED
    BY <1>1, <1>2, <1>6, <2>1
<1>11. AsInt(AsInt(t)) = AsInt(t)
  <2>1. r - IntLimit + IntLimit = r
    BY <1>1, <1>6
  <2> QED
    BY <1>2, <1>5, <1>7, <2>1
<1> QED
  BY <1>8, <1>9, <1>10, <1>11

-----------------------------------------------------------------------------
(* Adding a contact, and the contacts of a message one by one.             *)

\* What c holds of the contacts S it was given.
Added(S, c) == /\ c.dirty \in BOOLEAN
               /\ Held(S, c.cache)
               /\ \A x \in S : IsContact(x)

LEMMA AddContactKeeps ==
  ASSUME NEW S, NEW c, NEW e, Added(S, c), IsContact(e)
  PROVE  LET d == AddContact(c, e)
         IN  /\ Added(S \cup {e}, d)
             /\ DOMAIN c.cache \subseteq DOMAIN d.cache
             /\ GroupOf(e) \in DOMAIN d.cache
             /\ ~d.dirty => d.cache = c.cache /\ ~c.dirty
             /\ Newest(S, c.cache) => Newest(S \cup {e}, d.cache)
<1> DEFINE g == GroupOf(e)
           T == S \cup {e}
           replaces == \/ g \notin DOMAIN c.cache
                       \/ c.cache[g].tstamp < e.tstamp /\ e.name # NoName
           d == AddContact(c, e)
<1>1. d = IF replaces THEN [cache |-> Put(c.cache, g, e), dirty |-> TRUE] ELSE c
  BY DEF AddContact, GroupOf
<1>2. Heard(T, e)
  BY DEF Heard
<1>3. \A x : Heard(S, x) => Heard(T, x)
  BY DEF Heard
<1>4. \A x \in T : IsContact(x)
  BY DEF Added
<1>5. Held(T, c.cache)
  BY <1>3 DEF Added, Held
<1>6. \A h : Saveable(T, h) => Saveable(S, h)
  BY DEF Saveable
<1>7. CASE replaces
  <2>1. /\ d.dirty = TRUE
        /\ DOMAIN d.cache = DOMAIN c.cache \cup {g}
        /\ d.cache[g] = e
        /\ \A x \in DOMAIN c.cache : x # g => d.cache[x] = c.cache[x]
    BY <1>1, <1>7 DEF Put
  <2>2. g = GroupOf(e) /\ T = S \cup {e}
    OBVIOUS
  <2>3. \/ g \notin DOMAIN c.cache
        \/ c.cache[g].tstamp < e.tstamp
    BY <1>7
  <2> HIDE DEF d, g, T, replaces
  <2>4. Held(T, d.cache)
    BY <1>2, <1>5, <2>1, <2>2 DEF Held
  <2>5. ASSUME Newest(S, c.cache) PROVE Newest(T, d.cache)
    <3> SUFFICES ASSUME NEW x \in T, x.name # NoName, Saveable(T, GroupOf(x))
                 PROVE  /\ GroupOf(x) \in DOMAIN d.cache
                        /\ d.cache[GroupOf(x)].tstamp >= x.tstamp
      BY DEF Newest
    <3>1. CASE x = e
      <4>1. e.tstamp \in Int
        BY DEF IsContact
      <4> QED
        BY <2>1, <2>2, <3>1, <4>1
    <3>2. CASE x \in S
      <4>1. /\ GroupOf(x) \in DOMAIN c.cache
            /\ c.cache[GroupOf(x)].tstamp >= x.tstamp
        BY <1>6, <2>5, <3>2 DEF Newest
      <4>2. CASE GroupOf(x) # g
        BY <2>1, <4>1, <4>2
      <4>3. CASE GroupOf(x) = g
        <5>1. c.cache[g].tstamp \in Int /\ x.tstamp \in Int /\ e.tstamp \in Int
          BY <1>4, <3>2, <4>1, <4>3 DEF Added, Held, IsContact
        <5> QED
          BY <2>1, <2>3, <4>1, <4>3, <5>1
      <4> QED
        BY <4>2, <4>3
    <3> QED
      BY <2>2, <3>1, <3>2
  <2> QED
    BY <1>4, <2>1, <2>2, <2>4, <2>5 DEF Added, d, T, g
<1>8. CASE ~replaces
  <2>1. d = c
    BY <1>1, <1>8
  <2>2. g \in DOMAIN c.cache
    BY <1>8
  <2>3. e.name # NoName => c.cache[g].tstamp >= e.tstamp
    <3>1. c.cache[g].tstamp \in Int /\ e.tstamp \in Int
      BY <2>2 DEF Added, Held, IsContact
    <3> QED
      BY <1>8, <3>1
  <2>4. g = GroupOf(e) /\ T = S \cup {e}
    OBVIOUS
  <2> HIDE DEF g, T, d, replaces
  <2>5. Newest(S, c.cache) => Newest(T, c.cache)
    BY <1>6, <2>2, <2>3, <2>4 DEF Newest
  <2> QED
    BY <1>4, <1>5, <2>1, <2>2, <2>4, <2>5 DEF Added, d, T, g
<1> QED
  BY <1>7, <1>8


-----------------------------------------------------------------------------
(* The contacts of a message, folded into the cache.                       *)

\* What one contact of the message does to the cache c.
WithContact(b, c, i) ==
  IF i \in Listed(b) THEN AddContact(c, Info(b, i)) ELSE c

\* h[i] is the cache after the first i contacts, of k.
Folds(b, k, h) ==
  h = [i \in 0..k |-> IF i = 0 THEN [cache |-> cache, dirty |-> dirty]
                      ELSE WithContact(b, h[i - 1], i)]

\* The recursive definition has a value: the least k without one would have
\* one after all, got from that of k - 1.
LEMMA FoldExists ==
  ASSUME NEW b \in Bodies, NEW n \in Nat
  PROVE  \E h : Folds(b, n, h)
<1> DEFINE Bad == {k \in Nat : ~\E h : Folds(b, k, h)}
<1>1. SUFFICES ASSUME Bad # {} PROVE FALSE
  OBVIOUS
<1>2. PICK k \in Bad : \A j \in Bad : k <= j
  BY <1>1, LeastNat
<1>3. k \in Nat /\ ~\E h : Folds(b, k, h)
  OBVIOUS
<1>4. \A j \in Nat : j < k => \E h : Folds(b, j, h)
  <2> SUFFICES ASSUME NEW j \in Nat, j < k PROVE j \notin Bad
    OBVIOUS
  <2> HIDE DEF Bad
  <2> QED
    BY <1>2, <1>3
<1> HIDE DEF Bad
<1>5. CASE k = 0
  <2> DEFINE h == [i \in 0..0 |-> [cache |-> cache, dirty |-> dirty]]
  <2>1. Folds(b, 0, h)
    BY DEF Folds
  <2> QED
    BY <1>3, <1>5, <2>1
<1>6. CASE k # 0
  <2>1. k - 1 \in Nat /\ k - 1 < k
    BY <1>3, <1>6
  <2>2. PICK g : Folds(b, k - 1, g)
    BY <1>4, <2>1
  <2> DEFINE h == [i \in 0..k |-> IF i = k THEN WithContact(b, g[k - 1], k)
                                  ELSE g[i]]
             r == [i \in 0..k |-> IF i = 0 THEN [cache |-> cache, dirty |-> dirty]
                                  ELSE WithContact(b, h[i - 1], i)]
  <2>3. \A i \in 0..k : h[i] = r[i]
    <3> SUFFICES ASSUME NEW i \in 0..k PROVE h[i] = r[i]
      OBVIOUS
    <3>1. CASE i = k
      <4>1. k - 1 \in 0..k /\ k - 1 # k
        BY <1>3, <2>1
      <4> QED
        BY <1>6, <3>1, <4>1
    <3>2. CASE i # k
      <4>1. i \in 0..(k - 1)
        BY <1>3, <3>2
      <4>2. g[i] = IF i = 0 THEN [cache |-> cache, dirty |-> dirty]
                   ELSE WithContact(b, g[i - 1], i)
        BY <2>2, <4>1 DEF Folds
      <4>3. CASE i = 0
        BY <3>2, <4>2, <4>3
      <4>4. CASE i # 0
        <5>1. i - 1 \in 0..k /\ i - 1 # k
          BY <1>3, <4>1, <4>4
        <5> QED
          BY <3>2, <4>2, <4>4, <5>1
      <4> QED
        BY <4>3, <4>4
    <3> QED
      BY <3>1, <3>2
  <2>4. h = r
    BY <2>3
  <2>5. Folds(b, k, h)
    BY <2>4 DEF Folds
  <2> QED
    BY <1>3, <2>5
<1> QED
  BY <1>5, <1>6

SeenTo(b, i) == seen \cup {Info(b, j) : j \in Listed(b) \cap (1..i)}

\* What the first i contacts have done to the cache c.
FoldInv(b, c, i) ==
  /\ Added(SeenTo(b, i), c)
  /\ DOMAIN cache \subseteq DOMAIN c.cache
  /\ \A j \in Listed(b) \cap (1..i) : GroupOf(Info(b, j)) \in DOMAIN c.cache
  /\ ~c.dirty => c.cache = cache /\ ~dirty
  /\ Newest(seen, cache) => Newest(SeenTo(b, i), c.cache)

LEMMA InfoIsContact ==
  ASSUME NEW b \in Bodies, NEW i
  PROVE  IsContact(Info(b, i)) /\ Info(b, i).tstamp \in Times
BY MailsAssumption DEF IsContact, Info, ContactInfo, Times

LEMMA FoldStep ==
  ASSUME NEW b \in Bodies, NEW i \in Nat \ {0}, NEW c, FoldInv(b, c, i - 1)
  PROVE  FoldInv(b, WithContact(b, c, i), i)
<1> DEFINE e == Info(b, i)
           S == SeenTo(b, i - 1)
           d == AddContact(c, e)
<1>1. 1..i = (1..(i - 1)) \cup {i}
  OBVIOUS
<1>2. CASE i \in Listed(b)
  <2>1. SeenTo(b, i) = S \cup {e}
    BY <1>1, <1>2 DEF SeenTo
  <2>2. IsContact(e) /\ Added(S, c)
    BY InfoIsContact DEF FoldInv
  <2>3. WithContact(b, c, i) = d
    BY <1>2 DEF WithContact
  <2>4. /\ DOMAIN cache \subseteq DOMAIN c.cache
        /\ ~c.dirty => c.cache = cache /\ ~dirty
        /\ Newest(seen, cache) => Newest(S, c.cache)
        /\ \A j \in Listed(b) \cap (1..(i - 1)) :
             GroupOf(Info(b, j)) \in DOMAIN c.cache
    BY DEF FoldInv
  <2>5. e = Info(b, i)
    OBVIOUS
  <2> HIDE DEF e, S
  <2>6. /\ Added(S \cup {e}, d)
        /\ DOMAIN c.cache \subseteq DOMAIN d.cache
        /\ GroupOf(e) \in DOMAIN d.cache
        /\ ~d.dirty => d.cache = c.cache /\ ~c.dirty
        /\ Newest(S, c.cache) => Newest(S \cup {e}, d.cache)
    BY <2>2, AddContactKeeps
  <2> HIDE DEF d
  <2>7. \A j \in Listed(b) \cap (1..i) : GroupOf(Info(b, j)) \in DOMAIN d.cache
    BY <1>1, <2>4, <2>5, <2>6
  <2> QED
    BY <2>1, <2>3, <2>4, <2>6, <2>7 DEF FoldInv
<1>3. CASE i \notin Listed(b)
  <2>1. Listed(b) \cap (1..i) = Listed(b) \cap (1..(i - 1))
    BY <1>1, <1>3
  <2>2. SeenTo(b, i) = S
    BY <2>1 DEF SeenTo
  <2> QED
    BY <1>3, <2>1, <2>2 DEF FoldInv, WithContact
<1> QED
  BY <1>2, <1>3

LEMMA FoldKeeps ==
  ASSUME NEW b \in Bodies, NEW n \in Nat, NEW h, Folds(b, n, h),
         FoldInv(b, [cache |-> cache, dirty |-> dirty], 0)
  PROVE  FoldInv(b, h[n], n)
<1> DEFINE Bad == {i \in 0..n : ~FoldInv(b, h[i], i)}
<1>1. SUFFICES ASSUME Bad # {} PROVE FALSE
  <2>1. n \in 0..n
    OBVIOUS
  <2> QED
    BY <1>1, <2>1
<1>2. Bad \in SUBSET Nat
  OBVIOUS
<1>3. PICK i \in Bad : \A j \in Bad : i <= j
  BY <1>1, <1>2, LeastNat
<1>4. i \in 0..n /\ ~FoldInv(b, h[i], i)
  OBVIOUS
<1>5. h[i] = IF i = 0 THEN [cache |-> cache, dirty |-> dirty]
             ELSE WithContact(b, h[i - 1], i)
  BY <1>4 DEF Folds
<1>6. i # 0
  BY <1>4, <1>5
<1>7. i - 1 \in 0..n /\ ~(i <= i - 1)
  BY <1>4, <1>6
<1>8. FoldInv(b, h[i - 1], i - 1)
  BY <1>3, <1>7
<1>9. i \in Nat \ {0}
  BY <1>4, <1>6
<1> HIDE DEF Bad
<1>10. FoldInv(b, WithContact(b, h[i - 1], i), i)
  BY <1>8, <1>9, FoldStep
<1> QED
  BY <1>4, <1>5, <1>6, <1>10

LEMMA NewDocKeeps ==
  ASSUME CacheInv, NEW b \in Bodies, NewDocFromMessage(b)
  PROVE  /\ dirty' \in BOOLEAN
         /\ Held(seen', cache')
         /\ \A x \in seen' : IsContact(x) /\ x.tstamp \in Times
         /\ DOMAIN cache \subseteq DOMAIN cache'
         /\ \A i \in Listed(b) :
              EncodeEmailAddress(Contacts(b)[i].address) \in DOMAIN cache'
         /\ ~dirty' => cache' = cache /\ ~dirty
         /\ Newest(seen, cache) => Newest(seen', cache')
         /\ seen \subseteq seen'
<1> DEFINE n == Len(Contacts(b))
           c == [cache |-> cache, dirty |-> dirty]
<1>1. PICK h : Folds(b, n, h) /\ cache' = h[n].cache /\ dirty' = h[n].dirty
  <2> DEFINE h == CHOOSE f : Folds(b, n, f)
  <2>1. n \in Nat
    BY MailsAssumption DEF Contacts
  <2>2. Folds(b, n, h)
    BY <2>1, FoldExists
  <2>3. cache' = h[n].cache /\ dirty' = h[n].dirty
    BY DEF NewDocFromMessage, Folds, WithContact
  <2> QED
    BY <2>2, <2>3
<1>2. n \in Nat /\ DOMAIN Contacts(b) = 1..n
  BY MailsAssumption DEF Contacts
<1>3. Listed(b) \cap (1..n) = Listed(b) /\ Listed(b) \cap (1..0) = {}
  BY <1>2 DEF Listed, ListedOf
<1>4. seen' = SeenTo(b, n) /\ seen = SeenTo(b, 0)
  BY <1>3 DEF NewDocFromMessage, SeenTo
<1>5. FoldInv(b, c, 0)
  BY <1>3, <1>4 DEF FoldInv, Added, CacheInv
<1>6. FoldInv(b, h[n], n)
  BY <1>1, <1>2, <1>5, FoldKeeps
<1>7. \A i : GroupOf(Info(b, i)) = EncodeEmailAddress(Contacts(b)[i].address)
  BY DEF GroupOf, Info, ContactInfo
<1>8. \A x \in seen' : IsContact(x) /\ x.tstamp \in Times
  BY InfoIsContact DEF NewDocFromMessage, CacheInv
<1>9. seen \subseteq seen'
  BY DEF NewDocFromMessage
<1> HIDE DEF n
<1> QED
  BY <1>1, <1>3, <1>4, <1>6, <1>7, <1>8, <1>9 DEF FoldInv, Added

-----------------------------------------------------------------------------
(* The inductive step, an action at a time.                                *)

LEMMA HeldMore ==
  ASSUME NEW S, NEW T, S \subseteq T, NEW f, Held(S, f)
  PROVE  Held(T, f)
BY DEF Held, Heard

LEMMA CoversMore ==
  ASSUME NEW f, NEW g, DOMAIN f \subseteq DOMAIN g, NEW c, Covers(f, c)
  PROVE  Covers(g, c)
BY DEF Covers

LEMMA InitCacheInv == CacheInit => CacheInv
<1> SUFFICES ASSUME CacheInit PROVE CacheInv
  OBVIOUS
<1>1. DOMAIN NoContacts = {}
  BY DEF NoContacts
<1>2. Held(seen, NoContacts)
  BY <1>1 DEF Held
<1>3. seen = {} /\ cache = NoContacts /\ dirty = FALSE /\ lost = FALSE
      /\ ~isOpen /\ (file # Broken => file = NoContacts)
  BY DEF CacheInit, Init
<1>4. Newest(seen, Known)
  BY <1>3 DEF Newest
<1>5. store.work.docs = {} /\ store.disk.docs = {}
  BY DEF CacheInit, Init, FirstDisk, EmptyContent
<1>6. Covers(Known, store.work) /\ Covers(Known, store.disk)
  BY <1>5 DEF Covers
<1>7. badSaves \in 0..SaveFaults
  BY IntAssumption DEF CacheInit
<1> QED
  BY <1>2, <1>3, <1>4, <1>6, <1>7 DEF CacheInv

LEMMA OpenCacheInv ==
  ASSUME ContactsInv, NEW rebuild \in BOOLEAN, NEW my,
         OpenWithContacts(rebuild, my)
  PROVE  CacheInv'
<1>1. /\ file # Broken /\ ~isOpen /\ Open(rebuild)
      /\ UNCHANGED <<dirty, file, badSaves, lost, seen>>
  BY DEF OpenWithContacts, Open
<1>2. CacheInv /\ store \in Stores
  BY DEF ContactsInv, IInv, TypeOK
<1>3. CASE OpenWritable(store, rebuild) = {}
  <2>1. UNCHANGED <<store, isOpen, cache>>
    BY <1>1, <1>3 DEF OpenWithContacts, Open
  <2>2. Known' = Known
    BY <1>1, <2>1 DEF Known
  <2> QED
    BY <1>1, <1>2, <2>1, <2>2 DEF CacheInv, Covers
<1>4. CASE OpenWritable(store, rebuild) # {}
  <2>1. /\ isOpen' = TRUE /\ store' \in OpenWritable(store, rebuild)
        /\ cache' = file
    BY <1>1, <1>4 DEF OpenWithContacts, Open
  <2>2. store'.disk \in {store.disk, EmptyContent}
        /\ store'.work = [store'.disk EXCEPT !.version = "current"]
    BY <1>2, <2>1, OpenFrame
  <2>3. store'.disk \in Contents
    BY <1>2, <2>2, ContentsEmpty DEF Stores
  <2>4. store'.work.docs = store'.disk.docs
    BY <2>2, <2>3 DEF Contents
  <2>5. store'.disk.docs \subseteq store.disk.docs
    BY <2>2 DEF EmptyContent
  <2>6. Known = file /\ Known' = file
    BY <1>1, <2>1 DEF Known
  <2>7. ~lost => Covers(file, store.disk) /\ Newest(seen, file)
    BY <1>1, <1>2, <2>6 DEF CacheInv
  <2>8. ~lost => Covers(file, store'.disk) /\ Covers(file, store'.work)
    BY <2>4, <2>5, <2>7 DEF Covers
  <2>9. ~dirty /\ Held(seen, file)
    BY <1>1, <1>2 DEF CacheInv
  <2>10. (~lost /\ file # Broken =>
            Covers(Known, store.work) /\ Covers(Known, store.disk)
              /\ Newest(seen, Known))'
    BY <1>1, <2>6, <2>7, <2>8
  <2> QED
    BY <1>1, <1>2, <2>1, <2>9, <2>10 DEF CacheInv
<1> QED
  BY <1>3, <1>4

LEMMA BrokenCacheInv ==
  ASSUME ContactsInv, NEW rebuild \in BOOLEAN, OpenWithBrokenContacts(rebuild)
  PROVE  CacheInv'
<1>1. file = Broken /\ UNCHANGED <<isOpen, cacheVars>>
  BY DEF OpenWithBrokenContacts
<1> QED
  BY <1>1 DEF ContactsInv, CacheInv, cacheVars

\* A document that is made and stored, or made and lost again.
LEMMA StoredCacheInv ==
  ASSUME ContactsInv, NEW b \in Bodies, NewDocFromMessage(b), isOpen, isOpen',
         \A c \in {store'.work, store'.disk} :
           \E e \in {store.work, store.disk} :
             \A d \in c.docs : d \in e.docs \/ d.body = b
  PROVE  CacheInv'
<1>1. CacheInv /\ UNCHANGED <<file, lost, badSaves>>
  BY DEF ContactsInv, NewDocFromMessage
<1>2. /\ dirty' \in BOOLEAN
      /\ Held(seen', cache')
      /\ \A x \in seen' : IsContact(x) /\ x.tstamp \in Times
      /\ DOMAIN cache \subseteq DOMAIN cache'
      /\ \A i \in Listed(b) :
           EncodeEmailAddress(Contacts(b)[i].address) \in DOMAIN cache'
      /\ ~dirty' => cache' = cache /\ ~dirty
      /\ Newest(seen, cache) => Newest(seen', cache')
      /\ seen \subseteq seen'
  BY <1>1, NewDocKeeps
<1>3. file # Broken /\ Held(seen, file) /\ (~dirty => cache = file)
  BY <1>1 DEF CacheInv
<1>4. Known = cache /\ Known' = cache'
  BY DEF Known
<1>5. Held(seen', file)
  BY <1>2, <1>3, HeldMore
<1>6. ASSUME ~lost
      PROVE  /\ Covers(cache', store'.work) /\ Covers(cache', store'.disk)
             /\ Newest(seen', cache')
  <2>1. /\ Covers(cache, store.work) /\ Covers(cache, store.disk)
        /\ Newest(seen, cache)
    BY <1>1, <1>3, <1>4, <1>6 DEF CacheInv
  <2>2. ASSUME NEW c \in {store'.work, store'.disk} PROVE Covers(cache', c)
    <3>1. PICK e \in {store.work, store.disk} :
                  \A d \in c.docs : d \in e.docs \/ d.body = b
      OBVIOUS
    <3>2. Covers(cache', e)
      BY <1>2, <2>1, CoversMore
    <3> QED
      BY <1>2, <3>1, <3>2 DEF Covers
  <2> QED
    BY <1>2, <2>1, <2>2
<1>7. (~lost /\ file # Broken =>
         Covers(Known, store.work) /\ Covers(Known, store.disk)
           /\ Newest(seen, Known))'
  BY <1>1, <1>4, <1>6
<1>8. badSaves' \in 0..SaveFaults /\ lost' \in BOOLEAN
  BY <1>1 DEF CacheInv
<1>9. ~dirty' => cache' = file'
  BY <1>1, <1>2, <1>3
<1> QED
  BY <1>1, <1>2, <1>3, <1>5, <1>7, <1>8, <1>9 DEF CacheInv

LEMMA AddCacheInv ==
  ASSUME ContactsInv, NEW p \in Paths, NEW b \in Bodies, AddWithContacts(p, b)
  PROVE  CacheInv'
<1>1. isOpen /\ isOpen' /\ NewDocFromMessage(b) /\ GoodStore(store)
  BY IInvGood DEF AddWithContacts, Add, ContactsInv
<1>2. PICK o \in AddMsg(store, p, b) : store' = o.s
  BY DEF AddWithContacts, Add
<1>3. \A c \in {store'.work, store'.disk} :
        \/ c \in {store.work, store.disk}
        \/ \E e \in {store.work, store.disk} : \E id \in IdsForTerm(e, p) :
             c = ReplaceByTerm(e, id, p, b)
  BY <1>1, <1>2, AddOutcome
<1>4. store.work \in Contents /\ store.disk \in Contents
  BY <1>1 DEF GoodStore, Stores
<1>5. ASSUME NEW e \in Contents, NEW id, NEW d \in ReplaceByTerm(e, id, p, b).docs
      PROVE  d \in e.docs \/ d.body = b
  BY DEF ReplaceByTerm, Doc, Contents
<1>6. \A c \in {store'.work, store'.disk} :
        \E e \in {store.work, store.disk} :
          \A d \in c.docs : d \in e.docs \/ d.body = b
  BY <1>3, <1>4, <1>5
<1> QED
  BY <1>1, <1>6, StoredCacheInv

LEMMA UpdateCacheInv ==
  ASSUME ContactsInv, NEW id \in DocIds, NEW p \in Paths, NEW b \in Bodies,
         UpdateWithContacts(id, p, b)
  PROVE  CacheInv'
<1>1. isOpen /\ isOpen' /\ NewDocFromMessage(b) /\ GoodStore(store)
  BY IInvGood DEF UpdateWithContacts, Update, ContactsInv
<1>2. PICK o \in UpdateMsg(store, id, p, b) : store' = o.s
  BY DEF UpdateWithContacts, Update
<1>3. \A c \in {store'.work, store'.disk} :
        \/ c \in {store.work, store.disk}
        \/ \E e \in {store.work, store.disk} : c = ReplaceById(e, id, p, b)
  BY <1>1, <1>2, UpdateOutcome
<1>4. store.work \in Contents /\ store.disk \in Contents
  BY <1>1 DEF GoodStore, Stores
<1>5. ASSUME NEW e \in Contents, NEW d \in ReplaceById(e, id, p, b).docs
      PROVE  d \in e.docs \/ d.body = b
  BY DEF ReplaceById, Doc, Contents
<1>6. \A c \in {store'.work, store'.disk} :
        \E e \in {store.work, store.disk} :
          \A d \in c.docs : d \in e.docs \/ d.body = b
  BY <1>3, <1>4, <1>5
<1> QED
  BY <1>1, <1>6, StoredCacheInv

\* Calls that touch neither the cache nor the file, and add no document.
LEMMA FewerDocsCacheInv ==
  ASSUME CacheInv, UNCHANGED <<isOpen, cacheVars>>,
         \A c \in {store'.work, store'.disk} :
           \E e \in {store.work, store.disk} : c.docs \subseteq e.docs
  PROVE  CacheInv'
<1>1. Known' = Known
  BY DEF Known, cacheVars
<1>2. ~lost /\ file # Broken =>
         Covers(Known, store'.work) /\ Covers(Known, store'.disk)
  BY DEF CacheInv, Covers
<1>3. (~lost /\ file # Broken =>
         Covers(Known, store.work) /\ Covers(Known, store.disk)
           /\ Newest(seen, Known))'
  BY <1>1, <1>2 DEF CacheInv, cacheVars
<1> QED
  BY <1>3 DEF CacheInv, cacheVars

LEMMA RemoveCacheInv ==
  ASSUME ContactsInv, NEW p \in Paths, RemoveWithContacts(p)
  PROVE  CacheInv'
<1>1. GoodStore(store) /\ CacheInv /\ UNCHANGED <<isOpen, cacheVars>>
  BY IInvGood DEF RemoveWithContacts, Remove, ContactsInv
<1>2. PICK o \in RemovePath(store, p) : store' = o.s
  BY DEF RemoveWithContacts, Remove
<1>3. /\ store'.disk = store.disk
      /\ store'.work \in {DeleteByTerm(store.work, p), store.disk}
  BY <1>1, <1>2, RemoveFrame
<1>4. store.work \in Contents
  BY <1>1 DEF GoodStore, Stores
<1>5. DeleteByTerm(store.work, p).docs \subseteq store.work.docs
  BY <1>4 DEF DeleteByTerm, Contents
<1> QED
  BY <1>1, <1>3, <1>5, FewerDocsCacheInv

LEMMA FlushCacheInv ==
  ASSUME ContactsInv, FlushWithContacts
  PROVE  CacheInv'
<1>1. GoodStore(store) /\ CacheInv /\ UNCHANGED <<isOpen, cacheVars>>
      /\ store' \in StoreFlush(store)
  BY IInvGood DEF FlushWithContacts, Flush, ContactsInv
<1>2. Kept(store, store')
  BY <1>1, KeptFlush
<1> QED
  BY <1>1, <1>2, FewerDocsCacheInv DEF Kept

\* The contents that are left when the process ends are one of those it had.
LEMMA EndedContents ==
  ASSUME IInv, Close \/ Crash
  PROVE  /\ ~isOpen' /\ isOpen
         /\ store'.work \in {store.work, store.disk}
         /\ store'.disk \in {store.work, store.disk}
<1>1. GoodStore(store) /\ store \in Stores
  BY IInvGood DEF GoodStore
<1>2. CASE Crash
  BY <1>1, <1>2, UnopenedFrame DEF Crash
<1>3. CASE Close
  <2>1. PICK s \in StoreFlush(store) : store' = Unopened(s)
    BY <1>3 DEF Close
  <2>2. Kept(store, s) /\ s \in Stores
    BY <1>1, KeptFlush, GoodFlush DEF GoodStore
  <2>3. store'.work = s.disk /\ store'.disk = s.disk
    BY <2>1, <2>2, UnopenedFrame
  <2> QED
    BY <1>3, <2>2, <2>3 DEF Kept, Close
<1> QED
  BY <1>2, <1>3

\* What the file is afterwards, when nothing new was lost, or a dirty cache
\* was written.
LEMMA EndedCacheInv ==
  ASSUME ContactsInv, Close \/ Crash, NEW wrote \in BOOLEAN, Forget(wrote),
         badSaves' \in 0..SaveFaults, file' # Broken => Held(seen, file'),
         ~lost /\ (dirty => wrote) =>
           DOMAIN cache \subseteq DOMAIN file'
             /\ (Newest(seen, cache) => Newest(seen, file'))
  PROVE  CacheInv'
<1>1. /\ isOpen /\ ~isOpen'
      /\ store'.work \in {store.work, store.disk}
      /\ store'.disk \in {store.work, store.disk}
  BY EndedContents DEF ContactsInv
<1>2. /\ cache' = NoContacts /\ dirty' = FALSE /\ seen' = seen
      /\ lost' = (lost \/ (dirty /\ ~wrote))
  BY DEF Forget
<1>3. CacheInv /\ file # Broken
  BY <1>1 DEF ContactsInv, CacheInv
<1>4. Known = cache /\ Known' = file'
  BY <1>1 DEF Known
<1>5. ASSUME ~lost'
      PROVE  /\ Covers(file', store'.work) /\ Covers(file', store'.disk)
             /\ Newest(seen, file')
  <2>1. ~lost /\ (dirty => wrote)
    BY <1>2, <1>5
  <2>2. /\ Covers(cache, store.work) /\ Covers(cache, store.disk)
        /\ Newest(seen, cache)
    BY <1>3, <1>4, <2>1 DEF CacheInv
  <2>3. Covers(file', store.work) /\ Covers(file', store.disk)
    BY <2>1, <2>2, CoversMore
  <2> QED
    BY <1>1, <2>1, <2>2, <2>3
<1>6. (~lost /\ file # Broken =>
         Covers(Known, store.work) /\ Covers(Known, store.disk)
           /\ Newest(seen, Known))'
  BY <1>2, <1>4, <1>5
<1>7. lost' \in BOOLEAN /\ dirty' \in BOOLEAN
  BY <1>2
<1>8. Held(seen', cache')
  <2>1. DOMAIN NoContacts = {}
    BY DEF NoContacts
  <2> QED
    BY <1>2, <2>1 DEF Held
<1>9. /\ \A x \in seen' : IsContact(x) /\ x.tstamp \in Times
      /\ file' # Broken => Held(seen', file')
  BY <1>2, <1>3 DEF CacheInv
<1> QED
  BY <1>1, <1>2, <1>6, <1>7, <1>8, <1>9 DEF CacheInv

LEMMA CrashCacheInv ==
  ASSUME ContactsInv, CrashWithContacts
  PROVE  CacheInv'
<1>1. Crash /\ Forget(FALSE) /\ UNCHANGED <<file, badSaves>> /\ CacheInv
  BY DEF CrashWithContacts, ContactsInv
<1>2. isOpen /\ (~dirty => cache = file)
  BY <1>1 DEF Crash, CacheInv
<1>3. badSaves' \in 0..SaveFaults /\ (file' # Broken => Held(seen, file'))
  BY <1>1 DEF CacheInv
<1> QED
  BY <1>1, <1>2, <1>3, EndedCacheInv

LEMMA SavedHeld ==
  ASSUME NEW S, \A x \in S : IsContact(x),
         NEW f, NEW c, Held(S, f), Held(S, c)
  PROVE  Held(S, Serialized(f, c))
<1> DEFINE s == Serialized(f, c)
<1> SUFFICES ASSUME NEW g \in DOMAIN s
             PROVE  IsContact(s[g]) /\ GroupOf(s[g]) = g /\ Heard(S, s[g])
  BY DEF Held
<1>1. DOMAIN s = DOMAIN c \cup DOMAIN f
  BY DEF Serialized
<1>2. CASE g \in DOMAIN c
  <2>1. s[g] = KeyValue(c[g])
    BY <1>2 DEF Serialized
  <2>2. IsContact(c[g]) /\ GroupOf(c[g]) = g /\ Heard(S, c[g])
    BY <1>2 DEF Held
  <2> DEFINE e == c[g]
             t == AsInt(e.tstamp)
  <2>3. e = ContactInfo(e.email, e.name, e.personal, e.tstamp) /\ e.tstamp \in Int
    BY <2>2 DEF IsContact
  <2>4. KeyValue(e) = [e EXCEPT !.tstamp = t]
    BY DEF KeyValue
  <2>5. t \in Int /\ AsInt(t) = t
    BY <2>3, AsIntBounds
  <2>6. PICK x \in S : /\ x.email = e.email /\ x.name = e.name
                       /\ x.personal = e.personal
                       /\ e.tstamp \in {x.tstamp, AsInt(x.tstamp)}
    BY <2>2 DEF Heard
  <2>7. AsInt(AsInt(x.tstamp)) = AsInt(x.tstamp)
    BY AsIntBounds DEF IsContact
  <2>8. t \in {x.tstamp, AsInt(x.tstamp)}
    BY <2>6, <2>7
  <2> HIDE DEF e, t
  <2> QED
    BY <2>1, <2>2, <2>3, <2>4, <2>5, <2>6, <2>8
       DEF e, IsContact, GroupOf, Heard, ContactInfo
<1>3. CASE g \notin DOMAIN c
  <2>1. s[g] = f[g] /\ g \in DOMAIN f
    BY <1>1, <1>3 DEF Serialized
  <2> QED
    BY <2>1 DEF Held
<1> QED
  BY <1>2, <1>3

\* A time that can be saved does not become an earlier one.
LEMMA SavedNewest ==
  ASSUME NEW S, \A x \in S : IsContact(x),
         NEW f, NEW c, Held(S, c), Newest(S, c)
  PROVE  Newest(S, Serialized(f, c))
<1> DEFINE s == Serialized(f, c)
<1> SUFFICES ASSUME NEW x \in S, x.name # NoName, Saveable(S, GroupOf(x))
             PROVE  /\ GroupOf(x) \in DOMAIN s
                    /\ s[GroupOf(x)].tstamp >= x.tstamp
  BY DEF Newest
<1> DEFINE g == GroupOf(x)
           e == c[g]
<1>1. g \in DOMAIN c /\ e.tstamp >= x.tstamp
  BY DEF Newest
<1>2. g \in DOMAIN s /\ s[g] = KeyValue(e)
  BY <1>1 DEF Serialized
<1>3. IsContact(e) /\ GroupOf(e) = g /\ Heard(S, e)
  BY <1>1 DEF Held
<1>4. PICK y \in S : y.email = e.email /\ e.tstamp \in {y.tstamp, AsInt(y.tstamp)}
  BY <1>3 DEF Heard
<1>5. y.tstamp < IntLimit
  BY <1>3, <1>4 DEF Saveable, GroupOf
<1>6. e.tstamp \in Int /\ x.tstamp \in Int /\ y.tstamp \in Int
  BY <1>3 DEF IsContact
<1>7. e.tstamp < IntLimit
  BY <1>4, <1>5, <1>6, AsIntBounds
<1>8. AsInt(e.tstamp) >= e.tstamp /\ AsInt(e.tstamp) \in Int
  BY <1>6, <1>7, AsIntBounds
<1>9. s[g].tstamp = AsInt(e.tstamp)
  <2>1. e = ContactInfo(e.email, e.name, e.personal, e.tstamp)
    BY <1>3 DEF IsContact
  <2> HIDE DEF e
  <2> QED
    BY <1>2, <2>1 DEF KeyValue, ContactInfo
<1> HIDE DEF e, s, g
<1> QED
  BY <1>1, <1>2, <1>6, <1>8, <1>9 DEF g

LEMMA CloseCacheInv ==
  ASSUME ContactsInv, CloseWithContacts
  PROVE  CacheInv'
<1>1. Close /\ CacheInv /\ isOpen
  BY DEF CloseWithContacts, ContactsInv, Close
<1>2. /\ file # Broken /\ Held(seen, file) /\ Held(seen, cache)
      /\ ~dirty => cache = file
      /\ \A x \in seen : IsContact(x)
      /\ badSaves \in 0..SaveFaults
  BY <1>1 DEF CacheInv
<1>3. CASE /\ file' = IF dirty THEN Serialized(file, cache) ELSE file
           /\ Forget(TRUE)
           /\ UNCHANGED badSaves
  <2>1. CASE dirty
    <3>1. Held(seen, file') /\ DOMAIN cache \subseteq DOMAIN file'
      BY <1>2, <1>3, <2>1, SavedHeld DEF Serialized
    <3>2. Newest(seen, cache) => Newest(seen, file')
      BY <1>2, <1>3, <2>1, SavedNewest
    <3>3. badSaves' \in 0..SaveFaults
      BY <1>2, <1>3
    <3> QED
      BY <1>1, <1>3, <3>1, <3>2, <3>3, EndedCacheInv
  <2>2. CASE ~dirty
    <3>1. file' = cache /\ seen' = seen /\ badSaves' \in 0..SaveFaults
      BY <1>2, <1>3, <2>2 DEF Forget
    <3> QED
      BY <1>1, <1>2, <1>3, <3>1, EndedCacheInv
  <2> QED
    BY <2>1, <2>2
<1>4. CASE /\ dirty
           /\ badSaves > 0
           /\ badSaves' = badSaves - 1
           /\ Forget(FALSE)
           /\ UNCHANGED file
  <2>1. badSaves' \in 0..SaveFaults
    BY <1>2, <1>4, IntAssumption
  <2> QED
    BY <1>1, <1>2, <1>4, <2>1, EndedCacheInv
<1> QED
  BY <1>3, <1>4 DEF CloseWithContacts

LEMMA StepContactsInv ==
  ContactsInv /\ [CacheNext]_<<vars, cacheVars>> => ContactsInv'
<1> SUFFICES ASSUME ContactsInv, [CacheNext]_<<vars, cacheVars>>
             PROVE  CacheInv'
  BY CacheStepIInv DEF ContactsInv
<1>1. CASE UNCHANGED <<vars, cacheVars>>
  <2>1. /\ isOpen' = isOpen /\ dirty' = dirty /\ lost' = lost /\ file' = file
        /\ badSaves' = badSaves /\ seen' = seen /\ cache' = cache
        /\ store' = store
    BY <1>1 DEF vars, cacheVars
  <2>2. Known' = Known
    BY <2>1 DEF Known
  <2> QED
    BY <2>1, <2>2 DEF ContactsInv, CacheInv
<1> QED
  BY <1>1, OpenCacheInv, BrokenCacheInv, AddCacheInv, UpdateCacheInv,
     RemoveCacheInv, FlushCacheInv, CloseCacheInv, CrashCacheInv
     DEF CacheNext

\* Whatever batches are rolled back, messages replaced or processes started
\* again, and as long as no contacts were lost in a kill or a failed save: for
\* every address of a stored message its group has an entry, shared by the
\* addresses whose keys are encoded alike, and, if all dates of the group fit
\* in an int, one no older than any named contact that was seen (mu-contacts.c
\* mu_contacts_add, serialize_cache; mu-store-write.cc new_doc_from_message).
THEOREM ContactsKept == CacheSpec => []ContactsAreKept
<1>1. CacheInit => ContactsInv
  BY InitIInv, InitCacheInv DEF CacheInit, ContactsInv
<1>2. ContactsInv => ContactsAreKept
  <2> SUFFICES ASSUME CacheInv PROVE ContactsAreKept
    BY DEF ContactsInv
  <2>1. ContactsTypeOK
    BY DEF CacheInv, ContactsTypeOK, UnderItsGroup, Held, GroupOf
  <2>2. StoredContactsAreKnown
    BY DEF CacheInv, StoredContactsAreKnown, Covers
  <2>3. NewestNameStays
    <3> SUFFICES ASSUME file # Broken, ~lost, NEW e \in seen, e.name # NoName,
                        \A x \in InGroup(GroupOf(e)) : x.tstamp < IntLimit
                 PROVE  /\ GroupOf(e) \in DOMAIN Known
                        /\ Known[GroupOf(e)].tstamp >= e.tstamp
      BY DEF NewestNameStays, GroupOf
    <3>1. Saveable(seen, GroupOf(e))
      BY DEF Saveable, InGroup, GroupOf
    <3>2. Newest(seen, Known)
      BY DEF CacheInv
    <3> QED
      BY <3>1, <3>2 DEF Newest
  <2> QED
    BY <2>1, <2>2, <2>3 DEF ContactsAreKept
<1> QED
  BY <1>1, <1>2, StepContactsInv, PTL DEF CacheSpec

\* What mu cfind and mu4e list was seen in a message, a personal one when
\* personal contacts are asked for, and after the time that is asked for, if
\* no date lies so far back that its int wraps around to a later time
\* (mu-contacts.c each_keyval; mu-cmd-cfind.c each_contact, mu-cmd-server.c
\* each_contact_sexp).
THEOREM ListedSeen ==
  (\A b \in Bodies : Mails[b].date >= -IntLimit) /\ CacheSpec => []ListedWasSeen
<1> SUFFICES ASSUME \A b \in Bodies : Mails[b].date >= -IntLimit
             PROVE  CacheSpec => []ListedWasSeen
  OBVIOUS
<1>1. CacheInit => ContactsInv
  BY InitIInv, InitCacheInv DEF CacheInit, ContactsInv
<1>2. ContactsInv => ListedWasSeen
  <2> SUFFICES ASSUME ContactsInv PROVE ListedWasSeen
    OBVIOUS
  <2> SUFFICES ASSUME file # Broken, NEW personal \in BOOLEAN, NEW after \in Times,
                      NEW e \in Foreach(file), Passes(e, personal, after)
               PROVE  WasSeen(e, personal, after)
    BY DEF ListedWasSeen, CmdContacts, CFindAll, CFind, Shown, ForeachMatching
  <2>1. PICK g \in DOMAIN file : e = file[g]
    BY DEF Foreach
  <2>2. IsContact(e) /\ Heard(seen, e)
    BY <2>1 DEF ContactsInv, CacheInv, Held
  <2>3. PICK x \in seen : /\ x.email = e.email /\ x.name = e.name
                          /\ x.personal = e.personal
                          /\ e.tstamp \in {x.tstamp, AsInt(x.tstamp)}
    BY <2>2 DEF Heard
  <2>4. IsContact(x) /\ x.tstamp \in Times
    BY DEF ContactsInv, CacheInv
  <2>5. x.tstamp \in Int /\ x.tstamp >= -IntLimit /\ after \in Int
    BY <2>4, MailsAssumption DEF Times
  <2>6. IntLimit \in Int
    BY IntAssumption
  <2>7. -IntLimit <= x.tstamp
    BY <2>5, <2>6
  <2>8. e.tstamp <= x.tstamp /\ e.tstamp \in Int
    BY <2>3, <2>5, <2>7, AsIntBounds
  <2>9. (personal => e.personal) /\ e.tstamp >= after
    BY DEF Passes
  <2>10. x.tstamp >= after
    BY <2>5, <2>8, <2>9
  <2> QED
    BY <2>3, <2>9, <2>10 DEF WasSeen
<1> QED
  BY <1>1, <1>2, StepContactsInv, PTL DEF CacheSpec


=============================================================================
