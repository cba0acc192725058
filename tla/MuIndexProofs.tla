--------------------------- MODULE MuIndexProofs ----------------------------
(***************************************************************************)
(* Why `mu index' may skip a message that is older than the timestamp of   *)
(* its directory, and why a run that goes all the way leaves a database    *)
(* that mirrors the maildir: for every tree of maildirs and every number   *)
(* of messages, over interrupted and killed runs and writes that throw.    *)
(***************************************************************************)
EXTENDS MuIndex, MuStoreOpsProofs, SequenceTheorems

\* What it takes: messages are in directories called cur or new, and what
\* directories those hold have a .noindex file; nobody changes files while the
\* indexer runs; every change of a file sets its ctime; times fit in the
\* unsigned they are compared in; no commit throws.
Quiet ==
  /\ Paths \cap Dirs = {}
  /\ DirOf \in [Paths -> LeafDirs]
  /\ \A d \in LeafDirs : Subdirs[d] \subseteq NoIndex
  /\ ~EditsDuringRun /\ RenameSetsCtime
  /\ MaxNow < TimeModulus
  /\ CommitFaults = 0

-----------------------------------------------------------------------------
(* The frames of the walk, as sequences.                                   *)

LEMMA Pushed ==
  ASSUME NEW S, NEW s \in Seq(S), NEW e \in S
  PROVE  LET t == <<e>> \o s
         IN  /\ t \in Seq(S) /\ Len(t) = Len(s) + 1 /\ t[1] = e
             /\ \A i \in 1..Len(s) : t[i + 1] = s[i]
             /\ \A i \in 2..Len(t) : t[i] = s[i - 1]
OBVIOUS

LEMMA Popped ==
  ASSUME NEW S, NEW s \in Seq(S), Len(s) > 0
  PROVE  LET t == Tail(s)
         IN  /\ t \in Seq(S) /\ Len(t) = Len(s) - 1
             /\ \A i \in 1..Len(t) : t[i] = s[i + 1]
OBVIOUS

LEMMA ElementOf ==
  ASSUME NEW S, NEW s \in Seq(S), NEW i \in 1..Len(s)
  PROVE  s[i] \in S
OBVIOUS

LEMMA Ticked ==
  ASSUME NEW g \in Frame, NEW x
  PROVE  /\ [g EXCEPT !.todo = @ \ {x}] = [dir |-> g.dir, todo |-> g.todo \ {x}]
         /\ [g EXCEPT !.todo = @ \ {x}] \in Frame
BY DEF Frame

LEMMA VisitOne ==
  ASSUME frames \in Seq(Frame), Len(frames) > 0, NEW x
  PROVE  /\ Visit(x) \in Seq(Frame) /\ Len(Visit(x)) = Len(frames)
         /\ Visit(x)[1] = [dir |-> frames[1].dir, todo |-> frames[1].todo \ {x}]
         /\ \A i \in 2..Len(frames) : Visit(x)[i] = frames[i]
<1> DEFINE f == [frames[1] EXCEPT !.todo = @ \ {x}]
<1>1. frames[1] \in Frame
  <2>1. 1 \in 1..Len(frames)
    OBVIOUS
  <2> QED
    BY <2>1, ElementOf
<1>2. f = [dir |-> frames[1].dir, todo |-> frames[1].todo \ {x}] /\ f \in Frame
  BY <1>1, Ticked
<1> HIDE DEF f
<1> DEFINE t == [frames EXCEPT ![1] = f]
<1>3. Visit(x) = t
  BY DEF Visit, f
<1>4. /\ t \in Seq(Frame) /\ Len(t) = Len(frames) /\ t[1] = f
      /\ \A i \in 2..Len(t) : t[i] = frames[i]
  <2>1. 1 \in 1..Len(frames)
    OBVIOUS
  <2>2. t \in Seq(Frame)
    BY <1>2, <2>1, ExceptSeq
  <2>3. Len(t) = Len(frames)
    BY <1>2, <2>1, ExceptSeq
  <2>4. \A i \in 1..Len(frames) : t[i] = IF i = 1 THEN f ELSE frames[i]
    BY <1>2, <2>1, ExceptSeq
  <2> QED
    BY <2>1, <2>2, <2>3, <2>4
<1> HIDE DEF t
<1> QED
  BY <1>2, <1>3, <1>4

-----------------------------------------------------------------------------
(* The inductive invariant.                                                *)

TypeInv ==
  /\ file \in [Paths -> 0..MaxEdits] /\ edits \in 0..MaxEdits
  /\ ctime \in [Paths -> Nat] /\ now \in 1..MaxNow
  /\ GoodStore(store) /\ store.badCommits = 0
  /\ frames \in Seq(Frame)
  /\ \A p \in Paths : ctime[p] <= now

StampPast(c) == \A d \in Dirs : c.stamps[d] <= now

StampInv == /\ StampsAreSound
            /\ StampPast(store.work) /\ StampPast(store.disk)

\* The messages of a directory that is being processed which were visited are
\* recorded, except the one that is just being looked at.
VisitedCurrent(f) ==
  \A p \in Paths \ TooBig :
    DirOf[p] = f.dir /\ file[p] # 0 /\ p \notin f.todo =>
      Current(store.work, p) \/ (pc = "message" /\ entry.path = p)

\* Only the innermost directory can be one that holds messages.
FrameInv(f, i, n) ==
  IF i = n THEN f.todo \cap Paths = {}
  ELSE /\ f.dir \in Dirs
       /\ f.todo \subseteq {p \in Paths : DirOf[p] = f.dir} \cup Subdirs[f.dir]
       /\ i > 1 => f.dir \notin LeafDirs
       /\ f.dir \notin NoIndex
       /\ VisitedCurrent(f)

MessageInv ==
  pc = "message" =>
    /\ Len(frames) > 1 /\ entry.path \in Paths \ TooBig
    /\ DirOf[entry.path] = frames[1].dir
    /\ entry.ctime = ctime[entry.path] /\ file[entry.path] # 0

WalkInv ==
  /\ (frames = <<>>) <=> (pc \notin {"walk", "message"})
  /\ \A i \in 1..Len(frames) : FrameInv(frames[i], i, Len(frames))
  /\ MessageInv
  /\ Len(frames) > 1 /\ frames[1].dir \in LeafDirs =>
       dirstamp = store.work.stamps[frames[1].dir]

IndexInv == TypeInv /\ StampInv /\ WalkInv

-----------------------------------------------------------------------------
(* Lemmas about the parts of it.                                           *)

LEMMA NoFrames ==
  ASSUME TypeInv', frames' = <<>>, pc' \notin {"walk", "message"}
  PROVE  WalkInv'
BY DEF WalkInv, MessageInv

\* A content that records at least as many files, with the same stamps.
LEMMA SoundGrown ==
  ASSUME NEW c, NEW e, StampSound(c), e.stamps = c.stamps,
         \A p \in Paths : file[p] # 0 /\ Current(c, p) => Current(e, p)
  PROVE  StampSound(e)
BY DEF StampSound, Wanted

SoundContent(c) == StampSound(c) /\ StampPast(c)

\* The stamps of a store are natural numbers.
LEMMA StampsAreNat ==
  ASSUME NEW s, GoodStore(s)
  PROVE  /\ s.work \in Contents /\ s.disk \in Contents
         /\ \A d \in Dirs : s.work.stamps[d] \in Nat /\ s.disk.stamps[d] \in Nat
BY DEF GoodStore, Stores, Contents

\* Steps that end the walk, or come after it.
LEMMA OutsideWalk ==
  ASSUME IndexInv, UNCHANGED <<file, ctime, now, edits>>,
         GoodStore(store'), store'.badCommits = 0,
         SoundContent(store'.work), SoundContent(store'.disk),
         frames' = <<>>, pc' \notin {"walk", "message"}
  PROVE  IndexInv'
<1>1. TypeInv'
  <2>1. <<>> \in Seq(Frame)
    OBVIOUS
  <2> QED
    BY <2>1 DEF IndexInv, TypeInv, GoodStore
<1>2. StampInv'
  BY DEF StampInv, StampsAreSound, SoundContent, StampSound, StampPast, Wanted,
         Current
<1> QED
  BY <1>1, <1>2, NoFrames DEF IndexInv

LEMMA StoreIsSound ==
  ASSUME IndexInv
  PROVE  /\ GoodStore(store) /\ store.badCommits = 0
         /\ SoundContent(store.work) /\ SoundContent(store.disk)
BY DEF IndexInv, TypeInv, StampInv, StampsAreSound, SoundContent

LEMMA OutsideFrames ==
  ASSUME IndexInv, pc \notin {"walk", "message"}
  PROVE  frames = <<>>
BY DEF IndexInv, WalkInv

-----------------------------------------------------------------------------
(* The file system.                                                        *)

\* A file that changed is no older than any stamp.
LEMMA ChangedFiles ==
  ASSUME Quiet, IndexInv, MayEdit, UNCHANGED <<store, pc, frames, now>>,
         file' \in [Paths -> 0..MaxEdits], edits' \in 0..MaxEdits,
         ctime' \in [Paths -> Nat],
         \A x \in Paths :
           \/ ctime'[x] = now
           \/ file'[x] = 0 /\ ctime'[x] <= now
           \/ file'[x] = file[x] /\ ctime'[x] = ctime[x]
  PROVE  IndexInv'
<1>1. frames = <<>> /\ pc = "idle"
  BY OutsideFrames DEF Quiet, MayEdit
<1>2. now \in Nat /\ \A x \in Paths : ctime'[x] <= now
  BY DEF IndexInv, TypeInv
<1>3. TypeInv'
  BY <1>2 DEF IndexInv, TypeInv, GoodStore
<1>4. WalkInv'
  BY <1>1, <1>3, NoFrames
<1>5. ASSUME NEW c, SoundContent(c), \A d \in Dirs : c.stamps[d] \in Nat
      PROVE  StampSound(c)'
  <2> SUFFICES ASSUME NEW x \in Paths \ TooBig, file'[x] # 0,
                      DirOf[x] \notin NoIndex, ctime'[x] < c.stamps[DirOf[x]]
               PROVE  Current(c, x)'
    BY DEF StampSound, Wanted
  <2>1. DirOf[x] \in Dirs
    BY TreeAssumption
  <2>2. ctime'[x] # now
    BY <1>2, <1>5, <2>1 DEF SoundContent, StampPast
  <2>3. file'[x] = file[x] /\ ctime'[x] = ctime[x]
    BY <2>2
  <2> QED
    BY <1>5, <2>3 DEF SoundContent, StampSound, Wanted, Current
<1>6. StampInv'
  <2>1. StampSound(store.work)' /\ StampSound(store.disk)'
    <3>1. \A c : SoundContent(c) /\ (\A d \in Dirs : c.stamps[d] \in Nat)
                   => StampSound(c)'
      BY <1>5
    <3> QED
      BY <3>1, StoreIsSound, StampsAreNat
  <2> QED
    BY <2>1 DEF IndexInv, StampInv, StampsAreSound, StampPast
<1> QED
  BY <1>3, <1>4, <1>6 DEF IndexInv

LEMMA FileStep ==
  ASSUME Quiet, IndexInv,
         \/ \E p \in Paths : Edit(p) \/ Delete(p)
         \/ \E p, q \in Paths : Rename(p, q)
  PROVE  IndexInv'
<1>1. /\ file \in [Paths -> 0..MaxEdits] /\ ctime \in [Paths -> Nat]
      /\ edits \in 0..MaxEdits /\ now \in Nat /\ RenameSetsCtime
      /\ MaxEdits \in Nat
  BY BoundsAssumption DEF IndexInv, TypeInv, Quiet
<1>2. ASSUME NEW p \in Paths, Edit(p) PROVE IndexInv'
  <2>1. edits + 1 \in 0..MaxEdits
    BY <1>1, <1>2 DEF Edit
  <2> QED
    BY <1>1, <1>2, <2>1, ChangedFiles DEF Edit, FilesChanged, walk
<1>3. ASSUME NEW p \in Paths, Delete(p) PROVE IndexInv'
  <2>1. 0 \in 0..MaxEdits
    BY <1>1
  <2> QED
    BY <1>1, <1>3, <2>1, ChangedFiles DEF Delete, FilesChanged, walk
<1>4. ASSUME NEW p \in Paths, NEW q \in Paths, Rename(p, q) PROVE IndexInv'
  <2>1. 0 \in 0..MaxEdits
    BY <1>1
  <2> QED
    BY <1>1, <1>4, <2>1, ChangedFiles DEF Rename, FilesChanged, walk
<1> QED
  BY <1>2, <1>3, <1>4

LEMMA TickStep ==
  ASSUME IndexInv, Tick
  PROVE  IndexInv'
<1>1. now' = now + 1 /\ now \in Nat /\ now' \in 1..MaxNow
  BY BoundsAssumption DEF IndexInv, TypeInv, Tick
<1>2. TypeInv'
  BY <1>1 DEF IndexInv, TypeInv, GoodStore, Tick, walk
<1>3. StampInv'
  <2>1. \A d \in Dirs : store.work.stamps[d] \in Nat /\ store.disk.stamps[d] \in Nat
    BY StoreIsSound, StampsAreNat
  <2> QED
    BY <1>1, <2>1 DEF IndexInv, StampInv, StampsAreSound, StampSound, StampPast,
                      Wanted, Current, Tick
<1>4. WalkInv'
  BY DEF IndexInv, WalkInv, FrameInv, VisitedCurrent, MessageInv, Current, Tick,
         walk
<1> QED
  BY <1>2, <1>3, <1>4 DEF IndexInv

-----------------------------------------------------------------------------
(* After the walk.                                                         *)

\* What is left of a sound content when documents without files are removed.
LEMMA SoundRemoved ==
  ASSUME NEW c \in Contents, SoundContent(c), NEW p \in Paths, file[p] = 0
  PROVE  SoundContent(DeleteByTerm(c, p))
<1>1. /\ DeleteByTerm(c, p).docs = c.docs \ DocsAt(c, p)
      /\ DeleteByTerm(c, p).stamps = c.stamps
  BY DEF DeleteByTerm, Contents
<1>2. \A x \in Paths : file[x] # 0 /\ Current(c, x)
                         => Current(DeleteByTerm(c, p), x)
  BY <1>1 DEF Current, DocsAt
<1> HIDE DEF SoundContent
<1>3. StampSound(DeleteByTerm(c, p))
  BY <1>1, <1>2, SoundGrown DEF SoundContent
<1> QED
  BY <1>1, <1>3 DEF SoundContent, StampPast

LEMMA SoundKept ==
  ASSUME IndexInv, NEW t, GoodStore(t), Kept(store, t)
  PROVE  /\ t.badCommits = 0
         /\ SoundContent(t.work) /\ SoundContent(t.disk)
BY StoreIsSound, QuietKept DEF Kept

LEMMA FlushStep ==
  ASSUME IndexInv, FlushIndex \/ FlushCleanup
  PROVE  IndexInv'
<1>1. GoodStore(store') /\ Kept(store, store')
  BY StoreIsSound, GoodFlush, KeptFlush DEF FlushIndex, FlushCleanup
<1>2. frames' = <<>> /\ pc' \notin {"walk", "message"}
  BY OutsideFrames DEF FlushIndex, FlushCleanup, walk
<1> QED
  BY <1>1, <1>2, SoundKept, OutsideWalk DEF FlushIndex, FlushCleanup, fs

LEMMA UnopenedSound ==
  ASSUME IndexInv, NEW s, GoodStore(s), Kept(store, s)
  PROVE  LET t == Unopened(s)
         IN  /\ GoodStore(t) /\ t.badCommits = 0
             /\ SoundContent(t.work) /\ SoundContent(t.disk)
BY SoundKept, GoodUnopened, UnopenedFrame DEF GoodStore

LEMMA ExitStep ==
  ASSUME IndexInv, Exit
  PROVE  IndexInv'
<1>1. PICK s \in StoreFlush(store) : store' = Unopened(s)
  BY DEF Exit
<1>2. GoodStore(s) /\ Kept(store, s)
  BY StoreIsSound, GoodFlush, KeptFlush
<1>3. frames' = <<>> /\ pc' = "idle"
  BY OutsideFrames DEF Exit, walk
<1> QED
  BY <1>1, <1>2, <1>3, UnopenedSound, OutsideWalk DEF Exit, fs

LEMMA CrashStep ==
  ASSUME IndexInv, Crash
  PROVE  IndexInv'
<1>1. GoodStore(store) /\ Kept(store, store)
  BY StoreIsSound DEF Kept
<1>2. store' = Unopened(store) /\ frames' = <<>> /\ pc' = "idle"
  BY DEF Crash
<1> QED
  BY <1>1, <1>2, UnopenedSound, OutsideWalk DEF Crash, fs

LEMMA CleanStep ==
  ASSUME IndexInv, NEW p \in Paths, CleanPath(p)
  PROVE  IndexInv'
<1>1. frames' = <<>> /\ pc' \notin {"walk", "message"}
  BY OutsideFrames DEF CleanPath, EndCleanup, walk
<1>2. CASE UNCHANGED store
  BY <1>1, <1>2, StoreIsSound, OutsideWalk DEF CleanPath, fs
<1>3. CASE file[p] = 0
  <2>1. PICK o \in RemovePath(store, p) : store' = o.s
    BY <1>3 DEF CleanPath
  <2>2. /\ GoodStore(o.s) /\ o.s.badCommits = 0 /\ o.s.disk = store.disk
        /\ o.s.work \in {DeleteByTerm(store.work, p), store.disk}
    BY StoreIsSound, GoodRemovePath, RemoveFrame
  <2>3. SoundContent(o.s.work) /\ SoundContent(o.s.disk)
    BY <1>3, <2>2, StoreIsSound, StampsAreNat, SoundRemoved
  <2> QED
    BY <1>1, <2>1, <2>2, <2>3, OutsideWalk DEF CleanPath, fs
<1> QED
  BY <1>2, <1>3 DEF CleanPath

LEMMA CleanupDoneStep ==
  ASSUME IndexInv, CleanupDone
  PROVE  IndexInv'
<1>1. frames' = <<>> /\ pc' \notin {"walk", "message"}
  BY OutsideFrames DEF CleanupDone, EndCleanup, walk
<1> QED
  BY <1>1, StoreIsSound, OutsideWalk DEF CleanupDone, fs

\* The walk ends, or is left because of a signal or a file that is gone.
LEMMA UnwindStep ==
  ASSUME IndexInv, WalkDone \/ \E p \in Paths : FileGone(p) \/ StopAt(p)
  PROVE  IndexInv'
<1>1. /\ frames' = <<>> /\ pc' = "walked"
      /\ UNCHANGED <<file, ctime, now, edits, store>>
  BY DEF WalkDone, FileGone, StopAt, Unwind, fs
<1> QED
  BY <1>1, StoreIsSound, OutsideWalk

-----------------------------------------------------------------------------
(* The walk.                                                               *)

LEMMA StartStep ==
  ASSUME Quiet, IndexInv, NEW m \in Modes, Start(m)
  PROVE  IndexInv'
<1> DEFINE bottom == [dir |-> "none", todo |-> {Root}]
<1>1. frames' = <<bottom>> /\ pc' = "walk"
      /\ UNCHANGED <<file, ctime, now, edits>>
  BY DEF Start, fs
<1>2. bottom \in Frame /\ bottom.todo \cap Paths = {}
  BY TreeAssumption DEF Frame, Quiet
<1> HIDE DEF bottom
<1>3. /\ frames' \in Seq(Frame) /\ Len(frames') = 1 /\ frames'[1] = bottom
      /\ frames' # <<>>
  BY <1>1, <1>2
<1>4. GoodStore(store) /\ store.disk \in Contents /\ EmptyContent \in Contents
  BY StoreIsSound, StampsAreNat, ContentsEmpty
<1>5. PICK r \in BOOLEAN : store' \in OpenWritable(store, r)
  BY DEF Start
<1>6. /\ GoodStore(store') /\ store'.badCommits = 0
      /\ store'.disk \in {store.disk, EmptyContent}
      /\ store'.work = [store'.disk EXCEPT !.version = "current"]
  BY <1>4, <1>5, StoreIsSound, GoodOpenWritable, OpenFrame DEF GoodStore
<1>7. SoundContent(EmptyContent)
  <2>1. \A x \in Paths : ctime[x] \in Nat /\ DirOf[x] \in Dirs
    BY TreeAssumption DEF IndexInv, TypeInv
  <2>2. now \in Nat
    BY DEF IndexInv, TypeInv
  <2> QED
    BY <2>1, <2>2 DEF EmptyContent, SoundContent, StampSound, StampPast, Wanted
<1>8. SoundContent(store'.disk)
  BY <1>6, <1>7, StoreIsSound
<1>9. /\ store'.work.docs = store'.disk.docs
      /\ store'.work.stamps = store'.disk.stamps
  BY <1>4, <1>6 DEF Contents
<1>10. SoundContent(store'.work)
  BY <1>8, <1>9 DEF SoundContent, StampSound, StampPast, Current
<1>11. TypeInv'
  BY <1>1, <1>3, <1>6 DEF IndexInv, TypeInv, GoodStore
<1>12. StampInv'
  BY <1>1, <1>8, <1>10 DEF StampInv, StampsAreSound, SoundContent, StampSound,
                           StampPast, Wanted, Current
<1>13. WalkInv'
  BY <1>1, <1>2, <1>3 DEF WalkInv, FrameInv, MessageInv
<1> QED
  BY <1>11, <1>12, <1>13 DEF IndexInv

LEMMA InWalk ==
  ASSUME IndexInv, pc \in {"walk", "message"}
  PROVE  /\ frames \in Seq(Frame) /\ Len(frames) \in Nat /\ Len(frames) > 0
         /\ \A i \in 1..Len(frames) : FrameInv(frames[i], i, Len(frames))
         /\ FrameInv(frames[1], 1, Len(frames))
BY DEF IndexInv, TypeInv, WalkInv

\* A step of the walk that keeps the store.
LEMMA WalkKeeps ==
  ASSUME IndexInv, UNCHANGED <<file, ctime, now, edits, store>>,
         frames' \in Seq(Frame)
  PROVE  TypeInv' /\ StampInv'
BY DEF IndexInv, TypeInv, GoodStore, StampInv, StampsAreSound, StampSound,
       StampPast, Wanted, Current

\* The frames after an entry was taken from the innermost one.
LEMMA VisitInv ==
  ASSUME Quiet, IndexInv, pc = "walk", NEW x \in Dirs
  PROVE  /\ Visit(x) \in Seq(Frame) /\ Len(Visit(x)) = Len(frames)
         /\ Visit(x)[1].dir = frames[1].dir
         /\ \A i \in 1..Len(frames) :
               FrameInv(Visit(x)[i], i, Len(frames))
<1>1. /\ frames \in Seq(Frame) /\ Len(frames) > 0
      /\ \A i \in 1..Len(frames) : FrameInv(frames[i], i, Len(frames))
      /\ FrameInv(frames[1], 1, Len(frames))
  BY InWalk
<1>2. /\ Visit(x) \in Seq(Frame) /\ Len(Visit(x)) = Len(frames)
      /\ Visit(x)[1] = [dir |-> frames[1].dir, todo |-> frames[1].todo \ {x}]
      /\ \A i \in 2..Len(frames) : Visit(x)[i] = frames[i]
  BY <1>1, VisitOne
<1> DEFINE g == [dir |-> frames[1].dir, todo |-> frames[1].todo \ {x}]
<1>3. VisitedCurrent(frames[1]) => VisitedCurrent(g)
  BY DEF VisitedCurrent, Quiet
<1>4. g.todo \subseteq frames[1].todo /\ g.dir = frames[1].dir
  OBVIOUS
<1> HIDE DEF g
<1>5. FrameInv(g, 1, Len(frames))
  BY <1>1, <1>3, <1>4 DEF FrameInv
<1>6. ASSUME NEW i \in 1..Len(frames)
      PROVE  FrameInv(Visit(x)[i], i, Len(frames))
  <2>1. CASE i = 1
    BY <1>2, <1>5, <2>1 DEF g
  <2>2. CASE i \in 2..Len(frames)
    BY <1>1, <1>2, <2>2
  <2> QED
    BY <1>1, <2>1, <2>2
<1> QED
  BY <1>2, <1>4, <1>6 DEF g

LEMMA EnterDirStep ==
  ASSUME Quiet, IndexInv, NEW d \in Dirs, EnterDir(d)
  PROVE  IndexInv'
<1>1. /\ pc = "walk" /\ pc' = "walk" /\ d \in frames[1].todo
      /\ UNCHANGED <<file, ctime, now, edits, store, entry>>
  BY DEF EnterDir, fs
<1> DEFINE n == Len(frames)
<1>2. /\ n \in Nat /\ n > 0
      /\ \A i \in 1..n : FrameInv(frames[i], i, n)
      /\ FrameInv(frames[1], 1, n)
  BY <1>1, InWalk
<1>3. /\ Visit(d) \in Seq(Frame) /\ Len(Visit(d)) = n
      /\ Visit(d)[1].dir = frames[1].dir
      /\ \A i \in 1..n : FrameInv(Visit(d)[i], i, n)
  BY <1>1, VisitInv
<1>4. \A f, i, k : FrameInv(f, i, k)' <=> FrameInv(f, i, k)
  BY <1>1 DEF FrameInv, VisitedCurrent, Current
<1> HIDE DEF n
<1>5. CASE Skipped(d)
  <2>1. frames' = Visit(d) /\ dirstamp' = dirstamp
    BY <1>5 DEF EnterDir
  <2>2. frames' # <<>>
    BY <1>2, <1>3, <2>1
  <2>3. /\ Len(frames) > 1 /\ frames[1].dir \in LeafDirs =>
             dirstamp = store.work.stamps[frames[1].dir]
    BY DEF IndexInv, WalkInv
  <2>4. WalkInv'
    BY <1>1, <1>2, <1>3, <1>4, <2>1, <2>2, <2>3 DEF WalkInv, MessageInv, n
  <2> QED
    BY <1>1, <1>3, <2>1, <2>4, WalkKeeps DEF IndexInv
<1>6. CASE ~Skipped(d)
  <2> DEFINE e == [dir |-> d, todo |-> Entries(d)]
             v == Visit(d)
  <2>1. frames' = <<e>> \o v /\ dirstamp' = store.work.stamps[d]
    BY <1>6 DEF EnterDir, GetTimestamp
  <2>2. e \in Frame
    BY TreeAssumption DEF Entries, Frame
  <2> HIDE DEF v
  <2>3. /\ frames' \in Seq(Frame) /\ Len(frames') = n + 1 /\ frames'[1] = e
        /\ \A i \in 2..(n + 1) : frames'[i] = v[i - 1]
    <3> HIDE DEF e
    <3>1. v \in Seq(Frame) /\ Len(v) = n
      BY <1>3 DEF v
    <3> QED
      BY <2>1, <2>2, <3>1, Pushed
  <2>4. FrameInv(e, 1, n + 1)
    <3>1. d \notin NoIndex
      BY <1>6 DEF Skipped
    <3>2. Entries(d) \subseteq {p \in Paths : DirOf[p] = d} \cup Subdirs[d]
      BY DEF Entries
    <3>3. VisitedCurrent(e)
      BY DEF VisitedCurrent, Entries, Quiet
    <3>4. 1 # n + 1
      BY <1>2
    <3> QED
      BY <3>1, <3>2, <3>3, <3>4 DEF FrameInv
  <2>5. n > 1 => frames[1].dir \notin LeafDirs
    BY <1>1, <1>2, <1>6 DEF FrameInv, Quiet, Skipped
  <2>6. ASSUME NEW i \in 2..(n + 1)
        PROVE  FrameInv(v[i - 1], i, n + 1)
    <3>1. i - 1 \in 1..n /\ (i = n + 1 <=> i - 1 = n) /\ i > 1
      BY <1>2
    <3>2. FrameInv(v[i - 1], i - 1, n)
      BY <1>3, <3>1 DEF v
    <3>3. i - 1 # n => v[i - 1].dir \notin LeafDirs
      <4>1. CASE i - 1 = 1
        BY <1>2, <1>3, <2>5, <3>1, <4>1 DEF v
      <4>2. CASE i - 1 > 1
        BY <3>2, <4>2 DEF FrameInv
      <4> QED
        BY <3>1, <4>1, <4>2
    <3> QED
      BY <3>1, <3>2, <3>3 DEF FrameInv
  <2>7. \A i \in 1..Len(frames') : FrameInv(frames'[i], i, Len(frames'))
    <3> SUFFICES ASSUME NEW i \in 1..(n + 1)
                 PROVE  FrameInv(frames'[i], i, n + 1)
      BY <2>3
    <3>1. CASE i = 1
      BY <2>3, <2>4, <3>1
    <3>2. CASE i \in 2..(n + 1)
      BY <2>3, <2>6, <3>2
    <3> QED
      BY <1>2, <3>1, <3>2
  <2>8. frames' # <<>>
    BY <1>2, <2>3
  <2>9. WalkInv'
    BY <1>1, <1>4, <2>1, <2>3, <2>7, <2>8 DEF WalkInv, MessageInv
  <2> QED
    BY <1>1, <2>3, <2>9, WalkKeeps DEF IndexInv
<1> QED
  BY <1>5, <1>6

LEMMA StatFileStep ==
  ASSUME Quiet, IndexInv, NEW p \in Paths, StatFile(p)
  PROVE  IndexInv'
<1> DEFINE n == Len(frames)
           g == [dir |-> frames[1].dir, todo |-> frames[1].todo \ {p}]
<1>1. /\ pc = "walk" /\ p \in frames[1].todo /\ file[p] # 0
      /\ frames' = Visit(p) /\ dirstamp' = dirstamp
      /\ UNCHANGED <<file, ctime, now, edits, store>>
      /\ \/ p \in TooBig /\ pc' = "walk"
         \/ /\ p \notin TooBig /\ pc' = "message"
            /\ entry' = [path |-> p, ctime |-> ctime[p]]
  BY DEF StatFile, fs
<1>2. /\ frames \in Seq(Frame) /\ n \in Nat /\ n > 0
      /\ \A i \in 1..n : FrameInv(frames[i], i, n)
      /\ FrameInv(frames[1], 1, n)
  BY <1>1, InWalk
<1>3. /\ frames' \in Seq(Frame) /\ Len(frames') = n /\ frames'[1] = g
      /\ \A i \in 2..n : frames'[i] = frames[i]
  BY <1>1, <1>2, VisitOne
<1>4. g.todo = frames[1].todo \ {p} /\ g.dir = frames[1].dir
  OBVIOUS
<1> HIDE DEF n, g
<1>5. n > 1
  BY <1>1, <1>2 DEF FrameInv
<1>6. DirOf[p] = g.dir
  <2>1. Subdirs[frames[1].dir] \subseteq Dirs
    BY <1>2, <1>5, TreeAssumption DEF FrameInv
  <2> QED
    BY <1>1, <1>2, <1>4, <1>5, <2>1 DEF FrameInv, Quiet
<1>7. ASSUME NEW f, VisitedCurrent(f) PROVE VisitedCurrent(f)'
  BY <1>1, <1>7 DEF VisitedCurrent, Current
<1>8. \A f, i, k : FrameInv(f, i, k) => FrameInv(f, i, k)'
  BY <1>7 DEF FrameInv
<1>9. VisitedCurrent(frames[1]) => VisitedCurrent(frames[1])'
  <2>1. frames'[1].todo = frames[1].todo \ {p} /\ frames'[1].dir = frames[1].dir
    BY <1>3, <1>4
  <2> QED
    BY <1>1, <2>1 DEF VisitedCurrent, Current
<1>10. \A i \in 1..Len(frames') : FrameInv(frames[i], i, Len(frames))'
  <2> SUFFICES ASSUME NEW i \in 1..n PROVE FrameInv(frames[i], i, Len(frames))'
    BY <1>3
  <2>1. CASE i = 1
    <3>1. /\ g.dir \in Dirs /\ g.dir \notin NoIndex
          /\ g.todo \subseteq {x \in Paths : DirOf[x] = g.dir} \cup Subdirs[g.dir]
          /\ VisitedCurrent(frames[1])'
      BY <1>2, <1>4, <1>5, <1>9 DEF FrameInv
    <3> QED
      BY <1>3, <1>5, <2>1, <3>1 DEF FrameInv
  <2>2. CASE i \in 2..n
    BY <1>2, <1>3, <1>8, <2>2
  <2> QED
    BY <1>2, <2>1, <2>2
<1>11. frames' # <<>>
  BY <1>2, <1>3
<1>12. MessageInv'
  BY <1>1, <1>3, <1>5, <1>6 DEF MessageInv
<1>13. frames'[1].dir \in LeafDirs => dirstamp' = store'.work.stamps[frames'[1].dir]
  BY <1>1, <1>3, <1>4, <1>5 DEF IndexInv, WalkInv, n
<1>14. WalkInv'
  BY <1>1, <1>10, <1>11, <1>12, <1>13 DEF WalkInv
<1> QED
  BY <1>1, <1>3, <1>14, WalkKeeps DEF IndexInv

\* Back in the walk once the message in hand is recorded.
LEMMA MessageDone ==
  ASSUME IndexInv, pc = "message", pc' = "walk",
         UNCHANGED <<file, ctime, now, edits, frames, dirstamp>>,
         store'.work.stamps = store.work.stamps,
         \A x \in Paths : file[x] # 0 /\ Current(store.work, x)
                            => Current(store'.work, x),
         Current(store'.work, entry.path)
  PROVE  WalkInv'
<1> DEFINE n == Len(frames)
<1>1. /\ n \in Nat /\ n > 0
      /\ \A i \in 1..n : FrameInv(frames[i], i, n)
  BY InWalk
<1>2. ASSUME NEW f, VisitedCurrent(f) PROVE VisitedCurrent(f)'
  BY <1>2 DEF VisitedCurrent, Current
<1>3. \A i \in 1..n : FrameInv(frames[i], i, n)'
  BY <1>1, <1>2 DEF FrameInv
<1> QED
  BY <1>1, <1>3 DEF IndexInv, WalkInv, MessageInv

\* mu index skips a message for its time only if it is recorded as it is.
LEMMA OldIsCurrent ==
  ASSUME Quiet, IndexInv, pc = "message",
         ~NeedsIndex(entry.path, entry.ctime)
  PROVE  Current(store.work, entry.path)
<1> DEFINE p == entry.path
<1>2. /\ Len(frames) > 1 /\ p \in Paths \ TooBig
      /\ DirOf[p] = frames[1].dir /\ entry.ctime = ctime[p] /\ file[p] # 0
  BY DEF IndexInv, WalkInv, MessageInv
<1> HIDE DEF p
<1>3. DirOf[p] \in LeafDirs /\ DirOf[p] \in Dirs
  BY <1>2, TreeAssumption DEF Quiet
<1>4. dirstamp = store.work.stamps[DirOf[p]]
  BY <1>2, <1>3 DEF IndexInv, WalkInv
<1>5. ctime[p] % TimeModulus < dirstamp % TimeModulus
  <2>1. ctime[p] \in Nat /\ dirstamp \in Nat /\ TimeModulus \in Nat \ {0}
    BY <1>2, <1>3, <1>4, StoreIsSound, StampsAreNat, BoundsAssumption
       DEF IndexInv, TypeInv
  <2> QED
    BY <1>2, <2>1 DEF NeedsIndex, p
<1>6. ctime[p] < dirstamp
  <2>1. /\ ctime[p] \in Nat /\ dirstamp \in Nat /\ TimeModulus \in Nat \ {0}
        /\ ctime[p] <= now /\ dirstamp <= now /\ now \in 1..MaxNow
        /\ MaxNow \in Nat /\ MaxNow < TimeModulus
    BY <1>2, <1>3, <1>4, StoreIsSound, StampsAreNat, BoundsAssumption
       DEF IndexInv, TypeInv, SoundContent, StampPast, Quiet
  <2>2. ctime[p] % TimeModulus = ctime[p] /\ dirstamp % TimeModulus = dirstamp
    BY <2>1
  <2> QED
    BY <1>5, <2>2
<1>7. DirOf[p] \notin NoIndex
  BY <1>2, InWalk DEF FrameInv
<1>8. Current(store.work, p)
  BY <1>2, <1>4, <1>6, <1>7, StoreIsSound DEF SoundContent, StampSound, Wanted
<1> QED
  BY <1>8 DEF p

LEMMA LeaveMessageStep ==
  ASSUME Quiet, IndexInv, LeaveMessage
  PROVE  IndexInv'
<1>1. /\ pc = "message" /\ pc' = "walk"
      /\ ~NeedsIndex(entry.path, entry.ctime) \/ file[entry.path] = 0
      /\ UNCHANGED <<file, ctime, now, edits, frames, dirstamp, store>>
  BY DEF LeaveMessage, fs
<1>2. file[entry.path] # 0
  BY <1>1 DEF IndexInv, WalkInv, MessageInv
<1>3. Current(store.work, entry.path)
  BY <1>1, <1>2, OldIsCurrent
<1>4. WalkInv'
  BY <1>1, <1>3, MessageDone
<1>5. frames' \in Seq(Frame)
  BY <1>1 DEF IndexInv, TypeInv
<1> QED
  BY <1>1, <1>4, <1>5, WalkKeeps DEF IndexInv

LEMMA StoreMessageStep ==
  ASSUME Quiet, IndexInv, StoreMessage
  PROVE  IndexInv'
<1> DEFINE p == entry.path
<1>1. /\ pc = "message" /\ file[p] # 0
      /\ UNCHANGED <<file, ctime, now, edits>>
  BY DEF StoreMessage, fs
<1>2. PICK o \in AddMsg(store, p, file[p]) :
            /\ store' = o.s
            /\ IF o.id = InvalidDocId
               THEN Unwind("error")
               ELSE /\ pc' = "walk"
                    /\ entry' = NoEntry
                    /\ UNCHANGED <<frames, dirstamp, result>>
  BY DEF StoreMessage
<1>3. p \in Paths /\ file[p] \in Bodies
  BY <1>1, BodiesAssumption DEF IndexInv, TypeInv, WalkInv, MessageInv
<1>4. /\ GoodStore(o.s) /\ o.s.badCommits = 0
      /\ o.s.disk \in {store.work, store.disk, o.s.work}
      /\ \/ o.id = InvalidDocId /\ o.s.work \in {store.work, store.disk}
         \/ \E id \in IdsForTerm(store.work, p) :
               /\ o.id = id
               /\ o.s.work = ReplaceByTerm(store.work, id, p, file[p])
  BY <1>3, StoreIsSound, QuietAdd
<1> HIDE DEF p
<1>5. CASE o.id = InvalidDocId /\ o.s.work \in {store.work, store.disk}
  <2>1. frames' = <<>> /\ pc' = "walked"
    BY <1>2, <1>5 DEF Unwind
  <2> QED
    BY <1>1, <1>2, <1>4, <1>5, <2>1, StoreIsSound, OutsideWalk
<1>6. ASSUME NEW id \in IdsForTerm(store.work, p), o.id = id,
             o.s.work = ReplaceByTerm(store.work, id, p, file[p])
      PROVE  IndexInv'
  <2>1. store.work \in Contents
    BY StoreIsSound, StampsAreNat
  <2>2. id # InvalidDocId
    BY <1>3, <2>1, ContentsIds DEF DocIds, InvalidDocId
  <2>3. /\ o.s.work.docs = (store.work.docs \ DocsAt(store.work, p))
                              \cup {Doc(id, p, file[p])}
        /\ o.s.work.stamps = store.work.stamps
    BY <1>6, <2>1 DEF ReplaceByTerm, Contents
  <2>4. Current(o.s.work, p)
    <3>1. /\ Doc(id, p, file[p]) \in o.s.work.docs
          /\ Doc(id, p, file[p]).path = p /\ Doc(id, p, file[p]).body = file[p]
      BY <2>3 DEF Doc
    <3> QED
      BY <3>1 DEF Current
  <2>5. \A x \in Paths : file[x] # 0 /\ Current(store.work, x)
                           => Current(o.s.work, x)
    <3> SUFFICES ASSUME NEW x \in Paths, x # p, Current(store.work, x)
                 PROVE  Current(o.s.work, x)
      BY <2>4
    <3> QED
      BY <2>3 DEF Current, DocsAt
  <2>6. SoundContent(o.s.work)
    <3>1. StampSound(store.work) /\ StampPast(store.work)
      BY StoreIsSound DEF SoundContent
    <3>2. StampSound(o.s.work)
      BY <2>3, <2>5, <3>1, SoundGrown
    <3> QED
      BY <2>3, <3>1, <3>2 DEF SoundContent, StampPast
  <2>7. SoundContent(o.s.disk)
    BY <1>4, <2>6, StoreIsSound
  <2>8. pc' = "walk" /\ UNCHANGED <<frames, dirstamp>>
    BY <1>2, <1>6, <2>2
  <2>9. WalkInv'
    BY <1>1, <1>2, <2>3, <2>4, <2>5, <2>8, MessageDone DEF p
  <2>10. TypeInv'
    BY <1>1, <1>2, <1>4, <2>8 DEF IndexInv, TypeInv, GoodStore
  <2>11. StampInv'
    BY <1>1, <1>2, <2>6, <2>7 DEF StampInv, StampsAreSound, SoundContent,
                                  StampSound, StampPast, Wanted, Current
  <2> QED
    BY <2>9, <2>10, <2>11 DEF IndexInv
<1> QED
  BY <1>4, <1>5, <1>6

\* The stamp of a directory is set once all its messages are recorded.
LEMMA LeaveDirStep ==
  ASSUME Quiet, IndexInv, LeaveDir
  PROVE  IndexInv'
<1> DEFINE n == Len(frames)
           d == frames[1].dir
<1>1. /\ pc = "walk" /\ pc' = "walk" /\ frames[1].todo = {} /\ n > 1
      /\ frames' = Tail(frames) /\ store' \in SetTimestamp(store, d, now)
      /\ UNCHANGED <<file, ctime, now, edits, entry>>
  BY DEF LeaveDir, fs
<1>2. /\ frames \in Seq(Frame) /\ n \in Nat
      /\ \A i \in 1..n : FrameInv(frames[i], i, n)
      /\ FrameInv(frames[1], 1, n)
  BY <1>1, InWalk
<1>3. /\ frames' \in Seq(Frame) /\ Len(frames') = n - 1
      /\ \A i \in 1..(n - 1) : frames'[i] = frames[i + 1]
  BY <1>1, <1>2, Popped
<1>4. d \in Dirs /\ VisitedCurrent(frames[1]) /\ d \notin NoIndex
  BY <1>1, <1>2 DEF FrameInv
<1>5. now \in Nat /\ GoodStore(store) /\ store.badCommits = 0
      /\ store.work \in Contents
  BY StoreIsSound, StampsAreNat DEF IndexInv, TypeInv
<1> HIDE DEF n, d
<1>6. /\ GoodStore(store') /\ store'.badCommits = 0 /\ store'.disk = store.disk
      /\ store'.work.docs = store.work.docs
      /\ store'.work.stamps \in {store.work.stamps,
                                 [store.work.stamps EXCEPT ![d] = now]}
  <2>1. GoodStore(store')
    BY <1>1, <1>4, <1>5, GoodSetTimestamp
  <2> QED
    BY <1>1, <1>4, <1>5, <2>1, StampFrame
<1>7. \A x \in Paths : Current(store.work, x)' <=> Current(store.work, x)
  BY <1>1, <1>6 DEF Current
<1>8. TypeInv'
  BY <1>1, <1>3, <1>6 DEF IndexInv, TypeInv, GoodStore
<1>9. StampInv'
  <2>1. StampSound(store.work)'
    <3> SUFFICES ASSUME NEW x \in Paths \ TooBig, file[x] # 0,
                        DirOf[x] \notin NoIndex,
                        ctime[x] < store'.work.stamps[DirOf[x]]
                 PROVE  Current(store.work, x)
      BY <1>1, <1>7 DEF StampSound, Wanted
    <3>1. DirOf[x] \in Dirs
      BY TreeAssumption
    <3>2. CASE ctime[x] < store.work.stamps[DirOf[x]]
      BY <3>2, StoreIsSound DEF SoundContent, StampSound, Wanted
    <3>3. CASE DirOf[x] = d
      BY <1>1, <1>4, <3>3 DEF VisitedCurrent, d
    <3>4. DirOf[x] # d => store'.work.stamps[DirOf[x]] = store.work.stamps[DirOf[x]]
      BY <1>5, <1>6, <3>1 DEF Contents
    <3> QED
      BY <3>2, <3>3, <3>4
  <2>2. StampSound(store.disk)'
    BY <1>1, <1>6, StoreIsSound DEF SoundContent, StampSound, Wanted, Current
  <2>3. StampPast(store.work)' /\ StampPast(store.disk)'
    BY <1>1, <1>5, <1>6, StoreIsSound DEF SoundContent, StampPast, Contents
  <2> QED
    BY <2>1, <2>2, <2>3 DEF StampInv, StampsAreSound
<1>10. \A f : VisitedCurrent(f) => VisitedCurrent(f)'
  BY <1>1, <1>7 DEF VisitedCurrent
<1>11. \A i \in 1..Len(frames') : FrameInv(frames[i], i, Len(frames))'
  <2> SUFFICES ASSUME NEW i \in 1..(n - 1)
               PROVE  FrameInv(frames[i], i, Len(frames))'
    BY <1>3
  <2>1. /\ i + 1 \in 1..n /\ (i + 1 = n <=> i = n - 1)
        /\ i + 1 > 1 /\ frames'[i] = frames[i + 1]
    BY <1>1, <1>2, <1>3
  <2>2. FrameInv(frames'[i], i + 1, n)
    BY <1>2, <2>1
  <2>3. VisitedCurrent(frames'[i]) => VisitedCurrent(frames[i])'
    BY <1>10
  <2> QED
    BY <1>3, <2>1, <2>2, <2>3 DEF FrameInv
<1>12. n - 1 > 1 => frames'[1].dir \notin LeafDirs
  <2> SUFFICES ASSUME n - 1 > 1 PROVE frames'[1].dir \notin LeafDirs
    OBVIOUS
  <2>1. 2 \in 1..n /\ 2 # n /\ 1 \in 1..(n - 1) /\ frames'[1] = frames[1 + 1]
    BY <1>2, <1>3
  <2>2. FrameInv(frames[2], 2, n)
    BY <1>2, <2>1
  <2> QED
    BY <2>1, <2>2 DEF FrameInv
<1>13. frames' # <<>>
  <2>1. Len(frames') # 0
    BY <1>1, <1>2, <1>3
  <2> QED
    BY <2>1
<1>14. WalkInv'
  <2>1. MessageInv'
    BY <1>1 DEF MessageInv
  <2>2. Len(frames') > 1 => frames'[1].dir \notin LeafDirs
    BY <1>3, <1>12
  <2> QED
    BY <1>1, <1>11, <1>13, <2>1, <2>2 DEF WalkInv
<1> QED
  BY <1>8, <1>9, <1>14 DEF IndexInv

-----------------------------------------------------------------------------

LEMMA InitIndexInv == Quiet /\ Init => IndexInv
<1> SUFFICES ASSUME Quiet, Init PROVE IndexInv
  OBVIOUS
<1>1. /\ EmptyContent \in Contents /\ 0 \in 0..(BatchSize - 1)
      /\ 0 \in 0..MaxEdits /\ 1 \in 1..MaxNow
  BY ContentsEmpty, BatchSizeAssumption, BoundsAssumption
<1>2. /\ GoodStore(store) /\ store.badCommits = 0
      /\ store.work = EmptyContent /\ store.disk = EmptyContent
  BY <1>1, BoundsAssumption DEF Init, GoodStore, Stores, Quiet
<1>3. <<>> \in Seq(Frame)
  OBVIOUS
<1>4. TypeInv
  BY <1>1, <1>2, <1>3 DEF TypeInv, Init
<1>5. StampInv
  BY <1>2, TreeAssumption
     DEF Init, StampInv, StampsAreSound, StampSound, StampPast, EmptyContent, Wanted
<1>6. WalkInv
  BY DEF Init, WalkInv, MessageInv
<1> QED
  BY <1>4, <1>5, <1>6 DEF IndexInv

LEMMA StepIndexInv == Quiet /\ IndexInv /\ [Next]_vars => IndexInv'
<1> SUFFICES ASSUME Quiet, IndexInv, [Next]_vars PROVE IndexInv'
  OBVIOUS
<1>1. CASE \E m \in Modes : Start(m)
  BY <1>1, StartStep
<1>2. CASE Walk
  BY <1>2, EnterDirStep, UnwindStep, StatFileStep, LeaveMessageStep,
     StoreMessageStep, LeaveDirStep DEF Walk
<1>3. CASE Finish
  BY <1>3, FlushStep, CleanStep, CleanupDoneStep, ExitStep DEF Finish
<1>4. CASE Environment
  BY <1>4, FileStep, TickStep, UnwindStep, CrashStep DEF Environment
<1>5. CASE UNCHANGED vars
  BY <1>5 DEF vars, fs, walk, IndexInv, TypeInv, GoodStore, StampInv,
              StampsAreSound, StampSound, StampPast, Wanted, Current, WalkInv,
              FrameInv, VisitedCurrent, MessageInv
<1> QED
  BY <1>1, <1>2, <1>3, <1>4, <1>5 DEF Next

\* "we use this timestamp to determine whether a message is up-to-data"
\* (mu-index.c:221): whatever runs were interrupted or killed, and whatever
\* writes threw, a message that is older than the timestamp of its directory
\* is in the database as it is now, and a message that mu index skips for its
\* time (mu-index.c:103-130) needs no indexing.
THEOREM StampsSound == Quiet /\ Spec => []StampsAreSound
<1>1. IndexInv => StampsAreSound
  BY DEF IndexInv, StampInv
<1> SUFFICES ASSUME Quiet PROVE Spec => []StampsAreSound
  OBVIOUS
<1>2. Init => IndexInv
  BY InitIndexInv
<1>3. IndexInv /\ [Next]_vars => IndexInv'
  BY StepIndexInv
<1> QED
  BY <1>1, <1>2, <1>3, PTL DEF Spec

-----------------------------------------------------------------------------
(* Type correctness, for every tree, every way of editing the files, and   *)
(* whatever throws.                                                        *)

\* Contents with at most one document for a path, and stamps of the past.
OneDocEach(c) == \A d, e \in c.docs : d.path = e.path => d = e
StampsInRange(c) == \A d \in Dirs : c.stamps[d] \in 0..MaxNow
Neat(c) == OneDocEach(c) /\ StampsInRange(c)

FilesSane ==
  /\ file \in [Paths -> 0..MaxEdits]
  /\ ctime \in [Paths -> 0..MaxNow] /\ now \in 1..MaxNow
  /\ edits \in 0..MaxEdits /\ moves \in 0..MaxMoves
  /\ \A p \in Paths : file[p] # 0 => ctime[p] # 0

StoreSane == GoodStore(store) /\ Neat(store.work) /\ Neat(store.disk)

Message == [path : Paths, ctime : 1..MaxNow]

RunSane ==
  /\ frames \in Seq(Frame)
  /\ \A i \in 1..Len(frames) : i < Len(frames) => frames[i].dir \in Dirs
  /\ (frames = <<>>) <=> (pc \notin {"walk", "message"})
  /\ dirstamp \in 0..MaxNow
  /\ IF pc = "message" THEN entry \in Message ELSE entry = NoEntry
  /\ pc \in {"idle", "walk", "message", "walked", "clean", "cleaned",
             "complete", "exit"}
  /\ result \in {"ok", "stop", "error", "complete"}
  /\ result = "complete" => pc = "idle"
  /\ pc = "complete" => result = "ok"

RestSane ==
  /\ interrupts \in 0..MaxInterrupts
  /\ mode \in Modes \cup {"update"}
  /\ todo \subseteq Paths
  /\ calm \in BOOLEAN

Sane == FilesSane /\ StoreSane /\ RunSane /\ RestSane

LEMMA SaneTypeOK == Sane => TypeOK
BY DEF Sane, FilesSane, StoreSane, GoodStore, RunSane, RestSane, TypeOK, Message

LEMMA NeatContents ==
  ASSUME NEW c \in Contents, Neat(c)
  PROVE  /\ \A id \in DocIds, p \in Paths, b \in Bodies :
               Neat(ReplaceByTerm(c, id, p, b))
         /\ \A p \in Paths : Neat(DeleteByTerm(c, p))
         /\ Neat([c EXCEPT !.version = "current"])
<1>1. ASSUME NEW id \in DocIds, NEW p \in Paths, NEW b \in Bodies
      PROVE  Neat(ReplaceByTerm(c, id, p, b))
  <2> DEFINE r == ReplaceByTerm(c, id, p, b)
  <2>1. /\ r.docs = (c.docs \ DocsAt(c, p)) \cup {Doc(id, p, b)}
        /\ r.stamps = c.stamps /\ Doc(id, p, b).path = p
    BY DEF ReplaceByTerm, Contents, Doc
  <2> HIDE DEF r
  <2> QED
    BY <2>1 DEF Neat, OneDocEach, StampsInRange, DocsAt, r
<1>2. ASSUME NEW p \in Paths PROVE Neat(DeleteByTerm(c, p))
  BY DEF DeleteByTerm, Contents, Neat, OneDocEach, StampsInRange
<1>3. Neat([c EXCEPT !.version = "current"])
  BY DEF Contents, Neat, OneDocEach, StampsInRange
<1> QED
  BY <1>1, <1>2, <1>3

LEMMA NeatEmpty == Neat(EmptyContent)
<1>1. 0 \in 0..MaxNow
  BY BoundsAssumption
<1> QED
  BY <1>1 DEF EmptyContent, Neat, OneDocEach, StampsInRange

LEMMA SaneKept ==
  ASSUME StoreSane, NEW t, GoodStore(t), Kept(store, t)
  PROVE  Neat(t.work) /\ Neat(t.disk)
BY DEF StoreSane, Kept

LEMMA SaneStore ==
  ASSUME StoreSane
  PROVE  /\ GoodStore(store) /\ store \in Stores
         /\ store.work \in Contents /\ store.disk \in Contents
         /\ Neat(store.work) /\ Neat(store.disk)
BY DEF StoreSane, GoodStore, Stores

LEMMA SaneFlush ==
  ASSUME StoreSane, NEW t \in StoreFlush(store)
  PROVE  GoodStore(t) /\ t \in Stores /\ Neat(t.work) /\ Neat(t.disk)
BY SaneStore, GoodFlush, KeptFlush, SaneKept DEF GoodStore

LEMMA SaneUnopened ==
  ASSUME NEW t, t \in Stores, Neat(t.disk)
  PROVE  /\ GoodStore(Unopened(t))
         /\ Neat(Unopened(t).work) /\ Neat(Unopened(t).disk)
BY GoodUnopened, UnopenedFrame

LEMMA SaneFileStep ==
  ASSUME Sane,
         \/ \E p \in Paths : Edit(p) \/ Delete(p)
         \/ \E p, q \in Paths : Rename(p, q)
         \/ Tick
  PROVE  Sane'
<1>1. /\ MaxEdits \in Nat /\ MaxMoves \in Nat /\ MaxNow \in Nat
      /\ edits \in Nat /\ moves \in Nat /\ now \in Nat
  BY BoundsAssumption DEF Sane, FilesSane
<1>2. FilesSane'
  <2>1. ASSUME NEW p \in Paths, Edit(p) PROVE FilesSane'
    BY <1>1, <2>1 DEF Sane, FilesSane, Edit, FilesChanged
  <2>2. ASSUME NEW p \in Paths, Delete(p) PROVE FilesSane'
    BY <1>1, <2>2 DEF Sane, FilesSane, Delete, FilesChanged
  <2>3. ASSUME NEW p \in Paths, NEW q \in Paths, Rename(p, q) PROVE FilesSane'
    BY <1>1, <2>3 DEF Sane, FilesSane, Rename, FilesChanged
  <2>4. CASE Tick
    BY <1>1, <2>4 DEF Sane, FilesSane, Tick
  <2> QED
    BY <2>1, <2>2, <2>3, <2>4
<1>3. calm' \in BOOLEAN
  BY DEF Sane, RestSane, Edit, Delete, Rename, FilesChanged, Tick
<1>4. UNCHANGED <<interrupts, store, pc, walk, todo, result>>
  BY DEF Edit, Delete, Rename, FilesChanged, Tick
<1> QED
  BY <1>2, <1>3, <1>4
     DEF Sane, StoreSane, GoodStore, Neat, OneDocEach, StampsInRange, RunSane,
         RestSane, walk

\* Steps of the indexer: the files are left alone.
LEMMA SaneStep ==
  ASSUME Sane, UNCHANGED fs, StoreSane', RunSane', RestSane'
  PROVE  Sane'
BY DEF Sane, FilesSane, fs

LEMMA SaneInterrupts ==
  ASSUME Sane, \/ UNCHANGED interrupts
               \/ interrupts < MaxInterrupts /\ interrupts' = interrupts + 1
  PROVE  interrupts' \in 0..MaxInterrupts
BY BoundsAssumption DEF Sane, RestSane

LEMMA SaneStill ==
  ASSUME Sane, StillCalm \/ UNCHANGED calm
  PROVE  calm' \in BOOLEAN
BY DEF Sane, RestSane, StillCalm

LEMMA StoreSaneUnchanged ==
  ASSUME Sane, UNCHANGED store
  PROVE  StoreSane'
BY DEF Sane, StoreSane, GoodStore, Neat, OneDocEach, StampsInRange

LEMMA SaneStart ==
  ASSUME Sane, NEW m \in Modes, Start(m)
  PROVE  Sane'
<1>1. PICK r \in BOOLEAN : store' \in OpenWritable(store, r)
  BY DEF Start
<1>2. GoodStore(store')
  BY <1>1, SaneStore, GoodOpenWritable DEF Sane
<1>3. /\ store'.disk \in {store.disk, EmptyContent}
      /\ store'.work = [store'.disk EXCEPT !.version = "current"]
  BY <1>1, SaneStore, OpenFrame DEF Sane
<1>4. Neat(store'.disk) /\ store'.disk \in Contents
  BY <1>3, SaneStore, NeatEmpty, ContentsEmpty DEF Sane
<1>5. StoreSane'
  <2>1. Neat(store'.work)
    BY <1>3, <1>4, NeatContents
  <2> QED
    BY <1>2, <1>4, <2>1 DEF StoreSane, GoodStore, Neat, OneDocEach, StampsInRange
<1>6. RunSane'
  <2> DEFINE bottom == [dir |-> "none", todo |-> {Root}]
  <2>1. bottom \in Frame
    BY TreeAssumption DEF Frame
  <2> HIDE DEF bottom
  <2>2. <<bottom>> \in Seq(Frame) /\ <<bottom>> # <<>> /\ Len(<<bottom>>) = 1
    BY <2>1
  <2>3. 0 \in 0..MaxNow
    BY BoundsAssumption
  <2> QED
    BY <2>2, <2>3 DEF Start, RunSane, bottom, NoEntry
<1>7. RestSane'
  BY SaneInterrupts DEF Sane, RestSane, Start
<1> QED
  BY <1>5, <1>6, <1>7, SaneStep DEF Start

LEMMA SaneFrames ==
  ASSUME Sane, pc \in {"walk", "message"}
  PROVE  /\ frames \in Seq(Frame) /\ Len(frames) \in Nat /\ Len(frames) > 0
         /\ frames[1] \in Frame
<1>1. frames \in Seq(Frame) /\ frames # <<>>
  BY DEF Sane, RunSane
<1>2. Len(frames) \in Nat /\ Len(frames) > 0
  BY <1>1
<1>3. 1 \in 1..Len(frames)
  BY <1>2
<1> QED
  BY <1>1, <1>2, <1>3, ElementOf

LEMMA SaneVisit ==
  ASSUME Sane, pc \in {"walk", "message"}, NEW x
  PROVE  /\ Visit(x) \in Seq(Frame) /\ Len(Visit(x)) = Len(frames)
         /\ Len(frames) \in Nat /\ Len(frames) > 0
         /\ Visit(x)[1].dir = frames[1].dir
         /\ Visit(x)[1].todo = frames[1].todo \ {x}
         /\ \A i \in 2..Len(frames) : Visit(x)[i] = frames[i]
<1>1. frames \in Seq(Frame) /\ Len(frames) \in Nat /\ Len(frames) > 0
  BY SaneFrames
<1>2. /\ Visit(x) \in Seq(Frame) /\ Len(Visit(x)) = Len(frames)
      /\ Visit(x)[1] = [dir |-> frames[1].dir, todo |-> frames[1].todo \ {x}]
      /\ \A i \in 2..Len(frames) : Visit(x)[i] = frames[i]
  BY <1>1, VisitOne
<1> QED
  BY <1>1, <1>2

LEMMA SaneEnterDir ==
  ASSUME Sane, NEW d \in Dirs, EnterDir(d)
  PROVE  Sane'
<1>1. /\ pc = "walk" /\ pc' = "walk"
      /\ UNCHANGED <<fs, interrupts, store, mode, entry, todo, result, calm>>
  BY DEF EnterDir
<1>2. /\ Visit(d) \in Seq(Frame) /\ Len(Visit(d)) = Len(frames)
      /\ Len(frames) \in Nat /\ Len(frames) > 0
      /\ Visit(d)[1].dir = frames[1].dir
      /\ \A i \in 2..Len(frames) : Visit(d)[i] = frames[i]
  BY <1>1, SaneVisit
<1> DEFINE v == Visit(d)
<1>3. \A i \in 1..Len(v) : i < Len(v) => v[i].dir \in Dirs
  <2> SUFFICES ASSUME NEW i \in 1..Len(v), i < Len(v) PROVE v[i].dir \in Dirs
    OBVIOUS
  <2>1. frames[i].dir \in Dirs
    BY <1>2 DEF Sane, RunSane
  <2>2. i = 1 \/ i \in 2..Len(frames)
    BY <1>2
  <2> QED
    BY <1>2, <2>1, <2>2
<1>4. /\ frames' \in Seq(Frame) /\ frames' # <<>>
      /\ \A i \in 1..Len(frames') : i < Len(frames') => frames'[i].dir \in Dirs
  <2>1. CASE Skipped(d)
    BY <1>2, <1>3, <2>1 DEF EnterDir
  <2>2. CASE ~Skipped(d)
    <3> DEFINE e == [dir |-> d, todo |-> Entries(d)]
    <3>1. frames' = <<e>> \o v
      BY <2>2 DEF EnterDir
    <3>2. e \in Frame /\ e.dir = d
      BY TreeAssumption DEF Entries, Frame
    <3>3. v \in Seq(Frame) /\ Len(v) \in Nat
      BY <1>2
    <3> HIDE DEF v, e
    <3>4. /\ frames' \in Seq(Frame) /\ Len(frames') = Len(v) + 1
          /\ frames'[1] = e
          /\ \A i \in 2..Len(frames') : frames'[i] = v[i - 1]
      BY <3>1, <3>2, <3>3, Pushed
    <3>5. ASSUME NEW i \in 1..Len(frames'), i < Len(frames')
          PROVE  frames'[i].dir \in Dirs
      <4>1. CASE i = 1
        BY <3>2, <3>4, <4>1
      <4>2. CASE i > 1
        <5>1. i \in 2..Len(frames') /\ i - 1 \in 1..Len(v) /\ i - 1 < Len(v)
          BY <3>3, <3>4, <3>5, <4>2
        <5> QED
          BY <1>3, <3>4, <5>1
      <4> QED
        BY <4>1, <4>2
    <3> QED
      BY <3>3, <3>4, <3>5
  <2> QED
    BY <2>1, <2>2
<1>5. dirstamp' \in 0..MaxNow
  BY DEF Sane, RunSane, StoreSane, Neat, StampsInRange, EnterDir, GetTimestamp
<1> HIDE DEF v
<1>6. RunSane'
  BY <1>1, <1>4, <1>5 DEF Sane, RunSane
<1>7. RestSane'
  BY <1>1 DEF Sane, RestSane
<1> QED
  BY <1>1, <1>6, <1>7, SaneStep, StoreSaneUnchanged

\* What an unwound walk leaves.
LEMMA SaneUnwound ==
  ASSUME NEW r \in {"ok", "stop", "error"}, Unwind(r)
  PROVE  RunSane'
<1>1. 0 \in 0..MaxNow /\ <<>> \in Seq(Frame)
  BY BoundsAssumption
<1> QED
  BY <1>1 DEF Unwind, RunSane

LEMMA SaneUnwind ==
  ASSUME Sane, WalkDone \/ \E p \in Paths : FileGone(p) \/ StopAt(p)
  PROVE  Sane'
<1>1. PICK r \in {"ok", "stop", "error"} : Unwind(r)
  BY DEF WalkDone, FileGone, StopAt
<1>2. UNCHANGED <<fs, store, mode, todo, calm>>
  BY DEF WalkDone, FileGone, StopAt
<1>3. RestSane'
  BY <1>2, SaneInterrupts DEF Sane, RestSane, WalkDone, FileGone, StopAt
<1> QED
  BY <1>1, <1>2, <1>3, SaneUnwound, SaneStep, StoreSaneUnchanged

LEMMA SaneStatFile ==
  ASSUME Sane, NEW p \in Paths, StatFile(p)
  PROVE  Sane'
<1>1. /\ pc = "walk" /\ file[p] # 0 /\ frames' = Visit(p)
      /\ UNCHANGED <<fs, interrupts, store, mode, dirstamp, todo, result, calm>>
      /\ \/ UNCHANGED <<pc, entry>>
         \/ pc' = "message" /\ entry' = [path |-> p, ctime |-> ctime[p]]
  BY DEF StatFile
<1>2. /\ frames' \in Seq(Frame) /\ Len(frames') = Len(frames)
      /\ Len(frames) \in Nat /\ Len(frames) > 0
      /\ \A i \in 1..Len(frames) : frames'[i].dir = frames[i].dir
  <2>1. /\ Visit(p) \in Seq(Frame) /\ Len(Visit(p)) = Len(frames)
        /\ Len(frames) \in Nat /\ Len(frames) > 0
        /\ Visit(p)[1].dir = frames[1].dir
        /\ \A i \in 2..Len(frames) : Visit(p)[i] = frames[i]
    BY <1>1, SaneVisit
  <2>2. \A i \in 1..Len(frames) : i = 1 \/ i \in 2..Len(frames)
    BY <2>1
  <2> QED
    BY <1>1, <2>1, <2>2
<1>3. [path |-> p, ctime |-> ctime[p]] \in Message
  <2>1. ctime[p] \in 0..MaxNow /\ ctime[p] # 0 /\ MaxNow \in Nat
    BY <1>1, BoundsAssumption DEF Sane, FilesSane
  <2>2. ctime[p] \in 1..MaxNow
    BY <2>1
  <2> QED
    BY <2>2 DEF Message
<1>4. RunSane'
  <2>1. frames' # <<>>
    BY <1>2
  <2> QED
    BY <1>1, <1>2, <1>3, <2>1 DEF Sane, RunSane
<1>5. RestSane'
  BY <1>1 DEF Sane, RestSane
<1> QED
  BY <1>1, <1>4, <1>5, SaneStep, StoreSaneUnchanged

LEMMA SaneLeaveMessage ==
  ASSUME Sane, LeaveMessage
  PROVE  Sane'
<1>1. RunSane'
  BY DEF Sane, RunSane, LeaveMessage
<1>2. RestSane'
  BY DEF Sane, RestSane, LeaveMessage
<1> QED
  BY <1>1, <1>2, SaneStep, StoreSaneUnchanged DEF LeaveMessage

LEMMA SaneStoreMessage ==
  ASSUME Sane, StoreMessage
  PROVE  Sane'
<1> DEFINE p == entry.path
<1>1. /\ pc = "message" /\ file[p] # 0
      /\ UNCHANGED <<fs, interrupts, mode, todo>> /\ StillCalm
  BY DEF StoreMessage
<1>2. PICK o \in AddMsg(store, p, file[p]) :
            /\ store' = o.s
            /\ IF o.id = InvalidDocId
               THEN Unwind("error")
               ELSE /\ pc' = "walk"
                    /\ entry' = NoEntry
                    /\ UNCHANGED <<frames, dirstamp, result>>
  BY DEF StoreMessage
<1>3. p \in Paths /\ file[p] \in Bodies
  <2>1. p \in Paths
    BY <1>1 DEF Sane, RunSane, Message
  <2> QED
    BY <1>1, <2>1, BodiesAssumption, BoundsAssumption DEF Sane, FilesSane
<1> DEFINE b == file[p]
<1>4. o \in AddMsg(store, p, b)
  BY <1>2
<1> HIDE DEF p, b
<1>5. StoreSane'
  <2>1. GoodStore(o.s)
    BY <1>3, <1>4, SaneStore, GoodAddMsg DEF Sane, b
  <2>2. \A c \in {o.s.work, o.s.disk} :
           \/ c \in {store.work, store.disk}
           \/ \E e \in {store.work, store.disk} : \E id \in IdsForTerm(e, p) :
                 c = ReplaceByTerm(e, id, p, b)
    BY <1>3, <1>4, SaneStore, AddOutcome DEF Sane, b
  <2>3. \A e \in {store.work, store.disk} : \A id \in IdsForTerm(e, p) :
          Neat(ReplaceByTerm(e, id, p, b))
    BY <1>3, SaneStore, NeatContents, ContentsIds DEF Sane, b
  <2>4. Neat(o.s.work) /\ Neat(o.s.disk)
    BY <2>2, <2>3, SaneStore DEF Sane
  <2> QED
    BY <1>2, <2>1, <2>4 DEF StoreSane, GoodStore, Neat, OneDocEach, StampsInRange
<1>6. RunSane'
  <2>1. CASE Unwind("error")
    BY <2>1, SaneUnwound
  <2>2. CASE pc' = "walk" /\ entry' = NoEntry /\ UNCHANGED <<frames, dirstamp, result>>
    BY <1>1, <2>2 DEF Sane, RunSane
  <2> QED
    BY <1>2, <2>1, <2>2
<1>7. RestSane'
  BY <1>1, SaneStill DEF Sane, RestSane
<1> QED
  BY <1>1, <1>5, <1>6, <1>7, SaneStep

LEMMA SaneLeaveDir ==
  ASSUME Sane, LeaveDir
  PROVE  Sane'
<1> DEFINE d == frames[1].dir
<1>1. /\ pc = "walk" /\ pc' = "walk" /\ Len(frames) > 1
      /\ frames' = Tail(frames) /\ store' \in SetTimestamp(store, d, now)
      /\ UNCHANGED <<fs, interrupts, mode, dirstamp, entry, todo, result, calm>>
  BY DEF LeaveDir
<1>2. frames \in Seq(Frame) /\ Len(frames) \in Nat
  BY <1>1, SaneFrames
<1>3. /\ frames' \in Seq(Frame) /\ Len(frames') = Len(frames) - 1
      /\ \A i \in 1..Len(frames') : frames'[i] = frames[i + 1]
  BY <1>1, <1>2, Popped
<1>4. d \in Dirs
  BY <1>1, <1>2 DEF Sane, RunSane
<1> HIDE DEF d
<1>5. StoreSane'
  <2>1. now \in Nat /\ now \in 0..MaxNow
    BY BoundsAssumption DEF Sane, FilesSane
  <2>2. GoodStore(store')
    BY <1>1, <1>4, <2>1, SaneStore, GoodSetTimestamp DEF Sane
  <2>3. /\ store'.disk = store.disk /\ store'.work.docs = store.work.docs
        /\ store'.work.stamps \in {store.work.stamps,
                                   [store.work.stamps EXCEPT ![d] = now]}
    BY <1>1, <1>4, <2>1, SaneStore, StampFrame DEF Sane
  <2>4. Neat(store'.work)
    BY <2>1, <2>3, SaneStore DEF Sane, Neat, OneDocEach, StampsInRange, Contents
  <2> QED
    BY <2>2, <2>3, <2>4, SaneStore
       DEF Sane, StoreSane, GoodStore, Neat, OneDocEach, StampsInRange
<1>6. RunSane'
  <2>1. Len(frames') # 0
    BY <1>1, <1>2, <1>3
  <2>2. frames' # <<>>
    BY <2>1
  <2>3. ASSUME NEW i \in 1..Len(frames'), i < Len(frames')
        PROVE  frames'[i].dir \in Dirs
    <3>1. i + 1 \in 1..Len(frames) /\ i + 1 < Len(frames)
      BY <1>2, <1>3, <2>3
    <3> QED
      BY <1>3, <3>1 DEF Sane, RunSane
  <2> QED
    BY <1>1, <1>3, <2>2, <2>3 DEF Sane, RunSane
<1>7. RestSane'
  BY <1>1 DEF Sane, RestSane
<1> QED
  BY <1>1, <1>5, <1>6, <1>7, SaneStep

\* After the walk nothing is being processed.
LEMMA SaneAfter ==
  ASSUME Sane, pc \notin {"walk", "message"}, UNCHANGED walk,
         pc' \in {"idle", "clean", "cleaned", "complete", "exit"},
         result' \in {"ok", "stop", "error", "complete"},
         result' = "complete" => pc' = "idle",
         pc' = "complete" => result' = "ok"
  PROVE  RunSane'
BY DEF Sane, RunSane, walk

LEMMA SaneFlushIndex ==
  ASSUME Sane, FlushIndex
  PROVE  Sane'
<1>1. /\ pc = "walked" /\ UNCHANGED <<fs, interrupts, walk, result>>
      /\ store' \in StoreFlush(store)
      /\ \/ pc' = "clean" /\ todo' = {d.path : d \in store'.work.docs}
         \/ pc' = "exit" /\ todo' = todo
  BY DEF FlushIndex
<1>2. GoodStore(store') /\ store' \in Stores /\ Neat(store'.work) /\ Neat(store'.disk)
  BY <1>1, SaneFlush DEF Sane
<1>3. StoreSane'
  BY <1>2 DEF StoreSane, GoodStore, Neat, OneDocEach, StampsInRange
<1>4. RunSane'
  BY <1>1, SaneAfter DEF Sane, RunSane
<1>5. todo' \subseteq Paths
  BY <1>1, <1>2 DEF Sane, RestSane, Stores, Contents, Docs
<1>6. calm' \in BOOLEAN
  BY SaneStill DEF FlushIndex
<1>7. RestSane'
  BY <1>1, <1>5, <1>6 DEF Sane, RestSane, walk
<1> QED
  BY <1>1, <1>3, <1>4, <1>7, SaneStep

LEMMA SaneCleanPath ==
  ASSUME Sane, NEW p \in Paths, CleanPath(p)
  PROVE  Sane'
<1>1. /\ pc = "clean" /\ UNCHANGED <<fs, interrupts, walk, calm>>
      /\ todo' \in {todo \ {p}, {}}
      /\ \/ UNCHANGED <<pc, result>>
         \/ pc' = "cleaned" /\ result' = "error"
  BY DEF CleanPath, EndCleanup
<1>2. StoreSane'
  <2>1. CASE UNCHANGED store
    BY <2>1, StoreSaneUnchanged
  <2>2. CASE \E o \in RemovePath(store, p) : store' = o.s
    <3>1. PICK o \in RemovePath(store, p) : store' = o.s
      BY <2>2
    <3>2. /\ GoodStore(o.s) /\ o.s.disk = store.disk
          /\ o.s.work \in {DeleteByTerm(store.work, p), store.disk}
      BY SaneStore, GoodRemovePath, RemoveFrame DEF Sane
    <3>3. Neat(o.s.work) /\ Neat(o.s.disk)
      BY <3>2, SaneStore, NeatContents DEF Sane
    <3> QED
      BY <3>1, <3>2, <3>3 DEF StoreSane, GoodStore, Neat, OneDocEach, StampsInRange
  <2> QED
    BY <2>1, <2>2 DEF CleanPath
<1>3. RunSane'
  BY <1>1, SaneAfter DEF Sane, RunSane
<1>4. RestSane'
  BY <1>1 DEF Sane, RestSane, walk
<1> QED
  BY <1>1, <1>2, <1>3, <1>4, SaneStep

LEMMA SaneCleanupDone ==
  ASSUME Sane, CleanupDone
  PROVE  Sane'
<1>1. /\ pc = "clean" /\ pc' = "cleaned" /\ result' \in {"ok", "stop"}
      /\ todo' = {} /\ UNCHANGED <<fs, store, walk, calm>>
  BY DEF CleanupDone, EndCleanup
<1>2. RunSane'
  BY <1>1, SaneAfter DEF Sane, RunSane
<1>3. RestSane'
  BY <1>1, SaneInterrupts DEF Sane, RestSane, walk, CleanupDone
<1> QED
  BY <1>1, <1>2, <1>3, SaneStep, StoreSaneUnchanged

LEMMA SaneFlushCleanup ==
  ASSUME Sane, FlushCleanup
  PROVE  Sane'
<1>1. /\ pc = "cleaned" /\ UNCHANGED <<fs, interrupts, walk, todo, result>>
      /\ store' \in StoreFlush(store)
      /\ pc' = IF result = "ok" THEN "complete" ELSE "exit"
  BY DEF FlushCleanup
<1>2. GoodStore(store') /\ Neat(store'.work) /\ Neat(store'.disk)
  BY <1>1, SaneFlush DEF Sane
<1>3. StoreSane'
  BY <1>2 DEF StoreSane, GoodStore, Neat, OneDocEach, StampsInRange
<1>4. RunSane'
  BY <1>1, SaneAfter DEF Sane, RunSane
<1>5. calm' \in BOOLEAN
  BY SaneStill DEF FlushCleanup
<1>6. RestSane'
  BY <1>1, <1>5 DEF Sane, RestSane, walk
<1> QED
  BY <1>1, <1>3, <1>4, <1>6, SaneStep

LEMMA SaneExit ==
  ASSUME Sane, Exit
  PROVE  Sane'
<1>1. PICK s \in StoreFlush(store) : store' = Unopened(s)
  BY DEF Exit
<1>2. /\ pc \in {"exit", "complete"} /\ pc' = "idle"
      /\ result' \in {"complete", result}
      /\ UNCHANGED <<fs, interrupts, walk, todo>>
  BY DEF Exit
<1>3. GoodStore(store') /\ Neat(store'.work) /\ Neat(store'.disk)
  BY <1>1, SaneFlush, SaneUnopened DEF Sane
<1>4. StoreSane'
  BY <1>3 DEF StoreSane, GoodStore, Neat, OneDocEach, StampsInRange
<1>5. RunSane'
  BY <1>2, SaneAfter DEF Sane, RunSane
<1>6. calm' \in BOOLEAN
  BY SaneStill DEF Exit
<1>7. RestSane'
  BY <1>2, <1>6 DEF Sane, RestSane, walk
<1> QED
  BY <1>2, <1>4, <1>5, <1>7, SaneStep

LEMMA SaneCrash ==
  ASSUME Sane, Crash
  PROVE  Sane'
<1>1. GoodStore(store') /\ Neat(store'.work) /\ Neat(store'.disk)
  BY SaneStore, SaneUnopened DEF Sane, Crash
<1>2. StoreSane'
  BY <1>1 DEF StoreSane, GoodStore, Neat, OneDocEach, StampsInRange
<1>3. RunSane'
  <2>1. 0 \in 0..MaxNow /\ <<>> \in Seq(Frame)
    BY BoundsAssumption
  <2> QED
    BY <2>1 DEF Crash, RunSane
<1>4. RestSane'
  BY SaneInterrupts DEF Sane, RestSane, Crash
<1> QED
  BY <1>2, <1>3, <1>4, SaneStep DEF Crash

LEMMA InitSane == Init => Sane
<1> SUFFICES ASSUME Init PROVE Sane
  OBVIOUS
<1>1. /\ EmptyContent \in Contents /\ 0 \in 0..(BatchSize - 1)
      /\ 0 \in 0..MaxEdits /\ 1 \in 1..MaxNow /\ 0 \in 0..MaxNow
      /\ 0 \in 0..MaxMoves /\ 0 \in 0..MaxInterrupts
  BY ContentsEmpty, BatchSizeAssumption, BoundsAssumption
<1>2. FilesSane
  BY <1>1 DEF Init, FilesSane
<1>3. StoreSane
  BY <1>1, NeatEmpty, BoundsAssumption DEF Init, StoreSane, GoodStore, Stores
<1>4. RunSane
  <2>1. <<>> \in Seq(Frame)
    OBVIOUS
  <2> QED
    BY <1>1, <2>1 DEF Init, RunSane
<1>5. RestSane
  BY <1>1 DEF Init, RestSane
<1> QED
  BY <1>2, <1>3, <1>4, <1>5 DEF Sane

LEMMA NextSane == Sane /\ [Next]_vars => Sane'
<1> SUFFICES ASSUME Sane, [Next]_vars PROVE Sane'
  OBVIOUS
<1>1. CASE \E m \in Modes : Start(m)
  BY <1>1, SaneStart
<1>2. CASE Walk
  BY <1>2, SaneEnterDir, SaneUnwind, SaneStatFile, SaneLeaveMessage,
     SaneStoreMessage, SaneLeaveDir DEF Walk
<1>3. CASE Finish
  BY <1>3, SaneFlushIndex, SaneCleanPath, SaneCleanupDone, SaneFlushCleanup,
     SaneExit DEF Finish
<1>4. CASE Environment
  BY <1>4, SaneFileStep, SaneUnwind, SaneCrash DEF Environment
<1>5. CASE UNCHANGED vars
  BY <1>5 DEF vars, fs, walk, Sane, FilesSane, StoreSane, GoodStore, Neat,
              OneDocEach, StampsInRange, RunSane, RestSane
<1> QED
  BY <1>1, <1>2, <1>3, <1>4, <1>5 DEF Next

LEMMA AlwaysSane == Spec => []Sane
BY InitSane, NextSane, PTL DEF Spec

\* The indexer's state is of its type, for every tree of directories, with
\* files that change under it, and with writes and commits that throw
\* (mu-index.c, mu-maildir.c).
THEOREM TypeCorrect == Spec => []TypeOK
BY AlwaysSane, SaneTypeOK, PTL

-----------------------------------------------------------------------------
(* A run that goes all the way records everything.                         *)

\* What it takes of the tree: messages are in directories called cur or new.
MessagesInLeaves == Paths \cap Dirs = {} /\ DirOf \in [Paths -> LeafDirs]

\* The directories that `mu index' called as m does not skip; what is reached
\* from x by way of such directories; and that all of those that may hold
\* messages are reached from the root.
Walked(m) ==
  {d \in Dirs : d \notin NoIndex /\ (m = "reindex" \/ d \notin NoUpdate)}

Leads(m, x, y) ==
  \A S \in SUBSET Dirs :
    x \in S /\ (\A d \in S \cap Walked(m) : Subdirs[d] \subseteq S) => y \in S

Reached(m) == \A d \in LeafDirs \cap Walked(m) : Leads(m, Root, d)

\* What the walk has still to visit.
LeftIn(fr) == UNION {fr[i].todo : i \in 1..Len(fr)}

\* The message p is still to come, or is being looked at.
Pending(m, p) ==
  \/ pc = "message" /\ entry.path = p
  \/ p \in LeftIn(frames)
  \/ \E x \in LeftIn(frames) \cap Dirs : Leads(m, x, DirOf[p])

Records(c, m) == \A p \in Wanted(m) : Current(c, p)
NoneMissing(c) == \A d \in c.docs : file[d.path] # 0

\* Where a run called as m stands that no change of a file and no failing
\* commit has disturbed.
RunInv(m) ==
  calm /\ mode = m =>
    /\ pc \in {"walk", "message"} =>
         \A p \in Wanted(m) : Current(store.work, p) \/ Pending(m, p)
    /\ pc \in {"walked", "clean", "cleaned", "complete"} /\ result = "ok" =>
         Records(store.work, m)
    /\ pc = "clean" =>
         /\ result = "ok"
         /\ \A d \in store.work.docs : file[d.path] # 0 \/ d.path \in todo
    /\ pc \in {"cleaned", "complete"} /\ result = "ok" => NoneMissing(store.work)
    /\ pc = "idle" /\ result = "complete" =>
         Records(store.disk, m) /\ NoneMissing(store.disk)

-----------------------------------------------------------------------------
(* Directories and what is left of the walk.                               *)

LEMMA LeadsOn ==
  ASSUME NEW m, NEW x \in Dirs, NEW y \in Walked(m), Leads(m, x, y)
  PROVE  /\ x \in Walked(m)
         /\ y = x \/ \E z \in Subdirs[x] : Leads(m, z, y)
<1>1. Subdirs \in [Dirs -> SUBSET Dirs]
  BY TreeAssumption
<1>2. x \in Walked(m)
  <2> SUFFICES ASSUME x \notin Walked(m) PROVE y = x
    OBVIOUS
  <2>1. {x} \in SUBSET Dirs /\ {x} \cap Walked(m) = {}
    OBVIOUS
  <2> QED
    BY <2>1 DEF Leads
<1>3. ASSUME y # x, \A z \in Subdirs[x] : ~Leads(m, z, y) PROVE FALSE
  <2> DEFINE U == {x} \cup {w \in Dirs : \E z \in Subdirs[x] : Leads(m, z, w)}
  <2>1. Subdirs[x] \subseteq U
    <3>1. \A z \in Subdirs[x] : z \in Dirs /\ Leads(m, z, z)
      BY <1>1 DEF Leads
    <3> QED
      BY <3>1
  <2>2. ASSUME NEW w \in U \cap Walked(m) PROVE Subdirs[w] \subseteq U
    <3>1. CASE w = x
      BY <2>1, <3>1
    <3>2. ASSUME NEW z \in Subdirs[x], Leads(m, z, w) PROVE Subdirs[w] \subseteq U
      <4>1. w \in Dirs /\ w \in Walked(m) /\ Subdirs[w] \subseteq Dirs
        BY <1>1, <2>2 DEF Walked
      <4>2. \A v \in Subdirs[w] : Leads(m, z, v)
        BY <3>2, <4>1 DEF Leads
      <4> QED
        BY <4>1, <4>2
    <3> QED
      BY <2>2, <3>1, <3>2
  <2>3. U \in SUBSET Dirs /\ x \in U
    OBVIOUS
  <2>4. y \notin U
    BY <1>3
  <2> HIDE DEF U
  <2> QED
    BY <2>2, <2>3, <2>4 DEF Leads
<1> QED
  BY <1>2, <1>3

LEMMA LeftVisit ==
  ASSUME Sane, pc \in {"walk", "message"}, NEW x
  PROVE  \A y \in LeftIn(frames) : y = x \/ y \in LeftIn(Visit(x))
<1>1. /\ Len(Visit(x)) = Len(frames)
      /\ Len(frames) \in Nat /\ Len(frames) > 0
      /\ Visit(x)[1].todo = frames[1].todo \ {x}
      /\ \A i \in 2..Len(frames) : Visit(x)[i] = frames[i]
  BY SaneVisit
<1> SUFFICES ASSUME NEW i \in 1..Len(frames), NEW y \in frames[i].todo, y # x
             PROVE  y \in Visit(x)[i].todo
  BY <1>1 DEF LeftIn
<1>2. i = 1 \/ i \in 2..Len(frames)
  BY <1>1
<1> QED
  BY <1>1, <1>2

LEMMA LeftPushed ==
  ASSUME NEW fr \in Seq(Frame), NEW e \in Frame
  PROVE  e.todo \cup LeftIn(fr) \subseteq LeftIn(<<e>> \o fr)
<1> DEFINE t == <<e>> \o fr
<1>1. /\ Len(t) = Len(fr) + 1 /\ t[1] = e /\ Len(fr) \in Nat
      /\ \A i \in 1..Len(fr) : t[i + 1] = fr[i]
  BY Pushed
<1> HIDE DEF t
<1>2. 1 \in 1..Len(t) /\ \A i \in 1..Len(fr) : i + 1 \in 1..Len(t)
  BY <1>1
<1>3. e.todo \cup LeftIn(fr) \subseteq LeftIn(t)
  BY <1>1, <1>2 DEF LeftIn
<1> QED
  BY <1>3 DEF t

LEMMA LeftPopped ==
  ASSUME NEW fr \in Seq(Frame), Len(fr) > 0, fr[1].todo = {}
  PROVE  LeftIn(fr) \subseteq LeftIn(Tail(fr))
<1> DEFINE t == Tail(fr)
<1>1. /\ Len(t) = Len(fr) - 1 /\ Len(fr) \in Nat
      /\ \A i \in 1..Len(t) : t[i] = fr[i + 1]
  BY Popped
<1> HIDE DEF t
<1>2. \A i \in 1..Len(fr) : i = 1 \/ (i - 1 \in 1..Len(t) /\ fr[i] = t[i - 1])
  <2> SUFFICES ASSUME NEW i \in 1..Len(fr), i # 1
               PROVE  i - 1 \in 1..Len(t) /\ fr[i] = t[i - 1]
    OBVIOUS
  <2>1. i - 1 \in 1..Len(t) /\ (i - 1) + 1 = i
    BY <1>1
  <2> QED
    BY <1>1, <2>1
<1>3. LeftIn(fr) \subseteq LeftIn(t)
  BY <1>2 DEF LeftIn
<1> QED
  BY <1>3 DEF t

LEMMA WantedIn ==
  ASSUME MessagesInLeaves, NEW m, NEW p \in Wanted(m)
  PROVE  /\ p \in Paths \ TooBig /\ p \notin Dirs /\ file[p] # 0
         /\ DirOf[p] \in LeafDirs \cap Walked(m)
BY TreeAssumption DEF MessagesInLeaves, Wanted, Walked

-----------------------------------------------------------------------------
(* The steps.                                                              *)

\* A step of the walk that loses sight of no message.
LEMMA RunInWalk ==
  ASSUME NEW m, RunInv(m), UNCHANGED <<file, mode>>, calm' => calm,
         pc \in {"walk", "message"}, pc' \in {"walk", "message"},
         calm' /\ mode = m =>
           \A p \in Wanted(m) :
             Current(store.work, p) \/ Pending(m, p)
               => Current(store'.work, p) \/ Pending(m, p)'
  PROVE  RunInv(m)'
<1> SUFFICES ASSUME calm', mode = m
             PROVE  \A p \in Wanted(m) :
                       Current(store.work, p)' \/ Pending(m, p)'
  BY DEF RunInv, Wanted
<1>1. \A p \in Wanted(m) : Current(store.work, p) \/ Pending(m, p)
  BY DEF RunInv
<1>2. \A p : Current(store'.work, p) => Current(store.work, p)'
  BY DEF Current
<1> QED
  BY <1>1, <1>2

LEMMA RunFileStep ==
  ASSUME NEW m, RunInv(m),
         \/ \E p \in Paths : Edit(p) \/ Delete(p)
         \/ \E p, q \in Paths : Rename(p, q)
  PROVE  RunInv(m)'
<1>1. calm' = FALSE
  BY DEF Edit, Delete, Rename, FilesChanged
<1> QED
  BY <1>1 DEF RunInv

LEMMA RunSame ==
  ASSUME NEW m, RunInv(m), UNCHANGED <<file, pc, entry, frames, store, mode,
                                       todo, result, calm>>
  PROVE  RunInv(m)'
BY DEF RunInv, Wanted, Current, Pending, LeftIn, Records, NoneMissing

LEMMA RunStart ==
  ASSUME MessagesInLeaves, NEW m, Reached(m), NEW n \in Modes, Start(n)
  PROVE  RunInv(m)'
<1>1. pc' = "walk" /\ frames' = <<[dir |-> "none", todo |-> {Root}]>>
      /\ mode' = n /\ file' = file
  BY DEF Start, fs
<1> DEFINE bottom == [dir |-> "none", todo |-> {Root}]
<1>2. bottom.todo = {Root}
  OBVIOUS
<1> HIDE DEF bottom
<1>3. Len(<<bottom>>) = 1 /\ <<bottom>>[1] = bottom
  OBVIOUS
<1>4. Root \in LeftIn(<<bottom>>)
  BY <1>2, <1>3 DEF LeftIn
<1>5. Root \in LeftIn(frames)' \cap Dirs
  <2>1. LeftIn(frames)' = LeftIn(<<bottom>>)
    BY <1>1 DEF LeftIn, bottom
  <2> QED
    BY <1>4, <2>1, TreeAssumption
<1>6. \A p \in Wanted(m) : Leads(m, Root, DirOf[p])
  BY WantedIn DEF Reached
<1>7. \A p \in Wanted(m) : Pending(m, p)'
  BY <1>5, <1>6 DEF Pending
<1>8. Wanted(m)' = Wanted(m)
  BY <1>1 DEF Wanted
<1> QED
  BY <1>1, <1>7, <1>8 DEF RunInv

LEMMA RunEnterDir ==
  ASSUME MessagesInLeaves, Sane, NEW m, RunInv(m), NEW d \in Dirs, EnterDir(d)
  PROVE  RunInv(m)'
<1>1. /\ pc = "walk" /\ pc' = "walk"
      /\ UNCHANGED <<file, store, mode, entry, calm>>
  BY DEF EnterDir, fs
<1>2. \A y \in LeftIn(frames) : y = d \/ y \in LeftIn(frames')
  <2>1. \A y \in LeftIn(frames) : y = d \/ y \in LeftIn(Visit(d))
    BY <1>1, LeftVisit
  <2>2. CASE Skipped(d)
    BY <2>1, <2>2 DEF EnterDir
  <2>3. CASE ~Skipped(d)
    <3> DEFINE e == [dir |-> d, todo |-> Entries(d)]
               v == Visit(d)
    <3>1. frames' = <<e>> \o v
      BY <2>3 DEF EnterDir
    <3>2. e \in Frame
      BY TreeAssumption DEF Entries, Frame
    <3>3. v \in Seq(Frame)
      BY <1>1, SaneVisit
    <3> HIDE DEF v, e
    <3>4. LeftIn(v) \subseteq LeftIn(frames')
      BY <3>1, <3>2, <3>3, LeftPushed
    <3> QED
      BY <2>1, <3>4 DEF v
  <2> QED
    BY <2>2, <2>3
<1>3. ~Skipped(d) => Entries(d) \subseteq LeftIn(frames')
  <2> SUFFICES ASSUME ~Skipped(d) PROVE Entries(d) \subseteq LeftIn(frames')
    OBVIOUS
  <2> DEFINE e == [dir |-> d, todo |-> Entries(d)]
             v == Visit(d)
  <2>1. frames' = <<e>> \o v
    BY DEF EnterDir
  <2>2. e \in Frame /\ e.todo = Entries(d)
    BY TreeAssumption DEF Entries, Frame
  <2>3. v \in Seq(Frame)
    BY <1>1, SaneVisit
  <2> HIDE DEF v, e
  <2> QED
    BY <2>1, <2>2, <2>3, LeftPushed
<1>4. LeftIn(frames)' = LeftIn(frames')
  BY DEF LeftIn
<1>5. ASSUME mode = m, NEW p \in Wanted(m), Pending(m, p)
      PROVE  Pending(m, p)'
  <2>1. /\ p \in Paths /\ p # d /\ file[p] # 0 /\ DirOf[p] \in LeafDirs
        /\ DirOf[p] \in Walked(m)
    BY WantedIn
  <2>2. CASE p \in LeftIn(frames)
    BY <1>2, <1>4, <2>1, <2>2 DEF Pending
  <2>3. ASSUME NEW x \in LeftIn(frames) \cap Dirs, Leads(m, x, DirOf[p])
        PROVE  Pending(m, p)'
    <3>1. CASE x # d
      BY <1>2, <1>4, <2>3, <3>1 DEF Pending
    <3>2. CASE x = d
      <4>1. /\ d \in Walked(m)
            /\ DirOf[p] = d \/ \E z \in Subdirs[d] : Leads(m, z, DirOf[p])
        BY <2>1, <2>3, <3>2, LeadsOn
      <4>2. ~Skipped(d)
        BY <1>5, <4>1 DEF Skipped, Walked, Reindex
      <4>3. CASE DirOf[p] = d
        BY <1>3, <1>4, <2>1, <4>2, <4>3 DEF Pending, Entries
      <4>4. ASSUME NEW z \in Subdirs[d], Leads(m, z, DirOf[p])
            PROVE  Pending(m, p)'
        <5>1. z \in Dirs /\ z \in LeftIn(frames')
          BY <1>3, <4>2, TreeAssumption DEF Entries
        <5> QED
          BY <1>4, <4>4, <5>1 DEF Pending
      <4> QED
        BY <4>1, <4>3, <4>4
    <3> QED
      BY <3>1, <3>2
  <2> QED
    BY <1>1, <1>5, <2>2, <2>3 DEF Pending
<1> QED
  BY <1>1, <1>5, RunInWalk

LEMMA RunUnwound ==
  ASSUME NEW m, pc' = "walked", result' # "ok"
  PROVE  RunInv(m)'
BY DEF RunInv

LEMMA RunWalkDone ==
  ASSUME Sane, NEW m, RunInv(m), WalkDone
  PROVE  RunInv(m)'
<1>1. /\ pc = "walk" /\ pc' = "walked" /\ result' = "ok"
      /\ frames[1].todo = {} /\ Len(frames) = 1
      /\ UNCHANGED <<file, store, mode, calm>>
  BY DEF WalkDone, Unwind, fs
<1>2. LeftIn(frames) = {}
  BY <1>1 DEF LeftIn
<1>3. calm /\ mode = m => Records(store.work, m)
  BY <1>1, <1>2 DEF RunInv, Pending, Records
<1> QED
  BY <1>1, <1>3 DEF RunInv, Records, Wanted, Current

LEMMA RunUnwind ==
  ASSUME Sane, NEW m, RunInv(m),
         WalkDone \/ \E p \in Paths : FileGone(p) \/ StopAt(p)
  PROVE  RunInv(m)'
<1>1. ASSUME NEW p \in Paths, FileGone(p) \/ StopAt(p) PROVE RunInv(m)'
  BY <1>1, RunUnwound DEF FileGone, StopAt, Unwind
<1> QED
  BY <1>1, RunWalkDone

LEMMA RunStatFile ==
  ASSUME MessagesInLeaves, Sane, NEW m, RunInv(m), NEW p \in Paths, StatFile(p)
  PROVE  RunInv(m)'
<1>1. /\ pc = "walk" /\ pc' \in {"walk", "message"} /\ frames' = Visit(p)
      /\ UNCHANGED <<file, store, mode, calm>>
      /\ p \in TooBig \/ (pc' = "message" /\ entry'.path = p)
  BY DEF StatFile, fs
<1>2. \A y \in LeftIn(frames) : y = p \/ y \in LeftIn(frames)'
  BY <1>1, LeftVisit DEF LeftIn
<1>3. ASSUME NEW q \in Wanted(m), Pending(m, q) PROVE Pending(m, q)'
  <2>1. q \notin TooBig /\ p \notin Dirs
    BY WantedIn DEF MessagesInLeaves
  <2>2. CASE q \in LeftIn(frames)
    BY <1>1, <1>2, <2>1, <2>2 DEF Pending
  <2>3. CASE \E x \in LeftIn(frames) \cap Dirs : Leads(m, x, DirOf[q])
    BY <1>2, <2>1, <2>3 DEF Pending
  <2> QED
    BY <1>1, <1>3, <2>2, <2>3 DEF Pending
<1> QED
  BY <1>1, <1>3, RunInWalk

LEMMA RunLeaveMessage ==
  ASSUME Sane, NEW m, RunInv(m), m = "reindex" \/ (Quiet /\ IndexInv),
         LeaveMessage
  PROVE  RunInv(m)'
<1>1. /\ pc = "message" /\ pc' = "walk"
      /\ ~NeedsIndex(entry.path, entry.ctime) \/ file[entry.path] = 0
      /\ UNCHANGED <<file, store, mode, frames, calm>>
  BY DEF LeaveMessage, fs
<1>2. ASSUME mode = m, NEW p \in Wanted(m), Pending(m, p)
      PROVE  Current(store.work, p) \/ Pending(m, p)'
  <2>1. CASE entry.path = p
    <3>1. ~NeedsIndex(entry.path, entry.ctime)
      BY <1>1, <2>1 DEF Wanted
    <3>2. m # "reindex"
      BY <1>2, <3>1 DEF NeedsIndex, Reindex
    <3> QED
      BY <1>1, <2>1, <3>1, <3>2, OldIsCurrent
  <2>2. CASE entry.path # p
    BY <1>1, <1>2, <2>2 DEF Pending, LeftIn
  <2> QED
    BY <2>1, <2>2
<1> QED
  BY <1>1, <1>2, RunInWalk

LEMMA CurrentAdded ==
  ASSUME NEW c \in Contents, NEW id, NEW p \in Paths
  PROVE  LET r == ReplaceByTerm(c, id, p, file[p])
         IN  /\ Current(r, p)
             /\ \A x : Current(c, x) => Current(r, x)
<1> DEFINE r == ReplaceByTerm(c, id, p, file[p])
           e == Doc(id, p, file[p])
<1>1. /\ r.docs = (c.docs \ DocsAt(c, p)) \cup {e}
      /\ e.path = p /\ e.body = file[p]
  BY DEF ReplaceByTerm, Contents, Doc
<1> HIDE DEF r, e
<1>2. Current(r, p) /\ \A x : Current(c, x) => Current(r, x)
  BY <1>1 DEF Current, DocsAt
<1> QED
  BY <1>2 DEF r

LEMMA RunStoreMessage ==
  ASSUME Sane, NEW m, RunInv(m), StoreMessage
  PROVE  RunInv(m)'
<1> DEFINE p == entry.path
<1>1. /\ pc = "message" /\ file[p] # 0 /\ StillCalm
      /\ UNCHANGED <<file, mode>>
  BY DEF StoreMessage, fs
<1>2. PICK o \in AddMsg(store, p, file[p]) :
            /\ store' = o.s
            /\ IF o.id = InvalidDocId
               THEN Unwind("error")
               ELSE /\ pc' = "walk"
                    /\ entry' = NoEntry
                    /\ UNCHANGED <<frames, dirstamp, result>>
  BY DEF StoreMessage
<1>3. CASE o.id = InvalidDocId
  BY <1>2, <1>3, RunUnwound DEF Unwind
<1>4. CASE o.id # InvalidDocId
  <2>1. pc' = "walk" /\ frames' = frames /\ store' = o.s
    BY <1>2, <1>4
  <2>2. p \in Paths /\ file[p] \in Bodies
    <3>1. p \in Paths
      BY <1>1 DEF Sane, RunSane, Message
    <3> QED
      BY <1>1, <3>1, BodiesAssumption, BoundsAssumption DEF Sane, FilesSane
  <2> DEFINE b == file[p]
  <2>3. o \in AddMsg(store, p, b) /\ b \in Bodies
    BY <1>2, <2>2
  <2>4. GoodStore(store) /\ store.work \in Contents
    BY SaneStore DEF Sane
  <2>5. \/ o.s.badCommits < store.badCommits
        \/ \E id \in IdsForTerm(store.work, p) :
              o.s.work = ReplaceByTerm(store.work, id, p, b)
    <3> HIDE DEF p, b
    <3> QED
      BY <1>4, <2>2, <2>3, <2>4, AddOutcome
  <2>6. store.badCommits \in Nat
    BY <2>4 DEF GoodStore, Stores
  <2>7. calm' => o.s.badCommits = store.badCommits
    BY <1>1, <2>1 DEF StillCalm
  <2>8. ASSUME calm'
        PROVE  /\ Current(store'.work, p)
               /\ \A x : Current(store.work, x) => Current(store'.work, x)
    <3>1. PICK id \in IdsForTerm(store.work, p) :
                  o.s.work = ReplaceByTerm(store.work, id, p, file[p])
      BY <2>5, <2>6, <2>7, <2>8
    <3> DEFINE c == store.work
               r == ReplaceByTerm(c, id, p, file[p])
    <3>2. c \in Contents
      BY <2>4
    <3>3. Current(r, p) /\ \A x : Current(c, x) => Current(r, x)
      <4> HIDE DEF c, p
      <4> QED
        BY <2>2, <3>2, CurrentAdded
    <3> QED
      BY <2>1, <3>1, <3>3
  <2>9. ASSUME calm', NEW q \in Wanted(m), Pending(m, q)
        PROVE  Current(store'.work, q) \/ Pending(m, q)'
    BY <2>1, <2>8, <2>9 DEF Pending, LeftIn
  <2>10. calm' => calm
    BY <1>1 DEF StillCalm
  <2> QED
    BY <1>1, <2>1, <2>8, <2>9, <2>10, RunInWalk
<1> QED
  BY <1>3, <1>4

LEMMA RunLeaveDir ==
  ASSUME Sane, NEW m, RunInv(m), LeaveDir
  PROVE  RunInv(m)'
<1> DEFINE d == frames[1].dir
<1>1. /\ pc = "walk" /\ pc' = "walk" /\ Len(frames) > 1
      /\ frames[1].todo = {}
      /\ frames' = Tail(frames) /\ store' \in SetTimestamp(store, d, now)
      /\ UNCHANGED <<file, mode, entry, calm>>
  BY DEF LeaveDir, fs
<1>2. frames \in Seq(Frame) /\ Len(frames) \in Nat
  BY <1>1, SaneFrames
<1>3. LeftIn(frames) \subseteq LeftIn(frames)'
  <2>1. Len(frames) > 0
    BY <1>1, <1>2
  <2>2. LeftIn(frames) \subseteq LeftIn(Tail(frames))
    BY <1>1, <1>2, <2>1, LeftPopped
  <2> QED
    BY <1>1, <2>2 DEF LeftIn
<1>4. d \in Dirs /\ now \in Nat
  BY <1>1, <1>2, BoundsAssumption DEF Sane, RunSane, FilesSane
<1>5. store'.work.docs = store.work.docs
  <2> HIDE DEF d
  <2> QED
    BY <1>1, <1>4, SaneStore, StampFrame DEF Sane
<1>6. \A p : Current(store.work, p) => Current(store'.work, p)
  BY <1>5 DEF Current
<1>7. \A p : Pending(m, p) => Pending(m, p)'
  BY <1>1, <1>3 DEF Pending
<1> QED
  BY <1>1, <1>6, <1>7, RunInWalk

\* A flush that does not throw: what was seen is on disk.
LEMMA CalmFlush ==
  ASSUME Sane, NEW t \in StoreFlush(store), t.badCommits = store.badCommits
  PROVE  t.work = store.work /\ t.disk = store.work
BY SaneStore, KeptFlush, FlushDurable DEF Sane, Kept

LEMMA RunFlushIndex ==
  ASSUME Sane, NEW m, RunInv(m), FlushIndex
  PROVE  RunInv(m)'
<1>1. /\ pc = "walked" /\ UNCHANGED <<file, mode, result>> /\ StillCalm
      /\ store' \in StoreFlush(store)
      /\ \/ /\ result = "ok" /\ pc' = "clean"
            /\ todo' = {d.path : d \in store'.work.docs}
         \/ pc' = "exit"
  BY DEF FlushIndex, fs, walk
<1>2. calm' => calm /\ store'.work = store.work
  BY <1>1, CalmFlush DEF StillCalm
<1>3. calm' /\ mode = m /\ result = "ok" => Records(store'.work, m)
  BY <1>1, <1>2 DEF RunInv
<1> QED
  BY <1>1, <1>3 DEF RunInv, Records, Wanted, Current

\* Removing the document of a file that is gone.
LEMMA CurrentRemoved ==
  ASSUME NEW c \in Contents, NEW p \in Paths, file[p] = 0, NEW m
  PROVE  /\ Records(c, m) => Records(DeleteByTerm(c, p), m)
         /\ DeleteByTerm(c, p).docs = {d \in c.docs : d.path # p}
<1>1. DeleteByTerm(c, p).docs = {d \in c.docs : d.path # p}
  BY DEF DeleteByTerm, Contents, DocsAt
<1> QED
  BY <1>1 DEF Records, Wanted, Current

LEMMA RunCleanPath ==
  ASSUME Sane, NEW m, RunInv(m), NEW p \in Paths, CleanPath(p)
  PROVE  RunInv(m)'
<1>1. /\ pc = "clean" /\ UNCHANGED <<file, mode, calm>>
  BY DEF CleanPath, fs, walk
<1>2. CASE file[p] # 0
  BY <1>1, <1>2 DEF CleanPath, RunInv, Records, Wanted, Current
<1>3. CASE file[p] = 0
  <2>1. PICK o \in RemovePath(store, p) :
           /\ store' = o.s
           /\ IF o.ok
              THEN /\ todo' = todo \ {p}
                   /\ UNCHANGED <<pc, result>>
              ELSE EndCleanup("error")
    BY <1>3 DEF CleanPath
  <2>2. CASE ~o.ok
    BY <2>1, <2>2 DEF EndCleanup, RunInv
  <2>3. CASE o.ok
    <3>1. store'.work = DeleteByTerm(store.work, p)
      BY <2>1, <2>3, SaneStore, RemoveFrame DEF Sane
    <3>2. store.work \in Contents
      BY SaneStore DEF Sane
    <3>3. /\ Records(store.work, m) => Records(store'.work, m)
          /\ store'.work.docs = {d \in store.work.docs : d.path # p}
      BY <1>3, <3>1, <3>2, CurrentRemoved
    <3>4. Records(store.work, m)' <=> Records(store'.work, m)
      BY <1>1 DEF Records, Wanted, Current
    <3> QED
      BY <1>1, <2>1, <2>3, <3>3, <3>4 DEF RunInv
  <2> QED
    BY <2>2, <2>3
<1> QED
  BY <1>2, <1>3

LEMMA RunCleanupDone ==
  ASSUME Sane, NEW m, RunInv(m), CleanupDone
  PROVE  RunInv(m)'
<1>1. /\ pc = "clean" /\ pc' = "cleaned" /\ UNCHANGED <<file, store, mode, calm>>
      /\ todo = {} \/ result' = "stop"
  BY DEF CleanupDone, EndCleanup, fs, walk
<1> QED
  BY <1>1 DEF RunInv, Records, Wanted, Current, NoneMissing

LEMMA RunFlushCleanup ==
  ASSUME Sane, NEW m, RunInv(m), FlushCleanup
  PROVE  RunInv(m)'
<1>1. /\ pc = "cleaned" /\ UNCHANGED <<file, mode, result>> /\ StillCalm
      /\ store' \in StoreFlush(store)
      /\ pc' \in {"complete", "exit"}
  BY DEF FlushCleanup, fs, walk
<1>2. calm' => calm /\ store'.work = store.work
  BY <1>1, CalmFlush DEF StillCalm
<1>3. calm' /\ mode = m /\ result = "ok" =>
        Records(store'.work, m) /\ NoneMissing(store'.work)
  BY <1>1, <1>2 DEF RunInv
<1> QED
  BY <1>1, <1>3 DEF RunInv, Records, Wanted, Current, NoneMissing

LEMMA RunExit ==
  ASSUME Sane, NEW m, RunInv(m), Exit
  PROVE  RunInv(m)'
<1>1. PICK s \in StoreFlush(store) : store' = Unopened(s)
  BY DEF Exit
<1>2. /\ pc' = "idle" /\ UNCHANGED <<file, mode>> /\ StillCalm
      /\ pc \in {"exit", "complete"}
      /\ result' = IF pc = "complete" THEN "complete" ELSE result
  BY DEF Exit, fs, walk
<1>3. result' = "complete" => pc = "complete" /\ result = "ok"
  BY <1>2 DEF Sane, RunSane
<1>4. store'.disk = s.disk /\ store'.badCommits = s.badCommits
  BY <1>1, SaneFlush, UnopenedFrame DEF Sane
<1>5. calm' => calm /\ store'.disk = store.work
  BY <1>1, <1>2, <1>4, CalmFlush DEF StillCalm
<1>6. calm' /\ mode = m /\ result' = "complete" =>
        Records(store'.disk, m) /\ NoneMissing(store'.disk)
  BY <1>3, <1>5 DEF RunInv
<1> QED
  BY <1>2, <1>6 DEF RunInv, Records, Wanted, Current, NoneMissing

LEMMA RunCrash ==
  ASSUME NEW m, Crash
  PROVE  RunInv(m)'
BY DEF Crash, RunInv

LEMMA InitRunInv == \A m : Init => RunInv(m)
BY DEF Init, RunInv

LEMMA NextRunInv ==
  ASSUME MessagesInLeaves, Sane, NEW m, Reached(m), RunInv(m),
         m = "reindex" \/ (Quiet /\ IndexInv), [Next]_vars
  PROVE  RunInv(m)'
<1>1. CASE \E n \in Modes : Start(n)
  BY <1>1, RunStart
<1>2. CASE Walk
  BY <1>2, RunEnterDir, RunUnwind, RunStatFile, RunLeaveMessage,
     RunStoreMessage, RunLeaveDir DEF Walk
<1>3. CASE Finish
  BY <1>3, RunFlushIndex, RunCleanPath, RunCleanupDone, RunFlushCleanup,
     RunExit DEF Finish
<1>4. CASE Environment
  BY <1>4, RunFileStep, RunSame, RunUnwind, RunCrash DEF Environment, Tick, walk
<1>5. CASE UNCHANGED vars
  BY <1>5, RunSame DEF vars, fs, walk
<1> QED
  BY <1>1, <1>2, <1>3, <1>4, <1>5 DEF Next

LEMMA RunMirrors ==
  ASSUME Sane, NEW m, RunInv(m), CompleteRun(m)
  PROVE  MirrorsFiles(m)
BY DEF RunInv, CompleteRun, MirrorsFiles, Records, NoneMissing, Sane, StoreSane,
       Neat, OneDocEach

\* After the first full scan "it suffices to index the changes"
\* (mu-index.1:44): whatever interrupted the runs before, a `mu index' that
\* ran to its end leaves a database with one document for each message of the
\* maildir as it is, and none for a message that is gone.
THEOREM CompleteRunsMirror ==
  Quiet /\ Reached("update") /\ Spec => []CompleteRunMirrors
<1> SUFFICES ASSUME Quiet, Reached("update") PROVE Spec => []CompleteRunMirrors
  OBVIOUS
<1> DEFINE Inv == Sane /\ IndexInv /\ RunInv("update")
<1>1. MessagesInLeaves
  BY DEF Quiet, MessagesInLeaves
<1>2. Init => Inv
  BY InitSane, InitIndexInv, InitRunInv
<1>3. Inv /\ [Next]_vars => Inv'
  BY <1>1, NextSane, StepIndexInv, NextRunInv
<1>4. Inv => CompleteRunMirrors
  BY RunMirrors DEF CompleteRunMirrors
<1> QED
  BY <1>2, <1>3, <1>4, PTL DEF Spec

\* "mu index --reindex" needs no history: whatever the database was before,
\* however times compare and whatever changed or threw in earlier runs, a run
\* that is not disturbed makes it mirror the maildir, in directories with a
\* .noupdate file as well (mu-maildir.c:510, mu-index.c:110).
THEOREM ReindexRepairs ==
  MessagesInLeaves /\ Reached("reindex") /\ Spec => []ReindexMirrors
<1> SUFFICES ASSUME MessagesInLeaves, Reached("reindex")
             PROVE  Spec => []ReindexMirrors
  OBVIOUS
<1> DEFINE Inv == Sane /\ RunInv("reindex")
<1>1. Init => Inv
  BY InitSane, InitRunInv
<1>2. Inv /\ [Next]_vars => Inv'
  BY NextSane, NextRunInv
<1>3. Inv => ReindexMirrors
  BY RunMirrors DEF ReindexMirrors
<1> QED
  BY <1>1, <1>2, <1>3, PTL DEF Spec

=============================================================================
