------------------------------ MODULE MuFlags -------------------------------
(***************************************************************************)
(* The flags of a message (lib/mu-flags.c), and the names of the files in  *)
(* a maildir that hold some of them (lib/mu-maildir.c).                    *)
(*                                                                         *)
(* A flag is the character for it, a value of MuFlags is a set of flags.   *)
(* MU_FLAG_INVALID is (MuFlags)-1: it has all flags, and bits that are     *)
(* none.  The path of a message is a record: its maildir, whether it is in *)
(* "cur" or "new", the name up to ":2,", and the set of the characters     *)
(* after that, or NoInfo.                                                  *)
(***************************************************************************)
EXTENDS Integers, Sequences, SequencesExt

CONSTANTS
  NoInfo,      \* a file name without ":2,"
  SameMaildir, \* no maildir was given
  NewlyNamed   \* the maildirs that have "/new/" in their path

FileFlags == {"D", "F", "P", "R", "S", "T"}
DirFlags == {"N"}
ContentFlags == {"z", "x", "a"}
PseudoFlags == {"u"}
AllFlags == FileFlags \cup DirFlags \cup ContentFlags \cup PseudoFlags

Invalid == AllFlags \cup {"other bits"}

FromChar(k) == IF k \in AllFlags THEN {k} ELSE Invalid

\* mu_flags_from_str, which is always told to ignore what is no flag.
FromStr(chars, types) == chars \cap types

\* All that is not a flag of a file, "N" and content flags too.
CustomFromStr(chars) == chars \ FileFlags

\* One character with its sign.  A character that is no flag adds, or takes
\* away, all bits: the test for it is on 0.
Apply(flags, d) ==
  IF d.sign = "+" THEN flags \cup FromChar(d.flag) ELSE flags \ FromChar(d.flag)

\* A flag without a sign is an error.
FromStrDelta(deltas, old) ==
  IF \A i \in DOMAIN deltas : deltas[i].sign \in {"+", "-"}
  THEN FoldLeft(Apply, old, deltas) ELSE Invalid

-----------------------------------------------------------------------------
(* Paths.                                                                  *)

Names(mdirs, bases, infos) ==
  [mdir : mdirs, dir : {"cur", "new"}, base : bases, info : infos \cup {NoInfo}]

\* The information is what comes after the last "2" in the path.
FlagsFromInfo(p) ==
  IF p.info = NoInfo \/ "2" \in p.info THEN {} ELSE FromStr(p.info, FileFlags)

\* What mu_maildir_get_flags_from_path may return.  With "/new/" in a path
\* that is not of a file in "new", flags is compared before it has a value.
FlagsFromPath(p) ==
  IF p.dir = "new" THEN {DirFlags}
  ELSE {FlagsFromInfo(p)} \cup (IF p.mdir \in NewlyNamed THEN {DirFlags} ELSE {})

\* Mutant: the flags in the old name are kept as well.
GetNewPathKeeping(p, mdir, flags) ==
  LET target == IF mdir = SameMaildir THEN p.mdir ELSE mdir
  IN IF "N" \in flags
       THEN [mdir |-> target, dir |-> "new", base |-> p.base, info |-> NoInfo]
     ELSE [mdir |-> target, dir |-> "cur", base |-> p.base,
           info |-> (flags \cap FileFlags) \cup (IF p.info = NoInfo THEN {} ELSE p.info)]

\* mu_maildir_get_new_path
GetNewPath(p, mdir, flags) ==
  LET custom == IF p.info = NoInfo THEN {} ELSE CustomFromStr(p.info)
      target == IF mdir = SameMaildir THEN p.mdir ELSE mdir
  IN IF "N" \in flags
       THEN [mdir |-> target, dir |-> "new", base |-> p.base, info |-> NoInfo]
     ELSE [mdir |-> target, dir |-> "cur", base |-> p.base,
           info |-> (flags \cap FileFlags) \cup custom]

\* The flags of a message that is moved: those asked for, or its own.
AskedFlags(asked, p, old) ==
  IF asked.kind = "none" THEN {old}
  ELSE IF asked.kind = "set" THEN {FromStr(asked.flags, AllFlags)}
  ELSE {FromStrDelta(asked.deltas, f) : f \in FlagsFromPath(p)}

=============================================================================
