-------------------------- MODULE RuleReload_proofs --------------------------
(***************************************************************************)
(* Proofs about RuleReload, for every set of contents, every bound and     *)
(* both kinds of file system.                                              *)
(***************************************************************************)
EXTENDS RuleReload, TLAPS

\* What the call in progress has read is what is on disk, unless dirty.
BufCurrent ==
  pc = "stat" => /\ buf.version <= file.version
                 /\ ~dirty => buf.version = file.version

\* The rules in memory are never newer than the file, they are the file's own
\* only while its mtime is the one remembered, and a call that got past the
\* first stat is about to install something newer.
MemBehind ==
  mem # None =>
    /\ mem.version <= file.version
    /\ mem.version = file.version => last = Mtime
    /\ pc \in {"read", "stat"} => mem.version < file.version
    /\ pc = "stat" => mem.version < buf.version

IndInv == TypeOK /\ BufCurrent /\ MemBehind /\ SkippedOnlyWhenCurrent

USE ContentAssumption, BoundAssumption, NoneAssumption

LEMMA InitInv == Init => IndInv
<1> SUFFICES ASSUME Init PROVE IndInv
  OBVIOUS
<1> USE DEF Init
<1>1. file \in DiskFile
  <2>1. PICK c \in Content \cup {Missing} :
          file = [content |-> c, stamp |-> 0, version |-> 0]
    OBVIOUS
  <2> QED BY <2>1 DEF DiskFile
<1>2. clock \in 0..MaxTick
  OBVIOUS
<1>3. /\ saving \in Content \cup {None} /\ buf \in Version \cup {None}
      /\ mem \in Version \cup {None} /\ last \in 0..MaxTick \cup {None}
  OBVIOUS
<1>4. BufCurrent /\ MemBehind /\ SkippedOnlyWhenCurrent
  BY DEF BufCurrent, MemBehind, SkippedOnlyWhenCurrent
<1>5. TypeOK
  BY <1>1, <1>2, <1>3 DEF TypeOK
<1> QED BY <1>4, <1>5 DEF IndInv

\* Any change of the file keeps the invariant: it raises the version, marks the
\* call in progress dirty, and is excused when it repeats the remembered mtime.
LEMMA EditInv ==
  ASSUME IndInv, NEW c \in Content \cup {Missing}, NEW t \in 0..MaxTick,
         EditFile(c, t), saving' \in Content \cup {None}
  PROVE  IndInv'
<1> USE DEF IndInv, EditFile
<1>1. TypeOK'
  BY DEF TypeOK, DiskFile, Version, Content
<1>2. BufCurrent'
  BY DEF TypeOK, BufCurrent, DiskFile, Version
<1>3. MemBehind'
  BY DEF TypeOK, MemBehind, DiskFile, Version
<1>4. SkippedOnlyWhenCurrent'
  BY DEF TypeOK, SkippedOnlyWhenCurrent, Mtime, DiskFile, Version
<1> QED BY <1>1, <1>2, <1>3, <1>4

LEMMA MtimeType == TypeOK => Mtime \in 0..MaxTick \cup {None}
  BY DEF TypeOK, Mtime, DiskFile

LEMMA NextInv == IndInv /\ [Next]_vars => IndInv'
<1> SUFFICES ASSUME IndInv, [Next]_vars PROVE IndInv'
  OBVIOUS
<1> USE DEF IndInv
<1>1. ASSUME NEW c \in Content, TruncateFile(c) PROVE IndInv'
  BY <1>1, EditInv DEF TruncateFile, TypeOK, Content
<1>2. CASE FinishSave
  BY <1>2, EditInv DEF FinishSave, TypeOK, Content
<1>3. ASSUME NEW c \in Content, NEW t \in 0..MaxTick, ReplaceFile(c, t)
      PROVE IndInv'
  BY <1>3, EditInv DEF ReplaceFile, TypeOK
<1>4. CASE RemoveFile
  BY <1>4, EditInv DEF RemoveFile, TypeOK, DiskFile
<1>5. CASE Tick
  BY <1>5 DEF Tick, TypeOK, BufCurrent, MemBehind, SkippedOnlyWhenCurrent, Mtime
<1>6. CASE LoadFromPath
  BY <1>6 DEF LoadFromPath, TypeOK, BufCurrent, MemBehind,
              SkippedOnlyWhenCurrent, Mtime
<1>7. CASE ReloadStat
  <2> USE <1>7 DEF ReloadStat, ruleset, Return, SkipReload
  <2>1. TypeOK' /\ BufCurrent'
    BY DEF TypeOK, BufCurrent
  <2>2. Mtime' = Mtime
    BY DEF Mtime
  <2>3. SkippedOnlyWhenCurrent'
    BY <2>2 DEF SkippedOnlyWhenCurrent
  <2>4. MemBehind'
    BY <2>2 DEF MemBehind, TypeOK, DiskFile, Version
  <2> QED BY <2>1, <2>3, <2>4
<1>8. CASE ReadFile
  <2> USE <1>8 DEF ReadFile, ruleset, Return
  <2>1. TypeOK'
    BY DEF TypeOK, DiskFile, Version, Content
  <2>2. Mtime' = Mtime
    BY DEF Mtime
  <2>3. BufCurrent' /\ SkippedOnlyWhenCurrent'
    BY <2>2 DEF BufCurrent, SkippedOnlyWhenCurrent, TypeOK, DiskFile
  <2>4. MemBehind'
    BY <2>2 DEF MemBehind, TypeOK, DiskFile, Version
  <2> QED BY <2>1, <2>3, <2>4
<1>9. CASE StatAndParse
  <2> USE <1>9 DEF StatAndParse, Return
  <2>1. Mtime' = Mtime
    BY DEF Mtime
  <2>2. CASE Install
    <3>1. TypeOK'
      BY <2>2, MtimeType DEF Install, TypeOK
    <3>2. BufCurrent' /\ MemBehind'
      BY <2>1, <2>2 DEF Install, BufCurrent, MemBehind, TypeOK, Version, DiskFile
    <3>3. SkippedOnlyWhenCurrent'
      BY <2>1, <2>2 DEF Install, SkippedOnlyWhenCurrent, BufCurrent
    <3> QED BY <3>1, <3>2, <3>3
  <2>3. CASE Reject
    BY <2>1, <2>3 DEF Reject, TypeOK, BufCurrent, MemBehind, SkippedOnlyWhenCurrent
  <2> QED BY <2>2, <2>3
<1>10. CASE UNCHANGED vars
  BY <1>10 DEF vars, TypeOK, BufCurrent, MemBehind, SkippedOnlyWhenCurrent, Mtime
<1> QED
  BY <1>1, <1>2, <1>3, <1>4, <1>5, <1>6, <1>7, <1>8, <1>9, <1>10
  DEF Next, Operator, ReloadCall

LEMMA Invariance == Spec => []IndInv
  BY InitInv, NextInv, PTL DEF Spec

\* Every variable keeps its type, and there is a RuleSet exactly where the
\* program believes there is one.
THEOREM TypeCorrect == Spec => []TypeOK
  BY Invariance, PTL DEF IndInv

\* An Ok(false) of reload_if_changed means the rules are the file's, but for
\* the two excuses: whatever the contents and however long the run.
THEOREM SkipIsSafe == Spec => []SkippedOnlyWhenCurrent
  BY Invariance, PTL DEF IndInv

\* A reload installs only contents that validate, only newer versions of the
\* file, and a call that fails changes neither field of the RuleSet.
THEOREM NoRegress == Spec => ReloadNeverRegresses
<1> DEFINE Step == /\ mem' # mem => /\ mem'.content \in Good
                                    /\ mem # None => mem'.version > mem.version
                   /\ last' # last => result' = "true"
<1>1. IndInv /\ [Next]_vars => [Step]_vars
  <2> SUFFICES ASSUME IndInv, Next PROVE Step
    BY DEF vars
  <2>1. CASE UNCHANGED ruleset
    BY <2>1 DEF ruleset
  <2>2. CASE StatAndParse
    <3>1. CASE Install
      BY <2>2, <3>1 DEF StatAndParse, Install, Return, IndInv, MemBehind, TypeOK,
                        Version
    <3>2. CASE Reject
      BY <3>2 DEF Reject
    <3> QED BY <2>2, <3>1, <3>2 DEF StatAndParse
  <2>3. Next => UNCHANGED ruleset \/ StatAndParse
    BY DEF Next, Operator, ReloadCall, ruleset, TruncateFile, FinishSave,
           ReplaceFile, RemoveFile, EditFile, Tick, LoadFromPath, ReloadStat, ReadFile
  <2> QED BY <2>1, <2>2, <2>3
<1> QED BY <1>1, Invariance, PTL DEF Spec, ReloadNeverRegresses
=============================================================================
