----------------------------- MODULE RuleReload -----------------------------
(***************************************************************************)
(* Hot reload of a RuleSet from its YAML file: packages/core/src/rules.rs, *)
(* load_from_path and reload_if_changed, interleaved with the operator who *)
(* edits the file.  A call is not atomic: it stats the file, reads it,     *)
(* stats it again and only then parses, and an edit may fall between any   *)
(* two of these system calls.                                              *)
(*                                                                         *)
(* A file content is a member of Good (it parses and validate_rules        *)
(* accepts it) or of Bad (YAML error, duplicate id, empty id or signal).   *)
(* Blank is the content of a truncated file; it parses to the empty set.   *)
(***************************************************************************)
EXTENDS Naturals

CONSTANTS
  Good,            \* contents that parse and validate
  Bad,             \* contents that do not
  Blank,           \* the empty file, a member of Good
  Missing,         \* "content" of a path where there is no file
  None,            \* Option::None
  FsReportsMtime,  \* FALSE on a file system whose metadata carries no mtime
  MaxTick,         \* bound: ticks of the file system's mtime clock
  MaxEdits         \* bound: changes of the file

ASSUME ContentAssumption ==
  /\ Blank \in Good
  /\ Good \cap Bad = {}
  /\ Missing \notin Good \cup Bad
  /\ None \notin Good \cup Bad
  /\ None \notin Nat
  /\ FsReportsMtime \in BOOLEAN
ASSUME BoundAssumption == MaxTick \in Nat /\ MaxEdits \in Nat

VARIABLES
  file,     \* [content, stamp, version]: what is on disk; version counts edits
  clock,    \* mtime given to a write now
  saving,   \* content an in-place save has still to write, or None
  pc,       \* "none" (no RuleSet yet), "idle", or the next system call of a call
  buf,      \* file contents read by the call in progress
  mem,      \* RuleSet.rules, as the file version it was parsed from, or None
  last,     \* RuleSet.last_loaded_mtime
  result,   \* what the last finished call returned
  dirty,    \* history: the file changed since the call in progress read it
  excuse    \* history: why last may hide a change of the file (see EditFile)

vars == <<file, clock, saving, pc, buf, mem, last, result, dirty, excuse>>
ruleset == <<mem, last>>

Content  == Good \cup Bad
Version  == [content : Content, stamp : 0..MaxTick, version : 0..MaxEdits]
DiskFile == [content : Content \cup {Missing}, stamp : 0..MaxTick,
             version : 0..MaxEdits]
ASSUME NoneAssumption == None \notin Version

\* mtime as fs::metadata(..).modified() reports it: None stands for Err.
Mtime == IF file.content # Missing /\ FsReportsMtime THEN file.stamp ELSE None

Init ==
  /\ \E c \in Content \cup {Missing} :
       file = [content |-> c, stamp |-> 0, version |-> 0]
  /\ clock = 0
  /\ saving = None
  /\ pc = "none"
  /\ buf = None
  /\ mem = None
  /\ last = None
  /\ result = "none"
  /\ dirty = FALSE
  /\ excuse = {}

-----------------------------------------------------------------------------
(***************************************************************************)
(* The operator.  A change whose mtime equals the remembered one is        *)
(* invisible to the mtime comparison: the history variable notes it.       *)
(***************************************************************************)
EditFile(c, t) ==
  /\ file.version < MaxEdits
  /\ file' = [content |-> c, stamp |-> t, version |-> file.version + 1]
  /\ dirty' = TRUE
  /\ excuse' = excuse \cup IF t = last THEN {"stamp"} ELSE {}
  /\ UNCHANGED <<clock, pc, buf, mem, last, result>>

\* Saving in place (fs::write, most editors): the file is truncated, then written.
TruncateFile(c) ==
  /\ saving = None
  /\ saving' = c
  /\ EditFile(Blank, clock)

FinishSave ==
  /\ saving # None
  /\ saving' = None
  /\ EditFile(saving, clock)

\* Renaming another file over the path: it brings its own mtime, old or new.
ReplaceFile(c, t) ==
  /\ saving = None
  /\ t <= clock
  /\ EditFile(c, t)
  /\ UNCHANGED saving

RemoveFile ==
  /\ saving = None
  /\ EditFile(Missing, file.stamp)
  /\ UNCHANGED saving

Tick ==
  /\ clock < MaxTick
  /\ clock' = clock + 1
  /\ UNCHANGED <<file, saving, pc, buf, mem, last, result, dirty, excuse>>

-----------------------------------------------------------------------------
(***************************************************************************)
(* The RuleSet.  Return(r) ends a call; without a RuleSet (load_from_path  *)
(* failed) the caller is back where it was.                                *)
(***************************************************************************)
\* Defect: the caller of a failed load_from_path goes on with a RuleSet.
ReturnIgnoringFailure(r) == pc' = "idle" /\ result' = r /\ buf' = None

Return(r) ==
  /\ pc' = IF r = "true" \/ mem # None THEN "idle" ELSE "none"
  /\ result' = r
  /\ buf' = None

LoadFromPath ==
  /\ pc = "none"
  /\ pc' = "read"
  /\ UNCHANGED <<file, clock, saving, buf, mem, last, result, dirty, excuse>>

\* Defect: reload only what is newer, as the doc comment's "has advanced" reads.
SkipUnlessAdvanced == last # None /\ Mtime <= last

SkipReload == last # None /\ last = Mtime

\* The stat that opens reload_if_changed and the decision it takes on it.
ReloadStat ==
  /\ pc = "idle"
  /\ \/ /\ Mtime = None
        /\ Return("err")
     \/ /\ Mtime # None
        /\ SkipReload
        /\ Return("false")
     \/ /\ Mtime # None
        /\ ~SkipReload
        /\ pc' = "read"
        /\ UNCHANGED <<buf, result>>
  /\ UNCHANGED <<file, clock, saving, ruleset, dirty, excuse>>

\* read_and_parse: fs::read_to_string.
ReadFile ==
  /\ pc = "read"
  /\ \/ /\ file.content = Missing
        /\ Return("err")
        /\ UNCHANGED dirty
     \/ /\ file.content # Missing
        /\ buf' = file
        /\ pc' = "stat"
        /\ dirty' = FALSE
        /\ UNCHANGED result
  /\ UNCHANGED <<file, clock, saving, ruleset, excuse>>

\* The file parsed: the caller assigns both fields, the mtime being that of a
\* second stat made after the read.
Install ==
  /\ buf.content \in Good
  /\ mem' = buf
  /\ last' = Mtime
  /\ excuse' = IF dirty THEN {"race"} ELSE {}
  /\ Return("true")

\* Defect: the mtime of a file that did not parse is remembered.
RejectRemembering ==
  buf.content \in Bad /\ last' = Mtime /\ UNCHANGED <<mem, excuse>> /\ Return("err")

\* Defect: the rules are assigned before they are validated.
RejectInstalling ==
  buf.content \in Bad /\ mem' = buf /\ UNCHANGED <<last, excuse>> /\ Return("err")

\* The file did not parse or validate: neither field is assigned.
Reject ==
  /\ buf.content \in Bad
  /\ UNCHANGED <<mem, last, excuse>>
  /\ Return("err")

StatAndParse ==
  /\ pc = "stat"
  /\ Install \/ Reject
  /\ UNCHANGED <<file, clock, saving, dirty>>

Operator ==
  \/ \E c \in Content : TruncateFile(c)
  \/ FinishSave
  \/ \E c \in Content, t \in 0..MaxTick : ReplaceFile(c, t)
  \/ RemoveFile
  \/ Tick

ReloadCall == ReloadStat \/ ReadFile \/ StatAndParse

Next == Operator \/ LoadFromPath \/ ReloadCall

\* The embedding program polls reload_if_changed, and a call once made runs on.
Spec == Init /\ [][Next]_vars /\ WF_vars(ReloadCall)

-----------------------------------------------------------------------------
TypeOK ==
  /\ file \in DiskFile
  /\ clock \in 0..MaxTick
  /\ saving \in Content \cup {None}
  /\ pc \in {"none", "idle", "read", "stat"}
  /\ buf \in Version \cup {None}
  /\ mem \in Version \cup {None}
  /\ last \in 0..MaxTick \cup {None}
  /\ result \in {"none", "true", "false", "err"}
  /\ dirty \in BOOLEAN
  /\ excuse \subseteq {"race", "stamp"}
  /\ pc = "none" => mem = None
  /\ pc = "idle" => mem # None
  /\ pc = "stat" <=> buf # None

\* When the next poll would answer Ok(false) the rules in memory are the ones
\* on disk, unless an edit fell between the read and the second stat of the
\* load they came from, or a later edit carries the very mtime remembered.
SkippedOnlyWhenCurrent ==
  mem # None /\ Mtime # None /\ last = Mtime /\ excuse = {}
    => mem.version = file.version

\* A reload never goes back to an older version of the file, never installs
\* a content that does not validate, and an error leaves both fields alone.
ReloadNeverRegresses ==
  [][/\ mem' # mem => /\ mem'.content \in Good
                      /\ mem # None => mem'.version > mem.version
     /\ last' # last => result' = "true"]_vars

\* Once the operator stops editing, polling brings a file that parses into
\* memory, again unless one of the two excuses holds.
EditsReachMemory ==
  <>[](mem # None /\ file.content \in Good /\ saving = None /\ excuse = {}
         => mem.version = file.version)

-----------------------------------------------------------------------------
\* A comment of the source that a run refutes.

\* rules.rs:277: the second stat comes after the read "so we can never remember
\* a newer mtime than the content we actually parsed".
MtimeNotNewerThanContent == last # None => last <= mem.stamp
=============================================================================
