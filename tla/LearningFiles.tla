--------------------------- MODULE LearningFiles ---------------------------
(***************************************************************************)
(* The skill and memory files of the learning loop (tools/learn) and their *)
(* copies under _deprecated/, as the commands reach them through package   *)
(* os: each system call is atomic, a command is not.                       *)
(*                                                                         *)
(* A file's text is the set of those who wrote it: each appends or         *)
(* replaces a body, and what the properties ask of a text is whose it is.  *)
(***************************************************************************)
EXTENDS Naturals

CONSTANTS
  Paths,         \* the canonical files
  MaxSecond,     \* bound: the clock's last second
  Authors,       \* whoever writes bodies
  NoFile         \* os.ErrNotExist

VARIABLE
  files          \* files[x]: what is at place x

Stamps == 1..MaxSecond

\* The copy <<path, stamp>> is <dir>/_deprecated/<stem>-<seconds><ext>.
Copies == Paths \X Stamps
Places == Paths \cup Copies

\* header: moveToDeprecated has put its line on top.
File == [text : SUBSET Authors, header : BOOLEAN]

ASSUME FilesAssumption ==
  /\ MaxSecond \in Nat \ {0}
  /\ Paths \cap Copies = {}
  /\ NoFile \notin File

-----------------------------------------------------------------------------
Exists(x) == files[x] # NoFile

Plain(text) == [text |-> text, header |-> FALSE]
Stamped(text) == [text |-> text, header |-> TRUE]

Put(x, file) == files' = [files EXCEPT ![x] = file]

\* os.WriteFile truncates before it writes: when it fails, or the process dies
\* in it, the old content may be gone and the new one not be there.
Torn == Plain({})
PutFails(x) == UNCHANGED files \/ Put(x, Torn)

Rename(x, y) ==
  /\ Exists(x)
  /\ files' = [files EXCEPT ![y] = files[x], ![x] = NoFile]

Remove(x) == Exists(x) /\ Put(x, NoFile)
=============================================================================
