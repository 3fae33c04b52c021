------------------------------- MODULE XmlFile -------------------------------
(***************************************************************************)
(* expat.c: an XML file is read in buffers and built into a tree, or       *)
(* checked for errors, and a tree is written to a file by way of another   *)
(* one.  The program may be stopped between any two system calls.          *)
(*                                                                         *)
(* A document is a sequence of tokens "<", ">" and "t", for a start tag,   *)
(* an end tag and text, each as long as the others.  A file that is there  *)
(* can be opened and read: the length -1 of a read that fails is handed to *)
(* XML_Parse as it is, whose scan then has its end before its beginning,   *)
(* and what it finds there is not defined.                                 *)
(***************************************************************************)
EXTENDS Integers, Sequences

CONSTANTS
  Bufsiz,       \* BUFSIZ, in tokens
  Documents,    \* what may be in the file
  Saved         \* documents that xmlnode2file writes over it

ASSUME XmlFileAssumption == Bufsiz \in Nat \ {0} /\ Documents \cup Saved \subseteq Seq({"<", ">", "t"})

VARIABLES
  onDisk, tmp,  \* the file and its .t.m.p, NoFile when there is none
  task,         \* what the program does, [name, at, fd, level, built, rounds]
  result,       \* what the function has returned
  before, wish, short   \* history: the file before, the tree to be saved, whether write was short

fileVars == <<onDisk, tmp, task, result, before, wish, short>>

NoFile == <<"none">>
NoTask == [name |-> "none", at |-> 0, level |-> 0, built |-> <<>>, rounds |-> 0]
Exists(f) == f # NoFile

FileWith(f) ==
  /\ onDisk = f /\ tmp = NoFile
  /\ task = NoTask /\ result = "none"
  /\ before = f /\ wish = <<>> /\ short = FALSE
FileInit == \E f \in Documents \cup {NoFile} : FileWith(f)

(* XML_Parse: the level of the open tags, -1 behind the root, -2 an error. *)
Nest(level, t) ==
  CASE t = "<" -> IF level >= 0 THEN level + 1 ELSE -2
    [] t = ">" -> IF level > 1 THEN level - 1 ELSE IF level = 1 THEN -1 ELSE -2
    [] OTHER -> IF level >= 1 THEN level ELSE -2
Nested(level, piece) ==
  LET after[n \in 0..Len(piece)] == IF n = 0 THEN level ELSE Nest(after[n - 1], piece[n])
  IN after[Len(piece)]
XML_Parse(level, piece, final) ==
  LET end == Nested(level, piece) IN IF final /\ end # -1 THEN -2 ELSE end
Read(at) == SubSeq(onDisk, at + 1, IF at + Bufsiz < Len(onDisk) THEN at + Bufsiz ELSE Len(onDisk))

Begin(name) ==
  /\ task = NoTask /\ result = "none" /\ wish = <<>>
  /\ IF Exists(onDisk) THEN task' = [NoTask EXCEPT !.name = name] /\ UNCHANGED result
                       ELSE result' = (IF name = "file" THEN "NULL" ELSE "unable to open file") /\ UNCHANGED task
  /\ UNCHANGED <<onDisk, tmp, before, wish, short>>

(* xmlnode_file, one turn of its loop: expat_startElement, expat_endElement
   and expat_charData put the tokens into the tree; an error frees it. *)
FileTurn ==
  LET buf == Read(task.at)
      done == Len(buf) < Bufsiz
      level == XML_Parse(task.level, buf, done)
      next == [task EXCEPT !.at = @ + Len(buf), !.level = level, !.built = @ \o buf]
  IN /\ task.name = "file"
     /\ IF level = -2 THEN task' = NoTask /\ result' = "NULL"
        ELSE IF done THEN task' = [next EXCEPT !.name = "built"] /\ result' = "tree"
        ELSE task' = next /\ UNCHANGED result
     /\ UNCHANGED <<onDisk, tmp, before, wish, short>>

(* xmlnode_file_borked: the loop is left with an error only; at the end of
   the file expat is told so again and again. *)
BorkedTurn ==
  LET buf == Read(task.at)
      done == Len(buf) < Bufsiz
      level == XML_Parse(task.level, buf, done)
  IN /\ task.name = "borked" /\ task.rounds < 2
     /\ IF level = -2 THEN task' = NoTask /\ result' = "borked"
        ELSE task' = [task EXCEPT !.at = @ + Len(buf), !.level = level, !.rounds = IF done THEN @ + 1 ELSE @] /\ UNCHANGED result
     /\ UNCHANGED <<onDisk, tmp, before, wish, short>>

(* xmlnode2file: open, write, close and rename, or less of it. *)
OpenTmp(doc) ==
  /\ task = NoTask /\ result = "none" /\ wish = <<>>
  /\ wish' = doc
  /\ \/ tmp' = <<>> /\ task' = [NoTask EXCEPT !.name = "write"] /\ UNCHANGED result
     \/ result' = "failed" /\ UNCHANGED <<tmp, task>>
  /\ UNCHANGED <<onDisk, before, short>>
WriteTmp ==
  /\ task.name = "write"
  /\ \/ \E n \in 0..Len(wish) : tmp' = SubSeq(wish, 1, n) /\ short' = (n < Len(wish))
        /\ task' = [task EXCEPT !.name = "rename"] /\ UNCHANGED result
     \/ task' = NoTask /\ result' = "failed" /\ UNCHANGED <<tmp, short>>
  /\ UNCHANGED <<onDisk, before, wish>>
RenameTmp ==
  /\ task.name = "rename" /\ task' = NoTask /\ tmp' = NoFile
  /\ \/ onDisk' = tmp /\ result' = "saved"
     \/ UNCHANGED onDisk /\ result' = "failed"
  /\ UNCHANGED <<before, wish, short>>
(* The process is killed: what it held is gone, the files are not. *)
Killed ==
  /\ task # NoTask /\ task.name # "built" /\ task' = NoTask /\ result' = "killed"
  /\ UNCHANGED <<onDisk, tmp, before, wish, short>>
(* It is started again. *)
Restarted ==
  /\ result \in {"killed", "saved", "failed"} /\ result' = "none"
  /\ before' = onDisk /\ wish' = <<>> /\ short' = FALSE
  /\ UNCHANGED <<onDisk, tmp, task>>

FileNext ==
  \/ \E name \in {"file", "borked"} : Begin(name)
  \/ FileTurn \/ BorkedTurn
  \/ \E doc \in Saved : OpenTmp(doc)
  \/ WriteTmp \/ RenameTmp \/ Killed \/ Restarted
FileSpec == FileInit /\ [][FileNext]_fileVars
-----------------------------------------------------------------------------
Sound(doc) == Nested(0, doc) = -1

(* xmlnode_file returns a tree for a whole and well formed document only,
   and then all of it, wherever the ends of the buffers fall. *)
TreeIsDocument ==
  /\ result = "tree" => Sound(onDisk) /\ task.built = onDisk
  /\ (result = "NULL" /\ Exists(onDisk)) => ~Sound(onDisk)

(* xmlnode_file_borked comes back for a file with an error; for one without
   it reads the end of the file for ever. *)
BorkedHangs ==
  /\ (task.name = "borked" /\ task.rounds = 2) => Sound(onDisk)
  /\ result = "borked" => ~Sound(onDisk)

(* Whenever the program is stopped, the file is the one that was there or
   the one that was to be saved, unless write has taken less of it than it
   was given, which nothing looks at. *)
FileOldOrNew == short \/ onDisk \in {before, wish}
=============================================================================
