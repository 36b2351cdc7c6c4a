------------------------------- MODULE Paths --------------------------------
(***************************************************************************)
(* Path names: what walk() makes of one before it looks anything up, what  *)
(* it finds, and what set_pwd_str() makes of the working directory         *)
(* (src/src/filesystem.cpp 274-354 and 1022-1054).                         *)
(*                                                                         *)
(* A path is its parts between slashes and whether it begins with one:     *)
(* "/a/.." is the parts a and .., and abs; "/" is no parts, and abs; the   *)
(* empty string is no parts, and not abs.  A slash at the end is dropped   *)
(* by all the functions before they do anything else.  The string of the   *)
(* working directory is a path too, with its "." and ".." as they were     *)
(* typed.                                                                  *)
(*                                                                         *)
(* The inode of the root is read from a block that makefs() did not write  *)
(* it to (filesystem.cpp:60, :70, :159-161), so it has no mode: the root   *)
(* is no directory to whoever asks its inode.                              *)
(***************************************************************************)
EXTENDS Integers, Sequences, SequencesExt

CONSTANT Dirs   \* the directories that exist, each by the names that lead to it

Nowhere == <<"">>       \* no directory has this name

\* The root is one, and a directory is in a directory.
ASSUME DirsAssumption ==
  /\ \A d \in Dirs : d \in Seq(STRING) /\ d # Nowhere
  /\ <<>> \in Dirs
  /\ \A d \in Dirs : d # <<>> => Front(d) \in Dirs

Path(abs, parts) == [abs |-> abs, parts |-> parts]
Slash  == Path(TRUE, <<>>)
Nothing == Path(FALSE, <<>>)      \* the empty string

Dots == {".", ".."}

\* All parts but the last, of a path that may have none
Up(parts) == IF parts = <<>> THEN <<>> ELSE Front(parts)

-----------------------------------------------------------------------------
(* walk() *)

\* The parts that are looked up from the root: only what a path begins with
\* is treated, and ".." there takes the last part off the string of pwd
Expanded(pwd, path) ==
  CASE path.abs              -> path.parts
    [] ~ path.abs /\ path.parts[1] = "."  -> pwd.parts \o Tail(path.parts)
    [] ~ path.abs /\ path.parts[1] = ".." -> Up(pwd.parts) \o Tail(path.parts)
    [] OTHER                 -> pwd.parts \o path.parts

\* The directory whose inode an entry of directory d names: every one has "."
\* and "..", and the root is above itself
Beneath(d, name) ==
  CASE d = Nowhere -> Nowhere
    [] d # Nowhere /\ name = "."  -> d
    [] d # Nowhere /\ name = ".." -> Up(d)
    [] OTHER -> IF Append(d, name) \in Dirs THEN Append(d, name) ELSE Nowhere

\* The directory whose entries are searched after those of d, for each d.  They
\* are read if the inode found says that it is a directory, which the one of the
\* root does not: ".." may find the root, but walk() goes on where it found it.
Enter(name) ==
  [d \in Dirs \cup {Nowhere} |-> IF Beneath(d, name) = <<>> THEN d ELSE Beneath(d, name)]

\* Where walk() is after each number of the parts
Among(parts) ==
  LET dir[i \in 0..Len(parts)] ==
        IF i = 0 THEN <<>> ELSE Enter(parts[i])[dir[i - 1]]
  IN  dir

\* What the last part finds, after the others
LookUp(parts) ==
  IF parts = <<>> THEN <<>>
  ELSE Beneath(Among(parts)[Len(parts) - 1], parts[Len(parts)])

\* The parts come to the root by ".." and go on, elsewhere
CutOff(parts) ==
  LET w == Among(parts)
  IN  \E i \in 1..(Len(parts) - 1) : w[i] # Beneath(w[i - 1], parts[i])

\* walk() as far as directories go; an empty string leads nowhere, and so
\* does "." below one
Walk(pwd, path) ==
  IF path = Nothing \/ (path = Path(FALSE, <<".">>) /\ pwd = Nothing) THEN Nowhere
  ELSE LookUp(Expanded(pwd, path))

-----------------------------------------------------------------------------
(* set_pwd_str() *)

\* a bug to be caught: "../" is taken off, and nothing for it from pwd
SetPwdStay(pwd, path) ==
  IF path.abs THEN path
  ELSE Path(TRUE, pwd.parts \o SelectSeq(path.parts, LAMBDA part : part \notin Dots))

\* The dots at the beginning of a relative path are taken off one by one: a
\* ".." that others follow takes the last part off pwd, and what is left may be
\* the empty string; the last part of all makes it "/" then.  What comes after
\* the first name is appended as it is.
SetPwdStr(pwd, path) ==
  LET n     == Len(path.parts)
      names == {i \in 1..n : path.parts[i] \notin Dots}
      dots  == IF names = {} THEN n ELSE Min(names) - 1
      taken[i \in 0..dots] ==
        LET p == taken[i - 1]
        IN  CASE i = 0 -> pwd
              [] i > 0 /\ path.parts[i] = "." -> p
              [] i > 0 /\ path.parts[i] = ".." ->
                   Path(i = n \/ p = Slash \/ Len(p.parts) > 1, Up(p.parts))
  IN  IF path.abs THEN path
      ELSE IF dots = n THEN taken[n]
      ELSE Path(TRUE, taken[dots].parts \o SubSeq(path.parts, dots + 1, n))
=============================================================================
