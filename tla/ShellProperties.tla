-------------------------- MODULE ShellProperties ---------------------------
(***************************************************************************)
(* What should be true of the threads and of the working directory.        *)
(***************************************************************************)
EXTENDS Shell

-----------------------------------------------------------------------------
(* A cd leads where its path leads.  exist() looks the path up with what   *)
(* walk() makes of it, set_pwd_str() makes the new working directory from  *)
(* the same two strings in another way (filesystem.cpp:281-312, :1022);    *)
(* the directory the new string names is the one that was looked up.  That *)
(* is so as long as pwd itself has no "." or ".." in it, which "cd a/.."   *)
(* leaves there; it may be the empty string, which "cd ../." makes of it.  *)
(* It is not so of a path that climbs to the root and goes on: in /a/b,    *)
(* "cd ../../b" finds /a/b and sets /b, for the root is not read as a      *)
(* directory (filesystem.cpp:336).  (A window may have led pwd away from   *)
(* where the path was found.)                                              *)

Plain(p) == \A i \in 1..Len(p.parts) : p.parts[i] \notin Dots

CdAgrees ==
  [][ spc = "cd" /\ spc' # "cd" /\ Plain(pwd) /\ ~ CutOff(Expanded(pwd, Head(line).path)) =>
        Walk(pwd, Head(line).path) \in {LookUp(pwd'.parts), Nowhere} ]_vars

-----------------------------------------------------------------------------
(* The shell and the kernel agree on the mode: the kernel prints what the  *)
(* shell waits for Ctrl-X to end, or is paused, and prints again when it   *)
(* goes on.  The mode is kept twice, and changed by commands that follow   *)
(* one another on a line before the shell looks at its own.                *)

ModesAgree == kmode \in {smode, - smode}

-----------------------------------------------------------------------------
(* After "exit" the program ends: both threads leave their loops, whether  *)
(* the kernel is paused or in a tick, and whatever stands after "exit" on  *)
(* the line, and main() deletes the kernel.                                *)

ExitEnds == kexit ~> deleted
=============================================================================
