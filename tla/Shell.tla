------------------------------- MODULE Shell --------------------------------
(***************************************************************************)
(* The threads of the program: the shell's, which reads lines of commands, *)
(* the kernel's, which ticks, main(), which waits for both and then        *)
(* deletes the kernel, and the windows of the monitor, which nobody waits  *)
(* for (src/OperatingSystem.cpp 174-187, src/src/shell.cpp, the loop of    *)
(* Kernel::run(), src/src/gui.cpp 546-557).                                *)
(*                                                                         *)
(* The commands are those that change what the threads share: the working  *)
(* directory, the mode and the exit flag of the kernel.  What a tick and   *)
(* the other commands do is the business of the other modules.             *)
(***************************************************************************)
EXTENDS Paths

CONSTANTS
  Lines,        \* the lines that are typed, sequences of commands joined by "&&"
  WindowPaths,  \* the paths that are typed in a window
  MaxParts,     \* bounds of the model: parts of the working directory,
  MaxWindows    \*   windows

\* What may be typed: a path as it was cut into parts, and the commands with it
PathsTyped == [abs : BOOLEAN, parts : Seq(STRING)]
Commands ==
  [op : {"cd"}, path : PathsTyped] \cup [op : {"set"}, mode : Int]
    \cup [op : {"pause", "window", "exit"}]

ASSUME ShellAssumption ==
  /\ \A cmds \in Lines : cmds \in Seq(Commands) /\ cmds # <<>>
  /\ \A path \in WindowPaths : path \in PathsTyped

VARIABLES
  pwd,          \* Filesystem::pwd
  shown,        \* Shell_CLI::pwd_str, which the prompt shows
  smode,        \* Shell_CLI::mode
  sexit,        \* Shell_CLI::exit
  spc,          \* where the shell is: "top" of its loop, in a "line", in a "cd"
                \* that is approved, or "done"
  line,         \* the commands of the line that are left
  kmode,        \* Kernel::mode, below 0 while the kernel is paused
  kexit,        \* Kernel::exit_kernel
  kpc,          \* where the kernel is: at the "loop" head, in a "tick", or "done"
  windows,      \* windows of the monitor
  deleted       \* the destructor of the shell has deleted the kernel

svars == <<smode, sexit, spc, line>>
kvars == <<kmode, kexit, kpc>>
dirs  == <<pwd, shown>>
vars  == <<dirs, svars, kvars, windows, deleted>>

Snapshots == {2, 3}     \* the modes of "set ps" and "set mem"

\* A line is only typed where its cd leaves the working directory within the bound
FitsIn(cmds) ==
  \A i \in 1..Len(cmds) :
    cmds[i].op = "cd" => Len(Expanded(pwd, cmds[i].path)) <= MaxParts

-----------------------------------------------------------------------------
(* The shell *)

ReadLine ==
  /\ spc = "top" /\ ~ sexit /\ smode \notin Snapshots
  /\ line' \in Lines /\ FitsIn(line') /\ spc' = "line"
  /\ UNCHANGED <<smode, sexit, dirs, kvars, windows, deleted>>

\* a bug to be caught: the kernel goes on printing
CtrlXAlone ==
  /\ spc = "top" /\ ~ sexit /\ smode \in Snapshots
  /\ smode' = 0
  /\ UNCHANGED <<sexit, spc, line, kmode, kexit, kpc, dirs, windows, deleted>>

\* Ctrl-X ends a snapshot: 0 is a mode as good as 1, but has no negative
CtrlX ==
  /\ spc = "top" /\ ~ sexit /\ smode \in Snapshots
  /\ smode' = 0 /\ kmode' = 0
  /\ UNCHANGED <<sexit, spc, line, kexit, kpc, dirs, windows, deleted>>

\* The first command of the line is op, and the shell goes on after it
Command(op) == spc = "line" /\ Head(line).op = op
Done == line' = Tail(line) /\ spc' = IF Tail(line) = <<>> THEN "top" ELSE "line"

\* cd: the path must lead to a directory, but for "." and ".."; the root is
\* none to exist(), so "cd /" is refused
CheckCd ==
  /\ Command("cd")
  /\ LET path == Head(line).path
     IN  IF \/ path \in {Path(FALSE, <<".">>), Path(FALSE, <<"..">>)}
            \/ Walk(pwd, path) \notin {Nowhere, <<>>}
         THEN spc' = "cd" /\ UNCHANGED line
         ELSE Done
  /\ UNCHANGED <<smode, sexit, dirs, kvars, windows, deleted>>

\* ... and is then set, whatever has become of pwd since
SetCd ==
  /\ spc = "cd"
  /\ pwd' = SetPwdStr(pwd, Head(line).path)
  /\ shown' = pwd'
  /\ Done
  /\ UNCHANGED <<smode, sexit, kvars, windows, deleted>>

SetMode ==
  /\ Command("set")
  /\ smode' = Head(line).mode /\ kmode' = Head(line).mode
  /\ Done
  /\ UNCHANGED <<sexit, kexit, kpc, dirs, windows, deleted>>

Pause ==
  /\ Command("pause")
  /\ kmode' = - kmode
  /\ Done
  /\ UNCHANGED <<smode, sexit, kexit, kpc, dirs, windows, deleted>>

OpenWindow ==
  /\ Command("window")
  /\ windows' = IF windows < MaxWindows THEN windows + 1 ELSE windows
  /\ Done
  /\ UNCHANGED <<smode, sexit, dirs, kvars, deleted>>

\* The rest of the line is still done
Exit ==
  /\ Command("exit")
  /\ kexit' = TRUE /\ sexit' = TRUE
  /\ Done
  /\ UNCHANGED <<smode, kmode, kpc, dirs, windows, deleted>>

ShellEnds ==
  /\ spc = "top" /\ sexit
  /\ spc' = "done"
  /\ UNCHANGED <<smode, sexit, line, dirs, kvars, windows, deleted>>

-----------------------------------------------------------------------------
(* The kernel, main() and the windows *)

\* a bug to be caught: a paused kernel does not look at the exit flag
KernelTurnPaused ==
  /\ kpc = "loop" /\ kmode >= 0
  /\ kpc' = IF kexit THEN "done" ELSE "tick"
  /\ UNCHANGED <<kmode, kexit, dirs, svars, windows, deleted>>

\* The head of the loop in run(): a paused kernel goes round and round, reading
\* both words again each time
KernelTurn ==
  /\ kpc = "loop" /\ (kexit \/ kmode >= 0)
  /\ kpc' = IF kexit THEN "done" ELSE "tick"
  /\ UNCHANGED <<kmode, kexit, dirs, svars, windows, deleted>>

TickEnds ==
  /\ kpc = "tick"
  /\ kpc' = "loop"
  /\ UNCHANGED <<kmode, kexit, dirs, svars, windows, deleted>>

\* main() has joined both threads, and the shell goes out of scope
Delete ==
  /\ spc = "done" /\ kpc = "done" /\ ~ deleted
  /\ deleted' = TRUE
  /\ UNCHANGED <<dirs, svars, kvars, windows>>

\* "Set" in a window: set_pwd() of what was typed, which nothing checks, and
\* the prompt of the shell does not change
WindowCd(path) ==
  /\ windows > 0 /\ ~ deleted
  /\ pwd' = SetPwdStr(pwd, path) /\ Len(pwd'.parts) <= MaxParts
  /\ UNCHANGED <<shown, svars, kvars, windows, deleted>>

CloseWindow ==
  /\ windows > 0
  /\ windows' = windows - 1
  /\ UNCHANGED <<dirs, svars, kvars, deleted>>

-----------------------------------------------------------------------------

Init ==
  /\ pwd = Slash /\ shown = Slash
  /\ smode = 1 /\ sexit = FALSE /\ spc = "top" /\ line = <<>>
  /\ kmode = 1 /\ kexit = FALSE /\ kpc = "loop"
  /\ windows = 0 /\ deleted = FALSE

ShellStep ==
  \/ CheckCd \/ SetCd \/ SetMode \/ Pause \/ OpenWindow \/ Exit \/ ShellEnds

KernelStep == KernelTurn \/ TickEnds

Next ==
  \/ ReadLine \/ CtrlX \/ ShellStep
  \/ KernelStep
  \/ Delete
  \/ CloseWindow \/ \E path \in WindowPaths : WindowCd(path)

\* Threads are run, commands and ticks come to an end; nobody has to type
Fairness == WF_vars(ShellStep) /\ WF_vars(KernelStep) /\ WF_vars(Delete)

Spec == Init /\ [][Next]_vars /\ Fairness
=============================================================================
