----------------------------- MODULE SerialLine -----------------------------
(***************************************************************************)
(* The UART between the master PC and the worker, as far as the two        *)
(* programs see it: lines in order, none lost.  A line that is still on    *)
(* its way when a session ends stays on its way.  A session that is killed *)
(* while it writes leaves half a line, and the next line is appended to    *)
(* it.                                                                     *)
(***************************************************************************)
EXTENDS Integers, Sequences

VARIABLES
  to_worker,  \* commands: [cmd, args, script: who sent it, own: in the present session]
  to_pc,      \* replies: [kind, value, own, to: the command a value answers]
  half        \* half a line is waiting in the worker's UART

line_vars == <<to_worker, to_pc, half>>

LineInit == to_worker = <<>> /\ to_pc = <<>> /\ half = FALSE

\* No first command of a session makes a legal line of the half before it.
Joined(line) == IF half THEN [line EXCEPT !.cmd = "garbled", !.args = <<>>] ELSE line

WriteLine(line) ==
  /\ to_worker' = Append(to_worker, Joined(line))
  /\ half' = FALSE

Disowned(lines) == [i \in DOMAIN lines |-> [lines[i] EXCEPT !.own = FALSE]]
=============================================================================
