------------------------------ MODULE ShellRun ------------------------------
(***************************************************************************)
(* shell.run of src/jev_tools/catalog.py (POSIX): a command is started in  *)
(* a process group of its own, two threads read its pipes, and the call    *)
(* waits for the command no longer than its timeout, kills the group, and  *)
(* gives each reader one more second.                                      *)
(*                                                                         *)
(* The command may start descendants, which inherit its pipes; one may     *)
(* leave the group, so that no kill reaches it.  Nothing is assumed of     *)
(* what processes do, or whether they ever end.                            *)
(***************************************************************************)
EXTENDS Naturals

CONSTANTS
  Descendant, \* what the command may start
  Command,    \* the command
  Pipe,       \* stdout and stderr
  First,      \* stdout, whose reader is joined first
  PipeSize    \* bound on the chunks that a pipe holds

Program == {Command} \cup Descendant

ASSUME ShellAssumption ==
  /\ Command \notin Descendant
  /\ First \in Pipe
  /\ PipeSize \in Nat \ {0}

VARIABLES
  call,    \* "waiting", "killed", "reaped", "joining", "joined" or "returned"
  timedOut,  \* timed_out
  awaited,   \* the reader that is joined
  where,     \* program -> "none", "group", "outside" or "dead"
  opens,     \* program -> the pipes it holds open
  unread,    \* pipe -> the chunks in it
  reading,   \* the pipes whose reader is alive
  incomplete \* output_collection_incomplete

processVars == <<where, opens>>
callVars == <<call, timedOut, awaited, incomplete>>
shellVars == <<callVars, processVars, unread, reading>>

ShellInit ==
  /\ call = "waiting" /\ timedOut = FALSE /\ awaited = First
  /\ where = [p \in Program |-> IF p = Command THEN "group" ELSE "none"]
  /\ opens = [p \in Program |-> IF p = Command THEN Pipe ELSE {}]
  /\ unread = [q \in Pipe |-> 0]
  /\ reading = Pipe
  /\ incomplete = FALSE

Alive == {p \in Program : where[p] \in {"group", "outside"}}
Group == {p \in Program : where[p] = "group"}
HeldOpen(q) == \E p \in Alive : q \in opens[p]

-----------------------------------------------------------------------------
(* The processes *)

Dead(programs) ==
  /\ where' = [p \in Program |-> IF p \in programs THEN "dead" ELSE where[p]]
  /\ opens' = [p \in Program |-> IF p \in programs THEN {} ELSE opens[p]]

Exit(p) == p \in Alive /\ Dead({p}) /\ UNCHANGED <<callVars, unread, reading>>

Fork(p, child, holds) ==
  /\ p \in Alive /\ where[child] = "none" /\ holds \subseteq opens[p]
  /\ where' = [where EXCEPT ![child] = where[p]]
  /\ opens' = [opens EXCEPT ![child] = holds]
  /\ UNCHANGED <<callVars, unread, reading>>

(* setsid; the leader of a group cannot. *)
LeaveGroup(p) ==
  /\ p \in Group \ {Command}
  /\ where' = [where EXCEPT ![p] = "outside"]
  /\ UNCHANGED <<opens, callVars, unread, reading>>

Output(p, q) ==
  /\ p \in Alive /\ q \in opens[p] /\ unread[q] < PipeSize
  /\ unread' = [unread EXCEPT ![q] = @ + 1]
  /\ UNCHANGED <<callVars, processVars, reading>>

Processes ==
  \/ \E p \in Program : Exit(p) \/ LeaveGroup(p) \/ \E q \in Pipe : Output(p, q)
  \/ \E p \in Program, child \in Descendant, holds \in SUBSET Pipe : Fork(p, child, holds)

-----------------------------------------------------------------------------
(* A reader: drain reads until nobody holds the other end.  What it reads  *)
(* is counted, and kept up to a limit.                                     *)

ReadChunk(q) ==
  /\ q \in reading /\ unread[q] > 0
  /\ unread' = [unread EXCEPT ![q] = @ - 1]
  /\ UNCHANGED <<callVars, processVars, reading>>

ReaderEnds(q) ==
  /\ q \in reading /\ unread[q] = 0 /\ ~HeldOpen(q)
  /\ reading' = reading \ {q}
  /\ UNCHANGED <<callVars, processVars, unread>>

Reader(q) == ReadChunk(q) \/ ReaderEnds(q)

-----------------------------------------------------------------------------
(* The call *)

(* proc.wait returns in time. *)
CommandEnds ==
  /\ call = "waiting" /\ where[Command] = "dead"
  /\ call' = "reaped"
  /\ UNCHANGED <<timedOut, awaited, incomplete, processVars, unread, reading>>

WaitTimesOut ==
  /\ call = "waiting"
  /\ timedOut' = TRUE
  /\ Dead(Group)
  /\ call' = "killed"
  /\ UNCHANGED <<awaited, incomplete, unread, reading>>

(* The second wait has no timeout, but a kill cannot be ignored.           *)
Reap ==
  /\ call = "killed" /\ where[Command] = "dead"
  /\ call' = "reaped"
  /\ UNCHANGED <<timedOut, awaited, incomplete, processVars, unread, reading>>

\* Mutant: the group is left alone when the command has ended in time.
KillOnTimeout ==
  /\ call = "reaped"
  /\ IF timedOut THEN Dead(Group) ELSE UNCHANGED processVars
  /\ call' = "joining"
  /\ UNCHANGED <<timedOut, awaited, incomplete, unread, reading>>

KillGroup ==
  /\ call = "reaped"
  /\ Dead(Group)
  /\ call' = "joining"
  /\ UNCHANGED <<timedOut, awaited, incomplete, unread, reading>>

\* Mutant: a reader is joined without a timeout.
JoinForEver ==
  /\ call = "joining" /\ awaited \notin reading
  /\ IF awaited = First /\ Pipe # {First}
     THEN awaited' \in Pipe \ {First} /\ UNCHANGED call
     ELSE call' = "joined" /\ UNCHANGED awaited
  /\ UNCHANGED <<timedOut, incomplete, processVars, unread, reading>>

(* reader.join returns when the reader has ended, or after a second.       *)
Join ==
  /\ call = "joining"
  /\ IF awaited = First /\ Pipe # {First}
     THEN awaited' \in Pipe \ {First} /\ UNCHANGED call
     ELSE call' = "joined" /\ UNCHANGED awaited
  /\ UNCHANGED <<timedOut, incomplete, processVars, unread, reading>>

\* Mutant: only the reader that was joined last is asked for.
ReportLast ==
  /\ call = "joined"
  /\ incomplete' = (awaited \in reading)
  /\ call' = "returned"
  /\ UNCHANGED <<timedOut, awaited, processVars, unread, reading>>

Report ==
  /\ call = "joined"
  /\ incomplete' = (reading # {})
  /\ call' = "returned"
  /\ UNCHANGED <<timedOut, awaited, processVars, unread, reading>>

Collecting == CommandEnds \/ WaitTimesOut \/ Reap \/ KillGroup \/ Join \/ Report

ShellNext == Processes \/ Collecting \/ \E q \in Pipe : Reader(q)

(* Time passes, so that every timeout comes; threads run. *)
ShellSpec ==
  /\ ShellInit /\ [][ShellNext]_shellVars
  /\ WF_shellVars(Collecting)
  /\ \A q \in Pipe : WF_shellVars(Reader(q))

-----------------------------------------------------------------------------
(* Properties *)

(* When the call returns nothing that is left in the command's group runs  *)
(* on, and unless it says so it has read all that was ever written.        *)
LeavesNothing ==
  call = "returned" =>
    /\ Group = {}
    /\ ~incomplete => \A q \in Pipe : unread[q] = 0 /\ ~HeldOpen(q)

(* The call returns, although a descendant may hold a pipe open for ever.  *)
ShellReturns == <>(call = "returned")
=============================================================================
