-------------------------- MODULE BackgroundProofs --------------------------
(***************************************************************************)
(* Six of the components that work in the background of a decision, for    *)
(* any number of processes, callers, tasks, pages, blocks and errors.      *)
(*                                                                         *)
(* shell.run: when it returns, nothing runs in the command's group, and    *)
(* output is only missing if it says so.  A killed group stays empty       *)
(* because what leaves a group never returns to it and only members have   *)
(* children in it (GroupGone); a pipe that nobody holds stays so because   *)
(* only a holder can pass it on (PipesDrained).                            *)
(*                                                                         *)
(* RevisionPrefetch: a result is handed out once, because a task is in the *)
(* slot, awaited by one take or handed out, and never two of these.        *)
(*                                                                         *)
(* FileReplace: a replacement installs its text over the content it was    *)
(* asked to replace, unless somebody who does not share its lock wrote     *)
(* after its second comparison.  Between that comparison and the rename a  *)
(* replacement holds the lock of its process, so no other replacement of   *)
(* that process can come between (LockInv).                                *)
(*                                                                         *)
(* Speculation: the buffer is bounded because a future that is collected   *)
(* becomes at most one shadow (RoomForFutures), and a promotion installs   *)
(* what was prepared because a page never has two contents under one       *)
(* revision (CopyOf).                                                      *)
(*                                                                         *)
(* ContextRefresh: what a refresh installs is what its verifiers saw, and  *)
(* refreshes come as rarely as they should.  While its verifiers run, a    *)
(* request has been let through the cooldown and the budget and no other   *)
(* refresh commits (RefreshInv), and whatever has happened to one of its   *)
(* blocks shows in the block's revision or stale flag (HistoryInv).        *)
(*                                                                         *)
(* DecisionTrace and ErrorSummaries: the counters of an edge count the     *)
(* records of the log that have its key (TraceInv), so sums over edges     *)
(* count the log (SumsCountTheLog), and what is compiled from the edges is *)
(* what the log says.  A failed run is logged once and submitted once, and *)
(* a submitted error is counted or waits, in its order (SummaryInv).       *)
(***************************************************************************)
EXTENDS ShellRun, RevisionPrefetch, FileReplace, Speculation, VirtualOptionProofs,
        MCContextRefresh, ContextSpaceProofs, ErrorSummaries, FoldProofs

-----------------------------------------------------------------------------
(* shell.run *)

ProcessTypeOK ==
  /\ where \in [Program -> {"none", "group", "outside", "dead"}]
  /\ opens \in [Program -> SUBSET Pipe]
  /\ unread \in [Pipe -> Nat]
  /\ reading \subseteq Pipe

GroupGone == call \in {"joining", "joined", "returned"} => Group = {}

PipesDrained == \A q \in Pipe \ reading : unread[q] = 0 /\ ~HeldOpen(q)

Reported == call = "returned" /\ ~incomplete => reading = {}

ShellInv == ProcessTypeOK /\ GroupGone /\ PipesDrained /\ Reported

-----------------------------------------------------------------------------
LEMMA ShellInvStarts == ShellInit => ShellInv
  BY ShellAssumption DEF ShellAssumption, ShellInit, ShellInv, ProcessTypeOK, GroupGone, PipesDrained, Reported, Program

LEMMA DeadKeeps ==
  ASSUME ShellInv, NEW programs, Dead(programs), UNCHANGED <<unread, reading>>
  PROVE  ProcessTypeOK' /\ PipesDrained' /\ Group' = Group \ programs
  BY DEF Dead, ShellInv, ProcessTypeOK, PipesDrained, HeldOpen, Alive, Group

(* Nothing a process does opens a pipe again, or joins the group.          *)
LEMMA ProcessesKeep ==
  ASSUME ShellInv, Processes
  PROVE  ShellInv'
<1>1. ASSUME NEW p \in Program, Exit(p) PROVE ShellInv'
  <2>1. Dead({p}) /\ UNCHANGED <<callVars, unread, reading>>
    BY <1>1 DEF Exit
  <2>2. ProcessTypeOK' /\ PipesDrained' /\ Group' = Group \ {p}
    BY <2>1, DeadKeeps
  <2> QED
    BY <2>1, <2>2 DEF callVars, ShellInv, GroupGone, Reported
<1>2. ASSUME NEW p \in Program, LeaveGroup(p) PROVE ShellInv'
  BY <1>2 DEF LeaveGroup, callVars, ShellInv, ProcessTypeOK, GroupGone, PipesDrained, Reported, HeldOpen, Alive, Group
<1>3. ASSUME NEW p \in Program, NEW q \in Pipe, Output(p, q) PROVE ShellInv'
  <2>1. q \in reading
    BY <1>3 DEF Output, ShellInv, PipesDrained, HeldOpen
  <2> QED
    BY <1>3, <2>1 DEF Output, callVars, processVars, ShellInv, ProcessTypeOK, GroupGone, PipesDrained, Reported,
      HeldOpen, Alive, Group
<1>4. ASSUME NEW p \in Program, NEW child \in Descendant, NEW holds \in SUBSET Pipe, Fork(p, child, holds)
      PROVE  ShellInv'
  <2>1. child \in Program
    BY DEF Program
  <2>2. ProcessTypeOK'
    BY <1>4, <2>1 DEF Fork, ShellInv, ProcessTypeOK
  <2>3. GroupGone' /\ Reported'
    BY <1>4, <2>1 DEF Fork, callVars, ShellInv, ProcessTypeOK, GroupGone, Reported, Group
  <2>4. \A q \in Pipe : HeldOpen(q)' => HeldOpen(q)
    BY <1>4, <2>1 DEF Fork, ShellInv, ProcessTypeOK, HeldOpen, Alive
  <2>5. PipesDrained'
    BY <1>4, <2>4 DEF Fork, ShellInv, PipesDrained
  <2> QED
    BY <2>2, <2>3, <2>5 DEF ShellInv
<1> QED
  BY <1>1, <1>2, <1>3, <1>4 DEF Processes

LEMMA ReaderKeeps ==
  ASSUME ShellInv, NEW q \in Pipe, Reader(q)
  PROVE  ShellInv'
<1>1. CASE ReadChunk(q)
  BY <1>1 DEF ReadChunk, callVars, processVars, ShellInv, ProcessTypeOK, GroupGone, PipesDrained, Reported, HeldOpen,
    Alive, Group
<1>2. CASE ReaderEnds(q)
  BY <1>2 DEF ReaderEnds, callVars, processVars, ShellInv, ProcessTypeOK, GroupGone, PipesDrained, Reported, HeldOpen,
    Alive, Group
<1> QED
  BY <1>1, <1>2 DEF Reader

LEMMA CollectingKeeps ==
  ASSUME ShellInv, Collecting
  PROVE  ShellInv'
<1>1. CASE WaitTimesOut \/ KillGroup
  <2>1. Dead(Group) /\ UNCHANGED <<unread, reading>> /\ call' \in {"killed", "joining"}
    BY <1>1 DEF WaitTimesOut, KillGroup
  <2>2. ProcessTypeOK' /\ PipesDrained' /\ Group' = {}
    BY <2>1, DeadKeeps
  <2> QED
    BY <2>1, <2>2 DEF ShellInv, GroupGone, Reported
<1>2. CASE CommandEnds \/ Reap \/ Join \/ Report
  <2>1. UNCHANGED <<processVars, unread, reading>>
    BY <1>2 DEF CommandEnds, Reap, Join, Report
  <2>2. ProcessTypeOK' /\ PipesDrained' /\ Group' = Group
    BY <2>1 DEF processVars, ShellInv, ProcessTypeOK, PipesDrained, HeldOpen, Alive, Group
  <2>3. GroupGone' /\ Reported'
    BY <1>2, <2>1, <2>2 DEF CommandEnds, Reap, Join, Report, ShellInv, GroupGone, Reported
  <2> QED
    BY <2>2, <2>3 DEF ShellInv
<1> QED
  BY <1>1, <1>2 DEF Collecting

LEMMA ShellInvKept == ShellInv /\ [ShellNext]_shellVars => ShellInv'
<1> SUFFICES ASSUME ShellInv, [ShellNext]_shellVars PROVE ShellInv'
  OBVIOUS
<1>1. CASE UNCHANGED shellVars
  BY <1>1 DEF shellVars, callVars, processVars, ShellInv, ProcessTypeOK, GroupGone, PipesDrained, Reported, HeldOpen,
    Alive, Group
<1>2. CASE ShellNext
  BY <1>2, ProcessesKeep, ReaderKeeps, CollectingKeeps DEF ShellNext
<1> QED
  BY <1>1, <1>2

(* When the call returns nothing in the command's group runs on, and what  *)
(* is not reported as incomplete has been read to its end.                 *)
THEOREM NothingIsLeft == ShellSpec => []LeavesNothing
<1>1. ShellInit => ShellInv
  BY ShellInvStarts
<1>2. ShellInv /\ [ShellNext]_shellVars => ShellInv'
  BY ShellInvKept
<1>3. ShellInv => LeavesNothing
  BY DEF ShellInv, GroupGone, PipesDrained, Reported, LeavesNothing
<1> QED
  BY <1>1, <1>2, <1>3, PTL DEF ShellSpec

-----------------------------------------------------------------------------
(* RevisionPrefetch *)

Status == {"running", "cancelling"} \cup Ended
Job == [revision : Nat, status : Status]
Taking(c) == caller[c].at = "take"

PrefetchTypeOK ==
  /\ current \in Nat
  /\ jobs \in Seq(Job)
  /\ slot \in (1..Len(jobs)) \cup {NoTask}
  /\ DOMAIN caller = Caller

(* The task a take waits for has left the slot, and nobody else has it.    *)
TakenAlone ==
  \A c \in Caller : Taking(c) =>
    /\ caller[c].job \in 1..Len(jobs) /\ caller[c].job # slot
    /\ jobs[caller[c].job].revision = caller[c].revision
    /\ \A d \in Caller : Taking(d) /\ caller[d].job = caller[c].job => d = c

(* A task whose result was handed out is nowhere else any more.            *)
HandedOut ==
  \A g \in got :
    /\ g.job \in 1..Len(jobs) /\ g.job # slot
    /\ jobs[g.job].revision = g.asked
    /\ \A c \in Caller : ~(Taking(c) /\ caller[c].job = g.job)
    /\ \A h \in got : g.job = h.job => g = h

PrefetchInv == PrefetchTypeOK /\ TakenAlone /\ HandedOut

(* A task keeps its revision whatever becomes of it.                       *)
LEMMA WithStatus ==
  ASSUME NEW job \in Job, NEW status \in Status
  PROVE  /\ [job EXCEPT !.status = status] \in Job
         /\ [job EXCEPT !.status = status].revision = job.revision
  BY DEF Job

LEMMA CancelledKeeps ==
  ASSUME jobs \in Seq(Job), NEW J
  PROVE  /\ Cancelled(J) \in Seq(Job) /\ Len(Cancelled(J)) = Len(jobs)
         /\ \A j \in 1..Len(jobs) : Cancelled(J)[j].revision = jobs[j].revision
<1>1. DOMAIN jobs = 1..Len(jobs) /\ Len(jobs) \in Nat
  OBVIOUS
<1>2. ASSUME NEW j \in 1..Len(jobs)
      PROVE  Cancelled(J)[j] \in Job /\ Cancelled(J)[j].revision = jobs[j].revision
  <2> DEFINE stopped == [jobs[j] EXCEPT !.status = "cancelling"]
  <2>1. jobs[j] \in Job
    BY <1>2
  <2>2. stopped \in Job /\ stopped.revision = jobs[j].revision
    BY <2>1, WithStatus DEF Status
  <2>3. Cancelled(J)[j] = stopped \/ Cancelled(J)[j] = jobs[j]
    BY <1>1, Zenon DEF Cancelled
  <2> HIDE DEF stopped
  <2> QED
    BY <2>1, <2>2, <2>3
<1>3. DOMAIN Cancelled(J) = 1..Len(jobs) /\ Cancelled(J) = [j \in 1..Len(jobs) |-> Cancelled(J)[j]]
  BY <1>1, Zenon DEF Cancelled
<1> HIDE DEF Cancelled
<1> DEFINE after == Cancelled(J)
<1>4. after \in [1..Len(jobs) -> Job]
  BY <1>2, <1>3
<1>5. after \in Seq(Job) /\ Len(after) = Len(jobs)
  BY <1>1, <1>4
<1> QED
  BY <1>2, <1>5

LEMMA StartTaskKeeps ==
  ASSUME PrefetchInv, NEW c \in Caller, Start(c, current)
  PROVE  PrefetchInv'
<1> DEFINE old == Cancelled({slot})
           new == [revision |-> current, status |-> "running"]
<1>1. old \in Seq(Job) /\ Len(old) = Len(jobs)
      /\ \A j \in 1..Len(jobs) : old[j].revision = jobs[j].revision
  BY CancelledKeeps DEF PrefetchInv, PrefetchTypeOK
<1>2. new \in Job
  BY DEF PrefetchInv, PrefetchTypeOK, Job, Status
<1>3. jobs' = Append(old, new) /\ slot' = Len(jobs) + 1 /\ UNCHANGED <<current, caller, got>>
  BY DEF Start
<1> HIDE DEF old, new
<1>4. jobs' \in Seq(Job) /\ Len(jobs') = Len(jobs) + 1 /\ Len(jobs) \in Nat
      /\ \A j \in 1..Len(jobs) : jobs'[j] = old[j]
  BY <1>1, <1>2, <1>3
<1>5. \A j \in 1..Len(jobs) : j \in 1..Len(jobs') /\ j # slot' /\ jobs'[j].revision = jobs[j].revision
  BY <1>1, <1>3, <1>4
<1>6. PrefetchTypeOK'
  BY <1>3, <1>4 DEF PrefetchInv, PrefetchTypeOK
<1>7. TakenAlone'
  BY <1>3, <1>5 DEF PrefetchInv, TakenAlone, Taking
<1>8. HandedOut'
  BY <1>3, <1>5 DEF PrefetchInv, HandedOut, Taking
<1> QED
  BY <1>6, <1>7, <1>8 DEF PrefetchInv

(* The steps that only tell a task to stop or empty the slot.              *)
LEMMA EmptyingKeeps ==
  ASSUME PrefetchInv, slot' \in {slot, NoTask}, UNCHANGED <<current, got>>,
         jobs' = jobs \/ \E J : jobs' = Cancelled(J),
         DOMAIN caller' = Caller,
         \A c \in Caller : caller'[c] = caller[c] \/ ~Taking(c)'
  PROVE  PrefetchInv'
<1>1. jobs' \in Seq(Job) /\ Len(jobs') = Len(jobs)
      /\ \A j \in 1..Len(jobs) : jobs'[j].revision = jobs[j].revision
  BY CancelledKeeps DEF PrefetchInv, PrefetchTypeOK
<1>2. NoTask \notin Nat /\ Len(jobs) \in Nat
  BY PrefetchAssumption DEF PrefetchAssumption, PrefetchInv, PrefetchTypeOK
<1> QED
  BY <1>1, <1>2 DEF PrefetchInv, PrefetchTypeOK, TakenAlone, HandedOut, Taking

LEMMA TakeStepKeeps ==
  ASSUME PrefetchInv, NEW c \in Caller, Take(c, current)
  PROVE  PrefetchInv'
<1>1. NoTask \notin Nat /\ Len(jobs) \in Nat
  BY PrefetchAssumption DEF PrefetchAssumption, PrefetchInv, PrefetchTypeOK
<1>2. /\ slot \in 1..Len(jobs) /\ jobs[slot].revision = current
      /\ slot' = NoTask /\ UNCHANGED <<current, jobs, got>>
      /\ caller' = [caller EXCEPT ![c] = [at |-> "take", job |-> slot, revision |-> current]]
  BY DEF Take, Wait, PrefetchInv, PrefetchTypeOK
<1>3. DOMAIN caller' = Caller /\ Taking(c)' /\ caller'[c].job = slot /\ caller'[c].revision = current
      /\ \A d \in Caller \ {c} : caller'[d] = caller[d]
  BY <1>2 DEF PrefetchInv, PrefetchTypeOK, Taking
<1>4. PrefetchTypeOK'
  BY <1>2, <1>3 DEF PrefetchInv, PrefetchTypeOK
<1>5. TakenAlone'
  BY <1>1, <1>2, <1>3 DEF PrefetchInv, TakenAlone, Taking
<1>6. HandedOut'
  BY <1>1, <1>2, <1>3 DEF PrefetchInv, HandedOut, Taking
<1> QED
  BY <1>4, <1>5, <1>6 DEF PrefetchInv

LEMMA TakenKeeps ==
  ASSUME PrefetchInv, NEW c \in Caller, TakenSlot(c)
  PROVE  PrefetchInv'
<1> DEFINE result == [caller |-> c, job |-> caller[c].job, asked |-> caller[c].revision]
<1>1. Taking(c) /\ UNCHANGED <<current, jobs, slot>> /\ got' \subseteq got \cup {result} /\ got \subseteq got'
  BY DEF TakenSlot, Taking
<1>2. DOMAIN caller' = Caller /\ ~Taking(c)' /\ \A d \in Caller \ {c} : caller'[d] = caller[d]
  BY DEF TakenSlot, Return, Idle, Taking, PrefetchInv, PrefetchTypeOK
<1>3. \A d \in Caller : Taking(d)' => d # c /\ Taking(d) /\ caller'[d] = caller[d]
  BY <1>2 DEF Taking
<1>4. PrefetchTypeOK' /\ TakenAlone'
  BY <1>1, <1>2, <1>3 DEF PrefetchInv, PrefetchTypeOK, TakenAlone
<1>5. result.job = caller[c].job /\ result.asked = caller[c].revision
  OBVIOUS
<1> HIDE DEF result
<1>6. HandedOut'
  BY <1>1, <1>3, <1>5 DEF PrefetchInv, TakenAlone, HandedOut
<1> QED
  BY <1>4, <1>6 DEF PrefetchInv

LEMMA JobEndsKeeps ==
  ASSUME PrefetchInv, NEW j \in DOMAIN jobs, NEW status \in Ended, JobEnds(j, status)
  PROVE  PrefetchInv'
<1>1. jobs' = [jobs EXCEPT ![j].status = status] /\ UNCHANGED <<current, slot, caller, got>>
  BY DEF JobEnds
<1>2. jobs \in [1..Len(jobs) -> Job] /\ Len(jobs) \in Nat
  BY DEF PrefetchInv, PrefetchTypeOK
<1> DEFINE ended == [jobs[j] EXCEPT !.status = status]
<1>a. jobs[j] \in Job /\ status \in Status
  BY <1>2 DEF Status
<1>b. ended \in Job /\ ended.revision = jobs[j].revision
  BY <1>a, WithStatus
<1>c. jobs' = [jobs EXCEPT ![j] = ended]
  BY <1>1, Zenon
<1> HIDE DEF ended
<1>3. jobs' \in [1..Len(jobs) -> Job] /\ \A i \in 1..Len(jobs) : jobs'[i].revision = jobs[i].revision
  BY <1>2, <1>b, <1>c
<1>4. jobs' \in Seq(Job) /\ Len(jobs') = Len(jobs)
  BY <1>2, <1>3
<1> QED
  BY <1>1, <1>3, <1>4 DEF PrefetchInv, PrefetchTypeOK, TakenAlone, HandedOut, Taking

LEMMA PrefetchInvKept == PrefetchInv /\ [PrefetchNext]_prefetchVars => PrefetchInv'
<1> SUFFICES ASSUME PrefetchInv, [PrefetchNext]_prefetchVars PROVE PrefetchInv'
  OBVIOUS
<1>1. CASE UNCHANGED prefetchVars \/ ReviseState
  BY <1>1 DEF prefetchVars, ReviseState, PrefetchInv, PrefetchTypeOK, TakenAlone, HandedOut, Taking
<1>2. ASSUME NEW c \in Caller, TakeNothing(c, current) \/ CancelNothing(c) \/ Cancel(c) \/ CancelEnds(c)
      PROVE  PrefetchInv'
  <2>1. slot' \in {slot, NoTask} /\ UNCHANGED <<current, got>> /\ (jobs' = jobs \/ \E J : jobs' = Cancelled(J))
    BY <1>2 DEF TakeNothing, CancelNothing, Cancel, CancelEnds
  <2>2. DOMAIN caller' = Caller /\ \A d \in Caller : caller'[d] = caller[d] \/ ~Taking(d)'
    BY <1>2 DEF TakeNothing, CancelNothing, Cancel, CancelEnds, Wait, Return, Idle, Taking, PrefetchInv,
      PrefetchTypeOK
  <2> QED
    BY <2>1, <2>2, EmptyingKeeps
<1> QED
  BY <1>1, <1>2, StartTaskKeeps, TakeStepKeeps, TakenKeeps, JobEndsKeeps DEF PrefetchNext, Call, Resume

(* A result is handed out at most once, and for the revision asked for.    *)
THEOREM ResultsAreHandedOutOnce == PrefetchSpec => []HandedOutOnce
<1>1. PrefetchInit => PrefetchInv
  BY DEF PrefetchInit, Idle, PrefetchInv, PrefetchTypeOK, TakenAlone, HandedOut, Taking
<1>2. PrefetchInv /\ [PrefetchNext]_prefetchVars => PrefetchInv'
  BY PrefetchInvKept
<1>3. PrefetchInv => HandedOutOnce
  BY DEF PrefetchInv, HandedOut, HandedOutOnce
<1> QED
  BY <1>1, <1>2, <1>3, PTL DEF PrefetchSpec

-----------------------------------------------------------------------------
(* replace_file *)

Moment == {"ready", "waiting", "locked", "prepared", "checked", "written", "writing", "orphaned"}

FileTypeOK ==
  /\ at \in [Worker -> Moment]
  /\ lock \in [Process -> Worker \cup {NoWorker}]
  /\ DOMAIN expected = Replacer
  /\ temps \subseteq Replacer
  /\ crashes \in Nat

LockInv ==
  \A w \in Replacer : at[w] \in {"locked", "prepared", "checked", "written"} => MyLock(w) = w

SeenInv == \A w \in Rechecked : content = expected[w] \/ w \in overwritten

FileInv == FileTypeOK /\ LockInv /\ SeenInv

-----------------------------------------------------------------------------
LEMMA FileInvStarts == FileInit => FileInv
  BY ReplaceAssumption DEF ReplaceAssumption, FileInit, FileInv, FileTypeOK, LockInv, SeenInv, Rechecked, Moment, Worker

(* The steps that keep the lock as it is, or take it.                      *)
LEMMA HoldingKeeps ==
  ASSUME FileInv, NEW w \in Replacer,
         Request(w) \/ Acquire(w) \/ Read(w) \/ Recheck(w) \/ WriteTemp(w)
  PROVE  FileInv'
<1>1. w \in Worker /\ ProcessOf[w] \in Process /\ NoWorker \notin Worker /\ ProcessOf \in [Worker -> Process]
  BY ReplaceAssumption DEF ReplaceAssumption, Worker
<1> USE <1>1 DEF Request, Acquire, Read, Recheck, WriteTemp, Go, MyLock, counts, CountRequest
<1>2. FileTypeOK'
  BY DEF FileInv, FileTypeOK, Moment
<1>3. LockInv'
  <2>1. \A v \in Worker \ {w} : at'[v] = at[v]
    BY DEF FileInv, FileTypeOK
  <2>2. CASE Acquire(w)
    BY <2>1, <2>2 DEF FileInv, FileTypeOK, LockInv, Worker
  <2>3. CASE ~Acquire(w)
    BY <2>1, <2>3 DEF FileInv, FileTypeOK, LockInv, Worker
  <2> QED
    BY <2>2, <2>3
<1>4. SeenInv'
  BY DEF FileInv, FileTypeOK, SeenInv, Rechecked, Worker
<1> QED
  BY <1>2, <1>3, <1>4 DEF FileInv

(* The steps that release it: the holder alone has it.  No other           *)
(* replacement moves; a rename turns writers into orphaned ones.           *)
LEMMA ReleasingKeeps ==
  ASSUME FileInv, NEW w \in Replacer, Refuse(w) \/ Install(w) \/ WriteFails(w)
  PROVE  FileInv'
<1>1. w \in Worker /\ NoWorker \notin Worker /\ ProcessOf \in [Worker -> Process]
  BY ReplaceAssumption DEF ReplaceAssumption, Worker
<1>2. lock' = [lock EXCEPT ![ProcessOf[w]] = NoWorker] /\ UNCHANGED <<expected, counts>> /\ temps' \subseteq temps
  BY DEF Refuse, Install, WriteFails, Release
<1>3. at[w] \in {"locked", "prepared", "checked", "written"}
  BY DEF Refuse, Install, WriteFails, Rechecked
<1>4. MyLock(w) = w
  BY <1>3 DEF FileInv, LockInv
<1>5. /\ at' \in [Worker -> Moment] /\ at'[w] = "ready"
      /\ \A v \in Worker \ {w} : at'[v] = at[v] \/ (at[v] = "writing" /\ at'[v] = "orphaned")
  <2>1. CASE Install(w)
    BY <1>1, <2>1 DEF Install, FileInv, FileTypeOK, Moment
  <2>2. CASE Refuse(w) \/ WriteFails(w)
    BY <1>1, <2>2 DEF Refuse, WriteFails, Go, FileInv, FileTypeOK, Moment
  <2> QED
    BY <2>1, <2>2
<1>6. FileTypeOK'
  BY <1>1, <1>2, <1>5 DEF FileInv, FileTypeOK, counts
<1>7. ASSUME NEW v \in Replacer \ {w}, at[v] \in {"locked", "prepared", "checked", "written"}
      PROVE  ProcessOf[v] # ProcessOf[w] /\ MyLock(v) = v
  BY <1>4, <1>7 DEF FileInv, LockInv, MyLock
<1>8. LockInv'
  BY <1>1, <1>2, <1>5, <1>7 DEF FileInv, FileTypeOK, LockInv, MyLock, Worker
<1>9. SeenInv'
  <2>1. Rechecked' = Rechecked \ {w}
    BY <1>1, <1>5 DEF Rechecked, Worker
  <2>2. CASE Install(w)
    BY <1>2, <1>7, <2>1, <2>2 DEF Install, SeenInv, FileInv, Rechecked
  <2>3. CASE ~Install(w)
    BY <1>2, <2>1, <2>3 DEF Refuse, WriteFails, SeenInv, FileInv
  <2> QED
    BY <2>2, <2>3
<1> QED
  BY <1>6, <1>8, <1>9 DEF FileInv

(* A writer disturbs every replacement that has compared, unless its file  *)
(* has been replaced; a crash takes the workers of its process away with   *)
(* their lock.                                                             *)
LEMMA OthersKeep ==
  ASSUME FileInv, \/ \E w \in Writer : BeginWrite(w) \/ EndWrite(w) \/ EndOrphanedWrite(w)
                  \/ \E p \in Process : Crash(p)
  PROVE  FileInv'
<1>1. Writer \subseteq Worker /\ Replacer \subseteq Worker /\ ProcessOf \in [Worker -> Process]
      /\ Replacer \cap Writer = {}
  BY ReplaceAssumption DEF ReplaceAssumption, Worker
<1>2. ASSUME NEW w \in Writer, BeginWrite(w) \/ EndWrite(w) \/ EndOrphanedWrite(w)
      PROVE  FileInv'
  <2>1. at' \in [Worker -> Moment] /\ \A v \in Replacer : at'[v] = at[v]
    BY <1>1, <1>2 DEF BeginWrite, EndWrite, EndOrphanedWrite, Go, FileInv, FileTypeOK, Moment
  <2>2. FileTypeOK' /\ LockInv'
    BY <1>1, <1>2, <2>1
    DEF BeginWrite, EndWrite, EndOrphanedWrite, CountRequest, counts, FileInv, FileTypeOK, LockInv, MyLock
  <2>3. SeenInv'
    BY <1>2, <2>1 DEF BeginWrite, EndWrite, EndOrphanedWrite, Disturb, FileInv, SeenInv, Rechecked
  <2> QED
    BY <2>2, <2>3 DEF FileInv
<1>3. ASSUME NEW p \in Process, Crash(p)
      PROVE  FileInv'
  <2>1. FileTypeOK'
    BY <1>3 DEF Crash, FileInv, FileTypeOK, Moment
  <2>2. LockInv'
    BY <1>1, <1>3 DEF Crash, FileInv, FileTypeOK, LockInv, MyLock
  <2>3. SeenInv'
    BY <1>1, <1>3 DEF Crash, FileInv, FileTypeOK, SeenInv, Rechecked
  <2> QED
    BY <2>1, <2>2, <2>3 DEF FileInv
<1> QED
  BY <1>2, <1>3

LEMMA FileInvKept == FileInv /\ [FileNext]_fileVars => FileInv'
<1> SUFFICES ASSUME FileInv, [FileNext]_fileVars PROVE FileInv'
  OBVIOUS
<1>1. CASE UNCHANGED fileVars
  BY <1>1 DEF fileVars, counts, FileInv, FileTypeOK, LockInv, MyLock, SeenInv, Rechecked
<1>2. CASE FileNext
  BY <1>2, HoldingKeeps, ReleasingKeeps, OthersKeep DEF FileNext, Replace
<1> QED
  BY <1>1, <1>2

(* The invariant of the lock and of what is compared under it.             *)
THEOREM FileInvariant == FileSpec => []FileInv
<1>1. FileInit => FileInv
  BY FileInvStarts
<1>2. FileInv /\ [FileNext]_fileVars => FileInv'
  BY FileInvKept
<1> QED
  BY <1>1, <1>2, PTL DEF FileSpec

(* A replacement takes the place of exactly the content its caller has     *)
(* seen, or of a write by somebody who does not share its lock.            *)
THEOREM ReplacementsReplaceWhatWasSeen == FileSpec => ReplacesWhatWasSeen
<1>1. FileInv => \A w \in Replacer : Install(w) => content = expected[w] \/ w \in overwritten
  BY DEF FileInv, SeenInv, Rechecked, Install
<1> QED
  BY <1>1, FileInvariant, PTL DEF ReplacesWhatWasSeen

-----------------------------------------------------------------------------
(* Every step moves one worker, and the one temporary file it may have.    *)
TempsInv == FileTypeOK /\ TempsCleaned

LEMMA TempsKept == TempsInv /\ FileTypeOK' /\ [FileNext]_fileVars => TempsInv'
<1> SUFFICES ASSUME TempsInv, FileTypeOK', [FileNext]_fileVars, crashes' = 0
             PROVE  \A w \in temps' : at'[w] = "written"
  BY DEF TempsInv, TempsCleaned
<1>1. CASE \E p \in Process : Crash(p)
  BY <1>1 DEF Crash, TempsInv, FileTypeOK
<1>2. CASE UNCHANGED fileVars
  BY <1>2 DEF fileVars, counts, TempsInv, TempsCleaned
<1>3. CASE \E w \in Replacer : Request(w) \/ Replace(w)
  <2>1. PICK w \in Replacer : Request(w) \/ Replace(w)
    BY <1>3
  <2>2. \A v \in Worker \ {w} : at[v] = "written" => at'[v] = "written"
    BY <2>1 DEF Request, Replace, Acquire, Read, Recheck, Refuse, WriteTemp, Install, WriteFails, Go,
      TempsInv, FileTypeOK
  <2>3. crashes = 0
    BY <2>1 DEF Request, Replace, Acquire, Read, Recheck, Refuse, WriteTemp, Install, WriteFails, counts,
      CountRequest
  <2>4. w \in Worker /\ temps \subseteq Worker
    BY DEF TempsInv, FileTypeOK, Worker
  <2> QED
    BY <2>1, <2>2, <2>3, <2>4 DEF Request, Replace, Acquire, Read, Recheck, Refuse, WriteTemp, Install,
      WriteFails, Go, Rechecked, TempsInv, TempsCleaned, FileTypeOK
<1>4. CASE \E w \in Writer : BeginWrite(w) \/ EndWrite(w) \/ EndOrphanedWrite(w)
  <2>1. \A w \in Writer : w \notin Replacer /\ w \in Worker
    BY ReplaceAssumption DEF ReplaceAssumption, Worker
  <2> QED
    BY <1>4, <2>1 DEF BeginWrite, EndWrite, EndOrphanedWrite, Go, CountRequest, counts, TempsInv, TempsCleaned,
      FileTypeOK, Worker
<1> QED
  BY <1>1, <1>2, <1>3, <1>4 DEF FileNext

(* While no process has died, a temporary file is one that is about to be  *)
(* renamed: every way out of a replacement removes it.                     *)
THEOREM TempsAreCleaned == FileSpec => []TempsCleaned
<1>1. FileInit => TempsInv
  BY FileInvStarts DEF FileInv, FileInit, TempsInv, TempsCleaned
<1>2. FileInv => FileTypeOK
  BY DEF FileInv
<1>3. TempsInv /\ FileTypeOK' /\ [FileNext]_fileVars => TempsInv'
  BY TempsKept
<1>4. TempsInv => TempsCleaned
  BY DEF TempsInv
<1> QED
  BY <1>1, <1>2, <1>3, <1>4, FileInvariant, PTL DEF FileSpec

-----------------------------------------------------------------------------
(* The speculation buffer *)

(* A shadow copies a revision of its page that is not ahead of the         *)
(* directory, and as long as the two have the same revision its options    *)
(* are the first of the page: a revision number never names two contents   *)
(* of a page.                                                              *)
CopyOf(p, s) ==
  /\ p \in Registered
  /\ s \in Shadow
  /\ s.revision <= pages[p].revision
  /\ s.revision = pages[p].revision =>
       \A i \in DOMAIN s.options :
         /\ i \in 1..Len(pages[p].content.order)
         /\ s.options[i] = OptionAt(pages[p].content, i)

Future == [page : PageId, shadow : Shadow, status : {"running", "done", "failed"}]

ShadowsOK ==
  /\ IsFiniteSet(Prepared)
  /\ \A p \in Prepared : CopyOf(p, shadows[p]) /\ Len(shadows[p].options) <= MaxShadowOptions

(* Only a future that is done is known to fit.                             *)
FuturesOK ==
  /\ futures \in Seq(Future)
  /\ \A i \in DOMAIN futures :
       /\ CopyOf(futures[i].page, futures[i].shadow)
       /\ futures[i].status = "done" => Len(futures[i].shadow.options) <= MaxShadowOptions

(* A future may become one more shadow.                                    *)
RoomForFutures == Cardinality(Prepared) + Len(futures) <= MaxShadows

BufferInv ==
  /\ OptionInv
  /\ IsFiniteSet(Registered)
  /\ task \in 1..MaxBase
  /\ ShadowsOK
  /\ FuturesOK
  /\ RoomForFutures

-----------------------------------------------------------------------------
LEMMA TakenRange ==
  ASSUME OptionInv, NEW p \in Registered, NEW limit \in Limits
  PROVE  /\ Taken(p, limit) \in 1..Len(pages[p].content.order)
         /\ Taken(p, limit) \in Limits
<1>1. pages[p].content \in Contents /\ WellFormed(pages[p].content)
  BY DEF OptionInv, OptionTypeOK, DirectoryTypeOK, PageRecord, Registered
<1>2. pages[p].content.order \in Seq(OptionId) /\ pages[p].content.order # <<>>
  BY <1>1, VirtualOptionAssumption DEF VirtualOptionAssumption, WellFormed
<1>3. Len(pages[p].content.order) \in Nat \ {0}
  BY <1>2
<1>4. Cardinality(OptionId) \in Nat
  BY FS_CardinalityType, SpeculationAssumption DEF SpeculationAssumption
<1> QED
  BY <1>3, <1>4 DEF Taken, Limits

LEMMA SnapshotIsCopy ==
  ASSUME OptionInv, task \in 1..MaxBase, NEW p \in Registered, NEW limit \in Limits
  PROVE  /\ CopyOf(p, Snapshot(p, limit))
         /\ Len(Snapshot(p, limit).options) = Taken(p, limit)
<1> DEFINE c == pages[p].content
           k == Taken(p, limit)
           taken == [i \in 1..k |-> OptionAt(c, i)]
<1>1. c \in Contents /\ WellFormed(c) /\ pages[p].revision \in 1..MaxRevision
  BY DEF OptionInv, OptionTypeOK, DirectoryTypeOK, PageRecord, Registered
<1>2. k \in 1..Len(c.order) /\ k \in Limits
  BY TakenRange
<1>3. MaxRevision \in Nat /\ Cardinality(OptionId) \in Nat
  BY VirtualOptionAssumption, FS_CardinalityType, SpeculationAssumption
  DEF VirtualOptionAssumption, SpeculationAssumption
<1>4. c.order \in Seq(OptionId) /\ c.body \in [IdsOf(c) -> Body]
  <2>1. /\ c.order \in Seq(OptionId)
        /\ c.body \in [{c.order[i] : i \in DOMAIN c.order} -> Body]
    BY <1>1, VirtualOptionAssumption DEF VirtualOptionAssumption
  <2>2. DOMAIN c.order = 1..Len(c.order)
    BY <2>1
  <2> HIDE DEF c
  <2> QED
    BY <2>1, <2>2 DEF IdsOf, FirstIds
<1>5. k \in Nat /\ \A i \in 1..k : i \in 1..Len(c.order) /\ c.order[i] \in OptionId /\ c.order[i] \in IdsOf(c)
  <2> HIDE DEF c, k
  <2> QED
    BY <1>2, <1>4 DEF IdsOf, FirstIds
<1>6. \A i \in 1..k : OptionAt(c, i) \in PreparedOption
  BY <1>4, <1>5 DEF OptionAt, PreparedOption
<1>7. taken \in [1..k -> PreparedOption] /\ taken \in UNION {[1..n -> PreparedOption] : n \in Limits}
  BY <1>2, <1>6
<1>8. Len(taken) = k
  BY <1>5, <1>7
<1>9. Snapshot(p, limit) = [base |-> task, revision |-> pages[p].revision, options |-> taken]
  BY DEF Snapshot
<1>10. Snapshot(p, limit) \in Shadow
  BY <1>1, <1>7, <1>9 DEF Shadow
<1> HIDE DEF k
<1> QED
  BY <1>1, <1>3, <1>5, <1>8, <1>9, <1>10 DEF CopyOf, k

(* Whatever happens to the directory, a copy remains one.                  *)
LEMMA CopiesStay ==
  ASSUME OptionInv, [OptionNext]_optionVars, NEW p, NEW s, CopyOf(p, s)
  PROVE  CopyOf(p, s)'
<1>1. OptionInv'
  BY StepInv
<1>2. p \in Registered' /\ (pages'[p] # pages[p] => pages'[p].revision > pages[p].revision)
  BY DirectorySteps DEF Registered, CopyOf
<1>3. pages[p].revision \in 1..MaxRevision /\ pages'[p].revision \in 1..MaxRevision
  BY <1>1, <1>2 DEF OptionInv, OptionTypeOK, DirectoryTypeOK, PageRecord, Registered, CopyOf
<1>4. s.revision \in 1..MaxRevision /\ MaxRevision \in Nat
  BY VirtualOptionAssumption DEF CopyOf, Shadow, VirtualOptionAssumption
<1> QED
  BY <1>2, <1>3, <1>4 DEF CopyOf

-----------------------------------------------------------------------------
(* The manager under the buffer *)

LEMMA PageInIsStep ==
  ASSUME OptionInv, NEW p \in Registered, NEW limit \in Limits, PageIn(p, Taken(p, limit), {})
  PROVE  OptionNext
<1>1. Taken(p, limit) \in 1..Len(pages[p].content.order)
  BY TakenRange
<1> QED
  BY <1>1 DEF OptionNext

LEMMA BufferOptionStep == OptionInv /\ [SpeculationNext]_specVars => [OptionNext]_optionVars
<1> SUFFICES ASSUME OptionInv, [SpeculationNext]_specVars
             PROVE  OptionNext \/ UNCHANGED optionVars
  OBVIOUS
<1>1. CASE Manager
  <2>1. CASE \E p \in Registered : \E limit \in Limits : PageIn(p, Taken(p, limit), {})
    BY <2>1, PageInIsStep
  <2> QED
    BY <1>1, <2>1 DEF Manager, OptionNext
<1>2. ASSUME NEW p \in Prepared, NEW limit \in Limits, Promote(p, limit)
      PROVE  OptionNext
  BY <1>2, PageInIsStep DEF Promote, SamePage
<1>3. CASE UNCHANGED specVars
  BY <1>3 DEF specVars
<1> QED
  BY <1>1, <1>2, <1>3 DEF SpeculationNext, Prepare, Clear, Prefetch, PrefetchAsync, Finish, BeginAwait,
     Collect, CollectPrepared, CollectFailed, EndAwait, Expire, PromoteStale, PromoteFails, ReviseTask

-----------------------------------------------------------------------------
(* The steps of the buffer *)

(* What the manager does alone.                                            *)
LEMMA ManagerKeeps ==
  ASSUME BufferInv, [OptionNext]_optionVars, UNCHANGED bufferVars
  PROVE  BufferInv'
<1>1. OptionInv' /\ task' \in 1..MaxBase
  BY StepInv DEF BufferInv, bufferVars
<1>4. IsFiniteSet(Registered')
  <2>1. Registered' = Registered \/ \E p \in PageId : Registered' = Registered \cup {p}
    BY DirectorySteps DEF BufferInv, Registered
  <2> QED
    BY <2>1, FS_AddElement DEF BufferInv
<1>2. ShadowsOK'
  BY CopiesStay DEF BufferInv, bufferVars, ShadowsOK, Prepared
<1>3. FuturesOK'
  BY CopiesStay DEF BufferInv, bufferVars, FuturesOK
<1> QED
  BY <1>1, <1>2, <1>3, <1>4 DEF BufferInv, bufferVars, RoomForFutures, Prepared

LEMMA PrepareKeeps ==
  ASSUME BufferInv, Prepare
  PROVE  ShadowsOK' /\ FuturesOK' /\ RoomForFutures' /\ UNCHANGED <<optionVars, task, await>>
<1> USE DEF BufferInv
<1>1. /\ Cardinality({}) = 0 /\ IsFiniteSet({}) /\ Len(<<>>) = 0
      /\ MaxShadows \in Nat /\ DOMAIN <<>> = {}
  BY FS_EmptySet, SpeculationAssumption DEF SpeculationAssumption
<1>2. CASE Clear
  BY <1>1, <1>2 DEF Clear, ShadowsOK, FuturesOK, RoomForFutures, Prepared
<1>3. ASSUME NEW P \in SUBSET Registered, NEW limit \in Limits, Prefetch(P, limit)
      PROVE  ShadowsOK' /\ FuturesOK' /\ RoomForFutures' /\ UNCHANGED <<optionVars, task, await>>
  <2>1. /\ futures' = <<>> /\ shadows' = [p \in P |-> Snapshot(p, limit)]
        /\ UNCHANGED <<optionVars, task, await>>
        /\ Cardinality(P) <= MaxShadows /\ \A p \in P : Taken(p, limit) <= MaxShadowOptions
    BY <1>3 DEF Prefetch
  <2>2. IsFiniteSet(P) /\ Cardinality(P) \in Nat
    BY FS_Subset, FS_CardinalityType
  <2>3. \A p \in P : CopyOf(p, Snapshot(p, limit)) /\ Len(Snapshot(p, limit).options) <= MaxShadowOptions
    BY <2>1, SnapshotIsCopy
  <2>4. Prepared' = P /\ \A p \in P : shadows'[p] = Snapshot(p, limit)
    BY <2>1 DEF Prepared
  <2>5. \A p \in P : CopyOf(p, shadows[p])' /\ Len(shadows'[p].options) <= MaxShadowOptions
    BY <2>1, <2>3, <2>4 DEF CopyOf, optionVars, Registered
  <2> QED
    BY <1>1, <2>1, <2>2, <2>4, <2>5 DEF ShadowsOK, FuturesOK, RoomForFutures
<1>4. ASSUME NEW ranked \in Rankings, NEW limit \in Limits, PrefetchAsync(ranked, limit)
      PROVE  ShadowsOK' /\ FuturesOK' /\ RoomForFutures' /\ UNCHANGED <<optionVars, task, await>>
  <2>1. PICK n \in 0..MaxShadows : ranked \in [1..n -> PageId]
    BY <1>4 DEF Rankings
  <2>2. /\ ranked \in Seq(PageId) /\ Len(ranked) = n /\ DOMAIN ranked = 1..n /\ n \in Nat
    BY <1>1, <2>1
  <2>3. /\ shadows' = <<>> /\ UNCHANGED <<optionVars, task, await>>
        /\ futures' = [i \in 1..n |-> [page |-> ranked[i], shadow |-> Snapshot(ranked[i], limit), status |-> "running"]]
        /\ \A i \in 1..n : ranked[i] \in Registered
    BY <1>4, <2>2 DEF PrefetchAsync
  <2>4. ASSUME NEW i \in 1..n
        PROVE  /\ CopyOf(ranked[i], Snapshot(ranked[i], limit))
               /\ Snapshot(ranked[i], limit) \in Shadow
               /\ ranked[i] \in PageId
    BY <2>1, <2>3, SnapshotIsCopy DEF CopyOf
  <2>5. futures' \in Seq(Future) /\ Len(futures') = n /\ DOMAIN futures' = 1..n
    BY <2>2, <2>3, <2>4 DEF Future
  <2>6. \A i \in 1..n : CopyOf(futures'[i].page, futures'[i].shadow) /\ futures'[i].status = "running"
    BY <2>3, <2>4
  <2>7. \A i \in 1..n : CopyOf(futures[i].page, futures[i].shadow)'
    BY <2>3, <2>6 DEF CopyOf, optionVars, Registered
  <2> QED
    BY <1>1, <2>2, <2>3, <2>5, <2>6, <2>7 DEF ShadowsOK, FuturesOK, RoomForFutures, Prepared
<1> QED
  BY <1>2, <1>3, <1>4 DEF Prepare

(* A copy is one as long as the directory stays as it is.                  *)
LEMMA SameDirectory ==
  ASSUME NEW p, NEW s, CopyOf(p, s), UNCHANGED optionVars
  PROVE  CopyOf(p, s)'
  BY DEF CopyOf, optionVars, Registered

LEMMA FinishKeeps ==
  ASSUME BufferInv, NEW i \in DOMAIN futures, NEW status \in {"done", "failed"}, Finish(i, status)
  PROVE  ShadowsOK' /\ FuturesOK' /\ RoomForFutures' /\ UNCHANGED <<optionVars, task, await>>
<1>1. futures \in Seq(Future)
  BY DEF BufferInv, FuturesOK
<1>2. /\ futures' = [futures EXCEPT ![i].status = status]
      /\ status = "done" => Len(futures[i].shadow.options) <= MaxShadowOptions
      /\ UNCHANGED <<optionVars, task, shadows, await>>
  BY DEF Finish
<1>3. futures' \in Seq(Future) /\ DOMAIN futures' = DOMAIN futures /\ Len(futures') = Len(futures)
  <2>1. futures[i] \in Future
    BY <1>1
  <2>2. [futures[i] EXCEPT !.status = status] \in Future
    BY <2>1 DEF Future
  <2> QED
    BY <1>1, <1>2, <2>2
<1>4. \A j \in DOMAIN futures :
        /\ futures'[j].page = futures[j].page /\ futures'[j].shadow = futures[j].shadow
        /\ futures'[j].status = IF j = i THEN status ELSE futures[j].status
  BY <1>1, <1>2 DEF Future
<1>5. FuturesOK'
  <2> SUFFICES ASSUME NEW j \in DOMAIN futures
               PROVE  /\ CopyOf(futures[j].page, futures[j].shadow)'
                      /\ futures'[j].status = "done" => Len(futures'[j].shadow.options) <= MaxShadowOptions
    BY <1>3 DEF FuturesOK
  <2>1. /\ CopyOf(futures[j].page, futures[j].shadow)
        /\ futures[j].status = "done" => Len(futures[j].shadow.options) <= MaxShadowOptions
    BY DEF BufferInv, FuturesOK
  <2> QED
    BY <1>2, <1>4, <2>1 DEF CopyOf, optionVars, Registered
<1>6. ShadowsOK'
  BY <1>2, SameDirectory DEF BufferInv, ShadowsOK, Prepared
<1> QED
  BY <1>2, <1>3, <1>5, <1>6 DEF BufferInv, RoomForFutures, Prepared

(* Taking the first future off the list.                                   *)
LEMMA TailKeeps ==
  ASSUME BufferInv, futures # <<>>, futures' = Tail(futures), UNCHANGED optionVars
  PROVE  FuturesOK' /\ Len(futures') = Len(futures) - 1
<1>1. futures \in Seq(Future)
  BY DEF BufferInv, FuturesOK
<1>2. /\ futures' \in Seq(Future) /\ Len(futures') = Len(futures) - 1 /\ Len(futures) \in Nat \ {0}
      /\ DOMAIN futures' = 1..Len(futures) - 1 /\ DOMAIN futures = 1..Len(futures)
      /\ \A i \in DOMAIN futures' : futures'[i] = futures[i + 1]
  BY <1>1
<1>3. ASSUME NEW i \in DOMAIN futures'
      PROVE  /\ CopyOf(futures[i].page, futures[i].shadow)'
             /\ futures'[i].status = "done" => Len(futures'[i].shadow.options) <= MaxShadowOptions
  <2>1. i + 1 \in DOMAIN futures /\ futures'[i] = futures[i + 1]
    BY <1>2, <1>3
  <2>2. /\ CopyOf(futures[i + 1].page, futures[i + 1].shadow)
        /\ futures[i + 1].status = "done" => Len(futures[i + 1].shadow.options) <= MaxShadowOptions
    BY <2>1 DEF BufferInv, FuturesOK
  <2> QED
    BY <2>1, <2>2 DEF CopyOf, optionVars, Registered
<1> QED
  BY <1>2, <1>3 DEF FuturesOK

LEMMA CollectKeeps ==
  ASSUME BufferInv, CollectPrepared \/ CollectFailed
  PROVE  ShadowsOK' /\ FuturesOK' /\ RoomForFutures' /\ UNCHANGED <<optionVars, task, await>>
<1>1. /\ futures # <<>> /\ futures' = Tail(futures) /\ UNCHANGED <<optionVars, task, await>>
  BY DEF CollectPrepared, CollectFailed, Awaiting
<1>2. /\ FuturesOK' /\ Len(futures') = Len(futures) - 1
      /\ futures \in Seq(Future) /\ Len(futures) \in Nat \ {0}
  BY <1>1, TailKeeps DEF BufferInv, FuturesOK
<1>3. IsFiniteSet(Prepared) /\ Cardinality(Prepared) \in Nat /\ MaxShadows \in Nat
  BY FS_CardinalityType, SpeculationAssumption DEF BufferInv, ShadowsOK, SpeculationAssumption
<1>4. CASE CollectFailed
  <2>1. ShadowsOK'
    BY <1>1, <1>4, SameDirectory DEF CollectFailed, BufferInv, ShadowsOK, Prepared
  <2> QED
    BY <1>1, <1>2, <1>3, <1>4, <2>1 DEF CollectFailed, BufferInv, RoomForFutures, Prepared
<1>5. CASE CollectPrepared
  <2> DEFINE p == Head(futures).page
             s == Head(futures).shadow
  <2>1. shadows' = [q \in Prepared \cup {p} |-> IF q = p THEN s ELSE shadows[q]]
    BY <1>5 DEF CollectPrepared
  <2>2. CopyOf(p, s) /\ Len(s.options) <= MaxShadowOptions
    <3>1. Head(futures) = futures[1] /\ 1 \in DOMAIN futures /\ futures[1].status = "done"
      BY <1>2, <1>5 DEF CollectPrepared
    <3> QED
      BY <3>1 DEF BufferInv, FuturesOK
  <2> HIDE DEF p, s
  <2>3. Prepared' = Prepared \cup {p}
    BY <2>1 DEF Prepared
  <2>4. IsFiniteSet(Prepared') /\ Cardinality(Prepared') <= Cardinality(Prepared) + 1 /\ Cardinality(Prepared') \in Nat
    BY <1>3, <2>3, FS_AddElement, FS_CardinalityType
  <2>5. ASSUME NEW q \in Prepared'
        PROVE  CopyOf(q, shadows[q])' /\ Len(shadows'[q].options) <= MaxShadowOptions
    <3>1. CASE q = p
      BY <1>1, <2>1, <2>2, <2>3, <3>1 DEF CopyOf, optionVars, Registered
    <3>2. CASE q # p
      BY <1>1, <2>1, <2>3, <2>5, <3>2 DEF BufferInv, ShadowsOK, CopyOf, optionVars, Registered
    <3> QED
      BY <3>1, <3>2
  <2> QED
    BY <1>1, <1>2, <1>3, <2>4, <2>5 DEF BufferInv, ShadowsOK, RoomForFutures
<1> QED
  BY <1>4, <1>5

(* Whether it succeeds or not, a promotion uses its shadow up.             *)
LEMMA ForgetKeeps ==
  ASSUME BufferInv, NEW p \in Prepared, shadows' = Without(p), futures' = futures, task' = task,
         [OptionNext]_optionVars
  PROVE  BufferInv'
<1>1. Prepared' = Prepared \ {p} /\ \A q \in Prepared' : shadows'[q] = shadows[q]
  BY DEF Without, Prepared
<1>2. /\ IsFiniteSet(Prepared) /\ IsFiniteSet(Prepared')
      /\ Cardinality(Prepared) \in Nat /\ Cardinality(Prepared') \in Nat
      /\ Cardinality(Prepared') <= Cardinality(Prepared)
  BY <1>1, FS_Subset, FS_CardinalityType DEF BufferInv, ShadowsOK
<1>3. ShadowsOK'
  <2> SUFFICES ASSUME NEW q \in Prepared'
               PROVE  CopyOf(q, shadows[q])' /\ Len(shadows'[q].options) <= MaxShadowOptions
    BY <1>2 DEF ShadowsOK
  <2>1. CopyOf(q, shadows[q]) /\ Len(shadows[q].options) <= MaxShadowOptions /\ shadows'[q] = shadows[q]
    BY <1>1 DEF BufferInv, ShadowsOK
  <2>2. OptionInv
    BY DEF BufferInv
  <2>3. \A s : CopyOf(q, s) => CopyOf(q, s)'
    BY <2>2, CopiesStay
  <2> QED
    BY <2>1, <2>3 DEF CopyOf
<1>4. FuturesOK'
  BY CopiesStay DEF BufferInv, FuturesOK
<1>5. OptionInv' /\ IsFiniteSet(Registered')
  <2>1. Registered' = Registered \/ \E q \in PageId : Registered' = Registered \cup {q}
    BY DirectorySteps DEF BufferInv, Registered
  <2> QED
    BY <2>1, FS_AddElement, StepInv DEF BufferInv
<1>6. Len(futures) \in Nat /\ MaxShadows \in Nat
  BY SpeculationAssumption DEF BufferInv, FuturesOK, SpeculationAssumption
<1> QED
  BY <1>2, <1>3, <1>4, <1>5, <1>6 DEF BufferInv, RoomForFutures

LEMMA BufferStep == BufferInv /\ [SpeculationNext]_specVars => BufferInv'
<1> SUFFICES ASSUME BufferInv, [SpeculationNext]_specVars
             PROVE  BufferInv'
  OBVIOUS
<1>1. OptionInv /\ [OptionNext]_optionVars
  BY BufferOptionStep DEF BufferInv
<1>2. ASSUME ShadowsOK', FuturesOK', RoomForFutures', UNCHANGED <<optionVars, task, await>>
      PROVE  BufferInv'
  <2>1. OptionInv'
    BY <1>1, StepInv
  <2> QED
    BY <1>2, <2>1 DEF BufferInv, optionVars, Registered
<1>3. CASE Prepare
  BY <1>2, <1>3, PrepareKeeps
<1>4. CASE \E i \in DOMAIN futures, status \in {"done", "failed"} : Finish(i, status)
  BY <1>2, <1>4, FinishKeeps
<1>5. CASE CollectPrepared \/ CollectFailed
  BY <1>2, <1>5, CollectKeeps
<1>6. CASE EndAwait \/ Expire \/ \E mode \in {"blocking", "timed"} : BeginAwait(mode)
  <2>1. UNCHANGED <<optionVars, task, shadows, futures>>
    BY <1>6 DEF EndAwait, Expire, BeginAwait
  <2>2. ShadowsOK' /\ FuturesOK' /\ RoomForFutures'
    BY <2>1 DEF BufferInv, ShadowsOK, FuturesOK, RoomForFutures, Prepared, CopyOf, optionVars, Registered
  <2>3. OptionInv'
    BY <1>1, StepInv
  <2> QED
    BY <2>1, <2>2, <2>3 DEF BufferInv, optionVars, Registered
<1>7. CASE \E p \in Prepared : PromoteStale(p) \/ \E limit \in Limits : Promote(p, limit) \/ PromoteFails(p, limit)
  BY <1>1, <1>7, ForgetKeeps DEF PromoteStale, Promote, PromoteFails
<1>8. CASE Manager \/ UNCHANGED specVars
  BY <1>1, <1>8, ManagerKeeps DEF Manager, specVars
<1>9. CASE ReviseTask
  <2>1. UNCHANGED <<optionVars, shadows, futures>> /\ task' \in 1..MaxBase
    BY <1>9, SpeculationAssumption DEF ReviseTask, BufferInv, SpeculationAssumption
  <2>2. ShadowsOK' /\ FuturesOK' /\ RoomForFutures'
    BY <2>1 DEF BufferInv, ShadowsOK, FuturesOK, RoomForFutures, Prepared, CopyOf, optionVars, Registered
  <2>3. OptionInv'
    BY <1>1, StepInv
  <2> QED
    BY <2>1, <2>2, <2>3 DEF BufferInv, optionVars, Registered
<1> QED
  BY <1>3, <1>4, <1>5, <1>6, <1>7, <1>8, <1>9 DEF SpeculationNext, Collect

LEMMA BufferStarts == BufferInit => BufferInv
<1> SUFFICES ASSUME BufferInit PROVE BufferInv
  OBVIOUS
<1>1. OptionInv /\ Registered = {}
  BY InitInv DEF BufferInit, OptionInit, Registered
<1>2. Prepared = {} /\ futures = <<>> /\ task = 1
  BY DEF BufferInit, Prepared
<1>3. MaxShadows \in Nat \ {0} /\ MaxBase \in Nat \ {0}
  BY SpeculationAssumption DEF SpeculationAssumption
<1> QED
  BY <1>1, <1>2, <1>3, FS_EmptySet DEF BufferInv, ShadowsOK, FuturesOK, RoomForFutures

(* The buffer does to the manager what any caller may do.                  *)
THEOREM BufferKeepsOptionSpec == SpeculationSpec => OptionSpec
<1>1. BufferInit => OptionInit /\ OptionInv
  BY InitInv DEF BufferInit
<1>2. OptionInv /\ [SpeculationNext]_specVars => OptionInv' /\ [OptionNext]_optionVars
  BY BufferOptionStep, StepInv
<1> QED
  BY <1>1, <1>2, PTL DEF SpeculationSpec, OptionSpec

(* No path of pages into the buffer exceeds its bounds.                    *)
THEOREM ShadowsAreBounded == SpeculationSpec => []ShadowsBounded
<1>1. BufferInv => ShadowsBounded
  <2> SUFFICES ASSUME BufferInv PROVE ShadowsBounded
    OBVIOUS
  <2>1. \A p \in Prepared : p \in PageId /\ shadows[p] \in Shadow /\ Len(shadows[p].options) <= MaxShadowOptions
    BY DEF BufferInv, ShadowsOK, CopyOf, OptionInv, OptionTypeOK, DirectoryTypeOK, Registered
  <2>2. Cardinality(Prepared) \in Nat /\ Len(futures) \in Nat /\ MaxShadows \in Nat
    BY FS_CardinalityType, SpeculationAssumption DEF BufferInv, ShadowsOK, FuturesOK, SpeculationAssumption
  <2> QED
    BY <2>1, <2>2 DEF BufferInv, RoomForFutures, ShadowsBounded
<1> QED
  BY <1>1, BufferStarts, BufferStep, PTL DEF SpeculationSpec

(* A promotion compares revisions, so what was prepared and is within its  *)
(* limit comes in as it was prepared; anything else comes in only with a   *)
(* larger limit than the one it was prepared with.                         *)
LEMMA PromotionStep ==
  ASSUME BufferInv, NEW p \in Prepared, NEW limit \in Limits, Promote(p, limit)
  PROVE  LET prepared == shadows[p].options
         IN  /\ \A i \in DOMAIN prepared : i <= limit =>
                  /\ prepared[i].id \in Resident'
                  /\ resident'[prepared[i].id] = [page |-> p, body |-> prepared[i].body]
             /\ Resident' \subseteq Resident \cup PreparedIds(p) \/ limit > Len(prepared)
<1> DEFINE prepared == shadows[p].options
           c == pages[p].content
           k == Taken(p, limit)
<1>1. p \in Registered /\ Materialize(Resident, p, c, k, {}, {})
  BY DEF Promote, PageIn, SamePage
<1>2. \A i \in DOMAIN prepared : i \in 1..Len(c.order) /\ prepared[i] = OptionAt(c, i)
  BY DEF Promote, SamePage, BufferInv, ShadowsOK, CopyOf
<1>3. /\ FirstIds(c, k) \subseteq Resident' /\ Resident' \subseteq Resident \cup FirstIds(c, k)
      /\ \A o \in FirstIds(c, k) : resident'[o] = [page |-> p, body |-> c.body[o]]
  BY <1>1 DEF Materialize, Resident
<1>4. /\ limit \in Nat /\ k \in 1..Len(c.order) /\ k <= limit
      /\ \A i \in 1..Len(c.order) : i <= limit => i <= k
  <2>1. k \in 1..Len(c.order)
    BY <1>1, TakenRange DEF BufferInv
  <2>2. limit \in Nat /\ Len(c.order) \in Nat
    BY <2>1, FS_CardinalityType, SpeculationAssumption DEF Limits, SpeculationAssumption
  <2> HIDE DEF c
  <2> QED
    BY <2>1, <2>2 DEF Taken, c
<1>5. PICK n \in Limits : prepared \in [1..n -> PreparedOption]
  BY DEF BufferInv, ShadowsOK, CopyOf, Shadow
<1>6. n \in Nat /\ DOMAIN prepared = 1..n /\ Len(prepared) = n
  BY <1>5, FS_CardinalityType, SpeculationAssumption DEF Limits, SpeculationAssumption
<1> HIDE DEF prepared, c, k
<1>7. ASSUME NEW i \in DOMAIN prepared, i <= limit
      PROVE  /\ prepared[i].id \in Resident'
             /\ resident'[prepared[i].id] = [page |-> p, body |-> prepared[i].body]
  <2>1. prepared[i] = [id |-> c.order[i], body |-> c.body[c.order[i]]]
    BY <1>2, <1>7 DEF OptionAt
  <2>2. i \in 1..k
    BY <1>2, <1>4, <1>7
  <2>3. c.order[i] \in FirstIds(c, k)
    BY <2>2 DEF FirstIds
  <2> QED
    BY <1>3, <2>1, <2>3
<1>8. Resident' \subseteq Resident \cup PreparedIds(p) \/ limit > Len(prepared)
  <2> SUFFICES ASSUME limit <= n, NEW o \in FirstIds(c, k)
               PROVE  o \in PreparedIds(p)
    BY <1>3, <1>4, <1>6
  <2>1. PICK i \in 1..k : o = c.order[i]
    BY DEF FirstIds
  <2>2. i \in DOMAIN prepared
    BY <1>4, <1>6, <2>1
  <2>3. prepared[i].id = o
    BY <1>2, <2>1, <2>2 DEF OptionAt
  <2> QED
    BY <2>2, <2>3 DEF PreparedIds, prepared
<1> QED
  BY <1>7, <1>8 DEF prepared

THEOREM PromotionsInstallWhatWasPrepared == SpeculationSpec => PromotesWhatWasPrepared
<1>1. BufferInv =>
        \A p \in Prepared, limit \in Limits : Promote(p, limit) =>
          LET prepared == shadows[p].options
          IN  /\ \A i \in DOMAIN prepared : i <= limit =>
                   /\ prepared[i].id \in Resident'
                   /\ resident'[prepared[i].id] = [page |-> p, body |-> prepared[i].body]
              /\ Resident' \subseteq Resident \cup PreparedIds(p) \/ limit > Len(prepared)
  BY PromotionStep
<1> QED
  BY <1>1, BufferStarts, BufferStep, PTL DEF SpeculationSpec, PromotesWhatWasPrepared

-----------------------------------------------------------------------------
(* The refresh coordinator *)

Requests ==
  UNION {[epoch : Nat \ {0}, phase : Phase, load : Nat, expected : [C -> Nat],
          verdict : [C -> {"pending", "supported", "rejected"}]] : C \in SUBSET Block}

RefreshInv ==
  /\ ContextInv
  /\ epoch \in Nat \ {0}
  /\ sinceRefresh \in Nat
  /\ refreshes \in [Phase -> Nat]
  /\ \A ph \in Phase : refreshes[ph] <= MaxRefreshes
  /\ Running =>
       /\ request \in Requests
       /\ sinceRefresh > Cooldown
       /\ refreshes[request.phase] < MaxRefreshes

-----------------------------------------------------------------------------
(* The directory under the coordinator *)

(* A commit of the coordinator is one of the context manager: the expected *)
(* revisions it passes are those of the directory, or it does not commit.  *)
LEMMA CoordinatorContextStep == [RefreshNext]_coordinatorVars => [ContextNext]_contextVars
<1> SUFFICES ASSUME [RefreshNext]_coordinatorVars
             PROVE  ContextNext \/ UNCHANGED contextVars
  OBVIOUS
<1>1. ASSUME NEW W \in Selectable, CommitSelected(W, request.expected)
      PROVE  ContextNext
  <2>1. CommitSelected(W, blockRevision) /\ W \in SUBSET Block
    BY <1>1 DEF CommitSelected, Live, Known
  <2> QED
    BY <2>1 DEF ContextNext
<1>2. CASE CommitRefresh
  BY <1>1, <1>2 DEF CommitRefresh
<1>3. CASE RefuseRefresh \/ NotifyStateChange \/ DirectoryChange \/ Verifiers \/ UNCHANGED coordinatorVars
  BY <1>3 DEF RefuseRefresh, NotifyStateChange, DirectoryChange, Verifiers, Verify, coordinatorVars
<1>4. CASE \E ph \in Phase, C \in SUBSET Block, k \in 1..MaxWorking + 1 : StartRefresh(ph, C, k)
  BY <1>4 DEF StartRefresh
<1> QED
  BY <1>2, <1>3, <1>4 DEF RefreshNext, Conclude

(* Whatever the coordinator does to the context is one operation of the    *)
(* context manager, or none.                                               *)
THEOREM CoordinatorKeepsContextSpec == RefreshSpec => ContextSpec
<1>1. RefreshInit => ContextInit
  BY DEF RefreshInit
<1> QED
  BY <1>1, CoordinatorContextStep, PTL DEF RefreshSpec, ContextSpec

-----------------------------------------------------------------------------
(* Requests *)

LEMMA RefreshStartKeeps ==
  ASSUME RefreshInv, NEW ph \in Phase, NEW C \in SUBSET Block, NEW k \in 1..MaxWorking + 1,
         StartRefresh(ph, C, k)
  PROVE  /\ RefreshInv'
         /\ Running' => /\ request'.epoch = epoch
                        /\ request'.expected = [b \in C |-> blockRevision[b]]
<1> DEFINE new == [epoch |-> epoch, phase |-> ph, load |-> k,
                   expected |-> [b \in C |-> blockRevision[b]],
                   verdict |-> [b \in C |-> "pending"]]
<1>1. /\ UNCHANGED <<contextVars, epoch, refreshes>>
      /\ sinceRefresh' \in Nat
      /\ request' = IF Suppressed(ph) \/ C = {} \/ k > MaxWorking THEN NoRequest ELSE new
  BY RefreshAssumption DEF StartRefresh, DecisionStep, RefreshInv, RefreshAssumption
<1>2. ContextInv'
  BY <1>1, ContextStep DEF RefreshInv, contextVars
<1>3. \A b \in C : blockRevision[b] \in Nat
  BY ContextAssumption DEF RefreshInv, ContextInv, ContextTypeOK, ContextAssumption
<1>4. new \in Requests
  <2>1. k \in Nat /\ epoch \in Nat \ {0}
    BY ContextAssumption DEF RefreshInv, ContextAssumption
  <2>2. new \in [epoch : Nat \ {0}, phase : Phase, load : Nat, expected : [C -> Nat],
                 verdict : [C -> {"pending", "supported", "rejected"}]]
    BY <1>3, <2>1
  <2> QED
    BY <2>2 DEF Requests
<1>5. CASE request' = NoRequest
  BY <1>1, <1>2, <1>5 DEF RefreshInv, Running
<1>6. CASE request' = new /\ ~Suppressed(ph)
  <2>1. sinceRefresh' > Cooldown /\ refreshes[ph] < MaxRefreshes
    BY <1>1, <1>6, RefreshAssumption DEF Suppressed, RefreshInv, RefreshAssumption
  <2> QED
    BY <1>1, <1>2, <1>4, <1>6, <2>1 DEF RefreshInv, Running
<1> QED
  BY <1>1, <1>5, <1>6

SameSnapshot ==
  /\ request'.epoch = request.epoch /\ request'.expected = request.expected
  /\ DOMAIN request'.verdict = DOMAIN request.verdict

(* An answer changes the verdict of its block and nothing else.            *)
LEMMA VerifyKeeps ==
  ASSUME RefreshInv, NEW b \in Block, NEW answer, Verify(b, answer)
  PROVE  /\ RefreshInv'
         /\ SameSnapshot
<1>1. PICK C \in SUBSET Block :
        request \in [epoch : Nat \ {0}, phase : Phase, load : Nat, expected : [C -> Nat],
                     verdict : [C -> {"pending", "supported", "rejected"}]]
  BY DEF RefreshInv, Requests, Verify
<1>2. request' = [request EXCEPT !.verdict[b] = IF answer = "supported" THEN answer ELSE "rejected"]
  BY DEF Verify
<1>3. /\ request' \in [epoch : Nat \ {0}, phase : Phase, load : Nat, expected : [C -> Nat],
                       verdict : [C -> {"pending", "supported", "rejected"}]]
      /\ request'.epoch = request.epoch /\ request'.expected = request.expected
      /\ request'.phase = request.phase
  BY <1>1, <1>2
<1>7. SameSnapshot
  BY <1>1, <1>3 DEF SameSnapshot
<1>4. request' \in Requests
  BY <1>3 DEF Requests
<1>5. ContextInv'
  BY ContextStep DEF Verify, RefreshInv, contextVars
<1>6. Running'
  BY <1>3 DEF Running, NoRequest
<1> QED
  BY <1>3, <1>4, <1>5, <1>6, <1>7 DEF Verify, RefreshInv

LEMMA CommitKeeps ==
  ASSUME RefreshInv, CommitRefresh
  PROVE  RefreshInv'
<1>1. ContextInv'
  BY CoordinatorContextStep, ContextStep DEF RefreshNext, Conclude, RefreshInv
<1>2. request.phase \in Phase /\ refreshes[request.phase] < MaxRefreshes
  BY DEF CommitRefresh, RefreshInv, Requests
<1>3. /\ refreshes' = [refreshes EXCEPT ![request.phase] = @ + 1]
      /\ sinceRefresh' = 0 /\ request' = NoRequest /\ epoch' = epoch
  BY DEF CommitRefresh
<1>4. /\ refreshes' \in [Phase -> Nat]
      /\ \A ph \in Phase : refreshes'[ph] <= MaxRefreshes
  BY <1>2, <1>3, RefreshAssumption DEF RefreshInv, RefreshAssumption
<1> QED
  BY <1>1, <1>3, <1>4 DEF RefreshInv, Running

LEMMA RefreshStep == RefreshInv /\ [RefreshNext]_coordinatorVars => RefreshInv'
<1> SUFFICES ASSUME RefreshInv, [RefreshNext]_coordinatorVars
             PROVE  RefreshInv'
  OBVIOUS
<1>1. ContextInv'
  BY CoordinatorContextStep, ContextStep DEF RefreshInv
<1>2. CASE \E ph \in Phase, C \in SUBSET Block, k \in 1..MaxWorking + 1 : StartRefresh(ph, C, k)
  BY <1>2, RefreshStartKeeps
<1>3. CASE Verifiers
  BY <1>3, VerifyKeeps DEF Verifiers
<1>4. CASE CommitRefresh
  BY <1>4, CommitKeeps
<1>5. CASE RefuseRefresh
  BY <1>1, <1>5 DEF RefuseRefresh, RefreshInv, Running
<1>6. CASE NotifyStateChange
  BY <1>1, <1>6 DEF NotifyStateChange, RefreshInv, Running
<1>7. CASE DirectoryChange \/ UNCHANGED coordinatorVars
  BY <1>1, <1>7 DEF DirectoryChange, refreshVars, coordinatorVars, RefreshInv, Running
<1> QED
  BY <1>2, <1>3, <1>4, <1>5, <1>6, <1>7 DEF RefreshNext, Conclude

LEMMA RefreshStarts == RefreshInit => RefreshInv
<1> SUFFICES ASSUME RefreshInit PROVE RefreshInv
  OBVIOUS
<1>1. ContextInv
  BY ContextStarts DEF RefreshInit
<1> QED
  BY <1>1, RefreshAssumption DEF RefreshInit, RefreshInv, Running, RefreshAssumption

(* Only a commit counts as a refresh.                                      *)
LEMMA CountedIsCommit ==
  ASSUME [RefreshNext]_coordinatorVars, refreshes' # refreshes
  PROVE  CommitRefresh
<1>1. ~UNCHANGED coordinatorVars
  BY DEF coordinatorVars, refreshVars
<1> QED
  BY <1>1 DEF RefreshNext, StartRefresh, Verifiers, Verify, Conclude, RefuseRefresh, NotifyStateChange,
     DirectoryChange, refreshVars

(* However the phases alternate, Cooldown decisions lie between two        *)
(* commits, and no phase commits beyond its budget.                        *)
THEOREM RefreshStormsAreSuppressed == RefreshSpec => StormSuppressed
<1>1. RefreshInv /\ [RefreshNext]_coordinatorVars =>
        (refreshes' # refreshes => /\ sinceRefresh > Cooldown
                                   /\ \A ph \in Phase : refreshes'[ph] <= MaxRefreshes)
  <2> SUFFICES ASSUME RefreshInv, [RefreshNext]_coordinatorVars, refreshes' # refreshes
               PROVE  /\ sinceRefresh > Cooldown
                      /\ \A ph \in Phase : refreshes'[ph] <= MaxRefreshes
    OBVIOUS
  <2>1. CommitRefresh
    BY CountedIsCommit
  <2>2. sinceRefresh > Cooldown
    BY <2>1 DEF CommitRefresh, RefreshInv
  <2>3. \A ph \in Phase : refreshes'[ph] <= MaxRefreshes
    BY <2>1, CommitKeeps DEF RefreshInv
  <2> QED
    BY <2>2, <2>3
<1> QED
  BY <1>1, RefreshStarts, RefreshStep, PTL DEF RefreshSpec, StormSuppressed

-----------------------------------------------------------------------------
(* The history of a request *)

(* What the request has missed shows: a notification in the epoch, a       *)
(* change of a block in its revision or its stale flag.                    *)
HistoryInv ==
  Running =>
    /\ request.epoch <= epoch
    /\ noticed => request.epoch < epoch
    /\ \A b \in DOMAIN request.verdict :
         /\ request.expected[b] <= blockRevision[b]
         /\ b \in disturbed => request.expected[b] < blockRevision[b] \/ b \in blockStale

LEMMA HistoryStep ==
  ASSUME RefreshInv, HistoryInv, HistoryNext
  PROVE  HistoryInv'
<1> SUFFICES ASSUME Running'
             PROVE  HistoryInv'
  BY DEF HistoryInv
<1>1. /\ [ContextNext]_contextVars
      /\ RefreshInv'
  BY CoordinatorContextStep, RefreshStep DEF HistoryNext
<1>2. \A b \in Block : blockRevision[b] \in Nat /\ blockRevision'[b] \in Nat
                       /\ blockRevision'[b] >= blockRevision[b]
  BY <1>1, RevisionsAdvance, ContextAssumption DEF RefreshInv, ContextInv, ContextTypeOK, ContextAssumption
<1>3. epoch \in Nat /\ epoch' \in Nat /\ epoch' >= epoch
  BY <1>1 DEF RefreshInv, HistoryNext, RefreshNext, StartRefresh, Verifiers, Verify, Conclude, CommitRefresh,
     RefuseRefresh, NotifyStateChange, DirectoryChange, refreshVars
<1>4. CASE ~Running
  <2>1. PICK ph \in Phase, C \in SUBSET Block, k \in 1..MaxWorking + 1 : StartRefresh(ph, C, k)
    BY <1>4 DEF HistoryNext, RefreshNext, Verifiers, Verify, Conclude, CommitRefresh, RefuseRefresh,
       NotifyStateChange, DirectoryChange, refreshVars, Running
  <2>2. /\ request'.epoch = epoch /\ epoch' = epoch /\ blockRevision' = blockRevision
        /\ request'.expected = [b \in C |-> blockRevision[b]]
        /\ DOMAIN request'.verdict = C
    BY <2>1 DEF StartRefresh, contextVars, Running, NoRequest
  <2>3. disturbed' = {} /\ ~noticed'
    BY <1>4 DEF HistoryNext
  <2> QED
    BY <1>2, <1>3, <2>2, <2>3 DEF HistoryInv
<1>5. CASE Running
  <2>1. SameSnapshot
    <3>1. CASE Verifiers
      BY <3>1, VerifyKeeps DEF Verifiers
    <3>2. CASE request' = request
      BY <3>2 DEF SameSnapshot
    <3> QED
      BY <1>5, <3>1, <3>2 DEF HistoryNext, RefreshNext, StartRefresh, Conclude, CommitRefresh, RefuseRefresh,
         NotifyStateChange, DirectoryChange, refreshVars, Running
  <2>2. request.epoch \in Nat /\ \E C \in SUBSET Block : DOMAIN request.verdict = C /\ request.expected \in [C -> Nat]
    BY <1>5 DEF RefreshInv, Requests
  <2>3. request'.epoch <= epoch' /\ (noticed' => request'.epoch < epoch')
    <3>1. noticed' => noticed \/ epoch' # epoch
      BY Zenon DEF HistoryNext
    <3>2. request'.epoch = request.epoch /\ request.epoch <= epoch /\ (noticed => request.epoch < epoch)
      BY <1>5, <2>1 DEF HistoryInv, SameSnapshot
    <3> QED
      BY <1>3, <2>2, <3>1, <3>2
  <2>4. ASSUME NEW b \in DOMAIN request'.verdict
        PROVE  /\ request'.expected[b] <= blockRevision'[b]
               /\ b \in disturbed' => request'.expected[b] < blockRevision'[b] \/ b \in blockStale'
    <3>1. /\ b \in Block /\ b \in DOMAIN request.verdict
          /\ request'.expected[b] = request.expected[b] /\ request.expected[b] \in Nat
      BY <2>1, <2>2, <2>4 DEF SameSnapshot
    <3>2. /\ request.expected[b] <= blockRevision[b]
          /\ b \in disturbed => request.expected[b] < blockRevision[b] \/ b \in blockStale
      BY <1>5, <3>1 DEF HistoryInv
    <3>3. CASE blockRevision'[b] > blockRevision[b]
      BY <1>2, <3>1, <3>2, <3>3
    <3>4. CASE blockRevision'[b] = blockRevision[b]
      <4>1. b \in blockStale => b \in blockStale'
        BY <1>1, <1>2, <3>1, <3>4, RevivedStep DEF RefreshInv
      <4>2. b \in disturbed' => b \in disturbed \/ b \in blockStale'
        BY <1>5, <3>4 DEF HistoryNext, ChangedBlocks
      <4> QED
        BY <3>1, <3>2, <3>4, <4>1, <4>2
    <3> QED
      BY <1>2, <3>1, <3>3, <3>4
  <2> QED
    BY <2>3, <2>4 DEF HistoryInv
<1> QED
  BY <1>4, <1>5

(* What a refresh commits was supported in this very refresh, and nobody   *)
(* revised or invalidated it, or changed the task, while verifiers ran.    *)
THEOREM CommitsAreUndisturbed == HistorySpec => CommitsUndisturbed
<1>1. HistoryInit => RefreshInv /\ HistoryInv
  BY RefreshStarts DEF HistoryInit, RefreshInit, HistoryInv, Running
<1>2. RefreshInv /\ HistoryInv /\ [HistoryNext]_historyVars => RefreshInv' /\ HistoryInv'
  <2>1. RefreshInv /\ HistoryInv /\ HistoryNext => RefreshInv' /\ HistoryInv'
    BY RefreshStep, HistoryStep DEF HistoryNext
  <2>2. RefreshInv /\ HistoryInv /\ UNCHANGED historyVars => RefreshInv' /\ HistoryInv'
    <3> SUFFICES ASSUME RefreshInv, HistoryInv, UNCHANGED historyVars
                 PROVE  RefreshInv' /\ HistoryInv'
      OBVIOUS
    <3>1. UNCHANGED coordinatorVars /\ UNCHANGED <<disturbed, noticed>>
      BY DEF historyVars
    <3>2. RefreshInv'
      BY <3>1, RefreshStep
    <3>3. HistoryInv'
      BY <3>1 DEF HistoryInv, Running, coordinatorVars, contextVars, refreshVars
    <3> QED
      BY <3>2, <3>3
  <2> QED
    BY <2>1, <2>2
<1>3. ASSUME RefreshInv, HistoryInv, [HistoryNext]_historyVars, refreshes' # refreshes
      PROVE  /\ working' \subseteq Supported
             /\ working' \cap disturbed = {}
             /\ ~noticed
  <2>1. CommitRefresh
    BY <1>3, CountedIsCommit DEF HistoryNext, historyVars, coordinatorVars, refreshVars
  <2>2. PICK W \in Selectable : MayCommit(W) /\ CommitSelected(W, request.expected)
    BY <2>1 DEF CommitRefresh
  <2>3. /\ Running /\ working' = W /\ W \subseteq Supported /\ W \subseteq Live
        /\ request.epoch = epoch /\ epoch \in Nat
        /\ \A b \in W : blockRevision[b] = request.expected[b] /\ blockRevision[b] \in Nat
    BY <1>3, <2>1, <2>2, ContextAssumption DEF CommitRefresh, CommitSelected, Selectable, MayCommit, RefreshInv, Live, Known,
       ContextInv, ContextTypeOK, ContextAssumption
  <2>4. ~noticed
    BY <1>3, <2>3 DEF HistoryInv
  <2>5. W \cap disturbed = {}
    BY <1>3, <2>3 DEF HistoryInv, Supported, Live
  <2> QED
    BY <2>3, <2>4, <2>5
<1> QED
  BY <1>1, <1>2, <1>3, PTL DEF HistorySpec, CommitsUndisturbed

-----------------------------------------------------------------------------
(* The trace *)

WonAt(e) == {i \in DOMAIN log : Key(log[i]) = e /\ log[i].success}
LostAt(e) == {i \in DOMAIN log : Key(log[i]) = e /\ ~log[i].success}

TraceInv ==
  /\ log \in Seq(Records)
  /\ DOMAIN edges = {Key(log[i]) : i \in DOMAIN log}
  /\ \A e \in DOMAIN edges :
       /\ edges[e] \in [ok : Nat, failed : Nat]
       /\ edges[e].ok = Cardinality(WonAt(e)) /\ edges[e].failed = Cardinality(LostAt(e))

LEMMA LogFinite ==
  ASSUME log \in Seq(Records)
  PROVE  /\ Len(log) \in Nat /\ DOMAIN log = 1..Len(log) /\ IsFiniteSet(DOMAIN log)
         /\ \A i \in DOMAIN log : log[i] \in Records /\ log[i].success \in BOOLEAN
         /\ \A e : IsFiniteSet(WonAt(e)) /\ IsFiniteSet(LostAt(e))
                   /\ Cardinality(WonAt(e)) \in Nat /\ Cardinality(LostAt(e)) \in Nat
<1>1. Len(log) \in Nat /\ DOMAIN log = 1..Len(log) /\ \A i \in DOMAIN log : log[i] \in Records
  OBVIOUS
<1>2. IsFiniteSet(DOMAIN log)
  BY <1>1, FS_Interval
<1>3. \A e : WonAt(e) \subseteq DOMAIN log /\ LostAt(e) \subseteq DOMAIN log
  BY DEF WonAt, LostAt
<1>4. \A e : IsFiniteSet(WonAt(e)) /\ IsFiniteSet(LostAt(e))
  BY <1>2, <1>3, FS_Subset
<1> QED
  BY <1>1, <1>2, <1>4, FS_CardinalityType, TraceAssumption DEF TraceAssumption

(* Every decision is counted on its edge, once.                            *)
LEMMA RecordKeeps ==
  ASSUME TraceInv, NEW r \in Records, RecordDecision(r)
  PROVE  TraceInv'
<1> DEFINE n == Len(log)
           new == Key(r)
<1>1. /\ n \in Nat /\ DOMAIN log = 1..n /\ log' = Append(log, r) /\ log' \in Seq(Records) /\ DOMAIN log' = 1..(n + 1)
      /\ r.success \in BOOLEAN
  BY TraceAssumption DEF TraceInv, RecordDecision, TraceAssumption
<1>2. log'[n + 1] = r /\ \A i \in 1..n : log'[i] = log[i]
  BY <1>1
<1>3. n + 1 \notin 1..n /\ \A i : i \in 1..(n + 1) <=> i \in 1..n \/ i = n + 1
  BY <1>1
<1> HIDE DEF n
<1>4. ASSUME NEW e
      PROVE  /\ WonAt(e)' = IF e = new /\ r.success THEN WonAt(e) \cup {n + 1} ELSE WonAt(e)
             /\ LostAt(e)' = IF e = new /\ ~r.success THEN LostAt(e) \cup {n + 1} ELSE LostAt(e)
  <2>1. Key(log'[n + 1]) = new /\ \A i \in 1..n : Key(log'[i]) = Key(log[i])
    BY <1>2
  <2>2. \A i : i \in WonAt(e)' <=> i \in 1..(n + 1) /\ Key(log'[i]) = e /\ log'[i].success
    BY <1>1 DEF WonAt
  <2>3. \A i : i \in LostAt(e)' <=> i \in 1..(n + 1) /\ Key(log'[i]) = e /\ ~log'[i].success
    BY <1>1 DEF LostAt
  <2>4. \A i : i \in WonAt(e) <=> i \in 1..n /\ Key(log[i]) = e /\ log[i].success
    BY <1>1 DEF WonAt
  <2>5. \A i : i \in LostAt(e) <=> i \in 1..n /\ Key(log[i]) = e /\ ~log[i].success
    BY <1>1 DEF LostAt
  <2> HIDE DEF new
  <2>6. \A i : i \in WonAt(e)' <=> i \in WonAt(e) \/ (i = n + 1 /\ e = new /\ r.success)
    BY <1>2, <1>3, <2>1, <2>2, <2>4
  <2>7. \A i : i \in LostAt(e)' <=> i \in LostAt(e) \/ (i = n + 1 /\ e = new /\ ~r.success)
    BY <1>2, <1>3, <2>1, <2>3, <2>5
  <2> QED
    BY <2>6, <2>7
<1>5. ASSUME NEW e
      PROVE  /\ Cardinality(WonAt(e))' = Cardinality(WonAt(e)) + (IF e = new /\ r.success THEN 1 ELSE 0)
             /\ Cardinality(LostAt(e))' = Cardinality(LostAt(e)) + (IF e = new /\ ~r.success THEN 1 ELSE 0)
             /\ Cardinality(WonAt(e)) \in Nat /\ Cardinality(LostAt(e)) \in Nat
  <2>1. IsFiniteSet(WonAt(e)) /\ IsFiniteSet(LostAt(e)) /\ Cardinality(WonAt(e)) \in Nat /\ Cardinality(LostAt(e)) \in Nat
    BY LogFinite DEF TraceInv
  <2>2. n + 1 \notin WonAt(e) /\ n + 1 \notin LostAt(e)
    BY <1>1, <1>3 DEF WonAt, LostAt
  <2>3. /\ Cardinality(WonAt(e) \cup {n + 1}) = Cardinality(WonAt(e)) + 1
        /\ Cardinality(LostAt(e) \cup {n + 1}) = Cardinality(LostAt(e)) + 1
    BY <2>1, <2>2, FS_AddElement
  <2> DEFINE won == e = new /\ r.success
             lost == e = new /\ ~r.success
  <2>4. WonAt(e)' = (IF won THEN WonAt(e) \cup {n + 1} ELSE WonAt(e))
        /\ LostAt(e)' = (IF lost THEN LostAt(e) \cup {n + 1} ELSE LostAt(e))
    BY <1>4
  <2>5. won \in BOOLEAN /\ lost \in BOOLEAN
    BY <1>1
  <2> HIDE DEF won, lost
  <2>6. Cardinality(WonAt(e)') = Cardinality(WonAt(e)) + (IF won THEN 1 ELSE 0)
    <3>1. CASE won
      BY <2>3, <2>4, <3>1
    <3>2. CASE ~won
      BY <2>1, <2>4, <3>2
    <3> QED
      BY <3>1, <3>2
  <2>7. Cardinality(LostAt(e)') = Cardinality(LostAt(e)) + (IF lost THEN 1 ELSE 0)
    <3>1. CASE lost
      BY <2>3, <2>4, <3>1
    <3>2. CASE ~lost
      BY <2>1, <2>4, <3>2
    <3> QED
      BY <3>1, <3>2
  <2> QED
    BY <2>1, <2>6, <2>7 DEF won, lost
<1>6. DOMAIN edges' = DOMAIN edges \cup {new} /\ DOMAIN edges' = {Key(log'[i]) : i \in DOMAIN log'}
  <2>1. DOMAIN edges' = DOMAIN edges \cup {new}
    BY DEF RecordDecision
  <2>2. DOMAIN edges = {Key(log[i]) : i \in 1..n}
    BY <1>1 DEF TraceInv
  <2> QED
    BY <1>1, <1>2, <1>3, <2>1, <2>2
<1>7. Edge(new).ok = Cardinality(WonAt(new)) /\ Edge(new).failed = Cardinality(LostAt(new))
      /\ Edge(new) \in [ok : Nat, failed : Nat]
  <2>1. CASE new \in DOMAIN edges
    BY <2>1 DEF Edge, TraceInv
  <2>2. CASE new \notin DOMAIN edges
    <3>1. WonAt(new) = {} /\ LostAt(new) = {}
      BY <2>2 DEF TraceInv, WonAt, LostAt
    <3>2. Cardinality(WonAt(new)) = 0 /\ Cardinality(LostAt(new)) = 0
      BY <3>1, FS_EmptySet
    <3> HIDE DEF new
    <3> QED
      BY <2>2, <3>2 DEF Edge, Unseen
  <2> QED
    BY <2>1, <2>2
<1> HIDE DEF new
<1>8. ASSUME NEW e \in DOMAIN edges'
      PROVE  /\ edges'[e] \in [ok : Nat, failed : Nat]
             /\ edges'[e].ok = Cardinality(WonAt(e))' /\ edges'[e].failed = Cardinality(LostAt(e))'
  <2>1. edges'[e] = IF e = new THEN Counted(Edge(e), r.success) ELSE edges[e]
    BY <1>6, <1>8 DEF RecordDecision, new
  <2>2. CASE e = new
    BY <1>1, <1>5, <1>7, <2>1, <2>2 DEF Counted
  <2>3. CASE e # new
    <3>1. e \in DOMAIN edges /\ edges'[e] = edges[e]
      BY <1>6, <2>1, <2>3
    <3> QED
      BY <1>5, <2>3, <3>1 DEF TraceInv
  <2> QED
    BY <2>2, <2>3
<1> QED
  BY <1>1, <1>6, <1>8 DEF TraceInv

(* Sums over edges count the log.                                          *)
LEMMA SuccessesFold ==
  ASSUME TraceInv, NEW keys \in SUBSET DOMAIN edges, IsFiniteSet(keys)
  PROVE  \E g : Adds(g, keys, [e \in keys |-> edges[e].ok]) /\ Successes(keys) = g[keys]
<1> DEFINE w == [e \in keys |-> edges[e].ok]
           Follows(g) == g = [s \in SUBSET keys |->
             IF s = {} THEN 0 ELSE LET e == CHOOSE d \in s : TRUE IN edges[e].ok + g[s \ {e}]]
           it == CHOOSE g : Follows(g)
<1>1. w \in [keys -> Nat]
  BY DEF TraceInv
<1>2. PICK g \in [SUBSET keys -> Nat] : SumsUp(g, keys, w)
  <2> HIDE DEF w
  <2> QED
    BY <1>1, SumExists
<1>3. ASSUME NEW s \in SUBSET keys, s # {}
      PROVE  LET e == CHOOSE d \in s : TRUE IN w[e] = edges[e].ok
  BY <1>3
<1>4. Follows(g)
  <2> HIDE DEF w
  <2> QED
    BY <1>2, <1>3 DEF SumsUp
<1>5. Follows(it)
  BY <1>4
<1>6. Successes(keys) = it[keys]
  BY DEF Successes, MapThenSumSet, MapThenFoldSet
<1> HIDE DEF it
<1>7. SumsUp(it, keys, w)
  <2> HIDE DEF w
  <2> QED
    BY <1>3, <1>5 DEF SumsUp
<1> HIDE DEF w
<1>8. Adds(it, keys, w)
  BY <1>1, <1>7, SumAdds
<1> QED
  BY <1>6, <1>8 DEF w

LEMMA ObservationsFold ==
  ASSUME TraceInv, NEW keys \in SUBSET DOMAIN edges, IsFiniteSet(keys)
  PROVE  \E g : Adds(g, keys, [e \in keys |-> edges[e].ok + edges[e].failed]) /\ Observations(keys) = g[keys]
<1> DEFINE w == [e \in keys |-> edges[e].ok + edges[e].failed]
           Follows(g) == g = [s \in SUBSET keys |->
             IF s = {} THEN 0 ELSE LET e == CHOOSE d \in s : TRUE IN (edges[e].ok + edges[e].failed) + g[s \ {e}]]
           it == CHOOSE g : Follows(g)
<1>1. w \in [keys -> Nat]
  BY DEF TraceInv
<1>2. PICK g \in [SUBSET keys -> Nat] : SumsUp(g, keys, w)
  <2> HIDE DEF w
  <2> QED
    BY <1>1, SumExists
<1>3. ASSUME NEW s \in SUBSET keys, s # {}
      PROVE  LET e == CHOOSE d \in s : TRUE IN w[e] = edges[e].ok + edges[e].failed
  BY <1>3
<1>4. Follows(g)
  <2> HIDE DEF w
  <2> QED
    BY <1>2, <1>3 DEF SumsUp
<1>5. Follows(it)
  BY <1>4
<1>6. Observations(keys) = it[keys]
  BY DEF Observations, MapThenSumSet, MapThenFoldSet
<1> HIDE DEF it
<1>7. SumsUp(it, keys, w)
  <2> HIDE DEF w
  <2> QED
    BY <1>3, <1>5 DEF SumsUp
<1> HIDE DEF w
<1>8. Adds(it, keys, w)
  BY <1>1, <1>7, SumAdds
<1> QED
  BY <1>6, <1>8 DEF w

LEMMA EdgesFinite ==
  ASSUME TraceInv, NEW keys \in SUBSET DOMAIN edges
  PROVE  IsFiniteSet(keys)
<1> DEFINE f == [i \in DOMAIN log |-> Key(log[i])]
<1>1. f \in Surjection(DOMAIN log, DOMAIN edges)
  BY DEF TraceInv, Surjection
<1> HIDE DEF f
<1>2. IsFiniteSet(DOMAIN edges)
  BY <1>1, LogFinite, FS_Surjection DEF TraceInv
<1> QED
  BY <1>2, FS_Subset

LEMMA SumsCountTheLog ==
  ASSUME TraceInv, NEW keys \in SUBSET DOMAIN edges
  PROVE  /\ Successes(keys) = Cardinality({i \in DOMAIN log : Key(log[i]) \in keys /\ log[i].success})
         /\ Observations(keys) = Cardinality({i \in DOMAIN log : Key(log[i]) \in keys})
<1> DEFINE keyOf == [i \in DOMAIN log |-> Key(log[i])]
           Winners == {i \in DOMAIN log : log[i].success}
<1>1. IsFiniteSet(keys) /\ IsFiniteSet(DOMAIN log) /\ IsFiniteSet(Winners)
  BY EdgesFinite, LogFinite, FS_Subset DEF TraceInv
<1>2. \A e \in keys : edges[e].ok = Cardinality(Placed(Winners, keyOf, {e}))
  <2>1. \A e : Placed(Winners, keyOf, {e}) = WonAt(e)
    BY DEF WonAt, Placed
  <2> QED
    BY <2>1 DEF TraceInv
<1>3. \A e \in keys : edges[e].ok + edges[e].failed = Cardinality(Placed(DOMAIN log, keyOf, {e}))
  <2> SUFFICES ASSUME NEW e \in keys
               PROVE  edges[e].ok + edges[e].failed = Cardinality(Placed(DOMAIN log, keyOf, {e}))
    OBVIOUS
  <2>1. Placed(DOMAIN log, keyOf, {e}) = WonAt(e) \cup LostAt(e) /\ WonAt(e) \cap LostAt(e) = {}
    BY LogFinite DEF TraceInv, WonAt, LostAt, Placed
  <2>2. IsFiniteSet(WonAt(e)) /\ IsFiniteSet(LostAt(e)) /\ Cardinality(WonAt(e)) \in Nat /\ Cardinality(LostAt(e)) \in Nat
    BY LogFinite DEF TraceInv
  <2>3. Cardinality(WonAt(e) \cup LostAt(e)) = Cardinality(WonAt(e)) + Cardinality(LostAt(e)) - Cardinality({})
    BY <2>1, <2>2, FS_Union
  <2>4. Cardinality({}) = 0
    BY FS_EmptySet
  <2> DEFINE There == Placed(DOMAIN log, keyOf, {e})
  <2>5. There = WonAt(e) \cup LostAt(e)
    BY <2>1
  <2>6. edges[e].ok = Cardinality(WonAt(e)) /\ edges[e].failed = Cardinality(LostAt(e))
    BY DEF TraceInv
  <2> HIDE DEF There
  <2>7. edges[e].ok + edges[e].failed = Cardinality(There)
    BY <2>2, <2>3, <2>4, <2>5, <2>6
  <2> QED
    BY <2>7 DEF There
<1>4. Placed(Winners, keyOf, keys) = {i \in DOMAIN log : Key(log[i]) \in keys /\ log[i].success}
      /\ Placed(DOMAIN log, keyOf, keys) = {i \in DOMAIN log : Key(log[i]) \in keys}
  BY DEF Placed
<1>5. Successes(keys) = Cardinality(Placed(Winners, keyOf, keys))
  <2> DEFINE w == [e \in keys |-> edges[e].ok]
  <2>1. PICK g : Adds(g, keys, w) /\ Successes(keys) = g[keys]
    BY <1>1, SuccessesFold
  <2>2. Counts(w, keys, Winners, keyOf)
    BY <1>1, <1>2 DEF Counts
  <2> HIDE DEF w, Winners, keyOf
  <2> QED
    BY <1>1, <2>1, <2>2, SumCounts
<1> DEFINE All == DOMAIN log
<1>6. Observations(keys) = Cardinality(Placed(All, keyOf, keys))
  <2> DEFINE w == [e \in keys |-> edges[e].ok + edges[e].failed]
  <2>1. PICK g : Adds(g, keys, w) /\ Observations(keys) = g[keys]
    BY <1>1, ObservationsFold
  <2>2. Counts(w, keys, All, keyOf)
    BY <1>1, <1>3 DEF Counts
  <2> HIDE DEF w, All, keyOf
  <2> QED
    BY <1>1, <2>1, <2>2, SumCounts
<1> QED
  BY <1>4, <1>5, <1>6

(* A set of values taken by a finite set has one element if they all agree. *)
LEMMA OneValue ==
  ASSUME NEW I, IsFiniteSet(I), NEW f
  PROVE  Cardinality({f[i] : i \in I}) = 1 <=> I # {} /\ \A i, j \in I : f[i] = f[j]
<1> DEFINE T == {f[i] : i \in I}
<1>1. IsFiniteSet(T)
  <2> DEFINE h == [i \in I |-> f[i]]
  <2>1. h \in Surjection(I, T)
    BY DEF Surjection
  <2> HIDE DEF h, T
  <2> QED
    BY <2>1, FS_Surjection
<1>2. ASSUME NEW v, T = {v}
      PROVE  I # {} /\ \A i, j \in I : f[i] = f[j]
  BY <1>2
<1>3. ASSUME NEW o \in I, \A i, j \in I : f[i] = f[j]
      PROVE  T = {f[o]}
  BY <1>3
<1> HIDE DEF T
<1>4. Cardinality(T) = 1 <=> \E v : T = {v}
  BY <1>1, FS_Singleton
<1> QED
  BY <1>2, <1>3, <1>4 DEF T

TakenBy(u) == {i \in DOMAIN log : log[i].action = u}
WonBy(u) == {i \in TakenBy(u) : log[i].success}

(* The edges of an action, told by the log.                                *)
LEMMA EdgesTold ==
  ASSUME TraceInv, NEW u
  PROVE  /\ \A e : e \in EdgesOf(u) <=> \E i \in TakenBy(u) : Key(log[i]) = e
         /\ \A e \in EdgesOf(u) : edges[e].ok > 0 <=> \E i \in WonBy(u) : Key(log[i]) = e
<1>1. \A e : e \in EdgesOf(u) <=> \E i \in TakenBy(u) : Key(log[i]) = e
  BY DEF TraceInv, EdgesOf, TakenBy, Key
<1>2. ASSUME NEW e \in EdgesOf(u)
      PROVE  edges[e].ok > 0 <=> \E i \in WonBy(u) : Key(log[i]) = e
  <2>1. e \in DOMAIN edges /\ e.action = u
    BY DEF EdgesOf
  <2>2. edges[e].ok = Cardinality(WonAt(e)) /\ Cardinality(WonAt(e)) \in Nat /\ IsFiniteSet(WonAt(e))
    BY <2>1, LogFinite DEF TraceInv
  <2>3. Cardinality(WonAt(e)) = 0 <=> WonAt(e) = {}
    BY <2>2, FS_EmptySet
  <2>4. WonAt(e) # {} <=> \E i \in WonBy(u) : Key(log[i]) = e
    <3>1. \A i \in DOMAIN log : Key(log[i]) = e => log[i].action = u
      BY <2>1 DEF Key
    <3> QED
      BY <3>1 DEF WonAt, WonBy, TakenBy
  <2> QED
    BY <2>2, <2>3, <2>4
<1> QED
  BY <1>1, <1>2

LEMMA CountsTold ==
  ASSUME TraceInv, NEW u
  PROVE  /\ Successes(EdgesOf(u)) = Cardinality(WonBy(u))
         /\ Observations(EdgesOf(u)) = Cardinality(TakenBy(u))
<1>1. EdgesOf(u) \in SUBSET DOMAIN edges
  BY DEF EdgesOf
<1>2. \A i \in DOMAIN log : Key(log[i]) \in EdgesOf(u) <=> log[i].action = u
  BY DEF TraceInv, EdgesOf, Key
<1>3. /\ {i \in DOMAIN log : Key(log[i]) \in EdgesOf(u)} = TakenBy(u)
      /\ {i \in DOMAIN log : Key(log[i]) \in EdgesOf(u) /\ log[i].success} = WonBy(u)
  BY <1>2 DEF TakenBy, WonBy
<1> QED
  BY <1>1, <1>3, SumsCountTheLog

SteadyOn(u) ==
  /\ Cardinality(TakenBy(u)) >= MinObservations
  /\ WonBy(u) # {}
  /\ Cardinality(WonBy(u)) * RateDen >= RateNum * Cardinality(TakenBy(u))
  /\ \A i, j \in TakenBy(u) : log[i].context = log[j].context
  /\ \A i, j \in WonBy(u) : log[i].target = log[j].target

LEMMA StableIsSteady ==
  ASSUME TraceInv, NEW u
  PROVE  Stable(EdgesOf(u)) <=> SteadyOn(u)
<1>1. IsFiniteSet(TakenBy(u)) /\ IsFiniteSet(WonBy(u)) /\ WonBy(u) \subseteq TakenBy(u)
  <2>1. TakenBy(u) \subseteq DOMAIN log /\ WonBy(u) \subseteq DOMAIN log /\ WonBy(u) \subseteq TakenBy(u)
    BY DEF TakenBy, WonBy
  <2> QED
    BY <2>1, LogFinite, FS_Subset DEF TraceInv
<1>2. Frequent(EdgesOf(u)) <=> /\ Cardinality(TakenBy(u)) >= MinObservations
                               /\ Cardinality(WonBy(u)) * RateDen >= RateNum * Cardinality(TakenBy(u))
  BY CountsTold DEF Frequent
<1> DEFINE contextOf == [i \in TakenBy(u) |-> log[i].context]
           targetOf == [i \in WonBy(u) |-> log[i].target]
<1>3. {e.context : e \in EdgesOf(u)} = {contextOf[i] : i \in TakenBy(u)}
  <2>1. \A i \in TakenBy(u) : Key(log[i]) \in EdgesOf(u) /\ Key(log[i]).context = contextOf[i]
    BY EdgesTold DEF Key
  <2>2. \A e \in EdgesOf(u) : \E i \in TakenBy(u) : e.context = contextOf[i]
    BY EdgesTold DEF Key
  <2> HIDE DEF contextOf
  <2> QED
    BY <2>1, <2>2
<1>4. Targets(EdgesOf(u)) = {targetOf[i] : i \in WonBy(u)}
  <2>1. ASSUME NEW i \in WonBy(u)
        PROVE  Key(log[i]) \in EdgesOf(u) /\ edges[Key(log[i])].ok > 0 /\ Key(log[i]).target = targetOf[i]
    BY <1>1, EdgesTold DEF Key
  <2>2. \A e \in EdgesOf(u) : edges[e].ok > 0 => \E i \in WonBy(u) : e.target = targetOf[i]
    BY EdgesTold DEF Key
  <2> HIDE DEF targetOf
  <2> QED
    BY <2>1, <2>2 DEF Targets
<1>5. Cardinality({contextOf[i] : i \in TakenBy(u)}) = 1
      <=> TakenBy(u) # {} /\ \A i, j \in TakenBy(u) : contextOf[i] = contextOf[j]
  <2> HIDE DEF contextOf
  <2> QED
    BY <1>1, OneValue
<1>6. Cardinality({targetOf[i] : i \in WonBy(u)}) = 1
      <=> WonBy(u) # {} /\ \A i, j \in WonBy(u) : targetOf[i] = targetOf[j]
  <2> HIDE DEF targetOf
  <2> QED
    BY <1>1, OneValue
<1>7. /\ (\A i, j \in TakenBy(u) : contextOf[i] = contextOf[j]) <=> (\A i, j \in TakenBy(u) : log[i].context = log[j].context)
      /\ (\A i, j \in WonBy(u) : targetOf[i] = targetOf[j]) <=> (\A i, j \in WonBy(u) : log[i].target = log[j].target)
  OBVIOUS
<1>8. WonBy(u) # {} => TakenBy(u) # {}
  BY <1>1
<1> HIDE DEF contextOf, targetOf
<1> QED
  BY <1>2, <1>3, <1>4, <1>5, <1>6, <1>7, <1>8 DEF Stable, SteadyOn

(* The rule of a steady action quotes its last success.                    *)
RuleOf(u) ==
  [action |-> u, target |-> log[Max(WonBy(u))].target, context |-> log[Max(WonBy(u))].context,
   successes |-> Cardinality(WonBy(u)), observations |-> Cardinality(TakenBy(u))]

LEMMA RuleTold ==
  ASSUME TraceInv, NEW u, SteadyOn(u)
  PROVE  Rule(EdgesOf(u)) = RuleOf(u)
<1> DEFINE e == CHOOSE key \in EdgesOf(u) : edges[key].ok > 0
           m == Max(WonBy(u))
<1>1. WonBy(u) # {} /\ WonBy(u) \subseteq TakenBy(u)
  BY DEF SteadyOn, WonBy
<1>2. \E key \in EdgesOf(u) : edges[key].ok > 0
  BY <1>1, EdgesTold
<1>3. e \in EdgesOf(u) /\ edges[e].ok > 0
  BY <1>2, Zenon
<1>4. m \in WonBy(u)
  <2>1. WonBy(u) \in SUBSET (1..Len(log)) /\ Len(log) \in Nat
    BY LogFinite DEF WonBy, TakenBy, TraceInv
  <2> QED
    BY <1>1, <2>1, MaxIsIn
<1>5. Rule(EdgesOf(u)) = [action |-> e.action, target |-> e.target, context |-> e.context,
                          successes |-> Successes(EdgesOf(u)), observations |-> Observations(EdgesOf(u))]
  BY DEF Rule
<1> HIDE DEF e, m
<1>6. PICK i \in WonBy(u) : Key(log[i]) = e
  BY <1>3, EdgesTold
<1>7. e.action = u /\ e.target = log[i].target /\ e.context = log[i].context
  BY <1>1, <1>6 DEF Key, TakenBy
<1>8. log[i].target = log[m].target /\ log[i].context = log[m].context
  BY <1>1, <1>4 DEF SteadyOn
<1> QED
  BY <1>5, <1>7, <1>8, CountsTold DEF RuleOf, m

LEMMA RulesFromTrace ==
  ASSUME TraceInv
  PROVE  RulesSound
<1> DEFINE Actions == {r.action : r \in {log[i] : i \in {j \in DOMAIN log : SteadyOn(log[j].action)}}}
           Groups == {EdgesOf(key.action) : key \in DOMAIN edges}
<1>1. \A u : u \in Actions <=> SteadyOn(u) /\ \E i \in DOMAIN log : log[i].action = u
  OBVIOUS
<1>2. \A keys : keys \in Groups <=> \E i \in DOMAIN log : keys = EdgesOf(log[i].action)
  <2>1. \A i \in DOMAIN log : Key(log[i]).action = log[i].action
    BY DEF Key
  <2> QED
    BY <2>1 DEF TraceInv
<1>3. CompileStable = {Rule(keys) : keys \in {g \in Groups : Stable(g)}}
  BY DEF CompileStable
<1> HIDE DEF Actions, Groups
<1>4. {Rule(keys) : keys \in {g \in Groups : Stable(g)}} = {RuleOf(u) : u \in Actions}
  <2>1. ASSUME NEW keys \in Groups, Stable(keys)
        PROVE  \E u \in Actions : Rule(keys) = RuleOf(u)
    BY <1>1, <1>2, <2>1, StableIsSteady, RuleTold
  <2>2. ASSUME NEW u \in Actions
        PROVE  \E keys \in Groups : Stable(keys) /\ Rule(keys) = RuleOf(u)
    BY <1>1, <1>2, StableIsSteady, RuleTold
  <2> QED
    BY <2>1, <2>2
<1>5. RulesSound <=> CompileStable = {RuleOf(u) : u \in Actions}
  BY DEF RulesSound, RuleOf, SteadyOn, TakenBy, WonBy, Actions
<1> QED
  BY <1>3, <1>4, <1>5

-----------------------------------------------------------------------------
(* The error summaries *)

FailuresOf(u) == {i \in DOMAIN log : log[i].action = u /\ log[i].target = Failure}
ErrorsOf(u) == {e \in DOMAIN errors : errors[e].key = u}
WaitsOf(u) == {e \in Waiting : errors[e].key = u}

Error == [key : {r.action : r \in Records}, status : {"queued", "running", "done"}]
Climbs(s) == \A i, j \in DOMAIN s : i < j => s[i] < s[j]

QueueInv ==
  /\ errors \in Seq(Error)
  /\ pending \in Seq(DOMAIN errors) /\ left \in Seq(DOMAIN errors)
  /\ Climbs(pending) /\ Climbs(left)
  /\ \A i \in DOMAIN pending, j \in DOMAIN left : pending[i] < left[j]
  /\ draining \in BOOLEAN /\ (~draining => left = <<>>)

CountInv ==
  /\ \A u : Cardinality(ErrorsOf(u)) = Cardinality(FailuresOf(u))
  /\ \A u : Count(u) \in Nat /\ Count(u) + Cardinality(WaitsOf(u)) = Cardinality(ErrorsOf(u))
  /\ \A u \in DOMAIN summaries : summaries[u].text \in ErrorsOf(u)

SummaryInv == TraceInv /\ QueueInv /\ CountInv

LEMMA QueueFacts ==
  ASSUME QueueInv
  PROVE  /\ Len(errors) \in Nat /\ DOMAIN errors = 1..Len(errors) /\ Waiting \subseteq DOMAIN errors
         /\ \A e \in DOMAIN errors : errors[e] \in Error
         /\ \A u : /\ IsFiniteSet(ErrorsOf(u)) /\ Cardinality(ErrorsOf(u)) \in Nat
                   /\ IsFiniteSet(WaitsOf(u)) /\ Cardinality(WaitsOf(u)) \in Nat
<1>1. Len(errors) \in Nat /\ DOMAIN errors = 1..Len(errors) /\ \A e \in DOMAIN errors : errors[e] \in Error
  BY DEF QueueInv
<1>2. Waiting \subseteq DOMAIN errors
  BY DEF QueueInv, Waiting
<1>3. IsFiniteSet(DOMAIN errors)
  BY <1>1, FS_Interval
<1>4. \A u : ErrorsOf(u) \subseteq DOMAIN errors /\ WaitsOf(u) \subseteq DOMAIN errors
  BY <1>2 DEF ErrorsOf, WaitsOf
<1>5. \A u : IsFiniteSet(ErrorsOf(u)) /\ IsFiniteSet(WaitsOf(u))
  BY <1>3, <1>4, FS_Subset
<1> QED
  BY <1>1, <1>2, <1>5, FS_CardinalityType

LEMMA FailuresFinite ==
  ASSUME TraceInv, NEW u
  PROVE  IsFiniteSet(FailuresOf(u)) /\ Cardinality(FailuresOf(u)) \in Nat
<1>1. FailuresOf(u) \subseteq DOMAIN log
  BY DEF FailuresOf
<1> QED
  BY <1>1, LogFinite, FS_Subset, FS_CardinalityType DEF TraceInv

(* A failed run is logged once and submitted once, and waits.              *)
LEMMA RunKeeps ==
  ASSUME SummaryInv, NEW r \in Records, Run(r)
  PROVE  SummaryInv'
<1> DEFINE n == Len(log)
           m == Len(errors)
<1>1. TraceInv'
  BY RecordKeeps DEF SummaryInv, Run
<1>2. /\ n \in Nat /\ DOMAIN log = 1..n /\ DOMAIN log' = 1..(n + 1) /\ log'[n + 1] = r
      /\ \A i \in 1..n : log'[i] = log[i]
  BY DEF SummaryInv, TraceInv, Run, RecordDecision
<1>3. m \in Nat /\ DOMAIN errors = 1..m /\ left = <<>> /\ ~draining /\ pending' = <<>> /\ draining' = TRUE
      /\ UNCHANGED <<summaries, closed>>
  BY QueueFacts DEF SummaryInv, QueueInv, Run
<1>4. \A u : IsFiniteSet(FailuresOf(u)) /\ Cardinality(FailuresOf(u)) \in Nat
  BY FailuresFinite DEF SummaryInv
<1>5. Waiting = {pending[i] : i \in DOMAIN pending}
  BY <1>3 DEF Waiting
<1>6. CASE ~Fails(r)
  <2>1. errors' = errors /\ left' = pending
    BY <1>6 DEF Run, Submitted
  <2>2. QueueInv'
    BY <1>3, <2>1 DEF SummaryInv, QueueInv, Climbs
  <2>3. \A u : FailuresOf(u)' = FailuresOf(u)
    BY <1>2, <1>6 DEF FailuresOf, Fails
  <2>4. Waiting' = Waiting
    BY <1>3, <1>5, <2>1 DEF Waiting
  <2>5. \A u : ErrorsOf(u)' = ErrorsOf(u) /\ WaitsOf(u)' = WaitsOf(u) /\ Count(u)' = Count(u)
    BY <1>3, <2>1, <2>4 DEF ErrorsOf, WaitsOf, Count
  <2>6. CountInv'
    BY <1>3, <2>3, <2>5 DEF SummaryInv, CountInv
  <2> QED
    BY <1>1, <2>2, <2>6 DEF SummaryInv
<1>7. CASE Fails(r)
  <2> DEFINE new == [key |-> r.action, status |-> "queued"]
  <2>1. errors' = Append(errors, new) /\ left' = Append(pending, m + 1)
    BY <1>7 DEF Run, Submitted
  <2>2. new \in Error
    BY DEF Error
  <2>3. /\ errors' \in Seq(Error) /\ DOMAIN errors' = 1..(m + 1) /\ errors'[m + 1] = new
        /\ \A e \in 1..m : errors'[e] = errors[e]
    BY <1>3, <2>1, <2>2 DEF SummaryInv, QueueInv
  <2>4. m + 1 \notin 1..m /\ \A e : e \in 1..(m + 1) <=> e \in 1..m \/ e = m + 1
    BY <1>3
  <2> DEFINE p == Len(pending)
  <2>5. /\ p \in Nat /\ DOMAIN pending = 1..p /\ DOMAIN left' = 1..(p + 1)
        /\ left'[p + 1] = m + 1 /\ \A i \in 1..p : left'[i] = pending[i] /\ pending[i] \in 1..m
    BY <1>3, <2>1 DEF SummaryInv, QueueInv
  <2> HIDE DEF p, m, new
  <2>6. QueueInv'
    <3>1. left' \in Seq(DOMAIN errors') /\ pending' \in Seq(DOMAIN errors')
      <4>1. pending \in Seq(DOMAIN errors') /\ m + 1 \in DOMAIN errors'
        BY <1>3, <2>3, <2>4 DEF SummaryInv, QueueInv
      <4> QED
        BY <1>3, <2>1, <4>1
    <3>2. Climbs(left)'
      <4>1. \A i, j \in 1..p : i < j => pending[i] < pending[j]
        BY <2>5 DEF SummaryInv, QueueInv, Climbs
      <4>2. \A i, j \in 1..(p + 1) : i < j => left'[i] < left'[j]
        BY <1>3, <2>5, <4>1
      <4> QED
        BY <2>5, <4>2 DEF Climbs
    <3> QED
      BY <1>3, <2>3, <3>1, <3>2 DEF QueueInv, Climbs
  <2>7. Waiting' = Waiting \cup {m + 1}
    <3>1. \A e : e \in Waiting' <=> \E i \in 1..(p + 1) : left'[i] = e
      <4>1. Waiting' = {pending'[i] : i \in DOMAIN pending'} \cup {left'[i] : i \in DOMAIN left'}
        BY DEF Waiting
      <4>2. DOMAIN pending' = {}
        BY <1>3
      <4> QED
        BY <2>5, <4>1, <4>2
    <3>2. \A e : e \in Waiting <=> \E i \in 1..p : pending[i] = e
      BY <1>5, <2>5
    <3>3. \A i : i \in 1..(p + 1) <=> i \in 1..p \/ i = p + 1
      BY <2>5
    <3> QED
      BY <2>5, <3>1, <3>2, <3>3
  <2> DEFINE k == n + 1
  <2>8. DOMAIN log' = DOMAIN log \cup {k} /\ k \notin DOMAIN log /\ log'[k] = r /\ \A i \in DOMAIN log : log'[i] = log[i]
    BY <1>2
  <2> HIDE DEF k, n
  <2>9. Waiting \subseteq 1..m /\ \A u : WaitsOf(u) \subseteq 1..m /\ ErrorsOf(u) \subseteq 1..m
    BY <1>3, QueueFacts DEF SummaryInv, WaitsOf, ErrorsOf
  <2>10. \A u : Count(u)' = Count(u)
    BY <1>3 DEF Count
  <2>11. ASSUME NEW u, u # r.action
         PROVE  FailuresOf(u)' = FailuresOf(u) /\ ErrorsOf(u)' = ErrorsOf(u) /\ WaitsOf(u)' = WaitsOf(u)
    <3>1. FailuresOf(u)' = FailuresOf(u)
      BY <2>8, <2>11 DEF FailuresOf
    <3>2. errors'[m + 1].key # u
      BY <2>3, <2>11 DEF new
    <3>3. ErrorsOf(u)' = ErrorsOf(u)
      BY <1>3, <2>3, <2>4, <3>2 DEF ErrorsOf
    <3>4. WaitsOf(u)' = WaitsOf(u)
      BY <2>3, <2>7, <2>9, <3>2 DEF WaitsOf
    <3> QED
      BY <3>1, <3>3, <3>4
  <2>12. ASSUME NEW u, u = r.action
         PROVE  /\ Cardinality(FailuresOf(u)') = Cardinality(FailuresOf(u)) + 1
                /\ Cardinality(ErrorsOf(u)') = Cardinality(ErrorsOf(u)) + 1
                /\ Cardinality(WaitsOf(u)') = Cardinality(WaitsOf(u)) + 1
    <3>1. FailuresOf(u)' = FailuresOf(u) \cup {k} /\ k \notin FailuresOf(u)
      BY <1>7, <2>8, <2>12 DEF FailuresOf, Fails
    <3>2. errors'[m + 1].key = u
      BY <2>3, <2>12 DEF new
    <3>3. ErrorsOf(u)' = ErrorsOf(u) \cup {m + 1} /\ m + 1 \notin ErrorsOf(u)
      BY <1>3, <2>3, <2>4, <3>2 DEF ErrorsOf
    <3>4. WaitsOf(u)' = WaitsOf(u) \cup {m + 1} /\ m + 1 \notin WaitsOf(u)
      BY <2>3, <2>4, <2>7, <2>9, <3>2 DEF WaitsOf
    <3>5. IsFiniteSet(ErrorsOf(u)) /\ IsFiniteSet(WaitsOf(u))
      BY QueueFacts DEF SummaryInv
    <3> QED
      BY <1>4, <3>1, <3>3, <3>4, <3>5, FS_AddElement
  <2>13. \A u : ErrorsOf(u) \subseteq ErrorsOf(u)'
    <3>1. \A e \in DOMAIN errors : e \in DOMAIN errors' /\ errors'[e] = errors[e]
      BY <1>3, <2>3, <2>4
    <3> QED
      BY <3>1 DEF ErrorsOf
  <2>14. \A u : Cardinality(ErrorsOf(u)) \in Nat /\ Cardinality(WaitsOf(u)) \in Nat
    BY QueueFacts DEF SummaryInv
  <2>15. ASSUME NEW u
         PROVE  /\ Cardinality(ErrorsOf(u)') = Cardinality(FailuresOf(u)')
                /\ Count(u)' \in Nat /\ Count(u)' + Cardinality(WaitsOf(u)') = Cardinality(ErrorsOf(u)')
    <3>1. /\ Cardinality(ErrorsOf(u)) = Cardinality(FailuresOf(u))
          /\ Count(u) \in Nat /\ Count(u) + Cardinality(WaitsOf(u)) = Cardinality(ErrorsOf(u))
      BY DEF SummaryInv, CountInv
    <3>2. CASE u = r.action
      BY <2>10, <2>12, <2>14, <3>1, <3>2
    <3>3. CASE u # r.action
      BY <2>10, <2>11, <3>1, <3>3
    <3> QED
      BY <3>2, <3>3
  <2>16. \A u \in DOMAIN summaries' : summaries'[u].text \in ErrorsOf(u)'
    BY <1>3, <2>13 DEF SummaryInv, CountInv
  <2> QED
    BY <1>1, <2>6, <2>15, <2>16 DEF SummaryInv, CountInv
<1> QED
  BY <1>6, <1>7

(* What the drain keeps back goes on waiting; what it merges is counted.   *)
LEMMA DrainKeeps ==
  ASSUME SummaryInv, KeepPending \/ Merge
  PROVE  SummaryInv'
<1> DEFINE h == Head(left)
           p == Len(pending)
           l == Len(left)
<1>1. left # <<>> /\ left' = Tail(left) /\ draining /\ UNCHANGED <<traceVars, errors, draining, closed>>
  BY DEF KeepPending, Merge
<1>2. /\ pending \in Seq(DOMAIN errors) /\ left \in Seq(DOMAIN errors)
      /\ DOMAIN errors = 1..Len(errors) /\ Len(errors) \in Nat
  BY QueueFacts DEF SummaryInv, QueueInv
<1>3. /\ p \in Nat /\ l \in Nat \ {0} /\ DOMAIN pending = 1..p /\ DOMAIN left = 1..l
      /\ h = left[1] /\ h \in DOMAIN errors /\ h \in Nat
      /\ left' \in Seq(DOMAIN errors) /\ DOMAIN left' = 1..(l - 1)
      /\ \A i \in 1..(l - 1) : i + 1 \in 1..l /\ left'[i] = left[i + 1]
  BY <1>1, <1>2
<1>4. /\ \A i \in 1..p : pending[i] \in Nat
      /\ \A i \in 1..l : left[i] \in Nat
  BY <1>2, <1>3
<1>5. /\ \A i, j \in 1..p : i < j => pending[i] < pending[j]
      /\ \A i, j \in 1..l : i < j => left[i] < left[j]
      /\ \A i \in 1..p, j \in 1..l : pending[i] < left[j]
  BY <1>3 DEF SummaryInv, QueueInv, Climbs
<1> HIDE DEF h, p, l
<1>6. Climbs(left)' /\ \A i \in 1..(l - 1) : h < left'[i]
  <2>1. \A i, j \in 1..(l - 1) : i < j => left'[i] < left'[j]
    BY <1>3, <1>5
  <2>2. \A i \in 1..(l - 1) : h < left'[i]
    BY <1>3, <1>5
  <2> QED
    BY <1>3, <2>1, <2>2 DEF Climbs
<1>7. \A e : e \in Waiting <=> \/ \E i \in 1..p : pending[i] = e
                               \/ e = h
                               \/ \E i \in 1..(l - 1) : left'[i] = e
  <2>1. \A i \in 1..l : i = 1 \/ \E j \in 1..(l - 1) : i = j + 1
    BY <1>3
  <2>2. \A e : e \in Waiting <=> (\E i \in 1..p : pending[i] = e) \/ (\E i \in 1..l : left[i] = e)
    BY <1>3 DEF Waiting
  <2>3. 1 \in 1..l
    BY <1>3
  <2>4. \A e : (\E i \in 1..l : left[i] = e) <=> e = h \/ \E i \in 1..(l - 1) : left'[i] = e
    <3>1. ASSUME NEW i \in 1..l
          PROVE  left[i] = h \/ \E j \in 1..(l - 1) : left'[j] = left[i]
      BY <1>3, <2>1
    <3>2. \A j \in 1..(l - 1) : \E i \in 1..l : left[i] = left'[j]
      BY <1>3
    <3> QED
      BY <1>3, <2>3, <3>1, <3>2
  <2> QED
    BY <2>2, <2>4
<1>8. TraceInv'
  BY <1>1 DEF SummaryInv, TraceInv, traceVars, WonAt, LostAt
<1>9. \A u : ErrorsOf(u)' = ErrorsOf(u) /\ FailuresOf(u)' = FailuresOf(u)
  BY <1>1 DEF ErrorsOf, FailuresOf, traceVars
<1>10. CASE KeepPending
  <2>1. pending' = Append(pending, h) /\ summaries' = summaries
    BY <1>10 DEF KeepPending, h
  <2>2. /\ pending' \in Seq(DOMAIN errors) /\ DOMAIN pending' = 1..(p + 1) /\ pending'[p + 1] = h
        /\ \A i \in 1..p : pending'[i] = pending[i]
    BY <1>2, <1>3, <2>1 DEF p
  <2>3. QueueInv'
    <3>1. \A i, j \in 1..(p + 1) : i < j => pending'[i] < pending'[j]
      <4>1. \A i \in 1..p : pending[i] < h
        BY <1>3, <1>5
      <4>2. \A i, j \in 1..(p + 1) : i < j => i \in 1..p /\ (j \in 1..p \/ j = p + 1)
        BY <1>3
      <4> QED
        BY <1>5, <2>2, <4>1, <4>2
    <3>2. \A i \in 1..(p + 1), j \in 1..(l - 1) : pending'[i] < left'[j]
      <4>1. \A i \in 1..(p + 1) : i \in 1..p \/ i = p + 1
        BY <1>3
      <4>2. \A i \in 1..p, j \in 1..(l - 1) : pending[i] < left'[j]
        BY <1>3, <1>5
      <4> QED
        BY <1>6, <2>2, <4>1, <4>2
    <3> QED
      BY <1>1, <1>3, <1>6, <2>2, <3>1, <3>2 DEF SummaryInv, QueueInv, Climbs
  <2>4. Waiting' = Waiting
    <3>1. \A e : e \in Waiting' <=> (\E i \in 1..(p + 1) : pending'[i] = e) \/ (\E i \in 1..(l - 1) : left'[i] = e)
      BY <1>3, <2>2 DEF Waiting
    <3>2. \A i : i \in 1..(p + 1) <=> i \in 1..p \/ i = p + 1
      BY <1>3
    <3> QED
      BY <1>7, <2>2, <3>1, <3>2
  <2>5. \A u : WaitsOf(u)' = WaitsOf(u) /\ Count(u)' = Count(u)
    BY <1>1, <2>1, <2>4 DEF WaitsOf, Count
  <2> QED
    BY <1>8, <1>9, <2>1, <2>3, <2>5 DEF SummaryInv, CountInv
<1>11. CASE Merge
  <2>1. PICK k : k = errors[h].key
    OBVIOUS
  <2>2. /\ pending' = pending
        /\ summaries' = [q \in DOMAIN summaries \cup {k} |->
             IF q = k THEN [text |-> h, count |-> Count(k) + 1] ELSE summaries[q]]
    BY <1>11, <2>1 DEF Merge, h
  <2>3. QueueInv'
    <3>1. \A i \in 1..p, j \in 1..(l - 1) : pending'[i] < left'[j]
      BY <1>3, <1>5, <2>2
    <3> QED
      BY <1>1, <1>2, <1>3, <1>6, <2>2, <3>1 DEF SummaryInv, QueueInv, Climbs
  <2>4. Waiting' = Waiting \ {h} /\ h \in Waiting
    <3>1. \A e : e \in Waiting' <=> (\E i \in 1..p : pending[i] = e) \/ (\E i \in 1..(l - 1) : left'[i] = e)
      BY <1>3, <2>2 DEF Waiting
    <3>2. (\A i \in 1..p : pending[i] # h) /\ (\A i \in 1..(l - 1) : left'[i] # h)
      <4>1. \A i \in 1..p : pending[i] < h
        BY <1>3, <1>5
      <4>2. \A i \in 1..(l - 1) : left'[i] \in Nat
        BY <1>3, <1>4
      <4> QED
        BY <1>3, <1>4, <1>6, <4>1, <4>2
    <3> QED
      BY <1>7, <3>1, <3>2
  <2>5. /\ Count(k)' = Count(k) + 1 /\ k \in DOMAIN summaries' /\ summaries'[k].text = h
        /\ \A u : u # k => Count(u)' = Count(u)
        /\ \A u \in DOMAIN summaries' : u # k => u \in DOMAIN summaries /\ summaries'[u] = summaries[u]
    BY <2>2 DEF Count
  <2>6. ASSUME NEW u
        PROVE  Count(u)' \in Nat /\ Count(u)' + Cardinality(WaitsOf(u)') = Cardinality(ErrorsOf(u)')
    <3>1. Count(u) \in Nat /\ Count(u) + Cardinality(WaitsOf(u)) = Cardinality(ErrorsOf(u))
      BY DEF SummaryInv, CountInv
    <3>2. CASE u # k
      <4>1. WaitsOf(u)' = WaitsOf(u)
        BY <1>1, <2>4, <2>1, <3>2 DEF WaitsOf
      <4> QED
        BY <1>9, <2>5, <3>1, <3>2, <4>1
    <3>3. CASE u = k
      <4>1. WaitsOf(u)' = WaitsOf(u) \ {h} /\ h \in WaitsOf(u)
        BY <1>1, <2>4, <2>1, <3>3 DEF WaitsOf
      <4>2. IsFiniteSet(WaitsOf(u)) /\ Cardinality(WaitsOf(u)) \in Nat
        BY QueueFacts DEF SummaryInv
      <4>3. Cardinality(WaitsOf(u)') = Cardinality(WaitsOf(u)) - 1
        BY <4>1, <4>2, FS_RemoveElement
      <4> QED
        BY <1>9, <2>5, <3>1, <3>3, <4>2, <4>3
    <3> QED
      BY <3>2, <3>3
  <2>7. h \in ErrorsOf(k)
    BY <1>3, <2>1 DEF ErrorsOf
  <2>8. \A u \in DOMAIN summaries' : summaries'[u].text \in ErrorsOf(u)'
    BY <1>9, <2>5, <2>7 DEF SummaryInv, CountInv
  <2> QED
    BY <1>8, <1>9, <2>3, <2>6, <2>8 DEF SummaryInv, CountInv
<1> QED
  BY <1>10, <1>11

(* The pool's workers only change how far an error has come.               *)
LEMMA WorkersKeep ==
  ASSUME SummaryInv, NEW e \in DOMAIN errors, NEW to \in {"running", "done"}, SetStatus(e, to)
  PROVE  SummaryInv'
<1>1. /\ errors' = [errors EXCEPT ![e].status = to]
      /\ UNCHANGED <<edges, log, pending, summaries, draining, left, closed>>
  BY DEF SetStatus, traceVars
<1>2. errors \in Seq(Error) /\ errors[e] \in Error /\ Len(errors) \in Nat /\ DOMAIN errors = 1..Len(errors)
  BY QueueFacts DEF SummaryInv, QueueInv
<1> DEFINE changed == [errors[e] EXCEPT !.status = to]
<1>3. changed \in Error /\ changed.key = errors[e].key
  BY <1>2 DEF Error
<1>4. errors' = [errors EXCEPT ![e] = changed]
  BY <1>1
<1> HIDE DEF changed
<1>5. /\ errors' \in Seq(Error) /\ DOMAIN errors' = DOMAIN errors
      /\ \A d \in DOMAIN errors : errors'[d].key = errors[d].key
  BY <1>2, <1>3, <1>4
<1>6. QueueInv'
  BY <1>1, <1>5 DEF SummaryInv, QueueInv, Climbs
<1>7. TraceInv' /\ \A u : FailuresOf(u)' = FailuresOf(u) /\ Count(u)' = Count(u)
  BY <1>1 DEF SummaryInv, TraceInv, WonAt, LostAt, FailuresOf, Count
<1>8. Waiting' = Waiting /\ Waiting \subseteq DOMAIN errors
  BY <1>1, QueueFacts DEF SummaryInv, Waiting
<1>9. \A u : ErrorsOf(u)' = ErrorsOf(u) /\ WaitsOf(u)' = WaitsOf(u)
  BY <1>5, <1>8 DEF ErrorsOf, WaitsOf
<1> QED
  BY <1>1, <1>6, <1>7, <1>9 DEF SummaryInv, CountInv

LEMMA SummariesStart ==
  ASSUME SummariesInit
  PROVE  SummaryInv
<1>1. /\ edges = <<>> /\ log = <<>> /\ errors = <<>> /\ pending = <<>> /\ summaries = <<>> /\ left = <<>>
      /\ draining = FALSE
  BY DEF SummariesInit, TraceInit
<1>2. TraceInv
  BY <1>1 DEF TraceInv
<1>3. QueueInv
  <2>1. errors \in Seq(Error) /\ pending \in Seq(DOMAIN errors) /\ left \in Seq(DOMAIN errors)
    BY <1>1
  <2>2. DOMAIN pending = {} /\ DOMAIN left = {}
    BY <1>1
  <2>3. draining \in BOOLEAN /\ (~draining => left = <<>>)
    BY <1>1
  <2> QED
    BY <2>1, <2>2, <2>3 DEF QueueInv, Climbs
<1>4. \A u : ErrorsOf(u) = {} /\ WaitsOf(u) = {} /\ FailuresOf(u) = {} /\ Count(u) = 0
  BY <1>1 DEF ErrorsOf, WaitsOf, Waiting, FailuresOf, Count
<1>5. CountInv
  <2>1. Cardinality({}) = 0 /\ DOMAIN summaries = {}
    BY <1>1, FS_EmptySet
  <2>2. \A u : /\ Cardinality(ErrorsOf(u)) = 0 /\ Cardinality(FailuresOf(u)) = 0
               /\ Cardinality(WaitsOf(u)) = 0 /\ Count(u) = 0
    BY <1>4, <2>1
  <2>3. \A u : Cardinality(ErrorsOf(u)) = Cardinality(FailuresOf(u)) /\ Count(u) \in Nat
               /\ Count(u) + Cardinality(WaitsOf(u)) = Cardinality(ErrorsOf(u))
    BY <2>2
  <2> QED
    BY <2>1, <2>3 DEF CountInv
<1> QED
  BY <1>2, <1>3, <1>5 DEF SummaryInv

LEMMA SummariesStep ==
  ASSUME SummaryInv, [SummariesNext]_orchestratorVars
  PROVE  SummaryInv'
<1>1. ASSUME NEW r \in Records, Run(r)
      PROVE  SummaryInv'
  BY <1>1, RunKeeps
<1>2. ASSUME KeepPending \/ Merge
      PROVE  SummaryInv'
  BY <1>2, DrainKeeps
<1>3. CASE Drained \/ Close \/ UNCHANGED orchestratorVars
  <2>1. /\ UNCHANGED <<edges, log, errors, pending, summaries, left>>
        /\ draining' = draining \/ (draining' = FALSE /\ left = <<>>)
    BY <1>3 DEF Drained, Close, orchestratorVars, queueVars, traceVars
  <2>2. TraceInv'
    BY <2>1 DEF SummaryInv, TraceInv, WonAt, LostAt
  <2>3. Waiting' = Waiting
    BY <2>1 DEF Waiting
  <2>4. \A u : /\ FailuresOf(u)' = FailuresOf(u) /\ ErrorsOf(u)' = ErrorsOf(u)
               /\ WaitsOf(u)' = WaitsOf(u) /\ Count(u)' = Count(u)
    BY <2>1, <2>3 DEF FailuresOf, ErrorsOf, WaitsOf, Count
  <2>5. CountInv'
    BY <2>1, <2>4 DEF SummaryInv, CountInv
  <2>6. QueueInv'
    BY <2>1 DEF SummaryInv, QueueInv, Climbs
  <2> QED
    BY <2>2, <2>5, <2>6 DEF SummaryInv
<1>4. ASSUME NEW e \in DOMAIN errors, Summarize(e) \/ Summarized(e)
      PROVE  SummaryInv'
  <2>1. PICK to \in {"running", "done"} : SetStatus(e, to)
    BY <1>4 DEF Summarize, Summarized
  <2> QED
    BY <2>1, WorkersKeep
<1> QED
  BY <1>1, <1>2, <1>3, <1>4 DEF SummariesNext

LEMMA CountedFromInv ==
  ASSUME SummaryInv
  PROVE  SummariesCounted
<1> DEFINE Failures(u) == {key \in DOMAIN edges : key.action = u /\ key.target = Failure}
           queue == pending \o left
<1>1. ASSUME NEW u
      PROVE  Observations(Failures(u)) = Count(u) + Cardinality(WaitsOf(u))
  <2>1. {i \in DOMAIN log : Key(log[i]) \in Failures(u)} = FailuresOf(u)
    BY DEF SummaryInv, TraceInv, FailuresOf, Key
  <2>2. Failures(u) \in SUBSET DOMAIN edges
    OBVIOUS
  <2> HIDE DEF Failures
  <2>3. Observations(Failures(u)) = Cardinality({i \in DOMAIN log : Key(log[i]) \in Failures(u)})
    BY <2>2, SumsCountTheLog DEF SummaryInv
  <2> QED
    BY <2>1, <2>3 DEF SummaryInv, CountInv
<1>2. \A i, j \in DOMAIN queue : i < j => queue[i] < queue[j]
  <2> DEFINE p == Len(pending)
             l == Len(left)
  <2>1. /\ p \in Nat /\ l \in Nat /\ DOMAIN pending = 1..p /\ DOMAIN left = 1..l /\ DOMAIN queue = 1..(p + l)
        /\ \A i \in 1..(p + l) : queue[i] = IF i <= p THEN pending[i] ELSE left[i - p]
    BY DEF SummaryInv, QueueInv
  <2>2. /\ \A i, j \in 1..p : i < j => pending[i] < pending[j]
        /\ \A i, j \in 1..l : i < j => left[i] < left[j]
        /\ \A i \in 1..p, j \in 1..l : pending[i] < left[j]
    BY <2>1 DEF SummaryInv, QueueInv, Climbs
  <2> HIDE DEF p, l, queue
  <2> SUFFICES ASSUME NEW i \in 1..(p + l), NEW j \in 1..(p + l), i < j
               PROVE  queue[i] < queue[j]
    BY <2>1
  <2>3. CASE j <= p
    BY <2>1, <2>2, <2>3
  <2>4. CASE i <= p /\ j > p
    <3>1. i \in 1..p /\ j - p \in 1..l
      BY <2>1, <2>4
    <3>2. queue[i] = pending[i] /\ queue[j] = left[j - p]
      BY <2>1, <2>4
    <3> QED
      BY <2>2, <3>1, <3>2
  <2>5. CASE i > p
    <3>1. i - p \in 1..l /\ j - p \in 1..l /\ i - p < j - p
      BY <2>1, <2>5
    <3>2. queue[i] = left[i - p] /\ queue[j] = left[j - p]
      BY <2>1, <2>5
    <3> QED
      BY <2>2, <3>1, <3>2
  <2> QED
    BY <2>1, <2>3, <2>4, <2>5
<1>3. \A key \in DOMAIN summaries : errors[summaries[key].text].key = key
  BY DEF SummaryInv, CountInv, ErrorsOf
<1> QED
  BY <1>1, <1>2, <1>3 DEF SummariesCounted, WaitsOf

(* However its workers race with the drain, every failure the trace counts *)
(* is summed up or waits to be, once and in its order (the queue of the    *)
(* orchestrator).                                                          *)
THEOREM FailuresAreCountedOnce == SummariesSpec => []SummariesCounted
<1>1. SummariesInit => SummaryInv
  BY SummariesStart
<1>2. SummaryInv /\ [SummariesNext]_orchestratorVars => SummaryInv'
  BY SummariesStep
<1>3. SummaryInv => SummariesCounted
  BY CountedFromInv
<1> QED
  BY <1>1, <1>2, <1>3, PTL DEF SummariesSpec

(* The compiled rules say what the history of their actions says, and none *)
(* is left out (compile_stable).                                           *)
THEOREM RulesAreSound == SummariesSpec => []RulesSound
<1>1. SummariesInit => SummaryInv
  BY SummariesStart
<1>2. SummaryInv /\ [SummariesNext]_orchestratorVars => SummaryInv'
  BY SummariesStep
<1>3. SummaryInv => RulesSound
  BY RulesFromTrace DEF SummaryInv
<1> QED
  BY <1>1, <1>2, <1>3, PTL DEF SummariesSpec
=============================================================================
