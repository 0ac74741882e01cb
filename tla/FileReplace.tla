----------------------------- MODULE FileReplace -----------------------------
(***************************************************************************)
(* file.replace_text of src/jev_tools/catalog.py beside file.write and     *)
(* json.write: several workers change one file.  Replacements of one       *)
(* process hold a lock for its path; writes hold none, and other processes *)
(* have locks of their own.                                                *)
(*                                                                         *)
(* A content is the set of the edits in it; Torn is in it while a write is *)
(* under way, or has died.                                                 *)
(***************************************************************************)
EXTENDS Naturals, FiniteSets

CONSTANTS
  Replacer,   \* the workers that replace text
  Writer,     \* the workers that write the whole file
  Process,    \* the processes
  ProcessOf,  \* worker -> its process
  Torn,       \* marks a file that was truncated and is not yet written
  NoWorker,   \* nobody
  MaxRequests, \* bound on the calls of these tools
  MaxCrashes  \* bound on crashes

Worker == Replacer \cup Writer

ASSUME ReplaceAssumption ==
  /\ ProcessOf \in [Worker -> Process]
  /\ Replacer \cap Writer = {}
  /\ NoWorker \notin Worker
  /\ Torn \notin Worker
  /\ MaxRequests \in Nat /\ MaxCrashes \in Nat

VARIABLES
  content,   \* of the file
  lock,      \* process -> the holder of its lock for the path
  at,        \* worker -> where it is
  expected,  \* replacer -> the content its caller has seen and expects
  temps,     \* the replacers whose temporary file exists
  overwritten, \* the replacers that somebody without their lock wrote behind
  requests,  \* the calls so far
  crashes

counts == <<requests, crashes>>
fileVars == <<content, lock, at, expected, temps, overwritten, counts>>

FileInit ==
  /\ content = {}
  /\ lock = [p \in Process |-> NoWorker]
  /\ at = [w \in Worker |-> "ready"]
  /\ expected = [w \in Replacer |-> {}]
  /\ temps = {} /\ overwritten = {}
  /\ requests = 0 /\ crashes = 0

MyLock(w) == lock[ProcessOf[w]]
Go(w, phase) == at' = [at EXCEPT ![w] = phase]
Release(w) == lock' = [lock EXCEPT ![ProcessOf[w]] = NoWorker]
CountRequest == requests < MaxRequests /\ requests' = requests + 1 /\ UNCHANGED crashes
Rechecked == {w \in Replacer : at[w] \in {"checked", "written"}}

-----------------------------------------------------------------------------
(* file.replace_text *)

(* The caller has read the file, and asks for a replacement of just that.  *)
Request(w) ==
  /\ at[w] = "ready" /\ CountRequest
  /\ expected' = [expected EXCEPT ![w] = content]
  /\ Go(w, "waiting")
  /\ UNCHANGED <<content, lock, temps, overwritten>>

\* Mutant: replacements do not wait for each other.
AcquireFreely(w) ==
  /\ at[w] = "waiting"
  /\ lock' = [lock EXCEPT ![ProcessOf[w]] = w]
  /\ Go(w, "locked")
  /\ UNCHANGED <<content, expected, temps, overwritten, counts>>

Acquire(w) ==
  /\ at[w] = "waiting" /\ MyLock(w) = NoWorker
  /\ lock' = [lock EXCEPT ![ProcessOf[w]] = w]
  /\ Go(w, "locked")
  /\ UNCHANGED <<content, expected, temps, overwritten, counts>>

(* The content is read once and compared with what is expected.            *)
Read(w) ==
  /\ at[w] = "locked" /\ content = expected[w]
  /\ Go(w, "prepared")
  /\ UNCHANGED <<content, lock, expected, temps, overwritten, counts>>

\* Mutant: the digest is not compared a second time.
RecheckAnything(w) ==
  /\ at[w] = "prepared"
  /\ overwritten' = overwritten \ {w}
  /\ Go(w, "checked")
  /\ UNCHANGED <<content, lock, expected, temps, counts>>

(* The digest of the file is compared again once the new text is ready.    *)
Recheck(w) ==
  /\ at[w] = "prepared" /\ content = expected[w]
  /\ overwritten' = overwritten \ {w}
  /\ Go(w, "checked")
  /\ UNCHANGED <<content, lock, expected, temps, counts>>

(* Another content, a wrong number of occurrences, text that is not UTF-8  *)
(* or too large: any of them ends the call.                                *)
Refuse(w) ==
  /\ at[w] \in {"locked", "prepared"}
  /\ Release(w) /\ Go(w, "ready")
  /\ UNCHANGED <<content, expected, temps, overwritten, counts>>

WriteTemp(w) ==
  /\ at[w] = "checked"
  /\ temps' = temps \cup {w}
  /\ Go(w, "written")
  /\ UNCHANGED <<content, lock, expected, overwritten, counts>>

(* os.replace: the path names the new file from now on, and whoever has    *)
(* the old one open for writing goes on with a file without a name.        *)
Install(w) ==
  /\ at[w] = "written"
  /\ content' = expected[w] \cup {w}
  /\ temps' = temps \ {w}
  /\ overwritten' = overwritten \cup {v \in Rechecked : ProcessOf[v] # ProcessOf[w]}
  /\ Release(w)
  /\ at' = [v \in Worker |-> IF v = w THEN "ready"
                            ELSE IF at[v] = "writing" THEN "orphaned" ELSE at[v]]
  /\ UNCHANGED <<expected, counts>>

\* Mutant: the temporary file stays when the replacement fails.
WriteFailsUnclean(w) ==
  /\ w \in Rechecked
  /\ Release(w) /\ Go(w, "ready")
  /\ UNCHANGED <<content, expected, temps, overwritten, counts>>

(* Writing, syncing or renaming fails: finally removes the file. *)
WriteFails(w) ==
  /\ w \in Rechecked
  /\ temps' = temps \ {w}
  /\ Release(w) /\ Go(w, "ready")
  /\ UNCHANGED <<content, expected, overwritten, counts>>

Replace(w) ==
  \/ Acquire(w) \/ Read(w) \/ Recheck(w) \/ Refuse(w)
  \/ WriteTemp(w) \/ Install(w) \/ WriteFails(w)

-----------------------------------------------------------------------------
(* file.write and json.write truncate the file and write it. *)

Disturb == overwritten' = overwritten \cup Rechecked

BeginWrite(w) ==
  /\ at[w] = "ready" /\ CountRequest
  /\ content' = {Torn}
  /\ Disturb
  /\ Go(w, "writing")
  /\ UNCHANGED <<lock, expected, temps>>

EndWrite(w) ==
  /\ at[w] = "writing"
  /\ content' = {w}
  /\ Disturb
  /\ Go(w, "ready")
  /\ UNCHANGED <<lock, expected, temps, counts>>

(* The file this writer truncated has been replaced under it: its text is  *)
(* lost with that file.                                                    *)
EndOrphanedWrite(w) ==
  /\ at[w] = "orphaned"
  /\ Go(w, "ready")
  /\ UNCHANGED <<content, lock, expected, temps, overwritten, counts>>

-----------------------------------------------------------------------------
(* A process dies with its threads and its locks; its files stay.          *)
Crash(p) ==
  /\ crashes < MaxCrashes
  /\ crashes' = crashes + 1
  /\ at' = [w \in Worker |-> IF ProcessOf[w] = p THEN "ready" ELSE at[w]]
  /\ lock' = [lock EXCEPT ![p] = NoWorker]
  /\ UNCHANGED <<content, expected, temps, overwritten, requests>>

FileNext ==
  \/ \E w \in Replacer : Request(w) \/ Replace(w)
  \/ \E w \in Writer : BeginWrite(w) \/ EndWrite(w) \/ EndOrphanedWrite(w)
  \/ \E p \in Process : Crash(p)

FileSpec == FileInit /\ [][FileNext]_fileVars

-----------------------------------------------------------------------------
(* Properties *)

(* A replacement takes the place of exactly the content its caller has     *)
(* seen, so no other edit is lost, except one that somebody who does not   *)
(* share its lock makes in the window after the second comparison.         *)
ReplacesWhatWasSeen ==
  [][\A w \in Replacer : Install(w) => content = expected[w] \/ w \in overwritten]_fileVars

(* A temporary file is left behind by nobody but a process that died.      *)
TempsCleaned == crashes = 0 => \A w \in temps : at[w] = "written"
=============================================================================
