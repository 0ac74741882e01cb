---------------------------- MODULE MCBackground ----------------------------
(***************************************************************************)
(* The components that work in the background of a decision, each with     *)
(* threads, tasks or processes of its own, side by side: a behaviour is    *)
(* one of the part that its initial state names, and the others rest.      *)
(***************************************************************************)
EXTENDS Speculation, RevisionPrefetch, ErrorSummaries, FileReplace, ShellRun

CONSTANTS a, b, c, d, r1, r2, r3, w1, p1, p2

Listing(order, text) == [order |-> order, body |-> [o \in {order[i] : i \in DOMAIN order} |-> text]]
MCContents == {Listing(<<a>>, "v1"), Listing(<<a>>, "v2"), Listing(<<b, c, d>>, "v1")}

MCRecords ==
  {[action |-> "act", target |-> t, context |-> "now", success |-> TRUE] : t \in {"here", "there"}}
    \cup {[action |-> "act", target |-> "execution_failed", context |-> n, success |-> FALSE] : n \in {"now", "then"}}
    \cup {[action |-> "other", target |-> "execution_failed", context |-> "now", success |-> FALSE]}

MCProcessOf == [w \in {r1, r2, r3, w1} |-> IF w = r3 THEN p2 ELSE p1]

VARIABLE part

Parts == {"speculation", "prefetch", "summaries", "file", "shell"}
allVars == <<part, specVars, prefetchVars, orchestratorVars, fileVars, shellVars>>

Init ==
  /\ part \in Parts
  /\ BufferInit /\ PrefetchInit /\ SummariesInit /\ FileInit /\ ShellInit

Speculating == part = "speculation" /\ SpeculationNext
  /\ UNCHANGED <<part, prefetchVars, orchestratorVars, fileVars, shellVars>>
Prefetching == part = "prefetch" /\ PrefetchNext
  /\ UNCHANGED <<part, specVars, orchestratorVars, fileVars, shellVars>>
Summarizing == part = "summaries" /\ SummariesNext
  /\ UNCHANGED <<part, specVars, prefetchVars, fileVars, shellVars>>
Replacing == part = "file" /\ FileNext
  /\ UNCHANGED <<part, specVars, prefetchVars, orchestratorVars, shellVars>>
RunningShell == part = "shell" /\ ShellNext
  /\ UNCHANGED <<part, specVars, prefetchVars, orchestratorVars, fileVars>>

(* The queue is closed; nobody asks for another edit; the command and all  *)
(* it started have ended.                                                  *)
Over ==
  /\ \/ part = "summaries" /\ closed
     \/ part = "file" /\ requests = MaxRequests /\ \A w \in Worker : at[w] = "ready"
     \/ part = "shell" /\ call = "returned" /\ Alive = {} /\ reading = {}
  /\ UNCHANGED allVars

Next == Speculating \/ Prefetching \/ Summarizing \/ Replacing \/ RunningShell \/ Over

(* The fairness of each part, while it is the one that runs. *)
Fairness ==
  /\ WF_specVars(part = "speculation" /\ Collect) /\ WF_specVars(part = "speculation" /\ Expire)
  /\ \A k \in Caller : WF_prefetchVars(part = "prefetch" /\ Resume(k))
  /\ \A j \in 1..MaxTasks : WF_prefetchVars(part = "prefetch" /\ j \in DOMAIN jobs /\ JobStops(j))
  /\ WF_shellVars(part = "shell" /\ Collecting)
  /\ \A q \in Pipe : WF_shellVars(part = "shell" /\ Reader(q))

BackgroundSpec == Init /\ [][Next]_allVars /\ Fairness

-----------------------------------------------------------------------------
(* Whoever waits gets an answer, although workers, tasks and descendants   *)
(* may hang: a wait with a timeout, a cancel, a command with its timeout.  *)
WaitsEnd ==
  /\ TimedAwaitReturns
  /\ CancelReturns
  /\ part = "shell" => ShellReturns
=============================================================================
