----------------------------- MODULE Speculation -----------------------------
(***************************************************************************)
(* SpeculationBuffer (src/jev_agent/speculation.py) over the option        *)
(* manager: pages are prepared in the shadow of the resident set while the *)
(* decision model makes up its mind, and promoted once it has.             *)
(*                                                                         *)
(* One thread owns the buffer.  The pool's workers prepare pages beside    *)
(* it, and while it waits for them other callers of the manager register,  *)
(* invalidate and page in.                                                 *)
(***************************************************************************)
EXTENDS VirtualOption

CONSTANTS
  MaxShadows,       \* max_pages of the buffer
  MaxShadowOptions, \* max_options of the buffer
  MaxBase           \* bound on the revisions of the task

ASSUME SpeculationAssumption ==
  /\ MaxShadows \in Nat \ {0}
  /\ MaxShadowOptions \in Nat \ {0}
  /\ MaxBase \in Nat \ {0}
  /\ IsFiniteSet(OptionId)

VARIABLES
  task,     \* the revision of the task, which callers pass in
  shadows,  \* _pages: page id -> [base, revision, options]
  futures,  \* the futures of _pending or, during await_materialization, of its local list
  await     \* "no", "blocking", "timed" or "expired": await_materialization and its deadline

bufferVars == <<task, shadows, futures, await>>
specVars == <<optionVars, bufferVars>>

Prepared == DOMAIN shadows
Free == await = "no"

BufferInit ==
  /\ OptionInit
  /\ task = 1
  /\ shadows = <<>>
  /\ futures = <<>>
  /\ await = "no"

(* How many options of page p a limit lets through; no limit is one that   *)
(* is large enough.                                                        *)
Limits == 1..Cardinality(OptionId)
Taken(p, limit) ==
  IF limit < Len(pages[p].content.order) THEN limit ELSE Len(pages[p].content.order)

OptionAt(c, i) == [id |-> c.order[i], body |-> c.body[c.order[i]]]

(* A copy of the first options of page p, made for the current task.       *)
Snapshot(p, limit) ==
  [base |-> task, revision |-> pages[p].revision,
   options |-> [i \in 1..Taken(p, limit) |-> OptionAt(pages[p].content, i)]]

Without(p) == [q \in Prepared \ {p} |-> shadows[q]]

-----------------------------------------------------------------------------
(* Preparation *)

Clear ==
  /\ Free
  /\ futures' = <<>>
  /\ shadows' = <<>>
  /\ UNCHANGED <<optionVars, task, await>>

(* prefetch: P are the pages that are known and fit.  When prepare_cost_ms *)
(* raises, P are the pages before it.                                      *)
Prefetch(P, limit) ==
  /\ Free
  /\ P \subseteq Registered /\ Cardinality(P) <= MaxShadows
  /\ \A p \in P : Taken(p, limit) <= MaxShadowOptions
  /\ futures' = <<>>
  /\ shadows' = [p \in P |-> Snapshot(p, limit)]
  /\ UNCHANGED <<optionVars, task, await>>

\* Mutant: the shadows of the previous prefetch stay.
PrefetchAsyncKeeps(ranked, limit) ==
  /\ Free
  /\ \A i \in DOMAIN ranked : ranked[i] \in Registered
  /\ futures' = [i \in DOMAIN ranked |->
        [page |-> ranked[i], shadow |-> Snapshot(ranked[i], limit), status |-> "running"]]
  /\ UNCHANGED <<optionVars, task, await, shadows>>

(* prefetch_async: the pages are copied now and prepared by the pool.      *)
PrefetchAsync(ranked, limit) ==
  /\ Free
  /\ \A i \in DOMAIN ranked : ranked[i] \in Registered
  /\ futures' = [i \in DOMAIN ranked |->
        [page |-> ranked[i], shadow |-> Snapshot(ranked[i], limit), status |-> "running"]]
  /\ shadows' = <<>>
  /\ UNCHANGED <<optionVars, task, await>>

(* A worker is done with a page: prepared, too large, or the cost function *)
(* raised.                                                                 *)
Finish(i, status) ==
  /\ futures[i].status = "running"
  /\ status = "done" => Len(futures[i].shadow.options) <= MaxShadowOptions
  /\ futures' = [futures EXCEPT ![i].status = status]
  /\ UNCHANGED <<optionVars, task, shadows, await>>

-----------------------------------------------------------------------------
(* await_materialization takes the futures in the order of submission.     *)

BeginAwait(mode) ==
  /\ Free
  /\ await' = mode
  /\ UNCHANGED <<optionVars, task, shadows, futures>>

Awaiting == ~Free /\ futures # <<>>

CollectPrepared ==
  /\ Awaiting /\ Head(futures).status = "done"
  /\ LET p == Head(futures).page
     IN shadows' = [q \in Prepared \cup {p} |-> IF q = p THEN Head(futures).shadow ELSE shadows[q]]
  /\ futures' = Tail(futures)
  /\ UNCHANGED <<optionVars, task, await>>

\* Mutant: nobody gives up on a worker that is late.
CollectFailedOnly ==
  /\ Awaiting /\ Head(futures).status = "failed"
  /\ futures' = Tail(futures)
  /\ UNCHANGED <<optionVars, task, shadows, await>>

(* The worker failed, or it is late: its result will go nowhere.           *)
CollectFailed ==
  /\ Awaiting
  /\ \/ Head(futures).status = "failed"
     \/ Head(futures).status = "running" /\ await = "expired"
  /\ futures' = Tail(futures)
  /\ UNCHANGED <<optionVars, task, shadows, await>>

Expire ==
  /\ await = "timed"
  /\ await' = "expired"
  /\ UNCHANGED <<optionVars, task, shadows, futures>>

EndAwait ==
  /\ ~Free /\ futures = <<>>
  /\ await' = "no"
  /\ UNCHANGED <<optionVars, task, shadows, futures>>

-----------------------------------------------------------------------------
(* promote *)

SamePage(p) == p \in Registered /\ pages[p].revision = shadows[p].revision

\* Mutant: the revision of the page is not compared.
PromoteAnyRevision(p, limit) ==
  /\ Free /\ p \in Prepared
  /\ shadows[p].base = task
  /\ PageIn(p, Taken(p, limit), {})
  /\ shadows' = Without(p)
  /\ UNCHANGED <<task, futures, await>>

\* Mutant: one option more than the limit lets through.
PromoteOneMore(p, limit) ==
  /\ Free /\ p \in Prepared
  /\ shadows[p].base = task
  /\ SamePage(p)
  /\ PageIn(p, Taken(p, limit + 1), {})
  /\ shadows' = Without(p)
  /\ UNCHANGED <<task, futures, await>>

Promote(p, limit) ==
  /\ Free /\ p \in Prepared
  /\ shadows[p].base = task
  /\ SamePage(p)
  /\ PageIn(p, Taken(p, limit), {})
  /\ shadows' = Without(p)
  /\ UNCHANGED <<task, futures, await>>

(* The task or the page has moved on since the snapshot.                   *)
PromoteStale(p) ==
  /\ Free /\ p \in Prepared
  /\ shadows[p].base # task \/ ~SamePage(p)
  /\ shadows' = Without(p)
  /\ UNCHANGED <<optionVars, task, futures, await>>

(* page_in raises: the page was invalidated, or too many options are asked for. *)
PromoteFails(p, limit) ==
  /\ Free /\ p \in Prepared
  /\ shadows[p].base = task
  /\ SamePage(p)
  /\ p \in stale \/ Taken(p, limit) > MaxResident
  /\ shadows' = Without(p)
  /\ UNCHANGED <<optionVars, task, futures, await>>

-----------------------------------------------------------------------------
Manager ==
  /\ \/ \E p \in PageId, c \in Contents, rev \in 1..MaxRevision : RegisterPage(p, c, rev, NoParent)
     \/ \E p \in Registered : \E limit \in Limits : PageIn(p, Taken(p, limit), {})
     \/ \E p \in PageId : InvalidatePage(p)
  /\ UNCHANGED bufferVars

ReviseTask == task < MaxBase /\ task' = task + 1 /\ UNCHANGED <<optionVars, shadows, futures, await>>

Rankings == {r \in UNION {[1..n -> PageId] : n \in 0..MaxShadows} :
               \A i, j \in DOMAIN r : r[i] = r[j] => i = j}

Prepare ==
  \/ Clear
  \/ \E P \in SUBSET Registered, limit \in Limits : Prefetch(P, limit)
  \/ \E r \in Rankings, limit \in Limits : PrefetchAsync(r, limit)

Collect == CollectPrepared \/ CollectFailed \/ EndAwait

SpeculationNext ==
  \/ Prepare
  \/ \E i \in DOMAIN futures, status \in {"done", "failed"} : Finish(i, status)
  \/ \E mode \in {"blocking", "timed"} : BeginAwait(mode)
  \/ Collect
  \/ Expire
  \/ \E p \in Prepared : PromoteStale(p)
  \/ \E p \in Prepared, limit \in Limits : Promote(p, limit) \/ PromoteFails(p, limit)
  \/ Manager
  \/ ReviseTask

(* The collecting loop runs on in its thread and its deadline passes; the  *)
(* workers may hang.                                                       *)
SpeculationSpec ==
  BufferInit /\ [][SpeculationNext]_specVars /\ WF_specVars(Collect) /\ WF_specVars(Expire)

-----------------------------------------------------------------------------
(* Properties *)

PreparedOption == [id : OptionId, body : Body]
Shadow == [base : 1..MaxBase, revision : 1..MaxRevision,
           options : UNION {[1..k -> PreparedOption] : k \in Limits}]

(* The buffer never holds more than MaxShadows pages, of at most           *)
(* MaxShadowOptions options each, by whatever path they come in.           *)
ShadowsBounded ==
  /\ \A p \in Prepared : p \in PageId /\ shadows[p] \in Shadow
  /\ Cardinality(Prepared) <= MaxShadows
  /\ \A p \in Prepared : Len(shadows[p].options) <= MaxShadowOptions

PreparedIds(p) == {shadows[p].options[i].id : i \in DOMAIN shadows[p].options}

(* promote pages in from the directory and looks at none of the options of *)
(* the shadow; only revisions are compared, and the page may have been     *)
(* re-registered and invalidated since.  Still every prepared option       *)
(* within its limit comes in exactly as it was prepared.  An option that   *)
(* was not prepared comes in only if promote asks for more of the page     *)
(* than prefetch did.                                                      *)
PromotesWhatWasPrepared ==
  [][\A p \in Prepared, limit \in Limits : Promote(p, limit) =>
       LET prepared == shadows[p].options
       IN  /\ \A i \in DOMAIN prepared : i <= limit =>
                /\ prepared[i].id \in Resident'
                /\ resident'[prepared[i].id] = [page |-> p, body |-> prepared[i].body]
           /\ Resident' \subseteq Resident \cup PreparedIds(p) \/ limit > Len(prepared)]_specVars

(* A wait with a timeout returns, also when a worker hangs.                *)
TimedAwaitReturns == await = "timed" ~> Free
=============================================================================
