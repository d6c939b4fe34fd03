------------------------------ MODULE JobStore ------------------------------
(***************************************************************************)
(* BoundedJobStore (pool_sv2, channel_manager/job_store.rs): the jobs that *)
(* one channel, or one group channel, still knows.  Each class of jobs is  *)
(* a HashMap that answers the lookups and a Vec that remembers the order   *)
(* of insertion, so that the oldest entry can be pruned.  The two are kept *)
(* in step by hand in every operation.                                     *)
(*                                                                         *)
(* A job is its id: the payload behind an id never changes, except for the *)
(* activation timestamp, which no property here is about.  A HashMap from  *)
(* ids to jobs is therefore the set of its keys.                           *)
(*                                                                         *)
(* proposed, run, retired and the two sets of used ids are history         *)
(* variables: what the store was asked to hold, never pruned.  The         *)
(* properties compare the bounded store with that history.  A job id       *)
(* factory hands out each id once, and a template provider announces each  *)
(* template once, so the inputs are ids not used before.                   *)
(***************************************************************************)
EXTENDS Naturals, Sequences, SequencesExt

CONSTANTS
  Template,       \* template ids (u64)
  JobId,          \* job ids (u32), from the channel's job id factory
  NoJob,          \* active_job = None
  MaxFutureJobs,  \* MAX_FUTURE_JOBS
  MaxPastJobs,    \* MAX_PAST_JOBS
  MaxStaleJobs    \* MAX_STALE_JOBS

ASSUME StoreAssumption ==
  /\ NoJob \notin JobId
  /\ MaxFutureJobs \in Nat \ {0}
  /\ MaxPastJobs \in Nat \ {0}
  /\ MaxStaleJobs \in 1..MaxPastJobs

VARIABLES
  templateToJob,  \* future_template_to_job_id: partial function Template -> JobId
  futureJobs,     \* keys of future_jobs
  futureOrder,    \* future_order: sequence of [template, job]
  active,         \* active_job
  pastJobs,       \* keys of past_jobs
  pastOrder,      \* past_order
  staleJobs,      \* keys of stale_jobs
  staleOrder,     \* stale_order
  proposed,       \* history: every [template, job] added since the last activation
  run,            \* history: every job active under the current chain tip
  retired,        \* history: every job active under an earlier chain tip
  usedJobs,       \* history: every job id the store was ever given
  usedTemplates   \* history: every template it was ever given

store == <<templateToJob, futureJobs, futureOrder, active,
           pastJobs, pastOrder, staleJobs, staleOrder>>
history == <<proposed, run, retired, usedJobs, usedTemplates>>
vars == <<store, history>>

-----------------------------------------------------------------------------
\* Mutant: `while vec.len() > n + 1`.
KeptOneMore(seq, n) == IF Len(seq) <= n + 1 THEN Len(seq) ELSE n + 1

\* `while vec.len() > n { vec.remove(0) }`: how many entries are left, which
\* ones they are, and which ones the loop removed.
Kept(seq, n) == IF Len(seq) <= n THEN Len(seq) ELSE n
Newest(seq, n) == SubSeq(seq, Len(seq) - Kept(seq, n) + 1, Len(seq))
\* Mutant: the pruned ids are taken from the end.
OldestFromEnd(seq, n) == SubSeq(seq, Kept(seq, n) + 1, Len(seq))
Oldest(seq, n) == SubSeq(seq, 1, Len(seq) - Kept(seq, n))

\* Vec::retain(|id| !ids.contains(id)).
Without(seq, ids) ==
  IF ToSet(seq) \cap ids = {}
    THEN seq
    ELSE SelectSeq(seq, LAMBDA id : id \notin ids)

\* Vec::retain of add_future_job: both the template and the job must differ.
WithoutEntry(order, t, id) ==
  IF \A e \in ToSet(order) : e.template # t /\ e.job # id
    THEN order
    ELSE SelectSeq(order, LAMBDA e : e.template # t /\ e.job # id)

\* The ids among seq that are keys of the HashMap jobs.
Known(seq, jobs) ==
  IF ToSet(seq) \subseteq jobs
    THEN seq
    ELSE SelectSeq(seq, LAMBDA id : id \in jobs)

-----------------------------------------------------------------------------
Init ==
  /\ templateToJob = [t \in {} |-> NoJob]
  /\ futureJobs = {} /\ futureOrder = <<>>
  /\ active = NoJob
  /\ pastJobs = {} /\ pastOrder = <<>>
  /\ staleJobs = {} /\ staleOrder = <<>>
  /\ proposed = <<>> /\ run = <<>> /\ retired = <<>>
  /\ usedJobs = {} /\ usedTemplates = {}

(***************************************************************************)
(* add_future_job: both maps and the order gain the job, then              *)
(* prune_future_jobs drops the oldest from all three.                      *)
(***************************************************************************)
AddFutureJob(t, id) ==
  LET entry   == [template |-> t, job |-> id]
      order   == Append(WithoutEntry(futureOrder, t, id), entry)
      dropped == ToSet(Oldest(order, MaxFutureJobs))
      kept    == (DOMAIN templateToJob \cup {t}) \ {e.template : e \in dropped}
  IN  /\ futureOrder' = Newest(order, MaxFutureJobs)
      /\ futureJobs' = (futureJobs \cup {id}) \ {e.job : e \in dropped}
      /\ templateToJob' = [u \in kept |-> IF u = t THEN id ELSE templateToJob[u]]
      /\ proposed' = Append(proposed, entry)
      /\ usedJobs' = usedJobs \cup {id}
      /\ usedTemplates' = usedTemplates \cup {t}
      /\ UNCHANGED <<active, pastJobs, pastOrder, staleJobs, staleOrder,
                     run, retired>>

\* insert_past_job of the active job, if there is one, before prune_past_jobs.
PastOrderWithActive ==
  IF active = NoJob THEN pastOrder ELSE Append(Without(pastOrder, {active}), active)

\* Mutant: prune_past_jobs forgets the map.
PastJobsUnpruned == pastJobs \cup ({active} \ {NoJob})

PastJobsWithActive ==
  (pastJobs \cup ({active} \ {NoJob}))
     \ ToSet(Oldest(PastOrderWithActive, MaxPastJobs))

(***************************************************************************)
(* add_active_job: the superseded job becomes a past job.                  *)
(***************************************************************************)
AddActiveJob(id) ==
  /\ pastOrder' = Newest(PastOrderWithActive, MaxPastJobs)
  /\ pastJobs' = PastJobsWithActive
  /\ active' = id
  /\ run' = Append(run, id)
  /\ usedJobs' = usedJobs \cup {id}
  /\ UNCHANGED <<templateToJob, futureJobs, futureOrder, staleJobs, staleOrder,
                 proposed, retired, usedTemplates>>

\* Mutant: the drained jobs stay in past_jobs.
PastStaysBesidesStale(order, jobs) ==
  LET drained == Known(order, jobs)
      longer  == Without(staleOrder, ToSet(drained)) \o drained
  IN  /\ staleOrder' = Newest(longer, MaxStaleJobs)
      /\ staleJobs' = (staleJobs \cup ToSet(drained))
                          \ ToSet(Oldest(longer, MaxStaleJobs))
      /\ pastOrder' = <<>>
      /\ pastJobs' = jobs

(***************************************************************************)
(* mark_past_jobs_as_stale on a given past order and map: the past jobs    *)
(* are drained, in order, to the end of the stale ones, which are pruned.  *)
(***************************************************************************)
PastBecomesStale(order, jobs) ==
  LET drained == Known(order, jobs)
      longer  == Without(staleOrder, ToSet(drained)) \o drained
  IN  /\ staleOrder' = Newest(longer, MaxStaleJobs)
      /\ staleJobs' = (staleJobs \cup ToSet(drained))
                          \ ToSet(Oldest(longer, MaxStaleJobs))
      /\ pastOrder' = <<>>
      /\ pastJobs' = {}

MarkPastJobsAsStale ==
  /\ PastBecomesStale(pastOrder, pastJobs)
  /\ retired' = IF run = <<>> THEN retired ELSE retired \o Front(run)
  /\ run' = IF run = <<>> THEN run ELSE <<Last(run)>>
  /\ UNCHANGED <<templateToJob, futureJobs, futureOrder, active, proposed,
                 usedJobs, usedTemplates>>

(***************************************************************************)
(* activate_future_job: FALSE, with the template forgotten, when either    *)
(* lookup fails; otherwise the active job becomes past, the future job     *)
(* becomes active, the other future jobs are cleared and every past job    *)
(* becomes stale.                                                          *)
(***************************************************************************)
CanActivate(t) ==
  t \in DOMAIN templateToJob /\ templateToJob[t] \in futureJobs

ActivateFutureJob(t) ==
  /\ CanActivate(t)
  /\ active' = templateToJob[t]
  /\ templateToJob' = [u \in {} |-> NoJob]
  /\ futureJobs' = {}
  /\ futureOrder' = <<>>
  /\ PastBecomesStale(Newest(PastOrderWithActive, MaxPastJobs), PastJobsWithActive)
  /\ retired' = retired \o run
  /\ run' = <<templateToJob[t]>>
  /\ proposed' = <<>>
  /\ UNCHANGED <<usedJobs, usedTemplates>>

ActivationFails(t) ==
  /\ ~ CanActivate(t)
  /\ templateToJob' = [u \in DOMAIN templateToJob \ {t} |-> templateToJob[u]]
  /\ UNCHANGED <<futureJobs, futureOrder, active, pastJobs, pastOrder,
                 staleJobs, staleOrder, history>>

Next ==
  \/ \E t \in Template \ usedTemplates, id \in JobId \ usedJobs : AddFutureJob(t, id)
  \/ \E id \in JobId \ usedJobs : AddActiveJob(id)
  \/ MarkPastJobsAsStale
  \/ \E t \in Template : ActivateFutureJob(t) \/ ActivationFails(t)

Spec == Init /\ [][Next]_vars

-----------------------------------------------------------------------------
Entry == [template : Template, job : JobId]

\* Types, and the caps that keep the store's memory bounded.
TypeOK ==
  /\ DOMAIN templateToJob \subseteq Template
  /\ \A t \in DOMAIN templateToJob : templateToJob[t] \in JobId
  /\ futureOrder \in Seq(Entry) /\ Len(futureOrder) <= MaxFutureJobs
  /\ pastOrder \in Seq(JobId) /\ Len(pastOrder) <= MaxPastJobs
  /\ staleOrder \in Seq(JobId) /\ Len(staleOrder) <= MaxStaleJobs
  /\ futureJobs \subseteq JobId /\ pastJobs \subseteq JobId /\ staleJobs \subseteq JobId
  /\ active \in JobId \cup {NoJob}
  /\ proposed \in Seq(Entry) /\ run \in Seq(JobId) /\ retired \in Seq(JobId)
  /\ usedJobs \subseteq JobId /\ usedTemplates \subseteq Template

\* No leak and no dangling order entry: whatever the sequence of calls, each
\* HashMap holds exactly the ids its Vec lists, so the caps bound the maps too.
MapsMatchOrders ==
  /\ futureJobs = {e.job : e \in ToSet(futureOrder)}
  /\ DOMAIN templateToJob = {e.template : e \in ToSet(futureOrder)}
  /\ \A e \in ToSet(futureOrder) : templateToJob[e.template] = e.job
  /\ pastJobs = ToSet(pastOrder)
  /\ staleJobs = ToSet(staleOrder)

\* The store is a window on the history: it answers as an unbounded store
\* would for the newest jobs of each class, and pruning forgets only older ones.
StoreIsWindow ==
  /\ futureOrder = Newest(proposed, MaxFutureJobs)
  /\ active = IF run = <<>> THEN NoJob ELSE Last(run)
  /\ pastOrder = IF run = <<>> THEN <<>> ELSE Newest(Front(run), MaxPastJobs)
  /\ staleOrder = Newest(retired, MaxStaleJobs)

\* Both: nothing leaks and the right jobs are forgotten.
WindowWithoutLeaks == MapsMatchOrders /\ StoreIsWindow

\* A share is judged by the tip its job was active under: no job of an earlier
\* tip is still accepted as active or past, none of the current tip is stale,
\* and a job that was never activated is neither.
JudgedByTip ==
  /\ \A id \in ToSet(retired) : id # active /\ id \notin pastJobs
  /\ \A id \in ToSet(run) : id \notin staleJobs
  /\ futureJobs \cap (pastJobs \cup staleJobs \cup {active}) = {}

\* The chain tip can always move to one of the newest MaxFutureJobs announced
\* templates: set_new_prev_hash fails only for a template older than those.
NewestTemplatesActivate ==
  \A i \in DOMAIN proposed :
    i > Len(proposed) - MaxFutureJobs => CanActivate(proposed[i].template)
=============================================================================
