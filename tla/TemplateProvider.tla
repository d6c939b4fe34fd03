-------------------------- MODULE TemplateProvider --------------------------
(***************************************************************************)
(* BitcoinCoreSv2TDP (bitcoin-core-sv2, template_distribution_protocol/)   *)
(* and MinerActivity: the task that asks Bitcoin Core for templates and    *)
(* announces them, the cache of their data, and the counter of connections *)
(* that lets the task sleep while nobody mines.                            *)
(*                                                                         *)
(* The provider runs on a thread of its own, where a task runs until it    *)
(* awaits something.  Connections come and go on other threads, so the     *)
(* monitor's look at their counter and its wait for a notification are     *)
(* steps of their own.                                                     *)
(*                                                                         *)
(* Time is counted in ticks of one second.  What is due happens before the *)
(* next tick: Core answers waitNext when the tip changes, a sleep ends, a  *)
(* task that can run runs.  So the latencies below are those of the code's *)
(* timers alone.                                                           *)
(*                                                                         *)
(* A template is the tip it builds on; its id is its place in the order of *)
(* fetching.  Bitcoin Core is external: it answers waitNext with a template*)
(* of its tip when that is not the tip of the template it was asked about, *)
(* may answer at any moment with a better paying one, and answers with     *)
(* none when the timeout is over.  Core's tip may return to an earlier     *)
(* block.  The pool sends CoinbaseOutputConstraints only once.             *)
(***************************************************************************)
EXTENDS Naturals, Sequences, FiniteSets

CONSTANTS
  Tip,          \* chain tips (prev hashes)
  MinInterval,  \* min_interval, in seconds
  WaitTimeout,  \* WAIT_NEXT_TIMEOUT_MILLIS, in seconds
  StaleDelay,   \* the delay of process_stale_template_data, in seconds
  MaxRetained,  \* MAX_RETAINED_TEMPLATES_PER_PREV_HASH
  MaxTemplate,  \* bound: templates fetched; at the last one, the clock stops
  MaxActive,    \* bound: connections at a time
  None          \* Option::None

ASSUME ProviderAssumption ==
  /\ MinInterval \in Nat /\ WaitTimeout \in Nat \ {0} /\ StaleDelay \in Nat
  /\ MaxRetained \in Nat \ {0} /\ MaxTemplate \in Nat /\ MaxActive \in Nat
  /\ None \notin Tip \cup Nat

VARIABLES
  coreTip,        \* Bitcoin Core's tip
  active,         \* MinerActivity.active_downstreams
  notifying,      \* connections between fetch_add and notify_waiters
  stage,          \* where the provider is: run(), then monitor_ipc_templates
  notified,       \* the monitor's Notified future has been notified
  resumed,        \* resumed_from_idle
  sinceRequest,   \* age of last_wait_next_request_instant
  sinceSent,      \* age of last_sent_template_instant
  waited,         \* how long the waitNext request has been in flight
  client,         \* tip of the template of template_ipc_client
  currentPrevHash,\* current_prev_hash
  fetched,        \* the tip of each template fetched; template_id_factory is its length
  doomed,         \* the stale_template_ids collected before a tip is published
  cache,          \* keys of template_data
  staleIds,       \* stale_template_ids
  staleTasks,     \* process_stale_template_data: the tasks asleep
  outgoing,       \* every message sent on outgoing_messages
  cancelled,      \* global_cancellation_token
  superseded,     \* history: how long ago each template of an earlier tip was superseded
  late            \* history: how long Core's tip is unpublished while somebody mines

core == coreTip
activity == <<active, notifying>>
monitor == <<stage, notified, resumed, sinceRequest, sinceSent, waited, client,
             currentPrevHash, fetched, doomed>>
templates == <<cache, staleIds, staleTasks>>
history == <<superseded, late>>
vars == <<core, activity, monitor, templates, outgoing, cancelled, history>>

Newest == Len(fetched) - 1
TipOf(id) == fetched[id + 1]

\* The promise to the pool, as a function of what was sent.
Announced == Cardinality({i \in DOMAIN outgoing : outgoing[i].type = "NewTemplate"})
Owed ==
  IF outgoing # <<>> /\ outgoing[Len(outgoing)].type = "NewTemplate"
                     /\ outgoing[Len(outgoing)].future
    THEN outgoing[Len(outgoing)].template
    ELSE None

Stream == INSTANCE TemplateStream
            WITH sent <- Announced, owed <- Owed, tpQueue <- outgoing

Init ==
  /\ coreTip \in Tip
  /\ active = 0 /\ notifying = 0
  /\ stage = "boot" /\ notified = FALSE /\ resumed = FALSE
  /\ sinceRequest = None /\ sinceSent = None /\ waited = 0
  /\ client = None /\ currentPrevHash = None
  /\ fetched = <<>> /\ doomed = {}
  /\ cache = {} /\ staleIds = {} /\ staleTasks = {}
  /\ outgoing = <<>> /\ cancelled = FALSE
  /\ superseded = [i \in {} |-> 0] /\ late = 0

\* A clock that stops at cap.
Older(age, cap) == IF age = None \/ age >= cap THEN age ELSE age + 1

-----------------------------------------------------------------------------
(***************************************************************************)
(* The surroundings: Bitcoin Core, connections, shutdown.                  *)
(***************************************************************************)
NewTip ==
  /\ \E tip \in Tip \ {coreTip} : coreTip' = tip
  /\ late' = IF coreTip' = currentPrevHash THEN 0 ELSE late
  /\ UNCHANGED <<activity, monitor, templates, outgoing, cancelled, superseded>>

\* increment_active_downstreams: fetch_add, then notify_waiters after a zero.
Connect ==
  /\ active < MaxActive
  /\ active' = active + 1
  /\ notifying' = IF active = 0 THEN notifying + 1 ELSE notifying
  /\ notifying' <= MaxActive
  /\ UNCHANGED <<core, monitor, templates, outgoing, cancelled, history>>

\* notify_waiters reaches the Notified futures that exist, and no later one.
NotifyWaiters ==
  /\ notifying > 0
  /\ notifying' = notifying - 1
  /\ notified' = (notified \/ stage = "idle")
  /\ UNCHANGED <<core, active, stage, resumed, sinceRequest, sinceSent, waited,
                 client, currentPrevHash, fetched, doomed, templates, outgoing,
                 cancelled, history>>

\* Mutant: the counter does not stop at zero.
DisconnectAlways ==
  /\ active' = active - 1
  /\ late' = IF active = 1 THEN 0 ELSE late
  /\ UNCHANGED <<core, notifying, monitor, templates, outgoing, cancelled, superseded>>

\* decrement_active_downstreams
Disconnect ==
  /\ active > 0
  /\ active' = active - 1
  /\ late' = IF active = 1 THEN 0 ELSE late
  /\ UNCHANGED <<core, notifying, monitor, templates, outgoing, cancelled, superseded>>

Cancel ==
  /\ cancelled' = TRUE
  /\ UNCHANGED <<core, activity, monitor, templates, outgoing, history>>

-----------------------------------------------------------------------------
(***************************************************************************)
(* publish_template.  Sending does not block, so a template of the same    *)
(* tip is published in one step; between the two messages of a new tip     *)
(* only the other threads run.                                             *)
(***************************************************************************)
\* Mutant: the newest are evicted.
EvictedNewest(ids) == {i \in ids : Cardinality({j \in ids : j < i}) >= MaxRetained}

\* oldest_template_ids_to_evict
Evicted(ids) == {i \in ids : Cardinality({j \in ids : j > i}) >= MaxRetained}

\* prune_template_data_for_prev_hash, for the newest template
Pruned(ids) == ids \ Evicted({i \in ids : TipOf(i) = TipOf(Newest)})

\* The monitor moves on; the rest of its locals are left to the action.
locals == <<notified, resumed, sinceRequest, waited>>
Move(from, to) ==
  /\ stage = from /\ stage' = to
  /\ UNCHANGED <<core, activity, sinceSent, client, currentPrevHash, fetched,
                 doomed, templates, outgoing, history>>

\* Mutant: the template of a new tip is announced as one of the current tip.
SendTemplateNotFuture ==
  /\ cache' = cache \cup {Newest}
  /\ currentPrevHash' = TipOf(Newest)
  /\ outgoing' = Append(outgoing, Stream!NewTemplate(Newest, FALSE))
  /\ superseded' = [i \in 0..(Newest - 1) |->
                      IF i \in DOMAIN superseded THEN superseded[i] ELSE 0]
  /\ late' = 0
  /\ UNCHANGED <<core, activity, locals, sinceSent, client, fetched, staleIds,
                 staleTasks, cancelled>>

\* The first half for a new tip: the data is stored and NewTemplate sent.
SendFutureTemplate ==
  /\ cache' = cache \cup {Newest}
  /\ currentPrevHash' = TipOf(Newest)
  /\ outgoing' = Append(outgoing, Stream!NewTemplate(Newest, TRUE))
  /\ superseded' = [i \in 0..(Newest - 1) |->
                      IF i \in DOMAIN superseded THEN superseded[i] ELSE 0]
  /\ late' = 0
  /\ UNCHANGED <<core, activity, locals, sinceSent, client, fetched, staleIds,
                 staleTasks, cancelled>>

\* The second half: SetNewPrevHash is sent and the cache pruned.
SendPrevHash ==
  /\ outgoing' = Append(outgoing, Stream!SetNewPrevHash(Newest))
  /\ cache' = Pruned(cache)
  /\ client' = TipOf(Newest)
  /\ doomed' = {}
  /\ UNCHANGED <<core, activity, locals, currentPrevHash, fetched, staleIds,
                 cancelled, history>>

\* Mutant: the throttle starts again when the refresh is sent.
SendRefreshRestarts ==
  /\ cache' = Pruned(cache \cup {Newest})
  /\ outgoing' = Append(outgoing, Stream!NewTemplate(Newest, FALSE))
  /\ sinceSent' = 0 /\ sinceRequest' = 0
  /\ client' = TipOf(Newest)
  /\ UNCHANGED <<core, activity, notified, resumed, waited, currentPrevHash,
                 fetched, doomed, staleIds, staleTasks, cancelled, history>>

\* A template of the current tip.
SendRefresh ==
  /\ cache' = Pruned(cache \cup {Newest})
  /\ outgoing' = Append(outgoing, Stream!NewTemplate(Newest, FALSE))
  /\ sinceSent' = 0
  /\ client' = TipOf(Newest)
  /\ UNCHANGED <<core, activity, locals, currentPrevHash, fetched, doomed,
                 staleIds, staleTasks, cancelled, history>>

-----------------------------------------------------------------------------
(***************************************************************************)
(* run() up to the monitor: the constraints have arrived, Core is asked    *)
(* for a first template, which is published and makes nothing stale.       *)
(***************************************************************************)
\* fetch_template_data of a template of Core's tip
Fetch(from, to) ==
  /\ stage = from /\ stage' = to
  /\ Len(fetched) < MaxTemplate
  /\ fetched' = Append(fetched, coreTip)
  /\ UNCHANGED <<core, activity, locals, sinceSent, client, currentPrevHash,
                 doomed, templates, outgoing, cancelled, history>>

CreateNewBlock == Fetch("boot", "bootstrapping")

BootstrapTemplate ==
  /\ stage = "bootstrapping" /\ stage' = "bootstrapped"
  /\ SendFutureTemplate
  /\ UNCHANGED doomed

BootstrapPrevHash ==
  /\ stage = "bootstrapped" /\ stage' = "start"
  /\ SendPrevHash
  /\ sinceSent' = 0
  /\ UNCHANGED staleTasks

\* monitor_ipc_templates is spawned and gets a thread of Core for its requests.
StartMonitor == Move("start", "gate") /\ UNCHANGED <<locals, cancelled>>

-----------------------------------------------------------------------------
(***************************************************************************)
(* monitor_ipc_templates: the idle gate.                                   *)
(***************************************************************************)
\* should_wait_for_active_miners: wait_for_active_downstream is called.
EnterIdle == Move("gate", "check") /\ active = 0 /\ UNCHANGED <<locals, cancelled>>

FoundInactive ==
  Move("check", "register") /\ active = 0 /\ UNCHANGED <<locals, cancelled>>

\* notify.notified()
Register ==
  /\ Move("register", "idle")
  /\ notified' = FALSE
  /\ UNCHANGED <<resumed, sinceRequest, waited, cancelled>>

WakeUp ==
  /\ Move("idle", "check") /\ notified
  /\ notified' = FALSE
  /\ UNCHANGED <<resumed, sinceRequest, waited, cancelled>>

FoundActive ==
  /\ Move("check", "gate") /\ active > 0
  /\ resumed' = TRUE
  /\ UNCHANGED <<notified, sinceRequest, waited, cancelled>>

-----------------------------------------------------------------------------
(***************************************************************************)
(* monitor_ipc_templates: the throttle and the request.                    *)
(***************************************************************************)
\* remaining_wait_next_delay is a delay.
MustDelay == ~ resumed /\ sinceRequest # None /\ sinceRequest < MinInterval

Throttle ==
  /\ Move("gate", "throttled") /\ active > 0 /\ MustDelay
  /\ UNCHANGED <<locals, cancelled>>

EndThrottle ==
  /\ Move("throttled", "gate") /\ sinceRequest >= MinInterval
  /\ UNCHANGED <<locals, cancelled>>

RequestWaitNext ==
  /\ Move("gate", "waiting") /\ active > 0 /\ ~ MustDelay
  /\ sinceRequest' = 0 /\ waited' = 0 /\ resumed' = FALSE
  /\ UNCHANGED <<notified, cancelled>>

WaitNextTimesOut ==
  /\ Move("waiting", "gate") /\ waited = WaitTimeout
  /\ UNCHANGED <<locals, cancelled>>

WaitNextReturns == Fetch("waiting", "fetched")

\* Mutant: Core's tip is compared, not that of the template.
CoreTipChanged == coreTip # currentPrevHash

\* The fetched template builds on another tip than the published one.
TipChanged == TipOf(Newest) # currentPrevHash

PublishTip ==
  /\ stage = "fetched" /\ stage' = "announced" /\ TipChanged
  /\ doomed' = cache
  /\ SendFutureTemplate

\* The stale templates are handed to a task that sleeps.
PublishTipPrevHash ==
  /\ stage = "announced" /\ stage' = "gate"
  /\ SendPrevHash
  /\ staleTasks' = staleTasks \cup {[ids |-> doomed, left |-> StaleDelay]}
  /\ UNCHANGED sinceSent

\* This sleep watches no token.
SleepBeforeRefresh ==
  /\ Move("fetched", "sleeping") /\ ~ TipChanged /\ sinceSent < MinInterval
  /\ UNCHANGED <<locals, cancelled>>

PublishRefresh ==
  /\ \/ stage = "fetched" /\ ~ TipChanged
     \/ stage = "sleeping"
  /\ sinceSent >= MinInterval
  /\ SendRefresh
  /\ stage' = "gate"

\* Mutant: the idle gate watches no token.
CancellableWhenBusy == {"boot", "throttled", "waiting"}

\* The awaits that watch the token; Exit is the monitor, or run() before it,
\* seeing it cancelled.
Cancellable == {"boot", "check", "idle", "throttled", "waiting"}

Exit ==
  /\ cancelled /\ \E s \in Cancellable : Move(s, "done")
  /\ UNCHANGED <<locals, cancelled>>

\* A call to Bitcoin Core fails, or the pool no longer receives: the provider
\* cancels the token and ends.
Fails ==
  /\ \/ \E s \in {"boot", "start", "waiting"} : Move(s, "done")
     \/ Move("gate", "done") /\ active > 0 /\ ~ MustDelay
     \/ /\ cancelled
        /\ \E s \in {"bootstrapping", "bootstrapped", "fetched", "announced", "sleeping"} :
             Move(s, "done")
  /\ cancelled' = TRUE
  /\ UNCHANGED locals

-----------------------------------------------------------------------------
\* process_stale_template_data, after its sleep.  Destroying the templates on
\* Core's side may fail, which cancels the token.
MarkStale(task) ==
  /\ task.left = 0 /\ stage \notin {"bootstrapped", "announced", "done"}
  /\ staleTasks' = staleTasks \ {task}
  /\ staleIds' = task.ids
  /\ cache' = cache \ task.ids
  /\ cancelled' \in {cancelled, TRUE}
  /\ UNCHANGED <<core, activity, monitor, outgoing, history>>

\* Nothing is due.
Quiet ==
  /\ \/ stage = "idle" /\ ~ notified /\ notifying = 0
     \/ stage = "throttled" /\ sinceRequest < MinInterval
     \/ stage = "waiting" /\ waited < WaitTimeout /\ coreTip = client
     \/ stage = "sleeping" /\ sinceSent < MinInterval
  /\ cancelled => stage \notin Cancellable
  /\ \A task \in staleTasks : task.left > 0
  /\ Len(fetched) < MaxTemplate \/ cancelled

Tick ==
  /\ Quiet
  /\ sinceRequest' = Older(sinceRequest, MinInterval)
  /\ sinceSent' = Older(sinceSent, MinInterval)
  /\ waited' = IF stage = "waiting" THEN waited + 1 ELSE waited
  /\ staleTasks' = {[task EXCEPT !.left = @ - 1] : task \in staleTasks}
  /\ superseded' = [i \in DOMAIN superseded |-> Older(superseded[i], StaleDelay + 1)]
  /\ late' = IF coreTip # currentPrevHash /\ active > 0
               THEN Older(late, MinInterval + WaitTimeout + 1) ELSE 0
  /\ UNCHANGED <<core, activity, stage, notified, resumed, client,
                 currentPrevHash, fetched, doomed, cache, staleIds, outgoing,
                 cancelled>>

-----------------------------------------------------------------------------
Surroundings == NewTip \/ Connect \/ NotifyWaiters \/ Disconnect \/ Cancel

Bootstrap == CreateNewBlock \/ BootstrapTemplate \/ BootstrapPrevHash \/ StartMonitor

Monitor ==
  \/ EnterIdle \/ FoundInactive \/ Register \/ WakeUp \/ FoundActive
  \/ Throttle \/ EndThrottle
  \/ RequestWaitNext \/ WaitNextTimesOut \/ WaitNextReturns
  \/ PublishTip \/ PublishTipPrevHash
  \/ SleepBeforeRefresh \/ PublishRefresh

Next ==
  \/ Surroundings
  \/ Bootstrap \/ Monitor \/ Exit \/ Fails
  \/ \E task \in staleTasks : MarkStale(task)
  \/ Tick

Spec == Init /\ [][Next]_vars

\* Every task that can run runs, and time passes.  select! polls its branches
\* in a random order, so a token that stays cancelled is seen at some poll.
Fairness ==
  /\ WF_vars(Bootstrap \/ Monitor)
  /\ WF_vars(NotifyWaiters)
  /\ WF_vars(\E task \in staleTasks : MarkStale(task))
  /\ WF_vars(Tick)
  /\ SF_vars(Exit)

FairSpec == Spec /\ Fairness

-----------------------------------------------------------------------------
Ids == 0..(Len(fetched) - 1)

TypeOK ==
  /\ coreTip \in Tip
  /\ active \in 0..MaxActive /\ notifying \in 0..MaxActive
  /\ stage \in {"boot", "bootstrapping", "bootstrapped", "start", "gate", "check", "register",
                "idle", "throttled", "waiting", "fetched", "announced", "sleeping", "done"}
  /\ notified \in BOOLEAN /\ resumed \in BOOLEAN
  /\ sinceRequest \in 0..MinInterval \cup {None}
  /\ sinceSent \in 0..MinInterval \cup {None}
  /\ waited \in 0..WaitTimeout
  /\ client \in Tip \cup {None} /\ currentPrevHash \in Tip \cup {None}
  /\ fetched \in Seq(Tip) /\ Len(fetched) <= MaxTemplate
  /\ doomed \subseteq Ids /\ cache \subseteq Ids /\ staleIds \subseteq Ids
  /\ staleTasks \subseteq [ids : SUBSET Ids, left : 0..StaleDelay]
  /\ outgoing \in Seq(Stream!Message)
  /\ cancelled \in BOOLEAN
  /\ DOMAIN superseded \subseteq Ids
  /\ \A i \in DOMAIN superseded : superseded[i] \in 0..(StaleDelay + 1)
  /\ late \in Nat

\* Implements the stream of messages that the pool relies on: the order of
\* NewTemplate and SetNewPrevHash survives failures, shutdown and the throttle.
KeepsPromise == Stream!Spec

\* A refresh builds on the tip of the last SetNewPrevHash: a miner that keeps
\* its prev hash and takes the new template works on a valid block.
RefreshesMatchTip ==
  \A i \in DOMAIN outgoing : \A j \in 1..(i - 1) :
    (/\ outgoing[i].type = "NewTemplate" /\ ~ outgoing[i].future
     /\ outgoing[j].type = "SetNewPrevHash"
     /\ \A k \in (j + 1)..(i - 1) : outgoing[k].type # "SetNewPrevHash")
      => TipOf(outgoing[i].template) = TipOf(outgoing[j].template)

\* A block found on a recent template can be submitted: the newest MaxRetained
\* templates of a tip stay in the cache until StaleDelay after the tip changed.
RecentTemplatesKept ==
  \A m \in DOMAIN outgoing :
    LET id == outgoing[m].template
    IN  (/\ id \in DOMAIN superseded => superseded[id] < StaleDelay
         /\ Cardinality({j \in Ids : j > id /\ TipOf(j) = TipOf(id)}) < MaxRetained)
          => id \in cache

\* The cache is bounded: no template of an earlier tip outlives the delay,
\* and no more than MaxRetained of the current tip are kept.
SupersededForgotten ==
  /\ \A id \in cache \cap DOMAIN superseded : superseded[id] <= StaleDelay
  /\ stage \notin {"bootstrapped", "announced"} =>
       Cardinality(cache \ DOMAIN superseded) <= MaxRetained

\* The cache keeps what may still be asked for and no more, and the pool is
\* never refused the data of a template of the current tip as stale.
CacheServesRecent ==
  RecentTemplatesKept /\ SupersededForgotten /\ staleIds \subseteq DOMAIN superseded

\* While somebody mines, a new tip is published within min_interval, whatever
\* the throttle, the sleep before a refresh and the timeouts add up to; except
\* when the monitor sleeps in the idle gate or has ended.  It is what the code
\* keeps of TipsPublishAtOnce.
TipLatency == late <= MinInterval \/ stage \in {"idle", "done"}

\* Shutdown is not held up for ever by any of the sleeps.
StopsWhenCancelled == cancelled ~> stage = "done"

\* Claims of the repository that the code does not keep.

\* README, "Dashboard And Template Timing": min_interval is the minimum between
\* mempool-driven updates, and chain-tip changes still publish immediately.
\* So no time passes while somebody mines on a tip that is gone.
TipsPublishAtOnce == late = 0 \/ stage \in {"idle", "done"}

\* The gate waits only while no miner is connected.
WakesForMiners == stage = "idle" /\ active > 0 ~> stage # "idle" \/ active = 0
=============================================================================
