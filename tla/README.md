# Canary: models, checks and proofs

Canary is a solo Bitcoin mining pool in one process.  Miners connect over
Stratum V2; a pool server (`src/vendor/pool_sv2`) makes their jobs; a template
client (`src/vendor/bitcoin-core-sv2`) takes block templates from Bitcoin Core
over IPC; an application (`src/src`) configures both, keeps a history of the
miners and serves a dashboard.  This directory holds TLA+ modules of its
concurrent core, TLC configurations that check them, and TLAPS proofs.

Paths below are relative to `src/`; `P` is `vendor/pool_sv2/src/lib`, `B` is
`vendor/bitcoin-core-sv2/src` and `A` is `src`.

## Inventory

| component | state | operations | modelled in |
|---|---|---|---|
| bounded job store, `P/channel_manager/job_store.rs` | four maps of jobs (future, active, past, stale), three insertion orders | add a future or active job, activate on a tip change, deactivate, mark stale | `JobStore` |
| channel manager: connections, `P/channel_manager/mod.rs` | `downstream`, `vardiff`, `downstream_sender`, the last template and prev hash, the activity counter | bootstrap and insert a connection, `remove_downstream`, the error actions, closing the I/O | `ChannelManager` |
| channel manager: channels and jobs, `P/channel_manager/{mining,template_distribution}_message_handler.rs` | per connection: group channel, channels, payout mode, flags | open and close a channel, handle NewTemplate and SetNewPrevHash, shares, update | `ChannelManager` |
| connection task, `P/downstream/` | its stage, the queue to the channel manager | setup, forward, disconnect | `ChannelManager` |
| template provider, `B/template_distribution_protocol/` | template cache, stale ids, current prev hash, the clocks of the throttle | `run`, the monitor, publish, prune, mark stale, stop | `TemplateProvider` |
| template runtime status, `B/template_runtime_status.rs` | counter of connections, its `Notify` | count, uncount, wait | `TemplateProvider`, `ChannelManager` |
| the messages between the two | the unbounded channel from provider to pool | NewTemplate, SetNewPrevHash | `TemplateStream` |
| miner statistics, `P/miner_stats.rs` | sessions and their counters, an event channel | opened, share, closed, snapshot | `MinerHistory`; the open sessions also in `ChannelManager` |
| miner history, `A/history.rs` | a database of miners, fed by events | apply an event, delete, mark all disconnected at start | `MinerHistory` |
| process, `A/main.rs`, `P/mod.rs`, `P/template_receiver/bitcoin_core.rs` | the terminal's mode, signal handlers, token, `is_alive`, `shutdown_notify`, `MiningRuntimeStatus` | check, run, wait for a stop, start and shut down the pool | `Application` |
| keys and configuration, `A/{keys,app_config,pool_config}.rs` | `authority-keys.toml`, the configuration | load or create, persist; where the IPC socket is | `Application` |
| dashboard: chain, `A/ui.rs` | recent blocks, start of the difficulty period | a status request's calls to Core, over both caches | `ChainView` |
| dashboard: miners, `A/ui.rs` | `seen_miners` | ask monitoring, merge, take snapshots, read the table, delete a miner | `MinerList` |
| Bitcoin Core RPC, `A/bitcoin_core_rpc.rs` | none | read the cookie, call, decode | `ChainView` |
| identities, `P/utils.rs`, `A/{miner_identity,bitcoin_address}.rs` | none | the two parsers of `user_identity` | `MinerIdentity` |
| test miner, `A/test_miner.rs` | a client | connect, mine | no: a development client |
| job declaration, `B/job_declaration_protocol/` | | | no: Canary starts the pool without a job declarator |
| SV2 template provider client, `P/template_receiver/sv2_tp/` | | | no: Canary uses IPC only |

How they interact.  A connection task bootstraps its group channel from the last
template and prev hash, enters two maps behind different locks, counts itself,
and forwards the client's messages.  The channel manager is one task that takes
one message at a time, from connections and from the provider, and changes the
same maps; either side may remove a connection.  The provider runs on a thread
of its own with a single-threaded executor and sends over an unbounded channel;
it reads the counter of connections to know whether anybody mines.  Both the channel
manager and the connection tasks tell the statistics of channels and shares; these
send events to the history's writer, which is the only one to write the table of
miners, but for the dashboard, which deletes from it.  A status request of the
dashboard is a task of its own: it asks Bitcoin Core over RPC and the monitoring
server over HTTP, reads the statistics and the table, and shares three caches with
the other requests.  `main` starts all this in order and then selects between the
end of the pool and a stop.

What is hard there, and which properties answer it:

* a new tip is two messages.  Connections and channels that are set up between
  the two see half of it (`ChannelsInStep`, `ShutdownOnlyWhileTipChanges`; on the
  sending side `KeepsPromise`);
* two tasks may remove one connection, step by step (`ActiveCounted`,
  `ConnsHaveSenders`, `ChannelTablesAgree`, `ConnectionsAreForgotten`);
* jobs come from the group channel or the channel itself, by client flags, and
  client and server must agree on them (`ClientWorksOnServerJob`,
  `MinersArePaid`);
* bounded memory is pruned by hand (`WindowWithoutLeaks`, `NewestTemplatesActivate`,
  `CacheServesRecent`);
* old work must be told from new (`JudgedByTip`, `RefreshesMatchTip`);
* the monitor throttles, sleeps, times out and idles, while tips change and
  shutdown may come (`TipLatency`, `TipsPublishAtOnce`, `WakesForMiners`,
  `StopsWhenCancelled`);
* statistics change under a lock, their events are sent after it and applied on
  another thread, and the table outlives the run (`WriterKnowsOpenChannels`,
  `MiningIsOnRecord`, `ConnectedHaveSession`);
* what the dashboard shows is put together at several moments from sources that
  lag behind one another, in requests that overtake one another
  (`MiningIsConnected`, `ConnectedIsRecent`, `KnownMinersStay`; `CacheIsWindow`,
  `NewerAboveOlder`, `ProjectionIsOfItsPeriod`, `TipIsShown`);
* the process may be stopped in several ways, or fail at every point of its start
  (`KeysStay`, `TerminalRestored`, `HeardStops`, `ReadyComesTrue`);
* one text is parsed in two places (`AcceptedIsListed`, `PaysWhomItNames`).

`PROJECT.json` lists the hazards line by line, the uncovered ones with the reason.

## Modules

| module | what it is |
|---|---|
| `JobStore` | one bounded job store, with the history of what it was asked to hold |
| `JobStoreProofs` | its four invariants, proved |
| `TemplateStream` | the abstract promise of the provider: which messages, in which order |
| `TemplateProvider` | the detailed provider, which implements `TemplateStream` |
| `ChannelManager` | connections, channels, jobs and removal; its input is `TemplateStream` |
| `ChannelManagerProofs` | types, maps, counter, channels, jobs and shutdown: every invariant of its runs, proved |
| `TemplateProviderProofs` | the refinement, `RefreshesMatchTip`, the types of the provider, `TipLatency` and `CacheServesRecent`, proved |
| `MinerHistory` | sessions and shares, the events that tell of them, the writer, the table |
| `MinerHistoryProofs` | its types, `ConnectedHaveSession`, `WriterKnowsOpenChannels` and `MiningIsOnRecord`, proved |
| `MinerList` | the dashboard's list of miners, from three sources |
| `MinerListProofs` | its four invariants, proved |
| `ChainView` | the dashboard's view of the chain: RPC calls and two caches |
| `ChainViewProofs` | its four invariants, proved |
| `Application` | the process: commands, keys, terminal, start and shutdown of the pool |
| `ApplicationProofs` | its three invariants, proved |
| `MinerIdentity` | the two parsers of a miner's identity, on texts of tokens |
| `MinerIdentityProofs` | its two invariants, proved for texts of any length |
| `MC…` | instances for TLC, one for each module that runs; `MCChannelJobs` adds `MinerIdentity` to that of `ChannelManager` |

`TemplateStream` composes the other two: `TemplateProvider` has it as a PROPERTY
under a refinement mapping (`sent` is the number of NewTemplate messages sent,
`owed` the future template that is the last message), and `ChannelManager`
uses its two actions as the environment.  What the channel manager is checked
against is therefore what the provider is shown to send.  The channel manager
also takes messages out of the queue; the provider only ever appends.

### JobStore

One action per operation of `BoundedJobStore`.  A map is the set of its keys
(`templateToJob` is a function), since a job never changes behind its id but for
a timestamp.  Pruning pops from the front of the order and deletes from the map,
as the code does, so the two can disagree.  Five history variables keep what the
store was given and never forget.  `WindowWithoutLeaks` says that each class of
jobs is exactly the newest part of that history, and that no job is left in a map
without a place in the order by which it would be pruned.

### ChannelManager

An action is what a task does under one lock or between two awaits.

* `BootstrapGroupChannel` to `IncrementActiveDownstreams`: the accept loop in
  `start_downstream_server`.  Its snapshot of the last template is taken before
  the connection is mapped, so messages may be handled in between.
* `RecordClosed`, `Unmap`, `DecrementActiveDownstreams`, `RemoveSender`: the four
  steps of `remove_downstream`.  The owner's task (`on_disconnect`) and the
  channel manager (`handle_error_action`) run them concurrently; `removal` says
  where each of them is.
* `HandleNewTemplate`, `HandleSetNewPrevHash`, `HandleOpen…`, `HandleCloseChannel`:
  whole handlers.  They hold one lock throughout.
* A job is its template, the address its coinbase pays, and its maker.
  `toldNext` and `toldNow` are what a client that reads every message has been
  told; `next` and `now` are what the server holds.
* `Shutdown` is `Action::Shutdown`: token cancelled, loop ended, I/O closed.  A
  failing handler may leave part of its change in the data; no task reads it
  afterwards, so the model drops it.

`channels_sv2`, which holds the channels, is external: a future job waits for
SetNewPrevHash of its template, which fails on a standard or group channel that
does not hold it.  The loop's `select!` is biased (cancellation, vardiff,
templates, connections), but any message may arrive between two polls, so every
interleaving is kept; only a cancelled loop may handle more messages here than in
the code, which is harmless for safety.  The messages of one connection are
counted, and the order across connections is open.  Extranonces never run out.

A client that asked for standard jobs in its SetupConnection may open an extended
channel all the same: the channel joins the group, and a job of the group is not sent
to such a client (`ToldJob`), but the SetNewPrevHash of the group is (`GroupIsTold`).
Such a channel is never told a next job, and works on its opening job or, since
that was replaced, on none; `ClientWorksOnServerJob` says of every other channel
that the client holds what the server holds, and of these exactly that.

Left out: the bodies of share handling and UpdateChannel, which change nothing
modelled here (`HandleWithoutEffect`; a failure that drops the connection is
`HandlerDisconnects`), difficulty adjustment, framing and extension negotiation.

### TemplateProvider

`stage` is the position of `run` and then of `monitor_ipc_templates`; the clocks
are the ages of its two `Instant`s.  The executor is single-threaded, so the code
between two awaits is one step; the two messages of a tip are two steps only
because threads that are not the provider's may run in between.  The counter and
its notification belong to those threads: `wait_for_active_downstream` is the
steps `FoundInactive`, `Register`, `WakeUp`, `FoundActive`, and
`increment_active_downstreams` is `Connect`, then `NotifyWaiters`.

A tick is a second.  `Tick` is enabled only when nothing is due (`Quiet`): steps
take no time, so a latency is the sum of the code's timers.  The clock stops when
the last template of the bound was fetched.  `CacheServesRecent` says what the
cache owes the pool: the newest templates of a tip stay until the delay after it
changed, none of an earlier tip stays longer, and none of the current tip counts
as stale.  Bitcoin Core is external: it may
change its tip, also back to an earlier block; it answers `waitNext` with a
template of a new tip, with a better template of the same tip whenever it likes,
with none at the timeout, or with an error.

Left out: RequestTransactionData and SubmitSolution only read the cache; a second
CoinbaseOutputConstraints would restart the monitor, but the pool sends it once.
A send fails only after the pool has closed its receiver, and then has the
effect of any other failure.

### MinerHistory

`RecordChannelOpened` to `RecordDownstreamClosed` are what `miner_stats.rs` does under
its lock; what must be sent afterwards waits in `emitting`, and `Emit` is `try_send`.
The channel manager's task and the tasks of the connections run these at the same
time.  `RemoveDownstream` is the rest of `remove_downstream`, after the event was
sent.  `ApplyOpened` to `ApplyShare` are the arms of `apply_event`: each changes the
writer's map of sessions and then the table, and the statement may fail, which is
only logged.  `DeleteOfflineMiner` is the dashboard's DELETE.  `Restart` ends the
process at any moment and opens the table again, which marks all miners as
disconnected.  The channel manager and the task of a connection may both run
`RecordDownstreamClosed` for it, the second also when the first is done.

`channels` is the channel manager's own view, which the table is compared with.
`unwritten` is a history variable: the miners about whom a write has failed in this
run.  A row keeps the connected flag and the share counters.  Times, hashrate,
difficulty, block counters and the retention of closed sessions are left out, as is
an identity that does not parse, which gets no row.  So is a database that cannot be
opened or initialised when the writer starts, which ends the writer's thread for the
whole run (`A/history.rs:74-84`): here a write may fail, but the writer is there.

### MinerList

The steps of `api_status` between two awaits: `FetchClients`, `FetchChannels` for one
client after the other, `MergeSeenMiners` under the lock of `seen_miners`,
`TakeSnapshots` under that of the registry, and `Answer`.  Of clients, and of the
channels of each, the monitoring server gives one page, `ClientsPage` and
`ChannelsPage` long (100 in the code), in the order of a hash map: `Page` lets any be
left out once they and up to `Others` more fill it.  `unsure` has the sessions that
the answer merged last could so overlook.  `Worker` is
`build_miner_workers` for one miner: the session of a row of `seen_miners`, the
sessions of the snapshot that no row has taken, the table's row only if there is
neither.  Every invariant is about a request at its answer, against what was true
during the request; `ever`, `steady`, `gone` and `kept` collect that.  `Restart` ends
the process and leaves the table.  Registry and writer are reduced to open and closed
(`MinerHistory` has their detail); the monitoring server is external, a copy of
the open channels made now and then, which answers or not.

### ChainView

The rest of `api_status`: `FetchBitcoinCoreStatus`, then the start of the difficulty
period (look up, fetch, store), then the recent blocks (look, begin over the blocks
to keep, fetch one after the other, store).  The locks are let go between these
steps.  Each call reads the chain as it is then; Core mines, reorganises (to a
shorter chain also), goes and comes back, and while it is away the calls fail in
every way that `call_at_url` and `decode_rpc_response` tell apart.  `peak` is a history
variable: the length of the longest chain that was reorganised.  A block is its
height and its branch; a period has two blocks instead of 2016 and the list three
instead of six.

### Application

`proc.pc` is the position of `main`, `pool.pc` that of the task which runs
`PoolSv2::start`; between flags and notification they interleave at every access.
`WaitForShutdown` installs the signal handlers and puts the terminal into raw mode,
`StopWaiting` is the drop of that future.  A blocking read of stdin that nobody waits
for any more is an `orphan`: it takes the next key, and the runtime waits for it.
`Persist` is two steps, since `fs::write` empties the file first.  A `Kill` ends the
process anywhere; the next one finds the key file and nothing else.  `AppSocketExists`
and `PoolSocketExists` are the two readings of the configured socket path.

### MinerIdentity

A text is a sequence of tokens: addresses of this network and of another one, words,
the words and separators that the parsers look for, a blank.  `TryFromUserIdentity`
is the pool's parser, `ParseMinerIdentity` the application's; both are translated
branch by branch.  The state machine only types texts.  `MCChannelJobs` runs it in
`channel_jobs`, where what the texts decide, the address that a channel pays, is used;
the two machines share no state, so a text is typed only while the pool has done nothing.

## Runs

| run | question | bounds | states |
|---|---|---|---|
| `job_store` | does the store keep what it must and no more? | 6 jobs, 3 templates, the code's own caps 2, 2, 1 | 182 with symmetry |
| `connections` | do maps, counter and sessions agree while two connections come and go, and is each that left or was dropped closed and forgotten? | 2 connections, 1 channel each, 2 templates, 1 queued message; fairness | 265 thousand |
| `channel_jobs` | do all channels of any kind of client follow the tip, pay the miner, agree with the client, and do both parsers of identities? | 1 connection, 2 channels, 4 templates, every kind of client; all texts of 5 tokens, and of 5 after each beginning | 458 thousand |
| `template_provider` | promise, cache, latency, shutdown | 2 tips, 4 templates, 1 connection; timers 2, 1, 3; 2 retained | 210 thousand |
| `miner_history` | does the table agree with the channels once the events are applied? | 2 connections, 2 miners, 2 channels, 1 share, 2 queued events, 1 failing write, 1 restart | 1.84 million with symmetry |
| `miner_list` | is the list true of the time of the request? | 1 miner with 2 sessions on 2 connections, 2 requests, pages of 2 clients and 1 channel, up to 2 others, 1 queued event, any restarts | 3.57 million with symmetry |
| `chain_view` | are the caches sound, and is the tip shown in the end? | 2 requests, 4 heights, periods of 2, lists of 3, 1 reorganisation, 1 outage; fairness | 1.5 million |
| `application` | keys, terminal, stopping, readiness | 3 processes, 4 events; fairness | 114 thousand |

Why these bounds show enough.  The store's caps are the real ones; six jobs
overflow each of them, and three templates allow two tip changes.  Two
connections give two owners and the channel manager as removers, at different
steps and of different targets; a third adds nothing that they share.  Two
templates make one tip change (with the half-announced state in between) or one
refresh; four make a tip change, refreshes on either side of it, and another.
With two channel ids and the group's, a connection has channels that were opened
under different templates.  The real provider has 60, 1 and 10 seconds and keeps
256 templates of a tip; the scaled values still put a tip change inside a
throttle, a sleep, a request and a stale delay, let two stale delays overlap, and
overflow the retained templates.  In the history two connections are two tasks
whose events overtake one another, two miners can be taken for one another, and one
channel opened after another is a reconnection; one share is enough to tell a
counter that was reset from one that was not.  One connection at a time is enough for the
gate, which only asks whether the counter is zero.  In the list of miners the rows of
different miners never meet, so one miner is enough, with two sessions for one to hide
the other, and two requests for one to overtake the other; with two others a page of two
clients may be full without either connection, and hold both without them.  Four heights
are two
whole difficulty periods, with an adjustment inside a request, and one more block than the
list shows; a reorganisation may lead to a longer chain, one as long, or a shorter one.
Three processes are one that makes the keys and is cut off, one that
tells them, one that reads them; four events allow a stop, a key for the read
that was given up, and two changes of the socket.  Five tokens after a beginning are an
address and a label with separators in it.

`CHECK_DEADLOCK FALSE` appears where the system stops: connections end, the pool
shuts down, and templates are bounded.

### What the code does not keep

Four runs check one statement of the repository each; TLC finds each violated, and
`PROJECT.json` quotes the lines.

* `two_addresses`: the payout mode belongs to the connection, not the channel; of
  two identities on one connection the later is paid by the group's jobs.
* `tip_at_once`: README.md:140-141 says that `min_interval` is for mempool updates, and
  that "Chain-tip changes still publish immediately".  The monitor waits it out before
  it asks for anything, and again before it publishes a refresh: a tip that comes
  meanwhile waits with it.  `TipLatency` is what the code does keep: `min_interval`;
* `lost_wakeup`: the gate reads the counter before it registers for the
  notification, so a connection made in between leaves the monitor asleep.
* `deleted_listed`: deleting a miner removes its row of the table; its closed
  sessions in the registry and its row in `seen_miners` keep it listed.

More was met on the way, and shapes the properties as they are stated:

* a failed bootstrap, which a client meets that arrives between the two messages of
  a tip change, is logged as a disconnection (`P/channel_manager/mod.rs:385`) but
  cancels the token of the whole pool.  `ShutdownOnlyWhileTipChanges` says that
  this is the only time at which it may happen;
* `remove_downstream` closes the sessions before it unmaps the connection, so
  a channel opened in between keeps an open session for ever.  `ChannelTablesAgree`
  and `WriterKnowsOpenChannels` are about the connections that stay;
* the row of a miner with two sessions says offline once one of them is closed, as
  when a miner reconnects before its old connection is removed, and it can then be
  deleted while it mines.  `MiningIsOnRecord` is about miners with a single
  session; the list is not misled (`MiningIsConnected`), for it looks at sessions
  first;
* a request whose answer from the monitoring server was overtaken marks newer
  sessions as gone until the next one: `MiningIsConnected` excepts it;
* the monitoring server is asked for one page of 100 clients and of 100 channels of each
  (`A/ui.rs:952`, `966`).  A session past the page has no row; if its miner had one, the
  merge marks it as gone, and a row hides the session of the registry, open
  or not (`A/ui.rs:1113`), so that a mining worker may be shown as not connected.
  `MiningIsConnected` excepts sessions that were on no page;
* recent blocks are looked up by height alone (`A/ui.rs:1682`, `1730`): after a
  reorganisation to a chain of the same height or a shorter one, the replaced block at
  the tip may stay on show until a longer chain comes.  `TipIsShown` is about the block
  itself, and excepts chains no longer than the longest that was replaced;
* after a stop by a signal on a terminal the process waits for one more key,
  because of the read that nothing can cancel, and a Ctrl+C pressed after the pool
  has failed is taken by the read that was given up: `HeardStops` excepts these;
* `ipc_socket_path` that does not end in `.sock` is a socket for the application and
  a directory for the pool, which then waits for a template for ever, while
  the dashboard says that the server was started.  `/api/health` is right not to
  call that ready;
* a crash between the two steps of `Persist` leaves a key file that every later
  start refuses, until someone removes it.  `KeysStay` holds all the same: no
  keys had been told;
* the comment before `P/channel_manager/template_distribution_message_handler.rs:205`
  speaks of the REQUIRES_STANDARD_JOBS flag, and the code tests the custom-work
  flag: a client that asked for standard jobs and opened an extended channel is sent the
  SetNewPrevHash of a group job that it was not sent.  `ClientWorksOnServerJob`
  says what such a channel's client then holds: no job, once its first is replaced.

## Fairness

Runs without liveness use `Spec`.  `connections` assumes that `remove_downstream`, which
never blocks, goes on, and that a running connection task wakes when its sender was
dropped or the token cancelled (weak fairness on exactly those steps; nothing is
assumed of clients or the provider).  The task's `select!` is biased towards the
client, so for `ConnectionsAreForgotten` this supposes a client that does not always
have a message ready.

`template_provider`, `tip_at_once` and `lost_wakeup` assume that a task which can run runs, that
the thread between `fetch_add` and `notify_waiters` goes on, and that time passes
(weak fairness), and strong fairness of `Exit`: `select!` polls its branches in
random order, so a token that stays cancelled is seen at some poll even if the
other branch is ready every time.  Nothing is assumed of Core's tip or of
connections.

`chain_view` assumes that each request goes on (every call has a time limit, and the
browser asks again every ten seconds) and that Core, once stopped, is started again.
Blocks and reorganisations are bounded, so that the chain settles in the end; that is
what `TipIsShown` is about.  `application` assumes that the runtime polls the tasks
that can go on: `main` and the pool's start.  The pool's end rests on the time limit of
its joins and on `StopsWhenCancelled` of the provider.  Nothing is assumed of
signals, keys, the socket, or the first template.

## What is proved

`JobStoreProofs` proves, for every set of templates and ids and every caps with
`StoreAssumption` (the caps are positive and no more stale jobs are kept than
past ones, which the code's constants satisfy):

* `StoreTypes`: `TypeOK`, with the caps on all three orders;
* `StoreIsExactWindow`: `WindowWithoutLeaks`;
* `SharesJudgedByTip`: `JudgedByTip`;
* `TipCanMove`: `NewestTemplatesActivate`.

All follow from one inductive invariant `IInv`.  The invariants are not inductive
alone: an order is pruned by position and a map by key, and the two remove the
same jobs only if no job occurs twice, in the store or among what it was given.
`IInv` is `StoreIsWindow` together with that fact about the history (all ids in it
are used ones, and no id occurs in two places); the maps then are the ids of the
orders.  The lemmas before it say that the pruning loop commutes with appending
and concatenating: the newest `n` of `s \o u` are the newest `n` of (the newest
`n` of `s`) `\o u`.  The step to a new tip (`ActivateFutureJob`) is the one that
needs them all: the past jobs and the active one move to the stale class and are
pruned there.

`ChannelManagerProofs` proves, for any number of connections (also infinitely
many), addresses, channels and messages, under `ManagerAssumption`:

* `MappedHaveSenders`: `ConnsHaveSenders`;
* `CounterIsExact`: `ActiveCounted`;
* `TablesFollowChannels`: `ChannelTablesAgree`;
* `RemovedAreForgotten`: a connection that has left and run through `remove_downstream`
  is in no shared map and has no vardiff entry.  This is the safety half of
  `ConnectionsAreForgotten`; that the removal is run through is the other, and needs
  fairness.

`LifeInv` is the invariant behind all four.  It relates the stage of a connection's
task, the removals that are under way and the messages in its queue: the channel
manager gets a connection's message only after its task runs, so it never removes
a connection that is still entering the maps; and whoever uncounts or drops the
sender of a connection has unmapped it, or found it unmapped.  The counter needs
in addition that the counted sets are finite and each step adds or removes one
element (`CountInv`); the channels, that an unmapped connection has none
(`ChannelInv`).  `DepartureInv` says which step of its own removal a connection that
left has behind it when it is out of a map: nothing puts it back, because the maps are
entered before the connection runs.  `StepKinds` sorts the actions of `Next` by what they do to the life
of a connection, so that handlers need not be looked at twice.

The same module proves about templates and jobs, for any number of templates and any
length of the queue:

* `StateIsTyped`: `TypeOK`;
* `StopsAtTipOnly`: `ShutdownOnlyWhileTipChanges`, an action property;
* `ChannelsFollowTip`: `ChannelsInStep`;
* `ClientsHoldServerJobs`: `ClientWorksOnServerJob`, for every kind of client;
* `JobsPayTheClient`: no job of an open channel pays the pool or an address that
  its client did not name; `OneAddressIsPaid`: hence `MinersArePaid`, if every client
  names one address only (`two_addresses` shows that it fails for two).

`StreamInv` reads the queue from the end where messages are taken: a SetNewPrevHash
names the future template right before it, which is either in front of it in
the queue or was handled last; nothing else follows a future template; and the numbers
grow.  So the ChannelManager lacks the second half of a tip (`~Settled`) only while that
half is at the head of the queue or still owed, and a bootstrap or an opening fails
in no other state.  `TypeInv` needs it with `LifeInv`: who sends mining messages has been
bootstrapped, so both halves of some tip have arrived, and the new channel's job is made
of a template that there is.

`JobsInv` says of each connection that gets templates: the group channel waits for the
announced tip or for nothing; each channel holds a job of the tip, and waits for the
announced one; the client holds what the server holds, or for an extended channel of a
client that asked for standard jobs no more than the opening job, and, unless it gets
jobs of its own,
the channel is in the group and waits for the very job that the group waits for, since
SetNewPrevHash is told to the group.  None of these conjuncts is inductive without
the others and `StreamInv`: a channel may be opened only when the tip is settled,
and a SetNewPrevHash that is handled names what everyone waits for.  Each handler's
effect on a connection is stated once, field by field (`WithTemplateFields`,
`WithPrevHashFields`, `OpenedFields`, ...), and `DataKinds` sorts the steps by them.
`PaysInv` adds that the payout identity is set before the first channel exists.

`TemplateProviderProofs` proves, for any tips, timers, cache sizes and numbers of
templates, under `ProviderAssumption`:

* `ProviderKeepsPromise`: `KeepsPromise`, that is, the provider implements
  `TemplateStream`;
* `RefreshesBuildOnTip`: `RefreshesMatchTip`.

`PromiseInv` says for each stage how many of the fetched templates were announced
and what is owed: a fetched template is pending or half announced exactly in the
stages between fetching and the end of publishing.  `TipInv` adds that the last
SetNewPrevHash sent is of `currentPrevHash` except while a tip is half announced,
and that a monitor asleep before a refresh has compared it with that tip; it is
not inductive without `PromiseInv`, which gives the newest id its meaning.

It proves on top of that, under the same assumption:

* `ProviderTypes`: `TypeOK`;
* `TipsComeInTime`: `TipLatency`;
* `CacheKeepsRecent`: `CacheServesRecent`.

`ClockInv` and `LateInv` say at each stage which timer bounds the wait: in the gate
and the throttle a tip is unpublished for no longer than the last request is old, in
the sleep before a refresh for no longer than the last template, and a request does not
wait on an old tip.  `TaskInv` ties the three places that name a template which is to
be forgotten: age and remaining sleep of its task add up to `StaleDelay`, so that no
task forgets too early or too late, and between the two messages of a tip change the
template is among those collected for the next task.  `CurrentInv` says that the others
are of the published tip, whose number the pruning bounds: of any set of numbers no more
than n have fewer than n above them (`NewestOfSet`).

`MinerHistoryProofs` proves, for any connections, miners, channels, failures and
restarts, under `HistoryAssumption`:

* `HistoryTypes`: `TypeOK`;
* `ConnectedAreKnown`: `ConnectedHaveSession`;
* `WriterCatchesUp`: `WriterKnowsOpenChannels`;
* `MinersAreOnRecord`: `MiningIsOnRecord`.

`ConnectedHaveSession` is not inductive: an opening applied to a session that the
writer knows already, of another miner, would take the only session of that miner.
`OpeningInv` excludes it: an opening on its way, in the queue or not yet sent, is of a
session that the writer does not know, there is at most one for each session, and
the channel exists, so that it is not opened again.  The rest is that closing writes
the rows of just the sessions it forgets, and that a row which could not be written
is of a miner in `unwritten`.

`WriterKnowsOpenChannels` says something only when nothing is on its way; `ToldInv` says
why it is so then.  `TruthInv`: every event on its way is true of its
channel, and the tasks that remove connections send nothing but that one has left.
`IsTold`: the opening of an open channel is applied or on its way, and behind every
opening of a closed one, applied or not, comes its closing.  The order counts only
within the queue and behind it the channel manager's one unsent event, so the events
of other tasks may come in between.

`RecordInv` does the same for the counts in the row: of each kind of share the last
event on its way has the count of the channel; if there is none, the row has it, or,
while the opening is still on its way, the count is zero; no count of a session comes
before its opening; and the row of a session that the writer knows is connected, so that
the dashboard does not delete it.  It speaks of sessions that are the only ones of their
miner: the writer's map and every queued opening belong to the channel's own miner
(`TruthInv`), so that no event of another session touches the row.  TLC checked it on the
instance of `miner_history`, and with three shares and a longer queue, before it was proved.

`ChainViewProofs` proves, for any set of requests, any limit and period, any chain,
reorganisations and outages, under `ChainViewAssumption`:

* `ChainTypes`: `TypeOK`;
* `CacheStaysWindow`: `CacheIsWindow`;
* `ListFollowsChain`: `NewerAboveOlder`;
* `ProjectsItsPeriod`: `ProjectionIsOfItsPeriod`.

A request stores a list that it put together over several steps, so its `IInv` says of
the lists under way what the properties say of the cache: `Stretch`, that the list
reaches without a gap up to just below the next height to fetch.  That a list never goes
back to an older branch needs what is known of a block and the chain that went on
without it: `NotAhead`, that the chain has at its height the same branch or a later one,
or has become shorter.  The period start needs that a cached block has the height
that it is cached under.

`ApplicationProofs` proves, for any number of processes and events, under
`ApplicationAssumption`:

* `ApplicationTypes`: `TypeOK`;
* `KeysAreForGood`: `KeysStay`;
* `TerminalIsRestored`: `TerminalRestored`.

`KeysInHand` follows the keys from their making to the start of the pool: they are
made only while there is no file, so that none has been told, and what is told is in
the file.  `TerminalPaired` says that the terminal is raw only while someone listens,
who knows what to restore, and that nobody listens but at the three places that wait.

`MinerListProofs` proves, for any sessions, miners, connections, requests, restarts and
lengths of the queue and of pages, under `MinerListAssumption`:

* `SpecTypeOK`: `TypeOK`;
* `SpecMiningIsConnected`: `MiningIsConnected`;
* `SpecConnectedIsRecent`: `ConnectedIsRecent`;
* `SpecKnownMinersStay`: `KnownMinersStay`.

What a request shows is of several moments, so its `IInv` says of each request under way
what its local variables still have to do with the present.  `AskInv`: an open session
that anyone has heard of is in the monitoring server's cache, and a request that was not
overtaken has among its rows, has still to ask for, or may have been left without by a
page, the sessions that are merged and open; without that a merge could mark a session
as gone that is open.  `SnapshotInv`: a
session that is `open` in the snapshot was open during the request, and one whose closing
is still queued is `closed` there, which is why a table that lags behind never shows.
`QueueInv` keeps the events in the order of what they tell of.

`MinerIdentityProofs` proves, for texts of any length made of the model's tokens, under
`MinerIdentityAssumption` (that an error is not a token):

* `NamedAddressIsPaid`: `PaysWhomItNames`;
* `AcceptedMinersAreListed`: `AcceptedIsListed`.

No induction over texts is needed.  `LeastNumber`, from the library's theorem that `<` is
well-founded, gives the first separator and the first and last ink of a text; `CutAfterOne`
says when what is before a separator is one given token, and cutting twice more gives the
three accepted forms token by token (`PoolReads`).  `TrimKeepsForms` says that a
text in one of these forms is still in it when it has been trimmed, as the application does
and the pool does not.

Every safety property of the passing runs is proved.  Only model-checked are the five
liveness properties, `ConnectionsAreForgotten`, `StopsWhenCancelled`, `TipIsShown`,
`HeardStops` and `ReadyComesTrue`: liveness under fairness is beyond the prover, as are
ENABLED and inductions over data.

## Not modelled

Job declaration and the SV2 template provider client are never started by Canary; the
test miner is a development client.  The protocol's framing, noise handshake and
extension negotiation, share validation and difficulty adjustment are data that no
property here tells apart, or external (`channels_sv2`).  Of the dashboard, static
files, pool names, formatting, sums and times are left out; the exchange rates are a
cache without an invariant worth a run (the slower of two requests may leave the older
rate, with its own time).  TOML parsing and defaults are sequential.

## Plan

1. Done: all modules above with their runs, and the eight proof modules.
2. A composition of the template cache, the queue and a job store: whatever share
   a miner may still submit finds its template, across the pruning of both sides.
3. Shares and vardiff: the handlers of SubmitShares and the adjustment of targets; the
   accept loop and the connection setup that has no timeout.

Abstract specifications worth stating: the stream (done), a registry of miners
that history and dashboard implement, and a lossless cache for 2.
