------------------------------ MODULE MinerList ------------------------------
(***************************************************************************)
(* The dashboard's list of miners (fetch_current_miners and                *)
(* fetch_miner_workers of ui.rs), put together from three places: what the *)
(* SRI monitoring server says, where one is configured, merged into the    *)
(* map seen_miners that all requests share; the sessions of the registry   *)
(* (miner_stats.rs); and the table of known miners (history.rs).           *)
(*                                                                         *)
(* A request for /api/status asks the monitoring server for one page of    *)
(* its clients, then for one page of the channels of each, merges the      *)
(* rows, takes a snapshot of the registry and reads the table.  Others do  *)
(* the same meanwhile, channels open and close, the monitoring server      *)
(* refreshes its own cache now and then, miners are deleted, the program   *)
(* is started again.                                                       *)
(*                                                                         *)
(* Registry, queue and writer are those of MinerHistory, reduced to what   *)
(* the list shows of them: a session is open or closed, an event is        *)
(* queued with the change that it tells of, every write succeeds.  Each    *)
(* session is that of one miner, whose id is the key of rows, workers and  *)
(* the table.  Shares, hash rate, times and the grace of a miner seen      *)
(* lately are sums and maxima over the sessions of a worker, and left out; *)
(* so is the order in which workers are shown.                             *)
(***************************************************************************)
EXTENDS Naturals, Sequences, FiniteSets

CONSTANTS
  Sessions,   \* client id, channel kind and channel id
  Miners,     \* miner_ids
  MinerOf,    \* the miner of each session
  Clients,    \* their connections
  ClientOf,   \* the connection of each session
  Others,     \* the most connections, and channels of each, besides
  Requests,   \* requests for /api/status
  None,       \* Option::None
  ClientsPage,   \* limit=100 of clients
  ChannelsPage,  \* limit=100 of channels
  MaxQueued      \* bound: events that the writer has not applied

Row == [session : Sessions, connected : BOOLEAN]

ASSUME MinerListAssumption ==
  /\ MinerOf \in [Sessions -> Miners] /\ ClientOf \in [Sessions -> Clients]
  /\ None \notin Sessions /\ None \notin BOOLEAN /\ None \notin Row
  /\ Others \in Nat /\ ClientsPage \in Nat /\ ChannelsPage \in Nat
  /\ MaxQueued \in Nat

VARIABLES
  session,    \* MinerStatsRegistry.sessions
  events,     \* the channel between registry and writer
  known,      \* the table known_miners: connected or not
  monitored,  \* the monitoring server's cache of open channels
  seen,       \* UiState.seen_miners
  unsure,     \* history: sessions that the answer merged last could overlook
  deleted,    \* history: miners deleted and not opened again since
  request     \* where each request is, and its local variables

registryVars == <<session, events, known, deleted>>
seenVars == <<seen, unsure>>
vars == <<registryVars, monitored, seenVars, request>>

Of(m) == {s \in Sessions : MinerOf[s] = m}
In(state) == {s \in Sessions : session[s] = state}

\* ever: miners with a session open at some time of the request; steady:
\* sessions open at all times, and after the merge those that it could not
\* overlook; gone: miners deleted before the request and not opened since;
\* kept: miners in the table or the registry, and not deleted, at all times.
NoRequest ==
  [pc |-> "idle", clients |-> {}, answered |-> FALSE, rows |-> {},
   seen |-> None, stats |-> None, unsure |-> {},
   ever |-> {}, steady |-> {}, gone |-> {}, kept |-> {}]

Init ==
  /\ session = [s \in Sessions |-> "none"]
  /\ events = <<>>
  /\ known = [m \in Miners |-> None]
  /\ monitored = {}
  /\ seen = [m \in Miners |-> None]
  /\ unsure = {}
  /\ deleted = {}
  /\ request = [r \in Requests |-> NoRequest]

\* Miners of whom there is a row or a session.
Present(sess, table) ==
  {m \in Miners : table[m] # None \/ \E s \in Of(m) : sess[s] \in {"open", "closed"}}

\* What the requests under way see of a change of registry and table.
Observe ==
  request' = [r \in Requests |->
    IF request[r].pc = "idle" THEN NoRequest
    ELSE LET open == {s \in Sessions : session'[s] = "open"} IN
         [request[r] EXCEPT !.ever = @ \cup {MinerOf[s] : s \in open}, !.steady = @ \cap open,
                            !.gone = @ \cap deleted',
                            !.kept = (@ \cap Present(session', known')) \ deleted']]

-----------------------------------------------------------------------------
(* The registry, its events and the table.                                 *)

Emit(kind, s) ==
  /\ Len(events) < MaxQueued
  /\ events' = Append(events, [kind |-> kind, session |-> s])

RecordChannelOpened(s) ==
  /\ session[s] = "none"
  /\ session' = [session EXCEPT ![s] = "open"]
  /\ Emit("opened", s)
  /\ deleted' = deleted \ {MinerOf[s]}
  /\ UNCHANGED known

RecordChannelClosed(s) ==
  /\ session[s] = "open"
  /\ session' = [session EXCEPT ![s] = "closed"]
  /\ Emit("closed", s)
  /\ UNCHANGED <<known, deleted>>

ApplyEvent ==
  /\ events # <<>> /\ events' = Tail(events)
  /\ LET e == Head(events)
         m == MinerOf[e.session]
     IN known' = IF e.kind = "closed" /\ known[m] = None THEN known
                 ELSE [known EXCEPT ![m] = (e.kind = "opened")]
  /\ UNCHANGED <<session, deleted>>

\* api_delete_miner
DeleteMiner(m) ==
  /\ known[m] = FALSE
  /\ known' = [known EXCEPT ![m] = None]
  /\ deleted' = deleted \cup {m}
  /\ UNCHANGED <<session, events>>

Registry ==
  /\ \/ \E s \in Sessions : RecordChannelOpened(s) \/ RecordChannelClosed(s)
     \/ ApplyEvent
     \/ \E m \in Miners : DeleteMiner(m)
  /\ Observe
  /\ UNCHANGED <<monitored, seenVars>>

\* The monitoring server copies the open channels every cache_refresh_secs.
RefreshMonitoring ==
  /\ monitored # In("open")
  /\ monitored' = In("open")
  /\ UNCHANGED <<registryVars, seenVars, request>>

\* The process ends, with all but the table, and is started again.
Restart ==
  /\ session' = [s \in Sessions |-> "none"]
  /\ events' = <<>>
  /\ known' = [m \in Miners |-> IF known[m] = None THEN None ELSE FALSE]
  /\ monitored' = {}
  /\ seen' = [m \in Miners |-> None]
  /\ unsure' = {}
  /\ request' = [r \in Requests |-> NoRequest]
  /\ UNCHANGED <<deleted>>

-----------------------------------------------------------------------------
(* A request.                                                              *)

Move(r, new) == request' = [request EXCEPT ![r] = new]

Started ==
  [NoRequest EXCEPT !.ever = {MinerOf[s] : s \in In("open")},
                    !.steady = In("open"), !.gone = deleted,
                    !.kept = Present(session, known) \ deleted]

\* A page has as many items as there is room for, in the order of a hash map,
\* so that any of them may be left out once they and others fill it.  Others
\* are clients without a channel, and channels of other miners.
Page(page, items, limit) ==
  /\ Cardinality(page) <= limit
  /\ items \subseteq page \/ Cardinality(page) + Others >= limit

Open(c) == {s \in monitored : ClientOf[s] = c}

\* Where no monitoring server is configured, or it does not answer, there are
\* no rows.
FetchClients(r) ==
  /\ request[r].pc = "idle"
  /\ \/ Move(r, [Started EXCEPT !.pc = "merge"])
     \/ \E page \in SUBSET Clients :
          /\ Page(page, {ClientOf[s] : s \in monitored}, ClientsPage)
          /\ Move(r, [Started EXCEPT !.pc = "merge", !.answered = TRUE, !.clients = page,
                                    !.unsure = {s \in monitored : ClientOf[s] \notin page}])
  /\ UNCHANGED <<registryVars, monitored, seenVars>>

\* One client after the other; when one answer does not come, all rows are
\* given up.  Of a client that has left there are no channels.
FetchChannels(r) ==
  LET q == request[r] IN
  /\ q.clients # {}
  /\ \/ Move(r, [q EXCEPT !.clients = {}, !.answered = FALSE, !.rows = {}, !.unsure = {}])
     \/ \E c \in q.clients : \E page \in SUBSET Open(c) :
          /\ Page(page, Open(c), ChannelsPage)
          /\ Move(r, [q EXCEPT !.clients = @ \ {c}, !.rows = @ \cup page,
                               !.unsure = @ \cup (Open(c) \ page)])
  /\ UNCHANGED <<registryVars, monitored, seenVars>>

\* Mutant: a miner without a row gets one when others are marked offline.
MergedForAll(old, answered, rows, last) ==
  IF ~answered THEN old
  ELSE [session |-> IF rows # {} THEN last ELSE IF old = None THEN None ELSE old.session,
        connected |-> rows # {}]

\* merge_seen_miners for one miner: only a sample that did come is taken for
\* the truth; of several rows of a miner the last one stays.
Merged(old, answered, rows, last) ==
  IF ~answered THEN old
  ELSE IF rows # {} THEN [session |-> last, connected |-> TRUE]
  ELSE IF old = None THEN None
  ELSE [old EXCEPT !.connected = FALSE]

\* fetch_connected_miners, under the lock of seen_miners
MergeSeenMiners(r) ==
  LET q == request[r]
      rows(m) == q.rows \cap Of(m)
  IN
  /\ q.pc = "merge" /\ q.clients = {}
  /\ \E last \in [Miners -> Sessions] :
       /\ \A m \in Miners : IF rows(m) = {} THEN last[m] = CHOOSE s \in Sessions : TRUE
                            ELSE last[m] \in rows(m)
       /\ seen' = [m \in Miners |-> Merged(seen[m], q.answered, rows(m), last[m])]
  /\ unsure' = IF q.answered THEN q.unsure ELSE unsure
  /\ request' = [other \in Requests |->
       IF other = r
       THEN [q EXCEPT !.pc = "stats", !.answered = FALSE, !.rows = {}, !.unsure = {},
                      !.seen = seen', !.steady = @ \ unsure']
       ELSE [request[other] EXCEPT
               !.unsure = IF q.answered /\ request[other].answered THEN Sessions ELSE @]]
  /\ UNCHANGED <<registryVars, monitored>>

\* snapshots, which also drops the sessions that were closed seven days ago;
\* no event waits for that long.
TakeSnapshots(r) ==
  LET q == request[r] IN
  /\ q.pc = "stats"
  /\ \E dropped \in SUBSET In("closed") :
       /\ events # <<>> => dropped = {}
       /\ session' = [s \in Sessions |-> IF s \in dropped THEN "dropped" ELSE session[s]]
  /\ request' = [other \in Requests |->
       IF request[other].pc = "idle" THEN NoRequest
       ELSE [request[other] EXCEPT
               !.kept = @ \cap Present(session', known),
               !.stats = IF other = r THEN session' ELSE @,
               !.pc = IF other = r THEN "known" ELSE @]]
  /\ UNCHANGED <<events, known, deleted, monitored, seenVars>>

\* The table is read, or cannot be, and the answer is given.
Answer(r) ==
  /\ request[r].pc = "known"
  /\ Move(r, NoRequest)
  /\ UNCHANGED <<registryVars, monitored, seenVars>>

Next ==
  \/ Registry
  \/ RefreshMonitoring
  \/ Restart
  \/ \E r \in Requests : FetchClients(r) \/ FetchChannels(r) \/ MergeSeenMiners(r)
                           \/ TakeSnapshots(r) \/ Answer(r)

Spec == Init /\ [][Next]_vars

-----------------------------------------------------------------------------
(* build_miner_workers: the sessions shown of a miner, with where each is  *)
(* from.                                                                   *)

Shown(s, connected, from) == [session |-> s, connected |-> connected, from |-> from]

\* miner_session_from_row
RowSessions(q, m) ==
  IF q.seen[m] = None THEN {} ELSE {Shown(q.seen[m].session, q.seen[m].connected, "row")}

\* Mutant: the row of a miner hides all its sessions.
StatSessionsWithoutRow(q, m) ==
  IF q.seen[m] # None THEN {}
  ELSE {Shown(s, q.stats[s] = "open", "stat") :
          s \in {s \in Of(m) : q.stats[s] \in {"open", "closed"}}}

\* miner_session_from_stat, of the sessions that no row has taken
StatSessions(q, m) ==
  LET others == {s \in Of(m) : q.stats[s] \in {"open", "closed"}}
                  \ {shown.session : shown \in RowSessions(q, m)}
  IN {Shown(s, q.stats[s] = "open", "stat") : s \in others}

\* miner_session_from_known_miner
KnownSession(table, m) == Shown(None, table[m], "known")

\* Mutant: the table tells whether a miner is connected.
WorkerByTable(q, table, m) ==
  IF table[m] # None THEN {KnownSession(table, m)}
  ELSE RowSessions(q, m) \cup StatSessions(q, m)

\* Mutant: the table is not looked at.
WorkerWithoutTable(q, table, m) == RowSessions(q, m) \cup StatSessions(q, m)

\* A known miner that has no session yet; a miner without any session shown
\* is not in the list.
Worker(q, table, m) ==
  LET live == RowSessions(q, m) \cup StatSessions(q, m) IN
  IF live = {} /\ table[m] # None THEN {KnownSession(table, m)} ELSE live

\* finalize_worker
IsConnected(worker) == \E shown \in worker : shown.connected

Unread == [m \in Miners |-> None]

-----------------------------------------------------------------------------
(* What can be relied on, of every request about to be answered.           *)

Answering == {q \in {request[r] : r \in Requests} : q.pc = "known"}

\* Types and bounds.
TypeOK ==
  /\ unsure \subseteq Sessions
  /\ session \in [Sessions -> {"none", "open", "closed", "dropped"}]
  /\ events \in Seq([kind : {"opened", "closed"}, session : Sessions]) /\ Len(events) <= MaxQueued
  /\ known \in [Miners -> BOOLEAN \cup {None}]
  /\ monitored \subseteq Sessions
  /\ seen \in [Miners -> Row \cup {None}]
  /\ deleted \subseteq Miners

\* A miner with a session that was open from the first call of the request
\* to its answer is shown as connected, whatever became of its other
\* sessions, whatever monitoring did not know yet, and whatever rows are
\* kept of earlier answers.  Two exceptions, in both of which a session is
\* taken for one that is gone: the answers of the monitoring server are
\* older than what has been merged meanwhile, and the session was on none
\* of the pages that were merged last.
MiningIsConnected ==
  \A q \in Answering, table \in {known, Unread}, m \in Miners :
    q.steady \cap Of(m) # {} => IsConnected(Worker(q, table, m))

\* A miner is shown as connected only if one of its sessions was open at
\* some time of the request, or a monitoring row, which may be older, says
\* so; never because the table, which lags behind, has not been told yet.
ConnectedIsRecent ==
  \A q \in Answering, m \in Miners :
    LET worker == Worker(q, known, m) IN
    IsConnected(worker) /\ m \notin q.ever =>
      \E shown \in worker : shown.connected /\ shown.from = "row"

\* "Known miners stay here after disconnecting" (ui/index.html): a miner
\* that has been in registry or table all the time, and is not deleted, is
\* listed whenever the table can be read.
KnownMinersStay ==
  \A q \in Answering : \A m \in q.kept : Worker(q, known, m) # {}

\* "Delete a miner when you no longer want it listed" (the same tooltip):
\* a miner deleted before the request, with no channel opened since, is not
\* listed.  The code does not keep this: the registry and seen_miners
\* still have its sessions.
DeletedIsUnlisted ==
  \A q \in Answering : \A m \in q.gone : Worker(q, known, m) = {}
=============================================================================
