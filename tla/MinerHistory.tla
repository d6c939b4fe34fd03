---------------------------- MODULE MinerHistory ----------------------------
(***************************************************************************)
(* MinerStatsRegistry (miner_stats.rs) and MinerHistory (history.rs): the  *)
(* sessions of the channels, the events that tell of them, and the table   *)
(* known_miners that a thread of its own writes from these events and that *)
(* the dashboard deletes from.                                             *)
(*                                                                         *)
(* The ChannelManager's task opens and closes channels and judges shares;  *)
(* a connection is removed by its own task or by the ChannelManager's.     *)
(* Each of them changes the registry under its lock and sends the event    *)
(* after it, so the two are steps of their own and another task may come   *)
(* in between.  The queue of events has no bound.  A crash, or an orderly  *)
(* exit, which does not wait for the writer, loses the registry, the queue *)
(* and the writer's map of sessions; the table stays.                      *)
(*                                                                         *)
(* A session is a <<connection, channel>>: both numbers are given out once *)
(* in a run; as no map that uses them outlives the run, connections of all *)
(* runs have different numbers here.  A connection that has not left is in *)
(* the ChannelManager's map or will be; the registry is not told of that.  *)
(* Miners are the miner_ids of the identities that parse; others get no    *)
(* row.  Of a row the connected flag and the two share counters are kept;  *)
(* times, hashrate and difficulty are left out, as are BlockFound, which   *)
(* the writer ignores, and the dashboard's forgetting of sessions closed   *)
(* seven days ago, of which no event tells.                                *)
(***************************************************************************)
EXTENDS Naturals, Sequences, FiniteSets, FiniteSetsExt

CONSTANTS
  Conns,        \* downstream ids
  Miners,       \* miner_ids: network, payout address and label
  CM,           \* the ChannelManager's task
  None,         \* Option::None
  MaxChannel,   \* bound: channels opened on a connection
  MaxOpened,    \* bound: channels opened in a run
  MaxShares,    \* bound: shares submitted in a run
  MaxFailures,  \* bound: writes to the database that fail
  MaxQueued,    \* bound: events in the queue, which has none in the code
  MaxRuns       \* bound: runs of the program

Task == Conns \cup {CM}
Session == Conns \X (1..MaxChannel)

\* What is known of a session; closing it keeps the counts.
SessionStats == [miner : Miners, open : BOOLEAN, accepted : Nat, rejected : Nat]
Row == [connected : BOOLEAN, accepted : Nat, rejected : Nat]
Event ==
  [kind : {"opened"}, session : Session, miner : Miners]
    \cup [kind : {"closed"}, session : Session]
    \cup [kind : {"accepted", "rejected"}, session : Session, count : Nat]
    \cup [kind : {"left"}, conn : Conns]

ASSUME HistoryAssumption ==
  /\ None \notin Miners /\ None \notin Conns
  /\ None \notin SessionStats /\ None \notin Row
  /\ CM \notin Conns
  /\ {MaxChannel, MaxOpened, MaxShares, MaxFailures, MaxQueued, MaxRuns} \subseteq Nat

VARIABLES
  gone,       \* connections that have left the ChannelManager's map
  channels,   \* the ChannelManager's channels, with the miner and its counts
  sessions,   \* MinerStatsRegistry.sessions
  emitting,   \* what each task has recorded and not yet sent
  removing,   \* the connection that each task is in remove_downstream for
  events,     \* the channel between registry and writer
  writer,     \* the writer's map from session to miner_id
  known,      \* the table known_miners
  failures,   \* writes that have failed
  unwritten,  \* history: miners of whom a write has failed in this run
  runs        \* runs of the program so far

registryVars == <<sessions, emitting>>
writerVars == <<events, writer, known, failures, unwritten>>
vars == <<gone, channels, removing, runs, registryVars, writerVars>>

Opened(m) == [miner |-> m, open |-> TRUE, accepted |-> 0, rejected |-> 0]
NoRow == [connected |-> FALSE, accepted |-> 0, rejected |-> 0]

Fresh(f) == [x \in DOMAIN f |-> None]

-----------------------------------------------------------------------------
(* The registry.  A task that has recorded something sends it before it    *)
(* does anything else.                                                     *)

Init ==
  /\ gone = {}
  /\ channels = [s \in Session |-> None]
  /\ sessions = [s \in Session |-> None]
  /\ emitting = [t \in Task |-> <<>>]
  /\ removing = [t \in Task |-> None]
  /\ events = <<>>
  /\ writer = [s \in Session |-> None]
  /\ known = [m \in Miners |-> None]
  /\ failures = 0
  /\ unwritten = {}
  /\ runs = 1

Idle(t) == emitting[t] = <<>> /\ removing[t] = None

IsOpen(s) == channels[s] # None /\ channels[s].open
Listed(s) == sessions[s] # None /\ sessions[s].open

\* The handlers of OpenStandardMiningChannel and OpenExtendedMiningChannel.
RecordChannelOpened(s, m) ==
  /\ Idle(CM) /\ s[1] \notin gone
  /\ Cardinality({other \in Session : channels[other] # None}) < MaxOpened
  /\ channels[s] = None /\ \A i \in 1..s[2] - 1 : channels[<<s[1], i>>] # None
  /\ channels' = [channels EXCEPT ![s] = Opened(m)]
  /\ sessions' = [sessions EXCEPT ![s] = Opened(m)]
  /\ emitting' = [emitting EXCEPT ![CM] = <<[kind |-> "opened", session |-> s, miner |-> m]>>]
  /\ UNCHANGED <<gone, removing, runs, writerVars>>

Shares(s) == channels[s].accepted + channels[s].rejected

CanSubmit(s) ==
  /\ Idle(CM) /\ s[1] \notin gone /\ IsOpen(s)
  /\ MapThenSumSet(Shares, {other \in Session : channels[other] # None}) < MaxShares

\* Of accepted shares the registry is given the channel's own count.  (The
\* session of a channel that is in the map is always known.)
RecordShareAccepted(s) ==
  LET count == channels[s].accepted + 1 IN
  /\ CanSubmit(s)
  /\ channels' = [channels EXCEPT ![s].accepted = count]
  /\ sessions' = [sessions EXCEPT ![s].accepted = count]
  /\ emitting' = [emitting EXCEPT ![CM] =
                    <<[kind |-> "accepted", session |-> s, count |-> count]>>]
  /\ UNCHANGED <<gone, removing, runs, writerVars>>

\* Rejected shares are counted by the registry alone.
RecordShareRejected(s) ==
  /\ CanSubmit(s)
  /\ channels' = [channels EXCEPT ![s].rejected = @ + 1]
  /\ sessions' = [sessions EXCEPT ![s].rejected = @ + 1]
  /\ emitting' = [emitting EXCEPT ![CM] =
       <<[kind |-> "rejected", session |-> s, count |-> sessions[s].rejected + 1]>>]
  /\ UNCHANGED <<gone, removing, runs, writerVars>>

\* The handler of CloseChannel.
RecordChannelClosed(s) ==
  /\ Idle(CM) /\ s[1] \notin gone /\ IsOpen(s)
  /\ channels' = [channels EXCEPT ![s].open = FALSE]
  /\ sessions' = [sessions EXCEPT ![s].open = FALSE]
  /\ emitting' = [emitting EXCEPT ![CM] = <<[kind |-> "closed", session |-> s]>>]
  /\ UNCHANGED <<gone, removing, runs, writerVars>>

\* Mutant: the event is sent inside the loop.
ClosedEventsEach(c, open) == [i \in 1..Cardinality(open) |-> [kind |-> "left", conn |-> c]]

\* One event for all the sessions closed, if there are any.
ClosedEvents(c, open) == IF open = {} THEN <<>> ELSE <<[kind |-> "left", conn |-> c]>>

\* remove_downstream, which may come late and again, closes the sessions of the
\* connection first ...
RecordDownstreamClosed(t, c) ==
  LET open == {s \in Session : s[1] = c /\ Listed(s)} IN
  /\ t \in {c, CM} /\ Idle(t)
  /\ removing' = [removing EXCEPT ![t] = c]
  /\ sessions' = [s \in Session |->
                    IF s \in open THEN [sessions[s] EXCEPT !.open = FALSE] ELSE sessions[s]]
  /\ emitting' = [emitting EXCEPT ![t] = ClosedEvents(c, open)]
  /\ UNCHANGED <<gone, channels, runs, writerVars>>

Emit(t) ==
  /\ emitting[t] # <<>> /\ Len(events) < MaxQueued
  /\ events' = events \o emitting[t]
  /\ emitting' = [emitting EXCEPT ![t] = <<>>]
  /\ UNCHANGED <<gone, channels, sessions, removing, runs, writer, known, failures, unwritten>>

\* ... and takes the connection out of the map when that is sent.
RemoveDownstream(t) ==
  /\ removing[t] # None /\ emitting[t] = <<>>
  /\ gone' = gone \cup {removing[t]}
  /\ channels' = [s \in Session |->
       IF s[1] = removing[t] /\ IsOpen(s) THEN [channels[s] EXCEPT !.open = FALSE] ELSE channels[s]]
  /\ removing' = [removing EXCEPT ![t] = None]
  /\ UNCHANGED <<runs, registryVars, writerVars>>

-----------------------------------------------------------------------------
(* The writer thread: it applies the events in their order; every          *)
(* statement commits by itself, and one that fails is only logged.         *)

\* Mutant: the row of a known miner keeps its counts.
WithOpenMinerCounting(m) ==
  [known EXCEPT ![m] = IF known[m] = None THEN [NoRow EXCEPT !.connected = TRUE]
                       ELSE [known[m] EXCEPT !.connected = TRUE]]

\* upsert_open_miner
WithOpenMiner(m) == [known EXCEPT ![m] = [NoRow EXCEPT !.connected = TRUE]]

\* close_miner for some miners: an UPDATE, which creates no row.
WithClosedMiners(ms) ==
  [m \in Miners |-> IF m \in ms /\ known[m] # None
                    THEN [known[m] EXCEPT !.connected = FALSE] ELSE known[m]]

\* update_known_session
WithCount(s, kind, count) ==
  LET m == writer[s] IN
  IF m = None \/ known[m] = None THEN known
  ELSE IF kind = "accepted" THEN [known EXCEPT ![m].accepted = count]
  ELSE [known EXCEPT ![m].rejected = count]

\* The table gets its new contents, unless the write fails.
Write(table, m) ==
  \/ known' = table /\ UNCHANGED <<failures, unwritten>>
  \/ /\ m # None /\ failures < MaxFailures
     /\ failures' = failures + 1 /\ unwritten' = unwritten \cup {m}
     /\ UNCHANGED known

Take == events # <<>> /\ events' = Tail(events)

ApplyOpened ==
  LET e == Head(events) IN
  /\ Take /\ e.kind = "opened"
  /\ writer' = [writer EXCEPT ![e.session] = e.miner]
  /\ Write(WithOpenMiner(e.miner), e.miner)
  /\ UNCHANGED <<gone, channels, removing, runs, registryVars>>

ApplyClosed ==
  LET e == Head(events) IN
  /\ Take /\ e.kind = "closed"
  /\ writer' = [writer EXCEPT ![e.session] = None]
  /\ Write(WithClosedMiners({writer[e.session]}), writer[e.session])
  /\ UNCHANGED <<gone, channels, removing, runs, registryVars>>

\* Mutant: sessions of other connections leave the map as well.
ApplyDownstreamClosedToAll ==
  /\ Take /\ Head(events).kind = "left"
  /\ writer' = Fresh(writer)
  /\ known' = WithClosedMiners({writer[s] : s \in Session})
  /\ UNCHANGED <<gone, channels, removing, runs, registryVars, failures, unwritten>>

\* All sessions of the connection leave the map before the first row is
\* closed; a failed write leaves the other rows as they are.
ApplyDownstreamClosed ==
  LET e  == Head(events)
      ms == {writer[s] : s \in {s \in Session : s[1] = e.conn}} \ {None}
  IN
  /\ Take /\ e.kind = "left"
  /\ writer' = [s \in Session |-> IF s[1] = e.conn THEN None ELSE writer[s]]
  /\ \/ known' = WithClosedMiners(ms) /\ UNCHANGED <<failures, unwritten>>
     \/ \E closed \in SUBSET ms :
          /\ closed # ms /\ failures < MaxFailures
          /\ known' = WithClosedMiners(closed)
          /\ failures' = failures + 1 /\ unwritten' = unwritten \cup (ms \ closed)
  /\ UNCHANGED <<gone, channels, removing, runs, registryVars>>

ApplyShare ==
  LET e == Head(events) IN
  /\ Take /\ e.kind \in {"accepted", "rejected"}
  /\ Write(WithCount(e.session, e.kind, e.count), writer[e.session])
  /\ UNCHANGED <<gone, channels, removing, runs, registryVars, writer>>

ApplyEvent == ApplyOpened \/ ApplyClosed \/ ApplyDownstreamClosed \/ ApplyShare

-----------------------------------------------------------------------------
(* The dashboard and the program as a whole.                               *)

\* api_delete_miner, delete_offline_miner
DeleteOfflineMiner(m) ==
  /\ known[m] # None /\ ~known[m].connected
  /\ known' = [known EXCEPT ![m] = None]
  /\ UNCHANGED <<gone, channels, removing, runs, registryVars, events, writer, failures, unwritten>>

\* What ends with the process.
LoseMemory ==
  /\ runs < MaxRuns
  /\ runs' = runs + 1
  /\ gone' = gone \cup {c \in Conns : \E i \in 1..MaxChannel : channels[<<c, i>>] # None}
  /\ channels' = Fresh(channels)
  /\ sessions' = Fresh(sessions)
  /\ emitting' = [t \in Task |-> <<>>]
  /\ removing' = Fresh(removing)
  /\ events' = <<>>
  /\ writer' = Fresh(writer)
  /\ unwritten' = {}
  /\ UNCHANGED failures

\* Mutant: the table is taken as the last run left it.
RestartUnmarked == LoseMemory /\ UNCHANGED known

\* The process ends, at any moment, and is started again: open marks all
\* miners as disconnected before there is a writer.
Restart == LoseMemory /\ known' = WithClosedMiners(Miners)

ChannelManager ==
  \E s \in Session :
    \/ \E m \in Miners : RecordChannelOpened(s, m)
    \/ RecordShareAccepted(s)
    \/ RecordShareRejected(s)
    \/ RecordChannelClosed(s)

Remover == \E t \in Task : RemoveDownstream(t) \/ \E c \in Conns : RecordDownstreamClosed(t, c)

Next ==
  \/ ChannelManager
  \/ Remover
  \/ \E t \in Task : Emit(t)
  \/ ApplyEvent
  \/ \E m \in Miners : DeleteOfflineMiner(m)
  \/ Restart

Spec == Init /\ [][Next]_vars

-----------------------------------------------------------------------------
(* What can be relied on.                                                  *)

\* Types and bounds.
TypeOK ==
  /\ gone \subseteq Conns
  /\ channels \in [Session -> SessionStats \cup {None}]
  /\ sessions \in [Session -> SessionStats \cup {None}]
  /\ emitting \in [Task -> Seq(Event)] /\ \A t \in Task : Len(emitting[t]) <= 1
  /\ removing \in [Task -> Conns \cup {None}]
  /\ events \in Seq(Event)
  /\ writer \in [Session -> Miners \cup {None}]
  /\ known \in [Miners -> Row \cup {None}]
  /\ failures \in 0..MaxFailures
  /\ unwritten \subseteq Miners
  /\ runs \in 1..MaxRuns \cup {1}

\* A miner is on record as connected only while the writer knows a session
\* of it, opened in this run of the program, unless a write about that
\* miner has failed: not after its last session was closed, and not after
\* a crash that no event told of (mark_miners_disconnected).
ConnectedHaveSession ==
  \A m \in Miners :
    known[m] # None /\ known[m].connected /\ m \notin unwritten =>
      \E s \in Session : writer[s] = m

Staying(s) == s[1] \notin gone /\ \A t \in Task : removing[t] # s[1]

Quiet == events = <<>> /\ emitting[CM] = <<>>

\* Once the queue is worked off, the writer knows exactly the open channels
\* of every connection that stays, whatever other connections, whose events
\* come from other tasks, did in between: no close event takes more than
\* it should, none comes before its opening, none is lost.
WriterKnowsOpenChannels ==
  Quiet => \A s \in Session : Staying(s) =>
             writer[s] = IF IsOpen(s) THEN channels[s].miner ELSE None

\* The only session of its miner in this run.
Sole(s) ==
  \A other \in Session \ {s} : channels[other] = None \/ channels[other].miner # channels[s].miner

\* Then the row of a miner with a single session says that it is connected
\* and has the counts of the channel: the order of the events is that of
\* the shares, reopening starts from zero, and deletion never takes it.
MiningIsOnRecord ==
  Quiet => \A s \in Session :
    Staying(s) /\ IsOpen(s) /\ Sole(s) /\ channels[s].miner \notin unwritten =>
      known[channels[s].miner] = [connected |-> TRUE, accepted |-> channels[s].accepted,
                                  rejected |-> channels[s].rejected]
=============================================================================
