------------------------- MODULE MinerHistoryProofs -------------------------
(***************************************************************************)
(* The table of known miners, for every number of connections, miners,     *)
(* channels, failed writes and restarts: a miner is on record as connected *)
(* only while the writer knows a session of it, opened in this run.        *)
(*                                                                         *)
(* That alone is not inductive: an opening applied to a session that the   *)
(* writer knows already, of another miner, would take the one session of   *)
(* that miner.  So an opening on its way is of a session that the writer   *)
(* does not know, and there is one for each session at most.               *)
(*                                                                         *)
(* The third part proves that the writer, once the queue is worked off,    *)
(* knows the open channels of the connections that stay: what it knows and *)
(* the order of the events on their way lead to the channels as they are.  *)
(* The last one proves that the row of a miner with a single session then  *)
(* has the counts of the channel.                                          *)
(***************************************************************************)
EXTENDS MinerHistory, SequenceTheorems, TLAPS

IsOpening(e) == e.kind = "opened"

\* The registry knows the channels of the ChannelManager.
SessionsKnown == \A s \in Session : channels[s] = None <=> sessions[s] = None

TypeInv == TypeOK /\ SessionsKnown

WriterOfChannels == \A s \in Session : writer[s] # None => channels[s] # None

QueuedOpenings ==
  /\ \A i \in 1..Len(events) : IsOpening(events[i]) =>
       channels[events[i].session] # None /\ writer[events[i].session] = None
  /\ \A i, j \in 1..Len(events) :
       IsOpening(events[i]) /\ IsOpening(events[j]) /\ events[i].session = events[j].session
         => i = j

EmittedOpenings ==
  /\ \A t \in Conns : \A i \in 1..Len(emitting[t]) : ~IsOpening(emitting[t][i])
  /\ \A k \in 1..Len(emitting[CM]) : IsOpening(emitting[CM][k]) =>
       LET s == emitting[CM][k].session IN
       /\ channels[s] # None /\ writer[s] = None
       /\ \A i \in 1..Len(events) : IsOpening(events[i]) => events[i].session # s

-----------------------------------------------------------------------------
(* Events and records.                                                     *)

LEMMA EventParts ==
  ASSUME NEW e \in Event
  PROVE  /\ e.kind = "opened" => e.session \in Session /\ e.miner \in Miners
         /\ e.kind = "closed" => e.session \in Session
         /\ e.kind \in {"accepted", "rejected"} => e.session \in Session /\ e.count \in Nat
         /\ e.kind = "left" => e.conn \in Conns
  BY DEF Event

\* Taking the first event moves the others up.
LEMMA TakeMoves ==
  ASSUME events \in Seq(Event), Take
  PROVE  /\ Head(events) \in Event /\ Head(events) = events[1]
         /\ events' \in Seq(Event)
         /\ Len(events) \in Nat \ {0} /\ Len(events') = Len(events) - 1
         /\ \A i \in 1..Len(events') : i + 1 \in 1..Len(events) /\ events'[i] = events[i + 1]
<1>1. events # <<>> /\ events' = Tail(events)
  BY DEF Take
<1>2. /\ Head(events) \in Event /\ Tail(events) \in Seq(Event)
      /\ Len(Tail(events)) = Len(events) - 1
      /\ \A i \in 1..Len(Tail(events)) : Tail(events)[i] = events[i + 1]
  BY <1>1, HeadTailProperties
<1>3. Len(events) \in Nat \ {0} /\ Head(events) = events[1]
  BY <1>1, EmptySeq
<1>4. QED
  BY <1>1, <1>2, <1>3

\* A sequence of one event, or of none.
LEMMA OneEvent ==
  ASSUME NEW e \in Event
  PROVE  <<e>> \in Seq(Event) /\ Len(<<e>>) = 1 /\ <<e>>[1] = e
  BY DEF Event

LEMMA NewRecords ==
  /\ \A m \in Miners : Opened(m) \in SessionStats
  /\ [NoRow EXCEPT !.connected = TRUE] \in Row
  BY DEF Opened, NoRow, SessionStats, Row

\* No update takes the table out of its type.
LEMMA TableUpdates ==
  ASSUME known \in [Miners -> Row \cup {None}], writer \in [Session -> Miners \cup {None}]
  PROVE  /\ \A m \in Miners : WithOpenMiner(m) \in [Miners -> Row \cup {None}]
         /\ \A ms : WithClosedMiners(ms) \in [Miners -> Row \cup {None}]
         /\ \A e \in Event : e.kind \in {"accepted", "rejected"} =>
              WithCount(e.session, e.kind, e.count) \in [Miners -> Row \cup {None}]
<1>1. \A m \in Miners : WithOpenMiner(m) \in [Miners -> Row \cup {None}]
  BY NewRecords DEF WithOpenMiner
<1>2. \A ms : WithClosedMiners(ms) \in [Miners -> Row \cup {None}]
  BY DEF WithClosedMiners, Row
<1>3. ASSUME NEW e \in Event, e.kind \in {"accepted", "rejected"}
      PROVE  WithCount(e.session, e.kind, e.count) \in [Miners -> Row \cup {None}]
  <2>1. e.session \in Session /\ e.count \in Nat
    BY <1>3, EventParts
  <2>2. \A m \in Miners : known[m] # None =>
          /\ [known[m] EXCEPT !.accepted = e.count] \in Row
          /\ [known[m] EXCEPT !.rejected = e.count] \in Row
    BY <2>1 DEF Row
  <2>3. writer[e.session] \in Miners \cup {None}
    BY <2>1
  <2>4. QED
    BY <2>2, <2>3 DEF WithCount
<1>4. QED
  BY <1>1, <1>2, <1>3

-----------------------------------------------------------------------------
(* Types.                                                                  *)

LEMMA TypeInit == Init => TypeInv
<1>1. <<>> \in Seq(Event) /\ Len(<<>>) = 0
  BY EmptySeq
<1>2. QED
  BY <1>1, HistoryAssumption DEF Init, TypeInv, TypeOK, SessionsKnown

\* What a step of the ChannelManager's task does to a channel: it replaces
\* what the channel and the registry know and has an event to send.
ChannelStep(s, new, stats, e) ==
  /\ channels' = [channels EXCEPT ![s] = new]
  /\ sessions' = [sessions EXCEPT ![s] = stats]
  /\ emitting' = [emitting EXCEPT ![CM] = <<e>>]
  /\ UNCHANGED <<gone, removing, runs, writerVars>>

LEMMA TypeChannelStep ==
  ASSUME TypeInv, NEW s \in Session, NEW new \in SessionStats, NEW stats \in SessionStats,
         NEW e \in Event, ChannelStep(s, new, stats, e)
  PROVE  TypeInv'
<1> USE DEF TypeInv, TypeOK, SessionsKnown, ChannelStep
<1>1. emitting' \in [Task -> Seq(Event)] /\ \A t \in Task : Len(emitting'[t]) <= 1
  BY OneEvent DEF Task
<1>2. /\ channels' \in [Session -> SessionStats \cup {None}]
      /\ sessions' \in [Session -> SessionStats \cup {None}]
      /\ \A x \in Session : channels'[x] = None <=> sessions'[x] = None
  BY HistoryAssumption
<1>3. QED
  BY <1>1, <1>2 DEF writerVars

\* The four actions of that kind.
LEMMA ChannelSteps ==
  ASSUME TypeInv, NEW s \in Session
  PROVE  /\ \A m \in Miners : RecordChannelOpened(s, m) =>
              /\ channels[s] = None
              /\ ChannelStep(s, Opened(m), Opened(m),
                   [kind |-> "opened", session |-> s, miner |-> m])
         /\ RecordShareAccepted(s) \/ RecordShareRejected(s) \/ RecordChannelClosed(s) =>
              \E new, stats \in SessionStats, e \in Event :
                ~IsOpening(e) /\ ChannelStep(s, new, stats, e)
<1>1. \A m \in Miners : RecordChannelOpened(s, m) =>
        /\ channels[s] = None
        /\ ChannelStep(s, Opened(m), Opened(m), [kind |-> "opened", session |-> s, miner |-> m])
  BY DEF RecordChannelOpened, ChannelStep
<1>2. ASSUME RecordShareAccepted(s) \/ RecordShareRejected(s) \/ RecordChannelClosed(s)
      PROVE  channels[s] \in SessionStats /\ sessions[s] \in SessionStats
  BY <1>2 DEF TypeInv, TypeOK, SessionsKnown, RecordShareAccepted, RecordShareRejected,
              RecordChannelClosed, CanSubmit, IsOpen
<1>3. ASSUME RecordShareAccepted(s)
      PROVE  \E new, stats \in SessionStats, e \in Event :
               ~IsOpening(e) /\ ChannelStep(s, new, stats, e)
  <2> DEFINE count == channels[s].accepted + 1
             new == [channels[s] EXCEPT !.accepted = count]
             stats == [sessions[s] EXCEPT !.accepted = count]
             e == [kind |-> "accepted", session |-> s, count |-> count]
  <2>1. new \in SessionStats /\ stats \in SessionStats /\ e \in Event /\ ~IsOpening(e)
    BY <1>2, <1>3 DEF SessionStats, Event, IsOpening
  <2>2. ChannelStep(s, new, stats, e)
    BY <1>3 DEF RecordShareAccepted, ChannelStep
  <2> HIDE DEF new, stats, e
  <2>3. QED
    BY <2>1, <2>2
<1>4. ASSUME RecordShareRejected(s)
      PROVE  \E new, stats \in SessionStats, e \in Event :
               ~IsOpening(e) /\ ChannelStep(s, new, stats, e)
  <2> DEFINE new == [channels[s] EXCEPT !.rejected = @ + 1]
             stats == [sessions[s] EXCEPT !.rejected = @ + 1]
             e == [kind |-> "rejected", session |-> s, count |-> sessions[s].rejected + 1]
  <2>1. new \in SessionStats /\ stats \in SessionStats /\ e \in Event /\ ~IsOpening(e)
    BY <1>2, <1>4 DEF SessionStats, Event, IsOpening
  <2>2. ChannelStep(s, new, stats, e)
    BY <1>4 DEF RecordShareRejected, ChannelStep
  <2> HIDE DEF new, stats, e
  <2>3. QED
    BY <2>1, <2>2
<1>5. ASSUME RecordChannelClosed(s)
      PROVE  \E new, stats \in SessionStats, e \in Event :
               ~IsOpening(e) /\ ChannelStep(s, new, stats, e)
  <2> DEFINE new == [channels[s] EXCEPT !.open = FALSE]
             stats == [sessions[s] EXCEPT !.open = FALSE]
             e == [kind |-> "closed", session |-> s]
  <2>1. new \in SessionStats /\ stats \in SessionStats /\ e \in Event /\ ~IsOpening(e)
    BY <1>2, <1>5 DEF SessionStats, Event, IsOpening
  <2>2. ChannelStep(s, new, stats, e)
    BY <1>5 DEF RecordChannelClosed, ChannelStep
  <2> HIDE DEF new, stats, e
  <2>3. QED
    BY <2>1, <2>2
<1>6. QED
  BY <1>1, <1>3, <1>4, <1>5

\* Emitting appends one event to the queue.
LEMMA EmitAppends ==
  ASSUME TypeInv, NEW t \in Task, Emit(t)
  PROVE  /\ Len(events) \in Nat /\ Len(emitting[t]) = 1 /\ emitting[t][1] \in Event
         /\ events' \in Seq(Event)
         /\ Len(events') = Len(events) + 1
         /\ \A i \in 1..Len(events) : events'[i] = events[i]
         /\ events'[Len(events')] = emitting[t][1]
<1>1. /\ events \in Seq(Event) /\ emitting[t] \in Seq(Event) /\ emitting[t] # <<>>
      /\ events' = events \o emitting[t]
  BY DEF TypeInv, TypeOK, Emit
<1>2. Len(events) \in Nat /\ Len(emitting[t]) = 1
  <2>1. Len(events) \in Nat
    BY <1>1, LenProperties
  <2>2. Len(emitting[t]) \in Nat \ {0}
    BY <1>1, EmptySeq
  <2>3. Len(emitting[t]) <= 1
    BY DEF TypeInv, TypeOK
  <2>4. Len(emitting[t]) = 1
    <3> DEFINE n == Len(emitting[t])
    <3>1. n \in Nat \ {0} /\ n <= 1
      BY <2>2, <2>3
    <3> HIDE DEF n
    <3>2. n = 1
      BY <3>1
    <3>3. QED
      BY <3>2 DEF n
  <2>5. QED
    BY <2>1, <2>4
<1>3. emitting[t][1] \in Event
  BY <1>1, <1>2, ElementOfSeq
<1>4. /\ events' \in Seq(Event) /\ Len(events') = Len(events) + 1
      /\ \A i \in 1..Len(events) + 1 :
           events'[i] = IF i <= Len(events) THEN events[i] ELSE emitting[t][i - Len(events)]
  <2> DEFINE out == emitting[t]
  <2>1. out \in Seq(Event) /\ Len(out) = 1 /\ events' = events \o out
    BY <1>1, <1>2
  <2>2. /\ events \o out \in Seq(Event)
        /\ Len(events \o out) = Len(events) + Len(out)
        /\ \A i \in 1..Len(events) + Len(out) :
             (events \o out)[i] = IF i <= Len(events) THEN events[i] ELSE out[i - Len(events)]
    <3> HIDE DEF out
    <3>1. QED
      BY <1>1, <2>1, ConcatProperties
  <2>3. QED
    BY <2>1, <2>2
<1>5. events'[Len(events')] = emitting[t][1]
  <2>1. Len(events) + 1 \in 1..Len(events) + 1 /\ ~(Len(events) + 1 <= Len(events))
        /\ Len(events) + 1 - Len(events) = 1
    BY <1>2
  <2>2. QED
    BY <1>4, <2>1
<1>6. \A i \in 1..Len(events) : events'[i] = events[i]
  BY <1>2, <1>4
<1>7. QED
  BY <1>2, <1>3, <1>4, <1>5, <1>6

\* The writer takes an event, and changes its map and the table.
LEMMA TypeApply ==
  ASSUME TypeInv, ApplyEvent
  PROVE  TypeInv'
<1> USE DEF TypeInv, TypeOK
<1>1. Take
  BY DEF ApplyEvent, ApplyOpened, ApplyClosed, ApplyDownstreamClosed, ApplyShare
<1>2. Head(events) \in Event /\ events' \in Seq(Event)
  BY <1>1, TakeMoves
<1>3. UNCHANGED <<gone, channels, removing, runs, registryVars>>
  BY DEF ApplyEvent, ApplyOpened, ApplyClosed, ApplyDownstreamClosed, ApplyShare
<1>4. failures \in Nat /\ MaxFailures \in Nat
  BY HistoryAssumption
<1>5. \A table, m : /\ Write(table, m) /\ m \in Miners \cup {None}
                    /\ table \in [Miners -> Row \cup {None}]
                    => /\ known' \in [Miners -> Row \cup {None}]
                       /\ failures' \in 0..MaxFailures /\ unwritten' \subseteq Miners
  BY <1>4 DEF Write
<1>6. /\ writer' \in [Session -> Miners \cup {None}]
      /\ known' \in [Miners -> Row \cup {None}]
      /\ failures' \in 0..MaxFailures /\ unwritten' \subseteq Miners
  <2>1. CASE ApplyOpened
    <3>1. Head(events).session \in Session /\ Head(events).miner \in Miners
      BY <1>2, <2>1, EventParts DEF ApplyOpened
    <3>2. WithOpenMiner(Head(events).miner) \in [Miners -> Row \cup {None}]
      BY <3>1, TableUpdates
    <3>3. QED
      BY <1>5, <2>1, <3>1, <3>2 DEF ApplyOpened
  <2>2. CASE ApplyClosed
    <3> DEFINE s == Head(events).session
    <3>1. s \in Session /\ writer[s] \in Miners \cup {None}
      BY <1>2, <2>2, EventParts DEF ApplyClosed
    <3>2. WithClosedMiners({writer[s]}) \in [Miners -> Row \cup {None}]
      BY TableUpdates
    <3>3. QED
      BY <1>5, <2>2, <3>1, <3>2 DEF ApplyClosed
  <2>3. CASE ApplyDownstreamClosed
    <3>1. \A ms : WithClosedMiners(ms) \in [Miners -> Row \cup {None}]
      BY TableUpdates
    <3>2. {writer[s] : s \in {s \in Session : s[1] = Head(events).conn}} \ {None} \subseteq Miners
      OBVIOUS
    <3>3. writer' \in [Session -> Miners \cup {None}]
      BY <2>3 DEF ApplyDownstreamClosed
    <3>4. QED
      BY <1>4, <2>3, <3>1, <3>2, <3>3 DEF ApplyDownstreamClosed
  <2>4. CASE ApplyShare
    <3> DEFINE e == Head(events)
    <3>1. e.session \in Session /\ writer[e.session] \in Miners \cup {None}
      BY <1>2, <2>4, EventParts DEF ApplyShare
    <3>2. WithCount(e.session, e.kind, e.count) \in [Miners -> Row \cup {None}]
      BY <1>2, <2>4, TableUpdates DEF ApplyShare
    <3>3. QED
      BY <1>5, <2>4, <3>1, <3>2 DEF ApplyShare
  <2>5. QED
    BY <2>1, <2>2, <2>3, <2>4 DEF ApplyEvent
<1>7. QED
  BY <1>2, <1>3, <1>6 DEF registryVars, SessionsKnown

LEMMA TypeStep == TypeInv /\ [Next]_vars => TypeInv'
<1> SUFFICES ASSUME TypeInv, [Next]_vars PROVE TypeInv'
  OBVIOUS
<1>1. CASE ChannelManager
  <2>1. PICK s \in Session : \/ \E m \in Miners : RecordChannelOpened(s, m)
                             \/ RecordShareAccepted(s)
                             \/ RecordShareRejected(s)
                             \/ RecordChannelClosed(s)
    BY <1>1 DEF ChannelManager
  <2>2. ASSUME NEW m \in Miners, RecordChannelOpened(s, m) PROVE TypeInv'
    <3>1. [kind |-> "opened", session |-> s, miner |-> m] \in Event
      BY DEF Event
    <3>2. QED
      BY <2>2, <3>1, ChannelSteps, TypeChannelStep, NewRecords
  <2>3. CASE RecordShareAccepted(s) \/ RecordShareRejected(s) \/ RecordChannelClosed(s)
    BY <2>3, ChannelSteps, TypeChannelStep
  <2>4. QED
    BY <2>1, <2>2, <2>3
<1>2. ASSUME NEW t \in Task, NEW c \in Conns, RecordDownstreamClosed(t, c) PROVE TypeInv'
  <2> DEFINE open == {s \in Session : s[1] = c /\ Listed(s)}
             left == [kind |-> "left", conn |-> c]
  <2>1. left \in Event
    BY DEF Event
  <2>2. ClosedEvents(c, open) \in Seq(Event) /\ Len(ClosedEvents(c, open)) <= 1
    <3> HIDE DEF left, open
    <3>1. ClosedEvents(c, open) = <<>> \/ ClosedEvents(c, open) = <<left>>
      BY DEF ClosedEvents, left
    <3>2. <<>> \in Seq(Event) /\ Len(<<>>) <= 1
      <4>1. Len(<<>>) = 0 /\ <<>> \in Seq(Event)
        BY EmptySeq
      <4>2. QED
        BY <4>1
    <3>3. <<left>> \in Seq(Event) /\ Len(<<left>>) <= 1
      <4>1. Len(<<left>>) = 1 /\ <<left>> \in Seq(Event)
        BY <2>1, OneEvent
      <4>2. QED
        BY <4>1
    <3> DEFINE q == ClosedEvents(c, open)
    <3>4. q = <<>> \/ q = <<left>>
      BY <3>1
    <3> HIDE DEF q
    <3>5. q \in Seq(Event) /\ Len(q) <= 1
      BY <3>2, <3>3, <3>4, Zenon
    <3>6. QED
      BY <3>5 DEF q
  <2>3. emitting' \in [Task -> Seq(Event)] /\ \A x \in Task : Len(emitting'[x]) <= 1
    <3>1. emitting' = [emitting EXCEPT ![t] = ClosedEvents(c, open)]
      BY <1>2 DEF RecordDownstreamClosed
    <3> HIDE DEF open
    <3>2. QED
      BY <2>2, <3>1 DEF TypeInv, TypeOK
  <2>4. \A s \in open : sessions[s] \in SessionStats /\ [sessions[s] EXCEPT !.open = FALSE] \in SessionStats
    BY DEF TypeInv, TypeOK, Listed, SessionStats
  <2>5. /\ sessions' \in [Session -> SessionStats \cup {None}]
        /\ \A s \in Session : sessions'[s] = None <=> sessions[s] = None
    <3>1. sessions' = [s \in Session |->
                         IF s \in open THEN [sessions[s] EXCEPT !.open = FALSE] ELSE sessions[s]]
      BY <1>2 DEF RecordDownstreamClosed
    <3> HIDE DEF open
    <3>2. QED
      BY <2>4, <3>1, HistoryAssumption DEF TypeInv, TypeOK
  <2>6. removing' \in [Task -> Conns \cup {None}]
    BY <1>2 DEF RecordDownstreamClosed, TypeInv, TypeOK
  <2>7. QED
    BY <1>2, <2>3, <2>5, <2>6 DEF RecordDownstreamClosed, TypeInv, TypeOK, SessionsKnown, writerVars
<1>3. ASSUME NEW t \in Task, RemoveDownstream(t) PROVE TypeInv'
  <2>1. \A s \in Session : IsOpen(s) =>
          /\ channels[s] \in SessionStats /\ [channels[s] EXCEPT !.open = FALSE] \in SessionStats
    BY DEF TypeInv, TypeOK, IsOpen, SessionStats
  <2>2. /\ channels' \in [Session -> SessionStats \cup {None}]
        /\ \A s \in Session : channels'[s] = None <=> channels[s] = None
    BY <1>3, <2>1, HistoryAssumption DEF RemoveDownstream, TypeInv, TypeOK
  <2>3. gone' \subseteq Conns /\ removing' \in [Task -> Conns \cup {None}]
    BY <1>3 DEF RemoveDownstream, TypeInv, TypeOK
  <2>4. QED
    BY <1>3, <2>2, <2>3
       DEF RemoveDownstream, TypeInv, TypeOK, SessionsKnown, registryVars, writerVars
<1>4. ASSUME NEW t \in Task, Emit(t) PROVE TypeInv'
  <2>1. emitting' \in [Task -> Seq(Event)] /\ \A x \in Task : Len(emitting'[x]) <= 1
    BY <1>4, EmptySeq DEF Emit, TypeInv, TypeOK
  <2>2. QED
    BY <1>4, <2>1, EmitAppends DEF Emit, TypeInv, TypeOK, SessionsKnown
<1>5. CASE ApplyEvent
  BY <1>5, TypeApply
<1>6. ASSUME NEW m \in Miners, DeleteOfflineMiner(m) PROVE TypeInv'
  BY <1>6 DEF DeleteOfflineMiner, TypeInv, TypeOK, SessionsKnown, registryVars
<1>7. CASE Restart
  <2>1. known' \in [Miners -> Row \cup {None}]
    BY <1>7, TableUpdates DEF Restart, TypeInv, TypeOK
  <2>2. gone' \subseteq Conns /\ runs' \in 1..MaxRuns \cup {1}
    BY <1>7, HistoryAssumption DEF Restart, LoseMemory, TypeInv, TypeOK
  <2>3. emitting' \in [Task -> Seq(Event)] /\ \A t \in Task : Len(emitting'[t]) <= 1
    BY <1>7, EmptySeq DEF Restart, LoseMemory
  <2>4. events' \in Seq(Event)
    BY <1>7, EmptySeq DEF Restart, LoseMemory
  <2>5. QED
    BY <1>7, <2>1, <2>2, <2>3, <2>4
       DEF Restart, LoseMemory, Fresh, TypeInv, TypeOK, SessionsKnown
<1>8. CASE UNCHANGED vars
  BY <1>8 DEF vars, registryVars, writerVars, TypeInv, TypeOK, SessionsKnown
<1>9. QED
  BY <1>1, <1>2, <1>3, <1>4, <1>5, <1>6, <1>7, <1>8 DEF Next, Remover

\* Types, for every number of connections, channels and miners: no task
\* has more than one event to send, the table has rows of known shape only.
THEOREM HistoryTypes == Spec => []TypeOK
<1>1. Spec => []TypeInv
  BY TypeInit, TypeStep, PTL DEF Spec
<1>2. TypeInv => TypeOK
  BY DEF TypeInv
<1>3. QED
  BY <1>1, <1>2, PTL

-----------------------------------------------------------------------------
(* Openings on their way.                                                  *)

OpeningInv == WriterOfChannels /\ QueuedOpenings /\ EmittedOpenings

\* Steps that send no opening and leave the writer alone.
LEMMA OpeningsElsewhere ==
  ASSUME TypeInv, OpeningInv,
         UNCHANGED <<events, writer>>,
         \A s \in Session : channels'[s] = None <=> channels[s] = None,
         \A t \in Task : \/ emitting'[t] = emitting[t]
                         \/ \A k \in 1..Len(emitting'[t]) : ~IsOpening(emitting'[t][k])
  PROVE  OpeningInv'
<1> USE DEF OpeningInv
<1>1. WriterOfChannels'
  BY DEF WriterOfChannels
<1>2. /\ \A i \in 1..Len(events) : IsOpening(events[i]) => events[i].session \in Session
      /\ \A k \in 1..Len(emitting[CM]) : IsOpening(emitting[CM][k]) => emitting[CM][k].session \in Session
  BY EventParts, ElementOfSeq DEF TypeInv, TypeOK, IsOpening, Task
<1>3. QueuedOpenings'
  BY <1>2 DEF QueuedOpenings
<1>4. EmittedOpenings'
  <2>1. \A t \in Conns : \A i \in 1..Len(emitting'[t]) : ~IsOpening(emitting'[t][i])
    BY DEF EmittedOpenings, Task
  <2>2. CASE emitting'[CM] = emitting[CM]
    BY <1>2, <2>1, <2>2 DEF EmittedOpenings
  <2>3. CASE \A k \in 1..Len(emitting'[CM]) : ~IsOpening(emitting'[CM][k])
    BY <2>1, <2>3 DEF EmittedOpenings
  <2>4. QED
    BY <2>2, <2>3 DEF Task
<1>5. QED
  BY <1>1, <1>3, <1>4

\* The ChannelManager opens a channel: it was unknown to everyone.
LEMMA OpeningsRecorded ==
  ASSUME TypeInv, OpeningInv, NEW s \in Session, NEW m \in Miners,
         channels[s] = None,
         ChannelStep(s, Opened(m), Opened(m), [kind |-> "opened", session |-> s, miner |-> m])
  PROVE  OpeningInv'
<1> DEFINE e == [kind |-> "opened", session |-> s, miner |-> m]
<1>1. /\ UNCHANGED <<events, writer>>
      /\ channels' = [channels EXCEPT ![s] = Opened(m)]
      /\ emitting' = [emitting EXCEPT ![CM] = <<e>>]
  BY DEF ChannelStep, writerVars
<1>2. Opened(m) # None
  BY NewRecords, HistoryAssumption
<1>3. channels'[s] # None /\ \A x \in Session : channels[x] # None => channels'[x] # None
  BY <1>1, <1>2 DEF TypeInv, TypeOK
<1>4. WriterOfChannels'
  BY <1>1, <1>3 DEF OpeningInv, WriterOfChannels
<1>5. \A i \in 1..Len(events) : IsOpening(events[i]) => events[i].session \in Session
  BY EventParts, ElementOfSeq DEF TypeInv, TypeOK, IsOpening
<1>6. QueuedOpenings'
  BY <1>1, <1>3, <1>5 DEF OpeningInv, QueuedOpenings
<1>7. EmittedOpenings'
  <2>1. emitting'[CM] = <<e>> /\ \A t \in Conns : emitting'[t] = emitting[t]
    BY <1>1, HistoryAssumption DEF TypeInv, TypeOK, Task
  <2>2. e.session = s /\ Len(<<e>>) = 1 /\ <<e>>[1] = e
    OBVIOUS
  <2>3. writer[s] = None
    BY DEF OpeningInv, WriterOfChannels
  <2>4. \A i \in 1..Len(events) : IsOpening(events[i]) => events[i].session # s
    BY DEF OpeningInv, QueuedOpenings
  <2>5. \A t \in Conns : \A i \in 1..Len(emitting'[t]) : ~IsOpening(emitting'[t][i])
    BY <2>1 DEF OpeningInv, EmittedOpenings
  <2>6. \A k \in 1..Len(emitting'[CM]) : emitting'[CM][k] = e
    <3> HIDE DEF e
    <3>1. \A k \in 1..Len(<<e>>) : <<e>>[k] = e
      OBVIOUS
    <3>2. QED
      BY <2>1, <3>1
  <2> HIDE DEF e
  <2>7. QED
    BY <1>1, <1>3, <2>2, <2>3, <2>4, <2>5, <2>6 DEF EmittedOpenings
<1>8. QED
  BY <1>4, <1>6, <1>7 DEF OpeningInv

\* An event is sent.
LEMMA OpeningsSent ==
  ASSUME TypeInv, OpeningInv, NEW t \in Task, Emit(t)
  PROVE  OpeningInv'
<1>1. /\ Len(events) \in Nat /\ Len(emitting[t]) = 1
      /\ Len(events') = Len(events) + 1
      /\ \A i \in 1..Len(events) : events'[i] = events[i]
      /\ events'[Len(events')] = emitting[t][1]
  BY EmitAppends
<1>2. UNCHANGED <<channels, writer>> /\ emitting' = [emitting EXCEPT ![t] = <<>>]
  BY DEF Emit
<1>3. \A i \in 1..Len(events') : i \in 1..Len(events) \/ i = Len(events')
  BY <1>1
<1>4. Len(<<>>) = 0
  BY EmptySeq
<1>5. ASSUME IsOpening(emitting[t][1])
      PROVE  LET s == emitting[t][1].session IN
             /\ t = CM /\ channels[s] # None /\ writer[s] = None
             /\ \A i \in 1..Len(events) : IsOpening(events[i]) => events[i].session # s
  BY <1>1, <1>5 DEF OpeningInv, EmittedOpenings, Task
<1>6. WriterOfChannels'
  BY <1>2 DEF OpeningInv, WriterOfChannels
<1>7. QueuedOpenings'
  <2>1. \A i \in 1..Len(events') : IsOpening(events'[i]) =>
          channels[events'[i].session] # None /\ writer[events'[i].session] = None
    BY <1>1, <1>3, <1>5 DEF OpeningInv, QueuedOpenings
  <2>2. ASSUME NEW i \in 1..Len(events'), NEW j \in 1..Len(events'),
               IsOpening(events'[i]), IsOpening(events'[j]), events'[i].session = events'[j].session
        PROVE  i = j
    <3>1. CASE i \in 1..Len(events) /\ j \in 1..Len(events)
      BY <1>1, <2>2, <3>1 DEF OpeningInv, QueuedOpenings
    <3>2. CASE i = Len(events') /\ j \in 1..Len(events)
      BY <1>1, <1>5, <2>2, <3>2
    <3>3. CASE j = Len(events') /\ i \in 1..Len(events)
      BY <1>1, <1>5, <2>2, <3>3
    <3>4. QED
      BY <1>3, <3>1, <3>2, <3>3
  <2>3. QED
    BY <1>2, <2>1, <2>2 DEF QueuedOpenings
<1>8. EmittedOpenings'
  <2>1. emitting'[t] = <<>> /\ \A x \in Task : x # t => emitting'[x] = emitting[x]
    BY <1>2 DEF TypeInv, TypeOK
  <2>2. \A x \in Conns : \A i \in 1..Len(emitting'[x]) : ~IsOpening(emitting'[x][i])
    BY <1>4, <2>1 DEF OpeningInv, EmittedOpenings, Task
  <2>3. CASE t = CM
    <3>1. \A k \in 1..Len(emitting'[CM]) : FALSE
      BY <1>4, <2>1, <2>3
    <3>2. QED
      BY <2>2, <3>1 DEF EmittedOpenings
  <2>4. CASE t # CM
    <3>1. emitting'[CM] = emitting[CM] /\ ~IsOpening(emitting[t][1])
      BY <1>5, <2>1, <2>4 DEF Task
    <3>2. \A i \in 1..Len(events') : IsOpening(events'[i]) =>
            i \in 1..Len(events) /\ events'[i] = events[i]
      BY <1>1, <1>3, <3>1
    <3>3. QED
      BY <1>2, <2>2, <3>1, <3>2 DEF OpeningInv, EmittedOpenings
  <2>5. QED
    BY <2>3, <2>4
<1>9. QED
  BY <1>6, <1>7, <1>8 DEF OpeningInv

\* The writer takes an event: it learns of one session, or forgets some.
LEMMA OpeningsTaken ==
  ASSUME TypeInv, OpeningInv, ApplyEvent
  PROVE  OpeningInv'
<1>1. Take
  BY DEF ApplyEvent, ApplyOpened, ApplyClosed, ApplyDownstreamClosed, ApplyShare
<1>2. /\ Head(events) \in Event /\ Head(events) = events[1]
      /\ Len(events) \in Nat \ {0} /\ Len(events') = Len(events) - 1
      /\ \A i \in 1..Len(events') : i + 1 \in 1..Len(events) /\ events'[i] = events[i + 1]
  BY <1>1, TakeMoves DEF TypeInv, TypeOK
<1>3. UNCHANGED <<channels, emitting>>
  BY DEF ApplyEvent, ApplyOpened, ApplyClosed, ApplyDownstreamClosed, ApplyShare, registryVars
<1>4. \A s \in Session : writer'[s] # None =>
        writer'[s] = writer[s] \/ (IsOpening(events[1]) /\ s = events[1].session)
  <2>1. CASE ApplyOpened
    <3>1. events[1].session \in Session /\ IsOpening(events[1])
      BY <1>2, <2>1, EventParts DEF ApplyOpened, IsOpening
    <3>2. QED
      BY <1>2, <2>1, <3>1 DEF ApplyOpened, TypeInv, TypeOK
  <2>2. CASE ApplyClosed
    BY <2>2 DEF ApplyClosed, TypeInv, TypeOK
  <2>3. CASE ApplyDownstreamClosed
    BY <2>3 DEF ApplyDownstreamClosed
  <2>4. CASE ApplyShare
    BY <2>4 DEF ApplyShare
  <2>5. QED
    BY <2>1, <2>2, <2>3, <2>4 DEF ApplyEvent
<1>5. \A i \in 1..Len(events') : IsOpening(events'[i]) => events'[i].session \in Session
  BY <1>1, TakeMoves, EventParts, ElementOfSeq DEF TypeInv, TypeOK, IsOpening
<1>6. 1 \in 1..Len(events) /\ \A i \in 1..Len(events') : i + 1 # 1
  BY <1>2
<1>7. IsOpening(events[1]) => channels[events[1].session] # None
  BY <1>6 DEF OpeningInv, QueuedOpenings
<1>8. WriterOfChannels'
  BY <1>3, <1>4, <1>7 DEF OpeningInv, WriterOfChannels
<1>9. QueuedOpenings'
  <2>1. ASSUME NEW i \in 1..Len(events'), IsOpening(events'[i])
        PROVE  channels[events'[i].session] # None /\ writer'[events'[i].session] = None
    <3>1. /\ i + 1 \in 1..Len(events) /\ IsOpening(events[i + 1])
          /\ events'[i].session = events[i + 1].session
      BY <1>2, <2>1
    <3>2. channels[events[i + 1].session] # None /\ writer[events[i + 1].session] = None
      BY <3>1 DEF OpeningInv, QueuedOpenings
    <3>3. IsOpening(events[1]) => events[i + 1].session # events[1].session
      BY <1>6, <3>1 DEF OpeningInv, QueuedOpenings
    <3>4. QED
      BY <1>4, <1>5, <2>1, <3>1, <3>2, <3>3
  <2>2. ASSUME NEW i \in 1..Len(events'), NEW j \in 1..Len(events'),
               IsOpening(events'[i]), IsOpening(events'[j]), events'[i].session = events'[j].session
        PROVE  i = j
    <3>1. i + 1 = j + 1
      BY <1>2, <2>2 DEF OpeningInv, QueuedOpenings
    <3>2. i \in Int /\ j \in Int
      OBVIOUS
    <3>3. QED
      BY <3>1, <3>2
  <2>3. QED
    BY <1>3, <2>1, <2>2 DEF QueuedOpenings
<1>10. EmittedOpenings'
  <2>1. ASSUME NEW k \in 1..Len(emitting[CM]), IsOpening(emitting[CM][k])
        PROVE  LET s == emitting[CM][k].session IN
               /\ channels[s] # None /\ writer'[s] = None
               /\ \A i \in 1..Len(events') : IsOpening(events'[i]) => events'[i].session # s
    <3> DEFINE s == emitting[CM][k].session
    <3>1. /\ channels[s] # None /\ writer[s] = None
          /\ \A i \in 1..Len(events) : IsOpening(events[i]) => events[i].session # s
      BY <2>1 DEF OpeningInv, EmittedOpenings
    <3>2. s \in Session
      BY <2>1, EventParts, ElementOfSeq DEF TypeInv, TypeOK, IsOpening, Task
    <3>3. writer'[s] = None
      BY <1>4, <1>6, <3>1, <3>2
    <3>4. \A i \in 1..Len(events') : IsOpening(events'[i]) => events'[i].session # s
      BY <1>2, <3>1
    <3>5. QED
      BY <3>1, <3>3, <3>4
  <2>2. QED
    BY <1>3, <2>1 DEF OpeningInv, EmittedOpenings
<1>11. QED
  BY <1>8, <1>9, <1>10 DEF OpeningInv

LEMMA OpeningInit == Init => OpeningInv
<1>1. Len(<<>>) = 0
  BY EmptySeq
<1>2. QED
  BY <1>1 DEF Init, OpeningInv, WriterOfChannels, QueuedOpenings, EmittedOpenings, Task

LEMMA OpeningStep == TypeInv /\ OpeningInv /\ [Next]_vars => OpeningInv'
<1> SUFFICES ASSUME TypeInv, OpeningInv, [Next]_vars PROVE OpeningInv'
  OBVIOUS
<1>1. CASE ChannelManager
  <2>1. PICK s \in Session : \/ \E m \in Miners : RecordChannelOpened(s, m)
                             \/ RecordShareAccepted(s)
                             \/ RecordShareRejected(s)
                             \/ RecordChannelClosed(s)
    BY <1>1 DEF ChannelManager
  <2>2. ASSUME NEW m \in Miners, RecordChannelOpened(s, m) PROVE OpeningInv'
    BY <2>2, ChannelSteps, OpeningsRecorded
  <2>3. CASE RecordShareAccepted(s) \/ RecordShareRejected(s) \/ RecordChannelClosed(s)
    <3>1. PICK new \in SessionStats, stats \in SessionStats, e \in Event :
            ~IsOpening(e) /\ ChannelStep(s, new, stats, e)
      BY <2>3, ChannelSteps
    <3>2. channels[s] # None
      BY <2>3 DEF RecordShareAccepted, RecordShareRejected, RecordChannelClosed, CanSubmit, IsOpen
    <3>3. \A x \in Session : channels'[x] = None <=> channels[x] = None
      BY <3>1, <3>2, HistoryAssumption DEF ChannelStep, TypeInv, TypeOK
    <3>4. \A t \in Task : \/ emitting'[t] = emitting[t]
                          \/ \A k \in 1..Len(emitting'[t]) : ~IsOpening(emitting'[t][k])
      <4>1. \A t \in Task : emitting'[t] = emitting[t] \/ emitting'[t] = <<e>>
        BY <3>1 DEF ChannelStep, TypeInv, TypeOK
      <4>2. \A k \in 1..Len(<<e>>) : <<e>>[k] = e
        OBVIOUS
      <4>3. QED
        BY <3>1, <4>1, <4>2
    <3>5. UNCHANGED <<events, writer>>
      BY <3>1 DEF ChannelStep, writerVars
    <3>6. QED
      BY <3>3, <3>4, <3>5, OpeningsElsewhere
  <2>4. QED
    BY <2>1, <2>2, <2>3
<1>2. ASSUME NEW t \in Task, NEW c \in Conns, RecordDownstreamClosed(t, c) PROVE OpeningInv'
  <2> DEFINE open == {s \in Session : s[1] = c /\ Listed(s)}
             left == [kind |-> "left", conn |-> c]
  <2>1. ~IsOpening(left)
    BY DEF IsOpening
  <2>2. emitting' = [emitting EXCEPT ![t] = ClosedEvents(c, open)]
    BY <1>2 DEF RecordDownstreamClosed
  <2>3. ClosedEvents(c, open) = <<>> \/ ClosedEvents(c, open) = <<left>>
    BY DEF ClosedEvents
  <2> HIDE DEF open, left
  <2>4. /\ \A k \in 1..Len(<<left>>) : <<left>>[k] = left
        /\ \A k \in 1..Len(<<>>) : FALSE
    <3>1. Len(<<>>) = 0
      BY EmptySeq
    <3>2. QED
      BY <3>1
  <2>5. \A x \in Task : \/ emitting'[x] = emitting[x]
                        \/ emitting'[x] = <<>> \/ emitting'[x] = <<left>>
    BY <2>2, <2>3 DEF TypeInv, TypeOK
  <2>6. \A x \in Task : \/ emitting'[x] = emitting[x]
                        \/ \A k \in 1..Len(emitting'[x]) : ~IsOpening(emitting'[x][k])
    BY <2>1, <2>4, <2>5
  <2>7. UNCHANGED <<channels, events, writer>>
    BY <1>2 DEF RecordDownstreamClosed, writerVars
  <2>8. QED
    BY <2>6, <2>7, OpeningsElsewhere
<1>3. ASSUME NEW t \in Task, RemoveDownstream(t) PROVE OpeningInv'
  <2>1. \A s \in Session : IsOpen(s) =>
          /\ channels[s] # None /\ [channels[s] EXCEPT !.open = FALSE] \in SessionStats
    BY DEF TypeInv, TypeOK, IsOpen, SessionStats
  <2>2. \A s \in Session : channels'[s] = None <=> channels[s] = None
    BY <1>3, <2>1, HistoryAssumption DEF RemoveDownstream
  <2>3. UNCHANGED <<events, writer, emitting>>
    BY <1>3 DEF RemoveDownstream, registryVars, writerVars
  <2>4. QED
    BY <2>2, <2>3, OpeningsElsewhere
<1>4. ASSUME NEW t \in Task, Emit(t) PROVE OpeningInv'
  BY <1>4, OpeningsSent
<1>5. CASE ApplyEvent
  BY <1>5, OpeningsTaken
<1>6. ASSUME NEW m \in Miners, DeleteOfflineMiner(m) PROVE OpeningInv'
  BY <1>6, OpeningsElsewhere DEF DeleteOfflineMiner, registryVars
<1>7. CASE Restart
  <2>1. Len(<<>>) = 0
    BY EmptySeq
  <2>2. /\ events' = <<>> /\ \A t \in Task : emitting'[t] = <<>>
        /\ \A s \in Session : writer'[s] = None
    BY <1>7 DEF Restart, LoseMemory, Fresh, TypeInv, TypeOK
  <2>3. QED
    BY <2>1, <2>2 DEF OpeningInv, WriterOfChannels, QueuedOpenings, EmittedOpenings, Task
<1>8. CASE UNCHANGED vars
  BY <1>8, OpeningsElsewhere DEF vars, registryVars, writerVars
<1>9. QED
  BY <1>1, <1>2, <1>3, <1>4, <1>5, <1>6, <1>7, <1>8 DEF Next, Remover

-----------------------------------------------------------------------------
(* The table.                                                              *)

IsOnline(m) == known[m] # None /\ known[m].connected

\* A step after which no other miner is on record as connected than before,
\* and the writer's map and the failures are as they were.
LEMMA ConnectedElsewhere ==
  ASSUME ConnectedHaveSession, UNCHANGED <<writer, unwritten>>,
         \A m \in Miners : IsOnline(m)' => IsOnline(m)
  PROVE  ConnectedHaveSession'
  BY DEF ConnectedHaveSession, IsOnline

\* What close_miner leaves connected: the miners it is not for.
LEMMA ClosedAreOffline ==
  ASSUME known \in [Miners -> Row \cup {None}], NEW ms, NEW m \in Miners,
         known' = WithClosedMiners(ms), IsOnline(m)'
  PROVE  m \notin ms /\ IsOnline(m)
  BY DEF WithClosedMiners, IsOnline, Row

LEMMA ConnectedApply ==
  ASSUME TypeInv, OpeningInv, ConnectedHaveSession, ApplyEvent
  PROVE  ConnectedHaveSession'
<1> DEFINE e == Head(events)
<1>1. /\ Take /\ e \in Event /\ e = events[1] /\ 1 \in 1..Len(events)
  BY TakeMoves
     DEF TypeInv, TypeOK, ApplyEvent, ApplyOpened, ApplyClosed, ApplyDownstreamClosed, ApplyShare
<1>2. /\ known \in [Miners -> Row \cup {None}]
      /\ writer \in [Session -> Miners \cup {None}]
  BY DEF TypeInv, TypeOK
<1>3. \A m \in Miners : IsOnline(m) /\ m \notin unwritten => \E s \in Session : writer[s] = m
  BY DEF ConnectedHaveSession, IsOnline
<1>4. SUFFICES ASSUME NEW m \in Miners, IsOnline(m)', m \notin unwritten'
               PROVE  \E s \in Session : writer'[s] = m
  BY DEF ConnectedHaveSession, IsOnline
<1>5. CASE ApplyOpened
  <2>1. e.session \in Session /\ e.miner \in Miners /\ writer[e.session] = None
    <3>1. IsOpening(events[1])
      BY <1>1, <1>5 DEF ApplyOpened, IsOpening
    <3>2. writer[events[1].session] = None
      BY <1>1, <3>1 DEF OpeningInv, QueuedOpenings
    <3>3. QED
      BY <1>1, <3>1, <3>2, EventParts DEF IsOpening
  <2>2. writer' = [writer EXCEPT ![e.session] = e.miner]
    BY <1>5 DEF ApplyOpened
  <2>3. CASE m = e.miner
    BY <1>2, <2>1, <2>2, <2>3
  <2>4. CASE m # e.miner
    <3>1. IsOnline(m) /\ m \notin unwritten
      BY <1>2, <1>4, <1>5, <2>4 DEF ApplyOpened, Write, WithOpenMiner, IsOnline
    <3>2. PICK s \in Session : writer[s] = m
      BY <1>3, <3>1
    <3>3. s # e.session
      BY <2>1, <3>2, HistoryAssumption
    <3>4. writer'[s] = m
      BY <1>2, <2>2, <3>2, <3>3
    <3>5. QED
      BY <3>4
  <2>5. QED
    BY <2>3, <2>4
<1>6. CASE ApplyClosed
  <2>1. e.session \in Session
    BY <1>1, <1>6, EventParts DEF ApplyClosed
  <2>2. writer' = [writer EXCEPT ![e.session] = None]
    BY <1>6 DEF ApplyClosed
  <2>3. IsOnline(m) /\ m \notin unwritten /\ writer[e.session] # m
    <3>1. CASE known' = WithClosedMiners({writer[e.session]}) /\ UNCHANGED unwritten
      BY <1>2, <1>4, <3>1, ClosedAreOffline
    <3>2. CASE UNCHANGED known /\ unwritten' = unwritten \cup {writer[e.session]}
      BY <1>4, <3>2 DEF IsOnline
    <3>3. QED
      BY <1>6, <3>1, <3>2 DEF ApplyClosed, Write
  <2>4. PICK s \in Session : writer[s] = m
    BY <1>3, <2>3
  <2>5. writer'[s] = m
    BY <1>2, <2>2, <2>3, <2>4
  <2>6. QED
    BY <2>5
<1>7. CASE ApplyDownstreamClosed
  <2> DEFINE ms == {writer[s] : s \in {s \in Session : s[1] = e.conn}} \ {None}
  <2>1. writer' = [s \in Session |-> IF s[1] = e.conn THEN None ELSE writer[s]]
    BY <1>7 DEF ApplyDownstreamClosed
  <2>2. IsOnline(m) /\ m \notin unwritten /\ m \notin ms
    <3>1. \/ known' = WithClosedMiners(ms) /\ UNCHANGED unwritten
          \/ \E closed \in SUBSET ms :
               known' = WithClosedMiners(closed) /\ unwritten' = unwritten \cup (ms \ closed)
      BY <1>7 DEF ApplyDownstreamClosed
    <3> HIDE DEF ms
    <3>2. QED
      BY <1>2, <1>4, <3>1, ClosedAreOffline
  <2>3. PICK s \in Session : writer[s] = m
    BY <1>3, <2>2
  <2>4. s[1] # e.conn
    BY <2>2, <2>3, HistoryAssumption
  <2>5. writer'[s] = m
    BY <2>1, <2>3, <2>4
  <2>6. QED
    BY <2>5
<1>8. CASE ApplyShare
  <2>1. UNCHANGED writer /\ unwritten \subseteq unwritten'
    BY <1>8 DEF ApplyShare, Write
  <2>2. IsOnline(m)
    <3>1. known' = WithCount(e.session, e.kind, e.count) \/ UNCHANGED known
      BY <1>8 DEF ApplyShare, Write
    <3>2. CASE UNCHANGED known
      BY <1>4, <3>2 DEF IsOnline
    <3>3. CASE known' = WithCount(e.session, e.kind, e.count)
      BY <1>2, <1>4, <3>3 DEF WithCount, IsOnline, Row
    <3>4. QED
      BY <3>1, <3>2, <3>3
  <2>3. QED
    BY <1>3, <1>4, <2>1, <2>2
<1>9. QED
  BY <1>5, <1>6, <1>7, <1>8 DEF ApplyEvent

LEMMA ConnectedStep ==
  TypeInv /\ OpeningInv /\ ConnectedHaveSession /\ [Next]_vars => ConnectedHaveSession'
<1> SUFFICES ASSUME TypeInv, OpeningInv, ConnectedHaveSession, [Next]_vars
             PROVE  ConnectedHaveSession'
  OBVIOUS
<1>1. CASE UNCHANGED writerVars
  BY <1>1, ConnectedElsewhere DEF writerVars, IsOnline
<1>2. ASSUME NEW t \in Task, Emit(t) PROVE ConnectedHaveSession'
  BY <1>2, ConnectedElsewhere DEF Emit, IsOnline
<1>3. CASE ApplyEvent
  BY <1>3, ConnectedApply
<1>4. ASSUME NEW m \in Miners, DeleteOfflineMiner(m) PROVE ConnectedHaveSession'
  BY <1>4, ConnectedElsewhere DEF DeleteOfflineMiner, IsOnline, TypeInv, TypeOK
<1>5. CASE Restart
  <2>1. ASSUME NEW m \in Miners PROVE ~IsOnline(m)'
    BY <1>5, ClosedAreOffline DEF Restart, TypeInv, TypeOK
  <2>2. QED
    BY <2>1 DEF ConnectedHaveSession, IsOnline
<1>6. CASE ChannelManager \/ Remover
  BY <1>1, <1>6 DEF ChannelManager, Remover, RecordChannelOpened, RecordShareAccepted,
     RecordShareRejected, RecordChannelClosed, RecordDownstreamClosed, RemoveDownstream
<1>7. CASE UNCHANGED vars
  BY <1>1, <1>7 DEF vars
<1>8. QED
  BY <1>2, <1>3, <1>4, <1>5, <1>6, <1>7 DEF Next

\* A miner is on record as connected only while the writer knows a session
\* of it that was opened in this run of the program, or a write about it
\* has failed: also after crashes, for any number of sessions of a miner,
\* and however the events of the tasks overtake one another.
THEOREM ConnectedAreKnown == Spec => []ConnectedHaveSession
<1> DEFINE Inv == TypeInv /\ OpeningInv /\ ConnectedHaveSession
<1>1. Init => Inv
  <2>1. Init => ConnectedHaveSession
    BY DEF Init, ConnectedHaveSession
  <2>2. QED
    BY <2>1, TypeInit, OpeningInit
<1>2. Inv /\ [Next]_vars => Inv'
  BY TypeStep, OpeningStep, ConnectedStep
<1>3. Spec => []Inv
  BY <1>1, <1>2, PTL DEF Spec
<1>4. QED
  BY <1>3, PTL

-----------------------------------------------------------------------------
(***************************************************************************)
(* What the writer will know.  Every event on its way is still true of its *)
(* channel, and for each channel of a connection that stays, what the      *)
(* writer knows together with the order of these events leads to what the  *)
(* channel is.                                                             *)
(***************************************************************************)
OpeningOf(e, s) == IsOpening(e) /\ e.session = s
ClosingOf(e, s) == e.kind = "closed" /\ e.session = s

Queued == {events[i] : i \in 1..Len(events)}
Unsent(t) == {emitting[t][i] : i \in 1..Len(emitting[t])}

IsTrue(e) ==
  /\ IsOpening(e) => channels[e.session].miner = e.miner
  /\ e.kind = "closed" => channels[e.session] # None /\ ~channels[e.session].open
  /\ e.kind = "left" => e.conn \in gone \/ \E t \in Task : removing[t] = e.conn

TruthInv ==
  /\ \A e \in Queued : IsTrue(e)
  /\ \A t \in Task : \A e \in Unsent(t) : IsTrue(e)
  /\ \A t \in Conns : \A e \in Unsent(t) : e.kind = "left"
  /\ \A s \in Session : writer[s] # None => writer[s] = channels[s].miner

ClosingAfter(i, s) ==
  \/ \E j \in (i + 1)..Len(events) : ClosingOf(events[j], s)
  \/ \E e \in Unsent(CM) : ClosingOf(e, s)

OpenIsTold(s) ==
  \/ writer[s] # None
  \/ \E i \in 1..Len(events) : OpeningOf(events[i], s)
  \/ \E e \in Unsent(CM) : OpeningOf(e, s)

ClosedIsTold(s) ==
  /\ writer[s] # None => ClosingAfter(0, s)
  /\ \A i \in 1..Len(events) : OpeningOf(events[i], s) => ClosingAfter(i, s)
  /\ \A e \in Unsent(CM) : ~OpeningOf(e, s)

IsTold(s) == Staying(s) => IF IsOpen(s) THEN OpenIsTold(s) ELSE ClosedIsTold(s)

ToldInv == TruthInv /\ \A s \in Session : IsTold(s)

-----------------------------------------------------------------------------
LEMMA EventsOnTheirWay ==
  ASSUME TypeInv
  PROVE  /\ Queued \subseteq Event /\ \A t \in Task : Unsent(t) \subseteq Event
         /\ \A t \in Task : emitting[t] = <<>> => Unsent(t) = {}
<1>1. Queued \subseteq Event
  BY ElementOfSeq DEF TypeInv, TypeOK, Queued
<1>2. \A t \in Task : Unsent(t) \subseteq Event
  BY ElementOfSeq DEF TypeInv, TypeOK, Unsent
<1>3. Len(<<>>) = 0
  BY EmptySeq
<1>4. \A t \in Task : emitting[t] = <<>> => Unsent(t) = {}
  BY <1>3 DEF Unsent
<1> QED
  BY <1>1, <1>2, <1>4

\* What is not yet sent when a task has recorded something.
LEMMA UnsentAfter ==
  ASSUME TypeInv, NEW t \in Task, NEW out, emitting' = [emitting EXCEPT ![t] = out]
  PROVE  /\ \A x \in Task : x # t => Unsent(x)' = Unsent(x)
         /\ out = <<>> => Unsent(t)' = {}
         /\ \A e : out = <<e>> => Unsent(t)' = {e}
<1>1. emitting'[t] = out /\ \A x \in Task : x # t => emitting'[x] = emitting[x]
  BY DEF TypeInv, TypeOK
<1>2. Len(<<>>) = 0
  BY EmptySeq
<1>3. \A e : Len(<<e>>) = 1 /\ <<e>>[1] = e
  OBVIOUS
<1>4. ASSUME NEW e, out = <<e>> PROVE Unsent(t)' = {e}
  <2>1. Len(emitting'[t]) = 1 /\ emitting'[t][1] = e
    BY <1>1, <1>4
  <2>2. 1..1 = {1}
    OBVIOUS
  <2> QED
    BY <2>1, <2>2 DEF Unsent
<1> QED
  BY <1>1, <1>2, <1>4 DEF Unsent

\* The ChannelManager records something of a channel of a connection that is
\* not removed, with nothing else to send.
LEMMA ToldRecording ==
  ASSUME TypeInv, OpeningInv, ToldInv, NEW s \in Session, NEW e \in Event,
         emitting[CM] = <<>>, emitting' = [emitting EXCEPT ![CM] = <<e>>],
         UNCHANGED <<gone, removing, events, writer>>,
         \A x \in Session : x # s => channels'[x] = channels[x],
         e.kind \in {"opened", "closed", "accepted", "rejected"}, e.session = s,
         IsOpening(e) => /\ channels[s] = None /\ channels'[s] # None
                         /\ channels'[s].open /\ channels'[s].miner = e.miner,
         ~IsOpening(e) => /\ channels[s] # None /\ channels'[s] # None
                          /\ channels'[s].miner = channels[s].miner
                          /\ channels'[s].open = (e.kind # "closed") /\ channels[s].open
  PROVE  ToldInv'
<1>1. /\ Queued \subseteq Event /\ Queued' = Queued
      /\ Unsent(CM) = {} /\ Unsent(CM)' = {e} /\ CM \in Task
      /\ \A x \in Task : x # CM => Unsent(x)' = Unsent(x) /\ Unsent(x) \subseteq Event
  <2>1. Queued \subseteq Event /\ Queued' = Queued /\ CM \in Task
    BY EventsOnTheirWay DEF Queued, Task
  <2>2. Unsent(CM) = {} /\ \A x \in Task : Unsent(x) \subseteq Event
    BY <2>1, EventsOnTheirWay
  <2>3. Unsent(CM)' = {e} /\ \A x \in Task : x # CM => Unsent(x)' = Unsent(x)
    <3>1. PICK out : out = <<e>>
      OBVIOUS
    <3>2. emitting' = [emitting EXCEPT ![CM] = out]
      BY <3>1
    <3> QED
      BY <2>1, <3>1, <3>2, UnsentAfter
  <2> QED
    BY <2>1, <2>2, <2>3
<1>2. \A x \in Session : Staying(x)' <=> Staying(x)
  BY DEF Staying
<1>3. channels[s] = None => /\ writer[s] = None
                            /\ \A i \in 1..Len(events) : ~OpeningOf(events[i], s)
                            /\ \A q \in Queued : q.kind = "closed" => q.session # s
                            /\ \A q \in Queued : ~OpeningOf(q, s)
  <2>1. ASSUME channels[s] = None
        PROVE  writer[s] = None /\ \A i \in 1..Len(events) : ~OpeningOf(events[i], s)
    BY <2>1 DEF OpeningInv, WriterOfChannels, QueuedOpenings, OpeningOf
  <2>2. ASSUME channels[s] = None
        PROVE  \A q \in Queued : q.kind = "closed" => q.session # s
    BY <2>2 DEF ToldInv, TruthInv, IsTrue
  <2> QED
    BY <2>1, <2>2 DEF Queued
<1>4. ASSUME NEW q \in Queued PROVE IsTrue(q)'
  <2>1. q \in Event /\ IsTrue(q)
    BY <1>1, <1>4 DEF ToldInv, TruthInv
  <2>2. CASE IsOpening(q)
    <3>1. q.session \in Session /\ channels[q.session].miner = q.miner /\ q.kind = "opened"
      BY <2>1, <2>2, EventParts DEF IsTrue, IsOpening
    <3>2. q.session = s => ~IsOpening(e)
      BY <1>3, <1>4, <2>2 DEF OpeningOf
    <3>3. channels'[q.session].miner = q.miner
      BY <3>1, <3>2
    <3> QED
      BY <3>1, <3>3 DEF IsTrue, IsOpening
  <2>3. CASE q.kind = "closed"
    <3>1. q.session \in Session /\ channels[q.session] # None /\ ~channels[q.session].open
      BY <2>1, <2>3, EventParts DEF IsTrue
    <3>2. q.session = s => ~IsOpening(e)
      BY <3>1
    <3>3. channels'[q.session] # None /\ ~channels'[q.session].open
      BY <3>1, <3>2
    <3> QED
      BY <2>3, <3>3 DEF IsTrue, IsOpening
  <2>4. CASE ~IsOpening(q) /\ q.kind # "closed"
    BY <2>1, <2>4 DEF IsTrue
  <2> QED
    BY <2>2, <2>3, <2>4
<1>5. IsTrue(e)'
  BY DEF IsTrue, IsOpening
<1>6. \A x \in Task : \A q \in Unsent(x)' : IsTrue(q)'
  <2> SUFFICES ASSUME NEW x \in Conns, NEW q \in Unsent(x) PROVE IsTrue(q)'
    BY <1>1, <1>5 DEF Task
  <2>1. q.kind = "left" /\ IsTrue(q)
    BY DEF ToldInv, TruthInv, Task
  <2> QED
    BY <2>1 DEF IsTrue, IsOpening
<1>7. \A x \in Conns : \A q \in Unsent(x)' : q.kind = "left"
  BY <1>1, HistoryAssumption DEF ToldInv, TruthInv, Task
<1>8. \A x \in Session : writer'[x] # None => writer'[x] = channels'[x].miner
  <2> SUFFICES ASSUME NEW x \in Session, writer[x] # None PROVE writer[x] = channels'[x].miner
    OBVIOUS
  <2>1. writer[x] = channels[x].miner
    BY DEF ToldInv, TruthInv
  <2>2. x = s => ~IsOpening(e)
    BY <1>3
  <2> QED
    BY <2>1, <2>2
<1>9. ASSUME NEW x \in Session PROVE IsTold(x)'
  <2>1. CASE x # s
    <3>1. IsOpen(x)' <=> IsOpen(x)
      BY <2>1 DEF IsOpen
    <3>2. \A i : ClosingAfter(i, x) => ClosingAfter(i, x)'
      BY <1>1 DEF ClosingAfter
    <3>3. OpenIsTold(x) => OpenIsTold(x)'
      BY <1>1 DEF OpenIsTold
    <3>4. ClosedIsTold(x) => ClosedIsTold(x)'
      BY <1>1, <2>1, <3>2 DEF ClosedIsTold, OpeningOf
    <3> QED
      BY <1>2, <3>1, <3>3, <3>4 DEF ToldInv, IsTold
  <2>2. CASE x = s /\ IsOpening(e)
    BY <1>1, <2>2 DEF IsTold, IsOpen, OpenIsTold, OpeningOf
  <2>3. CASE x = s /\ e.kind = "closed"
    <3>1. \A i : ClosingAfter(i, x)'
      BY <1>1, <2>3 DEF ClosingAfter, ClosingOf
    <3>2. ClosedIsTold(x)'
      BY <1>1, <2>3, <3>1 DEF ClosedIsTold, OpeningOf, IsOpening
    <3>3. ~IsOpen(x)'
      BY <2>3 DEF IsOpen, IsOpening
    <3> QED
      BY <3>2, <3>3 DEF IsTold
  <2>4. CASE x = s /\ e.kind \in {"accepted", "rejected"}
    <3>1. IsOpen(x)' <=> IsOpen(x)
      BY <2>4 DEF IsOpen, IsOpening
    <3>2. \A i : ClosingAfter(i, x) => ClosingAfter(i, x)'
      BY <1>1 DEF ClosingAfter
    <3>3. OpenIsTold(x) => OpenIsTold(x)'
      BY <1>1 DEF OpenIsTold
    <3>4. ClosedIsTold(x) => ClosedIsTold(x)'
      BY <1>1, <2>4, <3>2 DEF ClosedIsTold, OpeningOf, IsOpening
    <3> QED
      BY <1>2, <3>1, <3>3, <3>4 DEF ToldInv, IsTold
  <2> QED
    BY <2>1, <2>2, <2>3, <2>4 DEF IsOpening
<1> QED
  BY <1>1, <1>4, <1>6, <1>7, <1>8, <1>9 DEF ToldInv, TruthInv

\* The four actions of that kind.
LEMMA ToldChannelSteps ==
  ASSUME TypeInv, OpeningInv, ToldInv, ChannelManager
  PROVE  ToldInv'
<1>1. PICK s \in Session : \/ \E m \in Miners : RecordChannelOpened(s, m)
                           \/ RecordShareAccepted(s)
                           \/ RecordShareRejected(s)
                           \/ RecordChannelClosed(s)
  BY DEF ChannelManager
<1>2. /\ emitting[CM] = <<>> /\ UNCHANGED <<gone, removing, events, writer>>
  BY <1>1 DEF RecordChannelOpened, RecordShareAccepted, RecordShareRejected,
              RecordChannelClosed, CanSubmit, Idle, writerVars
<1>3. CASE \E m \in Miners : RecordChannelOpened(s, m)
  <2>1. PICK m \in Miners : RecordChannelOpened(s, m)
    BY <1>3
  <2>2. PICK e : e = [kind |-> "opened", session |-> s, miner |-> m]
    OBVIOUS
  <2>3. /\ emitting' = [emitting EXCEPT ![CM] = <<e>>] /\ channels[s] = None
        /\ channels' = [channels EXCEPT ![s] = Opened(m)]
    BY <2>1, <2>2 DEF RecordChannelOpened
  <2>4. e \in Event /\ IsOpening(e) /\ e.kind = "opened" /\ e.session = s /\ e.miner = m
    BY <2>2 DEF Event, IsOpening
  <2>5. Opened(m) # None /\ Opened(m).open /\ Opened(m).miner = m
    BY NewRecords, HistoryAssumption DEF Opened
  <2>6. channels'[s] = Opened(m) /\ \A x \in Session : x # s => channels'[x] = channels[x]
    BY <2>3 DEF TypeInv, TypeOK
  <2>7. /\ channels'[s] # None /\ channels'[s].open /\ channels'[s].miner = e.miner
        /\ e.kind \in {"opened", "closed", "accepted", "rejected"}
    BY <2>4, <2>5, <2>6
  <2> QED
    BY <1>2, <2>3, <2>4, <2>6, <2>7, ToldRecording
<1>4. CASE RecordShareAccepted(s) \/ RecordShareRejected(s) \/ RecordChannelClosed(s)
  <2>1. channels[s] \in SessionStats /\ channels[s].open /\ channels[s] # None
    BY <1>4, HistoryAssumption DEF TypeInv, TypeOK, RecordShareAccepted, RecordShareRejected,
       RecordChannelClosed, CanSubmit, IsOpen
  <2>2. PICK new \in SessionStats, e \in Event :
          /\ channels' = [channels EXCEPT ![s] = new]
          /\ emitting' = [emitting EXCEPT ![CM] = <<e>>]
          /\ e.kind \in {"closed", "accepted", "rejected"} /\ e.session = s
          /\ new.miner = channels[s].miner /\ new.open = (e.kind # "closed")
    <3>1. CASE RecordShareAccepted(s)
      <4> DEFINE new == [channels[s] EXCEPT !.accepted = channels[s].accepted + 1]
                 e == [kind |-> "accepted", session |-> s, count |-> channels[s].accepted + 1]
      <4>1. new \in SessionStats /\ e \in Event /\ new.miner = channels[s].miner /\ new.open = TRUE
        BY <2>1 DEF SessionStats, Event
      <4>2. e.kind = "accepted" /\ e.session = s
        OBVIOUS
      <4>3. /\ channels' = [channels EXCEPT ![s] = new]
            /\ emitting' = [emitting EXCEPT ![CM] = <<e>>]
        BY <3>1 DEF RecordShareAccepted
      <4> HIDE DEF new, e
      <4> QED
        BY <4>1, <4>2, <4>3
    <3>2. CASE RecordShareRejected(s)
      <4> DEFINE new == [channels[s] EXCEPT !.rejected = channels[s].rejected + 1]
                 e == [kind |-> "rejected", session |-> s, count |-> sessions[s].rejected + 1]
      <4>1. sessions[s] \in SessionStats
        BY <2>1 DEF TypeInv, TypeOK, SessionsKnown
      <4>2. new \in SessionStats /\ e \in Event /\ new.miner = channels[s].miner /\ new.open = TRUE
        BY <2>1, <4>1 DEF SessionStats, Event
      <4>3. e.kind = "rejected" /\ e.session = s
        OBVIOUS
      <4>4. /\ channels' = [channels EXCEPT ![s] = new]
            /\ emitting' = [emitting EXCEPT ![CM] = <<e>>]
        BY <3>2 DEF RecordShareRejected
      <4> HIDE DEF new, e
      <4> QED
        BY <4>2, <4>3, <4>4
    <3>3. CASE RecordChannelClosed(s)
      <4> DEFINE new == [channels[s] EXCEPT !.open = FALSE]
                 e == [kind |-> "closed", session |-> s]
      <4>1. new \in SessionStats /\ e \in Event /\ new.miner = channels[s].miner /\ new.open = FALSE
        BY <2>1 DEF SessionStats, Event
      <4>2. e.kind = "closed" /\ e.session = s
        OBVIOUS
      <4>3. /\ channels' = [channels EXCEPT ![s] = new]
            /\ emitting' = [emitting EXCEPT ![CM] = <<e>>]
        BY <3>3 DEF RecordChannelClosed
      <4> HIDE DEF new, e
      <4> QED
        BY <4>1, <4>2, <4>3
    <3> QED
      BY <1>4, <3>1, <3>2, <3>3
  <2>3. channels'[s] = new /\ \A x \in Session : x # s => channels'[x] = channels[x]
    BY <2>2 DEF TypeInv, TypeOK
  <2>4. /\ ~IsOpening(e) /\ e.kind \in {"opened", "closed", "accepted", "rejected"}
        /\ new # None
    BY <2>2, HistoryAssumption DEF IsOpening
  <2>5. /\ channels'[s] # None /\ channels'[s].miner = channels[s].miner
        /\ channels'[s].open = (e.kind # "closed")
    BY <2>2, <2>3, <2>4
  <2>6. emitting' = [emitting EXCEPT ![CM] = <<e>>] /\ e.session = s
    BY <2>2
  <2> QED
    BY <1>2, <2>1, <2>3, <2>4, <2>5, <2>6, ToldRecording
<1> QED
  BY <1>1, <1>3, <1>4

\* remove_downstream begins: the connection stays no longer.
LEMMA ToldRemoving ==
  ASSUME TypeInv, ToldInv, NEW t \in Task, NEW c \in Conns, RecordDownstreamClosed(t, c)
  PROVE  ToldInv'
<1>1. /\ emitting[t] = <<>> /\ removing[t] = None
      /\ removing' = [removing EXCEPT ![t] = c]
      /\ UNCHANGED <<gone, channels, events, writer>>
  BY DEF RecordDownstreamClosed, Idle, writerVars
<1>2. removing'[t] = c /\ \A x \in Task : x # t => removing'[x] = removing[x]
  BY <1>1 DEF TypeInv, TypeOK
<1>3. /\ Queued' = Queued /\ Unsent(t) = {}
      /\ \A x \in Task : x # t => Unsent(x)' = Unsent(x)
      /\ \A e \in Unsent(t)' : e.kind = "left" /\ e.conn = c
  <2>1. PICK out : /\ emitting' = [emitting EXCEPT ![t] = out]
                   /\ out = <<>> \/ out = <<[kind |-> "left", conn |-> c]>>
    BY DEF RecordDownstreamClosed, ClosedEvents
  <2>2. Unsent(t)' = {} \/ Unsent(t)' = {[kind |-> "left", conn |-> c]}
    BY <2>1, UnsentAfter
  <2>3. \A x \in Task : x # t => Unsent(x)' = Unsent(x)
    BY <2>1, UnsentAfter
  <2> QED
    BY <1>1, <2>2, <2>3, EventsOnTheirWay DEF Queued
<1>4. \A s \in Session : IsOpen(s)' = IsOpen(s) /\ (Staying(s)' => Staying(s))
  <2>1. ASSUME NEW s \in Session, Staying(s)' PROVE Staying(s)
    <3>1. s[1] \in Conns
      BY DEF Session
    <3>2. removing[t] # s[1]
      BY <1>1, <3>1, HistoryAssumption
    <3> QED
      BY <1>1, <1>2, <2>1, <3>2 DEF Staying
  <2> QED
    BY <1>1, <2>1 DEF IsOpen
<1>5. ASSUME NEW e \in Event, IsTrue(e) PROVE IsTrue(e)'
  <2>1. e.kind = "left" => e.conn # None
    BY EventParts, HistoryAssumption
  <2> QED
    BY <1>1, <1>2, <1>5, <2>1 DEF IsTrue
<1>6. ASSUME NEW e \in Unsent(t)' PROVE IsTrue(e)'
  BY <1>2, <1>3 DEF IsTrue, IsOpening
<1>7. TruthInv'
  <2>1. \A e \in Queued' : IsTrue(e)'
    BY <1>3, <1>5, EventsOnTheirWay DEF ToldInv, TruthInv
  <2>2. \A x \in Task : \A e \in Unsent(x)' : IsTrue(e)'
    BY <1>3, <1>5, <1>6, EventsOnTheirWay DEF ToldInv, TruthInv
  <2>3. \A x \in Conns : \A e \in Unsent(x)' : e.kind = "left"
    BY <1>3 DEF ToldInv, TruthInv, Task
  <2> QED
    BY <1>1, <2>1, <2>2, <2>3 DEF ToldInv, TruthInv
<1>8. ASSUME NEW s \in Session PROVE IsTold(s)'
  <2>1. CM \in Task /\ \A e \in Unsent(CM)' : e \in Unsent(CM) \/ e.kind = "left"
    BY <1>3 DEF Task
  <2>2. \A e \in Unsent(CM) : e \in Unsent(CM)'
    BY <1>3, <2>1
  <2>3. \A i : ClosingAfter(i, s) => ClosingAfter(i, s)'
    BY <1>1, <2>2 DEF ClosingAfter
  <2>4. OpenIsTold(s) => OpenIsTold(s)'
    BY <1>1, <2>2 DEF OpenIsTold
  <2>5. ClosedIsTold(s) => ClosedIsTold(s)'
    BY <1>1, <2>1, <2>3 DEF ClosedIsTold, OpeningOf, IsOpening
  <2> QED
    BY <1>4, <2>4, <2>5 DEF ToldInv, IsTold
<1> QED
  BY <1>7, <1>8 DEF ToldInv

\* remove_downstream ends: the channels are closed of a connection that
\* does not stay.
LEMMA ToldRemoved ==
  ASSUME TypeInv, ToldInv, NEW t \in Task, RemoveDownstream(t)
  PROVE  ToldInv'
<1>1. /\ removing[t] # None /\ gone' = gone \cup {removing[t]}
      /\ channels' = [s \in Session |-> IF s[1] = removing[t] /\ IsOpen(s)
                        THEN [channels[s] EXCEPT !.open = FALSE] ELSE channels[s]]
      /\ removing' = [removing EXCEPT ![t] = None]
      /\ UNCHANGED <<emitting, events, writer>>
  BY DEF RemoveDownstream, registryVars, writerVars
<1>2. removing'[t] = None /\ \A x \in Task : x # t => removing'[x] = removing[x]
  BY <1>1 DEF TypeInv, TypeOK
<1>3. Queued' = Queued /\ \A x : Unsent(x)' = Unsent(x)
  BY <1>1 DEF Queued, Unsent
<1>4. ASSUME NEW s \in Session
      PROVE  /\ channels'[s].miner = channels[s].miner
             /\ channels[s] # None /\ ~channels[s].open =>
                  channels'[s] # None /\ ~channels'[s].open
  <2>1. CASE s[1] = removing[t] /\ IsOpen(s)
    <3>1. channels[s] \in SessionStats
      BY <2>1 DEF TypeInv, TypeOK, IsOpen
    <3>2. [channels[s] EXCEPT !.open = FALSE].miner = channels[s].miner
      BY <3>1 DEF SessionStats
    <3> QED
      BY <1>1, <2>1, <3>2 DEF IsOpen
  <2>2. CASE ~(s[1] = removing[t] /\ IsOpen(s))
    BY <1>1, <2>2
  <2> QED
    BY <2>1, <2>2
<1>5. ASSUME NEW s \in Session, Staying(s)'
      PROVE  Staying(s) /\ channels'[s] = channels[s]
  <2>1. s[1] # removing[t] /\ s[1] \notin gone
    BY <1>1, <1>5 DEF Staying
  <2>2. \A x \in Task : removing[x] # s[1]
    BY <1>2, <1>5, <2>1 DEF Staying
  <2> QED
    BY <1>1, <2>1, <2>2 DEF Staying
<1>6. ASSUME NEW e \in Event, IsTrue(e) PROVE IsTrue(e)'
  <2>1. e.kind \in {"opened", "closed"} => e.session \in Session
    BY EventParts
  <2>2. e.kind = "left" => e.conn \in gone' \/ \E x \in Task : removing'[x] = e.conn
    BY <1>1, <1>2, <1>6 DEF IsTrue
  <2> QED
    BY <1>4, <1>6, <2>1, <2>2 DEF IsTrue, IsOpening
<1>7. TruthInv'
  <2>1. \A e \in Queued' : IsTrue(e)'
    BY <1>3, <1>6, EventsOnTheirWay DEF ToldInv, TruthInv
  <2>2. \A x \in Task : \A e \in Unsent(x)' : IsTrue(e)'
    BY <1>3, <1>6, EventsOnTheirWay DEF ToldInv, TruthInv
  <2> QED
    BY <1>1, <1>3, <1>4, <2>1, <2>2 DEF ToldInv, TruthInv
<1>8. ASSUME NEW s \in Session, Staying(s)'
      PROVE  IF IsOpen(s)' THEN OpenIsTold(s)' ELSE ClosedIsTold(s)'
  <2>1. IsOpen(s)' = IsOpen(s) /\ (IF IsOpen(s) THEN OpenIsTold(s) ELSE ClosedIsTold(s))
    BY <1>5, <1>8 DEF IsOpen, ToldInv, IsTold
  <2>2. \A i : ClosingAfter(i, s)' <=> ClosingAfter(i, s)
    BY <1>1, <1>3 DEF ClosingAfter
  <2> QED
    BY <1>1, <1>3, <2>1, <2>2 DEF OpenIsTold, ClosedIsTold
<1> QED
  BY <1>7, <1>8 DEF ToldInv, IsTold

\* An event is sent: it was the only one unsent and is the last in the queue.
LEMMA SentEvent ==
  ASSUME TypeInv, NEW t \in Task, Emit(t)
  PROVE  \E e \in Unsent(t) :
           /\ Len(events) \in Nat /\ Len(events') = Len(events) + 1
           /\ \A i \in 1..Len(events) : i \in 1..Len(events') /\ events'[i] = events[i]
           /\ \A i \in 1..Len(events') : i \in 1..Len(events) \/ i = Len(events')
           /\ Len(events') \in 1..Len(events') /\ events'[Len(events')] = e
           /\ Queued' = Queued \cup {e}
           /\ Unsent(t) = {e} /\ Unsent(t)' = {}
           /\ \A x \in Task : x # t => Unsent(x)' = Unsent(x)
<1>1. /\ Len(events) \in Nat /\ Len(emitting[t]) = 1
      /\ Len(events') = Len(events) + 1
      /\ \A i \in 1..Len(events) : events'[i] = events[i]
      /\ events'[Len(events')] = emitting[t][1]
  BY EmitAppends
<1>2. PICK e : e = emitting[t][1]
  OBVIOUS
<1>3. Unsent(t) = {e}
  <2>1. 1..1 = {1}
    OBVIOUS
  <2> QED
    BY <1>1, <1>2, <2>1 DEF Unsent
<1>4. Unsent(t)' = {} /\ \A x \in Task : x # t => Unsent(x)' = Unsent(x)
  <2>1. PICK out : out = <<>>
    OBVIOUS
  <2>2. emitting' = [emitting EXCEPT ![t] = out]
    BY <2>1 DEF Emit
  <2> QED
    BY <2>1, <2>2, UnsentAfter
<1>5. /\ \A i \in 1..Len(events) : i \in 1..Len(events')
      /\ \A i \in 1..Len(events') : i \in 1..Len(events) \/ i = Len(events')
      /\ Len(events') \in 1..Len(events')
  BY <1>1
<1>6. Queued' = Queued \cup {e}
  <2>1. 1..Len(events') = 1..Len(events) \cup {Len(events')}
    BY <1>1
  <2> QED
    BY <1>1, <1>2, <2>1 DEF Queued
<1> QED
  BY <1>1, <1>2, <1>3, <1>4, <1>5, <1>6

\* An event is sent: it is the last on its way and was the only one unsent.
LEMMA ToldSent ==
  ASSUME TypeInv, ToldInv, NEW t \in Task, Emit(t)
  PROVE  ToldInv'
<1>1. PICK e \in Unsent(t) :
        /\ Len(events) \in Nat /\ Len(events') = Len(events) + 1
        /\ \A i \in 1..Len(events) : i \in 1..Len(events') /\ events'[i] = events[i]
        /\ \A i \in 1..Len(events') : i \in 1..Len(events) \/ i = Len(events')
        /\ Len(events') \in 1..Len(events') /\ events'[Len(events')] = e
        /\ Queued' = Queued \cup {e}
        /\ Unsent(t) = {e} /\ Unsent(t)' = {}
        /\ \A x \in Task : x # t => Unsent(x)' = Unsent(x)
  BY SentEvent
<1>2. UNCHANGED <<gone, channels, removing, writer>>
  BY DEF Emit
<1>3. e \in Event /\ IsTrue(e) /\ (t # CM => e.kind = "left")
  BY EventsOnTheirWay DEF ToldInv, TruthInv, Task
<1>4. \A q : IsTrue(q) => IsTrue(q)'
  BY <1>2 DEF IsTrue
<1>5. TruthInv'
  <2>1. \A q \in Queued' : IsTrue(q)'
    BY <1>1, <1>3, <1>4 DEF ToldInv, TruthInv
  <2>2. \A x \in Task : \A q \in Unsent(x)' : q \in Unsent(x)
    BY <1>1
  <2>3. \A x \in Task : \A q \in Unsent(x)' : IsTrue(q)'
    BY <1>4, <2>2 DEF ToldInv, TruthInv
  <2>4. \A x \in Conns : \A q \in Unsent(x)' : q.kind = "left"
    BY <2>2 DEF ToldInv, TruthInv, Task
  <2> QED
    BY <1>2, <2>1, <2>3, <2>4 DEF ToldInv, TruthInv
<1>6. ASSUME NEW s \in Session, Staying(s)'
      PROVE  IF IsOpen(s)' THEN OpenIsTold(s)' ELSE ClosedIsTold(s)'
  <2>1. IsOpen(s)' = IsOpen(s) /\ (IF IsOpen(s) THEN OpenIsTold(s) ELSE ClosedIsTold(s))
    BY <1>2, <1>6 DEF IsOpen, Staying, ToldInv, IsTold
  <2>2. /\ \A i \in 1..Len(events) : i \in 1..Len(events')
        /\ \A i \in 1..Len(events') : i \in 1..Len(events) \/ i = Len(events')
        /\ Len(events') \in 1..Len(events')
    BY <1>1
  <2>3. \A q \in Unsent(CM) : q \in Unsent(CM)' \/ (q = e /\ t = CM)
    BY <1>1 DEF Task
  <2>4. ASSUME NEW i \in 0..Len(events), ClosingAfter(i, s)
        PROVE  ClosingAfter(i, s)'
    <3>1. CASE \E j \in (i + 1)..Len(events) : ClosingOf(events[j], s)
      <4>1. PICK j \in (i + 1)..Len(events) : ClosingOf(events[j], s)
        BY <3>1
      <4>2. j \in 1..Len(events) /\ j \in (i + 1)..Len(events')
        BY <1>1, <4>1
      <4>3. events'[j] = events[j]
        BY <1>1, <4>2
      <4> QED
        BY <4>1, <4>2, <4>3 DEF ClosingAfter
    <3>2. CASE \E q \in Unsent(CM) : ClosingOf(q, s)
      <4>1. Len(events') \in (i + 1)..Len(events')
        BY <1>1
      <4> QED
        BY <1>1, <2>3, <3>2, <4>1 DEF ClosingAfter
    <3> QED
      BY <2>4, <3>1, <3>2 DEF ClosingAfter
  <2>5. OpenIsTold(s) => OpenIsTold(s)'
    BY <1>1, <1>2, <1>3, <2>2, <2>3 DEF OpenIsTold
  <2>6. ASSUME ClosedIsTold(s) PROVE ClosedIsTold(s)'
    <3>1. 0 \in 0..Len(events) /\ \A i \in 1..Len(events) : i \in 0..Len(events)
      BY <1>1
    <3>2. writer'[s] # None => ClosingAfter(0, s)'
      BY <1>2, <2>4, <2>6, <3>1 DEF ClosedIsTold
    <3>3. ~OpeningOf(e, s)
      BY <1>3, <2>6 DEF ClosedIsTold, OpeningOf, IsOpening
    <3>4. \A i \in 1..Len(events') : OpeningOf(events'[i], s) => ClosingAfter(i, s)'
      BY <1>1, <1>3, <2>2, <2>4, <2>6, <3>1, <3>3 DEF ClosedIsTold
    <3>5. \A q \in Unsent(CM)' : ~OpeningOf(q, s)
      BY <1>1, <2>6 DEF ClosedIsTold, Task
    <3> QED
      BY <3>2, <3>4, <3>5 DEF ClosedIsTold
  <2> QED
    BY <2>1, <2>5, <2>6
<1> QED
  BY <1>5, <1>6 DEF ToldInv, IsTold

\* The writer takes the first event, and the others move up.
LEMMA TakenEvent ==
  ASSUME TypeInv, ToldInv, ApplyEvent
  PROVE  \E e \in Event :
           /\ e = Head(events) /\ e = events[1] /\ IsTrue(e) /\ e \in Queued
           /\ 1 \in 1..Len(events) /\ Len(events) \in Nat /\ Len(events') = Len(events) - 1
           /\ \A i \in 1..Len(events') : i + 1 \in 1..Len(events) /\ events'[i] = events[i + 1]
           /\ Queued' \subseteq Queued
           /\ UNCHANGED <<gone, channels, sessions, removing, emitting>>
<1>1. /\ Head(events) \in Event /\ Head(events) = events[1]
      /\ Len(events) \in Nat \ {0} /\ Len(events') = Len(events) - 1
      /\ \A i \in 1..Len(events') : i + 1 \in 1..Len(events) /\ events'[i] = events[i + 1]
  BY TakeMoves DEF TypeInv, TypeOK, ApplyEvent, ApplyOpened, ApplyClosed, ApplyDownstreamClosed,
                   ApplyShare
<1>2. UNCHANGED <<gone, channels, sessions, removing, emitting>>
  BY DEF ApplyEvent, ApplyOpened, ApplyClosed, ApplyDownstreamClosed, ApplyShare, registryVars
<1>3. 1 \in 1..Len(events)
  BY <1>1
<1>4. Head(events) \in Queued /\ Queued' \subseteq Queued
  BY <1>1, <1>3 DEF Queued
<1> QED
  BY <1>1, <1>2, <1>3, <1>4 DEF ToldInv, TruthInv

LEMMA WriterLearns ==
  ASSUME TypeInv, ApplyEvent, NEW e \in Event, e = Head(events), NEW s \in Session
  PROVE  \/ OpeningOf(e, s) /\ writer'[s] = e.miner /\ e.miner # None
         \/ ClosingOf(e, s) /\ writer'[s] = None
         \/ e.kind = "left" /\ e.conn = s[1] /\ writer'[s] = None
         \/ ~OpeningOf(e, s) /\ ~ClosingOf(e, s) /\ writer'[s] = writer[s]
<1>1. CASE ApplyOpened
  <2>1. e.kind = "opened" /\ writer' = [writer EXCEPT ![e.session] = e.miner]
    BY <1>1 DEF ApplyOpened
  <2>2. e.session \in Session /\ e.miner \in Miners /\ e.miner # None
    BY <2>1, EventParts, HistoryAssumption
  <2> QED
    BY <2>1, <2>2 DEF TypeInv, TypeOK, OpeningOf, ClosingOf, IsOpening
<1>2. CASE ApplyClosed
  <2>1. e.kind = "closed" /\ writer' = [writer EXCEPT ![e.session] = None]
    BY <1>2 DEF ApplyClosed
  <2> QED
    BY <2>1 DEF TypeInv, TypeOK, OpeningOf, ClosingOf, IsOpening
<1>3. CASE ApplyDownstreamClosed
  <2>1. /\ e.kind = "left"
        /\ writer' = [x \in Session |-> IF x[1] = e.conn THEN None ELSE writer[x]]
    BY <1>3 DEF ApplyDownstreamClosed
  <2> QED
    BY <2>1 DEF OpeningOf, ClosingOf, IsOpening
<1>4. CASE ApplyShare
  <2>1. e.kind \in {"accepted", "rejected"} /\ writer' = writer
    BY <1>4 DEF ApplyShare
  <2> QED
    BY <2>1 DEF OpeningOf, ClosingOf, IsOpening
<1> QED
  BY <1>1, <1>2, <1>3, <1>4 DEF ApplyEvent

\* The writer takes an event: what it learns is what the event tells of.
LEMMA ToldTaken ==
  ASSUME TypeInv, ToldInv, ApplyEvent
  PROVE  ToldInv'
<1>1. PICK e \in Event :
        /\ e = Head(events) /\ e = events[1] /\ IsTrue(e) /\ e \in Queued
        /\ 1 \in 1..Len(events) /\ Len(events) \in Nat /\ Len(events') = Len(events) - 1
        /\ \A i \in 1..Len(events') : i + 1 \in 1..Len(events) /\ events'[i] = events[i + 1]
        /\ Queued' \subseteq Queued
        /\ UNCHANGED <<gone, channels, sessions, removing, emitting>>
  BY TakenEvent
<1>2. ASSUME NEW s \in Session
      PROVE  \/ OpeningOf(e, s) /\ writer'[s] = e.miner /\ e.miner # None
             \/ ClosingOf(e, s) /\ writer'[s] = None
             \/ e.kind = "left" /\ e.conn = s[1] /\ writer'[s] = None
             \/ ~OpeningOf(e, s) /\ ~ClosingOf(e, s) /\ writer'[s] = writer[s]
  BY <1>1, WriterLearns
<1>3. TruthInv'
  <2>1. Queued' \subseteq Queued /\ \A x : Unsent(x)' = Unsent(x)
    BY <1>1 DEF Queued, Unsent
  <2>2. \A q : IsTrue(q) => IsTrue(q)'
    BY <1>1 DEF IsTrue
  <2>3. \A s \in Session : writer'[s] # None => writer'[s] = channels'[s].miner
    BY <1>1, <1>2 DEF ToldInv, TruthInv, IsTrue, OpeningOf
  <2> QED
    BY <2>1, <2>2, <2>3 DEF ToldInv, TruthInv
<1>4. ASSUME NEW s \in Session, Staying(s)'
      PROVE  IF IsOpen(s)' THEN OpenIsTold(s)' ELSE ClosedIsTold(s)'
  <2>1. /\ IsOpen(s)' = IsOpen(s) /\ Staying(s)
        /\ IF IsOpen(s) THEN OpenIsTold(s) ELSE ClosedIsTold(s)
    BY <1>1, <1>4 DEF IsOpen, Staying, ToldInv, IsTold
  <2>2. ~(e.kind = "left" /\ e.conn = s[1])
    BY <1>1, <2>1 DEF IsTrue, Staying
  <2>3. Unsent(CM)' = Unsent(CM)
    BY <1>1 DEF Unsent
  <2>4. ASSUME IsOpen(s) PROVE OpenIsTold(s)'
    <3>1. ~ClosingOf(e, s)
      BY <1>1, <2>4 DEF IsTrue, ClosingOf, IsOpen
    <3>2. CASE writer[s] # None \/ OpeningOf(e, s)
      BY <1>2, <2>2, <3>1, <3>2 DEF OpenIsTold, OpeningOf, ClosingOf, IsOpening
    <3>3. CASE \E i \in 1..Len(events) : i # 1 /\ OpeningOf(events[i], s)
      <4>1. PICK i \in 1..Len(events) : i # 1 /\ OpeningOf(events[i], s)
        BY <3>3
      <4>2. i - 1 \in 1..Len(events') /\ (i - 1) + 1 = i
        BY <1>1, <4>1
      <4>3. events'[i - 1] = events[i]
        BY <1>1, <4>2
      <4> QED
        BY <4>1, <4>2, <4>3 DEF OpenIsTold
    <3>4. CASE \E q \in Unsent(CM) : OpeningOf(q, s)
      BY <2>3, <3>4 DEF OpenIsTold
    <3> QED
      BY <1>1, <2>1, <2>4, <3>2, <3>3, <3>4 DEF OpenIsTold
  <2>5. ASSUME ~IsOpen(s) PROVE ClosedIsTold(s)'
    <3>1. ClosedIsTold(s)
      BY <2>1, <2>5
    <3>2. ASSUME NEW i \in Nat, ClosingAfter(i + 1, s) PROVE ClosingAfter(i, s)'
      <4>1. CASE \E j \in (i + 2)..Len(events) : ClosingOf(events[j], s)
        <5>1. PICK j \in (i + 2)..Len(events) : ClosingOf(events[j], s)
          BY <4>1
        <5>2. j - 1 \in 1..Len(events') /\ j - 1 \in (i + 1)..Len(events') /\ (j - 1) + 1 = j
          BY <1>1, <5>1
        <5>3. events'[j - 1] = events[j]
          BY <1>1, <5>2
        <5> QED
          BY <5>1, <5>2, <5>3 DEF ClosingAfter
      <4>2. CASE \E q \in Unsent(CM) : ClosingOf(q, s)
        BY <2>3, <4>2 DEF ClosingAfter
      <4>3. (i + 1) + 1 = i + 2
        OBVIOUS
      <4> QED
        BY <3>2, <4>1, <4>2, <4>3 DEF ClosingAfter
    <3>3. ClosingAfter(0, s) => ClosingAfter(1, s) \/ ClosingOf(e, s)
      <4>1. \A j \in (0 + 1)..Len(events) : j = 1 \/ j \in (1 + 1)..Len(events)
        BY <1>1
      <4> QED
        BY <1>1, <4>1 DEF ClosingAfter
    <3>4. writer'[s] # None => ClosingAfter(0, s)'
      <4> SUFFICES ASSUME writer'[s] # None PROVE ClosingAfter(0, s)'
        OBVIOUS
      <4>1. \/ OpeningOf(e, s)
            \/ ~ClosingOf(e, s) /\ writer[s] # None
        BY <1>2
      <4>2. ClosingAfter(1, s)
        BY <1>1, <3>1, <3>3, <4>1 DEF ClosedIsTold
      <4>3. 0 \in Nat /\ 0 + 1 = 1
        OBVIOUS
      <4> QED
        BY <3>2, <4>2, <4>3
    <3>5. ASSUME NEW i \in 1..Len(events'), OpeningOf(events'[i], s) PROVE ClosingAfter(i, s)'
      <4>1. i \in Nat /\ i + 1 \in 1..Len(events) /\ OpeningOf(events[i + 1], s)
        BY <1>1, <3>5
      <4>2. ClosingAfter(i + 1, s)
        BY <3>1, <4>1 DEF ClosedIsTold
      <4> QED
        BY <3>2, <4>1, <4>2
    <3>6. \A q \in Unsent(CM)' : ~OpeningOf(q, s)
      BY <2>3, <3>1 DEF ClosedIsTold
    <3> QED
      BY <3>4, <3>5, <3>6 DEF ClosedIsTold
  <2> QED
    BY <2>1, <2>4, <2>5
<1> QED
  BY <1>3, <1>4 DEF ToldInv, IsTold

\* Nothing is on its way and the writer knows nothing.
LEMMA ToldAtStart ==
  ASSUME events = <<>>, \A t \in Task : emitting[t] = <<>>,
         \A s \in Session : channels[s] = None /\ writer[s] = None
  PROVE  ToldInv
<1>1. Len(<<>>) = 0
  BY EmptySeq
<1>2. Queued = {} /\ \A t \in Task : Unsent(t) = {}
  BY <1>1 DEF Queued, Unsent
<1>3. TruthInv
  BY <1>2 DEF TruthInv, Task
<1>4. \A i \in 1..Len(events) : FALSE
  BY <1>1
<1>5. \A s \in Session : ~IsOpen(s) /\ ClosedIsTold(s)
  BY <1>2, <1>4 DEF IsOpen, ClosedIsTold, Task
<1> QED
  BY <1>3, <1>5 DEF ToldInv, IsTold

\* A restart loses both: the same of the state after it.
LEMMA ToldAfterRestart ==
  ASSUME events' = <<>>, \A t \in Task : emitting'[t] = <<>>,
         \A s \in Session : channels'[s] = None /\ writer'[s] = None
  PROVE  ToldInv'
<1>1. Len(<<>>) = 0
  BY EmptySeq
<1>2. Queued' = {} /\ \A t \in Task : Unsent(t)' = {}
  BY <1>1 DEF Queued, Unsent
<1>3. TruthInv'
  BY <1>2 DEF TruthInv, Task
<1>4. \A i \in 1..Len(events') : FALSE
  BY <1>1
<1>5. \A s \in Session : ~IsOpen(s)' /\ ClosedIsTold(s)'
  BY <1>2, <1>4 DEF IsOpen, ClosedIsTold, Task
<1> QED
  BY <1>3, <1>5 DEF ToldInv, IsTold

LEMMA ToldElsewhere ==
  ASSUME ToldInv, UNCHANGED <<gone, channels, removing, emitting, events, writer>>
  PROVE  ToldInv'
<1>1. Queued' = Queued /\ \A x : Unsent(x)' = Unsent(x)
  BY DEF Queued, Unsent
<1>2. \A e : IsTrue(e)' = IsTrue(e)
  BY DEF IsTrue
<1>3. TruthInv'
  BY <1>1, <1>2 DEF ToldInv, TruthInv
<1>4. ASSUME NEW s \in Session PROVE IsTold(s)'
  <2>1. \A i : ClosingAfter(i, s)' = ClosingAfter(i, s)
    BY <1>1 DEF ClosingAfter
  <2>2. OpenIsTold(s)' = OpenIsTold(s) /\ ClosedIsTold(s)' = ClosedIsTold(s)
    BY <1>1, <2>1 DEF OpenIsTold, ClosedIsTold
  <2>3. IsOpen(s)' = IsOpen(s) /\ Staying(s)' = Staying(s)
    BY DEF IsOpen, Staying
  <2> QED
    BY <2>2, <2>3 DEF ToldInv, IsTold
<1> QED
  BY <1>3, <1>4 DEF ToldInv

LEMMA ToldStep == TypeInv /\ OpeningInv /\ ToldInv /\ [Next]_vars => ToldInv'
<1> SUFFICES ASSUME TypeInv, OpeningInv, ToldInv, [Next]_vars PROVE ToldInv'
  OBVIOUS
<1>1. CASE ChannelManager
  BY <1>1, ToldChannelSteps
<1>2. CASE Remover
  BY <1>2, ToldRemoving, ToldRemoved DEF Remover
<1>3. CASE \E t \in Task : Emit(t)
  BY <1>3, ToldSent
<1>4. CASE ApplyEvent
  BY <1>4, ToldTaken
<1>5. CASE (\E m \in Miners : DeleteOfflineMiner(m)) \/ UNCHANGED vars
  BY <1>5, ToldElsewhere DEF DeleteOfflineMiner, vars, registryVars, writerVars
<1>6. CASE Restart
  <2>1. /\ events' = <<>> /\ \A t \in Task : emitting'[t] = <<>>
        /\ \A s \in Session : channels'[s] = None /\ writer'[s] = None
    BY <1>6 DEF Restart, LoseMemory, Fresh, TypeInv, TypeOK
  <2> QED
    BY <2>1, ToldAfterRestart
<1> QED
  BY <1>1, <1>2, <1>3, <1>4, <1>5, <1>6 DEF Next

\* Once the queue is worked off, the writer knows exactly the open channels of
\* every connection that stays: for any number of tasks whose events overtake
\* one another, of channels, failures and restarts.
THEOREM WriterCatchesUp == Spec => []WriterKnowsOpenChannels
<1> DEFINE Inv == TypeInv /\ OpeningInv /\ ToldInv
<1>1. Init => Inv
  BY TypeInit, OpeningInit, ToldAtStart DEF Init
<1>2. Inv /\ [Next]_vars => Inv'
  BY TypeStep, OpeningStep, ToldStep
<1>3. Inv => WriterKnowsOpenChannels
  <2> SUFFICES ASSUME Inv, Quiet, NEW s \in Session, Staying(s)
               PROVE  writer[s] = IF IsOpen(s) THEN channels[s].miner ELSE None
    BY DEF WriterKnowsOpenChannels
  <2>1. CM \in Task /\ Len(<<>>) = 0
    BY EmptySeq DEF Task
  <2>2. Unsent(CM) = {} /\ \A i \in 1..Len(events) : FALSE
    BY <2>1, EventsOnTheirWay DEF Quiet
  <2>3. \A i \in {0} : ~ClosingAfter(i, s)
    BY <2>1, <2>2 DEF ClosingAfter, Quiet
  <2>4. IF IsOpen(s) THEN writer[s] # None ELSE writer[s] = None
    BY <2>2, <2>3 DEF ToldInv, IsTold, OpenIsTold, ClosedIsTold
  <2> QED
    BY <2>4 DEF ToldInv, TruthInv
<1> HIDE DEF Inv
<1> QED
  BY <1>1, <1>2, <1>3, PTL DEF Spec

-----------------------------------------------------------------------------
(***************************************************************************)
(* What the table will say.  Of a miner with a single session the last     *)
(* event of each kind on its way has the count of the channel, or, when    *)
(* there is none, the row has it; and no count comes before the opening.   *)
(***************************************************************************)
Counting == {"accepted", "rejected"}
Count(r, kind) == IF kind = "accepted" THEN r.accepted ELSE r.rejected

CountingOf(e, s, kind) == e.kind = kind /\ e.session = s

CountingAfter(i, s, kind) ==
  \/ \E j \in (i + 1)..Len(events) : CountingOf(events[j], s, kind)
  \/ \E e \in Unsent(CM) : CountingOf(e, s, kind)

\* The registry has the counts of the channels, and nothing is counted of a
\* channel that is not there.
CountsAgree == \A s \in Session : channels[s] # None => sessions[s].rejected = channels[s].rejected

CountedChannels ==
  \A e \in Queued \cup Unsent(CM) : e.kind \in Counting => channels[e.session] # None

CountsAreLast(s, kind) ==
  /\ \A i \in 1..Len(events) : CountingOf(events[i], s, kind) =>
       events[i].count = Count(channels[s], kind) \/ CountingAfter(i, s, kind)
  /\ \A e \in Unsent(CM) : CountingOf(e, s, kind) => e.count = Count(channels[s], kind)

CountsFollowOpening(s, kind) ==
  \A i \in 1..Len(events) : CountingOf(events[i], s, kind) =>
    writer[s] # None \/ \E j \in 1..i - 1 : OpeningOf(events[j], s)

CountIsRecorded(s, kind) ==
  \/ CountingAfter(0, s, kind)
  \/ Count(channels[s], kind) = IF writer[s] = None THEN 0
                                ELSE Count(known[channels[s].miner], kind)

InRecord(s) ==
  /\ writer[s] # None => IsOnline(channels[s].miner)
  /\ \A kind \in Counting :
       CountsAreLast(s, kind) /\ CountsFollowOpening(s, kind) /\ CountIsRecorded(s, kind)

OnRecord(s) == Staying(s) /\ IsOpen(s) /\ Sole(s) /\ channels[s].miner \notin unwritten

\* The strengthening of MiningIsOnRecord that every step preserves.
RecordInv ==
  /\ CountsAgree
  /\ CountedChannels
  /\ \A s \in Session : OnRecord(s) => InRecord(s)

\* A step that keeps what a session's record is made of: the row, if the
\* writer knows the session.
LEMMA InRecordKept ==
  ASSUME NEW s \in Session, InRecord(s), UNCHANGED events,
         channels'[s] = channels[s], writer'[s] = writer[s],
         writer[s] # None => known'[channels[s].miner] = known[channels[s].miner],
         \A e, kind : CountingOf(e, s, kind) /\ kind \in Counting =>
           (e \in Unsent(CM)' <=> e \in Unsent(CM))
  PROVE  InRecord(s)'
<1>1. \A i, kind : kind \in Counting => (CountingAfter(i, s, kind)' <=> CountingAfter(i, s, kind))
  BY DEF CountingAfter
<1>2. ASSUME NEW kind \in Counting
      PROVE  CountsAreLast(s, kind)' /\ CountsFollowOpening(s, kind)' /\ CountIsRecorded(s, kind)'
  <2>1. CountsAreLast(s, kind) /\ CountsFollowOpening(s, kind) /\ CountIsRecorded(s, kind)
    BY DEF InRecord
  <2>2. CountsAreLast(s, kind)'
    BY <1>1, <2>1 DEF CountsAreLast
  <2>3. CountsFollowOpening(s, kind)'
    BY <2>1 DEF CountsFollowOpening
  <2>4. CountIsRecorded(s, kind)'
    BY <1>1, <2>1 DEF CountIsRecorded, Count
  <2> QED
    BY <2>2, <2>3, <2>4
<1>3. writer[s] # None => (IsOnline(channels[s].miner)' <=> IsOnline(channels[s].miner))
  BY DEF IsOnline
<1> QED
  BY <1>2, <1>3 DEF InRecord

\* A session on record was so before, unless its channel is new.
LEMMA OnRecordBefore ==
  ASSUME NEW s \in Session, OnRecord(s)', IsOpen(s), Staying(s)' => Staying(s),
         unwritten \subseteq unwritten',
         \A x \in Session : channels[x] # None =>
           channels'[x] # None /\ channels'[x].miner = channels[x].miner
  PROVE  OnRecord(s) /\ channels'[s].miner = channels[s].miner
<1>1. channels[s] # None
  BY DEF IsOpen
<1>2. Sole(s)
  BY <1>1 DEF OnRecord, Sole
<1> QED
  BY <1>1, <1>2 DEF OnRecord

\* The row of a miner with one session is no other session's.
LEMMA RowOfOne ==
  ASSUME TypeInv, OpeningInv, ToldInv, NEW s \in Session, Sole(s), channels[s] # None,
         NEW other \in Session, other # s
  PROVE  /\ channels[s].miner \in Miners
         /\ writer[other] # channels[s].miner
         /\ channels[other] # None => channels[other].miner # channels[s].miner
<1>1. channels[s].miner \in Miners /\ channels[s].miner # None
  BY HistoryAssumption DEF TypeInv, TypeOK, SessionStats
<1>2. channels[other] # None => channels[other].miner # channels[s].miner
  BY DEF Sole
<1>3. writer[other] # None => channels[other] # None /\ writer[other] = channels[other].miner
  BY DEF OpeningInv, WriterOfChannels, ToldInv, TruthInv
<1> QED
  BY <1>1, <1>2, <1>3

-----------------------------------------------------------------------------
\* A new channel has counted nothing, and its opening is sent after all.
LEMMA RecordOpened ==
  ASSUME TypeInv, OpeningInv, ToldInv, RecordInv, NEW s \in Session, NEW e \in Event,
         channels[s] = None, IsOpening(e), Unsent(CM)' = {e},
         UNCHANGED <<events, writer>>,
         channels'[s].accepted = 0, channels'[s].rejected = 0
  PROVE  InRecord(s)'
<1>1. writer[s] = None
  BY DEF OpeningInv, WriterOfChannels
<1>2. \A i \in 1..Len(events), kind \in Counting : ~CountingOf(events[i], s, kind)
  <2> SUFFICES ASSUME NEW i \in 1..Len(events), events[i].kind \in Counting
               PROVE  events[i].session # s
    BY DEF CountingOf
  <2>1. events[i] \in Queued
    BY DEF Queued
  <2> QED
    BY <2>1 DEF RecordInv, CountedChannels
<1>3. \A kind \in Counting : ~CountingOf(e, s, kind)
  BY DEF CountingOf, Counting, IsOpening
<1>4. ASSUME NEW kind \in Counting
      PROVE  CountsAreLast(s, kind)' /\ CountsFollowOpening(s, kind)' /\ CountIsRecorded(s, kind)'
  <2>1. CountsAreLast(s, kind)'
    BY <1>2, <1>3 DEF CountsAreLast
  <2>2. CountsFollowOpening(s, kind)'
    BY <1>2 DEF CountsFollowOpening
  <2>3. Count(channels[s], kind)' = 0
    BY DEF Count
  <2>4. CountIsRecorded(s, kind)'
    BY <1>1, <2>3 DEF CountIsRecorded
  <2> QED
    BY <2>1, <2>2, <2>4
<1> QED
  BY <1>1, <1>4 DEF InRecord

\* A share is counted: its event has the count, and is the last on its way.
LEMMA RecordCounted ==
  ASSUME TypeInv, NEW s \in Session, InRecord(s), NEW e \in Event, NEW counted \in Counting,
         Unsent(CM) = {}, Unsent(CM)' = {e}, CountingOf(e, s, counted),
         UNCHANGED <<events, writer, known>>,
         channels'[s].miner = channels[s].miner,
         Count(channels[s], counted)' = e.count,
         \A kind \in Counting \ {counted} : Count(channels[s], kind)' = Count(channels[s], kind)
  PROVE  InRecord(s)'
<1>1. \A i : CountingAfter(i, s, counted)'
  BY DEF CountingAfter
<1>2. \A i, kind : CountingAfter(i, s, kind) => CountingAfter(i, s, kind)'
  BY DEF CountingAfter
<1>3. ASSUME NEW kind \in Counting
      PROVE  CountsAreLast(s, kind)' /\ CountsFollowOpening(s, kind)' /\ CountIsRecorded(s, kind)'
  <2>1. CountsAreLast(s, kind) /\ CountsFollowOpening(s, kind) /\ CountIsRecorded(s, kind)
    BY DEF InRecord
  <2>2. CountsFollowOpening(s, kind)'
    BY <2>1 DEF CountsFollowOpening
  <2>3. CASE kind = counted
    BY <1>1, <2>2, <2>3 DEF CountsAreLast, CountIsRecorded
  <2>4. CASE kind # counted
    <3>1. ~CountingOf(e, s, kind) /\ Count(channels[s], kind)' = Count(channels[s], kind)
      BY <2>4 DEF CountingOf
    <3>2. CountsAreLast(s, kind)'
      BY <1>2, <2>1, <3>1 DEF CountsAreLast
    <3>3. CountIsRecorded(s, kind)'
      BY <1>2, <2>1, <3>1 DEF CountIsRecorded, Count
    <3> QED
      BY <2>2, <3>2, <3>3
  <2> QED
    BY <2>3, <2>4
<1>4. writer[s] # None => IsOnline(channels[s].miner)
  BY DEF InRecord
<1>5. IsOnline(channels[s].miner)' <=> IsOnline(channels[s].miner)
  BY DEF IsOnline
<1> QED
  BY <1>3, <1>4, <1>5 DEF InRecord

LEMMA RecordSent ==
  ASSUME TypeInv, ToldInv, NEW s \in Session, OnRecord(s), InRecord(s), NEW t \in Task, Emit(t)
  PROVE  InRecord(s)'
<1>1. PICK e \in Unsent(t) :
        /\ Len(events) \in Nat /\ Len(events') = Len(events) + 1
        /\ \A i \in 1..Len(events) : i \in 1..Len(events') /\ events'[i] = events[i]
        /\ \A i \in 1..Len(events') : i \in 1..Len(events) \/ i = Len(events')
        /\ Len(events') \in 1..Len(events') /\ events'[Len(events')] = e
        /\ Queued' = Queued \cup {e}
        /\ Unsent(t) = {e} /\ Unsent(t)' = {}
        /\ \A x \in Task : x # t => Unsent(x)' = Unsent(x)
  BY SentEvent
<1>2. UNCHANGED <<channels, writer, known>>
  BY DEF Emit
<1>3. /\ CM \in Task /\ (t # CM => e.kind = "left")
      /\ \A q \in Unsent(CM)' : q \in Unsent(CM)
      /\ \A q \in Unsent(CM) : q \in Unsent(CM)' \/ (q = e /\ t = CM)
  BY <1>1 DEF ToldInv, TruthInv, Task
<1>4. ASSUME NEW kind \in Counting, NEW i \in 0..Len(events), CountingAfter(i, s, kind)
      PROVE  CountingAfter(i, s, kind)'
  <2>1. CASE \E j \in (i + 1)..Len(events) : CountingOf(events[j], s, kind)
    <3>1. PICK j \in (i + 1)..Len(events) : CountingOf(events[j], s, kind)
      BY <2>1
    <3>2. j \in 1..Len(events) /\ j \in (i + 1)..Len(events')
      BY <1>1, <3>1
    <3>3. events'[j] = events[j]
      BY <1>1, <3>2
    <3> QED
      BY <3>1, <3>2, <3>3 DEF CountingAfter
  <2>2. CASE \E q \in Unsent(CM) : CountingOf(q, s, kind)
    <3>1. Len(events') \in (i + 1)..Len(events')
      BY <1>1
    <3> QED
      BY <1>1, <1>3, <2>2, <3>1 DEF CountingAfter
  <2> QED
    BY <1>4, <2>1, <2>2 DEF CountingAfter
<1>5. ASSUME NEW kind \in Counting
      PROVE  CountsAreLast(s, kind)' /\ CountsFollowOpening(s, kind)' /\ CountIsRecorded(s, kind)'
  <2>1. CountsAreLast(s, kind) /\ CountsFollowOpening(s, kind) /\ CountIsRecorded(s, kind)
    BY DEF InRecord
  <2>2. kind # "left" /\ kind # "opened"
    BY DEF Counting
  <2>3. CountingOf(e, s, kind) => t = CM
    BY <1>3, <2>2 DEF CountingOf
  <2>4. CountsAreLast(s, kind)'
    <3>1. ASSUME NEW i \in 1..Len(events'), CountingOf(events'[i], s, kind)
          PROVE  events'[i].count = Count(channels'[s], kind) \/ CountingAfter(i, s, kind)'
      <4>1. CASE i = Len(events')
        <5>1. events'[i] = e /\ e \in Unsent(CM)
          BY <1>1, <2>3, <3>1, <4>1
        <5>2. e.count = Count(channels[s], kind)
          BY <2>1, <3>1, <5>1 DEF CountsAreLast
        <5> QED
          BY <1>2, <5>1, <5>2
      <4>2. CASE i \in 1..Len(events)
        <5>1. events'[i] = events[i] /\ i \in 0..Len(events)
          BY <1>1, <4>2
        <5>2. events[i].count = Count(channels[s], kind) \/ CountingAfter(i, s, kind)
          BY <2>1, <3>1, <4>2, <5>1 DEF CountsAreLast
        <5> QED
          BY <1>2, <1>4, <5>1, <5>2
      <4> QED
        BY <1>1, <4>1, <4>2
    <3>2. \A q \in Unsent(CM)' : CountingOf(q, s, kind) => q.count = Count(channels'[s], kind)
      BY <1>2, <1>3, <2>1 DEF CountsAreLast
    <3> QED
      BY <3>1, <3>2 DEF CountsAreLast
  <2>5. CountsFollowOpening(s, kind)'
    <3>1. ASSUME NEW i \in 1..Len(events'), CountingOf(events'[i], s, kind), writer[s] = None
          PROVE  \E j \in 1..i - 1 : OpeningOf(events'[j], s)
      <4>1. CASE i = Len(events')
        <5>1. CountingOf(e, s, kind) /\ OpenIsTold(s)
          BY <1>1, <3>1, <4>1 DEF ToldInv, IsTold, OnRecord
        <5>2. ~OpeningOf(e, s) /\ Unsent(CM) = {e}
          BY <1>1, <2>2, <2>3, <5>1 DEF CountingOf, OpeningOf, IsOpening
        <5>3. PICK j \in 1..Len(events) : OpeningOf(events[j], s)
          BY <3>1, <5>1, <5>2 DEF OpenIsTold
        <5>4. j \in 1..i - 1 /\ events'[j] = events[j]
          BY <1>1, <4>1
        <5> QED
          BY <5>3, <5>4
      <4>2. CASE i \in 1..Len(events)
        <5>1. PICK j \in 1..i - 1 : OpeningOf(events[j], s)
          BY <1>1, <2>1, <3>1, <4>2 DEF CountsFollowOpening
        <5>2. j \in 1..Len(events)
          BY <1>1, <4>2
        <5> QED
          BY <1>1, <5>1, <5>2
      <4> QED
        BY <1>1, <4>1, <4>2
    <3> QED
      BY <1>2, <3>1 DEF CountsFollowOpening
  <2>6. CountIsRecorded(s, kind)'
    <3>1. 0 \in 0..Len(events)
      BY <1>1
    <3> QED
      BY <1>2, <1>4, <2>1, <3>1 DEF CountIsRecorded
  <2> QED
    BY <2>4, <2>5, <2>6
<1>6. IsOnline(channels[s].miner)' <=> IsOnline(channels[s].miner)
  BY <1>2 DEF IsOnline
<1> QED
  BY <1>2, <1>5, <1>6 DEF InRecord

\* What a counted share makes of a row.
Counted(row, kind, count) ==
  IF kind = "accepted" THEN [row EXCEPT !.accepted = count] ELSE [row EXCEPT !.rejected = count]

\* What the table then says of the miner of a session on record, unless
\* the write about it has failed.
LEMMA RowLearns ==
  ASSUME TypeInv, OpeningInv, ToldInv, ApplyEvent, NEW e \in Event, e = Head(events),
         e = events[1], 1 \in 1..Len(events), IsTrue(e),
         NEW s \in Session, OnRecord(s), NEW m, m = channels[s].miner, m \notin unwritten'
  PROVE  \/ OpeningOf(e, s) /\ known'[m] = [connected |-> TRUE, accepted |-> 0, rejected |-> 0]
         \/ /\ e.kind \in Counting /\ e.session = s
            /\ writer[s] # None /\ known[m] # None => known'[m] = Counted(known[m], e.kind, e.count)
         \/ /\ ~OpeningOf(e, s) /\ ~ClosingOf(e, s) /\ ~(e.kind \in Counting /\ e.session = s)
            /\ known'[m] = known[m]
<1>1. /\ m \in Miners /\ channels[s] # None /\ channels[s].open /\ Sole(s)
      /\ \A x \in Session \ {s} : /\ writer[x] # m
                                  /\ channels[x] # None => channels[x].miner # m
  <2>1. channels[s] # None /\ channels[s].open /\ Sole(s)
    BY DEF OnRecord, IsOpen
  <2>2. m \in Miners
    BY <2>1 DEF TypeInv, TypeOK, SessionStats
  <2> QED
    BY <2>1, <2>2, RowOfOne
<1>2. known \in [Miners -> Row \cup {None}]
  BY DEF TypeInv, TypeOK
<1>3. \A table, x : Write(table, x) => known' = table \/ (x \in unwritten' /\ known' = known)
  BY DEF Write
<1>4. CASE ApplyOpened
  <2>1. e.kind = "opened" /\ Write(WithOpenMiner(e.miner), e.miner)
    BY <1>4 DEF ApplyOpened
  <2>2. e.session \in Session /\ e.miner \in Miners /\ IsOpening(e)
    BY <2>1, EventParts DEF IsOpening
  <2>3. channels[e.session] # None /\ channels[e.session].miner = e.miner
    BY <2>2 DEF OpeningInv, QueuedOpenings, IsTrue
  <2>4. known' = WithOpenMiner(e.miner) \/ (e.miner \in unwritten' /\ known' = known)
    BY <1>3, <2>1
  <2>5. CASE e.session = s
    <3>1. e.miner = m /\ known' = WithOpenMiner(m)
      BY <2>3, <2>4, <2>5
    <3>2. known'[m] = [NoRow EXCEPT !.connected = TRUE]
      BY <1>1, <1>2, <3>1 DEF WithOpenMiner
    <3> QED
      BY <2>2, <2>5, <3>2 DEF OpeningOf, NoRow
  <2>6. CASE e.session # s
    <3>1. e.miner # m
      BY <1>1, <2>2, <2>3, <2>6
    <3>2. known'[m] = known[m]
      BY <1>1, <1>2, <2>4, <3>1 DEF WithOpenMiner
    <3> QED
      BY <2>6, <3>2 DEF OpeningOf, ClosingOf
  <2> QED
    BY <2>5, <2>6
<1>5. CASE ApplyClosed
  <2>1. e.kind = "closed" /\ Write(WithClosedMiners({writer[e.session]}), writer[e.session])
    BY <1>5 DEF ApplyClosed
  <2>2. e.session \in Session /\ e.session # s
    BY <1>1, <2>1, EventParts DEF IsTrue
  <2>3. writer[e.session] # m
    BY <1>1, <2>2
  <2>4. known'[m] = known[m]
    BY <1>1, <1>2, <1>3, <2>1, <2>3 DEF WithClosedMiners
  <2> QED
    BY <2>2, <2>4 DEF OpeningOf, ClosingOf
<1>6. CASE ApplyDownstreamClosed
  <2> DEFINE ms == {writer[x] : x \in {x \in Session : x[1] = e.conn}} \ {None}
  <2>1. e.kind = "left" /\ \E closed \in SUBSET ms : known' = WithClosedMiners(closed)
    BY <1>6 DEF ApplyDownstreamClosed
  <2>2. e.conn # s[1]
    BY <2>1 DEF IsTrue, OnRecord, Staying
  <2>3. m \notin ms
    BY <1>1, <2>2
  <2>4. known'[m] = known[m]
    BY <1>1, <2>1, <2>3 DEF WithClosedMiners
  <2>5. ~OpeningOf(e, s) /\ ~ClosingOf(e, s) /\ e.kind \notin Counting
    BY <2>1 DEF OpeningOf, ClosingOf, IsOpening, Counting
  <2> QED
    BY <2>4, <2>5
<1>7. CASE ApplyShare
  <2>1. /\ e.kind \in {"accepted", "rejected"}
        /\ Write(WithCount(e.session, e.kind, e.count), writer[e.session])
    BY <1>7 DEF ApplyShare
  <2>2. e.kind \in Counting /\ e.session \in Session /\ ~OpeningOf(e, s) /\ ~ClosingOf(e, s)
    BY <2>1, EventParts DEF Counting, OpeningOf, ClosingOf, IsOpening
  <2>3. \/ known' = WithCount(e.session, e.kind, e.count)
        \/ writer[e.session] \in unwritten' /\ known' = known
    BY <1>3, <2>1
  <2>4. CASE e.session = s
    <3> SUFFICES ASSUME writer[s] # None, known[m] # None
                 PROVE  known'[m] = Counted(known[m], e.kind, e.count)
      BY <2>2, <2>4
    <3>1. writer[s] = m
      BY DEF ToldInv, TruthInv
    <3>2. known' = WithCount(s, e.kind, e.count)
      BY <2>3, <2>4, <3>1
    <3>3. known' = [known EXCEPT ![m] = Counted(known[m], e.kind, e.count)]
      BY <3>1, <3>2 DEF WithCount, Counted
    <3> QED
      BY <1>1, <1>2, <3>3
  <2>5. CASE e.session # s
    <3>1. writer[e.session] # m
      BY <1>1, <2>2, <2>5
    <3>2. known'[m] = known[m]
      BY <1>1, <1>2, <2>3, <3>1 DEF WithCount
    <3> QED
      BY <2>2, <2>5, <3>2
  <2> QED
    BY <2>4, <2>5
<1> QED
  BY <1>4, <1>5, <1>6, <1>7 DEF ApplyEvent

LEMMA CountedRow ==
  ASSUME NEW row \in Row, NEW kind \in Counting, NEW count \in Nat
  PROVE  /\ Counted(row, kind, count) \in Row
         /\ Counted(row, kind, count).connected = row.connected
         /\ Count(Counted(row, kind, count), kind) = count
         /\ \A other \in Counting \ {kind} :
              Count(Counted(row, kind, count), other) = Count(row, other)
<1>1. CASE kind = "accepted"
  BY <1>1 DEF Row, Counted, Count, Counting
<1>2. CASE kind = "rejected"
  BY <1>2 DEF Row, Counted, Count, Counting
<1> QED
  BY <1>1, <1>2 DEF Counting

LEMMA RecordTaken ==
  ASSUME TypeInv, OpeningInv, ToldInv, ApplyEvent, NEW s \in Session, OnRecord(s), InRecord(s),
         channels[s].miner \notin unwritten'
  PROVE  InRecord(s)'
<1>1. PICK e \in Event :
        /\ e = Head(events) /\ e = events[1] /\ IsTrue(e) /\ e \in Queued
        /\ 1 \in 1..Len(events) /\ Len(events) \in Nat /\ Len(events') = Len(events) - 1
        /\ \A i \in 1..Len(events') : i + 1 \in 1..Len(events) /\ events'[i] = events[i + 1]
        /\ Queued' \subseteq Queued
        /\ UNCHANGED <<gone, channels, sessions, removing, emitting>>
  BY TakenEvent
<1>2. PICK m : m = channels[s].miner
  OBVIOUS
<1>3. ~ClosingOf(e, s) /\ ~(e.kind = "left" /\ e.conn = s[1])
  BY <1>1 DEF IsTrue, ClosingOf, OnRecord, Staying, IsOpen
<1>4. \/ OpeningOf(e, s) /\ writer'[s] # None
      \/ ~OpeningOf(e, s) /\ writer'[s] = writer[s]
  BY <1>1, <1>3, WriterLearns
<1>5. \/ OpeningOf(e, s) /\ known'[m] = [connected |-> TRUE, accepted |-> 0, rejected |-> 0]
      \/ /\ e.kind \in Counting /\ e.session = s
         /\ writer[s] # None /\ known[m] # None => known'[m] = Counted(known[m], e.kind, e.count)
      \/ /\ ~OpeningOf(e, s) /\ ~ClosingOf(e, s) /\ ~(e.kind \in Counting /\ e.session = s)
         /\ known'[m] = known[m]
  BY <1>1, <1>2, RowLearns
<1>6. /\ OpeningOf(e, s) => writer[s] = None /\ e.kind \notin Counting
      /\ e.kind \in Counting => e.count \in Nat /\ ~OpeningOf(e, s)
  BY <1>1, EventParts DEF OpeningOf, IsOpening, Counting, OpeningInv, QueuedOpenings
<1>7. /\ writer[s] # None => known[m] # None /\ known[m].connected
      /\ known[m] # None => known[m] \in Row
  <2>1. writer[s] # None => known[m] # None /\ known[m].connected
    BY <1>2 DEF InRecord, IsOnline
  <2>2. channels[s] # None
    BY DEF OnRecord, IsOpen
  <2>3. m \in Miners
    BY <1>2, <2>2 DEF TypeInv, TypeOK, SessionStats
  <2> QED
    BY <2>1, <2>3 DEF TypeInv, TypeOK
<1>8. Unsent(CM)' = Unsent(CM)
  BY <1>1 DEF Unsent
<1>9. ASSUME NEW kind, NEW i \in Nat, CountingAfter(i + 1, s, kind)
      PROVE  CountingAfter(i, s, kind)'
  <2>1. CASE \E j \in (i + 2)..Len(events) : CountingOf(events[j], s, kind)
    <3>1. PICK j \in (i + 2)..Len(events) : CountingOf(events[j], s, kind)
      BY <2>1
    <3>2. j - 1 \in 1..Len(events') /\ j - 1 \in (i + 1)..Len(events') /\ (j - 1) + 1 = j
      BY <1>1, <3>1
    <3>3. events'[j - 1] = events[j]
      BY <1>1, <3>2
    <3> QED
      BY <3>1, <3>2, <3>3 DEF CountingAfter
  <2>2. CASE \E q \in Unsent(CM) : CountingOf(q, s, kind)
    BY <1>8, <2>2 DEF CountingAfter
  <2>3. (i + 1) + 1 = i + 2
    OBVIOUS
  <2> QED
    BY <1>9, <2>1, <2>2, <2>3 DEF CountingAfter
<1>10. ASSUME NEW kind, CountingAfter(0, s, kind)
       PROVE  CountingAfter(0, s, kind)' \/ (CountingOf(e, s, kind) /\ ~CountingAfter(1, s, kind))
  <2>1. \A j \in (0 + 1)..Len(events) : j = 1 \/ j \in (1 + 1)..Len(events)
    BY <1>1
  <2>2. CountingOf(e, s, kind) \/ CountingAfter(1, s, kind)
    BY <1>1, <1>10, <2>1 DEF CountingAfter
  <2>3. 0 \in Nat /\ 0 + 1 = 1
    OBVIOUS
  <2> QED
    BY <1>9, <2>2, <2>3
<1>11. ASSUME NEW kind \in Counting PROVE CountsAreLast(s, kind)'
  <2>1. CountsAreLast(s, kind)
    BY DEF InRecord
  <2>2. ASSUME NEW i \in 1..Len(events'), CountingOf(events'[i], s, kind)
        PROVE  events'[i].count = Count(channels'[s], kind) \/ CountingAfter(i, s, kind)'
    <3>1. i \in Nat /\ i + 1 \in 1..Len(events) /\ events'[i] = events[i + 1]
      BY <1>1
    <3>2. events[i + 1].count = Count(channels[s], kind) \/ CountingAfter(i + 1, s, kind)
      BY <2>1, <2>2, <3>1 DEF CountsAreLast
    <3> QED
      BY <1>1, <1>9, <3>1, <3>2
  <2> QED
    BY <1>1, <1>8, <2>1, <2>2 DEF CountsAreLast
<1>12. ASSUME NEW kind \in Counting PROVE CountsFollowOpening(s, kind)'
  <2>1. CountsFollowOpening(s, kind)
    BY DEF InRecord
  <2>2. ASSUME NEW i \in 1..Len(events'), CountingOf(events'[i], s, kind), writer'[s] = None
        PROVE  \E j \in 1..i - 1 : OpeningOf(events'[j], s)
    <3>1. i \in Nat /\ i + 1 \in 1..Len(events) /\ events'[i] = events[i + 1]
      BY <1>1
    <3>2. writer[s] = None /\ ~OpeningOf(events[1], s)
      BY <1>1, <1>4, <2>2
    <3>3. PICK j \in 1..(i + 1) - 1 : OpeningOf(events[j], s)
      BY <2>1, <2>2, <3>1, <3>2 DEF CountsFollowOpening
    <3>4. j # 1
      BY <3>2, <3>3
    <3>5. j - 1 \in 1..i - 1 /\ j - 1 \in 1..Len(events') /\ (j - 1) + 1 = j
      BY <1>1, <3>1, <3>4
    <3>6. events'[j - 1] = events[j]
      BY <1>1, <3>5
    <3> QED
      BY <3>3, <3>5, <3>6
  <2> QED
    BY <2>2 DEF CountsFollowOpening
<1>13. ASSUME NEW kind \in Counting PROVE CountIsRecorded(s, kind)'
  <2>1. CountIsRecorded(s, kind) /\ CountsAreLast(s, kind) /\ CountsFollowOpening(s, kind)
    BY DEF InRecord
  <2>2. CASE CountingOf(e, s, kind) /\ ~CountingAfter(1, s, kind)
    <3>1. e.count = Count(channels[s], kind)
      BY <1>1, <2>1, <2>2 DEF CountsAreLast
    <3>2. writer[s] # None
      <4>1. \A j \in 1..1 - 1 : FALSE
        OBVIOUS
      <4> QED
        BY <1>1, <2>1, <2>2, <4>1 DEF CountsFollowOpening
    <3>3. e.kind = kind /\ e.session = s
      BY <2>2 DEF CountingOf
    <3>4. known'[m] = Counted(known[m], kind, e.count) /\ writer'[s] = writer[s]
      BY <1>4, <1>5, <1>6, <1>7, <3>2, <3>3
    <3>5. Count(known'[m], kind) = e.count
      BY <1>6, <1>7, <3>2, <3>3, <3>4, CountedRow
    <3> QED
      BY <1>1, <1>2, <3>1, <3>2, <3>4, <3>5 DEF CountIsRecorded
  <2>3. CASE CountingAfter(0, s, kind) /\ ~(CountingOf(e, s, kind) /\ ~CountingAfter(1, s, kind))
    BY <1>10, <2>3 DEF CountIsRecorded
  <2>4. CASE /\ Count(channels[s], kind) = IF writer[s] = None THEN 0 ELSE Count(known[m], kind)
             /\ ~CountingAfter(0, s, kind)
    <3>1. ~CountingOf(e, s, kind)
      BY <1>1, <2>4 DEF CountingAfter
    <3>2. CASE OpeningOf(e, s)
      <4>1. known'[m] = [connected |-> TRUE, accepted |-> 0, rejected |-> 0]
        BY <1>5, <1>6, <3>2
      <4>2. Count(known'[m], kind) = 0 /\ Count(channels[s], kind) = 0
        BY <1>6, <2>4, <3>2, <4>1 DEF Count
      <4> QED
        BY <1>1, <1>2, <1>4, <3>2, <4>2 DEF CountIsRecorded
    <3>3. CASE ~OpeningOf(e, s) /\ writer[s] = None
      BY <1>1, <1>4, <2>4, <3>3 DEF CountIsRecorded
    <3>4. CASE ~OpeningOf(e, s) /\ writer[s] # None
      <4>1. Count(known'[m], kind) = Count(known[m], kind)
        <5>1. CASE e.kind \in Counting /\ e.session = s
          <6>1. kind # e.kind
            BY <3>1, <5>1 DEF CountingOf
          <6>2. known'[m] = Counted(known[m], e.kind, e.count)
            BY <1>5, <1>7, <3>4, <5>1
          <6>3. known[m] \in Row /\ e.count \in Nat
            BY <1>6, <1>7, <3>4, <5>1
          <6> QED
            BY <5>1, <6>1, <6>2, <6>3, CountedRow
        <5>2. CASE ~(e.kind \in Counting /\ e.session = s)
          BY <1>5, <3>4, <5>2
        <5> QED
          BY <5>1, <5>2
      <4> QED
        BY <1>1, <1>2, <1>4, <2>4, <3>4, <4>1 DEF CountIsRecorded
    <3> QED
      BY <3>2, <3>3, <3>4
  <2> QED
    BY <1>2, <2>1, <2>2, <2>3, <2>4 DEF CountIsRecorded
<1>14. writer'[s] # None => known'[m] # None /\ known'[m].connected
  <2>1. CASE OpeningOf(e, s)
    <3>1. known'[m] = [connected |-> TRUE, accepted |-> 0, rejected |-> 0]
      BY <1>5, <1>6, <2>1
    <3>2. known'[m] \in Row /\ known'[m].connected = TRUE
      BY <3>1 DEF Row
    <3> QED
      BY <3>2, HistoryAssumption
  <2>2. CASE ~OpeningOf(e, s) /\ e.kind \in Counting /\ e.session = s
    <3> SUFFICES ASSUME writer[s] # None PROVE known'[m] # None /\ known'[m].connected
      BY <1>4, <2>2
    <3>1. known[m] \in Row /\ known[m].connected /\ e.count \in Nat
      BY <1>6, <1>7, <2>2
    <3>2. known'[m] = Counted(known[m], e.kind, e.count)
      BY <1>5, <1>7, <2>2
    <3>3. known'[m] \in Row /\ known'[m].connected = known[m].connected
      <4>1. PICK row \in Row, kind \in Counting, count \in Nat :
              row = known[m] /\ kind = e.kind /\ count = e.count
        BY <2>2, <3>1
      <4>2. Counted(row, kind, count) \in Row /\ Counted(row, kind, count).connected = row.connected
        BY CountedRow
      <4> QED
        BY <3>2, <4>1, <4>2
    <3> QED
      BY <3>1, <3>3, HistoryAssumption
  <2>3. CASE ~OpeningOf(e, s) /\ ~(e.kind \in Counting /\ e.session = s)
    BY <1>4, <1>5, <1>7, <2>3
  <2> QED
    BY <2>1, <2>2, <2>3
<1> QED
  BY <1>1, <1>2, <1>11, <1>12, <1>13, <1>14 DEF InRecord, IsOnline

\* What the steps of the ChannelManager's task after the opening count.
LEMMA CountingSteps ==
  ASSUME TypeInv, CountsAgree, NEW s \in Session,
         RecordShareAccepted(s) \/ RecordShareRejected(s) \/ RecordChannelClosed(s)
  PROVE  /\ emitting[CM] = <<>> /\ IsOpen(s) /\ channels[s] # None
         /\ \E new, stats \in SessionStats, e \in Event :
              /\ ChannelStep(s, new, stats, e) /\ e.session = s
              /\ new.miner = channels[s].miner /\ new.rejected = stats.rejected
              /\ \/ /\ e.kind = "accepted"
                    /\ new.accepted = e.count /\ new.rejected = channels[s].rejected
                 \/ /\ e.kind = "rejected"
                    /\ new.rejected = e.count /\ new.accepted = channels[s].accepted
                 \/ e.kind = "closed" /\ ~new.open
<1>1. emitting[CM] = <<>> /\ IsOpen(s) /\ channels[s] # None
  BY DEF RecordShareAccepted, RecordShareRejected, RecordChannelClosed, CanSubmit, Idle, IsOpen
<1>2. /\ channels[s] \in SessionStats /\ sessions[s] \in SessionStats
      /\ sessions[s].rejected = channels[s].rejected
  BY <1>1 DEF TypeInv, TypeOK, SessionsKnown, CountsAgree
<1>3. CASE RecordShareAccepted(s)
  <2> DEFINE count == channels[s].accepted + 1
             new == [channels[s] EXCEPT !.accepted = count]
             stats == [sessions[s] EXCEPT !.accepted = count]
             e == [kind |-> "accepted", session |-> s, count |-> count]
  <2>1. /\ new \in SessionStats /\ stats \in SessionStats /\ e \in Event
        /\ new.miner = channels[s].miner /\ new.accepted = count
        /\ new.rejected = channels[s].rejected /\ stats.rejected = sessions[s].rejected
    BY <1>2 DEF SessionStats, Event
  <2>2. e.kind = "accepted" /\ e.session = s /\ e.count = count
    OBVIOUS
  <2>3. ChannelStep(s, new, stats, e)
    BY <1>3 DEF RecordShareAccepted, ChannelStep
  <2> HIDE DEF new, stats, e
  <2> QED
    BY <1>1, <1>2, <2>1, <2>2, <2>3
<1>4. CASE RecordShareRejected(s)
  <2> DEFINE count == sessions[s].rejected + 1
             new == [channels[s] EXCEPT !.rejected = @ + 1]
             stats == [sessions[s] EXCEPT !.rejected = @ + 1]
             e == [kind |-> "rejected", session |-> s, count |-> count]
  <2>1. /\ new \in SessionStats /\ stats \in SessionStats /\ e \in Event
        /\ new.miner = channels[s].miner /\ new.rejected = count
        /\ new.accepted = channels[s].accepted /\ stats.rejected = count
    BY <1>2 DEF SessionStats, Event
  <2>2. e.kind = "rejected" /\ e.session = s /\ e.count = count
    OBVIOUS
  <2>3. ChannelStep(s, new, stats, e)
    BY <1>4 DEF RecordShareRejected, ChannelStep
  <2> HIDE DEF new, stats, e
  <2> QED
    BY <1>1, <2>1, <2>2, <2>3
<1>5. CASE RecordChannelClosed(s)
  <2> DEFINE new == [channels[s] EXCEPT !.open = FALSE]
             stats == [sessions[s] EXCEPT !.open = FALSE]
             e == [kind |-> "closed", session |-> s]
  <2>1. /\ new \in SessionStats /\ stats \in SessionStats /\ e \in Event
        /\ new.miner = channels[s].miner /\ ~new.open
        /\ new.rejected = channels[s].rejected /\ stats.rejected = sessions[s].rejected
    BY <1>2 DEF SessionStats, Event
  <2>2. e.kind = "closed" /\ e.session = s
    OBVIOUS
  <2>3. ChannelStep(s, new, stats, e)
    BY <1>5 DEF RecordChannelClosed, ChannelStep
  <2> HIDE DEF new, stats, e
  <2> QED
    BY <1>1, <1>2, <2>1, <2>2, <2>3
<1> QED
  BY <1>3, <1>4, <1>5

\* What a step of that kind leaves alone.
LEMMA ChannelStepFrame ==
  ASSUME TypeInv, NEW s \in Session, NEW new, NEW stats, NEW e \in Event,
         ChannelStep(s, new, stats, e), emitting[CM] = <<>>
  PROVE  /\ channels'[s] = new /\ sessions'[s] = stats
         /\ \A x \in Session : x # s => channels'[x] = channels[x] /\ sessions'[x] = sessions[x]
         /\ Unsent(CM) = {} /\ Unsent(CM)' = {e} /\ Queued' = Queued
         /\ UNCHANGED <<gone, removing, events, writer, known, failures, unwritten>>
<1>1. UNCHANGED <<gone, removing, events, writer, known, failures, unwritten>>
  BY DEF ChannelStep, writerVars
<1>2. /\ channels'[s] = new /\ sessions'[s] = stats
      /\ \A x \in Session : x # s => channels'[x] = channels[x] /\ sessions'[x] = sessions[x]
  BY DEF ChannelStep, TypeInv, TypeOK
<1>3. CM \in Task
  BY DEF Task
<1>4. PICK out : out = <<e>>
  OBVIOUS
<1>5. emitting' = [emitting EXCEPT ![CM] = out]
  BY <1>4 DEF ChannelStep
<1>6. Unsent(CM) = {} /\ Unsent(CM)' = {e}
  BY <1>3, <1>4, <1>5, EventsOnTheirWay, UnsentAfter
<1> QED
  BY <1>1, <1>2, <1>6 DEF Queued

LEMMA RecordOpening ==
  ASSUME TypeInv, OpeningInv, ToldInv, RecordInv, NEW s \in Session, NEW m \in Miners,
         RecordChannelOpened(s, m)
  PROVE  RecordInv'
<1>1. PICK e : e = [kind |-> "opened", session |-> s, miner |-> m]
  OBVIOUS
<1>2. /\ channels[s] = None /\ emitting[CM] = <<>> /\ e \in Event
      /\ ChannelStep(s, Opened(m), Opened(m), e)
      /\ e.kind = "opened" /\ e.session = s
  BY <1>1 DEF RecordChannelOpened, Idle, ChannelStep, Event
<1>3. PICK new : new = Opened(m)
  OBVIOUS
<1>4. new # None /\ new.accepted = 0 /\ new.rejected = 0
  BY <1>3, NewRecords, HistoryAssumption DEF Opened
<1>5. /\ channels'[s] = new /\ sessions'[s] = new
      /\ \A x \in Session : x # s => channels'[x] = channels[x] /\ sessions'[x] = sessions[x]
      /\ Unsent(CM) = {} /\ Unsent(CM)' = {e} /\ Queued' = Queued
      /\ UNCHANGED <<gone, removing, events, writer, known, failures, unwritten>>
  BY <1>2, <1>3, ChannelStepFrame
<1>6. CountsAgree'
  BY <1>5 DEF RecordInv, CountsAgree
<1>7. CountedChannels'
  <2>1. \A q \in Queued : q.kind \in Counting => q.session \in Session
    BY EventsOnTheirWay, EventParts DEF Counting
  <2>2. e.kind \notin Counting
    BY <1>2 DEF Counting
  <2> QED
    BY <1>2, <1>4, <1>5, <2>1, <2>2 DEF RecordInv, CountedChannels
<1>8. ASSUME NEW x \in Session, OnRecord(x)' PROVE InRecord(x)'
  <2>1. CASE x = s
    <3>1. IsOpening(e)
      BY <1>2 DEF IsOpening
    <3> QED
      BY <1>2, <1>4, <1>5, <2>1, <3>1, RecordOpened
  <2>2. CASE x # s
    <3>1. channels'[x] = channels[x] /\ IsOpen(x) /\ (Staying(x)' => Staying(x))
      BY <1>5, <1>8, <2>2 DEF OnRecord, IsOpen, Staying
    <3>2. \A y \in Session : channels[y] # None =>
            channels'[y] # None /\ channels'[y].miner = channels[y].miner
      BY <1>2, <1>5
    <3>3. OnRecord(x)
      BY <1>5, <1>8, <3>1, <3>2, OnRecordBefore
    <3>4. \A q, kind : CountingOf(q, x, kind) => (q \in Unsent(CM)' <=> q \in Unsent(CM))
      BY <1>2, <1>5, <2>2 DEF CountingOf
    <3>5. InRecord(x)
      BY <3>3 DEF RecordInv
    <3> QED
      BY <1>5, <3>1, <3>4, <3>5, InRecordKept
  <2> QED
    BY <2>1, <2>2
<1> QED
  BY <1>6, <1>7, <1>8 DEF RecordInv

LEMMA RecordCounting ==
  ASSUME TypeInv, OpeningInv, ToldInv, RecordInv, NEW s \in Session,
         RecordShareAccepted(s) \/ RecordShareRejected(s) \/ RecordChannelClosed(s)
  PROVE  RecordInv'
<1>1. emitting[CM] = <<>> /\ IsOpen(s) /\ channels[s] # None
  BY CountingSteps DEF RecordInv
<1>2. PICK new \in SessionStats, stats \in SessionStats, e \in Event :
        /\ ChannelStep(s, new, stats, e) /\ e.session = s
        /\ new.miner = channels[s].miner /\ new.rejected = stats.rejected
        /\ \/ /\ e.kind = "accepted"
              /\ new.accepted = e.count /\ new.rejected = channels[s].rejected
           \/ /\ e.kind = "rejected"
              /\ new.rejected = e.count /\ new.accepted = channels[s].accepted
           \/ e.kind = "closed" /\ ~new.open
  BY CountingSteps DEF RecordInv
<1>3. /\ channels'[s] = new /\ sessions'[s] = stats
      /\ \A x \in Session : x # s => channels'[x] = channels[x] /\ sessions'[x] = sessions[x]
      /\ Unsent(CM) = {} /\ Unsent(CM)' = {e} /\ Queued' = Queued
      /\ UNCHANGED <<gone, removing, events, writer, known, failures, unwritten>>
  BY <1>1, <1>2, ChannelStepFrame
<1>4. new # None
  BY HistoryAssumption
<1>5. CountsAgree'
  BY <1>2, <1>3 DEF RecordInv, CountsAgree
<1>6. CountedChannels'
  <2>1. \A q \in Queued : q.kind \in Counting => q.session \in Session
    BY EventsOnTheirWay, EventParts DEF Counting
  <2> QED
    BY <1>2, <1>3, <1>4, <2>1 DEF RecordInv, CountedChannels
<1>7. ASSUME NEW x \in Session, OnRecord(x)' PROVE InRecord(x)'
  <2>1. IsOpen(x) /\ (Staying(x)' => Staying(x))
    BY <1>1, <1>3, <1>7 DEF OnRecord, IsOpen, Staying
  <2>2. \A y \in Session : channels[y] # None =>
          channels'[y] # None /\ channels'[y].miner = channels[y].miner
    BY <1>2, <1>3, <1>4
  <2>3. OnRecord(x) /\ channels'[x].miner = channels[x].miner
    BY <1>3, <1>7, <2>1, <2>2, OnRecordBefore
  <2>4. InRecord(x)
    BY <2>3 DEF RecordInv
  <2>5. CASE x # s
    <3>1. \A q, kind : CountingOf(q, x, kind) => (q \in Unsent(CM)' <=> q \in Unsent(CM))
      BY <1>2, <1>3, <2>5 DEF CountingOf
    <3> QED
      BY <1>3, <2>4, <2>5, <3>1, InRecordKept
  <2>6. CASE x = s /\ e.kind = "closed"
    BY <1>2, <1>3, <1>7, <2>6 DEF OnRecord, IsOpen
  <2>7. CASE x = s /\ e.kind \in Counting
    <3>1. CountingOf(e, s, e.kind)
      BY <1>2 DEF CountingOf
    <3>2. /\ Count(channels[s], e.kind)' = e.count
          /\ \A kind \in Counting \ {e.kind} : Count(channels[s], kind)' = Count(channels[s], kind)
      BY <1>2, <1>3, <2>7 DEF Count, Counting
    <3> QED
      BY <1>3, <2>3, <2>4, <2>7, <3>1, <3>2, RecordCounted
  <2> QED
    BY <1>2, <2>5, <2>6, <2>7 DEF Counting
<1> QED
  BY <1>5, <1>6, <1>7 DEF RecordInv

\* Steps after which the ChannelManager's channels and what is on its way
\* are the same of every session that is still on record.
LEMMA RecordElsewhere ==
  ASSUME TypeInv, OpeningInv, ToldInv, RecordInv,
         UNCHANGED <<events, writer>>, unwritten \subseteq unwritten',
         \A s \in Session : /\ channels[s] = None => channels'[s] = None
                            /\ channels[s] # None => /\ channels'[s] # None
                                                     /\ channels'[s].miner = channels[s].miner
                                                     /\ channels'[s].rejected = channels[s].rejected
                            /\ channels[s] # None => sessions'[s].rejected = sessions[s].rejected
                            /\ IsOpen(s)' /\ Staying(s)' =>
                                 IsOpen(s) /\ Staying(s) /\ channels'[s] = channels[s],
         \A e : e.kind \in Counting => (e \in Unsent(CM)' <=> e \in Unsent(CM)),
         \A s \in Session : writer[s] # None /\ OnRecord(s) =>
           known'[channels[s].miner] = known[channels[s].miner]
  PROVE  RecordInv'
<1>1. CountsAgree'
  BY DEF RecordInv, CountsAgree
<1>2. CountedChannels'
  <2>1. Queued' = Queued
    BY DEF Queued
  <2>2. \A q \in Queued \cup Unsent(CM) : q.kind \in Counting => q.session \in Session
    BY EventsOnTheirWay, EventParts DEF Counting, Task
  <2> QED
    BY <2>1, <2>2 DEF RecordInv, CountedChannels
<1>3. ASSUME NEW s \in Session, OnRecord(s)' PROVE InRecord(s)'
  <2>1. IsOpen(s) /\ Staying(s) /\ channels'[s] = channels[s]
    BY <1>3 DEF OnRecord
  <2>2. \A x \in Session : channels[x] # None =>
          channels'[x] # None /\ channels'[x].miner = channels[x].miner
    OBVIOUS
  <2>3. OnRecord(s)
    BY <1>3, <2>1, <2>2, OnRecordBefore
  <2>4. InRecord(s)
    BY <2>3 DEF RecordInv
  <2>5. \A e, kind : CountingOf(e, s, kind) /\ kind \in Counting =>
          (e \in Unsent(CM)' <=> e \in Unsent(CM))
    BY DEF CountingOf
  <2> QED
    BY <2>1, <2>3, <2>4, <2>5, InRecordKept
<1> QED
  BY <1>1, <1>2, <1>3 DEF RecordInv

\* remove_downstream begins: only the registry's sessions are closed.
LEMMA RecordRemoving ==
  ASSUME TypeInv, OpeningInv, ToldInv, RecordInv, NEW t \in Task, NEW c \in Conns,
         RecordDownstreamClosed(t, c)
  PROVE  RecordInv'
<1>1. /\ emitting[t] = <<>> /\ removing[t] = None /\ removing' = [removing EXCEPT ![t] = c]
      /\ UNCHANGED <<gone, channels, events, writer, known, failures, unwritten>>
  BY DEF RecordDownstreamClosed, Idle, writerVars
<1>2. PICK open \in SUBSET Session :
        /\ \A s \in open : Listed(s)
        /\ sessions' = [s \in Session |->
                          IF s \in open THEN [sessions[s] EXCEPT !.open = FALSE] ELSE sessions[s]]
        /\ emitting' = [emitting EXCEPT ![t] = ClosedEvents(c, open)]
  BY DEF RecordDownstreamClosed
<1>3. \A s \in Session : sessions'[s].rejected = sessions[s].rejected
  <2> SUFFICES ASSUME NEW s \in Session PROVE sessions'[s].rejected = sessions[s].rejected
    OBVIOUS
  <2>1. CASE s \in open
    <3>1. sessions[s] \in SessionStats
      BY <1>2, <2>1 DEF Listed, TypeInv, TypeOK
    <3>2. [sessions[s] EXCEPT !.open = FALSE].rejected = sessions[s].rejected
      BY <3>1 DEF SessionStats
    <3> QED
      BY <1>2, <2>1, <3>2
  <2>2. CASE s \notin open
    BY <1>2, <2>2
  <2> QED
    BY <2>1, <2>2
<1>4. \A s \in Session : Staying(s)' => Staying(s)
  <2> SUFFICES ASSUME NEW s \in Session, Staying(s)' PROVE Staying(s)
    OBVIOUS
  <2>1. s[1] \in Conns
    BY DEF Session
  <2>2. removing[t] # s[1]
    BY <1>1, <2>1, HistoryAssumption
  <2>3. \A x \in Task : x # t => removing'[x] = removing[x]
    BY <1>1 DEF TypeInv, TypeOK
  <2> QED
    BY <1>1, <2>2, <2>3 DEF Staying
<1>5. \A e : e.kind \in Counting => (e \in Unsent(CM)' <=> e \in Unsent(CM))
  <2>1. PICK out : /\ emitting' = [emitting EXCEPT ![t] = out]
                   /\ out = <<>> \/ out = <<[kind |-> "left", conn |-> c]>>
    BY <1>2 DEF ClosedEvents
  <2>2. PICK left : left = [kind |-> "left", conn |-> c]
    OBVIOUS
  <2>3. left.kind \notin Counting
    BY <2>2 DEF Counting
  <2>4. Unsent(t)' = {} \/ Unsent(t)' = {left}
    BY <2>1, <2>2, UnsentAfter
  <2>5. Unsent(t) = {}
    BY <1>1, EventsOnTheirWay
  <2>6. \A x \in Task : x # t => Unsent(x)' = Unsent(x)
    BY <2>1, UnsentAfter
  <2>7. CM \in Task
    BY DEF Task
  <2> QED
    BY <2>3, <2>4, <2>5, <2>6, <2>7
<1>6. \A s \in Session : IsOpen(s)' = IsOpen(s)
  BY <1>1 DEF IsOpen
<1> QED
  BY <1>1, <1>3, <1>4, <1>5, <1>6, RecordElsewhere

\* remove_downstream ends.
LEMMA RecordRemoved ==
  ASSUME TypeInv, OpeningInv, ToldInv, RecordInv, NEW t \in Task, RemoveDownstream(t)
  PROVE  RecordInv'
<1>1. /\ removing[t] # None /\ gone' = gone \cup {removing[t]}
      /\ channels' = [s \in Session |-> IF s[1] = removing[t] /\ IsOpen(s)
                        THEN [channels[s] EXCEPT !.open = FALSE] ELSE channels[s]]
      /\ removing' = [removing EXCEPT ![t] = None]
      /\ UNCHANGED <<sessions, emitting, events, writer, known, failures, unwritten>>
  BY DEF RemoveDownstream, registryVars, writerVars
<1>2. ASSUME NEW s \in Session
      PROVE  /\ channels[s] = None => channels'[s] = None
             /\ channels[s] # None => /\ channels'[s] # None
                                      /\ channels'[s].miner = channels[s].miner
                                      /\ channels'[s].rejected = channels[s].rejected
  <2>1. CASE s[1] = removing[t] /\ IsOpen(s)
    <3>1. channels[s] \in SessionStats
      BY <2>1 DEF TypeInv, TypeOK, IsOpen
    <3>2. PICK new : new = [channels[s] EXCEPT !.open = FALSE]
      OBVIOUS
    <3>3. /\ new \in SessionStats /\ new.miner = channels[s].miner
          /\ new.rejected = channels[s].rejected
      BY <3>1, <3>2 DEF SessionStats
    <3> QED
      BY <1>1, <2>1, <3>2, <3>3, HistoryAssumption DEF IsOpen
  <2>2. CASE ~(s[1] = removing[t] /\ IsOpen(s))
    BY <1>1, <2>2
  <2> QED
    BY <2>1, <2>2
<1>3. ASSUME NEW s \in Session, IsOpen(s)', Staying(s)'
      PROVE  IsOpen(s) /\ Staying(s) /\ channels'[s] = channels[s]
  <2>1. s[1] # removing[t] /\ s[1] \notin gone
    BY <1>1, <1>3 DEF Staying
  <2>2. \A x \in Task : removing[x] # s[1]
    <3>1. \A x \in Task : x # t => removing'[x] = removing[x]
      BY <1>1 DEF TypeInv, TypeOK
    <3> QED
      BY <1>3, <2>1, <3>1 DEF Staying
  <2>3. channels'[s] = channels[s]
    BY <1>1, <2>1
  <2> QED
    BY <1>3, <2>1, <2>2, <2>3 DEF Staying, IsOpen
<1>4. Unsent(CM)' = Unsent(CM)
  BY <1>1 DEF Unsent
<1> QED
  BY <1>1, <1>2, <1>3, <1>4, RecordElsewhere

\* The dashboard deletes the row of a miner that is offline: of none on
\* record that the writer knows.
LEMMA RecordDeleted ==
  ASSUME TypeInv, OpeningInv, ToldInv, RecordInv, NEW m \in Miners, DeleteOfflineMiner(m)
  PROVE  RecordInv'
<1>1. /\ known[m] # None /\ ~known[m].connected /\ known' = [known EXCEPT ![m] = None]
      /\ UNCHANGED <<gone, channels, sessions, removing, emitting, events, writer, unwritten>>
  BY DEF DeleteOfflineMiner, registryVars
<1>2. ASSUME NEW s \in Session, writer[s] # None, OnRecord(s)
      PROVE  known'[channels[s].miner] = known[channels[s].miner]
  <2>1. IsOnline(channels[s].miner)
    BY <1>2 DEF RecordInv, InRecord
  <2>2. channels[s].miner # m
    BY <1>1, <2>1 DEF IsOnline
  <2> QED
    BY <1>1, <2>2 DEF TypeInv, TypeOK
<1>3. \A s \in Session : IsOpen(s)' = IsOpen(s) /\ Staying(s)' = Staying(s)
  BY <1>1 DEF IsOpen, Staying
<1>4. Unsent(CM)' = Unsent(CM)
  BY <1>1 DEF Unsent
<1> QED
  BY <1>1, <1>2, <1>3, <1>4, RecordElsewhere

\* An event is sent, or taken by the writer.
LEMMA RecordMoves ==
  ASSUME TypeInv, OpeningInv, ToldInv, RecordInv, (\E t \in Task : Emit(t)) \/ ApplyEvent
  PROVE  RecordInv'
<1>1. UNCHANGED <<gone, channels, sessions, removing>> /\ unwritten \subseteq unwritten'
  BY DEF Emit, ApplyEvent, ApplyOpened, ApplyClosed, ApplyDownstreamClosed, ApplyShare, Write,
         registryVars
<1>2. CountedChannels'
  <2>1. \A q \in Queued' : q.kind \in Counting => channels[q.session] # None
    <3>1. CASE ApplyEvent
      BY <3>1, TakenEvent DEF RecordInv, CountedChannels
    <3>2. CASE \E t \in Task : Emit(t)
      <4>1. PICK t \in Task : Emit(t)
        BY <3>2
      <4>2. PICK e \in Unsent(t) : Queued' = Queued \cup {e}
        BY <4>1, SentEvent
      <4>3. e.kind \in Counting => t = CM
        BY <4>2 DEF ToldInv, TruthInv, Task, Counting
      <4> QED
        BY <4>2, <4>3 DEF RecordInv, CountedChannels
    <3> QED
      BY <3>1, <3>2
  <2>2. \A q \in Unsent(CM)' : q \in Unsent(CM)
    <3>1. CASE ApplyEvent
      BY <3>1, TakenEvent DEF Unsent
    <3>2. CASE \E t \in Task : Emit(t)
      <4>1. PICK t \in Task : Emit(t)
        BY <3>2
      <4>2. Unsent(t)' = {} /\ \A x \in Task : x # t => Unsent(x)' = Unsent(x)
        BY <4>1, SentEvent
      <4> QED
        BY <4>2 DEF Task
    <3> QED
      BY <3>1, <3>2
  <2> QED
    BY <1>1, <2>1, <2>2 DEF RecordInv, CountedChannels
<1>3. ASSUME NEW s \in Session, OnRecord(s)' PROVE InRecord(s)'
  <2>1. OnRecord(s) /\ channels[s].miner \notin unwritten'
    BY <1>1, <1>3 DEF OnRecord, Staying, IsOpen, Sole
  <2>2. InRecord(s)
    BY <2>1 DEF RecordInv
  <2> QED
    BY <2>1, <2>2, RecordSent, RecordTaken
<1>4. CountsAgree'
  BY <1>1 DEF RecordInv, CountsAgree
<1> QED
  BY <1>2, <1>3, <1>4 DEF RecordInv

\* Nothing is on its way and there are no channels, at the start and after
\* a restart.
LEMMA RecordAtStart ==
  ASSUME events = <<>>, \A t \in Task : emitting[t] = <<>>,
         \A s \in Session : channels[s] = None
  PROVE  RecordInv
<1>1. Len(<<>>) = 0 /\ CM \in Task
  BY EmptySeq DEF Task
<1>2. Queued = {} /\ Unsent(CM) = {}
  BY <1>1 DEF Queued, Unsent
<1> QED
  BY <1>2 DEF RecordInv, CountsAgree, CountedChannels, OnRecord, IsOpen

LEMMA RecordAfterRestart ==
  ASSUME TypeInv, Restart
  PROVE  RecordInv'
<1>1. /\ events' = <<>> /\ \A t \in Task : emitting'[t] = <<>>
      /\ \A s \in Session : channels'[s] = None
  BY DEF Restart, LoseMemory, Fresh, TypeInv, TypeOK
<1>2. Len(<<>>) = 0 /\ CM \in Task
  BY EmptySeq DEF Task
<1>3. Queued' = {} /\ Unsent(CM)' = {}
  BY <1>1, <1>2 DEF Queued, Unsent
<1> QED
  BY <1>1, <1>3 DEF RecordInv, CountsAgree, CountedChannels, OnRecord, IsOpen

LEMMA RecordStep ==
  TypeInv /\ OpeningInv /\ ToldInv /\ RecordInv /\ [Next]_vars => RecordInv'
<1> SUFFICES ASSUME TypeInv, OpeningInv, ToldInv, RecordInv, [Next]_vars PROVE RecordInv'
  OBVIOUS
<1>1. CASE ChannelManager
  BY <1>1, RecordOpening, RecordCounting DEF ChannelManager
<1>2. CASE Remover
  BY <1>2, RecordRemoving, RecordRemoved DEF Remover
<1>3. CASE (\E t \in Task : Emit(t)) \/ ApplyEvent
  BY <1>3, RecordMoves
<1>4. CASE \E m \in Miners : DeleteOfflineMiner(m)
  BY <1>4, RecordDeleted
<1>5. CASE Restart
  BY <1>5, RecordAfterRestart
<1>6. CASE UNCHANGED vars
  <2>1. \A s \in Session : IsOpen(s)' = IsOpen(s) /\ Staying(s)' = Staying(s)
    BY <1>6 DEF IsOpen, Staying, vars
  <2>2. Unsent(CM)' = Unsent(CM)
    BY <1>6 DEF Unsent, vars, registryVars
  <2> QED
    BY <1>6, <2>1, <2>2, RecordElsewhere DEF vars, registryVars, writerVars
<1> QED
  BY <1>1, <1>2, <1>3, <1>4, <1>5, <1>6 DEF Next

\* Once the queue is worked off, the row of a miner with a single session
\* says that it is connected and has the counts of the channel, unless a
\* write about it has failed: whatever is removed, deleted and counted at
\* the same time, and however the events of the tasks overtake one another.
THEOREM MinersAreOnRecord == Spec => []MiningIsOnRecord
<1> DEFINE Inv == TypeInv /\ OpeningInv /\ ToldInv /\ RecordInv
<1>1. Init => Inv
  BY TypeInit, OpeningInit, ToldAtStart, RecordAtStart DEF Init
<1>2. Inv /\ [Next]_vars => Inv'
  BY TypeStep, OpeningStep, ToldStep, RecordStep
<1>3. Inv => MiningIsOnRecord
  <2> SUFFICES ASSUME Inv, Quiet, NEW s \in Session, Staying(s), IsOpen(s), Sole(s),
                      channels[s].miner \notin unwritten
               PROVE  known[channels[s].miner] =
                        [connected |-> TRUE, accepted |-> channels[s].accepted,
                         rejected |-> channels[s].rejected]
    BY DEF MiningIsOnRecord
  <2>1. CM \in Task /\ Len(<<>>) = 0
    BY EmptySeq DEF Task
  <2>2. Unsent(CM) = {} /\ \A i \in 1..Len(events) : FALSE
    BY <2>1, EventsOnTheirWay DEF Quiet
  <2>3. InRecord(s)
    BY DEF RecordInv, OnRecord
  <2>4. writer[s] # None
    BY <2>2 DEF ToldInv, IsTold, OpenIsTold
  <2>5. \A kind \in Counting : ~CountingAfter(0, s, kind)
    BY <2>1, <2>2 DEF CountingAfter, Quiet
  <2>6. PICK row : row = known[channels[s].miner]
    OBVIOUS
  <2>7. \A kind \in Counting : Count(channels[s], kind) = Count(row, kind)
    BY <2>3, <2>4, <2>5, <2>6 DEF InRecord, CountIsRecorded
  <2>8. row.accepted = channels[s].accepted /\ row.rejected = channels[s].rejected
    BY <2>7 DEF Count, Counting
  <2>9. row \in Row /\ row.connected
    <3>1. channels[s].miner \in Miners
      BY DEF IsOpen, TypeInv, TypeOK, SessionStats
    <3>2. row # None /\ row.connected
      BY <2>3, <2>4, <2>6 DEF InRecord, IsOnline
    <3> QED
      BY <2>6, <3>1, <3>2 DEF TypeInv, TypeOK
  <2>10. row.connected = TRUE
    BY <2>9 DEF Row
  <2> QED
    BY <2>6, <2>8, <2>9, <2>10 DEF Row
<1> HIDE DEF Inv
<1> QED
  BY <1>1, <1>2, <1>3, PTL DEF Spec
=============================================================================
