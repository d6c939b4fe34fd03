--------------------------- MODULE MinerListProofs ---------------------------
(***************************************************************************)
(* What MinerList promises, for any miners, sessions and connections, any  *)
(* limit of a page, any number of requests and of restarts.                *)
(*                                                                         *)
(* The inductive invariant follows a session along the three ways on which *)
(* its news comes to a request.  Monitoring: an open session that some     *)
(* request has heard of is still in the monitoring server's cache, so that *)
(* a later request has it among its rows, has yet to ask its client, or    *)
(* counts it among those that its pages left out.  The registry: a         *)
(* snapshot has every session that stayed open, and those whose closing is *)
(* still queued.  The table: it says connected only of a miner with an     *)
(* open session, or one whose closing is queued.                           *)
(***************************************************************************)
EXTENDS MinerList, TLAPS

-----------------------------------------------------------------------------
(* The inductive invariant.  Its parts are of the variables that they      *)
(* name, so that a step which leaves these alone keeps them.               *)

SessionState == {"none", "open", "closed", "dropped"}
Event == [kind : {"opened", "closed"}, session : Sessions]
Table == [Miners -> BOOLEAN \cup {None}]
Seen == [Miners -> Row \cup {None}]
Stats == [Sessions -> SessionState]

RequestState ==
  [pc : {"idle", "merge", "stats", "known"}, clients : SUBSET Clients,
   answered : BOOLEAN, rows : SUBSET Sessions, seen : Seen \cup {None}, stats : Stats \cup {None},
   unsure : SUBSET Sessions, ever : SUBSET Miners, steady : SUBSET Sessions,
   gone : SUBSET Miners, kept : SUBSET Miners]

\* The closing of s is queued.
Closing(s, ev) == \E i \in 1..Len(ev) : ev[i].kind = "closed" /\ ev[i].session = s

\* Events are in the order of what they tell of.
QueueInv(ev, sess) ==
  /\ ev \in Seq(Event) /\ Len(ev) <= MaxQueued
  /\ sess \in Stats
  /\ \A i \in 1..Len(ev) :
       IF ev[i].kind = "closed" THEN sess[ev[i].session] = "closed"
       ELSE \/ sess[ev[i].session] = "open"
            \/ \E j \in 1..Len(ev) :
                j > i /\ ev[j].kind = "closed" /\ ev[j].session = ev[i].session

TableInv(table, ev, sess) ==
  /\ table \in Table
  /\ \A m \in Miners : table[m] = TRUE =>
       \E s \in Sessions : MinerOf[s] = m /\ (sess[s] = "open" \/ Closing(s, ev))

\* What monitoring has told of s, it will tell again while s is open.
Heard(s, mon, sess) == sess[s] # "none" /\ (sess[s] = "open" => s \in mon)

SeenInv(rows, mon, sess) ==
  /\ rows \in Seen
  /\ mon \subseteq Sessions /\ \A s \in mon : sess[s] # "none"
  /\ \A m \in Miners : rows[m] # None =>
       MinerOf[rows[m].session] = m /\ Heard(rows[m].session, mon, sess)

\* A row of an open session says so, where the answer could not overlook it.
RowsAreTrue(rows, sess, unseen) ==
  \A m \in Miners :
    rows[m] # None /\ sess[rows[m].session] = "open" /\ rows[m].session \notin unseen =>
      rows[m].connected

AskInv(q, rows, mon, sess) ==
  /\ \A s \in q.rows : Heard(s, mon, sess)
  /\ ~q.answered => q.clients = {} /\ q.rows = {}
  /\ q.pc # "merge" => ~q.answered
  /\ q.answered =>
       \A m \in Miners : rows[m] # None /\ sess[rows[m].session] = "open" =>
         \/ rows[m].session \in q.rows \cup q.unsure
         \/ ClientOf[rows[m].session] \in q.clients

TimeInv(q, sess) ==
  q.pc # "idle" => /\ \A s \in q.steady : sess[s] = "open"
                   /\ \A s \in Sessions : sess[s] = "open" => MinerOf[s] \in q.ever

MergedInv(q) ==
  q.pc \in {"stats", "known"} =>
    /\ q.seen \in Seen
    /\ \A m \in Miners : q.seen[m] # None => MinerOf[q.seen[m].session] = m
    /\ \A m \in Miners :
         q.seen[m] # None /\ q.seen[m].session \in q.steady => q.seen[m].connected

SnapshotInv(q, table, ev) ==
  q.pc = "known" =>
    /\ q.stats \in Stats
    /\ \A s \in q.steady : q.stats[s] = "open"
    /\ \A s \in Sessions : q.stats[s] = "open" => MinerOf[s] \in q.ever
    /\ \A s \in Sessions : Closing(s, ev) /\ MinerOf[s] \notin q.ever => q.stats[s] = "closed"
    /\ \A m \in q.kept : table[m] # None \/ \E s \in Of(m) : q.stats[s] \in {"open", "closed"}

RequestInv(q, rows, mon, sess, table, ev) ==
  /\ q \in RequestState
  /\ q.pc = "idle" => q = NoRequest
  /\ AskInv(q, rows, mon, sess)
  /\ TimeInv(q, sess)
  /\ MergedInv(q)
  /\ SnapshotInv(q, table, ev)

IInv ==
  /\ unsure \subseteq Sessions /\ deleted \subseteq Miners
  /\ QueueInv(events, session)
  /\ TableInv(known, events, session)
  /\ SeenInv(seen, monitored, session)
  /\ RowsAreTrue(seen, session, unsure)
  /\ request \in [Requests -> RequestState]
  /\ \A r \in Requests : RequestInv(request[r], seen, monitored, session, known, events)

-----------------------------------------------------------------------------
(* What it is good for.                                                    *)

LEMMA SnapshotOfAnswering ==
  ASSUME IInv, NEW q \in Answering
  PROVE  /\ q \in RequestState /\ q.pc = "known"
         /\ AskInv(q, seen, monitored, session) /\ TimeInv(q, session)
         /\ MergedInv(q) /\ SnapshotInv(q, known, events)
BY DEF IInv, RequestInv, Answering

\* Each session of a snapshot that is open or closed is among those shown.
LEMMA ShownOrTaken ==
  ASSUME NEW q, NEW m \in Miners, NEW s \in Of(m), q.stats[s] \in {"open", "closed"}
  PROVE  \/ Shown(s, q.stats[s] = "open", "stat") \in StatSessions(q, m)
         \/ \E shown \in RowSessions(q, m) : shown.session = s
BY DEF StatSessions

LEMMA MiningIsConnectedHolds == IInv => MiningIsConnected
<1> SUFFICES ASSUME IInv, NEW q \in Answering, NEW table \in {known, Unread}, NEW m \in Miners,
                    NEW s \in q.steady \cap Of(m)
             PROVE  IsConnected(Worker(q, table, m))
  BY DEF MiningIsConnected
<1> DEFINE live == RowSessions(q, m) \cup StatSessions(q, m)
<1>1. q.pc = "known" /\ MergedInv(q) /\ SnapshotInv(q, known, events)
  BY SnapshotOfAnswering
<1>2. q.stats[s] = "open"
  BY <1>1 DEF SnapshotInv
<1>3. PICK shown \in live : shown.connected
  <2>1. CASE Shown(s, q.stats[s] = "open", "stat") \in StatSessions(q, m)
    <3>1. Shown(s, q.stats[s] = "open", "stat") = Shown(s, TRUE, "stat")
      BY <1>2
    <3>2. Shown(s, TRUE, "stat").connected
      BY DEF Shown
    <3> QED
      BY <2>1, <3>1, <3>2
  <2>2. CASE \E shown \in RowSessions(q, m) : shown.session = s
    <3>1. PICK shown \in RowSessions(q, m) : shown.session = s
      BY <2>2
    <3>2. q.seen[m] # None /\ shown = Shown(q.seen[m].session, q.seen[m].connected, "row")
      BY DEF RowSessions
    <3>3. q.seen[m].session = s /\ shown.connected = q.seen[m].connected
      BY <3>1, <3>2 DEF Shown
    <3>4. q.seen[m].connected
      BY <1>1, <3>2, <3>3 DEF MergedInv
    <3> QED
      BY <3>3, <3>4
  <2> QED
    BY <1>2, <2>1, <2>2, ShownOrTaken
<1>4. Worker(q, table, m) = live
  BY <1>3 DEF Worker
<1> QED
  BY <1>3, <1>4 DEF IsConnected

LEMMA ConnectedIsRecentHolds == IInv => ConnectedIsRecent
<1> SUFFICES ASSUME IInv, NEW q \in Answering, NEW m \in Miners, m \notin q.ever,
                    NEW shown \in Worker(q, known, m), shown.connected
             PROVE  \E other \in Worker(q, known, m) : other.connected /\ other.from = "row"
  BY DEF ConnectedIsRecent, IsConnected
<1>1. q.pc = "known" /\ TimeInv(q, session) /\ SnapshotInv(q, known, events)
  BY SnapshotOfAnswering
<1>2. CASE shown \in RowSessions(q, m)
  BY <1>2 DEF RowSessions, Shown
<1>3. CASE shown \in StatSessions(q, m)
  <2>1. PICK s \in Of(m) : shown = Shown(s, q.stats[s] = "open", "stat")
    BY <1>3 DEF StatSessions
  <2>2. q.stats[s] = "open" /\ s \in Sessions /\ MinerOf[s] = m
    BY <2>1 DEF Shown, Of
  <2> QED
    BY <1>1, <2>2 DEF SnapshotInv
<1>4. CASE /\ shown = KnownSession(known, m)
           /\ RowSessions(q, m) \cup StatSessions(q, m) = {}
  <2>1. known[m] = TRUE
    <3>1. known \in Table
      BY DEF IInv, TableInv
    <3>2. Worker(q, known, m) # {}
      OBVIOUS
    <3>3. known[m] # None
      BY <1>4, <3>2 DEF Worker
    <3>4. known[m] \in BOOLEAN
      BY <3>1, <3>3 DEF Table
    <3>5. shown.connected = known[m]
      BY <1>4 DEF KnownSession, Shown
    <3> QED
      BY <3>4, <3>5
  <2>2. PICK s \in Of(m) : session[s] = "open" \/ Closing(s, events)
    BY <2>1 DEF IInv, TableInv, Of
  <2>3. s \in Sessions /\ MinerOf[s] = m
    BY DEF Of
  <2>4. q.stats[s] = "closed"
    BY <1>1, <2>2, <2>3 DEF TimeInv, SnapshotInv
  <2> QED
    BY <1>4, <2>4, ShownOrTaken
<1> QED
  BY <1>2, <1>3, <1>4 DEF Worker

LEMMA KnownMinersStayHolds == IInv => KnownMinersStay
<1> SUFFICES ASSUME IInv, NEW q \in Answering, NEW m \in q.kept
             PROVE  Worker(q, known, m) # {}
  BY DEF KnownMinersStay
<1>1. q \in RequestState /\ q.pc = "known" /\ SnapshotInv(q, known, events)
  BY SnapshotOfAnswering
<1>2. m \in Miners
  BY <1>1 DEF RequestState
<1>3. known[m] # None \/ \E s \in Of(m) : q.stats[s] \in {"open", "closed"}
  BY <1>1 DEF SnapshotInv
<1> QED
  BY <1>2, <1>3, ShownOrTaken DEF Worker

LEMMA TypesHold == IInv => TypeOK
<1> SUFFICES ASSUME IInv PROVE TypeOK
  OBVIOUS
<1> USE DEF IInv, TypeOK
<1>1. session \in [Sessions -> {"none", "open", "closed", "dropped"}]
  BY DEF QueueInv, Stats, SessionState
<1>2. events \in Seq([kind : {"opened", "closed"}, session : Sessions]) /\ Len(events) <= MaxQueued
  BY DEF QueueInv, Event
<1>3. known \in [Miners -> BOOLEAN \cup {None}]
  BY DEF TableInv, Table
<1>4. monitored \subseteq Sessions /\ seen \in [Miners -> Row \cup {None}]
  BY DEF SeenInv, Seen
<1> QED
  BY <1>1, <1>2, <1>3, <1>4
-----------------------------------------------------------------------------
(* The parts of the invariant from one state to the next.  A change of the *)
(* registry and the table is seen in what it may do: sessions are opened   *)
(* once and closed once, only an open one gets a closing queued, and only  *)
(* deleting takes a miner out of the table.                                *)

OpenedOnce(sess, sess2) ==
  \A s \in Sessions : /\ sess2[s] = "open" => sess[s] \in {"open", "none"}
                      /\ sess[s] # "none" => sess2[s] # "none"

ClosesOpen(sess, ev, ev2) ==
  \A s \in Sessions : Closing(s, ev2) => Closing(s, ev) \/ sess[s] = "open"

StillHeard(mon, mon2, sess2) == \A s \in mon : sess2[s] = "open" => s \in mon2

LEMMA NoRequestIsFine ==
  ASSUME NEW rows, NEW mon, NEW sess, NEW table, NEW ev
  PROVE  NoRequest \in RequestState /\ RequestInv(NoRequest, rows, mon, sess, table, ev)
<1>1. NoRequest \in RequestState
  BY DEF NoRequest, RequestState
<1>2. /\ NoRequest.pc = "idle" /\ NoRequest.answered = FALSE
      /\ NoRequest.clients = {} /\ NoRequest.rows = {}
  BY DEF NoRequest
<1>3. AskInv(NoRequest, rows, mon, sess)
  BY <1>2 DEF AskInv
<1>4. TimeInv(NoRequest, sess) /\ MergedInv(NoRequest) /\ SnapshotInv(NoRequest, table, ev)
  BY <1>2 DEF TimeInv, MergedInv, SnapshotInv
<1> QED
  BY <1>1, <1>2, <1>3, <1>4 DEF RequestInv

LEMMA HeardKept ==
  ASSUME NEW s \in Sessions, NEW mon, NEW mon2, NEW sess, NEW sess2,
         OpenedOnce(sess, sess2), StillHeard(mon, mon2, sess2), Heard(s, mon, sess)
  PROVE  Heard(s, mon2, sess2)
BY DEF OpenedOnce, StillHeard, Heard

\* What the rows of seen_miners say stays true.
LEMMA SeenKept ==
  ASSUME NEW rows, NEW mon, NEW mon2, NEW sess, NEW sess2, NEW unseen,
         SeenInv(rows, mon, sess), OpenedOnce(sess, sess2), StillHeard(mon, mon2, sess2),
         mon2 \subseteq Sessions, \A s \in mon2 : sess2[s] # "none"
  PROVE  /\ SeenInv(rows, mon2, sess2)
         /\ RowsAreTrue(rows, sess, unseen) => RowsAreTrue(rows, sess2, unseen)
<1>1. ASSUME NEW m \in Miners, rows[m] # None
      PROVE  /\ rows[m] \in Row /\ rows[m].session \in Sessions
             /\ MinerOf[rows[m].session] = m /\ Heard(rows[m].session, mon, sess)
  <2>1. rows[m] \in Row
    BY <1>1 DEF SeenInv, Seen
  <2> QED
    BY <1>1, <2>1 DEF SeenInv, Row
<1>2. SeenInv(rows, mon2, sess2)
  BY <1>1, HeardKept DEF SeenInv
<1>3. ASSUME RowsAreTrue(rows, sess, unseen), NEW m \in Miners, rows[m] # None,
             sess2[rows[m].session] = "open", rows[m].session \notin unseen
      PROVE  rows[m].connected
  BY <1>1, <1>3 DEF RowsAreTrue, Heard, OpenedOnce
<1> QED
  BY <1>2, <1>3 DEF RowsAreTrue

\* A request that does nothing itself, later: what was open meanwhile is
\* added, what was not is taken away, and so are the miners deleted.
LEMMA RequestKept ==
  ASSUME NEW q, NEW rows, NEW mon, NEW sess, NEW table, NEW ev,
         NEW q2 \in RequestState, NEW mon2, NEW sess2, NEW table2, NEW ev2,
         RequestInv(q, rows, mon, sess, table, ev), SeenInv(rows, mon, sess),
         q.pc # "idle",
         q2.pc = q.pc, q2.clients = q.clients, q2.answered = q.answered, q2.rows = q.rows,
         q2.seen = q.seen, q2.stats = q.stats, q2.unsure = q.unsure,
         q.ever \subseteq q2.ever, \A s \in Sessions : sess2[s] = "open" => MinerOf[s] \in q2.ever,
         q2.steady \subseteq q.steady, \A s \in q2.steady : sess2[s] = "open",
         q2.kept \subseteq q.kept,
         \A m \in q2.kept : table[m] # None => table2[m] # None,
         OpenedOnce(sess, sess2), ClosesOpen(sess, ev, ev2), StillHeard(mon, mon2, sess2)
  PROVE  RequestInv(q2, rows, mon2, sess2, table2, ev2)
<1>1. /\ q \in RequestState
      /\ AskInv(q, rows, mon, sess) /\ TimeInv(q, sess)
      /\ MergedInv(q) /\ SnapshotInv(q, table, ev)
  BY DEF RequestInv
<1>2. q.rows \subseteq Sessions
  BY <1>1 DEF RequestState
<1>3. AskInv(q2, rows, mon2, sess2)
  <2>1. \A s \in q.rows : Heard(s, mon2, sess2)
    BY <1>1, <1>2, HeardKept DEF AskInv
  <2>2. ASSUME q.answered,
               NEW m \in Miners, rows[m] # None, sess2[rows[m].session] = "open"
        PROVE  \/ rows[m].session \in q.rows \cup q.unsure
               \/ ClientOf[rows[m].session] \in q.clients
    <3>1. rows[m] \in Row
      BY <2>2 DEF SeenInv, Seen
    <3>2. rows[m].session \in Sessions /\ Heard(rows[m].session, mon, sess)
      BY <2>2, <3>1 DEF SeenInv, Row
    <3>3. sess[rows[m].session] = "open"
      BY <2>2, <3>2 DEF Heard, OpenedOnce
    <3> QED
      BY <1>1, <2>2, <3>3 DEF AskInv
  <2> QED
    BY <1>1, <2>1, <2>2 DEF AskInv
<1>4. TimeInv(q2, sess2)
  BY DEF TimeInv
<1>5. MergedInv(q2)
  BY <1>1 DEF MergedInv
<1>6. SnapshotInv(q2, table2, ev2)
  <2> SUFFICES ASSUME q2.pc = "known" PROVE SnapshotInv(q2, table2, ev2)
    BY DEF SnapshotInv
  <2>1. q2.stats \in Stats /\ (\A s \in q2.steady : q2.stats[s] = "open")
    BY <1>1 DEF SnapshotInv
  <2>2. \A s \in Sessions : q2.stats[s] = "open" => MinerOf[s] \in q2.ever
    BY <1>1 DEF SnapshotInv
  <2>3. ASSUME NEW s \in Sessions, Closing(s, ev2), MinerOf[s] \notin q2.ever
        PROVE  q2.stats[s] = "closed"
    <3>1. MinerOf[s] \notin q.ever /\ sess[s] # "open"
      BY <1>1, <2>3 DEF TimeInv
    <3>2. Closing(s, ev)
      BY <2>3, <3>1 DEF ClosesOpen
    <3> QED
      BY <1>1, <3>1, <3>2 DEF SnapshotInv
  <2>4. \A m \in q2.kept : table2[m] # None \/ \E s \in Of(m) : q2.stats[s] \in {"open", "closed"}
    BY <1>1 DEF SnapshotInv
  <2> QED
    BY <2>1, <2>2, <2>3, <2>4 DEF SnapshotInv
<1> QED
  BY <1>1, <1>3, <1>4, <1>5, <1>6 DEF RequestInv
-----------------------------------------------------------------------------
(* The queue, the registry and the table.                                  *)

LEMMA Queued ==
  ASSUME NEW ev \in Seq(Event), NEW i \in 1..Len(ev)
  PROVE  ev[i] \in Event /\ ev[i].kind \in {"opened", "closed"} /\ ev[i].session \in Sessions
<1>1. ev[i] \in Event
  OBVIOUS
<1> QED
  BY <1>1 DEF Event

LEMMA Appended ==
  ASSUME NEW ev \in Seq(Event), NEW e \in Event
  PROVE  /\ Append(ev, e) \in Seq(Event) /\ Len(Append(ev, e)) = Len(ev) + 1
         /\ \A i \in 1..Len(ev) : Append(ev, e)[i] = ev[i]
         /\ Append(ev, e)[Len(ev) + 1] = e
         /\ \A s : Closing(s, Append(ev, e)) <=>
                     Closing(s, ev) \/ (e.kind = "closed" /\ e.session = s)
<1> DEFINE ev2 == Append(ev, e)
<1>1. /\ ev2 \in Seq(Event) /\ Len(ev2) = Len(ev) + 1
      /\ \A i \in 1..Len(ev) : ev2[i] = ev[i]
      /\ ev2[Len(ev) + 1] = e
  OBVIOUS
<1> HIDE DEF ev2
<1>2. 1..Len(ev2) = 1..Len(ev) \cup {Len(ev) + 1}
  BY <1>1
<1>3. \A s : Closing(s, ev2) <=> Closing(s, ev) \/ (e.kind = "closed" /\ e.session = s)
  BY <1>1, <1>2 DEF Closing
<1> QED
  BY <1>1, <1>3 DEF ev2

LEMMA Applied ==
  ASSUME NEW ev \in Seq(Event), ev # <<>>
  PROVE  /\ Head(ev) = ev[1] /\ Head(ev) \in Event
         /\ Tail(ev) \in Seq(Event) /\ Len(Tail(ev)) + 1 = Len(ev) /\ Len(Tail(ev)) \in Nat
         /\ \A i \in 1..Len(Tail(ev)) : Tail(ev)[i] = ev[i + 1]
         /\ \A s : Closing(s, ev) <=>
                     Closing(s, Tail(ev)) \/ (ev[1].kind = "closed" /\ ev[1].session = s)
<1> DEFINE ev2 == Tail(ev)
<1>1. /\ Head(ev) = ev[1] /\ ev[1] \in Event /\ Len(ev) \in Nat
      /\ ev2 \in Seq(Event) /\ Len(ev2) + 1 = Len(ev) /\ Len(ev2) \in Nat
      /\ \A i \in 1..Len(ev2) : ev2[i] = ev[i + 1]
  OBVIOUS
<1> HIDE DEF ev2
<1>2. ASSUME NEW s, NEW i \in 1..Len(ev), ev[i].kind = "closed", ev[i].session = s
      PROVE  Closing(s, ev2) \/ (ev[1].kind = "closed" /\ ev[1].session = s)
  <2>1. CASE i = 1
    BY <1>2, <2>1
  <2>2. CASE i # 1
    <3>1. i - 1 \in 1..Len(ev2) /\ (i - 1) + 1 = i
      BY <1>1, <2>2
    <3>2. ev2[i - 1] = ev[i]
      BY <1>1, <3>1
    <3> QED
      BY <1>2, <3>1, <3>2 DEF Closing
  <2> QED
    BY <2>1, <2>2
<1>3. ASSUME NEW s, NEW i \in 1..Len(ev2), ev2[i].kind = "closed", ev2[i].session = s
      PROVE  Closing(s, ev)
  <2>1. i + 1 \in 1..Len(ev)
    BY <1>1
  <2> QED
    BY <1>1, <1>3, <2>1 DEF Closing
<1>4. 1 \in 1..Len(ev)
  BY <1>1
<1>5. \A s : Closing(s, ev) <=>
               Closing(s, ev2) \/ (ev[1].kind = "closed" /\ ev[1].session = s)
  <2> SUFFICES ASSUME NEW s
               PROVE  Closing(s, ev) <=>
                        Closing(s, ev2) \/ (ev[1].kind = "closed" /\ ev[1].session = s)
    OBVIOUS
  <2>1. Closing(s, ev) => Closing(s, ev2) \/ (ev[1].kind = "closed" /\ ev[1].session = s)
    BY <1>2 DEF Closing
  <2>2. Closing(s, ev2) => Closing(s, ev)
    BY <1>3 DEF Closing
  <2>3. ev[1].kind = "closed" /\ ev[1].session = s => Closing(s, ev)
    BY <1>4 DEF Closing
  <2> QED
    BY <2>1, <2>2, <2>3
<1> QED
  BY <1>1, <1>5 DEF ev2

\* What a step of the registry leaves true of queue and table, and what
\* the requests can tell from it.
RegistryStep ==
  /\ QueueInv(events', session') /\ TableInv(known', events', session') /\ deleted' \subseteq Miners
  /\ OpenedOnce(session, session') /\ ClosesOpen(session, events, events')
  /\ \A m \in Miners : known[m] # None /\ known'[m] = None => m \in deleted'

LEMMA OpenedStep ==
  ASSUME IInv, NEW s \in Sessions, RecordChannelOpened(s)
  PROVE  RegistryStep
<1> DEFINE e == [kind |-> "opened", session |-> s]
<1>1. /\ events \in Seq(Event) /\ Len(events) <= MaxQueued /\ Len(events) \in Nat
      /\ session \in Stats /\ known \in Table /\ deleted \subseteq Miners
  BY DEF IInv, QueueInv, TableInv
<1>2. e \in Event /\ e.kind = "opened" /\ e.session = s
  BY DEF Event
<1>3. /\ session[s] = "none" /\ session' = [session EXCEPT ![s] = "open"]
      /\ Len(events) < MaxQueued /\ events' = Append(events, e)
      /\ deleted' = deleted \ {MinerOf[s]} /\ known' = known
  BY DEF RecordChannelOpened, Emit
<1> HIDE DEF e
<1>4. /\ events' \in Seq(Event) /\ Len(events') = Len(events) + 1
      /\ \A i \in 1..Len(events) : events'[i] = events[i]
      /\ events'[Len(events) + 1] = e
      /\ \A x : Closing(x, events') <=> Closing(x, events)
  BY <1>1, <1>2, <1>3, Appended
<1>5. /\ session' \in Stats /\ session'[s] = "open"
      /\ \A x \in Sessions : x # s => session'[x] = session[x]
  BY <1>1, <1>3 DEF Stats, SessionState
<1>6. \A i \in 1..Len(events) : events[i] \in Event /\ events[i].session \in Sessions
  BY <1>1, Queued
<1>7. QueueInv(events', session')
  <2>1. Len(events') <= MaxQueued
    BY <1>1, <1>3, <1>4, MinerListAssumption
  <2>2. 1..Len(events') = 1..Len(events) \cup {Len(events) + 1}
    BY <1>1, <1>4
  <2>3. ASSUME NEW i \in 1..Len(events), events[i].kind = "closed"
        PROVE  session'[events[i].session] = "closed"
    <3>1. session[events[i].session] = "closed"
      BY <2>3 DEF IInv, QueueInv
    <3> QED
      BY <1>3, <1>5, <1>6, <3>1
  <2>4. ASSUME NEW i \in 1..Len(events), events[i].kind # "closed"
        PROVE  \/ session'[events[i].session] = "open"
               \/ \E j \in 1..Len(events) :
                    j > i /\ events[j].kind = "closed" /\ events[j].session = events[i].session
    <3>1. \/ session[events[i].session] = "open"
          \/ \E j \in 1..Len(events) :
               j > i /\ events[j].kind = "closed" /\ events[j].session = events[i].session
      BY <2>4 DEF IInv, QueueInv
    <3> QED
      BY <1>3, <1>5, <1>6, <3>1
  <2> QED
    BY <1>2, <1>4, <1>5, <2>1, <2>2, <2>3, <2>4 DEF QueueInv
<1>8. OpenedOnce(session, session')
  BY <1>3, <1>5 DEF OpenedOnce
<1>9. ASSUME NEW x \in Sessions, session[x] = "open" PROVE session'[x] = "open"
  BY <1>3, <1>5, <1>9
<1>10. TableInv(known', events', session')
  BY <1>1, <1>3, <1>4, <1>9 DEF IInv, TableInv
<1> QED
  BY <1>1, <1>3, <1>4, <1>7, <1>8, <1>10 DEF RegistryStep, ClosesOpen

LEMMA ClosedStep ==
  ASSUME IInv, NEW s \in Sessions, RecordChannelClosed(s)
  PROVE  RegistryStep
<1> DEFINE e == [kind |-> "closed", session |-> s]
<1>1. /\ events \in Seq(Event) /\ Len(events) <= MaxQueued /\ Len(events) \in Nat
      /\ session \in Stats /\ known \in Table /\ deleted \subseteq Miners
  BY DEF IInv, QueueInv, TableInv
<1>2. e \in Event /\ e.kind = "closed" /\ e.session = s
  BY DEF Event
<1>3. /\ session[s] = "open" /\ session' = [session EXCEPT ![s] = "closed"]
      /\ Len(events) < MaxQueued /\ events' = Append(events, e)
      /\ deleted' = deleted /\ known' = known
  BY DEF RecordChannelClosed, Emit
<1> HIDE DEF e
<1>4. /\ events' \in Seq(Event) /\ Len(events') = Len(events) + 1
      /\ \A i \in 1..Len(events) : events'[i] = events[i]
      /\ events'[Len(events) + 1] = e
      /\ \A x : Closing(x, events') <=> Closing(x, events) \/ x = s
  BY <1>1, <1>2, <1>3, Appended
<1>5. /\ session' \in Stats /\ session'[s] = "closed"
      /\ \A x \in Sessions : x # s => session'[x] = session[x]
  BY <1>1, <1>3 DEF Stats, SessionState
<1>6. \A i \in 1..Len(events) : events[i] \in Event /\ events[i].session \in Sessions
  BY <1>1, Queued
<1>7. QueueInv(events', session')
  <2>1. Len(events') <= MaxQueued
    BY <1>1, <1>3, <1>4, MinerListAssumption
  <2>2. 1..Len(events') = 1..Len(events) \cup {Len(events) + 1}
    BY <1>1, <1>4
  <2>3. ASSUME NEW i \in 1..Len(events), events[i].kind = "closed"
        PROVE  session'[events[i].session] = "closed"
    <3>1. session[events[i].session] = "closed"
      BY <2>3 DEF IInv, QueueInv
    <3> QED
      BY <1>5, <1>6, <3>1
  <2>4. ASSUME NEW i \in 1..Len(events), events[i].kind # "closed"
        PROVE  \/ session'[events[i].session] = "open"
               \/ \E j \in 1..Len(events') :
                    j > i /\ events'[j].kind = "closed" /\ events'[j].session = events[i].session
    <3>1. \/ session[events[i].session] = "open"
          \/ \E j \in 1..Len(events) :
               j > i /\ events[j].kind = "closed" /\ events[j].session = events[i].session
      BY <2>4 DEF IInv, QueueInv
    <3>2. CASE \E j \in 1..Len(events) :
                 j > i /\ events[j].kind = "closed" /\ events[j].session = events[i].session
      BY <1>4, <2>2, <3>2
    <3>3. CASE session[events[i].session] = "open" /\ events[i].session # s
      BY <1>5, <1>6, <3>3
    <3>4. CASE events[i].session = s
      <4>1. Len(events) + 1 \in 1..Len(events') /\ Len(events) + 1 > i
        BY <1>1, <2>2
      <4> QED
        BY <1>2, <1>4, <3>4, <4>1
    <3> QED
      BY <3>1, <3>2, <3>3, <3>4
  <2>5. ASSUME NEW i \in 1..Len(events')
        PROVE  IF events'[i].kind = "closed" THEN session'[events'[i].session] = "closed"
               ELSE \/ session'[events'[i].session] = "open"
                    \/ \E j \in 1..Len(events') :
                         /\ j > i /\ events'[j].kind = "closed"
                         /\ events'[j].session = events'[i].session
    <3>1. CASE i \in 1..Len(events)
      BY <1>4, <2>3, <2>4, <3>1
    <3>2. CASE i = Len(events) + 1
      BY <1>2, <1>4, <1>5, <3>2
    <3> QED
      BY <2>2, <3>1, <3>2
  <2> QED
    BY <1>4, <1>5, <2>1, <2>5 DEF QueueInv
<1>8. OpenedOnce(session, session')
  BY <1>3, <1>5 DEF OpenedOnce
<1>9. TableInv(known', events', session')
  BY <1>1, <1>3, <1>4, <1>5 DEF IInv, TableInv
<1> QED
  BY <1>1, <1>3, <1>4, <1>7, <1>8, <1>9 DEF RegistryStep, ClosesOpen

LEMMA AppliedStep ==
  ASSUME IInv, ApplyEvent
  PROVE  RegistryStep
<1> DEFINE e == events[1]
           m == MinerOf[e.session]
<1>1. /\ events \in Seq(Event) /\ Len(events) <= MaxQueued /\ Len(events) \in Nat
      /\ session \in Stats /\ known \in Table /\ deleted \subseteq Miners
  BY DEF IInv, QueueInv, TableInv
<1>2. /\ events # <<>> /\ events' = Tail(events) /\ session' = session /\ deleted' = deleted
      /\ known' = IF e.kind = "closed" /\ known[m] = None THEN known
                  ELSE [known EXCEPT ![m] = (e.kind = "opened")]
  BY <1>1, Applied DEF ApplyEvent
<1>3. /\ events' \in Seq(Event) /\ Len(events') + 1 = Len(events) /\ Len(events') \in Nat
      /\ \A i \in 1..Len(events') : events'[i] = events[i + 1]
      /\ \A s : Closing(s, events) <=>
                  Closing(s, events') \/ (e.kind = "closed" /\ e.session = s)
  BY <1>1, <1>2, Applied
<1>4. 1 \in 1..Len(events)
  BY <1>3
<1>5. e \in Event /\ e.kind \in {"opened", "closed"} /\ e.session \in Sessions
  BY <1>1, <1>4, Queued
<1>6. m \in Miners
  BY <1>5, MinerListAssumption
<1>7. QueueInv(events', session')
  <2>1. Len(events') <= MaxQueued
    BY <1>1, <1>3, MinerListAssumption
  <2>2. ASSUME NEW i \in 1..Len(events')
        PROVE  IF events'[i].kind = "closed" THEN session[events'[i].session] = "closed"
               ELSE \/ session[events'[i].session] = "open"
                    \/ \E j \in 1..Len(events') :
                         /\ j > i /\ events'[j].kind = "closed"
                         /\ events'[j].session = events'[i].session
    <3> DEFINE k == i + 1
    <3>1. k \in 1..Len(events) /\ events'[i] = events[k]
      BY <1>3
    <3>2. IF events[k].kind = "closed" THEN session[events[k].session] = "closed"
          ELSE \/ session[events[k].session] = "open"
               \/ \E j \in 1..Len(events) :
                    j > k /\ events[j].kind = "closed" /\ events[j].session = events[k].session
      BY <3>1 DEF IInv, QueueInv
    <3>3. ASSUME NEW j \in 1..Len(events), j > k,
                 events[j].kind = "closed", events[j].session = events[k].session
          PROVE  \E l \in 1..Len(events') :
                   l > i /\ events'[l].kind = "closed" /\ events'[l].session = events'[i].session
      <4>1. j - 1 \in 1..Len(events') /\ j - 1 > i /\ (j - 1) + 1 = j
        BY <1>3, <3>3
      <4>2. events'[j - 1] = events[j]
        BY <1>3, <4>1
      <4> QED
        BY <3>1, <3>3, <4>1, <4>2
    <3> HIDE DEF k
    <3> QED
      BY <3>1, <3>2, <3>3
  <2> QED
    BY <1>1, <1>2, <1>3, <2>1, <2>2 DEF QueueInv
<1>8. known' \in Table
  BY <1>1, <1>2, <1>6 DEF Table
<1>9. ASSUME NEW n \in Miners, known'[n] = TRUE
      PROVE  \E s \in Sessions : MinerOf[s] = n /\ (session[s] = "open" \/ Closing(s, events'))
  <2>1. CASE e.kind = "opened" /\ n = m
    <3>1. \/ session[e.session] = "open"
          \/ \E j \in 1..Len(events) :
               j > 1 /\ events[j].kind = "closed" /\ events[j].session = e.session
      BY <1>4, <2>1 DEF IInv, QueueInv
    <3>2. Closing(e.session, events) => Closing(e.session, events')
      BY <1>3, <2>1
    <3> QED
      BY <1>5, <2>1, <3>1, <3>2 DEF Closing
  <2>2. CASE e.kind = "closed" /\ n = m
    <3>1. known[m] = None => known'[n] = None
      BY <1>2, <2>2
    <3>2. known[m] # None => known'[n] = FALSE
      BY <1>1, <1>2, <1>6, <2>2 DEF Table
    <3> QED
      BY <1>9, <3>1, <3>2, MinerListAssumption
  <2>3. CASE n # m
    <3>1. known'[n] = known[n]
      BY <1>1, <1>2, <2>3 DEF Table
    <3>2. PICK s \in Sessions : MinerOf[s] = n /\ (session[s] = "open" \/ Closing(s, events))
      BY <1>9, <3>1 DEF IInv, TableInv
    <3> QED
      BY <1>3, <2>3, <3>2
  <2> QED
    BY <1>5, <2>1, <2>2, <2>3
<1>10. ASSUME NEW n \in Miners, known[n] # None PROVE known'[n] # None
  <2>1. (e.kind = "opened") \in BOOLEAN /\ (e.kind = "opened") # None
    BY MinerListAssumption
  <2>2. known'[n] = known[n] \/ known'[n] = (e.kind = "opened")
    BY <1>1, <1>2, <1>6 DEF Table
  <2> QED
    BY <1>10, <2>1, <2>2
<1> QED
  BY <1>1, <1>2, <1>3, <1>7, <1>8, <1>9, <1>10
  DEF RegistryStep, TableInv, OpenedOnce, ClosesOpen

LEMMA DeletedStep ==
  ASSUME IInv, NEW m \in Miners, DeleteMiner(m)
  PROVE  RegistryStep
<1>1. /\ known' = [known EXCEPT ![m] = None] /\ deleted' = deleted \cup {m}
      /\ session' = session /\ events' = events
  BY DEF DeleteMiner
<1>2. QueueInv(events, session) /\ TableInv(known, events, session) /\ deleted \subseteq Miners
  BY DEF IInv
<1>3. known \in Table
  BY <1>2 DEF TableInv
<1>4. /\ known' \in Table /\ known'[m] = None
      /\ \A n \in Miners : n # m => known'[n] = known[n]
  BY <1>1, <1>3 DEF Table
<1>5. None # TRUE
  BY MinerListAssumption
<1>6. TableInv(known', events, session)
  BY <1>2, <1>4, <1>5 DEF TableInv
<1> QED
  BY <1>1, <1>2, <1>4, <1>6 DEF RegistryStep, OpenedOnce, ClosesOpen

-----------------------------------------------------------------------------
(* Each action keeps the invariant.                                        *)

LEMMA RegistryKeeps ==
  ASSUME IInv, Registry
  PROVE  IInv'
<1> DEFINE open == {s \in Sessions : session'[s] = "open"}
           Later(q) == [q EXCEPT !.ever = @ \cup {MinerOf[s] : s \in open}, !.steady = @ \cap open,
                                 !.gone = @ \cap deleted',
                                 !.kept = (@ \cap Present(session', known')) \ deleted']
<1>1. RegistryStep
  BY OpenedStep, ClosedStep, AppliedStep, DeletedStep DEF Registry
<1>2. /\ monitored' = monitored /\ seen' = seen /\ unsure' = unsure
      /\ request' = [r \in Requests |-> IF request[r].pc = "idle" THEN NoRequest
                                        ELSE Later(request[r])]
  BY DEF Registry, Observe, seenVars
<1>3. SeenInv(seen, monitored, session) /\ RowsAreTrue(seen, session, unsure)
  BY DEF IInv
<1>4. OpenedOnce(session, session') /\ StillHeard(monitored, monitored, session')
  BY <1>1 DEF RegistryStep, StillHeard
<1>5. /\ SeenInv(seen, monitored, session')
      /\ RowsAreTrue(seen, session', unsure)
  <2>1. /\ monitored \subseteq Sessions
        /\ \A s \in monitored : session[s] # "none"
    BY <1>3 DEF SeenInv
  <2>2. \A s \in monitored : session'[s] # "none"
    BY <1>4, <2>1 DEF OpenedOnce
  <2> QED
    BY <1>3, <1>4, <2>1, <2>2, SeenKept
<1>6. ASSUME NEW r \in Requests
      PROVE  /\ request'[r] \in RequestState
             /\ RequestInv(request'[r], seen, monitored, session', known', events')
  <2>1. CASE request[r].pc = "idle"
    BY <1>2, <2>1, NoRequestIsFine
  <2>2. CASE request[r].pc # "idle"
    <3> DEFINE q == request[r]
               q2 == Later(q)
    <3>1. /\ RequestInv(q, seen, monitored, session, known, events)
          /\ q \in RequestState
      BY DEF IInv
    <3>2. /\ q2.pc = q.pc /\ q2.clients = q.clients /\ q2.answered = q.answered
          /\ q2.rows = q.rows /\ q2.seen = q.seen /\ q2.stats = q.stats
          /\ q2.unsure = q.unsure
          /\ q2.ever = q.ever \cup {MinerOf[s] : s \in open} /\ q2.steady = q.steady \cap open
          /\ q2.kept = (q.kept \cap Present(session', known')) \ deleted'
          /\ q2 \in RequestState
      <4> HIDE DEF open, q
      <4>1. {MinerOf[s] : s \in open} \subseteq Miners
        BY MinerListAssumption DEF open
      <4> QED
        BY <3>1, <4>1 DEF RequestState
    <3>3. request'[r] = q2
      BY <1>2, <2>2
    <3>4. /\ \A s \in Sessions : session'[s] = "open" => s \in open
          /\ \A s \in open : session'[s] = "open"
      OBVIOUS
    <3>5. q.kept \subseteq Miners
      BY <3>1 DEF RequestState
    <3>6. \A m \in q2.kept : known[m] # None => known'[m] # None
      BY <1>1, <3>2, <3>5 DEF RegistryStep
    <3>7. ClosesOpen(session, events, events')
      BY <1>1 DEF RegistryStep
    <3> HIDE DEF q, q2, open, Later
    <3>8. q.pc # "idle"
      BY <2>2 DEF q
    <3>9. RequestInv(q2, seen, monitored, session', known', events')
      BY <1>3, <1>4, <3>1, <3>2, <3>4, <3>6, <3>7, <3>8, RequestKept
    <3> QED
      BY <3>2, <3>3, <3>9
  <2> QED
    BY <2>1, <2>2
<1> HIDE DEF Later
<1>7. request' \in [Requests -> RequestState]
  BY <1>2, <1>6
<1> QED
  BY <1>1, <1>2, <1>3, <1>5, <1>6, <1>7 DEF IInv, RegistryStep

LEMMA RefreshMonitoringKeeps ==
  ASSUME IInv, RefreshMonitoring
  PROVE  IInv'
<1>1. /\ monitored' = In("open")
      /\ UNCHANGED <<session, events, known, deleted, seen, unsure, request>>
  BY DEF RefreshMonitoring, registryVars, seenVars
<1>2. SeenInv(seen, monitored, session)
  BY DEF IInv
<1>3. /\ OpenedOnce(session, session) /\ ClosesOpen(session, events, events)
      /\ StillHeard(monitored, In("open"), session)
  BY <1>2 DEF OpenedOnce, ClosesOpen, StillHeard, In, SeenInv
<1>4. SeenInv(seen, In("open"), session)
  <2>1. In("open") \subseteq Sessions /\ \A s \in In("open") : session[s] # "none"
    BY DEF In
  <2> QED
    BY <1>1, <1>2, <1>3, <2>1, SeenKept
<1>5. ASSUME NEW r \in Requests
      PROVE  RequestInv(request[r], seen, In("open"), session, known, events)
  <2> DEFINE q == request[r]
  <2> SUFFICES RequestInv(q, seen, In("open"), session, known, events)
    OBVIOUS
  <2>1. q \in RequestState /\ RequestInv(q, seen, monitored, session, known, events)
    BY DEF IInv
  <2> HIDE DEF q
  <2>2. CASE q.pc = "idle"
    BY <2>1, <2>2, NoRequestIsFine DEF RequestInv
  <2>3. CASE q.pc # "idle"
    <3>1. /\ \A s \in q.steady : session[s] = "open"
          /\ \A s \in Sessions : session[s] = "open" => MinerOf[s] \in q.ever
      BY <2>1, <2>3 DEF RequestInv, TimeInv
    <3> QED
      BY <1>2, <1>3, <2>1, <2>3, <3>1, RequestKept
  <2> QED
    BY <2>2, <2>3
<1> QED
  BY <1>1, <1>4, <1>5 DEF IInv

LEMMA RestartKeeps ==
  ASSUME IInv, Restart
  PROVE  IInv'
<1>1. /\ session' = [s \in Sessions |-> "none"] /\ events' = <<>>
      /\ known' = [m \in Miners |-> IF known[m] = None THEN None ELSE FALSE]
      /\ monitored' = {} /\ seen' = [m \in Miners |-> None] /\ unsure' = {}
      /\ request' = [r \in Requests |-> NoRequest]
      /\ deleted' = deleted
  BY DEF Restart
<1>2. QueueInv(events', session')
  <2>1. <<>> \in Seq(Event) /\ Len(<<>>) = 0 /\ 0 <= MaxQueued /\ 1..0 = {}
    BY MinerListAssumption
  <2>2. session' \in Stats
    BY <1>1 DEF Stats, SessionState
  <2> QED
    BY <1>1, <2>1, <2>2 DEF QueueInv
<1>3. TableInv(known', events', session')
  <2>1. known' \in Table
    BY <1>1 DEF Table
  <2>2. \A m \in Miners : known'[m] # TRUE
    BY <1>1, MinerListAssumption
  <2> QED
    BY <2>1, <2>2 DEF TableInv
<1>4. SeenInv(seen', monitored', session') /\ RowsAreTrue(seen', session', unsure')
  BY <1>1 DEF SeenInv, RowsAreTrue, Seen
<1>5. /\ request' \in [Requests -> RequestState]
      /\ \A r \in Requests :
           RequestInv(request'[r], seen', monitored', session', known', events')
  BY <1>1, NoRequestIsFine
<1> QED
  BY <1>1, <1>2, <1>3, <1>4, <1>5 DEF IInv

\* What a request that asks is told: of the sessions heard of before none is
\* missing that is open, but those that the page of clients left out.
LEMMA FetchClientsKeeps ==
  ASSUME IInv, NEW r \in Requests, FetchClients(r)
  PROVE  IInv'
<1>1. /\ UNCHANGED <<session, events, known, deleted, monitored, seen, unsure>>
      /\ \/ request' = [request EXCEPT ![r] = [Started EXCEPT !.pc = "merge"]]
         \/ \E page \in SUBSET Clients :
              request' = [request EXCEPT ![r] =
                [Started EXCEPT !.pc = "merge", !.answered = TRUE, !.clients = page,
                                !.unsure = {s \in monitored : ClientOf[s] \notin page}]]
  BY DEF FetchClients, Move, registryVars, seenVars
<1>2. /\ SeenInv(seen, monitored, session) /\ session \in Stats /\ deleted \subseteq Miners
      /\ request \in [Requests -> RequestState]
  BY DEF IInv, QueueInv
<1> DEFINE q == request'[r]
           miners == {MinerOf[s] : s \in In("open")}
           Asked(x) ==
             /\ x.pc = "merge" /\ x.answered \in BOOLEAN /\ x.rows = {}
             /\ ~x.answered => x.clients = {}
             /\ x.answered => \A s \in monitored : s \in x.unsure \/ ClientOf[s] \in x.clients
             /\ x.ever = miners /\ x.steady = In("open")
             /\ x \in RequestState
<1>3. Asked(q)
  <2>1. /\ In("open") \subseteq Sessions /\ Present(session, known) \ deleted \subseteq Miners
        /\ monitored \subseteq Sessions /\ miners \subseteq Miners
    BY <1>2, MinerListAssumption DEF In, Present, SeenInv
  <2> HIDE DEF q
  <2>2. Started \in RequestState
    <3> HIDE DEF miners
    <3>1. Started = [NoRequest EXCEPT !.ever = miners, !.steady = In("open"), !.gone = deleted,
                                      !.kept = Present(session, known) \ deleted]
      BY DEF Started, miners
    <3> QED
      BY <1>2, <2>1, <3>1, NoRequestIsFine DEF RequestState
  <2>3. /\ Started.ever = miners /\ Started.steady = In("open") /\ Started.rows = {}
        /\ Started.clients = {} /\ Started.answered = FALSE
    BY DEF Started, NoRequest
  <2>4. \/ q = [Started EXCEPT !.pc = "merge"]
        \/ \E page \in SUBSET Clients :
             q = [Started EXCEPT !.pc = "merge", !.answered = TRUE, !.clients = page,
                                 !.unsure = {s \in monitored : ClientOf[s] \notin page}]
    BY <1>1, <1>2 DEF q
  <2> HIDE DEF Started, miners
  <2>5. CASE q = [Started EXCEPT !.pc = "merge"]
    BY <2>2, <2>3, <2>5 DEF RequestState
  <2>6. ASSUME NEW page \in SUBSET Clients,
               q = [Started EXCEPT !.pc = "merge", !.answered = TRUE, !.clients = page,
                                   !.unsure = {s \in monitored : ClientOf[s] \notin page}]
        PROVE  Asked(q)
    <3> DEFINE left == {s \in monitored : ClientOf[s] \notin page}
    <3>1. left \subseteq Sessions /\ \A s \in monitored : s \in left \/ ClientOf[s] \in page
      BY <2>1
    <3>2. q = [Started EXCEPT !.pc = "merge", !.answered = TRUE, !.clients = page,
                              !.unsure = left]
      BY <2>6
    <3> HIDE DEF left
    <3>3. /\ q.pc = "merge" /\ q.answered = TRUE /\ q.clients = page /\ q.unsure = left
          /\ q.rows = {} /\ q.ever = miners /\ q.steady = In("open") /\ q \in RequestState
      BY <2>2, <2>3, <3>1, <3>2 DEF RequestState
    <3> QED
      BY <3>1, <3>3
  <2> QED
    BY <2>4, <2>5, <2>6
<1>4. RequestInv(q, seen, monitored, session, known, events)
  <2> HIDE DEF q
  <2>1. \A m \in Miners : seen[m] # None => Heard(seen[m].session, monitored, session)
    BY <1>2 DEF SeenInv
  <2>2. AskInv(q, seen, monitored, session)
    BY <1>3, <2>1 DEF AskInv, Heard
  <2>3. TimeInv(q, session)
    BY <1>3 DEF TimeInv, In
  <2>4. MergedInv(q) /\ SnapshotInv(q, known, events)
    BY <1>3 DEF MergedInv, SnapshotInv
  <2> QED
    BY <1>3, <2>2, <2>3, <2>4 DEF RequestInv
<1>5. \A other \in Requests : other # r => request'[other] = request[other]
  BY <1>1, <1>2
<1>6. request' \in [Requests -> RequestState]
  <2> HIDE DEF q
  <2>1. request' = [request EXCEPT ![r] = q]
    BY <1>1, <1>2 DEF q
  <2> QED
    BY <1>2, <1>3, <2>1
<1> QED
  BY <1>1, <1>4, <1>5, <1>6 DEF IInv

\* Each answer with channels adds those of its page to the rows, and counts
\* the others of that client among those left out.
LEMMA FetchChannelsKeeps ==
  ASSUME IInv, NEW r \in Requests, FetchChannels(r)
  PROVE  IInv'
<1> DEFINE q == request[r]
           q2 == request'[r]
           Fetched(x) == /\ x \in RequestState /\ x.pc = "merge"
                         /\ x.ever = q.ever /\ x.steady = q.steady
                         /\ AskInv(x, seen, monitored, session)
           Given(x) == [x EXCEPT !.clients = {}, !.answered = FALSE, !.rows = {}, !.unsure = {}]
           Told(x, c, page) == [x EXCEPT !.clients = @ \ {c}, !.rows = @ \cup page,
                                         !.unsure = @ \cup (Open(c) \ page)]
<1>1. UNCHANGED <<session, events, known, deleted, monitored, seen, unsure>>
  BY DEF FetchChannels, registryVars, seenVars
<1>2. /\ SeenInv(seen, monitored, session) /\ request \in [Requests -> RequestState]
      /\ q \in RequestState /\ q.clients # {}
      /\ RequestInv(q, seen, monitored, session, known, events)
  BY DEF IInv, FetchChannels
<1>3. \/ request' = [request EXCEPT ![r] = Given(q)]
      \/ \E c \in q.clients : \E page \in SUBSET Open(c) :
           request' = [request EXCEPT ![r] = Told(q, c, page)]
  BY DEF FetchChannels, Move
<1> HIDE DEF Given, Told
<1>4. \/ q2 = Given(q)
      \/ \E c \in q.clients : \E page \in SUBSET Open(c) : q2 = Told(q, c, page)
  BY <1>2, <1>3
<1>5. /\ request' = [request EXCEPT ![r] = q2]
      /\ \A other \in Requests : other # r => request'[other] = request[other]
  BY <1>2, <1>3
<1> HIDE DEF q, q2
<1>6. /\ AskInv(q, seen, monitored, session) /\ TimeInv(q, session)
      /\ q.pc = "merge" /\ q.answered = TRUE
      /\ \A s \in q.rows : Heard(s, monitored, session)
      /\ q.rows \subseteq Sessions /\ q.clients \subseteq Clients /\ q.unsure \subseteq Sessions
      /\ monitored \subseteq Sessions /\ \A s \in monitored : session[s] # "none"
  <2>1. AskInv(q, seen, monitored, session) /\ TimeInv(q, session)
    BY <1>2 DEF RequestInv
  <2>2. q.answered \in BOOLEAN /\ q.rows \subseteq Sessions /\ q.clients \subseteq Clients
        /\ q.unsure \subseteq Sessions
    BY <1>2 DEF RequestState
  <2> QED
    BY <1>2, <2>1, <2>2 DEF AskInv, SeenInv
<1>7. Fetched(q2)
  <2>1. CASE q2 = Given(q)
    <3>1. /\ q2 \in RequestState /\ q2.pc = q.pc /\ q2.ever = q.ever /\ q2.steady = q.steady
          /\ q2.clients = {} /\ q2.answered = FALSE /\ q2.rows = {}
      BY <1>2, <2>1 DEF RequestState, Given
    <3> QED
      BY <1>6, <3>1 DEF AskInv
  <2>2. ASSUME NEW c \in q.clients, NEW page \in SUBSET Open(c), q2 = Told(q, c, page)
        PROVE  Fetched(q2)
    <3> DEFINE rest == q.clients \ {c}
               rows == q.rows \cup page
               left == q.unsure \cup (Open(c) \ page)
    <3>1. /\ rest \subseteq Clients /\ rows \subseteq Sessions /\ left \subseteq Sessions
          /\ page \subseteq monitored
      BY <1>6 DEF Open
    <3>2. q2 = [q EXCEPT !.clients = rest, !.rows = rows, !.unsure = left]
      BY <2>2 DEF Told
    <3>3. \A s \in rows : Heard(s, monitored, session)
      BY <1>6, <3>1 DEF Heard
    <3>4. ASSUME NEW m \in Miners, seen[m] # None, session[seen[m].session] = "open"
          PROVE  seen[m].session \in rows \cup left \/ ClientOf[seen[m].session] \in rest
      <4>1. seen[m].session \in monitored
        BY <1>2, <3>4 DEF SeenInv, Heard
      <4>2. \/ seen[m].session \in q.rows \cup q.unsure
            \/ ClientOf[seen[m].session] \in q.clients
        BY <1>6, <3>4 DEF AskInv
      <4> QED
        BY <4>1, <4>2 DEF Open
    <3> HIDE DEF rest, rows, left
    <3>5. /\ q2 \in RequestState /\ q2.pc = q.pc /\ q2.ever = q.ever /\ q2.steady = q.steady
          /\ q2.answered = q.answered /\ q2.clients = rest /\ q2.rows = rows /\ q2.unsure = left
      BY <1>2, <3>1, <3>2 DEF RequestState
    <3> QED
      BY <1>6, <3>3, <3>4, <3>5 DEF AskInv
  <2> QED
    BY <1>4, <2>1, <2>2
<1>8. RequestInv(q2, seen, monitored, session, known, events)
  <2>1. TimeInv(q2, session)
    BY <1>6, <1>7 DEF TimeInv
  <2>2. MergedInv(q2) /\ SnapshotInv(q2, known, events)
    BY <1>7 DEF MergedInv, SnapshotInv
  <2> QED
    BY <1>7, <2>1, <2>2 DEF RequestInv
<1>9. request' \in [Requests -> RequestState]
  BY <1>2, <1>5, <1>7
<1>10. \A other \in Requests :
         RequestInv(request'[other], seen, monitored, session, known, events)
  BY <1>5, <1>8 DEF q2, IInv
<1> QED
  BY <1>1, <1>9, <1>10 DEF IInv

\* What is merged is true of the sessions that are open: the row of one is
\* renewed, or the answer could overlook it.
LEMMA MergeSeenMinersKeeps ==
  ASSUME IInv, NEW r \in Requests, MergeSeenMiners(r)
  PROVE  IInv'
<1> DEFINE q == request[r]
           rows(m) == q.rows \cap Of(m)
           q2 == [q EXCEPT !.pc = "stats", !.answered = FALSE, !.rows = {}, !.unsure = {},
                           !.seen = seen', !.steady = @ \ unsure']
           Unmoved(p) == [p EXCEPT !.unsure = IF q.answered /\ p.answered THEN Sessions ELSE @]
<1>1. UNCHANGED <<session, events, known, deleted, monitored>>
  BY DEF MergeSeenMiners, registryVars
<1>2. /\ SeenInv(seen, monitored, session) /\ unsure \subseteq Sessions
      /\ RowsAreTrue(seen, session, unsure)
      /\ q \in RequestState /\ q.pc = "merge" /\ q.clients = {}
      /\ RequestInv(q, seen, monitored, session, known, events)
  BY DEF IInv, MergeSeenMiners
<1>3. PICK last \in [Miners -> Sessions] :
        /\ \A m \in Miners : rows(m) # {} => last[m] \in rows(m)
        /\ seen' = [m \in Miners |-> Merged(seen[m], q.answered, rows(m), last[m])]
  BY DEF MergeSeenMiners
<1>4. /\ unsure' = IF q.answered THEN q.unsure ELSE unsure
      /\ request' = [other \in Requests |-> IF other = r THEN q2 ELSE Unmoved(request[other])]
  BY DEF MergeSeenMiners
<1>5. /\ q.rows \subseteq Sessions /\ q.answered \in BOOLEAN /\ q.unsure \subseteq Sessions
      /\ AskInv(q, seen, monitored, session) /\ TimeInv(q, session)
      /\ \A s \in q.rows : Heard(s, monitored, session)
  BY <1>2 DEF RequestState, RequestInv, AskInv
<1>6. /\ seen \in Seen
      /\ \A m \in Miners : seen[m] # None =>
           /\ seen[m] \in Row /\ seen[m].session \in Sessions /\ MinerOf[seen[m].session] = m
           /\ Heard(seen[m].session, monitored, session)
  <2>1. \A m \in Miners : seen[m] # None => seen[m] \in Row
    BY <1>2 DEF SeenInv, Seen
  <2> QED
    BY <1>2, <2>1 DEF SeenInv, Row
<1> HIDE DEF q
<1>7. ASSUME NEW m \in Miners
      PROVE  /\ ~q.answered => seen'[m] = seen[m]
             /\ seen'[m] \in Row \cup {None}
             /\ seen'[m] # None =>
                  /\ MinerOf[seen'[m].session] = m
                  /\ Heard(seen'[m].session, monitored, session)
             /\ q.answered /\ seen'[m] # None /\ seen'[m].session \notin q.unsure =>
                  (session[seen'[m].session] = "open" => seen'[m].connected)
  <2>1. seen'[m] = Merged(seen[m], q.answered, rows(m), last[m])
    BY <1>3
  <2>2. CASE ~q.answered
    BY <1>6, <2>1, <2>2 DEF Merged
  <2>3. CASE q.answered /\ rows(m) # {}
    <3> DEFINE row == [session |-> last[m], connected |-> TRUE]
    <3>1. seen'[m] = row /\ last[m] \in rows(m)
      BY <1>3, <2>1, <2>3 DEF Merged
    <3>2. row \in Row /\ row.session = last[m] /\ row.connected = TRUE
      BY DEF Row
    <3> HIDE DEF row
    <3>3. MinerOf[last[m]] = m /\ Heard(last[m], monitored, session)
      BY <1>5, <3>1 DEF Of
    <3> QED
      BY <2>3, <3>1, <3>2, <3>3
  <2>4. CASE q.answered /\ rows(m) = {} /\ seen[m] = None
    BY <2>1, <2>4 DEF Merged
  <2>5. CASE q.answered /\ rows(m) = {} /\ seen[m] # None
    <3> DEFINE row == [seen[m] EXCEPT !.connected = FALSE]
    <3>1. seen'[m] = row
      BY <2>1, <2>5 DEF Merged
    <3>2. row \in Row /\ row.session = seen[m].session
      BY <1>6, <2>5 DEF Row
    <3> HIDE DEF row
    <3>3. row # None
      BY <3>2, MinerListAssumption
    <3>4. ASSUME seen[m].session \notin q.unsure, session[seen[m].session] = "open" PROVE FALSE
      <4>1. seen[m].session \in q.rows
        BY <1>2, <1>5, <2>5, <3>4 DEF AskInv
      <4>2. seen[m].session \in Of(m)
        BY <1>6, <2>5 DEF Of
      <4> QED
        BY <2>5, <4>1, <4>2
    <3> QED
      BY <1>6, <2>5, <3>1, <3>2, <3>3, <3>4
  <2> QED
    BY <1>5, <2>2, <2>3, <2>4, <2>5
<1>8. seen' \in Seen
  BY <1>3, <1>7 DEF Seen
<1>9. ~q.answered => seen' = seen
  BY <1>3, <1>6, <1>7, <1>8 DEF Seen
<1>10. SeenInv(seen', monitored, session)
  BY <1>2, <1>5, <1>7, <1>8, <1>9 DEF SeenInv
<1>11. unsure' \subseteq Sessions /\ RowsAreTrue(seen', session, unsure')
  <2>1. CASE q.answered
    BY <1>4, <1>5, <1>7, <2>1 DEF RowsAreTrue
  <2>2. CASE ~q.answered
    BY <1>2, <1>4, <1>9, <2>2
  <2> QED
    BY <2>1, <2>2
<1>12. /\ q2 \in RequestState /\ q2.pc = "stats" /\ q2.answered = FALSE /\ q2.clients = {}
       /\ q2.rows = {} /\ q2.seen = seen'
       /\ q2.ever = q.ever /\ q2.steady = q.steady \ unsure'
  <2> DEFINE newSeen == seen'
             newSteady == q.steady \ unsure'
  <2>1. newSeen \in Seen \cup {None} /\ newSteady \subseteq Sessions
    BY <1>2, <1>8 DEF RequestState
  <2>2. q2 = [q EXCEPT !.pc = "stats", !.answered = FALSE, !.rows = {}, !.unsure = {},
                       !.seen = newSeen, !.steady = newSteady]
    OBVIOUS
  <2> HIDE DEF newSeen, newSteady, q2
  <2>3. /\ q2 \in RequestState /\ q2.pc = "stats" /\ q2.answered = FALSE
        /\ q2.clients = q.clients
        /\ q2.rows = {} /\ q2.seen = newSeen
        /\ q2.ever = q.ever /\ q2.steady = newSteady
    BY <1>2, <2>1, <2>2 DEF RequestState
  <2> QED
    BY <1>2, <2>3 DEF newSeen, newSteady
<1> HIDE DEF q2
<1>13. RequestInv(q2, seen', monitored, session, known, events)
  <2>1. AskInv(q2, seen', monitored, session)
    BY <1>12 DEF AskInv
  <2>2. TimeInv(q2, session) /\ SnapshotInv(q2, known, events)
    BY <1>2, <1>5, <1>12 DEF TimeInv, SnapshotInv
  <2>3. \A s \in q.steady : session[s] = "open"
    BY <1>2, <1>5 DEF TimeInv
  <2>4. MergedInv(q2)
    BY <1>7, <1>8, <1>11, <1>12, <2>3 DEF MergedInv, RowsAreTrue
  <2> QED
    BY <1>12, <2>1, <2>2, <2>4 DEF RequestInv
<1>14. ASSUME NEW p \in RequestState,
              RequestInv(p, seen, monitored, session, known, events)
       PROVE  /\ Unmoved(p) \in RequestState
              /\ RequestInv(Unmoved(p), seen', monitored, session, known, events)
  <2> DEFINE p2 == Unmoved(p)
  <2>1. /\ p2 \in RequestState /\ p2.pc = p.pc /\ p2.clients = p.clients /\ p2.rows = p.rows
        /\ p2.answered = p.answered /\ p2.seen = p.seen /\ p2.stats = p.stats
        /\ p2.ever = p.ever /\ p2.steady = p.steady /\ p2.kept = p.kept
        /\ p2.unsure = IF q.answered /\ p.answered THEN Sessions ELSE p.unsure
    BY <1>5 DEF RequestState
  <2>2. CASE p.pc = "idle"
    <3>1. p = NoRequest
      BY <1>14, <2>2 DEF RequestInv
    <3>2. p.answered = FALSE
      BY <3>1 DEF NoRequest
    <3>3. p2 = [p EXCEPT !.unsure = p.unsure]
      BY <3>2
    <3> HIDE DEF p2, Unmoved
    <3>4. [p EXCEPT !.unsure = p.unsure] = p
      BY <1>14 DEF RequestState
    <3>6. p2 = NoRequest
      BY <3>1, <3>3, <3>4
    <3> QED
      BY <3>6, NoRequestIsFine DEF p2
  <2>3. CASE p.pc # "idle"
    <3> HIDE DEF Unmoved
    <3>1. /\ AskInv(p, seen, monitored, session) /\ TimeInv(p, session) /\ MergedInv(p)
          /\ SnapshotInv(p, known, events)
      BY <1>14 DEF RequestInv
    <3>2. ASSUME p.answered, NEW m \in Miners, seen'[m] # None,
                 session[seen'[m].session] = "open"
          PROVE  \/ seen'[m].session \in p2.rows \cup p2.unsure
                 \/ ClientOf[seen'[m].session] \in p2.clients
      <4>1. CASE q.answered
        <5>1. seen'[m] \in Row
          BY <1>7, <3>2
        <5>2. seen'[m].session \in Sessions
          BY <5>1 DEF Row
        <5> QED
          BY <2>1, <3>2, <4>1, <5>2
      <4>2. CASE ~q.answered
        BY <1>9, <2>1, <3>1, <3>2, <4>2 DEF AskInv
      <4> QED
        BY <4>1, <4>2
    <3>3. AskInv(p2, seen', monitored, session)
      BY <2>1, <3>1, <3>2 DEF AskInv
    <3>4. TimeInv(p2, session)
      BY <2>1, <3>1 DEF TimeInv
    <3>5. MergedInv(p2)
      BY <2>1, <3>1 DEF MergedInv
    <3>6. SnapshotInv(p2, known, events)
      BY <2>1, <3>1 DEF SnapshotInv
    <3> QED
      BY <2>1, <2>3, <3>1, <3>3, <3>4, <3>5, <3>6 DEF RequestInv
  <2> QED
    BY <2>2, <2>3
<1> HIDE DEF Unmoved
<1>15. /\ request' \in [Requests -> RequestState]
       /\ \A other \in Requests :
            RequestInv(request'[other], seen', monitored, session, known, events)
  <2>1. \A other \in Requests :
          /\ request[other] \in RequestState
          /\ RequestInv(request[other], seen, monitored, session, known, events)
    BY DEF IInv
  <2> QED
    BY <1>4, <1>12, <1>13, <1>14, <2>1
<1> QED
  BY <1>1, <1>10, <1>11, <1>15 DEF IInv

LEMMA AnswerKeeps ==
  ASSUME IInv, NEW r \in Requests, Answer(r)
  PROVE  IInv'
<1>1. /\ UNCHANGED <<session, events, known, deleted, monitored, seen, unsure>>
      /\ request' = [request EXCEPT ![r] = NoRequest]
  BY DEF Answer, Move, registryVars, seenVars
<1>2. request \in [Requests -> RequestState]
  BY DEF IInv
<1>3. /\ request' \in [Requests -> RequestState]
      /\ \A other \in Requests :
           request'[other] = IF other = r THEN NoRequest ELSE request[other]
  BY <1>1, <1>2, NoRequestIsFine
<1>4. \A other \in Requests :
        RequestInv(request'[other], seen, monitored, session, known, events)
  BY <1>3, NoRequestIsFine DEF IInv
<1> QED
  BY <1>1, <1>3, <1>4 DEF IInv

\* A session that is dropped was closed, and nothing of it is queued.
LEMMA TakeSnapshotsKeeps ==
  ASSUME IInv, NEW r \in Requests, TakeSnapshots(r)
  PROVE  IInv'
<1> DEFINE q == request[r]
           Unmoved(p) == [p EXCEPT !.kept = @ \cap Present(session', known)]
           q2 == [q EXCEPT !.kept = @ \cap Present(session', known), !.stats = session',
                           !.pc = "known"]
<1>1. UNCHANGED <<events, known, deleted, monitored, seen, unsure>>
  BY DEF TakeSnapshots, seenVars
<1>2. PICK dropped \in SUBSET In("closed") :
        /\ events # <<>> => dropped = {}
        /\ session' = [s \in Sessions |-> IF s \in dropped THEN "dropped" ELSE session[s]]
  BY DEF TakeSnapshots
<1>3. /\ q.pc = "stats" /\ q \in RequestState
      /\ RequestInv(q, seen, monitored, session, known, events)
      /\ SeenInv(seen, monitored, session)
      /\ RowsAreTrue(seen, session, unsure)
      /\ QueueInv(events, session) /\ session \in Stats /\ TableInv(known, events, session)
      /\ events \in Seq(Event)
  BY DEF IInv, TakeSnapshots, QueueInv
<1>4. \A other \in Requests :
        request'[other] = IF request[other].pc = "idle" THEN NoRequest
                          ELSE IF other = r THEN q2 ELSE Unmoved(request[other])
  <2>1. ASSUME NEW other \in Requests, request[other].pc # "idle"
        PROVE  request'[other] = [request[other] EXCEPT
                 !.kept = @ \cap Present(session', known),
                 !.stats = IF other = r THEN session' ELSE @,
                 !.pc = IF other = r THEN "known" ELSE @]
    BY <2>1 DEF TakeSnapshots
  <2>2. ASSUME NEW other \in Requests, request[other].pc # "idle", other # r
        PROVE  request'[other] = Unmoved(request[other])
    <3> DEFINE p == request[other]
               kept == p.kept \cap Present(session', known)
    <3>1. request'[other] = [p EXCEPT !.kept = kept, !.stats = p.stats, !.pc = p.pc]
      BY <2>1, <2>2
    <3>2. p \in RequestState
      BY DEF IInv
    <3>3. Unmoved(p) = [p EXCEPT !.kept = kept]
      OBVIOUS
    <3> HIDE DEF p, kept, Unmoved
    <3>4. [p EXCEPT !.kept = kept, !.stats = p.stats, !.pc = p.pc] = [p EXCEPT !.kept = kept]
      BY <3>2 DEF RequestState
    <3>5. request'[other] = Unmoved(p)
      BY <3>1, <3>3, <3>4
    <3> QED
      BY <3>5 DEF p
  <2>3. ASSUME NEW other \in Requests, request[other].pc = "idle"
        PROVE  request'[other] = NoRequest
    BY <2>3 DEF TakeSnapshots
  <2> HIDE DEF Unmoved
  <2>4. request[r].pc # "idle" => request'[r] = q2
    BY <2>1
  <2> HIDE DEF q2
  <2> QED
    BY <2>2, <2>3, <2>4
<1>5. /\ session' \in Stats
      /\ \A s \in Sessions : (session'[s] = "open") <=> (session[s] = "open")
      /\ \A s \in Sessions : session[s] # "none" => session'[s] # "none"
  BY <1>2, <1>3 DEF Stats, SessionState, In
<1>6. events # <<>> => session' = session
  BY <1>2, <1>3 DEF Stats
<1>7. events = <<>> => Len(events) = 0 /\ 1..Len(events) = {}
  OBVIOUS
<1>8. OpenedOnce(session, session') /\ StillHeard(monitored, monitored, session')
  BY <1>5 DEF OpenedOnce, StillHeard
<1>9. QueueInv(events, session')
  BY <1>3, <1>5, <1>6, <1>7 DEF QueueInv
<1>10. TableInv(known, events, session')
  BY <1>3, <1>5 DEF TableInv
<1>11. /\ SeenInv(seen, monitored, session')
       /\ RowsAreTrue(seen, session', unsure)
  <2>1. /\ monitored \subseteq Sessions
        /\ \A s \in monitored : session'[s] # "none"
    BY <1>3, <1>5 DEF SeenInv
  <2> QED
    BY <1>3, <1>8, <2>1, SeenKept
<1>12. ASSUME NEW p \in RequestState, p.pc # "idle",
              RequestInv(p, seen, monitored, session, known, events)
       PROVE  /\ Unmoved(p) \in RequestState
              /\ RequestInv(Unmoved(p), seen, monitored, session', known, events)
  <2> DEFINE p2 == Unmoved(p)
             present == Present(session', known)
  <2>1. /\ p2 \in RequestState /\ p2.pc = p.pc /\ p2.clients = p.clients /\ p2.rows = p.rows
        /\ p2.answered = p.answered /\ p2.seen = p.seen /\ p2.stats = p.stats
        /\ p2.unsure = p.unsure /\ p2.ever = p.ever /\ p2.steady = p.steady
        /\ p2.kept \subseteq p.kept
    <3> HIDE DEF present
    <3>1. p2 = [p EXCEPT !.kept = p.kept \cap present]
      BY DEF present
    <3> HIDE DEF p2
    <3> QED
      BY <1>12, <3>1 DEF RequestState
  <2> HIDE DEF Unmoved, p2
  <2>2. /\ \A s \in p.steady : session'[s] = "open"
        /\ \A s \in Sessions : session'[s] = "open" => MinerOf[s] \in p.ever
    <3>1. TimeInv(p, session) /\ p.steady \subseteq Sessions
      BY <1>12 DEF RequestInv, RequestState
    <3> QED
      BY <1>5, <1>12, <3>1 DEF TimeInv
  <2>3. ClosesOpen(session, events, events)
    BY DEF ClosesOpen
  <2>4. RequestInv(p2, seen, monitored, session', known, events)
    BY <1>3, <1>8, <1>12, <2>1, <2>2, <2>3, RequestKept
  <2> QED
    BY <2>1, <2>4 DEF p2
<1>13. q2 \in RequestState /\ RequestInv(q2, seen, monitored, session', known, events)
  <2> DEFINE stats == session'
             present == Present(session', known)
  <2>1. /\ q2 \in RequestState /\ q2.pc = "known" /\ q2.clients = q.clients
        /\ q2.rows = q.rows /\ q2.answered = q.answered
        /\ q2.seen = q.seen /\ q2.unsure = q.unsure
        /\ q2.ever = q.ever /\ q2.steady = q.steady /\ q2.stats = session'
        /\ q2.kept = q.kept \cap Present(session', known)
    <3>1. stats \in Stats \cup {None}
      BY <1>5
    <3>2. q2 = [q EXCEPT !.kept = q.kept \cap present, !.stats = stats, !.pc = "known"]
      OBVIOUS
    <3> HIDE DEF stats, present, q, q2
    <3>3. /\ q2 \in RequestState /\ q2.pc = "known" /\ q2.clients = q.clients
          /\ q2.rows = q.rows /\ q2.answered = q.answered
          /\ q2.seen = q.seen /\ q2.unsure = q.unsure
          /\ q2.ever = q.ever /\ q2.steady = q.steady /\ q2.stats = stats
          /\ q2.kept = q.kept \cap present
      BY <1>3, <3>1, <3>2 DEF RequestState
    <3> QED
      BY <3>3 DEF stats, present
  <2> HIDE DEF q, q2
  <2>2. /\ AskInv(q, seen, monitored, session) /\ TimeInv(q, session) /\ MergedInv(q)
        /\ ~q.answered /\ q.clients = {} /\ q.rows = {}
        /\ q.steady \subseteq Sessions /\ q.kept \subseteq Miners
    BY <1>3 DEF RequestInv, AskInv, RequestState
  <2>3. AskInv(q2, seen, monitored, session')
    BY <2>1, <2>2 DEF AskInv
  <2>4. /\ \A s \in q.steady : session'[s] = "open"
        /\ \A s \in Sessions : session'[s] = "open" => MinerOf[s] \in q.ever
    BY <1>3, <1>5, <2>2 DEF TimeInv
  <2>5. TimeInv(q2, session') /\ MergedInv(q2)
    BY <1>3, <2>1, <2>2, <2>4 DEF TimeInv, MergedInv
  <2>6. ASSUME NEW s \in Sessions, Closing(s, events) PROVE session'[s] = "closed"
    <3>1. PICK i \in 1..Len(events) : events[i].kind = "closed" /\ events[i].session = s
      BY <2>6 DEF Closing
    <3>2. session[s] = "closed"
      BY <1>3, <3>1 DEF QueueInv
    <3> QED
      BY <1>6, <1>7, <3>1, <3>2
  <2>7. \A m \in q2.kept :
          known[m] # None \/ \E s \in Of(m) : session'[s] \in {"open", "closed"}
    BY <2>1 DEF Present
  <2>8. SnapshotInv(q2, known, events)
    BY <1>5, <2>1, <2>4, <2>6, <2>7 DEF SnapshotInv
  <2> QED
    BY <2>1, <2>2, <2>3, <2>5, <2>8 DEF RequestInv
<1> HIDE DEF Unmoved, q2
<1>14. ASSUME NEW other \in Requests
       PROVE  /\ request'[other] \in RequestState
              /\ RequestInv(request'[other], seen, monitored, session', known, events)
  <2>1. /\ request[other] \in RequestState
        /\ RequestInv(request[other], seen, monitored, session, known, events)
    BY DEF IInv
  <2> QED
    BY <1>4, <1>12, <1>13, <2>1, NoRequestIsFine
<1>15. request' \in [Requests -> RequestState]
  <2>1. request' = [other \in Requests |-> request'[other]]
    BY DEF TakeSnapshots
  <2> QED
    BY <1>14, <2>1
<1> QED
  BY <1>1, <1>3, <1>9, <1>10, <1>11, <1>14, <1>15 DEF IInv

-----------------------------------------------------------------------------
LEMMA InitHolds == Init => IInv
<1> SUFFICES ASSUME Init PROVE IInv
  OBVIOUS
<1>1. /\ session = [s \in Sessions |-> "none"] /\ events = <<>>
      /\ known = [m \in Miners |-> None] /\ monitored = {}
      /\ seen = [m \in Miners |-> None] /\ unsure = {} /\ deleted = {}
      /\ request = [r \in Requests |-> NoRequest]
  BY DEF Init
<1>2. QueueInv(events, session)
  <2>1. <<>> \in Seq(Event) /\ Len(<<>>) = 0 /\ 0 <= MaxQueued /\ 1..0 = {}
    BY MinerListAssumption
  <2>2. session \in Stats
    BY <1>1 DEF Stats, SessionState
  <2> QED
    BY <1>1, <2>1, <2>2 DEF QueueInv
<1>3. TableInv(known, events, session)
  <2>1. known \in Table
    BY <1>1 DEF Table
  <2>2. \A m \in Miners : known[m] # TRUE
    BY <1>1, MinerListAssumption
  <2> QED
    BY <2>1, <2>2 DEF TableInv
<1>4. SeenInv(seen, monitored, session) /\ RowsAreTrue(seen, session, unsure)
  BY <1>1 DEF SeenInv, RowsAreTrue, Seen
<1>5. /\ request \in [Requests -> RequestState]
      /\ \A r \in Requests :
           RequestInv(request[r], seen, monitored, session, known, events)
  BY <1>1, NoRequestIsFine
<1> QED
  BY <1>1, <1>2, <1>3, <1>4, <1>5 DEF IInv

LEMMA StepKeeps == IInv /\ [Next]_vars => IInv'
<1> SUFFICES ASSUME IInv, [Next]_vars PROVE IInv'
  OBVIOUS
<1>1. CASE Registry
  BY <1>1, RegistryKeeps
<1>2. CASE RefreshMonitoring
  BY <1>2, RefreshMonitoringKeeps
<1>3. CASE Restart
  BY <1>3, RestartKeeps
<1>4. ASSUME NEW r \in Requests, FetchClients(r) PROVE IInv'
  BY <1>4, FetchClientsKeeps
<1>5. ASSUME NEW r \in Requests, FetchChannels(r) PROVE IInv'
  BY <1>5, FetchChannelsKeeps
<1>6. ASSUME NEW r \in Requests, MergeSeenMiners(r) PROVE IInv'
  BY <1>6, MergeSeenMinersKeeps
<1>7. ASSUME NEW r \in Requests, TakeSnapshots(r) PROVE IInv'
  BY <1>7, TakeSnapshotsKeeps
<1>8. ASSUME NEW r \in Requests, Answer(r) PROVE IInv'
  BY <1>8, AnswerKeeps
<1>9. CASE UNCHANGED vars
  BY <1>9 DEF vars, registryVars, seenVars, IInv
<1> QED
  BY <1>1, <1>2, <1>3, <1>4, <1>5, <1>6, <1>7, <1>8, <1>9 DEF Next

LEMMA Inductive == Spec => []IInv
BY InitHolds, StepKeeps, PTL DEF Spec

\* All that the list is made of has its type (ui.rs, fetch_current_miners).
THEOREM SpecTypeOK == Spec => []TypeOK
BY Inductive, TypesHold, PTL

\* A miner with a session that was open during all of a request is shown
\* as connected, but for the two ways in which fetch_connected_miners may
\* overlook it, an answer that overtook this one and pages that had no room
\* for the session: whatever monitoring's cache and the table lag behind,
\* whichever calls fail, however many requests run at once.
THEOREM SpecMiningIsConnected == Spec => []MiningIsConnected
BY Inductive, MiningIsConnectedHolds, PTL

\* fetch_miner_workers calls a miner connected only for a session that was
\* open at some time of the request, or for a monitoring row.
THEOREM SpecConnectedIsRecent == Spec => []ConnectedIsRecent
BY Inductive, ConnectedIsRecentHolds, PTL

\* A miner that registry or table had at all times of a request, and that
\* was not deleted, is in the list when the table can be read.
THEOREM SpecKnownMinersStay == Spec => []KnownMinersStay
BY Inductive, KnownMinersStayHolds, PTL
=============================================================================
