----------------------- MODULE TemplateProviderProofs -----------------------
(***************************************************************************)
(* The template provider keeps the promise of TemplateStream, forgets      *)
(* superseded templates in time and announces a tip in time, for every     *)
(* choice of tips, timers and bounds.                                      *)
(*                                                                         *)
(* The first inductive invariant says, at each stage of the monitor, how   *)
(* many of the fetched templates have been announced, and whether a        *)
(* SetNewPrevHash is owed.  A monitor that has ended sends nothing more,   *)
(* so nothing is said of it.  Clocks, cache and connections play no part.  *)
(*                                                                         *)
(* The cache's invariant ties the three places that name a template which  *)
(* is to be forgotten: the ids collected before a tip is published, the    *)
(* task that sleeps over them, and the age that the template has reached.  *)
(* The clock's invariant says at each stage which timer bounds the wait.   *)
(***************************************************************************)
EXTENDS TemplateProvider, FiniteSetTheorems, SequenceTheorems, WellFoundedInduction, TLAPS

\* The messages of out that announce templates, and Announced and Owed for it.
Announcements(out) == {i \in DOMAIN out : out[i].type = "NewTemplate"}
AnnouncedIn(out) == Cardinality(Announcements(out))
OwedBy(m) == IF m.type = "NewTemplate" /\ m.future THEN m.template ELSE None

\* A fetched template is not announced yet; a tip is half announced.
Pending == {"bootstrapping", "fetched", "sleeping"}
HalfAnnounced == {"bootstrapped", "announced"}
Resting == {"boot", "start", "gate", "check", "register", "idle", "throttled", "waiting"}

PromiseInv ==
  /\ coreTip \in Tip
  /\ fetched \in Seq(Tip) /\ Len(fetched) <= MaxTemplate
  /\ outgoing \in Seq(Stream!Message)
  /\ stage \in Pending \cup HalfAnnounced \cup Resting \cup {"done"}
  /\ stage = "boot" => Len(fetched) = 0
  /\ stage \notin {"boot", "done"} => Len(fetched) >= 1
  /\ stage \in {"fetched", "sleeping"} => Len(fetched) >= 2
  /\ stage \in Pending => Announced = Len(fetched) - 1 /\ Owed = None
  /\ stage \in HalfAnnounced => Announced = Len(fetched) /\ Owed = Newest
  /\ stage \in Resting => Announced = Len(fetched) /\ Owed = None

-----------------------------------------------------------------------------
\* Sending one message: it becomes the last one, and counts if it announces.
LEMMA CountAppend ==
  ASSUME NEW S, NEW out \in Seq(S), NEW m \in S
  PROVE  /\ Append(out, m) \in Seq(S)
         /\ Append(out, m) # <<>>
         /\ Append(out, m)[Len(Append(out, m))] = m
         /\ AnnouncedIn(out) \in Nat
         /\ AnnouncedIn(Append(out, m)) =
              IF m.type = "NewTemplate" THEN AnnouncedIn(out) + 1 ELSE AnnouncedIn(out)
<1> DEFINE new == Append(out, m)
           n == Len(out) + 1
<1>1. /\ new \in Seq(S) /\ Len(new) = n /\ new[n] = m
      /\ \A i \in 1..Len(out) : new[i] = out[i]
  BY AppendProperties
<1>2. Len(out) \in Nat /\ DOMAIN out = 1..Len(out) /\ DOMAIN new = 1..n
  BY <1>1, LenProperties
<1>3. IsFiniteSet(Announcements(out))
  <2>1. IsFiniteSet(1..Len(out))
    BY <1>2, FS_Interval
  <2>2. Announcements(out) \in SUBSET (1..Len(out))
    BY <1>2 DEF Announcements
  <2>3. QED
    BY <2>1, <2>2, FS_Subset
<1> HIDE DEF new
<1>4. Announcements(new) = IF m.type = "NewTemplate" THEN Announcements(out) \cup {n}
                                                     ELSE Announcements(out)
  BY <1>1, <1>2 DEF Announcements
<1>5. n \notin Announcements(out)
  BY <1>2 DEF Announcements
<1>6. AnnouncedIn(out) \in Nat
  BY <1>3, FS_CardinalityType DEF AnnouncedIn
<1>7. AnnouncedIn(new) = IF m.type = "NewTemplate" THEN AnnouncedIn(out) + 1
                                                   ELSE AnnouncedIn(out)
  BY <1>3, <1>4, <1>5, FS_AddElement DEF AnnouncedIn
<1>8. new # <<>> /\ new[Len(new)] = m
  <2>1. Len(<<>>) = 0 /\ n # 0
    BY <1>2
  <2>2. QED
    BY <2>1, <1>1
<1>9. QED
  BY <1>1, <1>6, <1>7, <1>8 DEF new

\* The same for the promise's variables.
LEMMA Sending ==
  ASSUME NEW m \in Stream!Message, outgoing \in Seq(Stream!Message),
         outgoing' = Append(outgoing, m)
  PROVE  /\ outgoing' \in Seq(Stream!Message)
         /\ Announced \in Nat
         /\ Announced' = IF m.type = "NewTemplate" THEN Announced + 1 ELSE Announced
         /\ Owed' = OwedBy(m)
<1>1. /\ outgoing' \in Seq(Stream!Message) /\ outgoing' # <<>>
      /\ outgoing'[Len(outgoing')] = m
      /\ AnnouncedIn(outgoing) \in Nat
      /\ AnnouncedIn(outgoing') =
           IF m.type = "NewTemplate" THEN AnnouncedIn(outgoing) + 1 ELSE AnnouncedIn(outgoing)
  BY CountAppend
<1>2. Announced = AnnouncedIn(outgoing) /\ Announced' = AnnouncedIn(outgoing')
  BY DEF Announced, AnnouncedIn, Announcements
<1>3. Owed' = OwedBy(m)
  BY <1>1 DEF Owed, OwedBy
<1>4. QED
  BY <1>1, <1>2, <1>3

\* Without sending, the promise stutters.
LEMMA NotSending ==
  ASSUME outgoing' = outgoing
  PROVE  Announced' = Announced /\ Owed' = Owed /\ UNCHANGED Stream!streamVars
BY DEF Announced, Owed, Stream!streamVars

\* The first template id of the channel, and of every send, is the newest one.
LEMMA NewestIsTemplate ==
  ASSUME PromiseInv, stage \notin {"boot", "done"}
  PROVE  /\ Newest \in Stream!Template /\ Newest \in Nat /\ Len(fetched) \in Nat
         /\ \A future \in BOOLEAN : Stream!NewTemplate(Newest, future) \in Stream!Message
         /\ Stream!SetNewPrevHash(Newest) \in Stream!Message
<1>1. Len(fetched) \in Nat /\ Len(fetched) >= 1 /\ Len(fetched) <= MaxTemplate
  BY LenProperties DEF PromiseInv
<1>2. Newest \in Stream!Template /\ Newest \in Nat
  BY <1>1, ProviderAssumption DEF Newest, Stream!Template
<1>3. QED
  BY <1>1, <1>2 DEF Stream!Message, Stream!NewTemplate, Stream!SetNewPrevHash

-----------------------------------------------------------------------------
LEMMA InitPromise == Init => PromiseInv /\ Stream!Init
<1> SUFFICES ASSUME Init PROVE PromiseInv /\ Stream!Init
  OBVIOUS
<1>1. AnnouncedIn(outgoing) = 0
  BY FS_EmptySet DEF Init, AnnouncedIn, Announcements
<1>2. Announced = 0 /\ Owed = None
  BY <1>1 DEF Announced, AnnouncedIn, Announcements, Owed, Init
<1>3. QED
  BY <1>2, ProviderAssumption
  DEF Init, PromiseInv, Stream!Init, Pending, HalfAnnounced, Resting

\* The steps that send: NewTemplate of a tip, its SetNewPrevHash, a refresh.
LEMMA FutureTemplateStep ==
  ASSUME PromiseInv, stage \in {"bootstrapping", "fetched"},
         SendFutureTemplate, stage' \in HalfAnnounced
  PROVE  PromiseInv' /\ Stream!SendNewTemplate(TRUE)
<1> DEFINE m == Stream!NewTemplate(Newest, TRUE)
<1>1. /\ Newest \in Nat /\ Newest \in Stream!Template /\ Len(fetched) \in Nat
      /\ m \in Stream!Message
  BY NewestIsTemplate
<1>2. outgoing' = Append(outgoing, m) /\ fetched' = fetched /\ coreTip' = coreTip
  BY DEF SendFutureTemplate, core
<1>3. m.type = "NewTemplate" /\ m.future = TRUE /\ m.template = Newest
  BY DEF Stream!NewTemplate
<1>4. /\ Announced = Newest /\ Owed = None /\ outgoing \in Seq(Stream!Message)
      /\ Len(fetched) <= MaxTemplate
  BY DEF PromiseInv, Pending, Newest
<1> HIDE DEF m
<1>5. /\ outgoing' \in Seq(Stream!Message)
      /\ Announced' = Announced + 1 /\ Owed' = Newest
  BY <1>1, <1>2, <1>3, <1>4, Sending DEF OwedBy
<1>6. Announced' = Len(fetched) /\ Newest' = Newest /\ Announced < MaxTemplate
  BY <1>1, <1>2, <1>4, <1>5, ProviderAssumption DEF Newest
<1>7. PromiseInv'
  BY <1>2, <1>5, <1>6 DEF PromiseInv, Pending, HalfAnnounced, Resting
<1>8. Stream!SendNewTemplate(TRUE)
  BY <1>2, <1>4, <1>5, <1>6 DEF Stream!SendNewTemplate, m
<1>9. QED
  BY <1>7, <1>8

LEMMA PrevHashStep ==
  ASSUME PromiseInv, stage \in HalfAnnounced, SendPrevHash, stage' \in {"start", "gate"}
  PROVE  PromiseInv' /\ Stream!SendSetNewPrevHash
<1> DEFINE m == Stream!SetNewPrevHash(Newest)
<1>1. Newest \in Nat /\ Len(fetched) \in Nat /\ m \in Stream!Message
  BY NewestIsTemplate DEF HalfAnnounced
<1>2. outgoing' = Append(outgoing, m) /\ fetched' = fetched /\ coreTip' = coreTip
  BY DEF SendPrevHash, core
<1>3. m.type = "SetNewPrevHash"
  BY DEF Stream!SetNewPrevHash
<1>4. Announced = Len(fetched) /\ Owed = Newest /\ outgoing \in Seq(Stream!Message)
  BY DEF PromiseInv
<1> HIDE DEF m
<1>5. outgoing' \in Seq(Stream!Message) /\ Announced' = Announced /\ Owed' = None
  BY <1>1, <1>2, <1>3, <1>4, Sending DEF OwedBy
<1>6. PromiseInv'
  BY <1>2, <1>4, <1>5 DEF PromiseInv, Pending, HalfAnnounced, Resting
<1>7. Owed # None
  BY <1>1, <1>4, ProviderAssumption
<1>8. Stream!SendSetNewPrevHash
  BY <1>2, <1>4, <1>5, <1>7 DEF Stream!SendSetNewPrevHash, m
<1>9. QED
  BY <1>6, <1>8

LEMMA RefreshStep ==
  ASSUME PromiseInv, PublishRefresh
  PROVE  PromiseInv' /\ Stream!SendNewTemplate(FALSE)
<1> DEFINE m == Stream!NewTemplate(Newest, FALSE)
<1>1. stage \in {"fetched", "sleeping"} /\ stage' = "gate"
  BY DEF PublishRefresh
<1>2. /\ Newest \in Nat /\ Len(fetched) \in Nat /\ m \in Stream!Message
  BY <1>1, NewestIsTemplate
<1>3. outgoing' = Append(outgoing, m) /\ fetched' = fetched /\ coreTip' = coreTip
  BY DEF PublishRefresh, SendRefresh, core
<1>4. m.type = "NewTemplate" /\ m.future = FALSE
  BY DEF Stream!NewTemplate
<1>5. /\ Announced = Newest /\ Owed = None /\ outgoing \in Seq(Stream!Message)
      /\ Len(fetched) <= MaxTemplate /\ Len(fetched) >= 2
  BY <1>1 DEF PromiseInv, Pending, Newest
<1> HIDE DEF m
<1>6. /\ outgoing' \in Seq(Stream!Message)
      /\ Announced' = Announced + 1 /\ Owed' = None
  BY <1>2, <1>3, <1>4, <1>5, Sending DEF OwedBy
<1>7. Announced' = Len(fetched) /\ Announced < MaxTemplate /\ Announced # 0
  BY <1>2, <1>5, <1>6, ProviderAssumption DEF Newest
<1>8. PromiseInv'
  BY <1>1, <1>3, <1>5, <1>6, <1>7 DEF PromiseInv, Pending, HalfAnnounced, Resting
<1>9. Stream!SendNewTemplate(FALSE)
  BY <1>3, <1>5, <1>6, <1>7 DEF Stream!SendNewTemplate, m
<1>10. QED
  BY <1>8, <1>9

\* Fetching a template, which is then pending.
LEMMA FetchStep ==
  ASSUME PromiseInv, NEW from \in {"boot", "waiting"}, NEW to, Fetch(from, to),
         to = IF from = "boot" THEN "bootstrapping" ELSE "fetched"
  PROVE  PromiseInv'
<1>1. /\ stage = from /\ stage' = to /\ Len(fetched) < MaxTemplate
      /\ fetched' = Append(fetched, coreTip)
      /\ outgoing' = outgoing /\ coreTip' = coreTip
  BY DEF Fetch, core
<1>2. /\ fetched \in Seq(Tip) /\ coreTip \in Tip
      /\ Announced = Len(fetched) /\ Owed = None
      /\ from = "waiting" => Len(fetched) >= 1
  BY <1>1 DEF PromiseInv, Resting
<1>3. fetched' \in Seq(Tip) /\ Len(fetched') = Len(fetched) + 1 /\ Len(fetched) \in Nat
  BY <1>1, <1>2, AppendProperties, LenProperties
<1>4. Announced' = Len(fetched') - 1 /\ Owed' = None /\ Len(fetched') <= MaxTemplate
  BY <1>1, <1>2, <1>3, NotSending, ProviderAssumption
<1>5. stage' \in {"bootstrapping", "fetched"} /\ Len(fetched') >= 1
  BY <1>1, <1>3
<1>6. stage' = "fetched" => Len(fetched') >= 2
  BY <1>1, <1>2, <1>3
<1>7. QED
  BY <1>1, <1>2, <1>3, <1>4, <1>5, <1>6 DEF PromiseInv, Pending, HalfAnnounced, Resting

\* Every other step leaves messages and templates alone and stays among the
\* stages of its kind, or ends the monitor.
LEMMA OtherStep ==
  ASSUME PromiseInv, outgoing' = outgoing, fetched' = fetched, coreTip' \in Tip,
         \/ stage' = stage
         \/ stage \in Resting \ {"boot"} /\ stage' \in Resting \ {"boot"}
         \/ stage = "fetched" /\ stage' = "sleeping"
         \/ stage' = "done"
  PROVE  PromiseInv'
<1>1. Announced' = Announced /\ Owed' = Owed /\ Newest' = Newest
  BY NotSending DEF Newest
<1>2. CASE stage' = stage
  BY <1>1, <1>2 DEF PromiseInv
<1>3. CASE stage \in Resting \ {"boot"} /\ stage' \in Resting \ {"boot"}
  BY <1>1, <1>3 DEF PromiseInv, Pending, HalfAnnounced, Resting
<1>4. CASE stage = "fetched" /\ stage' = "sleeping"
  BY <1>1, <1>4 DEF PromiseInv, Pending, HalfAnnounced, Resting
<1>5. CASE stage' = "done"
  BY <1>1, <1>5 DEF PromiseInv, Pending, HalfAnnounced, Resting
<1>6. QED
  BY <1>2, <1>3, <1>4, <1>5

-----------------------------------------------------------------------------
\* A step of the provider is a step of the stream or a stutter.
LEMMA StepPromise ==
  PromiseInv /\ [Next]_vars => PromiseInv' /\ [Stream!Next]_Stream!streamVars
<1> SUFFICES ASSUME PromiseInv, [Next]_vars
             PROVE  PromiseInv' /\ [Stream!Next]_Stream!streamVars
  OBVIOUS
<1> USE DEF Resting
<1>1. CASE Surroundings
  <2>1. outgoing' = outgoing /\ fetched' = fetched /\ stage' = stage /\ coreTip' \in Tip
    BY <1>1 DEF Surroundings, NewTip, Connect, NotifyWaiters, Disconnect, Cancel,
                core, monitor, PromiseInv
  <2>2. QED
    BY <2>1, OtherStep, NotSending
<1>2. CASE CreateNewBlock \/ WaitNextReturns
  <2>1. PromiseInv'
    BY <1>2, FetchStep DEF CreateNewBlock, WaitNextReturns
  <2>2. outgoing' = outgoing
    BY <1>2 DEF CreateNewBlock, WaitNextReturns, Fetch
  <2>3. QED
    BY <2>1, <2>2, NotSending
<1>3. CASE BootstrapTemplate \/ PublishTip
  <2>1. PromiseInv' /\ Stream!SendNewTemplate(TRUE)
    BY <1>3, FutureTemplateStep DEF BootstrapTemplate, PublishTip, HalfAnnounced
  <2>2. QED
    BY <2>1 DEF Stream!Next
<1>4. CASE BootstrapPrevHash \/ PublishTipPrevHash
  <2>1. PromiseInv' /\ Stream!SendSetNewPrevHash
    BY <1>4, PrevHashStep DEF BootstrapPrevHash, PublishTipPrevHash, HalfAnnounced
  <2>2. QED
    BY <2>1 DEF Stream!Next
<1>5. CASE PublishRefresh
  BY <1>5, RefreshStep DEF Stream!Next
<1>6. CASE \/ StartMonitor \/ EnterIdle \/ FoundInactive \/ Register \/ WakeUp \/ FoundActive
           \/ Throttle \/ EndThrottle \/ RequestWaitNext \/ WaitNextTimesOut
  <2>1. /\ outgoing' = outgoing /\ fetched' = fetched /\ coreTip' = coreTip
        /\ stage \in Resting \ {"boot"} /\ stage' \in Resting \ {"boot"}
    BY <1>6 DEF StartMonitor, EnterIdle, FoundInactive, Register, WakeUp, FoundActive,
                Throttle, EndThrottle, RequestWaitNext, WaitNextTimesOut, Move, core
  <2>2. QED
    BY <2>1, OtherStep, NotSending DEF PromiseInv
<1>7. CASE SleepBeforeRefresh
  <2>1. /\ outgoing' = outgoing /\ fetched' = fetched /\ coreTip' = coreTip
        /\ stage = "fetched" /\ stage' = "sleeping"
    BY <1>7 DEF SleepBeforeRefresh, Move, core
  <2>2. QED
    BY <2>1, OtherStep, NotSending DEF PromiseInv
<1>8. CASE Exit \/ Fails
  <2>1. /\ outgoing' = outgoing /\ fetched' = fetched /\ coreTip' = coreTip
        /\ stage' = "done"
    BY <1>8 DEF Exit, Fails, Move, core
  <2>2. QED
    BY <2>1, OtherStep, NotSending DEF PromiseInv
<1>9. CASE (\E task \in staleTasks : MarkStale(task)) \/ Tick
  <2>1. outgoing' = outgoing /\ fetched' = fetched /\ coreTip' = coreTip /\ stage' = stage
    BY <1>9 DEF MarkStale, Tick, core, monitor
  <2>2. QED
    BY <2>1, OtherStep, NotSending DEF PromiseInv
<1>10. CASE UNCHANGED vars
  <2>1. outgoing' = outgoing /\ fetched' = fetched /\ coreTip' = coreTip /\ stage' = stage
    BY <1>10 DEF vars, core, monitor
  <2>2. QED
    BY <2>1, OtherStep, NotSending DEF PromiseInv
<1>11. QED
  BY <1>1, <1>2, <1>3, <1>4, <1>5, <1>6, <1>7, <1>8, <1>9, <1>10
  DEF Next, Bootstrap, Monitor

\* The messages the pool receives follow the promise of TemplateStream: a new tip
\* is a future NewTemplate and the SetNewPrevHash that names it, with nothing in
\* between, template ids count up, and the first message announces a tip.
THEOREM ProviderKeepsPromise == Spec => KeepsPromise
<1>1. Init => PromiseInv /\ Stream!Init
  BY InitPromise
<1>2. PromiseInv /\ [Next]_vars => PromiseInv' /\ [Stream!Next]_Stream!streamVars
  BY StepPromise
<1>3. QED
  BY <1>1, <1>2, PTL DEF Spec, KeepsPromise, Stream!Spec

-----------------------------------------------------------------------------
(***************************************************************************)
(* Refreshes build on the tip that was told last.  The invariant relates   *)
(* the last SetNewPrevHash among the messages to currentPrevHash, which    *)
(* the monitor compares a fetched template with, and remembers the result  *)
(* of that comparison over the sleep that may follow it.                   *)
(***************************************************************************)
IsPrevHash(m) == m.type = "SetNewPrevHash"
IsRefresh(m) == m.type = "NewTemplate" /\ ~ m.future

\* j is the last SetNewPrevHash among the first n messages of out.
LastPrevHash(out, j, n) ==
  IsPrevHash(out[j]) /\ \A k \in (j + 1)..n : ~ IsPrevHash(out[k])

\* f is what fetched is; the tip of message m.
TipIn(f, m) == f[m.template + 1]

Refreshing(out, f) ==
  \A i \in DOMAIN out : \A j \in 1..(i - 1) :
    IsRefresh(out[i]) /\ LastPrevHash(out, j, i - 1) => TipIn(f, out[i]) = TipIn(f, out[j])

Told(out, f, tip) ==
  \A j \in DOMAIN out : LastPrevHash(out, j, Len(out)) => TipIn(f, out[j]) = tip

Fetched(out, f) == \A i \in DOMAIN out : out[i].template \in 0..(Len(f) - 1)

TipInv ==
  /\ PromiseInv
  /\ Fetched(outgoing, fetched)
  /\ Refreshing(outgoing, fetched)
  /\ stage \notin HalfAnnounced \cup {"done"} => Told(outgoing, fetched, currentPrevHash)
  /\ stage \in HalfAnnounced \cup {"sleeping"} => TipOf(Newest) = currentPrevHash

-----------------------------------------------------------------------------
\* One more message, of a fetched template, which matches if it is a refresh.
LEMMA TellAppend ==
  ASSUME NEW S, NEW out \in Seq(S), NEW m \in S, NEW f, NEW tip,
         Fetched(out, f), Refreshing(out, f), m.template \in 0..(Len(f) - 1),
         IsRefresh(m) => \A j \in DOMAIN out :
                           LastPrevHash(out, j, Len(out)) => TipIn(f, m) = TipIn(f, out[j])
  PROVE  /\ Fetched(Append(out, m), f)
         /\ Refreshing(Append(out, m), f)
         /\ IsPrevHash(m) /\ TipIn(f, m) = tip => Told(Append(out, m), f, tip)
         /\ ~ IsPrevHash(m) /\ Told(out, f, tip) => Told(Append(out, m), f, tip)
<1> DEFINE new == Append(out, m)
           n == Len(out)
<1>1. /\ Len(new) = n + 1 /\ new[n + 1] = m
      /\ \A i \in 1..n : new[i] = out[i]
      /\ n \in Nat /\ DOMAIN out = 1..n /\ DOMAIN new = 1..(n + 1)
  BY AppendProperties, LenProperties
<1> HIDE DEF new, n
<1>2. Fetched(new, f)
  BY <1>1 DEF Fetched
<1>3. ASSUME NEW l \in 0..n, NEW j \in 1..l
      PROVE  LastPrevHash(new, j, l) <=> LastPrevHash(out, j, l)
  <2>1. j \in 1..n /\ \A k \in (j + 1)..l : k \in 1..n
    BY <1>1
  <2>2. QED
    BY <1>1, <2>1 DEF LastPrevHash
<1>4. Refreshing(new, f)
  <2> SUFFICES ASSUME NEW i \in 1..(n + 1), NEW j \in 1..(i - 1),
                      IsRefresh(new[i]), LastPrevHash(new, j, i - 1)
               PROVE  TipIn(f, new[i]) = TipIn(f, new[j])
    BY <1>1 DEF Refreshing
  <2>1. i - 1 \in 0..n /\ j \in 1..n
    BY <1>1
  <2>2. LastPrevHash(out, j, i - 1) /\ new[j] = out[j]
    BY <1>1, <1>3, <2>1
  <2>3. CASE i = n + 1
    <3>1. i - 1 = n
      BY <2>3, <1>1
    <3>2. QED
      BY <1>1, <2>1, <2>2, <2>3, <3>1 DEF n
  <2>4. CASE i # n + 1
    <3>1. i \in 1..n
      BY <2>4, <1>1
    <3>2. QED
      BY <1>1, <2>2, <3>1 DEF Refreshing
  <2>5. QED
    BY <2>3, <2>4
<1>5. ASSUME IsPrevHash(m), TipIn(f, m) = tip
      PROVE  Told(new, f, tip)
  <2>1. \A j \in 1..n : n + 1 \in (j + 1)..(n + 1)
    BY <1>1
  <2>2. \A j \in 1..(n + 1) : LastPrevHash(new, j, n + 1) => j = n + 1
    BY <1>1, <1>5, <2>1 DEF LastPrevHash
  <2>3. QED
    BY <1>1, <1>5, <2>2 DEF Told
<1>6. ASSUME ~ IsPrevHash(m), Told(out, f, tip)
      PROVE  Told(new, f, tip)
  <2> SUFFICES ASSUME NEW j \in 1..(n + 1), LastPrevHash(new, j, n + 1)
               PROVE  TipIn(f, new[j]) = tip
    BY <1>1 DEF Told
  <2>1. j \in 1..n
    BY <1>1, <1>6 DEF LastPrevHash
  <2>2. LastPrevHash(new, j, n)
    BY <1>1, <2>1 DEF LastPrevHash
  <2>3. LastPrevHash(out, j, Len(out))
    BY <1>1, <1>3, <2>1, <2>2 DEF n
  <2>4. QED
    BY <1>1, <1>6, <2>1, <2>3 DEF Told
<1>7. QED
  BY <1>2, <1>4, <1>5, <1>6 DEF new

\* Fetching one more template changes the tip of no message.
LEMMA TellFetch ==
  ASSUME NEW out, NEW f \in Seq(Tip), NEW t \in Tip, NEW tip,
         DOMAIN out = 1..Len(out), Len(out) \in Nat,
         Fetched(out, f), Refreshing(out, f), Told(out, f, tip)
  PROVE  /\ Fetched(out, Append(f, t))
         /\ Refreshing(out, Append(f, t))
         /\ Told(out, Append(f, t), tip)
<1> DEFINE g == Append(f, t)
<1>1. /\ Len(g) = Len(f) + 1 /\ Len(f) \in Nat
      /\ \A i \in 1..Len(f) : g[i] = f[i]
  BY AppendProperties, LenProperties
<1> HIDE DEF g
<1>2. \A i \in DOMAIN out : out[i].template + 1 \in 1..Len(f) /\ out[i].template \in 0..(Len(g) - 1)
  BY <1>1 DEF Fetched
<1>3. \A i \in DOMAIN out : TipIn(g, out[i]) = TipIn(f, out[i])
  BY <1>1, <1>2 DEF TipIn
<1>4. Refreshing(out, g)
  <2>1. \A i \in DOMAIN out : \A j \in 1..(i - 1) : j \in DOMAIN out
    OBVIOUS
  <2>2. QED
    BY <1>3, <2>1 DEF Refreshing
<1>5. QED
  BY <1>2, <1>3, <1>4 DEF Fetched, Told, g

-----------------------------------------------------------------------------
LEMMA StepTip == TipInv /\ [Next]_vars => TipInv'
<1> SUFFICES ASSUME TipInv, [Next]_vars
             PROVE  TipInv'
  OBVIOUS
<1>1. PromiseInv /\ PromiseInv'
  BY StepPromise DEF TipInv
<1>2. /\ outgoing \in Seq(Stream!Message) /\ fetched \in Seq(Tip) /\ coreTip \in Tip
      /\ Len(outgoing) \in Nat /\ DOMAIN outgoing = 1..Len(outgoing)
      /\ Fetched(outgoing, fetched) /\ Refreshing(outgoing, fetched)
  BY <1>1, LenProperties DEF TipInv, PromiseInv
<1>3. stage \notin {"boot", "done"} =>
        /\ Newest \in 0..(Len(fetched) - 1)
        /\ \A future \in BOOLEAN : Stream!NewTemplate(Newest, future) \in Stream!Message
        /\ Stream!SetNewPrevHash(Newest) \in Stream!Message
  <2>1. ASSUME stage \notin {"boot", "done"} PROVE Newest \in 0..(Len(fetched) - 1)
    BY <1>1, <2>1, NewestIsTemplate DEF Newest
  <2>2. QED
    BY <1>1, <2>1, NewestIsTemplate
<1>4. CASE BootstrapTemplate \/ PublishTip
  <2> DEFINE m == Stream!NewTemplate(Newest, TRUE)
  <2>1. /\ stage \notin {"boot", "done"} /\ stage' \in HalfAnnounced
        /\ outgoing' = Append(outgoing, m) /\ fetched' = fetched
        /\ currentPrevHash' = TipOf(Newest)
    BY <1>4 DEF BootstrapTemplate, PublishTip, SendFutureTemplate, HalfAnnounced
  <2>2. m \in Stream!Message /\ m.template = Newest /\ ~ IsRefresh(m)
    BY <1>3, <2>1 DEF Stream!NewTemplate, IsRefresh
  <2> HIDE DEF m
  <2>3. Fetched(outgoing', fetched') /\ Refreshing(outgoing', fetched')
    BY <1>2, <1>3, <2>1, <2>2, TellAppend
  <2>4. TipOf(Newest)' = currentPrevHash'
    BY <2>1 DEF TipOf, Newest
  <2>5. QED
    BY <1>1, <2>1, <2>3, <2>4 DEF TipInv, HalfAnnounced
<1>5. CASE BootstrapPrevHash \/ PublishTipPrevHash
  <2> DEFINE m == Stream!SetNewPrevHash(Newest)
  <2>1. /\ stage \in HalfAnnounced /\ stage' \in {"start", "gate"}
        /\ outgoing' = Append(outgoing, m) /\ fetched' = fetched
        /\ currentPrevHash' = currentPrevHash
    BY <1>5 DEF BootstrapPrevHash, PublishTipPrevHash, SendPrevHash, HalfAnnounced
  <2>2. /\ m \in Stream!Message /\ m.template = Newest
        /\ ~ IsRefresh(m) /\ IsPrevHash(m)
    BY <1>3, <2>1 DEF Stream!SetNewPrevHash, IsRefresh, IsPrevHash, HalfAnnounced
  <2>3. TipIn(fetched, m) = currentPrevHash
    BY <2>1, <2>2 DEF TipInv, TipIn, TipOf
  <2> HIDE DEF m
  <2>4. /\ Fetched(outgoing', fetched') /\ Refreshing(outgoing', fetched')
        /\ Told(outgoing', fetched', currentPrevHash')
    <3>1. Newest \in 0..(Len(fetched) - 1)
      BY <1>3, <2>1 DEF HalfAnnounced
    <3>2. QED
      BY <1>2, <2>1, <2>2, <2>3, <3>1, TellAppend
  <2>5. QED
    BY <1>1, <2>1, <2>4 DEF TipInv, HalfAnnounced
<1>6. CASE PublishRefresh
  <2> DEFINE m == Stream!NewTemplate(Newest, FALSE)
  <2>1. /\ stage \in {"fetched", "sleeping"} /\ stage' = "gate"
        /\ outgoing' = Append(outgoing, m) /\ fetched' = fetched
        /\ currentPrevHash' = currentPrevHash
    BY <1>6 DEF PublishRefresh, SendRefresh
  <2>2. m \in Stream!Message /\ m.template = Newest /\ ~ IsPrevHash(m)
    BY <1>3, <2>1 DEF Stream!NewTemplate, IsPrevHash
  <2>3. TipIn(fetched, m) = currentPrevHash
    <3>1. TipOf(Newest) = currentPrevHash
      BY <1>6 DEF PublishRefresh, TipChanged, TipInv
    <3>2. QED
      BY <2>2, <3>1 DEF TipIn, TipOf
  <2>4. Told(outgoing, fetched, currentPrevHash)
    BY <2>1 DEF TipInv, HalfAnnounced
  <2> HIDE DEF m
  <2>5. /\ Fetched(outgoing', fetched') /\ Refreshing(outgoing', fetched')
        /\ Told(outgoing', fetched', currentPrevHash')
    <3>1. \A j \in DOMAIN outgoing : LastPrevHash(outgoing, j, Len(outgoing))
             => TipIn(fetched, m) = TipIn(fetched, outgoing[j])
      BY <2>3, <2>4 DEF Told
    <3>2. QED
      BY <1>2, <1>3, <2>1, <2>2, <2>4, <3>1, TellAppend
  <2>6. QED
    BY <1>1, <2>1, <2>5 DEF TipInv, HalfAnnounced
<1>7. CASE CreateNewBlock \/ WaitNextReturns
  <2>1. /\ stage \in {"boot", "waiting"} /\ stage' \in {"bootstrapping", "fetched"}
        /\ fetched' = Append(fetched, coreTip)
        /\ outgoing' = outgoing /\ currentPrevHash' = currentPrevHash
    BY <1>7 DEF CreateNewBlock, WaitNextReturns, Fetch
  <2>2. Told(outgoing, fetched, currentPrevHash)
    BY <2>1 DEF TipInv, HalfAnnounced
  <2>3. /\ Fetched(outgoing', fetched') /\ Refreshing(outgoing', fetched')
        /\ Told(outgoing', fetched', currentPrevHash')
    BY <1>2, <2>1, <2>2, TellFetch
  <2>4. QED
    BY <1>1, <2>1, <2>3 DEF TipInv, HalfAnnounced
<1>8. ASSUME outgoing' = outgoing, fetched' = fetched, currentPrevHash' = currentPrevHash,
             \/ stage' = stage \/ stage' = "done"
             \/ stage \notin HalfAnnounced \cup {"done"} /\ stage' \in Resting
             \/ stage' = "sleeping" /\ stage = "fetched" /\ ~ TipChanged
      PROVE  TipInv'
  <2>1. /\ Fetched(outgoing', fetched') /\ Refreshing(outgoing', fetched')
        /\ TipOf(Newest)' = TipOf(Newest)
    BY <1>2, <1>8 DEF TipOf, Newest
  <2>2. stage' \notin HalfAnnounced \cup {"done"} => Told(outgoing', fetched', currentPrevHash')
    BY <1>8 DEF TipInv, HalfAnnounced
  <2>3. stage' \in HalfAnnounced \cup {"sleeping"} => TipOf(Newest)' = currentPrevHash'
    BY <1>8, <2>1 DEF TipInv, HalfAnnounced, Resting, TipChanged
  <2>4. QED
    BY <1>1, <2>1, <2>2, <2>3 DEF TipInv
<1>9. CASE Surroundings \/ (\E task \in staleTasks : MarkStale(task)) \/ Tick \/ UNCHANGED vars
  <2>1. /\ outgoing' = outgoing /\ fetched' = fetched /\ currentPrevHash' = currentPrevHash
        /\ stage' = stage
    BY <1>9 DEF Surroundings, NewTip, Connect, NotifyWaiters, Disconnect, Cancel,
                MarkStale, Tick, vars, monitor
  <2>2. QED
    BY <1>8, <2>1
<1>10. CASE \/ StartMonitor \/ EnterIdle \/ FoundInactive \/ Register \/ WakeUp \/ FoundActive
            \/ Throttle \/ EndThrottle \/ RequestWaitNext \/ WaitNextTimesOut
  <2>1. /\ outgoing' = outgoing /\ fetched' = fetched /\ currentPrevHash' = currentPrevHash
        /\ stage \in Resting /\ stage' \in Resting
    BY <1>10 DEF StartMonitor, EnterIdle, FoundInactive, Register, WakeUp, FoundActive,
                 Throttle, EndThrottle, RequestWaitNext, WaitNextTimesOut, Move, Resting
  <2>2. QED
    BY <1>8, <2>1 DEF Resting, HalfAnnounced
<1>11. CASE SleepBeforeRefresh \/ Exit \/ Fails
  <2>1. /\ outgoing' = outgoing /\ fetched' = fetched /\ currentPrevHash' = currentPrevHash
        /\ \/ stage' = "done"
           \/ stage' = "sleeping" /\ stage = "fetched" /\ ~ TipChanged
    BY <1>11 DEF SleepBeforeRefresh, Exit, Fails, Move
  <2>2. QED
    BY <1>8, <2>1
<1>12. QED
  BY <1>4, <1>5, <1>6, <1>7, <1>9, <1>10, <1>11 DEF Next, Bootstrap, Monitor

\* A refresh builds on the tip of the SetNewPrevHash sent last: the comparison
\* with currentPrevHash is still right after the sleep before it is published.
THEOREM RefreshesBuildOnTip == Spec => []RefreshesMatchTip
<1>1. Init => TipInv
  <2> SUFFICES ASSUME Init PROVE TipInv
    OBVIOUS
  <2>1. outgoing = <<>> /\ DOMAIN outgoing = {} /\ stage = "boot"
    BY DEF Init
  <2>2. QED
    BY <2>1, InitPromise DEF TipInv, Fetched, Refreshing, Told, HalfAnnounced
<1>2. TipInv => RefreshesMatchTip
  BY DEF TipInv, Refreshing, RefreshesMatchTip, IsRefresh, IsPrevHash, LastPrevHash, TipIn, TipOf
<1>3. QED
  BY <1>1, <1>2, StepTip, PTL DEF Spec

-----------------------------------------------------------------------------
(* Cache and clocks.                                                       *)

Superseded == DOMAIN superseded

\* Each template is forgotten by a task, StaleDelay after it was superseded.
TaskInv ==
  /\ doomed \subseteq Superseded /\ staleIds \subseteq Superseded
  /\ \A task \in staleTasks : \A id \in task.ids :
       id \in Superseded /\ superseded[id] + task.left >= StaleDelay
  /\ \A id \in cache \cap Superseded :
       \/ \E task \in staleTasks : id \in task.ids /\ superseded[id] + task.left <= StaleDelay
       \/ id \in doomed /\ superseded[id] = 0 /\ stage \in {"announced", "done"}

\* Those not superseded are of the tip that was published last.
CurrentInv ==
  /\ stage \in {"boot", "bootstrapping", "bootstrapped"} => Len(fetched) <= 1 /\ doomed = {}
  /\ stage \in Pending => Newest \notin cache \cup Superseded
  /\ \A id \in cache \ Superseded : TipOf(id) = currentPrevHash
  /\ Cardinality(cache \ Superseded) <= MaxRetained

CacheInv == TaskInv /\ CurrentInv /\ RecentTemplatesKept

\* The monitor asks about the published tip, and what bounds the wait for
\* the next one is the timer of the stage.
ClockInv ==
  /\ stage \in (Resting \ {"boot"}) \cup {"fetched", "sleeping"} => client = currentPrevHash
  /\ stage \in {"throttled", "waiting", "fetched", "sleeping"} => sinceRequest # None
  /\ stage \in (Resting \ {"boot"}) \cup {"fetched", "announced", "sleeping"} => sinceSent # None

LateInv ==
  /\ late <= MinInterval \/ stage \in {"idle", "done"}
  /\ active = 0 \/ coreTip = currentPrevHash => late = 0
  /\ stage \in {"boot", "bootstrapping", "bootstrapped", "start", "check", "register", "announced"}
       => late = 0
  /\ stage = "idle" /\ (notified \/ notifying > 0) => late = 0
  /\ stage \in {"gate", "throttled"} => late = 0 \/ (sinceRequest # None /\ late <= sinceRequest)
  /\ stage = "waiting" /\ waited > 0 => late = 0
  /\ stage = "fetched" /\ ~ TipChanged => late = 0
  /\ stage = "sleeping" => late <= sinceSent /\ late <= sinceRequest

-----------------------------------------------------------------------------
(* Types.                                                                  *)

Stages == Pending \cup HalfAnnounced \cup Resting \cup {"done"}

ClockTypes ==
  /\ active \in 0..MaxActive /\ notifying \in 0..MaxActive
  /\ notified \in BOOLEAN /\ resumed \in BOOLEAN /\ cancelled \in BOOLEAN
  /\ sinceRequest \in 0..MinInterval \cup {None} /\ sinceSent \in 0..MinInterval \cup {None}
  /\ waited \in 0..WaitTimeout /\ late \in Nat

TaskType(ids) == [ids : SUBSET ids, left : 0..StaleDelay]

DataTypes ==
  /\ client \in Tip \cup {None} /\ currentPrevHash \in Tip \cup {None}
  /\ doomed \subseteq Ids /\ cache \subseteq Ids /\ staleIds \subseteq Ids
  /\ staleTasks \subseteq TaskType(Ids)
  /\ Superseded \subseteq Ids
  /\ \A i \in Superseded : superseded[i] \in 0..(StaleDelay + 1)

LEMMA TypeParts == PromiseInv => (TypeOK <=> ClockTypes /\ DataTypes)
BY DEF PromiseInv, TypeOK, ClockTypes, DataTypes, TaskType, Superseded, Pending,
       HalfAnnounced, Resting

LEMMA OlderType ==
  ASSUME NEW cap \in Nat, NEW age \in 0..cap
  PROVE  /\ Older(age, cap) \in 0..cap
         /\ Older(age, cap) = IF age >= cap THEN age ELSE age + 1
<1>1. age # None
  BY ProviderAssumption
<1> QED
  BY <1>1 DEF Older

LEMMA ClockTypesStep ==
  ASSUME ClockTypes, PromiseInv, [Next]_vars
  PROVE  ClockTypes'
<1> USE ProviderAssumption DEF ClockTypes
<1>1. CASE NewTip
  BY <1>1 DEF NewTip, activity, monitor
<1>2. CASE Connect
  BY <1>2 DEF Connect, monitor, history
<1>3. CASE NotifyWaiters
  BY <1>3 DEF NotifyWaiters, history
<1>4. CASE Disconnect
  BY <1>4 DEF Disconnect, monitor
<1>5. CASE Cancel
  BY <1>5 DEF Cancel, activity, monitor, history
<1>6. CASE CreateNewBlock \/ WaitNextReturns
  BY <1>6 DEF CreateNewBlock, WaitNextReturns, Fetch, activity, locals, history
<1>7. CASE BootstrapTemplate \/ PublishTip
  <2>1. /\ late' = 0
        /\ UNCHANGED <<active, notifying, notified, resumed, cancelled, sinceRequest, sinceSent,
                       waited>>
    BY <1>7 DEF BootstrapTemplate, PublishTip, SendFutureTemplate, activity, locals
  <2> QED
    BY <2>1
<1>8. CASE BootstrapPrevHash \/ PublishTipPrevHash
  BY <1>8 DEF BootstrapPrevHash, PublishTipPrevHash, SendPrevHash, activity, locals, history
<1>9. CASE \/ StartMonitor \/ EnterIdle \/ FoundInactive \/ Register \/ WakeUp \/ FoundActive
           \/ Throttle \/ EndThrottle \/ RequestWaitNext \/ WaitNextTimesOut
           \/ SleepBeforeRefresh \/ Exit \/ Fails
  <2>1. UNCHANGED <<active, notifying, late, sinceSent>>
    BY <1>9 DEF StartMonitor, EnterIdle, FoundInactive, Register, WakeUp, FoundActive,
                Throttle, EndThrottle, RequestWaitNext, WaitNextTimesOut, SleepBeforeRefresh,
                Exit, Fails, Move, activity, history
  <2>2. /\ notified' \in {notified, FALSE} /\ resumed' \in {resumed, TRUE, FALSE}
        /\ cancelled' \in {cancelled, TRUE}
        /\ sinceRequest' \in {sinceRequest, 0} /\ waited' \in {waited, 0}
    BY <1>9 DEF StartMonitor, EnterIdle, FoundInactive, Register, WakeUp, FoundActive,
                Throttle, EndThrottle, RequestWaitNext, WaitNextTimesOut, SleepBeforeRefresh,
                Exit, Fails, locals
  <2>3. sinceRequest' \in 0..MinInterval \cup {None} /\ waited' \in 0..WaitTimeout
    BY <2>2
  <2>4. notified' \in BOOLEAN /\ resumed' \in BOOLEAN /\ cancelled' \in BOOLEAN
    BY <2>2
  <2> QED
    BY <2>1, <2>3, <2>4
<1>10. CASE PublishRefresh
  BY <1>10 DEF PublishRefresh, SendRefresh, activity, locals, history
<1>11. CASE \E task \in staleTasks : MarkStale(task)
  BY <1>11 DEF MarkStale, activity, monitor, history
<1>12. CASE Tick
  <2>1. /\ sinceRequest' = Older(sinceRequest, MinInterval)
        /\ sinceSent' = Older(sinceSent, MinInterval)
        /\ waited' = IF stage = "waiting" THEN waited + 1 ELSE waited
        /\ late' \in {0, Older(late, MinInterval + WaitTimeout + 1)}
        /\ stage = "waiting" => waited < WaitTimeout
        /\ UNCHANGED <<activity, notified, resumed, cancelled>>
    BY <1>12 DEF Tick, Quiet
  <2>2. sinceRequest' \in 0..MinInterval \cup {None} /\ sinceSent' \in 0..MinInterval \cup {None}
    BY <2>1, OlderType DEF Older
  <2>3. late' \in Nat
    BY <2>1 DEF Older
  <2>4. waited' \in 0..WaitTimeout
    BY <2>1
  <2> QED
    BY <2>1, <2>2, <2>3, <2>4 DEF activity
<1>13. CASE UNCHANGED vars
  BY <1>13 DEF vars, activity, monitor, history
<1> QED
  BY <1>1, <1>2, <1>3, <1>4, <1>5, <1>6, <1>7, <1>8, <1>9, <1>10, <1>11, <1>12, <1>13
  DEF Next, Surroundings, Bootstrap, Monitor

LEMMA IdsAre ==
  ASSUME PromiseInv
  PROVE  /\ Len(fetched) \in Nat /\ Newest \in Int /\ Newest + 1 = Len(fetched)
         /\ Ids = {i \in Nat : i <= Newest}
         /\ \A i \in Ids : TipOf(i) \in Tip /\ i + 1 \in 1..Len(fetched)
         /\ stage \notin {"boot", "done"} => Newest \in Ids
<1>1. Len(fetched) \in Nat /\ fetched \in Seq(Tip)
  BY LenProperties DEF PromiseInv
<1>2. Ids = {i \in Nat : i <= Newest} /\ Newest \in Int /\ Newest + 1 = Len(fetched)
  BY <1>1 DEF Ids, Newest
<1>3. \A i \in Ids : i + 1 \in 1..Len(fetched)
  BY <1>1 DEF Ids
<1>4. \A i \in Ids : TipOf(i) \in Tip
  BY <1>1, <1>3 DEF TipOf
<1>5. stage \notin {"boot", "done"} => Newest \in Ids
  BY <1>1 DEF PromiseInv, Ids, Newest
<1> QED
  BY <1>1, <1>2, <1>3, <1>4, <1>5

\* One more template is fetched: the others keep id and tip.
LEMMA Fetching ==
  ASSUME PromiseInv, fetched' = Append(fetched, coreTip)
  PROVE  /\ Len(fetched') = Len(fetched) + 1 /\ Newest' = Newest + 1
         /\ Ids' = Ids \cup {Newest'} /\ Newest' \notin Ids
         /\ \A i \in Ids : TipOf(i)' = TipOf(i)
         /\ TipOf(Newest)' = coreTip
<1>1. fetched \in Seq(Tip) /\ coreTip \in Tip /\ Len(fetched) \in Nat
  BY LenProperties DEF PromiseInv
<1>2. /\ Len(fetched') = Len(fetched) + 1
      /\ \A i \in 1..Len(fetched) : fetched'[i] = fetched[i]
      /\ fetched'[Len(fetched) + 1] = coreTip
  BY <1>1, AppendProperties
<1>3. Newest' = Len(fetched) /\ Newest' = Newest + 1
  BY <1>1, <1>2 DEF Newest
<1>4. Ids' = Ids \cup {Newest'} /\ Newest' \notin Ids
  BY <1>1, <1>2, <1>3 DEF Ids
<1>5. \A i \in Ids : TipOf(i)' = TipOf(i)
  BY <1>1, <1>2 DEF TipOf, Ids
<1>6. TipOf(Newest)' = coreTip
  BY <1>2, <1>3 DEF TipOf
<1> QED
  BY <1>2, <1>3, <1>4, <1>5, <1>6

\* publish_template stores the template and, at a new tip, supersedes those
\* before it; what it does to ages.
LEMMA Superseding ==
  ASSUME PromiseInv, DataTypes, stage \notin {"boot", "done"}, SendFutureTemplate
  PROVE  /\ Superseded' = {i \in Ids : i # Newest}
         /\ \A i \in Superseded' :
              superseded'[i] = IF i \in Superseded THEN superseded[i] ELSE 0
<1>1. superseded' = [i \in 0..(Newest - 1) |-> IF i \in Superseded THEN superseded[i] ELSE 0]
  BY DEF SendFutureTemplate, Superseded
<1>2. 0..(Newest - 1) = {i \in Ids : i # Newest}
  BY IdsAre
<1> QED
  BY <1>1, <1>2 DEF Superseded

LEMMA DataTypesStep ==
  ASSUME DataTypes, PromiseInv, PromiseInv', [Next]_vars
  PROVE  DataTypes'
<1>1. CASE CreateNewBlock \/ WaitNextReturns
  <2>1. /\ fetched' = Append(fetched, coreTip)
        /\ UNCHANGED <<client, currentPrevHash, doomed, cache, staleIds, staleTasks, superseded>>
    BY <1>1 DEF CreateNewBlock, WaitNextReturns, Fetch, templates, history
  <2>2. Ids \subseteq Ids'
    BY <2>1, Fetching
  <2>3. TaskType(Ids) \subseteq TaskType(Ids')
    BY <2>2 DEF TaskType
  <2> QED
    BY <2>1, <2>2, <2>3 DEF DataTypes, Superseded
<1>2. CASE BootstrapTemplate \/ PublishTip
  <2>1. /\ SendFutureTemplate /\ stage \notin {"boot", "done"}
        /\ doomed' \in {doomed, cache} /\ fetched' = fetched
        /\ cache' = cache \cup {Newest} /\ currentPrevHash' = TipOf(Newest)
        /\ UNCHANGED <<client, staleIds, staleTasks>>
    BY <1>2 DEF BootstrapTemplate, PublishTip, SendFutureTemplate
  <2>2. Ids' = Ids
    BY <2>1 DEF Ids
  <2>3. Newest \in Ids /\ TipOf(Newest) \in Tip
    BY <2>1, IdsAre
  <2>4. /\ Superseded' \subseteq Ids
        /\ \A i \in Superseded' : superseded'[i] \in 0..(StaleDelay + 1)
    BY <2>1, Superseding, ProviderAssumption DEF DataTypes
  <2> HIDE DEF Superseded, Ids, TaskType
  <2> QED
    BY <2>1, <2>2, <2>3, <2>4 DEF DataTypes
<1>3. CASE BootstrapPrevHash \/ PublishTipPrevHash
  <2>1. /\ fetched' = fetched /\ stage \notin {"boot", "done"}
        /\ cache' = Pruned(cache) /\ client' = TipOf(Newest) /\ doomed' = {}
        /\ staleTasks' \subseteq staleTasks \cup {[ids |-> doomed, left |-> StaleDelay]}
        /\ UNCHANGED <<currentPrevHash, staleIds, superseded>>
    BY <1>3 DEF BootstrapPrevHash, PublishTipPrevHash, SendPrevHash, history
  <2>2. Ids' = Ids /\ Superseded' = Superseded
    BY <2>1 DEF Ids, Superseded
  <2>3. TipOf(Newest) \in Tip /\ cache' \subseteq cache
    BY <2>1, IdsAre DEF Pruned
  <2>4. [ids |-> doomed, left |-> StaleDelay] \in TaskType(Ids)
    BY ProviderAssumption DEF TaskType, DataTypes
  <2> HIDE DEF Superseded, Ids, TaskType
  <2> QED
    BY <2>1, <2>2, <2>3, <2>4 DEF DataTypes
<1>4. CASE PublishRefresh
  <2>1. /\ fetched' = fetched /\ stage \notin {"boot", "done"}
        /\ cache' = Pruned(cache \cup {Newest}) /\ client' = TipOf(Newest)
        /\ UNCHANGED <<currentPrevHash, doomed, staleIds, staleTasks, superseded>>
    BY <1>4 DEF PublishRefresh, SendRefresh, history
  <2>2. Ids' = Ids /\ Superseded' = Superseded
    BY <2>1 DEF Ids, Superseded
  <2>3. TipOf(Newest) \in Tip /\ Newest \in Ids /\ cache' \subseteq cache \cup {Newest}
    BY <2>1, IdsAre DEF Pruned
  <2> HIDE DEF Superseded, Ids, TaskType
  <2> QED
    BY <2>1, <2>2, <2>3 DEF DataTypes
<1>5. CASE \E task \in staleTasks : MarkStale(task)
  <2>1. PICK task \in staleTasks : MarkStale(task)
    BY <1>5
  <2>2. /\ staleTasks' = staleTasks \ {task} /\ staleIds' = task.ids /\ cache' = cache \ task.ids
        /\ UNCHANGED <<client, currentPrevHash, fetched, doomed, superseded>>
    BY <2>1 DEF MarkStale, monitor, history
  <2>3. Ids' = Ids /\ Superseded' = Superseded
    BY <2>2 DEF Ids, Superseded
  <2>4. task.ids \subseteq Ids
    BY DEF DataTypes, TaskType
  <2> HIDE DEF Superseded, Ids, TaskType
  <2> QED
    BY <2>2, <2>3, <2>4 DEF DataTypes
<1>6. CASE Tick
  <2>1. /\ staleTasks' = {[task EXCEPT !.left = @ - 1] : task \in staleTasks}
        /\ superseded' = [i \in Superseded |-> Older(superseded[i], StaleDelay + 1)]
        /\ \A task \in staleTasks : task.left > 0
        /\ UNCHANGED <<client, currentPrevHash, fetched, doomed, cache, staleIds>>
    BY <1>6 DEF Tick, Quiet, Superseded
  <2>2. Ids' = Ids /\ Superseded' = Superseded
    BY <2>1 DEF Ids, Superseded
  <2>3. \A i \in Superseded : superseded'[i] \in 0..(StaleDelay + 1)
    BY <2>1, OlderType, ProviderAssumption DEF DataTypes
  <2>4. ASSUME NEW task \in staleTasks
        PROVE  [task EXCEPT !.left = @ - 1] \in TaskType(Ids)
    <3>1. task \in TaskType(Ids) /\ task.left > 0
      BY <2>1 DEF DataTypes
    <3>2. task.left - 1 \in 0..StaleDelay
      BY <3>1, ProviderAssumption DEF TaskType
    <3> QED
      BY <3>1, <3>2 DEF TaskType
  <2> HIDE DEF Superseded, Ids, TaskType
  <2> QED
    BY <2>1, <2>2, <2>3, <2>4 DEF DataTypes
<1>7. CASE \/ Surroundings \/ StartMonitor \/ EnterIdle \/ FoundInactive \/ Register \/ WakeUp
           \/ FoundActive \/ Throttle \/ EndThrottle \/ RequestWaitNext \/ WaitNextTimesOut
           \/ SleepBeforeRefresh \/ Exit \/ Fails \/ UNCHANGED vars
  <2>1. UNCHANGED <<client, currentPrevHash, fetched, doomed, cache, staleIds, staleTasks>>
    BY <1>7 DEF Surroundings, NewTip, Connect, NotifyWaiters, Disconnect, Cancel, StartMonitor,
                EnterIdle, FoundInactive, Register, WakeUp, FoundActive, Throttle, EndThrottle,
                RequestWaitNext, WaitNextTimesOut, SleepBeforeRefresh, Exit, Fails, Move,
                monitor, templates, vars
  <2>2. UNCHANGED superseded
    BY <1>7 DEF Surroundings, NewTip, Connect, NotifyWaiters, Disconnect, Cancel, StartMonitor,
                EnterIdle, FoundInactive, Register, WakeUp, FoundActive, Throttle, EndThrottle,
                RequestWaitNext, WaitNextTimesOut, SleepBeforeRefresh, Exit, Fails, Move,
                history, vars
  <2>3. Ids' = Ids
    BY <2>1 DEF Ids
  <2> QED
    BY <2>1, <2>2, <2>3 DEF DataTypes, Superseded
<1> QED
  BY <1>1, <1>2, <1>3, <1>4, <1>5, <1>6, <1>7 DEF Next, Bootstrap, Monitor

LEMMA TypesInit == Init => ClockTypes /\ DataTypes
<1> SUFFICES ASSUME Init PROVE ClockTypes /\ DataTypes
  OBVIOUS
<1>1. ClockTypes
  <2>1. /\ active = 0 /\ notifying = 0 /\ waited = 0 /\ late = 0
        /\ sinceRequest = None /\ sinceSent = None
    BY DEF Init
  <2>2. notified = FALSE /\ resumed = FALSE /\ cancelled = FALSE
    BY DEF Init
  <2>3. notified \in BOOLEAN /\ resumed \in BOOLEAN /\ cancelled \in BOOLEAN
    BY <2>2
  <2>4. /\ active \in 0..MaxActive /\ notifying \in 0..MaxActive
        /\ waited \in 0..WaitTimeout /\ late \in Nat
    BY <2>1, ProviderAssumption
  <2> QED
    BY <2>1, <2>3, <2>4 DEF ClockTypes
<1>2. Superseded = {}
  BY DEF Init, Superseded
<1>3. DataTypes
  BY <1>2 DEF Init, DataTypes
<1> QED
  BY <1>1, <1>3

-----------------------------------------------------------------------------
(* How late a tip is published.                                            *)

LEMMA ClockStep ==
  ASSUME ClockInv, TipInv, ClockTypes, [Next]_vars
  PROVE  ClockInv'
<1> USE ProviderAssumption DEF ClockInv, Resting
<1>1. stage \in HalfAnnounced \cup {"sleeping"} => TipOf(Newest) = currentPrevHash
  BY DEF TipInv
<1>2. CASE Surroundings \/ UNCHANGED vars
  <2>1. UNCHANGED <<stage, client, currentPrevHash, sinceRequest, sinceSent>>
    BY <1>2 DEF Surroundings, NewTip, Connect, NotifyWaiters, Disconnect, Cancel, monitor, vars
  <2> QED
    BY <2>1
<1>3. CASE CreateNewBlock \/ BootstrapTemplate
  <2>1. stage' \in {"bootstrapping", "bootstrapped"}
    BY <1>3 DEF CreateNewBlock, BootstrapTemplate, Fetch
  <2> QED
    BY <2>1
<1>4. CASE BootstrapPrevHash \/ PublishTipPrevHash
  <2>1. /\ stage \in HalfAnnounced /\ stage' \in {"start", "gate"}
        /\ client' = TipOf(Newest) /\ currentPrevHash' = currentPrevHash
        /\ sinceSent' = 0 \/ (stage = "announced" /\ sinceSent' = sinceSent)
    BY <1>4 DEF BootstrapPrevHash, PublishTipPrevHash, SendPrevHash, HalfAnnounced
  <2> QED
    BY <1>1, <2>1
<1>5. CASE PublishRefresh
  <2>1. /\ TipOf(Newest) = currentPrevHash /\ stage' = "gate"
        /\ client' = TipOf(Newest) /\ currentPrevHash' = currentPrevHash /\ sinceSent' = 0
    BY <1>1, <1>5 DEF PublishRefresh, SendRefresh, TipChanged
  <2> QED
    BY <2>1
<1>6. CASE WaitNextReturns
  <2>1. /\ stage = "waiting" /\ stage' = "fetched"
        /\ UNCHANGED <<client, currentPrevHash, sinceRequest, sinceSent>>
    BY <1>6 DEF WaitNextReturns, Fetch, locals
  <2> QED
    BY <2>1
<1>7. CASE PublishTip
  <2>1. stage = "fetched" /\ stage' = "announced" /\ sinceSent' = sinceSent
    BY <1>7 DEF PublishTip, SendFutureTemplate
  <2> QED
    BY <2>1
<1>8. CASE StartMonitor \/ EnterIdle \/ FoundInactive \/ Register \/ WakeUp \/ FoundActive
           \/ EndThrottle \/ WaitNextTimesOut
  <2>1. /\ stage \in Resting \ {"boot"}
        /\ stage' \in {"gate", "check", "register", "idle"}
        /\ UNCHANGED <<client, currentPrevHash, sinceSent>>
    BY <1>8 DEF StartMonitor, EnterIdle, FoundInactive, Register, WakeUp, FoundActive,
                EndThrottle, WaitNextTimesOut, Move
  <2> QED
    BY <2>1
<1>9. CASE Throttle \/ RequestWaitNext
  <2>1. /\ stage = "gate" /\ stage' \in {"throttled", "waiting"}
        /\ UNCHANGED <<client, currentPrevHash, sinceSent>>
        /\ sinceRequest' # None
    BY <1>9 DEF Throttle, RequestWaitNext, Move, locals, MustDelay
  <2> QED
    BY <2>1
<1>10. CASE SleepBeforeRefresh
  <2>1. /\ stage = "fetched" /\ stage' = "sleeping"
        /\ UNCHANGED <<client, currentPrevHash, sinceRequest, sinceSent>>
    BY <1>10 DEF SleepBeforeRefresh, Move, locals
  <2> QED
    BY <2>1
<1>11. CASE Exit \/ Fails
  <2>1. stage' = "done"
    BY <1>11 DEF Exit, Fails, Move
  <2> QED
    BY <2>1
<1>12. CASE \E task \in staleTasks : MarkStale(task)
  <2>1. UNCHANGED <<stage, client, currentPrevHash, sinceRequest, sinceSent>>
    BY <1>12 DEF MarkStale, monitor
  <2> QED
    BY <2>1
<1>13. CASE Tick
  <2>1. /\ UNCHANGED <<stage, client, currentPrevHash>>
        /\ sinceRequest' = Older(sinceRequest, MinInterval)
        /\ sinceSent' = Older(sinceSent, MinInterval)
    BY <1>13 DEF Tick
  <2>2. /\ sinceRequest # None => sinceRequest' # None
        /\ sinceSent # None => sinceSent' # None
    BY <2>1, OlderType DEF ClockTypes
  <2> QED
    BY <2>1, <2>2
<1> QED
  BY <1>2, <1>3, <1>4, <1>5, <1>6, <1>7, <1>8, <1>9, <1>10, <1>11, <1>12, <1>13
  DEF Next, Bootstrap, Monitor

LEMMA LateStep ==
  ASSUME LateInv, ClockInv, TipInv, ClockTypes, ClockTypes', [Next]_vars
  PROVE  LateInv'
<1>1. /\ late \in Nat /\ late' \in Nat /\ MinInterval \in Nat /\ WaitTimeout \in Nat \ {0}
      /\ sinceRequest \in 0..MinInterval \cup {None} /\ sinceSent \in 0..MinInterval \cup {None}
      /\ active \in Nat /\ notifying \in Nat /\ None \notin Nat
  BY ProviderAssumption DEF ClockTypes
<1>2. TipChanged <=> TipOf(Newest) # currentPrevHash
  BY DEF TipChanged
<1> USE DEF LateInv
<1>3. CASE NewTip
  <2>1. /\ late' = IF coreTip' = currentPrevHash THEN 0 ELSE late
        /\ UNCHANGED <<stage, active, notifying, notified, currentPrevHash, sinceRequest,
                       sinceSent, waited, fetched>>
    BY <1>3 DEF NewTip, activity, monitor
  <2>2. TipChanged' <=> TipChanged
    BY <2>1 DEF TipChanged, TipOf, Newest
  <2> QED
    BY <1>1, <2>1, <2>2
<1>4. CASE Connect
  <2>1. /\ active' = active + 1 /\ notifying' = IF active = 0 THEN notifying + 1 ELSE notifying
        /\ UNCHANGED <<stage, late, coreTip, notified, currentPrevHash, sinceRequest,
                       sinceSent, waited, fetched>>
    BY <1>4 DEF Connect, monitor, history, core
  <2>2. TipChanged' <=> TipChanged
    BY <2>1 DEF TipChanged, TipOf, Newest
  <2> QED
    BY <1>1, <2>1, <2>2
<1>5. CASE NotifyWaiters
  <2>1. /\ notifying > 0 /\ notifying' = notifying - 1
        /\ UNCHANGED <<stage, late, coreTip, active, currentPrevHash, sinceRequest,
                       sinceSent, waited, fetched>>
    BY <1>5 DEF NotifyWaiters, history, core
  <2>2. TipChanged' <=> TipChanged
    BY <2>1 DEF TipChanged, TipOf, Newest
  <2> QED
    BY <1>1, <2>1, <2>2
<1>6. CASE Disconnect
  <2>1. /\ active' = active - 1 /\ late' = IF active = 1 THEN 0 ELSE late
        /\ UNCHANGED <<stage, coreTip, notifying, notified, currentPrevHash, sinceRequest,
                       sinceSent, waited, fetched>>
    BY <1>6 DEF Disconnect, monitor, core
  <2>2. TipChanged' <=> TipChanged
    BY <2>1 DEF TipChanged, TipOf, Newest
  <2> QED
    BY <1>1, <2>1, <2>2
<1>7. CASE Cancel \/ (\E task \in staleTasks : MarkStale(task)) \/ UNCHANGED vars
  <2>1. UNCHANGED <<stage, late, coreTip, active, notifying, notified, currentPrevHash,
                    sinceRequest, sinceSent, waited, fetched>>
    BY <1>7 DEF Cancel, MarkStale, vars, activity, monitor, history, core
  <2>2. TipChanged' <=> TipChanged
    BY <2>1 DEF TipChanged, TipOf, Newest
  <2> QED
    BY <2>1, <2>2
<1>8. CASE CreateNewBlock
  <2>1. /\ stage = "boot" /\ stage' = "bootstrapping"
        /\ UNCHANGED <<late, coreTip, active, currentPrevHash>>
    BY <1>8 DEF CreateNewBlock, Fetch, activity, history, core
  <2> QED
    BY <1>1, <2>1
<1>9. CASE BootstrapTemplate \/ PublishTip
  <2>1. stage' \in {"bootstrapped", "announced"} /\ late' = 0
    BY <1>9 DEF BootstrapTemplate, PublishTip, SendFutureTemplate
  <2> QED
    BY <1>1, <2>1
<1>10. CASE BootstrapPrevHash \/ PublishTipPrevHash
  <2>1. /\ stage \in {"bootstrapped", "announced"} /\ stage' \in {"start", "gate"}
        /\ late' = late
    BY <1>10 DEF BootstrapPrevHash, PublishTipPrevHash, SendPrevHash, history
  <2> QED
    BY <1>1, <2>1
<1>11. CASE StartMonitor \/ EnterIdle \/ FoundInactive \/ FoundActive \/ WakeUp
  <2>1. /\ \/ stage = "start" /\ stage' = "gate"
           \/ stage = "gate" /\ stage' = "check" /\ active = 0
           \/ stage = "check" /\ stage' \in {"register", "gate"}
           \/ stage = "idle" /\ stage' = "check" /\ notified
        /\ late' = late
    BY <1>11 DEF StartMonitor, EnterIdle, FoundInactive, FoundActive, WakeUp, Move, history
  <2> QED
    BY <1>1, <2>1
<1>12. CASE Register
  <2>1. stage = "register" /\ stage' = "idle" /\ late' = late
    BY <1>12 DEF Register, Move, history
  <2> QED
    BY <1>1, <2>1
<1>13. CASE Throttle \/ EndThrottle
  <2>1. /\ stage \in {"gate", "throttled"} /\ stage' \in {"gate", "throttled"}
        /\ UNCHANGED <<late, coreTip, active, currentPrevHash, sinceRequest>>
    BY <1>13 DEF Throttle, EndThrottle, Move, locals, activity, history, core
  <2> QED
    BY <1>1, <2>1
<1>14. CASE RequestWaitNext
  <2>1. /\ stage = "gate" /\ stage' = "waiting" /\ waited' = 0
        /\ UNCHANGED <<late, coreTip, active, currentPrevHash>>
    BY <1>14 DEF RequestWaitNext, Move, activity, history, core
  <2> QED
    BY <1>1, <2>1
<1>15. CASE WaitNextTimesOut
  <2>1. /\ stage = "waiting" /\ waited = WaitTimeout /\ stage' = "gate" /\ late' = late
    BY <1>15 DEF WaitNextTimesOut, Move, history
  <2>2. late = 0
    BY <1>1, <2>1
  <2> QED
    BY <1>1, <2>1, <2>2
<1>16. CASE WaitNextReturns
  <2>1. /\ stage = "waiting" /\ stage' = "fetched"
        /\ fetched' = Append(fetched, coreTip)
        /\ UNCHANGED <<late, coreTip, active, currentPrevHash>>
    BY <1>16 DEF WaitNextReturns, Fetch, activity, history, core
  <2>2. TipOf(Newest)' = coreTip
    BY <2>1, Fetching DEF TipInv
  <2>3. ~ TipChanged' => coreTip = currentPrevHash
    BY <2>1, <2>2 DEF TipChanged
  <2> QED
    BY <1>1, <2>1, <2>3
<1>17. CASE SleepBeforeRefresh
  <2>1. /\ stage = "fetched" /\ ~ TipChanged /\ stage' = "sleeping" /\ late' = late
        /\ sinceRequest' = sinceRequest /\ sinceSent' = sinceSent
    BY <1>17 DEF SleepBeforeRefresh, Move, locals, history
  <2>2. sinceRequest \in Nat /\ sinceSent \in Nat /\ late = 0
    BY <1>1, <2>1 DEF ClockInv
  <2> QED
    BY <1>1, <2>1, <2>2
<1>18. CASE PublishRefresh
  <2>1. /\ stage \in {"fetched", "sleeping"} /\ stage' = "gate"
        /\ stage = "fetched" => ~ TipChanged
        /\ UNCHANGED <<late, coreTip, active, currentPrevHash, sinceRequest>>
    BY <1>18 DEF PublishRefresh, SendRefresh, locals, activity, history, core
  <2>2. sinceRequest # None
    BY <2>1 DEF ClockInv
  <2> QED
    BY <1>1, <2>1, <2>2
<1>19. CASE Exit \/ Fails
  <2>1. stage' = "done" /\ UNCHANGED <<late, coreTip, active, currentPrevHash>>
    BY <1>19 DEF Exit, Fails, Move, activity, history, core
  <2> QED
    BY <1>1, <2>1
<1>20. CASE Tick
  <2>1. /\ sinceRequest' = Older(sinceRequest, MinInterval)
        /\ sinceSent' = Older(sinceSent, MinInterval)
        /\ late' = IF coreTip # currentPrevHash /\ active > 0
                     THEN Older(late, MinInterval + WaitTimeout + 1) ELSE 0
        /\ UNCHANGED <<stage, coreTip, active, notifying, notified, currentPrevHash>>
    BY <1>20 DEF Tick, activity, core
  <2>2. \/ stage = "idle" /\ ~ notified /\ notifying = 0
        \/ stage = "throttled" /\ sinceRequest < MinInterval
        \/ stage = "waiting" /\ coreTip = client
        \/ stage = "sleeping" /\ sinceSent < MinInterval
    BY <1>20 DEF Tick, Quiet
  <2>3. late' <= late + 1 /\ (active = 0 \/ coreTip = currentPrevHash => late' = 0)
    BY <1>1, <2>1 DEF Older
  <2>4. CASE stage = "idle" /\ ~ notified /\ notifying = 0
    BY <1>1, <2>1, <2>3, <2>4
  <2>5. CASE stage = "throttled" /\ sinceRequest < MinInterval
    <3>1. sinceRequest \in 0..MinInterval
      BY <1>1, <2>5 DEF ClockInv
    <3>2. sinceRequest' = sinceRequest + 1 /\ sinceRequest' # None
      BY <1>1, <2>1, <2>5, <3>1 DEF Older
    <3>3. late <= sinceRequest
      BY <1>1, <2>5, <3>1
    <3>4. late' <= sinceRequest' /\ late' <= MinInterval
      BY <1>1, <2>3, <2>5, <3>1, <3>2, <3>3
    <3> QED
      BY <2>1, <2>3, <2>5, <3>2, <3>4
  <2>6. CASE stage = "waiting" /\ coreTip = client
    <3>1. coreTip = currentPrevHash
      BY <2>6 DEF ClockInv, Resting
    <3> QED
      BY <1>1, <2>1, <2>3, <2>6, <3>1
  <2>7. CASE stage = "sleeping" /\ sinceSent < MinInterval
    <3>1. sinceRequest \in 0..MinInterval /\ sinceSent \in 0..MinInterval
      BY <1>1, <2>7 DEF ClockInv
    <3>2. /\ sinceSent' = sinceSent + 1
          /\ sinceRequest' = IF sinceRequest >= MinInterval THEN sinceRequest ELSE sinceRequest + 1
      BY <1>1, <2>1, <2>7, <3>1 DEF Older
    <3>3. late <= sinceSent /\ late <= sinceRequest
      BY <2>7
    <3>4. late' <= sinceSent' /\ late' <= sinceRequest' /\ late' <= MinInterval
      BY <1>1, <2>3, <2>7, <3>1, <3>2, <3>3
    <3> QED
      BY <2>1, <2>3, <2>7, <3>4
  <2> QED
    BY <2>2, <2>4, <2>5, <2>6, <2>7
<1> QED
  BY <1>3, <1>4, <1>5, <1>6, <1>7, <1>8, <1>9, <1>10, <1>11, <1>12, <1>13, <1>14, <1>15, <1>16,
     <1>17, <1>18, <1>19, <1>20
  DEF Next, Surroundings, Bootstrap, Monitor

LEMMA ClockInit == Init => ClockInv /\ LateInv
BY ProviderAssumption DEF Init, ClockInv, LateInv, Resting

-----------------------------------------------------------------------------
(* What is kept.                                                           *)

LEMMA SomeOfIdsAreFinite ==
  ASSUME PromiseInv, NEW S \in SUBSET Ids
  PROVE  /\ IsFiniteSet(S) /\ Cardinality(S) \in Nat
         /\ \A T \in SUBSET S : Cardinality(T) \in Nat /\ Cardinality(T) <= Cardinality(S)
<1>1. IsFiniteSet(Ids)
  BY IdsAre, FS_Interval DEF Ids
<1>2. IsFiniteSet(S)
  BY <1>1, FS_Subset
<1> QED
  BY <1>2, FS_Subset, FS_CardinalityType

LEMMA SmallestOfNaturals ==
  ASSUME NEW K \in SUBSET Nat, K # {}
  PROVE  \E k \in K : \A i \in K : k <= i
<1>1. PICK k \in K : \A i \in K : ~ (<<i, k>> \in OpToRel(<, Nat))
  BY NatLessThanWellFounded, WFMin
<1>2. ASSUME NEW i \in K PROVE k <= i
  <2>1. i \in Nat /\ k \in Nat
    OBVIOUS
  <2>2. ~ (i < k)
    BY <1>1, <2>1 DEF OpToRel
  <2> QED
    BY <2>1, <2>2
<1> QED
  BY <1>2

\* No more than n members of a set have less than n members above them.
LEMMA NewestOfSet ==
  ASSUME NEW S \in SUBSET Nat, IsFiniteSet(S), NEW n \in Nat \ {0}
  PROVE  Cardinality({i \in S : Cardinality({j \in S : j > i}) < n}) <= n
<1> DEFINE above(i) == {j \in S : j > i}
           K == {i \in S : Cardinality(above(i)) < n}
<1>1. Cardinality(K) <= n
  <2>1. K \in SUBSET S
    OBVIOUS
  <2>2. \A i \in K : Cardinality(above(i)) < n
    OBVIOUS
  <2>3. \A i \in S : above(i) \in SUBSET S /\ (\A j \in S : j \in above(i) <=> j > i)
    OBVIOUS
  <2> HIDE DEF K, above
  <2>4. CASE K = {}
    BY <2>4, FS_EmptySet
  <2>5. CASE K # {}
    <3>1. PICK k \in K : \A i \in K : k <= i
      BY <2>1, <2>5, SmallestOfNaturals
    <3>2. k \in S /\ k \in Nat
      BY <2>1
    <3>3. K \subseteq above(k) \cup {k}
      <4> SUFFICES ASSUME NEW i \in K, i # k PROVE i \in above(k)
        OBVIOUS
      <4>1. i \in Nat /\ k <= i /\ i \in S
        BY <2>1, <3>1
      <4>2. i > k
        BY <3>2, <4>1
      <4> QED
        BY <2>3, <3>2, <4>1, <4>2
    <3>4. k \notin above(k)
      <4>1. ~ (k > k)
        BY <3>2
      <4> QED
        BY <2>3, <3>2, <4>1
    <3>5. IsFiniteSet(above(k)) /\ Cardinality(above(k)) \in Nat
      BY <2>3, <3>2, FS_Subset, FS_CardinalityType
    <3>6. /\ IsFiniteSet(above(k) \cup {k})
          /\ Cardinality(above(k) \cup {k}) = Cardinality(above(k)) + 1
      BY <3>4, <3>5, FS_AddElement
    <3>7. Cardinality(K) <= Cardinality(above(k)) + 1
      BY <3>3, <3>6, FS_Subset
    <3>8. Cardinality(K) \in Nat
      BY <2>1, FS_Subset, FS_CardinalityType
    <3> QED
      BY <2>2, <3>5, <3>7, <3>8
  <2> QED
    BY <2>4, <2>5
<1> QED
  BY <1>1

\* Fetched after id, for the same tip.
NewerThan(id) == {j \in Ids : j > id /\ TipOf(j) = TipOf(id)}

\* What must still be in the cache.
Needed(id) ==
  /\ id \in Superseded => superseded[id] < StaleDelay
  /\ Cardinality(NewerThan(id)) < MaxRetained

\* What is evicted is not among the newest of its tip.
LEMMA PrunedKeeps ==
  ASSUME PromiseInv, NEW ids \in SUBSET Ids, NEW id \in ids,
         Cardinality(NewerThan(id)) < MaxRetained
  PROVE  id \in Pruned(ids)
<1> SUFFICES ASSUME id \notin Pruned(ids) PROVE FALSE
  OBVIOUS
<1> DEFINE T == {i \in ids : TipOf(i) = TipOf(Newest)}
           above == {j \in T : j > id}
<1>1. id \in T /\ Cardinality(above) >= MaxRetained
  BY DEF Pruned, Evicted
<1>2. above \subseteq NewerThan(id)
  BY <1>1 DEF NewerThan
<1>3. NewerThan(id) \in SUBSET Ids
  BY DEF NewerThan
<1> HIDE DEF above, T
<1>4. /\ Cardinality(above) <= Cardinality(NewerThan(id))
      /\ Cardinality(above) \in Nat /\ Cardinality(NewerThan(id)) \in Nat
  BY <1>2, <1>3, SomeOfIdsAreFinite
<1> QED
  BY <1>1, <1>4, ProviderAssumption

LEMMA PrunedIsBounded ==
  ASSUME PromiseInv, NEW ids \in SUBSET Ids,
         NEW kept \in SUBSET Pruned(ids), \A i \in kept : TipOf(i) = TipOf(Newest)
  PROVE  Cardinality(kept) <= MaxRetained
<1> DEFINE T == {i \in ids : TipOf(i) = TipOf(Newest)}
           above(i) == {j \in T : j > i}
           K == {i \in T : Cardinality(above(i)) < MaxRetained}
<1>1. T \in SUBSET Ids /\ \A i \in T : above(i) \in SUBSET Ids
  OBVIOUS
<1>2. T \in SUBSET Nat /\ IsFiniteSet(T) /\ \A i \in T : Cardinality(above(i)) \in Nat
  <2>1. Ids \subseteq Nat
    BY IdsAre
  <2> QED
    BY <1>1, <2>1, SomeOfIdsAreFinite
<1>3. MaxRetained \in Nat \ {0}
  BY ProviderAssumption
<1>4. kept \subseteq K
  <2> SUFFICES ASSUME NEW i \in kept PROVE i \in K
    OBVIOUS
  <2>1. i \in T /\ ~ (Cardinality(above(i)) >= MaxRetained)
    BY DEF Pruned, Evicted
  <2>2. Cardinality(above(i)) \in Nat
    BY <1>2, <2>1
  <2> HIDE DEF above, T
  <2> QED
    BY <1>3, <2>1, <2>2
<1>5. Cardinality(K) <= MaxRetained
  <2> HIDE DEF T
  <2> QED
    BY <1>2, <1>3, NewestOfSet
<1>6. K \in SUBSET Ids
  BY <1>1
<1> HIDE DEF K
<1>7. Cardinality(kept) <= Cardinality(K) /\ Cardinality(K) \in Nat /\ Cardinality(kept) \in Nat
  BY <1>4, <1>6, SomeOfIdsAreFinite
<1> QED
  BY <1>3, <1>5, <1>7

-----------------------------------------------------------------------------
(* Every step keeps what the cache's invariant says.                       *)

LEMMA KeptIsNeeded ==
  RecentTemplatesKept <=>
    \A m \in DOMAIN outgoing : Needed(outgoing[m].template) => outgoing[m].template \in cache
BY DEF RecentTemplatesKept, Needed, NewerThan, Superseded

LEMMA KeptPrimed ==
  ASSUME \A n \in DOMAIN outgoing' : \A id :
           id = outgoing'[n].template /\ Needed(id)' => id \in cache'
  PROVE  RecentTemplatesKept'
<1> SUFFICES ASSUME NEW n \in DOMAIN outgoing',
                    NEW id, id = outgoing'[n].template,
                    /\ id \in DOMAIN superseded' => superseded'[id] < StaleDelay
                    /\ Cardinality({j \in Ids' : j > id /\ TipOf(j)' = TipOf(id)'}) < MaxRetained
             PROVE  id \in cache'
  BY DEF RecentTemplatesKept, TipOf
<1>1. Needed(id)'
  BY DEF Needed, NewerThan, Superseded
<1> QED
  BY <1>1

LEMMA AnnouncedAreIds ==
  ASSUME TipInv
  PROVE  /\ PromiseInv
         /\ Len(outgoing) \in Nat /\ DOMAIN outgoing = 1..Len(outgoing)
         /\ \A m \in DOMAIN outgoing : outgoing[m].template \in Ids
         /\ stage \in HalfAnnounced => \E m \in DOMAIN outgoing : outgoing[m].template = Newest
<1>1. /\ Len(outgoing) \in Nat /\ DOMAIN outgoing = 1..Len(outgoing)
      /\ \A m \in DOMAIN outgoing : outgoing[m].template \in Ids
  BY LenProperties DEF TipInv, PromiseInv, Fetched, Ids
<1>2. ASSUME stage \in HalfAnnounced
      PROVE  \E m \in DOMAIN outgoing : outgoing[m].template = Newest
  <2>1. Owed = Newest /\ Newest \in Nat
    BY <1>2, NewestIsTemplate DEF TipInv, PromiseInv, HalfAnnounced
  <2>2. Owed # None
    BY <2>1, ProviderAssumption
  <2>3. outgoing # <<>> /\ outgoing[Len(outgoing)].template = Newest
    BY <2>1, <2>2 DEF Owed
  <2>4. Len(outgoing) \in DOMAIN outgoing
    BY <1>1, <2>3, EmptySeq DEF TipInv, PromiseInv
  <2> QED
    BY <2>3, <2>4
<1> QED
  BY <1>1, <1>2 DEF TipInv

\* A message is sent, and what was needed of the others is still cached.
LEMMA KeptAfterSending ==
  ASSUME TipInv, RecentTemplatesKept,
         NEW m \in Stream!Message, outgoing' = Append(outgoing, m),
         \A id \in Ids : Needed(id)' => Needed(id) /\ (id \in cache => id \in cache'),
         Needed(m.template)' => m.template \in cache'
  PROVE  RecentTemplatesKept'
<1>1. /\ outgoing \in Seq(Stream!Message) /\ Len(outgoing) \in Nat
      /\ DOMAIN outgoing = 1..Len(outgoing)
      /\ \A n \in DOMAIN outgoing : outgoing[n].template \in Ids
  BY AnnouncedAreIds DEF PromiseInv
<1>2. /\ DOMAIN outgoing' = 1..(Len(outgoing) + 1)
      /\ outgoing'[Len(outgoing) + 1] = m
      /\ \A n \in 1..Len(outgoing) : outgoing'[n] = outgoing[n]
  BY <1>1, AppendProperties
<1>3. ASSUME NEW n \in DOMAIN outgoing', NEW id, id = outgoing'[n].template, Needed(id)'
      PROVE  id \in cache'
  <2>1. CASE n = Len(outgoing) + 1
    BY <1>2, <1>3, <2>1
  <2>2. CASE n # Len(outgoing) + 1
    <3>1. n \in DOMAIN outgoing
      BY <1>1, <1>2, <2>2
    <3>2. id = outgoing[n].template /\ id \in Ids
      BY <1>1, <1>2, <1>3, <3>1
    <3> QED
      BY <3>1, <3>2, <1>3, KeptIsNeeded
  <2> QED
    BY <2>1, <2>2
<1> QED
  BY <1>3, KeptPrimed

\* What is needed when no template was fetched.
LEMMA SameNeeded ==
  ASSUME fetched' = fetched, NEW id
  PROVE  /\ Ids' = Ids /\ Newest' = Newest /\ TipOf(id)' = TipOf(id)
         /\ NewerThan(id)' = NewerThan(id)
         /\ ((id \in Superseded =>
                 id \in Superseded' /\ (superseded'[id] < StaleDelay => superseded[id] < StaleDelay))
              => (Needed(id)' => Needed(id)))
<1>1. Ids' = Ids /\ Newest' = Newest /\ \A i : TipOf(i)' = TipOf(i)
  BY DEF Ids, Newest, TipOf
<1>2. NewerThan(id)' = NewerThan(id)
  BY <1>1 DEF NewerThan
<1>3. Needed(id)' <=> /\ id \in Superseded' => superseded'[id] < StaleDelay
                      /\ Cardinality(NewerThan(id)') < MaxRetained
  BY DEF Needed
<1> QED
  BY <1>1, <1>2, <1>3 DEF Needed

\* The template of a new tip is stored and the others are superseded.
LEMMA CacheAtTip ==
  ASSUME TipInv, DataTypes, CacheInv, BootstrapTemplate \/ PublishTip
  PROVE  CacheInv'
<1> DEFINE m == Stream!NewTemplate(Newest, TRUE)
<1>1. /\ stage \in {"bootstrapping", "fetched"} /\ stage' \in HalfAnnounced
      /\ SendFutureTemplate /\ fetched' = fetched
      /\ outgoing' = Append(outgoing, m)
      /\ cache' = cache \cup {Newest} /\ currentPrevHash' = TipOf(Newest)
      /\ UNCHANGED <<staleIds, staleTasks>>
      /\ \/ stage = "bootstrapping" /\ stage' = "bootstrapped" /\ doomed' = doomed
         \/ stage' = "announced" /\ doomed' = cache
  BY DEF BootstrapTemplate, PublishTip, SendFutureTemplate, HalfAnnounced
<1>2. PromiseInv
  BY DEF TipInv
<1>3. /\ Superseded' = {i \in Ids : i # Newest}
      /\ \A i \in Superseded' :
           superseded'[i] = IF i \in Superseded THEN superseded[i] ELSE 0
  BY <1>1, <1>2, Superseding
<1>4. Newest \notin cache \cup Superseded /\ Newest \in Ids /\ cache \subseteq Ids
  BY <1>1, <1>2, IdsAre DEF CacheInv, CurrentInv, Pending, DataTypes
<1>5. /\ Superseded \subseteq Superseded' /\ cache \subseteq Superseded'
      /\ \A i \in Superseded : superseded'[i] = superseded[i]
  BY <1>3, <1>4 DEF DataTypes
<1>6. stage = "bootstrapping" => cache = {} /\ doomed = {} /\ Len(fetched) <= 1
  <2>1. stage = "bootstrapping" => Len(fetched) <= 1 /\ doomed = {}
    BY DEF CacheInv, CurrentInv
  <2>2. Len(fetched) <= 1 => Ids \subseteq {Newest}
    BY <1>2, IdsAre
  <2> QED
    BY <1>4, <2>1, <2>2
<1>7. TaskInv'
  <2>1. doomed' \subseteq Superseded' /\ staleIds' \subseteq Superseded'
    BY <1>1, <1>5, <1>6 DEF CacheInv, TaskInv
  <2>2. \A task \in staleTasks' : \A id \in task.ids :
          id \in Superseded' /\ superseded'[id] + task.left >= StaleDelay
    BY <1>1, <1>5 DEF CacheInv, TaskInv
  <2>3. ASSUME NEW id \in cache' \cap Superseded'
        PROVE  \/ \E task \in staleTasks' :
                    id \in task.ids /\ superseded'[id] + task.left <= StaleDelay
               \/ id \in doomed' /\ superseded'[id] = 0 /\ stage' \in {"announced", "done"}
    <3>1. id \in cache
      BY <1>1, <1>3, <2>3
    <3>2. CASE id \in Superseded
      BY <1>1, <1>5, <3>1, <3>2 DEF CacheInv, TaskInv
    <3>3. CASE id \notin Superseded
      BY <1>1, <1>3, <1>6, <2>3, <3>1, <3>3
    <3> QED
      BY <3>2, <3>3
  <2> QED
    BY <2>1, <2>2, <2>3 DEF TaskInv
<1>8. CurrentInv'
  <2>1. cache' \ Superseded' = {Newest}
    BY <1>1, <1>3, <1>5
  <2>2. Cardinality(cache' \ Superseded') <= MaxRetained
    BY <2>1, FS_Singleton, ProviderAssumption
  <2>3. \A id \in cache' \ Superseded' : TipOf(id)' = currentPrevHash'
    BY <1>1, <2>1 DEF TipOf
  <2>4. stage' \in {"boot", "bootstrapping", "bootstrapped"} => Len(fetched') <= 1 /\ doomed' = {}
    BY <1>1, <1>6
  <2>5. stage' \notin Pending
    BY <1>1 DEF HalfAnnounced, Pending
  <2> HIDE DEF Superseded
  <2> QED
    BY <2>2, <2>3, <2>4, <2>5 DEF CurrentInv
<1>9. RecentTemplatesKept'
  <2>1. PICK top : top = Newest
    OBVIOUS
  <2>2. outgoing' = Append(outgoing, Stream!NewTemplate(top, TRUE)) /\ top \in cache'
    BY <1>1, <2>1
  <2>3. /\ Stream!NewTemplate(top, TRUE) \in Stream!Message
        /\ Stream!NewTemplate(top, TRUE).template = top
    BY <1>1, <1>2, <2>1, NewestIsTemplate DEF Stream!NewTemplate
  <2>4. \A id \in Ids : Needed(id)' => Needed(id) /\ (id \in cache => id \in cache')
    BY <1>1, <1>5, SameNeeded
  <2>5. RecentTemplatesKept
    BY DEF CacheInv
  <2> QED
    BY <2>2, <2>3, <2>4, <2>5, KeptAfterSending
<1> QED
  BY <1>7, <1>8, <1>9 DEF CacheInv

\* The tip is told, the cache pruned, and a task sleeps over the superseded.
LEMMA CacheAtPrevHash ==
  ASSUME TipInv, DataTypes, CacheInv, BootstrapPrevHash \/ PublishTipPrevHash
  PROVE  CacheInv'
<1> DEFINE m == Stream!SetNewPrevHash(Newest)
           new == [ids |-> doomed, left |-> StaleDelay]
<1>1. /\ stage \in HalfAnnounced /\ stage' \in {"start", "gate"}
      /\ fetched' = fetched /\ outgoing' = Append(outgoing, m)
      /\ cache' = Pruned(cache) /\ doomed' = {}
      /\ UNCHANGED <<staleIds, currentPrevHash, superseded>>
      /\ \/ stage = "bootstrapped" /\ staleTasks' = staleTasks
         \/ stage = "announced" /\ staleTasks' = staleTasks \cup {new}
  BY DEF BootstrapPrevHash, PublishTipPrevHash, SendPrevHash, HalfAnnounced, history
<1>2. /\ PromiseInv /\ Superseded' = Superseded /\ cache' \subseteq cache /\ cache \subseteq Ids
      /\ StaleDelay \in Nat /\ \A i \in Superseded : superseded[i] \in Nat
      /\ Newest \in Ids
  BY <1>1, IdsAre, ProviderAssumption DEF TipInv, Superseded, Pruned, DataTypes, HalfAnnounced
<1>3. new.ids = doomed /\ new.left = StaleDelay
  OBVIOUS
<1> HIDE DEF m, new
<1>4. TaskInv'
  <2>1. doomed' \subseteq Superseded' /\ staleIds' \subseteq Superseded'
    BY <1>1, <1>2 DEF CacheInv, TaskInv
  <2>2. ASSUME NEW task \in staleTasks', NEW id \in task.ids
        PROVE  id \in Superseded' /\ superseded'[id] + task.left >= StaleDelay
    <3>1. CASE task \in staleTasks
      BY <1>1, <1>2, <3>1 DEF CacheInv, TaskInv
    <3>2. CASE task = new
      <4>1. id \in Superseded
        BY <1>3, <3>2 DEF CacheInv, TaskInv
      <4> QED
        BY <1>1, <1>2, <1>3, <3>2, <4>1
    <3> QED
      BY <1>1, <3>1, <3>2
  <2>3. ASSUME NEW id \in cache' \cap Superseded'
        PROVE  \E task \in staleTasks' :
                 id \in task.ids /\ superseded'[id] + task.left <= StaleDelay
    <3>1. CASE \E task \in staleTasks : id \in task.ids /\ superseded[id] + task.left <= StaleDelay
      BY <1>1, <3>1
    <3>2. CASE id \in doomed /\ superseded[id] = 0 /\ stage = "announced"
      BY <1>1, <1>2, <1>3, <3>2
    <3> QED
      BY <1>1, <1>2, <3>1, <3>2 DEF CacheInv, TaskInv, HalfAnnounced
  <2> QED
    BY <2>1, <2>2, <2>3 DEF TaskInv
<1>5. CurrentInv'
  <2>1. \A id \in cache' \ Superseded' : TipOf(id)' = currentPrevHash'
    BY <1>1, <1>2 DEF CacheInv, CurrentInv, TipOf
  <2>2. cache' \ Superseded' \subseteq cache \ Superseded
    BY <1>2
  <2>3. Cardinality(cache' \ Superseded') <= MaxRetained
    <3>1. cache \ Superseded \in SUBSET Ids
      BY <1>2
    <3>2. /\ Cardinality(cache' \ Superseded') <= Cardinality(cache \ Superseded)
          /\ Cardinality(cache' \ Superseded') \in Nat /\ Cardinality(cache \ Superseded) \in Nat
      BY <1>2, <2>2, <3>1, SomeOfIdsAreFinite
    <3>3. Cardinality(cache \ Superseded) <= MaxRetained
      BY DEF CacheInv, CurrentInv
    <3> QED
      BY <3>2, <3>3, ProviderAssumption
  <2>4. stage' \notin Pending \cup {"boot", "bootstrapping", "bootstrapped"}
    BY <1>1 DEF Pending
  <2> HIDE DEF Superseded
  <2> QED
    BY <2>1, <2>3, <2>4 DEF CurrentInv
<1>6. RecentTemplatesKept'
  <2>1. PICK top : top = Newest
    OBVIOUS
  <2>2. /\ outgoing' = Append(outgoing, Stream!SetNewPrevHash(top))
        /\ Stream!SetNewPrevHash(top) \in Stream!Message
        /\ Stream!SetNewPrevHash(top).template = top
    BY <1>1, <1>2, <2>1, NewestIsTemplate DEF Stream!SetNewPrevHash, m, HalfAnnounced
  <2>3. ASSUME NEW id PROVE Needed(id)' => Needed(id)
    <3>1. superseded' = superseded /\ Superseded' = Superseded /\ fetched' = fetched
      BY <1>1, <1>2
    <3> QED
      BY <3>1, SameNeeded
  <2>4. \A id \in Ids : Needed(id) /\ id \in cache => id \in cache'
    BY <1>1, <1>2, PrunedKeeps DEF Needed
  <2>5. Needed(top)' => top \in cache'
    <3>1. Needed(top) => top \in cache
      BY <1>1, <2>1, AnnouncedAreIds, KeptIsNeeded DEF CacheInv
    <3> QED
      BY <1>2, <2>1, <2>3, <2>4, <3>1
  <2>6. RecentTemplatesKept
    BY DEF CacheInv
  <2> QED
    BY <2>2, <2>3, <2>4, <2>5, <2>6, KeptAfterSending
<1> QED
  BY <1>4, <1>5, <1>6 DEF CacheInv

\* A refresh is stored and the cache pruned.
LEMMA CacheAtRefresh ==
  ASSUME TipInv, DataTypes, CacheInv, PublishRefresh
  PROVE  CacheInv'
<1>1. /\ stage \in {"fetched", "sleeping"} /\ stage' = "gate"
      /\ fetched' = fetched /\ cache' = Pruned(cache \cup {Newest})
      /\ outgoing' = Append(outgoing, Stream!NewTemplate(Newest, FALSE))
      /\ UNCHANGED <<staleIds, staleTasks, doomed, currentPrevHash, superseded>>
  BY DEF PublishRefresh, SendRefresh, history
<1>2. /\ PromiseInv /\ Superseded' = Superseded /\ cache' \subseteq cache \cup {Newest}
      /\ cache \subseteq Ids /\ Newest \in Ids /\ Newest \notin Superseded
      /\ TipOf(Newest) = currentPrevHash
  <2>1. PromiseInv /\ Superseded' = Superseded /\ cache' \subseteq cache \cup {Newest}
    BY <1>1 DEF TipInv, Superseded, Pruned
  <2>2. Newest \in Ids /\ cache \subseteq Ids
    BY <1>1, <2>1, IdsAre DEF DataTypes
  <2>3. Newest \notin Superseded
    BY <1>1 DEF CacheInv, CurrentInv, Pending
  <2>4. TipOf(Newest) = currentPrevHash
    BY DEF PublishRefresh, TipChanged, TipInv
  <2> QED
    BY <2>1, <2>2, <2>3, <2>4
<1>3. TaskInv'
  BY <1>1, <1>2 DEF CacheInv, TaskInv
<1>4. CurrentInv'
  <2>1. \A id \in cache' \ Superseded' : TipOf(id) = currentPrevHash
    BY <1>1, <1>2 DEF CacheInv, CurrentInv
  <2>2. cache' \ Superseded' \in SUBSET Pruned(cache \cup {Newest})
    BY <1>1
  <2>3. cache \cup {Newest} \in SUBSET Ids
    BY <1>2
  <2>4. Cardinality(cache' \ Superseded') <= MaxRetained
    <3>1. PICK k : k = cache' \ Superseded'
      OBVIOUS
    <3>2. /\ k \in SUBSET Pruned(cache \cup {Newest})
          /\ \A i \in k : TipOf(i) = TipOf(Newest)
      BY <1>2, <2>1, <2>2, <3>1
    <3>3. Cardinality(k) <= MaxRetained
      <4>1. PICK ids : ids = cache \cup {Newest}
        OBVIOUS
      <4> QED
        BY <1>2, <2>3, <3>2, <4>1, PrunedIsBounded
    <3> QED
      BY <3>1, <3>3
  <2>5. \A id \in cache' \ Superseded' : TipOf(id)' = currentPrevHash'
    BY <1>1, <2>1 DEF TipOf
  <2>6. stage' \notin Pending \cup {"boot", "bootstrapping", "bootstrapped"}
    BY <1>1 DEF Pending
  <2> HIDE DEF Superseded
  <2> QED
    BY <2>4, <2>5, <2>6 DEF CurrentInv
<1>5. RecentTemplatesKept'
  <2>1. PICK top : top = Newest
    OBVIOUS
  <2>2. /\ outgoing' = Append(outgoing, Stream!NewTemplate(top, FALSE))
        /\ Stream!NewTemplate(top, FALSE) \in Stream!Message
        /\ Stream!NewTemplate(top, FALSE).template = top
    BY <1>1, <1>2, <2>1, NewestIsTemplate DEF Stream!NewTemplate
  <2>3. ASSUME NEW id PROVE Needed(id)' => Needed(id)
    <3>1. superseded' = superseded /\ Superseded' = Superseded /\ fetched' = fetched
      BY <1>1, <1>2
    <3> QED
      BY <3>1, SameNeeded
  <2>4. \A id \in cache \cup {Newest} : Needed(id) => id \in cache'
    <3>1. cache \cup {Newest} \in SUBSET Ids
      BY <1>2
    <3> QED
      BY <1>1, <1>2, <3>1, PrunedKeeps DEF Needed
  <2>5. RecentTemplatesKept
    BY DEF CacheInv
  <2> QED
    BY <2>1, <2>2, <2>3, <2>4, <2>5, KeptAfterSending
<1> QED
  BY <1>3, <1>4, <1>5 DEF CacheInv

\* A template is fetched: no other is needed because of it.
LEMMA CacheAtFetch ==
  ASSUME TipInv, PromiseInv', DataTypes, CacheInv, CreateNewBlock \/ WaitNextReturns
  PROVE  CacheInv'
<1>1. /\ fetched' = Append(fetched, coreTip)
      /\ \/ stage = "boot" /\ stage' = "bootstrapping"
         \/ stage = "waiting" /\ stage' = "fetched"
      /\ UNCHANGED <<outgoing, cache, staleIds, staleTasks, doomed, currentPrevHash, superseded>>
  BY DEF CreateNewBlock, WaitNextReturns, Fetch, templates, history
<1>2. PromiseInv /\ cache \subseteq Ids /\ Superseded \subseteq Ids /\ Superseded' = Superseded
  BY <1>1 DEF TipInv, DataTypes, Superseded
<1>3. /\ Len(fetched') = Len(fetched) + 1 /\ Ids' = Ids \cup {Newest'} /\ Newest' \notin Ids
      /\ \A i \in Ids : TipOf(i)' = TipOf(i)
      /\ Len(fetched') \in Nat
  BY <1>1, <1>2, Fetching, LenProperties DEF PromiseInv
<1>4. TaskInv'
  BY <1>1, <1>2 DEF CacheInv, TaskInv
<1>5. CurrentInv'
  <2>1. stage = "boot" => Len(fetched') = 1 /\ doomed' = {}
    BY <1>1, <1>2, <1>3 DEF PromiseInv, CacheInv, CurrentInv
  <2>2. \A id \in cache' \ Superseded' : TipOf(id)' = currentPrevHash'
    BY <1>1, <1>2, <1>3 DEF CacheInv, CurrentInv
  <2>3. Newest' \notin cache' \cup Superseded'
    BY <1>1, <1>2, <1>3
  <2>4. Cardinality(cache' \ Superseded') <= MaxRetained
    BY <1>1, <1>2 DEF CacheInv, CurrentInv
  <2> HIDE DEF Superseded
  <2> QED
    BY <1>1, <2>1, <2>2, <2>3, <2>4 DEF CurrentInv
<1>6. RecentTemplatesKept'
  <2> SUFFICES ASSUME NEW n \in DOMAIN outgoing', NEW id, id = outgoing'[n].template, Needed(id)'
               PROVE  id \in cache'
    BY KeptPrimed
  <2>1. n \in DOMAIN outgoing /\ id = outgoing[n].template /\ id \in Ids
    BY <1>1, AnnouncedAreIds
  <2>2. NewerThan(id) \subseteq NewerThan(id)'
    BY <1>3, <2>1 DEF NewerThan
  <2>3. IsFiniteSet(Ids') /\ NewerThan(id)' \in SUBSET Ids'
    BY <1>3, FS_Interval DEF Ids, NewerThan
  <2>4. IsFiniteSet(NewerThan(id)')
    BY <2>3, FS_Subset
  <2>5. /\ Cardinality(NewerThan(id)) <= Cardinality(NewerThan(id)')
        /\ Cardinality(NewerThan(id)) \in Nat /\ Cardinality(NewerThan(id)') \in Nat
    BY <2>2, <2>4, FS_Subset, FS_CardinalityType
  <2>6. Cardinality(NewerThan(id)') < MaxRetained /\ (id \in Superseded' => superseded'[id] < StaleDelay)
    BY DEF Needed
  <2>7. Needed(id)
    <3>1. Cardinality(NewerThan(id)) < MaxRetained
      BY <2>5, <2>6, ProviderAssumption
    <3> QED
      BY <1>1, <1>2, <2>6, <3>1 DEF Needed
  <2> QED
    BY <1>1, <2>1, <2>7, KeptIsNeeded DEF CacheInv
<1> QED
  BY <1>4, <1>5, <1>6 DEF CacheInv

\* A task wakes up: what it removes has been superseded for the delay.
LEMMA CacheAtMarkStale ==
  ASSUME TipInv, DataTypes, CacheInv, NEW task \in staleTasks, MarkStale(task)
  PROVE  CacheInv'
<1>1. /\ task.left = 0 /\ stage \notin {"bootstrapped", "announced", "done"}
      /\ staleTasks' = staleTasks \ {task} /\ staleIds' = task.ids /\ cache' = cache \ task.ids
      /\ UNCHANGED <<outgoing, stage, fetched, doomed, currentPrevHash, superseded>>
  BY DEF MarkStale, monitor, history
<1>2. /\ PromiseInv /\ cache \subseteq Ids /\ Superseded' = Superseded
      /\ Newest' = Newest /\ \A i : TipOf(i)' = TipOf(i)
  BY <1>1 DEF TipInv, DataTypes, Superseded, Newest, TipOf
<1>3. \A id \in task.ids : id \in Superseded /\ ~ (superseded[id] < StaleDelay)
  <2>1. \A id \in task.ids : id \in Superseded /\ superseded[id] + 0 >= StaleDelay
    BY <1>1 DEF CacheInv, TaskInv
  <2> QED
    BY <2>1, ProviderAssumption DEF DataTypes
<1>4. TaskInv'
  <2>1. staleIds' \subseteq Superseded' /\ doomed' \subseteq Superseded'
    BY <1>1, <1>2, <1>3 DEF CacheInv, TaskInv
  <2>2. \A t \in staleTasks' : \A id \in t.ids :
          id \in Superseded' /\ superseded'[id] + t.left >= StaleDelay
    BY <1>1, <1>2 DEF CacheInv, TaskInv
  <2>3. \A id \in cache' \cap Superseded' :
          \E t \in staleTasks' : id \in t.ids /\ superseded'[id] + t.left <= StaleDelay
    BY <1>1, <1>2 DEF CacheInv, TaskInv
  <2> QED
    BY <2>1, <2>2, <2>3 DEF TaskInv
<1>5. CurrentInv'
  <2>1. cache' \ Superseded' = cache \ Superseded
    BY <1>1, <1>2, <1>3
  <2> HIDE DEF Superseded
  <2> QED
    BY <1>1, <1>2, <2>1 DEF CacheInv, CurrentInv
<1>6. RecentTemplatesKept'
  <2> SUFFICES ASSUME NEW n \in DOMAIN outgoing', NEW id, id = outgoing'[n].template, Needed(id)'
               PROVE  id \in cache'
    BY KeptPrimed
  <2>1. Needed(id)
    <3>1. superseded' = superseded /\ Superseded' = Superseded /\ fetched' = fetched
      BY <1>1, <1>2
    <3> QED
      BY <3>1, SameNeeded
  <2>2. id \in cache
    BY <1>1, <2>1, KeptIsNeeded DEF CacheInv
  <2>3. id \notin task.ids
    BY <1>3, <2>1 DEF Needed
  <2> QED
    BY <1>1, <2>2, <2>3
<1> QED
  BY <1>4, <1>5, <1>6 DEF CacheInv

\* Time passes: ages and delays move towards each other.
LEMMA CacheAtTick ==
  ASSUME TipInv, DataTypes, CacheInv, Tick
  PROVE  CacheInv'
<1>1. /\ stage \in {"idle", "throttled", "waiting", "sleeping"}
      /\ \A task \in staleTasks : task.left > 0
      /\ staleTasks' = {[task EXCEPT !.left = @ - 1] : task \in staleTasks}
      /\ superseded' = [i \in Superseded |-> Older(superseded[i], StaleDelay + 1)]
      /\ UNCHANGED <<outgoing, stage, fetched, cache, staleIds, doomed, currentPrevHash>>
  BY DEF Tick, Quiet, Superseded
<1>2. Superseded' = Superseded /\ Newest' = Newest /\ \A i : TipOf(i)' = TipOf(i)
  BY <1>1 DEF Superseded, Newest, TipOf
<1>3. StaleDelay \in Nat /\ \A i \in Superseded : superseded[i] \in 0..(StaleDelay + 1)
  BY ProviderAssumption DEF DataTypes
<1>4. \A i \in Superseded :
        superseded'[i] = IF superseded[i] >= StaleDelay + 1 THEN superseded[i] ELSE superseded[i] + 1
  BY <1>1, <1>3, OlderType
<1>5. \A task \in staleTasks :
        /\ task.left \in Nat
        /\ [task EXCEPT !.left = @ - 1].ids = task.ids
        /\ [task EXCEPT !.left = @ - 1].left = task.left - 1
  BY <1>3 DEF DataTypes, TaskType
<1>6. TaskInv'
  <2>1. staleIds' \subseteq Superseded' /\ doomed' \subseteq Superseded'
    BY <1>1, <1>2 DEF CacheInv, TaskInv
  <2>2. ASSUME NEW t \in staleTasks', NEW id \in t.ids
        PROVE  id \in Superseded' /\ superseded'[id] + t.left >= StaleDelay
    <3>1. PICK task \in staleTasks : t = [task EXCEPT !.left = @ - 1]
      BY <1>1
    <3>2. id \in task.ids /\ t.left = task.left - 1 /\ task.left \in Nat
      BY <1>5, <2>2, <3>1
    <3>3. id \in Superseded /\ superseded[id] + task.left >= StaleDelay /\ task.left > 0
      BY <1>1, <3>2 DEF CacheInv, TaskInv
    <3> QED
      BY <1>2, <1>3, <1>4, <3>2, <3>3
  <2>3. ASSUME NEW id \in cache' \cap Superseded'
        PROVE  \E t \in staleTasks' : id \in t.ids /\ superseded'[id] + t.left <= StaleDelay
    <3>1. PICK task \in staleTasks : id \in task.ids /\ superseded[id] + task.left <= StaleDelay
      BY <1>1, <1>2, <2>3 DEF CacheInv, TaskInv
    <3>2. PICK t \in staleTasks' : t = [task EXCEPT !.left = @ - 1]
      BY <1>1
    <3>3. id \in t.ids /\ t.left = task.left - 1 /\ task.left \in Nat /\ task.left > 0
      BY <1>1, <1>5, <3>1, <3>2
    <3>4. superseded'[id] + t.left <= StaleDelay
      BY <1>2, <1>3, <1>4, <2>3, <3>1, <3>3
    <3> QED
      BY <3>3, <3>4
  <2> QED
    BY <2>1, <2>2, <2>3 DEF TaskInv
<1>7. CurrentInv'
  <2> HIDE DEF Superseded
  <2> QED
    BY <1>1, <1>2 DEF CacheInv, CurrentInv
<1>8. RecentTemplatesKept'
  <2> SUFFICES ASSUME NEW n \in DOMAIN outgoing', NEW id, id = outgoing'[n].template, Needed(id)'
               PROVE  id \in cache'
    BY KeptPrimed
  <2>1. id \in Superseded => id \in Superseded' /\
          (superseded'[id] < StaleDelay => superseded[id] < StaleDelay)
    BY <1>2, <1>3, <1>4
  <2>2. Needed(id)
    BY <1>1, <2>1, SameNeeded
  <2> QED
    BY <1>1, <2>2, KeptIsNeeded DEF CacheInv
<1> QED
  BY <1>6, <1>7, <1>8 DEF CacheInv

\* The steps that move neither templates nor messages.
LEMMA CacheElsewhere ==
  ASSUME TipInv, CacheInv,
         UNCHANGED <<outgoing, fetched, cache, staleIds, staleTasks, doomed, currentPrevHash,
                     superseded>>,
         \/ stage' \in {stage, "done"}
         \/ stage \in Resting \ {"boot"} /\ stage' \in Resting \ {"boot"}
         \/ stage = "fetched" /\ stage' = "sleeping"
  PROVE  CacheInv'
<1>1. Superseded' = Superseded /\ Newest' = Newest /\ \A i : TipOf(i)' = TipOf(i)
  BY DEF Superseded, Newest, TipOf
<1>2. TaskInv'
  BY <1>1 DEF CacheInv, TaskInv, Resting
<1>3. CurrentInv'
  <2> HIDE DEF Superseded
  <2> QED
    BY <1>1 DEF CacheInv, CurrentInv, Resting, Pending
<1>4. RecentTemplatesKept'
  <2> SUFFICES ASSUME NEW n \in DOMAIN outgoing', NEW id, id = outgoing'[n].template, Needed(id)'
               PROVE  id \in cache'
    BY KeptPrimed
  <2> QED
    BY <1>1, SameNeeded, KeptIsNeeded DEF CacheInv
<1> QED
  BY <1>2, <1>3, <1>4 DEF CacheInv

LEMMA CacheStep ==
  ASSUME TipInv, TipInv', DataTypes, CacheInv, [Next]_vars
  PROVE  CacheInv'
<1>1. CASE CreateNewBlock \/ WaitNextReturns
  BY <1>1, CacheAtFetch DEF TipInv
<1>2. CASE BootstrapTemplate \/ PublishTip
  BY <1>2, CacheAtTip
<1>3. CASE BootstrapPrevHash \/ PublishTipPrevHash
  BY <1>3, CacheAtPrevHash
<1>4. CASE PublishRefresh
  BY <1>4, CacheAtRefresh
<1>5. CASE \E task \in staleTasks : MarkStale(task)
  BY <1>5, CacheAtMarkStale
<1>6. CASE Tick
  BY <1>6, CacheAtTick
<1>7. CASE Surroundings \/ UNCHANGED vars
  <2>1. UNCHANGED <<outgoing, fetched, cache, staleIds, staleTasks, doomed, currentPrevHash,
                    superseded, stage>>
    BY <1>7 DEF Surroundings, NewTip, Connect, NotifyWaiters, Disconnect, Cancel, monitor,
                templates, history, vars
  <2> QED
    BY <2>1, CacheElsewhere
<1>8. CASE \/ StartMonitor \/ EnterIdle \/ FoundInactive \/ Register \/ WakeUp \/ FoundActive
           \/ Throttle \/ EndThrottle \/ RequestWaitNext \/ WaitNextTimesOut
           \/ SleepBeforeRefresh \/ Exit \/ Fails
  <2>1. UNCHANGED <<outgoing, fetched, cache, staleIds, staleTasks, doomed, currentPrevHash,
                    superseded>>
    BY <1>8 DEF StartMonitor, EnterIdle, FoundInactive, Register, WakeUp, FoundActive, Throttle,
                EndThrottle, RequestWaitNext, WaitNextTimesOut, SleepBeforeRefresh, Exit, Fails,
                Move, templates, history
  <2>2. \/ stage' \in {stage, "done"}
        \/ stage \in Resting \ {"boot"} /\ stage' \in Resting \ {"boot"}
        \/ stage = "fetched" /\ stage' = "sleeping"
    BY <1>8 DEF StartMonitor, EnterIdle, FoundInactive, Register, WakeUp, FoundActive, Throttle,
                EndThrottle, RequestWaitNext, WaitNextTimesOut, SleepBeforeRefresh, Exit, Fails,
                Move, Resting
  <2> QED
    BY <2>1, <2>2, CacheElsewhere
<1> QED
  BY <1>1, <1>2, <1>3, <1>4, <1>5, <1>6, <1>7, <1>8 DEF Next, Bootstrap, Monitor

LEMMA CacheInit == Init => CacheInv
<1> SUFFICES ASSUME Init PROVE CacheInv
  OBVIOUS
<1>1. Superseded = {} /\ cache = {} /\ doomed = {} /\ staleIds = {} /\ staleTasks = {}
  BY DEF Init, Superseded
<1>2. Cardinality(cache \ Superseded) = 0
  BY <1>1, FS_EmptySet
<1>3. CurrentInv
  BY <1>1, <1>2, ProviderAssumption DEF Init, CurrentInv, Pending
<1>4. RecentTemplatesKept
  BY DEF Init, RecentTemplatesKept
<1> QED
  BY <1>1, <1>3, <1>4 DEF CacheInv, TaskInv

-----------------------------------------------------------------------------
ProviderInv == TipInv /\ ClockTypes /\ DataTypes /\ ClockInv /\ LateInv /\ CacheInv

LEMMA ProviderInvariant == Spec => []ProviderInv
<1>1. Init => ProviderInv
  <2> SUFFICES ASSUME Init PROVE ProviderInv
    OBVIOUS
  <2>1. outgoing = <<>> /\ DOMAIN outgoing = {} /\ stage = "boot"
    BY DEF Init
  <2>2. TipInv
    BY <2>1, InitPromise DEF TipInv, Fetched, Refreshing, Told, HalfAnnounced
  <2> QED
    BY <2>2, TypesInit, ClockInit, CacheInit DEF ProviderInv
<1>2. ProviderInv /\ [Next]_vars => ProviderInv'
  <2> SUFFICES ASSUME ProviderInv, [Next]_vars PROVE ProviderInv'
    OBVIOUS
  <2>1. TipInv /\ ClockTypes /\ DataTypes /\ ClockInv /\ LateInv /\ CacheInv
    BY DEF ProviderInv
  <2>2. TipInv'
    BY <2>1, StepTip
  <2>3. PromiseInv /\ PromiseInv'
    BY <2>1, <2>2 DEF TipInv
  <2>4. ClockTypes' /\ DataTypes' /\ ClockInv'
    BY <2>1, <2>3, ClockTypesStep, DataTypesStep, ClockStep
  <2>5. LateInv'
    BY <2>1, <2>4, LateStep
  <2>6. CacheInv'
    BY <2>1, <2>2, CacheStep
  <2> QED
    BY <2>2, <2>4, <2>5, <2>6 DEF ProviderInv
<1> QED
  BY <1>1, <1>2, PTL DEF Spec

\* Every variable keeps its type: ages stop where their timers do, and the
\* cache, the stale ids and the tasks name only templates that were fetched.
THEOREM ProviderTypes == Spec => []TypeOK
<1>1. ProviderInv => TypeOK
  BY TypeParts DEF ProviderInv, TipInv
<1> QED
  BY <1>1, ProviderInvariant, PTL

\* While somebody mines, a new tip is published within min_interval, unless
\* the monitor sleeps in the idle gate or has ended: throttle, request timeout
\* and the sleep before a refresh never add up.
THEOREM TipsComeInTime == Spec => []TipLatency
<1>1. ProviderInv => TipLatency
  BY DEF ProviderInv, LateInv, TipLatency
<1> QED
  BY <1>1, ProviderInvariant, PTL

\* The newest templates of a tip can be submitted until the delay after the tip
\* changed; none is kept longer, no more are kept, and none is stale before.
THEOREM CacheKeepsRecent == Spec => []CacheServesRecent
<1>1. ProviderInv => CacheServesRecent
  <2> SUFFICES ASSUME DataTypes, CacheInv PROVE CacheServesRecent
    BY DEF ProviderInv
  <2>1. ASSUME NEW id \in cache \cap Superseded PROVE superseded[id] <= StaleDelay
    <3>1. StaleDelay \in Nat /\ superseded[id] \in 0..(StaleDelay + 1)
      BY ProviderAssumption DEF DataTypes
    <3>2. CASE superseded[id] = 0
      BY <3>1, <3>2
    <3>3. CASE \E task \in staleTasks : superseded[id] + task.left <= StaleDelay
      <4>1. PICK task \in staleTasks : superseded[id] + task.left <= StaleDelay
        BY <3>3
      <4>2. task.left \in Nat
        BY <3>1 DEF DataTypes, TaskType
      <4> QED
        BY <3>1, <4>1, <4>2
    <3> QED
      BY <3>2, <3>3 DEF CacheInv, TaskInv
  <2> QED
    BY <2>1 DEF CacheServesRecent, SupersededForgotten, CacheInv, TaskInv, CurrentInv, Superseded
<1> QED
  BY <1>1, ProviderInvariant, PTL
=============================================================================
