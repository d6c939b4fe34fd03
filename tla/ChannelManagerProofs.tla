------------------------ MODULE ChannelManagerProofs ------------------------
(***************************************************************************)
(* The ChannelManager, for every number of connections, addresses,         *)
(* templates and messages.  In four parts, each on an inductive invariant: *)
(*   - LifeInv: how the stage of a connection's task, the removals under   *)
(*     way and the queue of its messages exclude each other.  The          *)
(*     ChannelManager hears of a connection only once its task runs, so no *)
(*     removal meets a connection that is still entering the maps.         *)
(*     CountInv, ChannelInv and DepartureInv build on it: the counter is   *)
(*     exact, the tables of channels agree, the departed are forgotten;    *)
(*   - StreamInv: what the queue of the provider's messages, seen from the *)
(*     end where they are taken, says of the tip.  The token is cancelled  *)
(*     between a tip's two messages only;                                  *)
(*   - TypeInv: the types, which need both: a channel's first job is made  *)
(*     of a template that must have arrived;                               *)
(*   - JobsInv and PaysInv: the jobs of a channel, as the server holds     *)
(*     them, as its client does, and whom they pay.                        *)
(***************************************************************************)
EXTENDS ChannelManager, FiniteSetTheorems, SequenceTheorems, TLAPS

Task == Downstream \cup {CM}

\* Stages in which a connection may be the target of a removal, or be mapped.
Entered == {"running", "left"}
Mapped == {"inserted", "started"} \cup Entered

LifeTypes ==
  /\ stage \in [Downstream -> {"idle", "bootstrapped", "failed", "registered"} \cup Mapped]
  /\ removal \in [Task -> [step : {"none", "record", "unmap", "decrement", "unsend"},
                           target : Downstream \cup {None}]]
  /\ queued \in [Downstream -> Nat]
  /\ conns \subseteq Downstream /\ senders \subseteq Downstream
  /\ active \in Nat /\ running \in BOOLEAN

\* A task of a connection removes nothing before it leaves; what is removed has
\* entered the maps, and is unmapped before it is uncounted.
RemovalsOrdered ==
  /\ \A d \in Downstream : removal[d].step # "none" => stage[d] = "left"
  /\ \A p \in Task : removal[p].step # "none" =>
       removal[p].target \in Downstream /\ stage[removal[p].target] \in Entered
  /\ \A p \in Task : removal[p].step \in {"decrement", "unsend"} =>
       removal[p].target \notin conns

MapsFollowStages ==
  /\ \A d \in Downstream : queued[d] > 0 => stage[d] \in Entered
  /\ \A d \in conns : stage[d] \in Mapped
  /\ \A d \in Downstream : stage[d] = "inserted" => d \in conns
  /\ \A d \in Downstream : running /\ stage[d] = "registered" => d \in senders

LifeInv == LifeTypes /\ RemovalsOrdered /\ MapsFollowStages /\ ConnsHaveSenders

-----------------------------------------------------------------------------
(***************************************************************************)
(* What the actions that are not about the life of a connection do to it:  *)
(* at most, they take a message from a queue, or end the loop.             *)
(***************************************************************************)
AtMostTakes ==
  /\ UNCHANGED <<stage, removal, conns, senders, active, running>>
  /\ \/ queued' = queued
     \/ \E d \in Downstream : queued[d] > 0 /\ queued' = [queued EXCEPT ![d] = @ - 1]

EndsLoop == CloseIo /\ UNCHANGED <<stage, removal, conns, active>>

Handler(d) ==
  \/ \E addr \in Address : \/ HandleOpenStandardMiningChannel(d, addr)
                           \/ HandleOpenExtendedMiningChannel(d, addr)
                           \/ OpenRefused(d, addr)
  \/ \E c \in ChannelId : HandleCloseChannel(d, c)
  \/ HandleWithoutEffect(d)

LEMMA ProviderTakesNothing == Provider => AtMostTakes
BY DEF Provider, SendNewTemplate, SendSetNewPrevHash, AtMostTakes, maps, tasks, pool

LEMMA TemplatesTakeNothing ==
  HandleNewTemplate \/ HandleSetNewPrevHash \/ StopOnCancellation => AtMostTakes \/ EndsLoop
<1>1. HandleNewTemplate => AtMostTakes
  BY DEF HandleNewTemplate, AtMostTakes, tasks, pool
<1>2. HandleSetNewPrevHash => AtMostTakes \/ EndsLoop
  <2> SUFFICES ASSUME HandleSetNewPrevHash PROVE AtMostTakes \/ EndsLoop
    OBVIOUS
  <2>1. UNCHANGED <<stage, removal, conns, active>>
    BY DEF HandleSetNewPrevHash
  <2>2. UNCHANGED <<senders, queued, pool>> \/ Shutdown
    BY DEF HandleSetNewPrevHash
  <2>3. QED
    BY <2>1, <2>2 DEF AtMostTakes, EndsLoop, Shutdown, pool
<1>3. StopOnCancellation => EndsLoop
  BY DEF StopOnCancellation, EndsLoop
<1>4. QED
  BY <1>1, <1>2, <1>3

LEMMA HandlersTakeOne ==
  ASSUME NEW d \in Downstream, Handler(d)
  PROVE  AtMostTakes \/ EndsLoop
<1>1. ASSUME NEW addr \in Address, HandleOpenStandardMiningChannel(d, addr)
      PROVE  AtMostTakes \/ EndsLoop
  <2>1. UNCHANGED <<stage, removal, conns, active>> /\ queued[d] > 0
    BY <1>1 DEF HandleOpenStandardMiningChannel, CanOpen, Receives
  <2>2. \/ Taken(d) /\ UNCHANGED <<senders, pool>>
        \/ Shutdown
    BY <1>1 DEF HandleOpenStandardMiningChannel, OpenSucceeds, OpenFails
  <2>3. QED
    BY <2>1, <2>2 DEF AtMostTakes, EndsLoop, Shutdown, Taken, pool
<1>2. ASSUME NEW addr \in Address, HandleOpenExtendedMiningChannel(d, addr)
      PROVE  AtMostTakes \/ EndsLoop
  <2>1. UNCHANGED <<stage, removal, conns, active>> /\ queued[d] > 0
    BY <1>2 DEF HandleOpenExtendedMiningChannel, CanOpen, Receives
  <2>2. \/ Taken(d) /\ UNCHANGED <<senders, pool>>
        \/ Shutdown
    BY <1>2 DEF HandleOpenExtendedMiningChannel, OpenSucceeds, OpenFails
  <2>3. QED
    BY <2>1, <2>2 DEF AtMostTakes, EndsLoop, Shutdown, Taken, pool
<1>3. ASSUME NEW addr \in Address, OpenRefused(d, addr)
      PROVE  AtMostTakes
  BY <1>3 DEF OpenRefused, CanOpen, Receives, Taken, AtMostTakes, pool
<1>4. ASSUME NEW c \in ChannelId, HandleCloseChannel(d, c)
      PROVE  AtMostTakes
  BY <1>4 DEF HandleCloseChannel, Receives, Taken, AtMostTakes, pool
<1>5. HandleWithoutEffect(d) => AtMostTakes
  BY DEF HandleWithoutEffect, Receives, Taken, AtMostTakes, maps, pool
<1>6. QED
  BY <1>1, <1>2, <1>3, <1>4, <1>5 DEF Handler

\* Every step is of one of these kinds.
LEMMA StepKinds ==
  ASSUME [Next]_vars
  PROVE  \/ AtMostTakes \/ EndsLoop
         \/ \E d \in Downstream : Connection(d) \/ HandlerDisconnects(d)
         \/ \E p \in Task : RemoveDownstream(p)
<1>1. CASE UNCHANGED vars
  BY <1>1 DEF vars, maps, tasks, pool, AtMostTakes
<1>2. CASE Provider
  BY <1>2, ProviderTakesNothing
<1>3. ASSUME NEW d \in Downstream, HandleMining(d)
      PROVE  Handler(d) \/ HandlerDisconnects(d)
  BY <1>3 DEF HandleMining, Handler
<1>4. QED
  BY <1>1, <1>2, <1>3, HandlersTakeOne, TemplatesTakeNothing DEF Next, Task

-----------------------------------------------------------------------------
LEMMA InitLife == Init => LifeInv
BY ManagerAssumption
DEF Init, LifeInv, LifeTypes, RemovalsOrdered, MapsFollowStages, ConnsHaveSenders,
    NoRemoval, Task, Mapped, Entered

LEMMA TakesLife == LifeInv /\ (AtMostTakes \/ EndsLoop) => LifeInv'
<1> SUFFICES ASSUME LifeInv, AtMostTakes \/ EndsLoop PROVE LifeInv'
  OBVIOUS
<1> USE DEF LifeInv
<1>1. CASE AtMostTakes
  <2>1. queued' \in [Downstream -> Nat] /\ \A d \in Downstream : queued'[d] > 0 => queued[d] > 0
    BY <1>1 DEF AtMostTakes, LifeTypes
  <2>2. QED
    BY <1>1, <2>1
    DEF AtMostTakes, LifeTypes, RemovalsOrdered, MapsFollowStages, ConnsHaveSenders
<1>2. CASE EndsLoop
  <2>1. /\ queued' \in [Downstream -> Nat] /\ \A d \in Downstream : ~ (queued'[d] > 0)
        /\ running' = FALSE /\ senders' = {}
        /\ UNCHANGED <<stage, removal, conns, active>>
    BY <1>2 DEF EndsLoop, CloseIo
  <2>2. LifeTypes' /\ RemovalsOrdered' /\ ConnsHaveSenders'
    BY <2>1 DEF LifeTypes, RemovalsOrdered, ConnsHaveSenders
  <2>3. MapsFollowStages'
    BY <2>1 DEF MapsFollowStages
  <2>4. QED
    BY <2>2, <2>3
<1>3. QED
  BY <1>1, <1>2

\* The steps of a connection's own task.
LEMMA ConnectionLife ==
  ASSUME LifeInv, NEW d \in Downstream, Connection(d)
  PROVE  LifeInv'
<1> USE DEF LifeInv, Mapped, Entered
<1>1. /\ stage \in [Downstream -> {"idle", "bootstrapped", "failed", "registered"} \cup Mapped]
      /\ removal[d].step # "none" => stage[d] = "left"
      /\ d \in Task
  BY DEF LifeTypes, RemovalsOrdered, Task
<1>2. CASE BootstrapGroupChannel(d)
  <2>1. /\ stage[d] = "idle"
        /\ stage' = [stage EXCEPT ![d] = "bootstrapped"] \/ stage' = [stage EXCEPT ![d] = "failed"]
        /\ UNCHANGED <<removal, queued, conns, senders, active, running>>
    BY <1>2 DEF BootstrapGroupChannel
  <2>2. QED
    BY <1>1, <2>1 DEF LifeTypes, RemovalsOrdered, MapsFollowStages, ConnsHaveSenders
<1>3. CASE RegisterSender(d)
  <2>1. /\ stage[d] = "bootstrapped" /\ stage' = [stage EXCEPT ![d] = "registered"]
        /\ senders' = senders \cup {d}
        /\ UNCHANGED <<removal, queued, conns, active, running>>
    BY <1>3 DEF RegisterSender, pool
  <2>2. QED
    BY <1>1, <2>1 DEF LifeTypes, RemovalsOrdered, MapsFollowStages, ConnsHaveSenders
<1>4. CASE InsertDownstream(d)
  <2>1. /\ stage[d] = "registered" /\ stage' = [stage EXCEPT ![d] = "inserted"]
        /\ conns' = conns \cup {d}
        /\ UNCHANGED <<removal, queued, senders, active, running>>
    BY <1>4 DEF InsertDownstream, pool
  <2>2. QED
    BY <1>1, <2>1 DEF LifeTypes, RemovalsOrdered, MapsFollowStages, ConnsHaveSenders
<1>5. CASE IncrementActiveDownstreams(d)
  <2>1. /\ stage[d] = "inserted" /\ stage' = [stage EXCEPT ![d] = "started"]
        /\ active' = active + 1
        /\ UNCHANGED <<removal, queued, conns, senders, running>>
    BY <1>5 DEF IncrementActiveDownstreams, pool
  <2>2. QED
    BY <1>1, <2>1 DEF LifeTypes, RemovalsOrdered, MapsFollowStages, ConnsHaveSenders
<1>6. CASE \E flags \in Flags : SetupConnection(d, flags)
  <2>1. /\ stage[d] = "started" /\ stage' = [stage EXCEPT ![d] = "running"]
        /\ UNCHANGED <<removal, queued, conns, senders, active, running>>
    BY <1>6 DEF SetupConnection, pool
  <2>2. QED
    BY <1>1, <2>1 DEF LifeTypes, RemovalsOrdered, MapsFollowStages, ConnsHaveSenders
<1>7. CASE ForwardMiningMessage(d)
  <2>1. /\ stage[d] = "running" /\ queued' = [queued EXCEPT ![d] = @ + 1]
        /\ UNCHANGED <<stage, removal, conns, senders, active, running>>
    BY <1>7 DEF ForwardMiningMessage, maps, pool
  <2>2. QED
    BY <1>1, <2>1 DEF LifeTypes, RemovalsOrdered, MapsFollowStages, ConnsHaveSenders
<1>8. CASE Disconnect(d)
  <2>1. /\ stage[d] \in {"started", "running"} /\ stage' = [stage EXCEPT ![d] = "left"]
        /\ removal' = [removal EXCEPT ![d] = [step |-> "record", target |-> d]]
        /\ UNCHANGED <<queued, conns, senders, active, running>>
    BY <1>8 DEF Disconnect, maps, pool
  <2>2. LifeTypes' /\ MapsFollowStages' /\ ConnsHaveSenders'
    BY <1>1, <2>1 DEF LifeTypes, MapsFollowStages, ConnsHaveSenders
  <2>3. \A p \in Task : p # d => removal'[p] = removal[p]
    BY <2>1 DEF LifeTypes
  <2>4. removal'[d] = [step |-> "record", target |-> d] /\ stage'[d] = "left"
    BY <1>1, <2>1 DEF LifeTypes
  <2>5. \A e \in Downstream : stage[e] \in Entered => stage'[e] \in Entered
    BY <1>1, <2>1
  <2>6. RemovalsOrdered'
    BY <1>1, <2>1, <2>3, <2>4, <2>5 DEF RemovalsOrdered, Task
  <2>7. QED
    BY <2>2, <2>6
<1>9. QED
  BY <1>2, <1>3, <1>4, <1>5, <1>6, <1>7, <1>8 DEF Connection

\* A handler hands a connection to remove_downstream.
LEMMA HandlerDisconnectsLife ==
  ASSUME LifeInv, NEW d \in Downstream, HandlerDisconnects(d)
  PROVE  LifeInv'
<1> USE DEF LifeInv
<1>1. /\ queued[d] > 0 /\ removal[CM].step = "none"
      /\ queued' = [queued EXCEPT ![d] = @ - 1]
      /\ UNCHANGED <<stage, conns, senders, active, running>>
  BY DEF HandlerDisconnects, Receives, Ready, Taken, maps, pool
<1>2. \/ removal' = removal
      \/ removal' = [removal EXCEPT ![CM] = [step |-> "record", target |-> d]]
  BY DEF HandlerDisconnects
<1>3. stage[d] \in Entered /\ CM \in Task /\ CM \notin Downstream
  BY <1>1, ManagerAssumption DEF MapsFollowStages, Task
<1>4. queued' \in [Downstream -> Nat] /\ \A e \in Downstream : queued'[e] > 0 => queued[e] > 0
  BY <1>1 DEF LifeTypes
<1>5. LifeTypes' /\ MapsFollowStages' /\ ConnsHaveSenders'
  BY <1>1, <1>2, <1>4 DEF LifeTypes, MapsFollowStages, ConnsHaveSenders
<1>6. \A p \in Task : \/ removal'[p] = removal[p]
                      \/ p = CM /\ removal'[p] = [step |-> "record", target |-> d]
  BY <1>2 DEF LifeTypes
<1>7. RemovalsOrdered'
  BY <1>1, <1>3, <1>6 DEF RemovalsOrdered, Task
<1>8. QED
  BY <1>5, <1>7

\* The four steps of remove_downstream: what they do to the task's removal.
LEMMA AfterRemoval ==
  ASSUME LifeTypes, NEW p \in Task, NEW s \in {"none", "unmap", "decrement", "unsend"},
         After(p, s)
  PROVE  /\ removal' \in [Task -> [step : {"none", "record", "unmap", "decrement", "unsend"},
                                   target : Downstream \cup {None}]]
         /\ removal'[p].step = s
         /\ s # "none" => removal'[p].target = removal[p].target
         /\ \A q \in Task : q # p => removal'[q] = removal[q]
BY DEF After, LifeTypes, NoRemoval

\* They keep the order of removals, if only an unmapped connection is uncounted.
LEMMA RemovalKeepsOrder ==
  ASSUME LifeTypes, RemovalsOrdered, stage' = stage, conns' \subseteq conns,
         NEW p \in Task, removal[p].step # "none",
         NEW s \in {"none", "unmap", "decrement", "unsend"}, After(p, s),
         s \in {"decrement", "unsend"} => removal[p].target \notin conns'
  PROVE  RemovalsOrdered'
<1>1. /\ removal'[p].step = s
      /\ s # "none" => removal'[p].target = removal[p].target
      /\ \A q \in Task : q # p => removal'[q] = removal[q]
  BY AfterRemoval
<1>2. ASSUME NEW e \in Downstream, removal'[e].step # "none" PROVE stage'[e] = "left"
  <2>1. e \in Task
    BY DEF Task
  <2>2. removal[e].step # "none"
    BY <1>1, <1>2, <2>1
  <2>3. QED
    BY <2>2 DEF RemovalsOrdered
<1>3. ASSUME NEW q \in Task, removal'[q].step # "none"
      PROVE  removal'[q].target \in Downstream /\ stage'[removal'[q].target] \in Entered
  <2>1. removal'[q].target = removal[q].target /\ removal[q].step # "none"
    BY <1>1, <1>3
  <2>2. QED
    BY <2>1 DEF RemovalsOrdered
<1>4. ASSUME NEW q \in Task, removal'[q].step \in {"decrement", "unsend"}
      PROVE  removal'[q].target \notin conns'
  BY <1>1, <1>4 DEF RemovalsOrdered
<1>5. QED
  BY <1>2, <1>3, <1>4 DEF RemovalsOrdered, Entered

LEMMA RemovalLife ==
  ASSUME LifeInv, NEW p \in Task, RemoveDownstream(p)
  PROVE  LifeInv'
<1> USE DEF LifeInv
<1> DEFINE d == removal[p].target
<1>1. removal[p].step # "none"
  BY DEF RemoveDownstream, RecordClosed, Unmap, DecrementActiveDownstreams, RemoveSender
<1>2. d \in Downstream /\ stage[d] \in Entered
  BY <1>1 DEF RemovalsOrdered
<1>3. stage' = stage /\ queued' = queued /\ running' = running
  BY DEF RemoveDownstream, RecordClosed, Unmap, DecrementActiveDownstreams, RemoveSender, pool
<1>4. removal[p].step \in {"decrement", "unsend"} => d \notin conns
  BY DEF RemovalsOrdered
<1> HIDE DEF d
<1>5. CASE RecordClosed(p)
  <2>1. After(p, "unmap") /\ UNCHANGED <<conns, senders, active>>
    BY <1>5 DEF RecordClosed
  <2>2. RemovalsOrdered'
    BY <1>1, <1>3, <2>1, RemovalKeepsOrder
  <2>3. QED
    BY <1>3, <2>1, <2>2, AfterRemoval DEF LifeTypes, MapsFollowStages, ConnsHaveSenders
<1>6. CASE Unmap(p)
  <2>1. /\ conns' = conns \ {d} /\ UNCHANGED <<senders, active>>
        /\ After(p, "decrement") \/ After(p, "unsend")
    BY <1>6 DEF Unmap, d
  <2>2. RemovalsOrdered'
    BY <1>1, <1>3, <2>1, RemovalKeepsOrder DEF d
  <2>3. MapsFollowStages'
    BY <1>2, <1>3, <2>1 DEF MapsFollowStages, Entered
  <2>4. QED
    BY <1>3, <2>1, <2>2, <2>3, AfterRemoval DEF LifeTypes, ConnsHaveSenders
<1>7. CASE DecrementActiveDownstreams(p)
  <2>1. /\ After(p, "unsend") /\ removal[p].step = "decrement"
        /\ active' = IF active = 0 THEN 0 ELSE active - 1
        /\ UNCHANGED <<conns, senders>>
    BY <1>7 DEF DecrementActiveDownstreams
  <2>2. active' \in Nat
    BY <2>1 DEF LifeTypes
  <2>3. RemovalsOrdered'
    BY <1>1, <1>3, <1>4, <2>1, RemovalKeepsOrder DEF d
  <2>4. QED
    BY <1>3, <2>1, <2>2, <2>3, AfterRemoval DEF LifeTypes, MapsFollowStages, ConnsHaveSenders
<1>8. CASE RemoveSender(p)
  <2>1. /\ After(p, "none") /\ removal[p].step = "unsend"
        /\ senders' = senders \ {d} /\ UNCHANGED <<conns, active>>
    BY <1>8 DEF RemoveSender, d
  <2>2. d \notin conns /\ stage[d] # "registered"
    BY <1>2, <1>4, <2>1 DEF Entered
  <2>3. RemovalsOrdered'
    BY <1>1, <1>3, <2>1, RemovalKeepsOrder
  <2>4. MapsFollowStages' /\ ConnsHaveSenders'
    BY <1>3, <2>1, <2>2 DEF MapsFollowStages, ConnsHaveSenders
  <2>5. QED
    BY <1>3, <2>1, <2>3, <2>4, AfterRemoval DEF LifeTypes
<1>9. QED
  BY <1>5, <1>6, <1>7, <1>8 DEF RemoveDownstream

LEMMA StepLife == LifeInv /\ [Next]_vars => LifeInv'
BY StepKinds, TakesLife, ConnectionLife, HandlerDisconnectsLife, RemovalLife

\* A message for a mapped connection finds a sender, although the two maps have
\* different locks and two tasks may remove the connection at a time.
THEOREM MappedHaveSenders == Spec => []ConnsHaveSenders
<1>1. LifeInv => ConnsHaveSenders
  BY DEF LifeInv
<1>2. QED
  BY <1>1, InitLife, StepLife, PTL DEF Spec

-----------------------------------------------------------------------------
(***************************************************************************)
(* The activity counter.  Downstream may be infinite; the sets that are    *)
(* counted are not, since every step adds or removes one element.          *)
(***************************************************************************)
Uncounting == {p \in DOMAIN removal : removal[p].step = "decrement"}
Uncounted == {d \in conns : stage[d] = "inserted"}

CountInv ==
  /\ IsFiniteSet(conns) /\ IsFiniteSet(Uncounting)
  /\ Cardinality(conns) + Cardinality(Uncounting) = active + Cardinality(Uncounted)

LEMMA CountIsActiveCounted == CountInv => ActiveCounted
BY DEF CountInv, ActiveCounted, Uncounting, Uncounted

LEMMA InitCount == Init => CountInv
<1> SUFFICES ASSUME Init PROVE CountInv
  OBVIOUS
<1>1. conns = {} /\ Uncounting = {} /\ Uncounted = {} /\ active = 0
  BY DEF Init, Uncounting, Uncounted, NoRemoval
<1>2. QED
  BY <1>1, FS_EmptySet DEF CountInv

\* The three sets are finite.
LEMMA CountFinite ==
  ASSUME CountInv
  PROVE  /\ IsFiniteSet(Uncounted)
         /\ Cardinality(conns) \in Nat /\ Cardinality(Uncounting) \in Nat
         /\ Cardinality(Uncounted) \in Nat /\ Cardinality(Uncounted) <= Cardinality(conns)
<1>1. Uncounted \in SUBSET conns /\ IsFiniteSet(conns) /\ IsFiniteSet(Uncounting)
  BY DEF Uncounted, CountInv
<1>2. IsFiniteSet(Uncounted) /\ Cardinality(Uncounted) <= Cardinality(conns)
  BY <1>1, FS_Subset
<1>3. QED
  BY <1>1, <1>2, FS_CardinalityType

\* A step that changes none of the sets.
LEMMA SameCount ==
  ASSUME CountInv, conns' = conns, Uncounting' = Uncounting, Uncounted' = Uncounted,
         active' = active
  PROVE  CountInv'
BY DEF CountInv

\* Steps of a task of removal that neither start nor end its uncounting.
LEMMA SameUncounting ==
  ASSUME LifeTypes, LifeTypes',
         \A p \in Task : removal'[p].step = "decrement" <=> removal[p].step = "decrement"
  PROVE  Uncounting' = Uncounting
BY DEF Uncounting, LifeTypes

\* Steps of a connection that neither end nor begin the stage "inserted".
LEMMA SameUncounted ==
  ASSUME conns \subseteq Downstream, conns' = conns,
         \A d \in Downstream : stage'[d] = "inserted" <=> stage[d] = "inserted"
  PROVE  Uncounted' = Uncounted
BY DEF Uncounted

LEMMA ConnectionCount ==
  ASSUME LifeInv, LifeInv', CountInv, NEW d \in Downstream, Connection(d)
  PROVE  CountInv'
<1>1. /\ LifeTypes /\ LifeTypes' /\ conns \subseteq Downstream
      /\ stage \in [Downstream -> {"idle", "bootstrapped", "failed", "registered"} \cup Mapped]
      /\ active \in Nat
  BY DEF LifeInv, LifeTypes
<1>2. CASE InsertDownstream(d)
  <2>1. /\ stage[d] = "registered" /\ stage' = [stage EXCEPT ![d] = "inserted"]
        /\ conns' = conns \cup {d} /\ removal' = removal /\ active' = active
    BY <1>2 DEF InsertDownstream
  <2>2. d \notin conns
    BY <2>1 DEF LifeInv, MapsFollowStages, Mapped, Entered
  <2>3. Uncounted' = Uncounted \cup {d} /\ d \notin Uncounted /\ Uncounting' = Uncounting
    BY <1>1, <2>1, <2>2 DEF Uncounted, Uncounting
  <2>4. /\ IsFiniteSet(conns') /\ Cardinality(conns') = Cardinality(conns) + 1
        /\ Cardinality(Uncounted') = Cardinality(Uncounted) + 1
    BY <2>1, <2>2, <2>3, CountFinite, FS_AddElement DEF CountInv
  <2>5. QED
    BY <1>1, <2>1, <2>3, <2>4, CountFinite DEF CountInv
<1>3. CASE IncrementActiveDownstreams(d)
  <2>1. /\ stage[d] = "inserted" /\ stage' = [stage EXCEPT ![d] = "started"]
        /\ active' = active + 1 /\ conns' = conns /\ removal' = removal
    BY <1>3 DEF IncrementActiveDownstreams
  <2>2. d \in conns
    BY <2>1 DEF LifeInv, MapsFollowStages
  <2>3. Uncounted' = Uncounted \ {d} /\ d \in Uncounted /\ Uncounting' = Uncounting
    BY <1>1, <2>1, <2>2 DEF Uncounted, Uncounting
  <2>4. Cardinality(Uncounted') = Cardinality(Uncounted) - 1
    BY <2>3, CountFinite, FS_RemoveElement
  <2>5. QED
    BY <1>1, <2>1, <2>3, <2>4, CountFinite DEF CountInv
<1>4. CASE \/ BootstrapGroupChannel(d) \/ RegisterSender(d) \/ ForwardMiningMessage(d)
           \/ \E flags \in Flags : SetupConnection(d, flags)
  <2>1. /\ conns' = conns /\ removal' = removal /\ active' = active
        /\ stage[d] # "inserted"
        /\ stage' = stage \/ \E s \in {"bootstrapped", "failed", "registered", "running"} :
                               stage' = [stage EXCEPT ![d] = s]
    BY <1>4 DEF BootstrapGroupChannel, RegisterSender, ForwardMiningMessage,
                SetupConnection, maps
  <2>2. QED
    BY <1>1, <2>1, SameCount, SameUncounted DEF Uncounting
<1>5. CASE Disconnect(d)
  <2>1. /\ conns' = conns /\ active' = active
        /\ stage[d] \in {"started", "running"} /\ stage' = [stage EXCEPT ![d] = "left"]
        /\ removal' = [removal EXCEPT ![d] = [step |-> "record", target |-> d]]
    BY <1>5 DEF Disconnect, maps
  <2>2. removal[d].step = "none"
    BY <2>1 DEF LifeInv, RemovalsOrdered
  <2>3. \A p \in Task : removal'[p].step = "decrement" <=> removal[p].step = "decrement"
    BY <1>1, <2>1, <2>2 DEF LifeTypes
  <2>4. QED
    BY <1>1, <2>1, <2>3, SameCount, SameUncounted, SameUncounting
<1>6. QED
  BY <1>2, <1>3, <1>4, <1>5 DEF Connection

LEMMA RemovalCount ==
  ASSUME LifeInv, LifeInv', CountInv, NEW p \in Task, RemoveDownstream(p)
  PROVE  CountInv'
<1> DEFINE d == removal[p].target
<1>1. /\ LifeTypes /\ LifeTypes' /\ conns \subseteq Downstream /\ active \in Nat
      /\ removal \in [Task -> [step : {"none", "record", "unmap", "decrement", "unsend"},
                               target : Downstream \cup {None}]]
      /\ DOMAIN removal = Task /\ DOMAIN removal' = Task
  BY DEF LifeInv, LifeTypes
<1>2. removal[p].step # "none" => stage[d] \in Entered
  BY DEF LifeInv, RemovalsOrdered
<1>3. stage' = stage
  BY DEF RemoveDownstream, RecordClosed, Unmap, DecrementActiveDownstreams, RemoveSender
<1> HIDE DEF d
<1>4. CASE RecordClosed(p) \/ RemoveSender(p) \/ (Unmap(p) /\ d \notin conns)
  <2>1. /\ conns' = conns /\ active' = active /\ removal[p].step # "decrement"
        /\ After(p, "unmap") \/ After(p, "unsend") \/ After(p, "none")
    BY <1>4 DEF RecordClosed, RemoveSender, Unmap, d
  <2>2. \A q \in Task : removal'[q].step = "decrement" <=> removal[q].step = "decrement"
    BY <1>1, <2>1, AfterRemoval
  <2>3. QED
    BY <1>1, <1>3, <2>1, <2>2, SameCount, SameUncounted, SameUncounting
<1>5. CASE Unmap(p) /\ d \in conns
  <2>1. /\ conns' = conns \ {d} /\ active' = active /\ removal[p].step = "unmap"
        /\ After(p, "decrement")
    BY <1>5 DEF Unmap, d
  <2>2. /\ removal'[p].step = "decrement"
        /\ \A q \in Task : q # p => removal'[q] = removal[q]
    BY <1>1, <2>1, AfterRemoval
  <2>3. Uncounting' = Uncounting \cup {p} /\ p \notin Uncounting
    BY <1>1, <2>1, <2>2 DEF Uncounting
  <2>4. Uncounted' = Uncounted
    BY <1>2, <1>3, <2>1 DEF Uncounted, Entered
  <2>5. /\ IsFiniteSet(conns') /\ Cardinality(conns') = Cardinality(conns) - 1
        /\ IsFiniteSet(Uncounting') /\ Cardinality(Uncounting') = Cardinality(Uncounting) + 1
    BY <1>5, <2>1, <2>3, FS_AddElement, FS_RemoveElement DEF CountInv
  <2>6. QED
    BY <1>1, <2>1, <2>4, <2>5, CountFinite DEF CountInv
<1>6. CASE DecrementActiveDownstreams(p)
  <2>1. /\ removal[p].step = "decrement" /\ After(p, "unsend") /\ conns' = conns
        /\ active' = IF active = 0 THEN 0 ELSE active - 1
    BY <1>6 DEF DecrementActiveDownstreams
  <2>2. /\ removal'[p].step = "unsend"
        /\ \A q \in Task : q # p => removal'[q] = removal[q]
    BY <1>1, <2>1, AfterRemoval
  <2>3. Uncounting' = Uncounting \ {p} /\ p \in Uncounting
    BY <1>1, <2>1, <2>2 DEF Uncounting
  <2>4. Uncounted' = Uncounted
    BY <1>3, <2>1 DEF Uncounted
  <2>5. /\ IsFiniteSet(Uncounting') /\ Cardinality(Uncounting') = Cardinality(Uncounting) - 1
    BY <2>3, FS_RemoveElement DEF CountInv
  <2>6. Cardinality(Uncounting) # 0
    BY <2>3, FS_EmptySet DEF CountInv
  <2>7. active # 0
    BY <1>1, <2>6, CountFinite DEF CountInv
  <2>8. QED
    BY <1>1, <2>1, <2>4, <2>5, <2>7, CountFinite DEF CountInv
<1>7. QED
  BY <1>4, <1>5, <1>6 DEF RemoveDownstream

LEMMA StepCount == LifeInv /\ CountInv /\ [Next]_vars => CountInv'
<1> SUFFICES ASSUME LifeInv, CountInv, [Next]_vars PROVE CountInv'
  OBVIOUS
<1>1. LifeInv'
  BY StepLife
<1>2. CASE AtMostTakes \/ EndsLoop
  <2>1. UNCHANGED <<conns, removal, stage, active>>
    BY <1>2 DEF AtMostTakes, EndsLoop
  <2>2. QED
    BY <2>1, SameCount DEF Uncounting, Uncounted
<1>3. ASSUME NEW d \in Downstream, HandlerDisconnects(d)
      PROVE  CountInv'
  <2>1. /\ UNCHANGED <<conns, stage, active>> /\ removal[CM].step = "none"
        /\ \/ removal' = removal
           \/ removal' = [removal EXCEPT ![CM] = [step |-> "record", target |-> d]]
    BY <1>3 DEF HandlerDisconnects, Receives, Ready, maps
  <2>2. \A p \in Task : removal'[p].step = "decrement" <=> removal[p].step = "decrement"
    BY <2>1 DEF LifeInv, LifeTypes
  <2>3. LifeTypes /\ LifeTypes' /\ conns \subseteq Downstream
    BY <1>1 DEF LifeInv, LifeTypes
  <2>4. QED
    BY <2>1, <2>2, <2>3, SameCount, SameUncounted, SameUncounting
<1>4. QED
  BY <1>1, <1>2, <1>3, StepKinds, ConnectionCount, RemovalCount

\* The counter behind the template idle gate is exact, up to the connections
\* that a task is just entering or removing.
THEOREM CounterIsExact == Spec => []ActiveCounted
<1>1. Init => LifeInv /\ CountInv
  BY InitLife, InitCount
<1>2. LifeInv /\ CountInv /\ [Next]_vars => (LifeInv /\ CountInv)'
  BY StepLife, StepCount
<1>3. LifeInv /\ CountInv => ActiveCounted
  BY CountIsActiveCounted
<1>4. QED
  BY <1>1, <1>2, <1>3, PTL DEF Spec

-----------------------------------------------------------------------------
(***************************************************************************)
(* The open channels: the channels of a connection, the vardiff entries    *)
(* and the sessions on the miner page are three structures that opening,   *)
(* closing and removing change by hand.                                    *)
(***************************************************************************)
DataFields == {"customWork", "standardJobs", "payout", "nextId", "groupNext", "groupNow",
               "members", "channels"}

Channels(d) == DOMAIN data[d].channels
Entries == UNION {{<<d, c>> : c \in Channels(d)} : d \in conns}

ChannelInv ==
  /\ DOMAIN data = Downstream /\ \A d \in Downstream : DOMAIN data[d] = DataFields
  /\ \A d \in Downstream \ conns : Channels(d) = {}
  /\ vardiff = Entries
  /\ OpenChannelsListed

\* Steps that open and close no channel and begin and end no removal.
SameChannels ==
  /\ DOMAIN data' = Downstream
  /\ \A d \in Downstream : DOMAIN data'[d] = DataFields /\ Channels(d)' = Channels(d)
  /\ UNCHANGED <<vardiff, sessions>>

LEMMA SameChannelsInv ==
  ASSUME ChannelInv, SameChannels, LifeTypes, conns \subseteq conns', conns' \subseteq Downstream,
         \A d \in conns' \ conns : Channels(d) = {},
         \A p \in Task : removal[p].step = "unmap" => removal'[p] = removal[p],
         DOMAIN removal' = Task
  PROVE  ChannelInv'
<1>1. Entries' = Entries
  <2>1. conns \subseteq Downstream
    BY DEF LifeTypes
  <2>2. \A d \in conns' : Channels(d)' = Channels(d)
    BY DEF SameChannels
  <2>3. ASSUME NEW k, k \in Entries' PROVE k \in Entries
    BY <2>2, <2>3 DEF Entries
  <2>4. ASSUME NEW k, k \in Entries PROVE k \in Entries'
    BY <2>2, <2>4 DEF Entries
  <2>5. QED
    BY <2>3, <2>4
<1>2. OpenChannelsListed'
  <2> SUFFICES ASSUME NEW k \in vardiff, k \notin sessions
               PROVE  \E p \in DOMAIN removal' : removal'[p] = [step |-> "unmap", target |-> k[1]]
    BY DEF OpenChannelsListed, SameChannels
  <2>1. PICK p \in Task : removal[p] = [step |-> "unmap", target |-> k[1]]
    BY DEF ChannelInv, OpenChannelsListed, LifeTypes
  <2>2. removal'[p] = removal[p]
    BY <2>1
  <2>3. QED
    BY <2>1, <2>2
<1>3. QED
  BY <1>1, <1>2 DEF ChannelInv, SameChannels

LEMMA InitChannel == Init => ChannelInv
BY DEF Init, ChannelInv, OpenChannelsListed, Entries, Channels, NoData, DataFields

-----------------------------------------------------------------------------
\* What handle_new_template and handle_set_new_prev_hash do with a connection
\* keeps its channels.
LEMMA TemplateKeepsChannels ==
  ASSUME NEW x, DOMAIN x = DataFields, NEW msg
  PROVE  /\ DOMAIN WithTemplate(x, msg) = DataFields
         /\ DOMAIN WithTemplate(x, msg).channels = DOMAIN x.channels
         /\ DOMAIN WithPrevHash(x) = DataFields
         /\ DOMAIN WithPrevHash(x).channels = DOMAIN x.channels
BY DEF WithTemplate, WithPrevHash, DataFields

LEMMA TemplateChannels ==
  ASSUME ChannelInv, HandleNewTemplate \/ HandleSetNewPrevHash
  PROVE  SameChannels
<1>1. CASE HandleNewTemplate
  <2>1. /\ \A d \in Downstream : data'[d] = data[d] \/ \E msg : data'[d] = WithTemplate(data[d], msg)
        /\ DOMAIN data' = Downstream /\ UNCHANGED <<vardiff, sessions>>
    BY <1>1 DEF HandleNewTemplate
  <2>2. QED
    BY <2>1, TemplateKeepsChannels DEF ChannelInv, SameChannels, Channels
<1>2. CASE HandleSetNewPrevHash
  <2>1. /\ \A d \in Downstream : data'[d] = data[d] \/ data'[d] = WithPrevHash(data[d])
        /\ DOMAIN data' = Downstream /\ UNCHANGED <<vardiff, sessions>>
    BY <1>2 DEF HandleSetNewPrevHash, ChannelInv
  <2>2. QED
    BY <2>1, TemplateKeepsChannels DEF ChannelInv, SameChannels, Channels
<1>3. QED
  BY <1>1, <1>2

\* A channel is opened: it gets an entry and a session.
LEMMA OpenChannel ==
  ASSUME ChannelInv, LifeTypes, NEW d \in conns, NEW kind, NEW addr, NEW joins,
         OpenSucceeds(d, kind, addr, joins), conns' = conns, removal' = removal
  PROVE  ChannelInv'
<1> DEFINE c == data[d].nextId
<1>1. d \in Downstream
  BY DEF LifeTypes
<1>2. /\ vardiff' = vardiff \cup {<<d, c>>} /\ sessions' = sessions \cup {<<d, c>>}
      /\ data' = [data EXCEPT ![d] = Opened(@, NewChannel(d, kind, addr), joins)]
  BY DEF OpenSucceeds
<1>3. /\ DOMAIN data' = Downstream /\ \A e \in Downstream : DOMAIN data'[e] = DataFields
      /\ Channels(d)' = Channels(d) \cup {c}
      /\ \A e \in Downstream \ {d} : Channels(e)' = Channels(e)
  BY <1>1, <1>2 DEF ChannelInv, Opened, Opening, Channels, DataFields
<1> HIDE DEF c
<1>4. Entries' = Entries \cup {<<d, c>>}
  <2>1. \A e \in conns : Channels(e)' = IF e = d THEN Channels(e) \cup {c} ELSE Channels(e)
    BY <1>3 DEF LifeTypes
  <2>2. ASSUME NEW k, k \in Entries' PROVE k \in Entries \cup {<<d, c>>}
    BY <2>1, <2>2 DEF Entries
  <2>3. ASSUME NEW k, k \in Entries \cup {<<d, c>>} PROVE k \in Entries'
    BY <2>1, <2>3 DEF Entries
  <2>4. QED
    BY <2>2, <2>3
<1>5. QED
  BY <1>2, <1>3, <1>4 DEF ChannelInv, OpenChannelsListed

\* A channel is closed: it loses both.
LEMMA CloseChannel ==
  ASSUME ChannelInv, LifeTypes, NEW d \in Downstream, NEW c, HandleCloseChannel(d, c)
  PROVE  ChannelInv'
<1>1. /\ d \in conns /\ conns' = conns /\ removal' = removal
      /\ vardiff' = vardiff \ {<<d, c>>} /\ sessions' = sessions \ {<<d, c>>}
      /\ data' = [data EXCEPT ![d].channels =
                    [e \in DOMAIN data[d].channels \ {c} |-> data[d].channels[e]]]
  BY DEF HandleCloseChannel
<1>2. /\ DOMAIN data' = Downstream /\ \A e \in Downstream : DOMAIN data'[e] = DataFields
      /\ Channels(d)' = Channels(d) \ {c}
      /\ \A e \in Downstream \ {d} : Channels(e)' = Channels(e)
  BY <1>1 DEF ChannelInv, Channels, DataFields
<1>3. Entries' = Entries \ {<<d, c>>}
  <2>1. \A e \in conns : Channels(e)' = IF e = d THEN Channels(e) \ {c} ELSE Channels(e)
    BY <1>2 DEF LifeTypes
  <2>2. ASSUME NEW k, k \in Entries' PROVE k \in Entries \ {<<d, c>>}
    BY <1>1, <2>1, <2>2 DEF Entries
  <2>3. ASSUME NEW k, k \in Entries \ {<<d, c>>} PROVE k \in Entries'
    BY <1>1, <2>1, <2>3 DEF Entries
  <2>4. QED
    BY <2>2, <2>3
<1>4. QED
  BY <1>1, <1>2, <1>3 DEF ChannelInv, OpenChannelsListed

LEMMA HandlerChannels ==
  ASSUME LifeTypes, ChannelInv, NEW d \in Downstream, Handler(d)
  PROVE  ChannelInv'
<1>1. ASSUME NEW addr \in Address, data' = [data EXCEPT ![d] = Opening(@, addr)],
             UNCHANGED <<vardiff, sessions, conns, removal>>
      PROVE  ChannelInv'
  <2>1. SameChannels
    BY <1>1 DEF SameChannels, ChannelInv, Opening, Channels, DataFields
  <2>2. QED
    BY <1>1, <2>1, SameChannelsInv DEF LifeTypes
<1>2. ASSUME NEW addr \in Address, \/ HandleOpenStandardMiningChannel(d, addr)
                                   \/ HandleOpenExtendedMiningChannel(d, addr)
      PROVE  ChannelInv'
  <2>1. conns' = conns /\ removal' = removal /\ d \in conns
    BY <1>2 DEF HandleOpenStandardMiningChannel, HandleOpenExtendedMiningChannel, CanOpen
  <2>2. \/ \E kind, joins : OpenSucceeds(d, kind, addr, joins)
        \/ OpenFails(d, addr)
    BY <1>2 DEF HandleOpenStandardMiningChannel, HandleOpenExtendedMiningChannel
  <2>3. CASE OpenFails(d, addr)
    BY <1>1, <2>1, <2>3 DEF OpenFails
  <2>4. QED
    BY <2>1, <2>2, <2>3, OpenChannel
<1>3. ASSUME NEW addr \in Address, OpenRefused(d, addr)
      PROVE  ChannelInv'
  BY <1>1, <1>3 DEF OpenRefused
<1>4. ASSUME HandleWithoutEffect(d)
      PROVE  ChannelInv'
  <2>1. UNCHANGED <<data, vardiff, sessions, conns, removal>>
    BY <1>4 DEF HandleWithoutEffect, maps
  <2>2. SameChannels
    BY <2>1 DEF SameChannels, ChannelInv, Channels
  <2>3. QED
    BY <2>1, <2>2, SameChannelsInv DEF LifeTypes
<1>5. QED
  BY <1>2, <1>3, <1>4, CloseChannel DEF Handler

-----------------------------------------------------------------------------
LEMMA ConnectionChannels ==
  ASSUME LifeInv, LifeInv', ChannelInv, NEW d \in Downstream,
         Connection(d) \/ HandlerDisconnects(d)
  PROVE  ChannelInv'
<1>1. LifeTypes /\ DOMAIN removal' = Task /\ conns' \subseteq Downstream
  BY DEF LifeInv, LifeTypes
<1>2. SameChannels
  <2>1. UNCHANGED <<vardiff, sessions>>
    BY DEF Connection, BootstrapGroupChannel, RegisterSender, InsertDownstream,
           IncrementActiveDownstreams, SetupConnection, ForwardMiningMessage, Disconnect,
           HandlerDisconnects, maps
  <2>2. \/ data' = data
        \/ BootstrapGroupChannel(d)
        \/ \E flags \in Flags : SetupConnection(d, flags)
    BY DEF Connection, RegisterSender, InsertDownstream, IncrementActiveDownstreams,
           ForwardMiningMessage, Disconnect, HandlerDisconnects, maps
  <2>3. CASE data' = data
    BY <2>1, <2>3 DEF SameChannels, ChannelInv, Channels
  <2>4. CASE BootstrapGroupChannel(d)
    <3>1. data' = data \/ \E j : data' = [data EXCEPT ![d].groupNow = j]
      BY <2>4 DEF BootstrapGroupChannel
    <3>2. QED
      BY <2>1, <3>1 DEF SameChannels, ChannelInv, Channels, DataFields
  <2>5. CASE \E flags \in Flags : SetupConnection(d, flags)
    <3>1. \E a, b : data' = [data EXCEPT ![d].customWork = a, ![d].standardJobs = b]
      BY <2>5 DEF SetupConnection
    <3>2. QED
      BY <2>1, <3>1 DEF SameChannels, ChannelInv, Channels, DataFields
  <2>6. QED
    BY <2>2, <2>3, <2>4, <2>5
<1>3. conns' = conns \/ (conns' = conns \cup {d} /\ d \notin conns)
  BY DEF Connection, BootstrapGroupChannel, RegisterSender, InsertDownstream,
         IncrementActiveDownstreams, SetupConnection, ForwardMiningMessage, Disconnect,
         HandlerDisconnects, maps
<1>4. \A e \in conns' \ conns : Channels(e) = {}
  BY <1>3 DEF ChannelInv
<1>5. \A p \in Task : removal[p].step = "unmap" => removal'[p] = removal[p]
  <2>1. CASE Disconnect(d)
    <3>1. /\ removal' = [removal EXCEPT ![d] = [step |-> "record", target |-> d]]
          /\ removal[d].step = "none"
      BY <2>1 DEF Disconnect, LifeInv, RemovalsOrdered
    <3>2. QED
      BY <3>1 DEF LifeInv, LifeTypes
  <2>2. CASE HandlerDisconnects(d)
    <3>1. /\ removal[CM].step = "none"
          /\ \/ removal' = removal
             \/ removal' = [removal EXCEPT ![CM] = [step |-> "record", target |-> d]]
      BY <2>2 DEF HandlerDisconnects, Receives, Ready
    <3>2. QED
      BY <3>1 DEF LifeInv, LifeTypes
  <2>3. CASE ~ Disconnect(d) /\ ~ HandlerDisconnects(d)
    BY <2>3 DEF Connection, BootstrapGroupChannel, RegisterSender, InsertDownstream,
           IncrementActiveDownstreams, SetupConnection, ForwardMiningMessage
  <2>4. QED
    BY <2>1, <2>2, <2>3
<1>6. QED
  BY <1>1, <1>2, <1>3, <1>4, <1>5, SameChannelsInv

LEMMA RemovalChannels ==
  ASSUME LifeInv, LifeInv', ChannelInv, NEW p \in Task, RemoveDownstream(p)
  PROVE  ChannelInv'
<1> DEFINE d == removal[p].target
<1>1. /\ LifeTypes /\ DOMAIN removal = Task /\ DOMAIN removal' = Task /\ conns \subseteq Downstream
      /\ removal[p] \in [step : {"none", "record", "unmap", "decrement", "unsend"},
                         target : Downstream \cup {None}]
      /\ removal'[p] \in [step : {"none", "record", "unmap", "decrement", "unsend"},
                          target : Downstream \cup {None}]
  BY DEF LifeInv, LifeTypes
<1>2. removal[p].step # "none" => d \in Downstream
  BY DEF LifeInv, RemovalsOrdered
<1> HIDE DEF d
<1>3. CASE RecordClosed(p)
  <2>1. /\ sessions' = {s \in sessions : s[1] # d} /\ After(p, "unmap")
        /\ UNCHANGED <<data, vardiff, conns>>
    BY <1>3 DEF RecordClosed, d
  <2>2. /\ removal'[p].step = "unmap" /\ removal'[p].target = d
        /\ \A q \in Task : q # p => removal'[q] = removal[q]
    BY <1>1, <2>1, AfterRemoval DEF d
  <2>3. removal'[p] = [step |-> "unmap", target |-> d]
    BY <1>1, <2>2
  <2>4. OpenChannelsListed'
    <3> SUFFICES ASSUME NEW k \in vardiff, k \notin sessions'
                 PROVE  \E q \in Task : removal'[q] = [step |-> "unmap", target |-> k[1]]
      BY <1>1, <2>1 DEF OpenChannelsListed
    <3>1. CASE k[1] = d
      BY <2>3, <3>1
    <3>2. CASE k[1] # d
      <4>1. k \notin sessions
        BY <2>1, <3>2
      <4>2. PICK q \in Task : removal[q] = [step |-> "unmap", target |-> k[1]]
        BY <1>1, <4>1 DEF ChannelInv, OpenChannelsListed
      <4>3. q # p
        BY <1>3, <4>2 DEF RecordClosed
      <4>4. QED
        BY <2>2, <4>2, <4>3
    <3>3. QED
      BY <3>1, <3>2
  <2>5. QED
    BY <2>1, <2>4 DEF ChannelInv, Entries, Channels
<1>4. CASE Unmap(p)
  <2>1. /\ conns' = conns \ {d} /\ vardiff' = {k \in vardiff : k[1] # d}
        /\ data' = [data EXCEPT ![d] = NoData] /\ sessions' = sessions
        /\ After(p, "decrement") \/ After(p, "unsend")
        /\ removal[p].step = "unmap"
    BY <1>4 DEF Unmap, d
  <2>2. d \in Downstream
    BY <1>2, <2>1
  <2>3. /\ DOMAIN data' = Downstream /\ \A e \in Downstream : DOMAIN data'[e] = DataFields
        /\ \A e \in Downstream : Channels(e)' = IF e = d THEN {} ELSE Channels(e)
    BY <2>1, <2>2 DEF ChannelInv, Channels, NoData, DataFields
  <2>4. vardiff' = Entries'
    <3>1. \A e \in conns \ {d} : Channels(e)' = Channels(e)
      BY <1>1, <2>3
    <3>2. ASSUME NEW k, k \in vardiff' PROVE k \in Entries'
      <4>1. k \in Entries /\ k[1] # d
        BY <2>1, <3>2 DEF ChannelInv
      <4>2. PICK e \in conns : \E c \in Channels(e) : k = <<e, c>>
        BY <4>1 DEF Entries
      <4>3. e \in conns' /\ Channels(e)' = Channels(e)
        BY <2>1, <3>1, <4>1, <4>2
      <4>4. QED
        BY <4>2, <4>3 DEF Entries
    <3>3. ASSUME NEW k, k \in Entries' PROVE k \in vardiff'
      <4>1. PICK e \in conns' : \E c \in Channels(e)' : k = <<e, c>>
        BY <3>3 DEF Entries
      <4>2. e \in conns /\ e # d /\ \E c \in Channels(e) : k = <<e, c>>
        BY <2>1, <3>1, <4>1
      <4>3. k \in Entries /\ k[1] # d
        BY <4>2 DEF Entries
      <4>4. QED
        BY <2>1, <4>3 DEF ChannelInv
    <3>4. QED
      BY <3>2, <3>3
  <2>5. \A q \in Task : q # p => removal'[q] = removal[q]
    BY <1>1, <2>1, AfterRemoval
  <2>6. OpenChannelsListed'
    <3> SUFFICES ASSUME NEW k \in vardiff, k[1] # d, k \notin sessions
                 PROVE  \E q \in Task : removal'[q] = [step |-> "unmap", target |-> k[1]]
      BY <1>1, <2>1 DEF OpenChannelsListed
    <3>1. PICK q \in Task : removal[q] = [step |-> "unmap", target |-> k[1]]
      BY <1>1 DEF ChannelInv, OpenChannelsListed
    <3>2. q # p
      BY <3>1 DEF d
    <3>3. QED
      BY <2>5, <3>1, <3>2
  <2>7. QED
    BY <2>1, <2>2, <2>3, <2>4, <2>6 DEF ChannelInv
<1>5. CASE DecrementActiveDownstreams(p) \/ RemoveSender(p)
  <2>1. /\ UNCHANGED <<data, vardiff, sessions, conns>> /\ removal[p].step # "unmap"
        /\ After(p, "unsend") \/ After(p, "none")
    BY <1>5 DEF DecrementActiveDownstreams, RemoveSender
  <2>2. \A q \in Task : removal[q].step = "unmap" => removal'[q] = removal[q]
    BY <1>1, <2>1, AfterRemoval
  <2>3. SameChannels
    BY <2>1 DEF SameChannels, ChannelInv, Channels
  <2>4. QED
    BY <1>1, <2>1, <2>2, <2>3, SameChannelsInv
<1>6. QED
  BY <1>3, <1>4, <1>5 DEF RemoveDownstream

LEMMA StepChannels == LifeInv /\ ChannelInv /\ [Next]_vars => ChannelInv'
<1> SUFFICES ASSUME LifeInv, ChannelInv, [Next]_vars PROVE ChannelInv'
  OBVIOUS
<1>1. LifeInv' /\ LifeTypes /\ conns \subseteq Downstream /\ DOMAIN removal = Task
  BY StepLife DEF LifeInv, LifeTypes
<1>2. ASSUME SameChannels, conns' = conns, removal' = removal PROVE ChannelInv'
  BY <1>1, <1>2, SameChannelsInv
<1>3. CASE HandleNewTemplate \/ HandleSetNewPrevHash
  <2>1. conns' = conns /\ removal' = removal
    BY <1>3 DEF HandleNewTemplate, HandleSetNewPrevHash, tasks
  <2>2. QED
    BY <1>2, <1>3, <2>1, TemplateChannels
<1>4. CASE Provider \/ StopOnCancellation \/ UNCHANGED vars
  <2>1. UNCHANGED <<data, vardiff, sessions, conns, removal>>
    BY <1>4 DEF Provider, SendNewTemplate, SendSetNewPrevHash, StopOnCancellation,
                vars, maps, tasks
  <2>2. SameChannels
    BY <2>1 DEF SameChannels, ChannelInv, Channels
  <2>3. QED
    BY <1>2, <2>1, <2>2
<1>5. ASSUME NEW d \in Downstream, HandleMining(d)
      PROVE  Handler(d) \/ HandlerDisconnects(d)
  BY <1>5 DEF HandleMining, Handler
<1>6. QED
  BY <1>1, <1>3, <1>4, <1>5, HandlerChannels, ConnectionChannels, RemovalChannels DEF Next, Task

LEMMA ChannelsAlways == Spec => [](LifeInv /\ ChannelInv)
<1>1. Init => LifeInv /\ ChannelInv
  BY InitLife, InitChannel
<1>2. LifeInv /\ ChannelInv /\ [Next]_vars => (LifeInv /\ ChannelInv)'
  BY StepLife, StepChannels
<1>3. QED
  BY <1>1, <1>2, PTL DEF Spec

\* A channel has a vardiff entry exactly while it is open.
THEOREM VardiffFollowsChannels == Spec => []VardiffMatchesChannels
<1>1. ChannelInv => VardiffMatchesChannels
  BY DEF ChannelInv, VardiffMatchesChannels, Entries, Channels
<1>2. QED
  BY <1>1, ChannelsAlways, PTL

\* An open channel is listed as connected, except while a task is between the
\* two steps that close its session and unmap its connection.
THEOREM OpenAreListed == Spec => []OpenChannelsListed
<1>1. ChannelInv => OpenChannelsListed
  BY DEF ChannelInv
<1>2. QED
  BY <1>1, ChannelsAlways, PTL

\* What the pool knows of the channels agrees: the vardiff entries and the
\* sessions that the dashboard shows as connected.
THEOREM TablesFollowChannels == Spec => []ChannelTablesAgree
<1>1. VardiffMatchesChannels /\ OpenChannelsListed => ChannelTablesAgree
  BY DEF ChannelTablesAgree
<1>2. QED
  BY <1>1, VardiffFollowsChannels, OpenAreListed, PTL

-----------------------------------------------------------------------------
(***************************************************************************)
(* Departures.  Two tasks may remove one connection, the four steps of one *)
(* between those of the other; what either leaves undone the other cannot  *)
(* be relied on to do.  The task that has left does every step itself, and *)
(* nothing is put back behind it, since the maps are entered before the    *)
(* connection runs.                                                        *)
(***************************************************************************)
DepartureInv ==
  \A d \in Downstream :
    /\ removal[d].step # "none" => removal[d].target = d
    /\ stage[d] = "left" /\ removal[d].step \notin {"record", "unmap"} => d \notin conns
    /\ stage[d] = "left" /\ removal[d].step = "none" => d \notin senders

\* Whoever has left and finished its removal is in no shared map any more.
DepartedAreForgotten ==
  \A d \in Downstream : stage[d] = "left" /\ removal[d].step = "none" => Forgotten(d)

LEMMA InitDeparture == Init => DepartureInv
BY DEF Init, DepartureInv, NoRemoval

LEMMA ConnectionDeparture ==
  ASSUME LifeTypes, DepartureInv, NEW d \in Downstream, Connection(d)
  PROVE  DepartureInv'
<1> SUFFICES ASSUME NEW e \in Downstream
             PROVE  /\ removal'[e].step # "none" => removal'[e].target = e
                    /\ stage'[e] = "left" /\ removal'[e].step \notin {"record", "unmap"}
                         => e \notin conns'
                    /\ stage'[e] = "left" /\ removal'[e].step = "none" => e \notin senders'
  BY DEF DepartureInv
<1>1. CASE Disconnect(d)
  <2>1. /\ UNCHANGED <<conns, senders>>
        /\ stage' = [stage EXCEPT ![d] = "left"]
        /\ removal' = [removal EXCEPT ![d] = [step |-> "record", target |-> d]]
    BY <1>1 DEF Disconnect, maps
  <2>2. CASE e = d
    BY <2>1, <2>2 DEF LifeTypes, Task
  <2>3. CASE e # d
    <3>1. stage'[e] = stage[e] /\ removal'[e] = removal[e]
      BY <2>1, <2>3 DEF LifeTypes, Task
    <3> QED
      BY <2>1, <3>1 DEF DepartureInv
  <2> QED
    BY <2>2, <2>3
<1>2. CASE ~ Disconnect(d)
  <2>1. /\ removal' = removal
        /\ conns' = conns \/ (stage'[d] = "inserted" /\ conns' = conns \cup {d})
        /\ senders' = senders \/ (stage'[d] = "registered" /\ senders' = senders \cup {d})
        /\ stage'[d] = stage[d] \/ stage'[d] # "left"
        /\ \A c \in Downstream \ {d} : stage'[c] = stage[c]
    BY <1>2
    DEF Connection, BootstrapGroupChannel, RegisterSender, InsertDownstream,
        IncrementActiveDownstreams, SetupConnection, ForwardMiningMessage, maps, LifeTypes
  <2>2. stage'[e] = "left" => /\ stage[e] = "left" /\ removal'[e] = removal[e]
                              /\ (e \in conns' => e \in conns) /\ (e \in senders' => e \in senders)
    BY <2>1
  <2>3. removal'[e] = removal[e]
    BY <2>1
  <2> QED
    BY <2>2, <2>3 DEF DepartureInv
<1> QED
  BY <1>1, <1>2

LEMMA RemovalDeparture ==
  ASSUME LifeTypes, DepartureInv, NEW p \in Task, RemoveDownstream(p)
  PROVE  DepartureInv'
<1> SUFFICES ASSUME NEW e \in Downstream
             PROVE  /\ removal'[e].step # "none" => removal'[e].target = e
                    /\ stage'[e] = "left" /\ removal'[e].step \notin {"record", "unmap"}
                         => e \notin conns'
                    /\ stage'[e] = "left" /\ removal'[e].step = "none" => e \notin senders'
  BY DEF DepartureInv
<1>1. /\ stage' = stage /\ conns' \subseteq conns /\ senders' \subseteq senders
      /\ removal[p].step # "none"
      /\ \/ removal[p].step = "record" /\ After(p, "unmap")
         \/ /\ removal[p].step = "unmap" /\ removal[p].target \notin conns'
            /\ After(p, "decrement") \/ After(p, "unsend")
         \/ removal[p].step = "decrement" /\ After(p, "unsend")
         \/ removal[p].step = "unsend" /\ removal[p].target \notin senders' /\ After(p, "none")
  BY DEF RemoveDownstream, RecordClosed, Unmap, DecrementActiveDownstreams, RemoveSender
<1>2. e \in Task
  BY DEF Task
<1>3. CASE e # p
  <2>1. removal'[e] = removal[e]
    BY <1>1, <1>2, <1>3, AfterRemoval
  <2> QED
    BY <1>1, <2>1 DEF DepartureInv
<1>4. CASE e = p
  <2>1. removal[e].target = e
    BY <1>1, <1>4 DEF DepartureInv
  <2>2. removal'[e].step # "none" => removal'[e].target = e
    BY <1>1, <1>4, <2>1, AfterRemoval
  <2>3. CASE removal[p].step = "record"
    <3>1. removal'[e].step = "unmap"
      BY <1>1, <1>4, <2>3, AfterRemoval
    <3> QED
      BY <2>2, <3>1
  <2>4. CASE removal[p].step = "unmap"
    <3>1. removal'[e].step \in {"decrement", "unsend"} /\ e \notin conns'
      BY <1>1, <1>4, <2>1, <2>4, AfterRemoval
    <3> QED
      BY <2>2, <3>1
  <2>5. CASE removal[p].step = "decrement"
    <3>1. removal'[e].step = "unsend"
      BY <1>1, <1>4, <2>5, AfterRemoval
    <3>2. stage[e] = "left" => e \notin conns'
      BY <1>1, <1>4, <2>5 DEF DepartureInv
    <3> QED
      BY <1>1, <2>2, <3>1, <3>2
  <2>6. CASE removal[p].step = "unsend"
    <3>1. e \notin senders'
      BY <1>1, <1>4, <2>1, <2>6
    <3>2. stage[e] = "left" => e \notin conns'
      BY <1>1, <1>4, <2>6 DEF DepartureInv
    <3> QED
      BY <1>1, <2>2, <3>1, <3>2
  <2> QED
    BY <1>1, <2>3, <2>4, <2>5, <2>6
<1> QED
  BY <1>3, <1>4

LEMMA StepDeparture == LifeInv /\ DepartureInv /\ [Next]_vars => DepartureInv'
<1> SUFFICES ASSUME LifeInv, DepartureInv, [Next]_vars PROVE DepartureInv'
  OBVIOUS
<1>0. LifeTypes
  BY DEF LifeInv
<1>1. CASE AtMostTakes
  BY <1>1 DEF AtMostTakes, DepartureInv
<1>2. CASE EndsLoop
  BY <1>2 DEF EndsLoop, CloseIo, DepartureInv
<1>3. ASSUME NEW d \in Downstream, HandlerDisconnects(d) PROVE DepartureInv'
  <2>1. UNCHANGED <<stage, conns, senders>>
    BY <1>3 DEF HandlerDisconnects, maps
  <2>2. \A e \in Downstream : removal'[e] = removal[e]
    BY <1>0, <1>3, ManagerAssumption DEF HandlerDisconnects, LifeTypes, Task
  <2> QED
    BY <2>1, <2>2 DEF DepartureInv
<1> QED
  BY <1>0, <1>1, <1>2, <1>3, StepKinds, ConnectionDeparture, RemovalDeparture

\* A connection that has left and run through remove_downstream is in no shared
\* map any more, nor has it a vardiff entry, whatever the ChannelManager removes
\* at the same time and whichever handler was under way; for good, since it
\* does not come back.
THEOREM RemovedAreForgotten == Spec => []DepartedAreForgotten
<1>1. Init => LifeInv /\ ChannelInv /\ DepartureInv
  BY InitLife, InitChannel, InitDeparture
<1>2. LifeInv /\ ChannelInv /\ DepartureInv /\ [Next]_vars
        => (LifeInv /\ ChannelInv /\ DepartureInv)'
  BY StepLife, StepChannels, StepDeparture
<1>3. ChannelInv /\ DepartureInv => DepartedAreForgotten
  <2> SUFFICES ASSUME ChannelInv, DepartureInv, NEW d \in Downstream,
                      stage[d] = "left", removal[d].step = "none"
               PROVE  Forgotten(d)
    BY DEF DepartedAreForgotten
  <2>1. d \notin conns /\ d \notin senders
    BY DEF DepartureInv
  <2>2. \A k \in vardiff : k[1] \in conns
    BY DEF ChannelInv, Entries
  <2> QED
    BY <2>1, <2>2 DEF Forgotten
<1> QED
  BY <1>1, <1>2, <1>3, PTL DEF Spec

-----------------------------------------------------------------------------
(***************************************************************************)
(* The stream of templates, seen from the ChannelManager's end.            *)
(***************************************************************************)
IsTemplate(msg) == msg.type = "NewTemplate"
IsFuture(msg) == msg.type = "NewTemplate" /\ msg.future
IsPrevHash(msg) == msg.type = "SetNewPrevHash"

\* Both messages of the last tip were handled.
Settled == lastTemplate = lastPrevHash

\* A SetNewPrevHash names the future template right before it, in the queue or
\* handled last; nothing else follows a future template.
QueueInv ==
  /\ \A i \in 1..Len(tpQueue) : IsPrevHash(tpQueue[i]) =>
       IF i = 1 THEN ~Settled /\ lastTemplate = tpQueue[i].template
                ELSE IsFuture(tpQueue[i - 1]) /\ tpQueue[i - 1].template = tpQueue[i].template
  /\ \A i \in 1..Len(tpQueue) : IsFuture(tpQueue[i]) =>
       IF i = Len(tpQueue) THEN owed = tpQueue[i].template ELSE IsPrevHash(tpQueue[i + 1])
  /\ ~Settled => IF tpQueue = <<>> THEN owed = lastTemplate ELSE IsPrevHash(tpQueue[1])
  /\ owed # None => IF tpQueue = <<>> THEN ~Settled /\ lastTemplate = owed
                    ELSE IsFuture(tpQueue[Len(tpQueue)]) /\ tpQueue[Len(tpQueue)].template = owed

\* Templates count up, from the one of the tip that the ChannelManager works on.
OrderInv ==
  /\ \A i \in 1..Len(tpQueue) : IsTemplate(tpQueue[i]) =>
       /\ tpQueue[i].template < sent
       /\ lastTemplate # None => lastTemplate < tpQueue[i].template
  /\ \A i, j \in 1..Len(tpQueue) : i < j /\ IsTemplate(tpQueue[i]) /\ IsTemplate(tpQueue[j]) =>
       tpQueue[i].template < tpQueue[j].template
  /\ lastTemplate # None => lastTemplate < sent
  /\ lastPrevHash # None => lastTemplate # None /\ lastPrevHash <= lastTemplate
  /\ lastTemplate = None =>
       IF tpQueue = <<>> THEN sent = 0 ELSE IsFuture(tpQueue[1])

StreamInv ==
  /\ running => QueueInv /\ OrderInv
  /\ ~running => cancelled /\ tpQueue = <<>>

\* A connection exists only since the first tip is known.
TipKnown == \A d \in Downstream : stage[d] # "idle" => lastTemplate # None /\ lastPrevHash # None

-----------------------------------------------------------------------------
StreamTypes ==
  /\ sent \in 0..MaxTemplate
  /\ owed \in Template \cup {None}
  /\ tpQueue \in Seq(Message)
  /\ lastTemplate \in Template \cup {None} /\ lastPrevHash \in Template \cup {None}
  /\ cancelled \in BOOLEAN /\ running \in BOOLEAN

\* What a step does to the stream and to the token.
EndsStream ==
  /\ CloseIo /\ UNCHANGED <<provider, lastTemplate, lastPrevHash>>
  /\ Ready /\ (cancelled \/ ~Settled) /\ cancelled' = TRUE

SameStream ==
  /\ UNCHANGED <<provider, tpQueue, lastTemplate, lastPrevHash, running>>
  /\ cancelled' = cancelled \/ (~Settled /\ cancelled' = TRUE)

LEMMA HandlersAndStream ==
  ASSUME NEW d \in Downstream, Handler(d), cancelled \in BOOLEAN
  PROVE  EndsStream \/ SameStream
<1>1. ASSUME NEW addr \in Address, \/ HandleOpenStandardMiningChannel(d, addr)
                                   \/ HandleOpenExtendedMiningChannel(d, addr)
      PROVE  EndsStream \/ SameStream
  <2>1. Ready /\ UNCHANGED <<provider, lastTemplate, lastPrevHash>>
    BY <1>1 DEF HandleOpenStandardMiningChannel, HandleOpenExtendedMiningChannel, CanOpen, Receives
  <2>2. UNCHANGED <<tpQueue, pool>> \/ (~Settled /\ Shutdown)
    BY <1>1 DEF HandleOpenStandardMiningChannel, HandleOpenExtendedMiningChannel,
                OpenSucceeds, OpenFails, Settled
  <2> QED
    BY <2>1, <2>2 DEF EndsStream, SameStream, Shutdown, pool
<1>2. ASSUME NEW addr \in Address, OpenRefused(d, addr) PROVE SameStream
  BY <1>2 DEF OpenRefused, SameStream, pool
<1>3. ASSUME NEW c \in ChannelId, HandleCloseChannel(d, c) PROVE SameStream
  BY <1>3 DEF HandleCloseChannel, SameStream, pool
<1>4. HandleWithoutEffect(d) => SameStream
  BY DEF HandleWithoutEffect, SameStream, pool
<1> QED
  BY <1>1, <1>2, <1>3, <1>4 DEF Handler

LEMMA ConnectionsAndStream ==
  ASSUME NEW d \in Downstream, Connection(d) \/ HandlerDisconnects(d), StreamTypes
  PROVE  SameStream
<1>1. CASE BootstrapGroupChannel(d)
  BY <1>1 DEF BootstrapGroupChannel, SameStream, Settled, StreamTypes
<1>2. CASE ~BootstrapGroupChannel(d)
  BY <1>2 DEF Connection, RegisterSender, InsertDownstream, IncrementActiveDownstreams,
              SetupConnection, ForwardMiningMessage, Disconnect, HandlerDisconnects,
              SameStream, pool
<1> QED
  BY <1>1, <1>2

LEMMA StreamKinds ==
  ASSUME [Next]_vars, StreamTypes
  PROVE  \/ Provider \/ HandleNewTemplate \/ HandleSetNewPrevHash
         \/ EndsStream \/ SameStream
<1>1. StopOnCancellation => EndsStream
  BY DEF StopOnCancellation, EndsStream, CloseIo
<1>2. ASSUME NEW p \in Task, RemoveDownstream(p) PROVE SameStream
  BY <1>2 DEF RemoveDownstream, RecordClosed, Unmap, DecrementActiveDownstreams, RemoveSender,
              SameStream, pool
<1>3. UNCHANGED vars => SameStream
  BY DEF vars, SameStream, pool
<1>4. ASSUME NEW d \in Downstream, HandleMining(d) PROVE Handler(d) \/ HandlerDisconnects(d)
  BY <1>4 DEF HandleMining, Handler
<1> QED
  BY <1>1, <1>2, <1>3, <1>4, HandlersAndStream, ConnectionsAndStream DEF Next, Task, StreamTypes

-----------------------------------------------------------------------------
LEMMA TypedMessages ==
  /\ \A t \in Template, future \in BOOLEAN :
       [type |-> "NewTemplate", template |-> t, future |-> future] \in Message
  /\ \A t \in Template : [type |-> "SetNewPrevHash", template |-> t] \in Message
  /\ \A msg \in Message : /\ msg.template \in Template
                          /\ IsTemplate(msg) => msg.future \in BOOLEAN
                          /\ IsTemplate(msg) <=> ~IsPrevHash(msg)
  /\ Template \subseteq Nat /\ None \notin Template
  /\ \A n \in 0..MaxTemplate : n < MaxTemplate => n \in Template
BY ManagerAssumption DEF Message, Stream!Message, Template, Stream!Template, IsTemplate, IsPrevHash

\* The element at the end, and what taking the head does to the positions.
LEMMA QueueFacts ==
  ASSUME NEW q \in Seq(Message)
  PROVE  /\ Len(q) \in Nat /\ (q = <<>> <=> Len(q) = 0)
         /\ \A i \in 1..Len(q) : q[i] \in Message
         /\ \A m \in Message : /\ Append(q, m) \in Seq(Message) /\ Append(q, m) # <<>>
                               /\ Len(Append(q, m)) = Len(q) + 1
                               /\ \A i \in 1..Len(q) : Append(q, m)[i] = q[i]
                               /\ Append(q, m)[Len(q) + 1] = m
         /\ q # <<>> => /\ Head(q) = q[1] /\ Tail(q) \in Seq(Message)
                        /\ Len(Tail(q)) = Len(q) - 1
                        /\ \A i \in 1..Len(Tail(q)) : Tail(q)[i] = q[i + 1]
OBVIOUS

\* The provider's steps.
LEMMA ProviderSends ==
  ASSUME Provider, StreamTypes
  PROVE  /\ running /\ UNCHANGED <<lastTemplate, lastPrevHash, cancelled, running>>
         /\ \/ \E future \in BOOLEAN :
                 /\ owed = None /\ sent < MaxTemplate /\ (sent = 0 => future)
                 /\ sent' = sent + 1 /\ owed' = IF future THEN sent ELSE None
                 /\ tpQueue' = Append(tpQueue, [type |-> "NewTemplate", template |-> sent,
                                                future |-> future])
            \/ /\ owed # None /\ owed' = None /\ sent' = sent
               /\ tpQueue' = Append(tpQueue, [type |-> "SetNewPrevHash", template |-> owed])
BY DEF Provider, SendNewTemplate, SendSetNewPrevHash, Stream!SendNewTemplate,
       Stream!SendSetNewPrevHash, Stream!NewTemplate, Stream!SetNewPrevHash, pool

LEMMA InitStreamTypes == Init => StreamTypes
<1> SUFFICES ASSUME Init PROVE StreamTypes
  OBVIOUS
<1>1. sent = 0 /\ owed = None /\ tpQueue = <<>> /\ lastTemplate = None /\ lastPrevHash = None
  BY DEF Init
<1>2. sent \in 0..MaxTemplate /\ tpQueue \in Seq(Message)
  BY <1>1, ManagerAssumption, EmptySeq
<1>3. cancelled \in BOOLEAN /\ running \in BOOLEAN
  BY DEF Init
<1> QED
  BY <1>1, <1>2, <1>3 DEF StreamTypes

LEMMA StepStreamTypes == StreamTypes /\ [Next]_vars => StreamTypes'
<1> SUFFICES ASSUME StreamTypes, [Next]_vars PROVE StreamTypes'
  OBVIOUS
<1> USE DEF StreamTypes
<1>1. CASE Provider
  <2>1. CASE \E future \in BOOLEAN :
               /\ owed = None /\ sent < MaxTemplate
               /\ sent' = sent + 1 /\ owed' = IF future THEN sent ELSE None
               /\ tpQueue' = Append(tpQueue, [type |-> "NewTemplate", template |-> sent,
                                              future |-> future])
    <3>1. sent \in Template /\ sent + 1 \in 0..MaxTemplate
      BY <2>1, TypedMessages, ManagerAssumption
    <3>2. tpQueue' \in Seq(Message) /\ owed' \in Template \cup {None}
      BY <2>1, <3>1, TypedMessages, QueueFacts
    <3> QED
      BY <1>1, <2>1, <3>1, <3>2, ProviderSends
  <2>2. CASE /\ owed # None /\ owed' = None /\ sent' = sent
             /\ tpQueue' = Append(tpQueue, [type |-> "SetNewPrevHash", template |-> owed])
    <3>1. tpQueue' \in Seq(Message)
      BY <2>2, TypedMessages, QueueFacts
    <3> QED
      BY <1>1, <2>2, <3>1, ProviderSends
  <2> QED
    BY <1>1, <2>1, <2>2, ProviderSends
<1>2. CASE HandleNewTemplate
  <2>1. /\ tpQueue # <<>> /\ tpQueue' = Tail(tpQueue)
        /\ lastTemplate' = StoredTemplate(Head(tpQueue))
        /\ UNCHANGED <<sent, owed, lastPrevHash, cancelled, running>>
    BY <1>2 DEF HandleNewTemplate, provider, pool
  <2>2. Head(tpQueue).template \in Template /\ tpQueue' \in Seq(Message)
    BY <2>1, TypedMessages, QueueFacts
  <2> QED
    BY <2>1, <2>2 DEF StoredTemplate
<1>3. CASE HandleSetNewPrevHash
  <2>1. /\ tpQueue # <<>> /\ lastPrevHash' = Head(tpQueue).template
        /\ UNCHANGED <<sent, owed, lastTemplate>>
    BY <1>3 DEF HandleSetNewPrevHash, provider
  <2>2. \/ tpQueue' = Tail(tpQueue) /\ UNCHANGED <<cancelled, running>>
        \/ tpQueue' = <<>> /\ cancelled' = TRUE /\ running' = FALSE
    BY <1>3 DEF HandleSetNewPrevHash, Shutdown, CloseIo, pool
  <2>3. Head(tpQueue).template \in Template /\ Tail(tpQueue) \in Seq(Message)
    BY <2>1, TypedMessages, QueueFacts
  <2>4. tpQueue' \in Seq(Message)
    BY <2>2, <2>3, EmptySeq
  <2> QED
    BY <2>1, <2>2, <2>3, <2>4
<1>4. CASE EndsStream \/ SameStream
  BY <1>4, EmptySeq DEF EndsStream, SameStream, CloseIo, provider
<1> QED
  BY <1>1, <1>2, <1>3, <1>4, StreamKinds

-----------------------------------------------------------------------------
\* Ids are numbers, which None is not.
LEMMA TemplateIds ==
  ASSUME StreamTypes
  PROVE  /\ sent \in Nat /\ None \notin Nat
         /\ lastTemplate # None => lastTemplate \in Nat
         /\ lastPrevHash # None => lastPrevHash \in Nat
         /\ owed # None => owed \in Nat
         /\ Len(tpQueue) \in Nat /\ (tpQueue = <<>> <=> Len(tpQueue) = 0)
         /\ \A i \in 1..Len(tpQueue) : tpQueue[i].template \in Nat /\ tpQueue[i] \in Message
<1>1. Template \subseteq Nat /\ None \notin Nat /\ sent \in Nat
  BY ManagerAssumption, TypedMessages DEF StreamTypes
<1>2. /\ Len(tpQueue) \in Nat /\ (tpQueue = <<>> <=> Len(tpQueue) = 0)
      /\ \A i \in 1..Len(tpQueue) : tpQueue[i] \in Message
  BY QueueFacts DEF StreamTypes
<1>3. \A i \in 1..Len(tpQueue) : tpQueue[i].template \in Nat
  BY <1>1, <1>2, TypedMessages
<1> QED
  BY <1>1, <1>2, <1>3 DEF StreamTypes

LEMMA InitStream == Init => StreamInv
<1> SUFFICES ASSUME Init PROVE StreamInv
  OBVIOUS
<1>1. /\ sent = 0 /\ owed = None /\ tpQueue = <<>> /\ lastTemplate = None /\ lastPrevHash = None
      /\ running = TRUE
  BY DEF Init
<1>2. \A i \in 1..Len(tpQueue) : FALSE
  BY <1>1, EmptySeq
<1> QED
  BY <1>1, <1>2 DEF StreamInv, QueueInv, OrderInv, Settled

LEMMA ProviderStream ==
  ASSUME StreamTypes, StreamInv, Provider
  PROVE  StreamInv'
<1> DEFINE n == Len(tpQueue)
<1>1. /\ QueueInv /\ OrderInv /\ running' = TRUE
      /\ lastTemplate' = lastTemplate /\ Settled' = Settled /\ lastPrevHash' = lastPrevHash
  BY ProviderSends DEF StreamInv, StreamTypes, Settled
<1>2. tpQueue \in Seq(Message)
  BY DEF StreamTypes
<1>3. CASE \E future \in BOOLEAN :
             /\ owed = None /\ sent < MaxTemplate /\ (sent = 0 => future)
             /\ sent' = sent + 1 /\ owed' = IF future THEN sent ELSE None
             /\ tpQueue' = Append(tpQueue, [type |-> "NewTemplate", template |-> sent,
                                            future |-> future])
  <2>1. PICK future \in BOOLEAN :
             /\ owed = None /\ sent < MaxTemplate /\ (sent = 0 => future)
             /\ sent' = sent + 1 /\ owed' = IF future THEN sent ELSE None
             /\ tpQueue' = Append(tpQueue, [type |-> "NewTemplate", template |-> sent,
                                            future |-> future])
    BY <1>3
  <2> DEFINE m == [type |-> "NewTemplate", template |-> sent, future |-> future]
  <2>2. m \in Message /\ IsTemplate(m) /\ (IsFuture(m) <=> future) /\ ~IsPrevHash(m)
        /\ m.template = sent
    <3>1. sent \in Template
      BY <2>1, TypedMessages DEF StreamTypes
    <3> QED
      BY <3>1, TypedMessages DEF IsTemplate, IsFuture, IsPrevHash
  <2>3. tpQueue' = Append(tpQueue, m)
    BY <2>1
  <2> HIDE DEF m
  <2>4. /\ n \in Nat /\ Len(tpQueue') = n + 1 /\ tpQueue' # <<>>
        /\ \A i \in 1..n : tpQueue'[i] = tpQueue[i]
        /\ tpQueue'[n + 1] = m /\ (tpQueue = <<>> <=> n = 0)
    BY <1>2, <2>2, <2>3, QueueFacts
  <2> HIDE DEF n
  <2>5. \A i \in 1..(n + 1) : i \in 1..n \/ i = n + 1
    BY <2>4
  <2>6. n = 0 => Settled
    BY <1>1, <2>1, <2>4, TemplateIds DEF QueueInv, OrderInv, Settled
  <2>7. \A i \in 1..n : IsFuture(tpQueue[i]) => i < n /\ IsPrevHash(tpQueue[i + 1])
    BY <1>1, <2>1, <2>4, TemplateIds DEF QueueInv, n
  <2>8. QueueInv'
    <3>1. ASSUME NEW i \in 1..Len(tpQueue'), IsPrevHash(tpQueue'[i])
          PROVE  IF i = 1 THEN ~Settled' /\ lastTemplate' = tpQueue'[i].template
                 ELSE IsFuture(tpQueue'[i - 1]) /\ tpQueue'[i - 1].template = tpQueue'[i].template
      <4>1. i \in 1..n
        BY <2>2, <2>4, <2>5, <3>1
      <4>2. i # 1 => i - 1 \in 1..n
        BY <2>4, <4>1
      <4> QED
        BY <1>1, <2>4, <3>1, <4>1, <4>2 DEF QueueInv, n
    <3>2. ASSUME NEW i \in 1..Len(tpQueue'), IsFuture(tpQueue'[i])
          PROVE  IF i = Len(tpQueue') THEN owed' = tpQueue'[i].template
                 ELSE IsPrevHash(tpQueue'[i + 1])
      <4>1. CASE i = n + 1
        BY <2>1, <2>2, <2>4, <3>2, <4>1
      <4>2. CASE i \in 1..n
        <5>1. i < n /\ IsPrevHash(tpQueue[i + 1]) /\ i + 1 \in 1..n
          BY <2>4, <2>7, <3>2, <4>2
        <5> QED
          BY <2>4, <5>1
      <4> QED
        BY <2>4, <2>5, <4>1, <4>2
    <3>3. ~Settled' => IsPrevHash(tpQueue'[1])
      <4>1. ~Settled => 1 \in 1..n /\ IsPrevHash(tpQueue[1])
        BY <1>1, <2>4, <2>6 DEF QueueInv
      <4> QED
        BY <1>1, <2>4, <4>1
    <3>4. owed' # None => IsFuture(tpQueue'[Len(tpQueue')]) /\ tpQueue'[Len(tpQueue')].template = owed'
      BY <2>1, <2>2, <2>4
    <3> QED
      BY <2>4, <3>1, <3>2, <3>3, <3>4 DEF QueueInv
  <2>9. OrderInv'
    <3>1. \A i \in 1..n : IsTemplate(tpQueue[i]) => tpQueue[i].template < sent
                                                   /\ tpQueue[i].template \in Nat
      BY <1>1, TemplateIds DEF OrderInv, n
    <3>2. lastTemplate # None => lastTemplate < sent /\ lastTemplate \in Nat
      BY <1>1, TemplateIds DEF OrderInv
    <3>3. ASSUME NEW i \in 1..Len(tpQueue'), IsTemplate(tpQueue'[i])
          PROVE  tpQueue'[i].template < sent' /\ (lastTemplate # None => lastTemplate < tpQueue'[i].template)
      <4>1. CASE i = n + 1
        BY <2>1, <2>2, <2>4, <3>2, <4>1, TemplateIds
      <4>2. CASE i \in 1..n
        <5>1. tpQueue'[i] = tpQueue[i] /\ (lastTemplate # None => lastTemplate < tpQueue[i].template)
          BY <1>1, <2>4, <3>3, <4>2 DEF OrderInv, n
        <5> QED
          BY <2>1, <3>1, <3>3, <4>2, <5>1, TemplateIds
      <4> QED
        BY <2>4, <2>5, <4>1, <4>2
    <3>4. ASSUME NEW i \in 1..Len(tpQueue'), NEW j \in 1..Len(tpQueue'), i < j,
                 IsTemplate(tpQueue'[i]), IsTemplate(tpQueue'[j])
          PROVE  tpQueue'[i].template < tpQueue'[j].template
      <4>1. i \in 1..n /\ tpQueue'[i] = tpQueue[i]
        BY <2>4, <2>5, <3>4
      <4>2. CASE j = n + 1
        BY <2>2, <2>4, <3>1, <3>4, <4>1, <4>2
      <4>3. CASE j \in 1..n
        BY <1>1, <2>4, <3>4, <4>1, <4>3 DEF OrderInv, n
      <4> QED
        BY <2>4, <2>5, <4>2, <4>3
    <3>5. lastTemplate' # None => lastTemplate' < sent'
      BY <1>1, <2>1, <3>2, TemplateIds
    <3>6. lastTemplate' = None => IsFuture(tpQueue'[1])
      <4>1. CASE n = 0
        <5>1. lastTemplate = None => IsFuture(m)
          BY <1>1, <2>1, <2>2, <2>4, <4>1 DEF OrderInv
        <5>2. tpQueue'[1] = m
          BY <2>4, <4>1
        <5> QED
          BY <1>1, <5>1, <5>2
      <4>2. CASE n # 0
        BY <1>1, <2>4, <4>2 DEF OrderInv
      <4> QED
        BY <4>1, <4>2
    <3>7. lastPrevHash' # None => lastTemplate' # None /\ lastPrevHash' <= lastTemplate'
      BY <1>1 DEF OrderInv
    <3> QED
      BY <1>1, <2>4, <3>3, <3>4, <3>5, <3>6, <3>7 DEF OrderInv
  <2> QED
    BY <1>1, <2>8, <2>9 DEF StreamInv
<1>4. CASE /\ owed # None /\ owed' = None /\ sent' = sent
           /\ tpQueue' = Append(tpQueue, [type |-> "SetNewPrevHash", template |-> owed])
  <2> DEFINE m == [type |-> "SetNewPrevHash", template |-> owed]
  <2>1. tpQueue' = Append(tpQueue, m)
    BY <1>4
  <2>2. m \in Message /\ IsPrevHash(m) /\ ~IsTemplate(m) /\ ~IsFuture(m) /\ m.template = owed
    BY <1>4, TypedMessages DEF StreamTypes, IsPrevHash, IsTemplate, IsFuture
  <2> HIDE DEF m
  <2>4. /\ n \in Nat /\ Len(tpQueue') = n + 1 /\ tpQueue' # <<>>
        /\ \A i \in 1..n : tpQueue'[i] = tpQueue[i]
        /\ tpQueue'[n + 1] = m /\ (tpQueue = <<>> <=> n = 0)
    BY <1>2, <2>2, <2>1, QueueFacts
  <2>3. IF n = 0 THEN ~Settled /\ lastTemplate = owed
                 ELSE IsFuture(tpQueue[n]) /\ tpQueue[n].template = owed
    BY <1>1, <1>4, <2>4 DEF QueueInv
  <2>6. \A i \in 1..n : IsFuture(tpQueue[i]) => IF i = n THEN TRUE ELSE IsPrevHash(tpQueue[i + 1])
    BY <1>1 DEF QueueInv
  <2>7. \A i \in 1..n : IsPrevHash(tpQueue[i]) =>
          IF i = 1 THEN ~Settled /\ lastTemplate = tpQueue[i].template
          ELSE IsFuture(tpQueue[i - 1]) /\ tpQueue[i - 1].template = tpQueue[i].template
    BY <1>1 DEF QueueInv
  <2> HIDE DEF n
  <2>5. \A i \in 1..(n + 1) : i \in 1..n \/ i = n + 1
    BY <2>4
  <2>8. QueueInv'
    <3>1. ASSUME NEW i \in 1..Len(tpQueue'), IsPrevHash(tpQueue'[i])
          PROVE  IF i = 1 THEN ~Settled' /\ lastTemplate' = tpQueue'[i].template
                 ELSE IsFuture(tpQueue'[i - 1]) /\ tpQueue'[i - 1].template = tpQueue'[i].template
      <4>1. CASE i = n + 1
        <5>1. n # 0 => n \in 1..n /\ i - 1 = n /\ i # 1
          BY <2>4, <4>1
        <5> QED
          BY <1>1, <2>2, <2>3, <2>4, <4>1, <5>1
      <4>2. CASE i \in 1..n
        <5>1. i # 1 => i - 1 \in 1..n
          BY <2>4, <4>2
        <5> QED
          BY <1>1, <2>4, <2>7, <3>1, <4>2, <5>1
      <4> QED
        BY <2>4, <2>5, <4>1, <4>2
    <3>2. ASSUME NEW i \in 1..Len(tpQueue'), IsFuture(tpQueue'[i])
          PROVE  i # Len(tpQueue') /\ IsPrevHash(tpQueue'[i + 1])
      <4>1. i \in 1..n
        BY <2>2, <2>4, <2>5, <3>2
      <4>2. CASE i = n
        BY <2>2, <2>4, <4>2
      <4>3. CASE i # n
        <5>1. i + 1 \in 1..n
          BY <2>4, <4>1, <4>3
        <5> QED
          BY <2>4, <2>6, <3>2, <4>1, <4>3, <5>1
      <4> QED
        BY <2>4, <4>1, <4>2, <4>3
    <3>3. ~Settled' => IsPrevHash(tpQueue'[1])
      <4>1. CASE n = 0
        BY <2>2, <2>4, <4>1
      <4>2. CASE n # 0
        <5>1. 1 \in 1..n
          BY <2>4, <4>2
        <5> QED
          BY <1>1, <2>4, <4>2, <5>1 DEF QueueInv
      <4> QED
        BY <4>1, <4>2
    <3> QED
      BY <1>4, <2>4, <3>1, <3>2, <3>3 DEF QueueInv
  <2>9. OrderInv'
    <3>1. \A i \in 1..Len(tpQueue') : IsTemplate(tpQueue'[i]) => i \in 1..n /\ tpQueue'[i] = tpQueue[i]
      BY <2>2, <2>4, <2>5
    <3>2. lastTemplate = None => n # 0 /\ 1 \in 1..n /\ IsFuture(tpQueue[1])
      BY <1>1, <1>4, <2>3, <2>4 DEF OrderInv
    <3> QED
      BY <1>1, <1>4, <2>4, <3>1, <3>2 DEF OrderInv, n
  <2> QED
    BY <1>1, <2>8, <2>9 DEF StreamInv
<1> QED
  BY <1>3, <1>4, ProviderSends

\* The ChannelManager takes the message at the head.
LEMMA HeadOfQueue ==
  ASSUME StreamTypes, tpQueue # <<>>
  PROVE  /\ Head(tpQueue) = tpQueue[1] /\ Head(tpQueue) \in Message /\ 1 \in 1..Len(tpQueue)
         /\ Head(tpQueue).template \in Nat
         /\ Tail(tpQueue) \in Seq(Message) /\ Len(Tail(tpQueue)) \in Nat
         /\ Len(Tail(tpQueue)) = Len(tpQueue) - 1
         /\ Tail(tpQueue) = <<>> <=> Len(tpQueue) = 1
         /\ \A i \in 1..Len(Tail(tpQueue)) :
              i + 1 \in 1..Len(tpQueue) /\ Tail(tpQueue)[i] = tpQueue[i + 1]
<1>1. tpQueue \in Seq(Message) /\ Len(tpQueue) \in Nat /\ Len(tpQueue) # 0
  BY TemplateIds DEF StreamTypes
<1>2. /\ Head(tpQueue) = tpQueue[1] /\ Tail(tpQueue) \in Seq(Message)
      /\ Len(Tail(tpQueue)) = Len(tpQueue) - 1
      /\ \A i \in 1..Len(Tail(tpQueue)) : Tail(tpQueue)[i] = tpQueue[i + 1]
  BY <1>1, QueueFacts
<1>3. Len(Tail(tpQueue)) \in Nat /\ (Tail(tpQueue) = <<>> <=> Len(Tail(tpQueue)) = 0)
  BY <1>2, QueueFacts
<1>4. 1 \in 1..Len(tpQueue)
  BY <1>1
<1>5. Head(tpQueue) \in Message /\ Head(tpQueue).template \in Nat
  BY <1>2, <1>4, TemplateIds
<1> QED
  BY <1>1, <1>2, <1>3, <1>4, <1>5

\* What the head says of the tip, and what may come behind it.
LEMMA HeadOfStream ==
  ASSUME StreamTypes, QueueInv, OrderInv, tpQueue # <<>>, NEW m, m = Head(tpQueue)
  PROVE  /\ IsPrevHash(m) => ~Settled /\ lastTemplate = m.template
         /\ IsTemplate(m) => /\ Settled /\ (lastTemplate = None => IsFuture(m))
                            /\ (lastTemplate # None => lastTemplate < m.template)
         /\ IsFuture(m) => IF Len(tpQueue) = 1 THEN owed = m.template
                           ELSE IsPrevHash(tpQueue[2]) /\ tpQueue[2].template = m.template
         /\ ~IsFuture(m) => /\ Len(tpQueue) = 1 => owed = None
                            /\ Len(tpQueue) # 1 => ~IsPrevHash(tpQueue[2])
<1>1. /\ m = tpQueue[1] /\ m \in Message /\ 1 \in 1..Len(tpQueue) /\ Len(tpQueue) \in Nat
      /\ IsTemplate(m) <=> ~IsPrevHash(m)
  BY HeadOfQueue, TemplateIds, TypedMessages
<1>2. IsPrevHash(m) => ~Settled /\ lastTemplate = m.template
  BY <1>1 DEF QueueInv
<1>3. IsTemplate(m) => /\ Settled /\ (lastTemplate = None => IsFuture(m))
                      /\ (lastTemplate # None => lastTemplate < m.template)
  BY <1>1 DEF QueueInv, OrderInv
<1>4. Len(tpQueue) # 1 => 2 \in 1..Len(tpQueue) /\ 2 # 1 /\ 2 - 1 = 1 /\ 1 + 1 = 2
  <2>1. Len(tpQueue) \in Nat /\ 1 \in 1..Len(tpQueue)
    BY <1>1
  <2> QED
    BY <2>1
<1>5. Len(tpQueue) # 1 /\ IsPrevHash(tpQueue[2]) => IsFuture(m) /\ tpQueue[2].template = m.template
  BY <1>1, <1>4 DEF QueueInv
<1>6. IsFuture(m) => IF Len(tpQueue) = 1 THEN owed = m.template ELSE IsPrevHash(tpQueue[2])
  BY <1>1, <1>4 DEF QueueInv
<1>7. Len(tpQueue) = 1 /\ owed # None => IsFuture(m)
  BY <1>1 DEF QueueInv
<1> QED
  BY <1>2, <1>3, <1>5, <1>6, <1>7

\* Taking a message: the queue shifts, the rest stays what it was.
LEMMA TakeStream ==
  ASSUME StreamTypes, QueueInv, OrderInv, tpQueue # <<>>, NEW m, m = Head(tpQueue),
         tpQueue' = Tail(tpQueue), UNCHANGED <<sent, owed>>,
         IsFuture(m) => lastTemplate' = m.template /\ lastPrevHash' = lastPrevHash,
         IsTemplate(m) /\ ~IsFuture(m) => UNCHANGED <<lastTemplate, lastPrevHash>>,
         IsPrevHash(m) => lastTemplate' = lastTemplate /\ lastPrevHash' = m.template
  PROVE  QueueInv' /\ OrderInv'
<1> DEFINE n == Len(tpQueue)
<1>1. /\ m = tpQueue[1] /\ m \in Message /\ 1 \in 1..n /\ n \in Nat
      /\ IsTemplate(m) <=> ~IsPrevHash(m)
      /\ m.template \in Nat /\ None \notin Nat /\ sent \in Nat
      /\ lastTemplate # None => lastTemplate \in Nat
      /\ lastPrevHash # None => lastPrevHash \in Nat
      /\ \A i \in 1..n : tpQueue[i].template \in Nat
  BY HeadOfQueue, TemplateIds, TypedMessages
<1>2. /\ Len(tpQueue') = n - 1 /\ (tpQueue' = <<>> <=> n = 1)
      /\ \A i \in 1..(n - 1) : i + 1 \in 1..n /\ tpQueue'[i] = tpQueue[i + 1]
  BY HeadOfQueue
<1>3. IsFuture(m) => IsTemplate(m)
  BY DEF IsFuture, IsTemplate
<1>4. Settled' <=> ~IsFuture(m)
  <2>1. CASE IsFuture(m)
    <3>1. lastPrevHash = lastTemplate /\ (lastTemplate # None => lastTemplate < m.template)
      BY <1>3, <2>1, HeadOfStream DEF Settled
    <3> QED
      BY <1>1, <2>1, <3>1 DEF Settled
  <2>2. CASE IsTemplate(m) /\ ~IsFuture(m)
    BY <2>2, HeadOfStream DEF Settled
  <2>3. CASE IsPrevHash(m)
    BY <1>1, <1>3, <2>3, HeadOfStream DEF Settled
  <2> QED
    BY <1>1, <1>3, <2>1, <2>2, <2>3
<1>5. QueueInv'
  <2>1. ASSUME NEW i \in 1..Len(tpQueue'), IsPrevHash(tpQueue'[i])
        PROVE  IF i = 1 THEN ~Settled' /\ lastTemplate' = tpQueue'[i].template
               ELSE IsFuture(tpQueue'[i - 1]) /\ tpQueue'[i - 1].template = tpQueue'[i].template
    <3>1. i + 1 \in 1..n /\ tpQueue'[i] = tpQueue[i + 1] /\ i + 1 # 1 /\ (i + 1) - 1 = i
      BY <1>1, <1>2
    <3>2. IsFuture(tpQueue[i]) /\ tpQueue[i].template = tpQueue[i + 1].template
      BY <2>1, <3>1 DEF QueueInv
    <3>3. CASE i = 1
      BY <1>1, <1>4, <3>1, <3>2, <3>3
    <3>4. CASE i # 1
      <4>1. i - 1 \in 1..(n - 1) /\ (i - 1) + 1 = i
        BY <1>1, <1>2, <3>4
      <4> QED
        BY <1>2, <3>1, <3>2, <3>4, <4>1
    <3> QED
      BY <3>3, <3>4
  <2>2. ASSUME NEW i \in 1..Len(tpQueue'), IsFuture(tpQueue'[i])
        PROVE  IF i = Len(tpQueue') THEN owed' = tpQueue'[i].template
               ELSE IsPrevHash(tpQueue'[i + 1])
    <3>1. i + 1 \in 1..n /\ tpQueue'[i] = tpQueue[i + 1] /\ (i = Len(tpQueue') <=> i + 1 = n)
      BY <1>1, <1>2
    <3>2. IF i + 1 = n THEN owed = tpQueue[i + 1].template ELSE IsPrevHash(tpQueue[(i + 1) + 1])
      BY <2>2, <3>1 DEF QueueInv
    <3>3. i + 1 # n => i + 1 \in 1..(n - 1)
      BY <1>1, <3>1
    <3> QED
      BY <1>2, <3>1, <3>2, <3>3
  <2>3. n # 1 => tpQueue'[1] = tpQueue[2] /\ 1 \in 1..(n - 1)
    BY <1>1, <1>2
  <2>4. ~Settled' => IF tpQueue' = <<>> THEN owed' = lastTemplate' ELSE IsPrevHash(tpQueue'[1])
    BY <1>2, <1>4, <2>3, HeadOfStream
  <2>5. ASSUME owed' # None
        PROVE  IF tpQueue' = <<>> THEN ~Settled' /\ lastTemplate' = owed'
               ELSE IsFuture(tpQueue'[Len(tpQueue')]) /\ tpQueue'[Len(tpQueue')].template = owed'
    <3>1. CASE n = 1
      BY <1>2, <1>4, <2>5, <3>1, HeadOfStream
    <3>2. CASE n # 1
      <4>1. Len(tpQueue') \in 1..(n - 1) /\ Len(tpQueue') + 1 = n
        BY <1>1, <1>2, <3>2
      <4>2. IsFuture(tpQueue[n]) /\ tpQueue[n].template = owed
        BY <2>5 DEF QueueInv
      <4>3. tpQueue'[Len(tpQueue')] = tpQueue[n]
        BY <1>2, <4>1
      <4> QED
        BY <1>2, <3>2, <4>2, <4>3
    <3> QED
      BY <3>1, <3>2
  <2> QED
    BY <2>1, <2>2, <2>4, <2>5 DEF QueueInv
<1>6. OrderInv'
  <2>1. \A i \in 1..Len(tpQueue') : i + 1 \in 1..n /\ tpQueue'[i] = tpQueue[i + 1] /\ 1 < i + 1
    BY <1>1, <1>2
  <2>2. IsFuture(m) => m.template < sent
    BY <1>1, <1>3 DEF OrderInv
  <2>3. ASSUME NEW i \in 1..Len(tpQueue'), IsTemplate(tpQueue'[i])
        PROVE  /\ tpQueue'[i].template < sent'
               /\ lastTemplate' # None => lastTemplate' < tpQueue'[i].template
    <3>1. tpQueue[i + 1].template < sent /\ (lastTemplate # None => lastTemplate < tpQueue[i + 1].template)
      BY <2>1, <2>3 DEF OrderInv
    <3>2. IsFuture(m) => m.template < tpQueue[i + 1].template
      BY <1>1, <1>3, <2>1, <2>3 DEF OrderInv
    <3> QED
      BY <1>1, <1>3, <2>1, <3>1, <3>2
  <2>4. ASSUME NEW i \in 1..Len(tpQueue'), NEW j \in 1..Len(tpQueue'), i < j,
               IsTemplate(tpQueue'[i]), IsTemplate(tpQueue'[j])
        PROVE  tpQueue'[i].template < tpQueue'[j].template
    <3>1. i + 1 < j + 1
      BY <1>1, <1>2, <2>4
    <3> QED
      BY <2>1, <2>4, <3>1 DEF OrderInv
  <2>5. lastTemplate' # None /\ lastTemplate' < sent'
    <3>1. CASE IsFuture(m)
      <4>1. lastTemplate' = m.template /\ m.template < sent /\ sent' = sent
        BY <2>2, <3>1
      <4> QED
        BY <1>1, <4>1
    <3>2. CASE ~IsFuture(m)
      <4>1. lastTemplate' = lastTemplate /\ sent' = sent
        BY <1>1, <3>2
      <4>2. lastTemplate # None
        BY <1>1, <3>2, HeadOfStream
      <4> QED
        BY <4>1, <4>2 DEF OrderInv
    <3> QED
      BY <3>1, <3>2
  <2>6. lastPrevHash' # None => lastTemplate' # None /\ lastPrevHash' <= lastTemplate'
    <3>1. lastPrevHash # None => lastTemplate # None /\ lastPrevHash <= lastTemplate
      BY DEF OrderInv
    <3>2. CASE IsFuture(m)
      <4>1. lastTemplate # None => lastTemplate < m.template
        BY <1>3, <3>2, HeadOfStream
      <4> QED
        BY <1>1, <3>1, <3>2, <4>1
    <3>3. CASE IsTemplate(m) /\ ~IsFuture(m)
      BY <3>1, <3>3
    <3>4. CASE IsPrevHash(m)
      BY <1>1, <3>4, HeadOfStream
    <3> QED
      BY <1>1, <3>2, <3>3, <3>4
  <2> QED
    BY <2>3, <2>4, <2>5, <2>6 DEF OrderInv
<1> QED
  BY <1>5, <1>6

\* The loop ends: nothing is left of the stream.
LEMMA StreamEnds ==
  ASSUME running' = FALSE, cancelled' = TRUE, tpQueue' = <<>>
  PROVE  StreamInv'
BY DEF StreamInv

LEMMA StepStream == StreamTypes /\ StreamInv /\ [Next]_vars => StreamInv'
<1> SUFFICES ASSUME StreamTypes, StreamInv, [Next]_vars PROVE StreamInv'
  OBVIOUS
<1>1. CASE HandleNewTemplate
  <2> DEFINE m == Head(tpQueue)
  <2>1. /\ running = TRUE /\ running' = TRUE /\ tpQueue # <<>> /\ IsTemplate(m) /\ ~IsPrevHash(m)
        /\ tpQueue' = Tail(tpQueue) /\ UNCHANGED <<sent, owed, lastPrevHash>>
        /\ lastTemplate' = IF m.future THEN m.template ELSE lastTemplate
    BY <1>1 DEF HandleNewTemplate, Ready, StoredTemplate, IsTemplate, IsPrevHash, provider, pool,
                StreamTypes
  <2>2. IsFuture(m) <=> m.future
    <3>1. m.future \in BOOLEAN
      BY <2>1, HeadOfQueue, TypedMessages
    <3> QED
      BY <2>1, <3>1 DEF IsFuture, IsTemplate
  <2> HIDE DEF m
  <2>3. QueueInv' /\ OrderInv'
    <3>1. QueueInv /\ OrderInv /\ UNCHANGED <<sent, owed>>
      BY <2>1 DEF StreamInv
    <3>2. m = Head(tpQueue)
      BY DEF m
    <3>3. /\ IsFuture(m) => lastTemplate' = m.template /\ lastPrevHash' = lastPrevHash
          /\ IsTemplate(m) /\ ~IsFuture(m) => UNCHANGED <<lastTemplate, lastPrevHash>>
          /\ IsPrevHash(m) => lastTemplate' = lastTemplate /\ lastPrevHash' = m.template
      BY <2>1, <2>2
    <3> QED
      BY <2>1, <3>1, <3>2, <3>3, TakeStream
  <2> QED
    BY <2>1, <2>3 DEF StreamInv
<1>2. CASE HandleSetNewPrevHash
  <2> DEFINE m == Head(tpQueue)
  <2>1. /\ running = TRUE /\ tpQueue # <<>> /\ ~IsTemplate(m) /\ ~IsFuture(m)
        /\ UNCHANGED <<sent, owed, lastTemplate>> /\ lastPrevHash' = m.template
    BY <1>2 DEF HandleSetNewPrevHash, Ready, IsTemplate, IsFuture, provider, StreamTypes
  <2>2. \/ tpQueue' = Tail(tpQueue) /\ running' = running
        \/ Shutdown
    BY <1>2 DEF HandleSetNewPrevHash, pool
  <2>3. CASE Shutdown
    BY <2>3, StreamEnds DEF Shutdown, CloseIo
  <2>4. CASE tpQueue' = Tail(tpQueue) /\ running' = running
    <3>1. QueueInv /\ OrderInv /\ UNCHANGED <<sent, owed>>
      BY <2>1 DEF StreamInv
    <3>2. m = Head(tpQueue)
      OBVIOUS
    <3> HIDE DEF m
    <3>3. QueueInv' /\ OrderInv'
      BY <2>1, <2>4, <3>1, <3>2, TakeStream
    <3> QED
      BY <2>1, <2>4, <3>3 DEF StreamInv
  <2> QED
    BY <2>2, <2>3, <2>4
<1>3. CASE EndsStream
  BY <1>3, StreamEnds DEF EndsStream, CloseIo
<1>4. CASE SameStream
  <2>1. /\ UNCHANGED <<sent, owed, tpQueue, lastTemplate, lastPrevHash, running>>
        /\ cancelled = TRUE => cancelled' = TRUE
    BY <1>4 DEF SameStream, provider
  <2>2. QueueInv' = QueueInv /\ OrderInv' = OrderInv
    BY <2>1 DEF QueueInv, OrderInv, Settled
  <2> QED
    BY <2>1, <2>2 DEF StreamInv, StreamTypes
<1> QED
  BY <1>1, <1>2, <1>3, <1>4, StreamKinds, ProviderStream

\* The token is cancelled by the pool itself only between the two messages
\* that announce a tip: whoever arrives, opens or fails, with any queue.
THEOREM StopsAtTipOnly == Spec => ShutdownOnlyWhileTipChanges
<1> DEFINE TipChanges == \/ owed # None
                         \/ \E i \in DOMAIN tpQueue : tpQueue[i].type = "SetNewPrevHash"
<1>1. Init => StreamTypes /\ StreamInv
  BY InitStreamTypes, InitStream
<1>2. StreamTypes /\ StreamInv /\ [Next]_vars => (StreamTypes /\ StreamInv)'
  BY StepStreamTypes, StepStream
<1>3. StreamTypes /\ StreamInv /\ [Next]_vars => [cancelled' # cancelled => TipChanges]_vars
  <2> SUFFICES ASSUME StreamTypes, StreamInv, [Next]_vars, cancelled' # cancelled
               PROVE  TipChanges
    OBVIOUS
  <2>1. tpQueue # <<>> => 1 \in DOMAIN tpQueue /\ Head(tpQueue) = tpQueue[1]
    <3>1. DOMAIN tpQueue = 1..Len(tpQueue)
      BY DEF StreamTypes
    <3> QED
      BY <3>1, HeadOfQueue
  <2>2. CASE ~Settled /\ running
    <3>1. IF tpQueue = <<>> THEN owed = lastTemplate ELSE IsPrevHash(tpQueue[1])
      BY <2>2 DEF StreamInv, QueueInv
    <3>2. lastTemplate # None
      BY <2>2 DEF StreamInv, OrderInv, Settled
    <3> QED
      BY <2>1, <3>1, <3>2 DEF IsPrevHash
  <2>3. CASE HandleSetNewPrevHash
    <3>1. tpQueue # <<>> /\ IsPrevHash(Head(tpQueue))
      BY <2>3 DEF HandleSetNewPrevHash, IsPrevHash
    <3> QED
      BY <2>1, <3>1 DEF IsPrevHash
  <2>4. CASE EndsStream \/ SameStream
    <3>1. ~Settled /\ cancelled' = TRUE
      BY <2>4 DEF EndsStream, SameStream, StreamTypes
    <3>2. running
      BY <3>1 DEF StreamInv, StreamTypes
    <3> QED
      BY <2>2, <3>1, <3>2
  <2>5. CASE Provider \/ HandleNewTemplate
    BY <2>5, ProviderSends DEF HandleNewTemplate, pool
  <2> QED
    BY <2>3, <2>4, <2>5, StreamKinds
<1> QED
  BY <1>1, <1>2, <1>3, PTL DEF Spec, ShutdownOnlyWhileTipChanges

-----------------------------------------------------------------------------
(***************************************************************************)
(* The types of what is kept of each connection.                           *)
(***************************************************************************)
ConnData(x) ==
  /\ DOMAIN x = DataFields
  /\ x.customWork \in BOOLEAN /\ x.standardJobs \in BOOLEAN
  /\ x.payout \in Address \cup {None}
  /\ x.nextId \in (GroupId + 1)..(MaxChannelId + 1)
  /\ x.groupNext \in Job \cup {None} /\ x.groupNow \in Job \cup {None}
  /\ x.members \subseteq ChannelId
  /\ DOMAIN x.channels \subseteq ChannelId
  /\ \A c \in DOMAIN x.channels : x.channels[c] \in Channel

DataTypes == DOMAIN data = Downstream /\ \A d \in Downstream : ConnData(data[d])

TableTypes ==
  /\ vardiff \subseteq Downstream \X ChannelId
  /\ sessions \subseteq Downstream \X ChannelId

QueuedTypes == queued \in [Downstream -> 0..MaxQueued]

TypeInv == StreamTypes /\ LifeInv /\ TipKnown /\ DataTypes /\ TableTypes /\ QueuedTypes

LEMMA TypesAreTypeOK == TypeInv => TypeOK
<1> SUFFICES ASSUME TypeInv PROVE TypeOK
  OBVIOUS
<1>1. /\ stage \in [Downstream -> {"idle", "bootstrapped", "failed", "registered",
                                  "inserted", "started", "running", "left"}]
      /\ removal \in [Downstream \cup {CM} ->
                        [step : {"none", "record", "unmap", "decrement", "unsend"},
                         target : Downstream \cup {None}]]
      /\ conns \subseteq Downstream /\ senders \subseteq Downstream /\ active \in Nat
  BY DEF TypeInv, LifeInv, LifeTypes, Mapped, Entered, Task
<1> QED
  BY <1>1 DEF TypeInv, StreamTypes, DataTypes, ConnData, TableTypes, QueuedTypes, TypeOK

LEMMA NoDataTyped == ConnData(NoData)
<1>1. NoData.nextId = 2 /\ 2 \in (GroupId + 1)..(MaxChannelId + 1)
  BY ManagerAssumption DEF NoData, GroupId
<1> QED
  BY <1>1 DEF NoData, ConnData, DataFields

LEMMA InitTypes == Init => TypeInv
<1> SUFFICES ASSUME Init PROVE TypeInv
  OBVIOUS
<1>1. DataTypes
  BY NoDataTyped DEF Init, DataTypes
<1>2. TableTypes /\ QueuedTypes /\ TipKnown
  BY ManagerAssumption DEF Init, TableTypes, QueuedTypes, TipKnown
<1> QED
  BY <1>1, <1>2, InitStreamTypes, InitLife DEF TypeInv

\* The tip is never forgotten, and a connection starts when it is known.
LEMMA StepTipKnown == TypeInv /\ [Next]_vars => TipKnown'
<1> SUFFICES ASSUME TypeInv, [Next]_vars PROVE TipKnown'
  OBVIOUS
<1> USE DEF TypeInv
<1>1. (lastTemplate # None => lastTemplate' # None) /\ (lastPrevHash # None => lastPrevHash' # None)
  <2>1. CASE HandleNewTemplate
    <3>1. /\ tpQueue # <<>> /\ lastPrevHash' = lastPrevHash
          /\ lastTemplate' = StoredTemplate(Head(tpQueue))
      BY <2>1 DEF HandleNewTemplate
    <3> QED
      BY <3>1, HeadOfQueue, TemplateIds DEF StoredTemplate
  <2>2. CASE HandleSetNewPrevHash
    <3>1. /\ tpQueue # <<>> /\ lastTemplate' = lastTemplate
          /\ lastPrevHash' = Head(tpQueue).template
      BY <2>2 DEF HandleSetNewPrevHash
    <3> QED
      BY <3>1, HeadOfQueue, TemplateIds
  <2> QED
    BY <2>1, <2>2, StreamKinds, ProviderSends DEF EndsStream, SameStream
<1>2. \A d \in Downstream : stage'[d] # "idle" =>
        stage[d] # "idle" \/ (lastTemplate # None /\ lastPrevHash # None)
  <2>1. CASE UNCHANGED stage
    BY <2>1
  <2>2. ASSUME NEW d \in Downstream, Connection(d)
        PROVE  \/ stage[d] # "idle" /\ \E v : stage' = [stage EXCEPT ![d] = v]
               \/ stage' = stage
               \/ lastTemplate # None /\ lastPrevHash # None
    BY <2>2 DEF Connection, BootstrapGroupChannel, RegisterSender, InsertDownstream,
           IncrementActiveDownstreams, SetupConnection, ForwardMiningMessage, Disconnect
  <2>3. stage' = stage \/ \E d \in Downstream : Connection(d)
    <3>1. AtMostTakes \/ EndsLoop => stage' = stage
      BY DEF AtMostTakes, EndsLoop
    <3>2. \A d \in Downstream : HandlerDisconnects(d) => stage' = stage
      BY DEF HandlerDisconnects
    <3>3. \A p \in Task : RemoveDownstream(p) => stage' = stage
      BY DEF RemoveDownstream, RecordClosed, Unmap, DecrementActiveDownstreams, RemoveSender
    <3> QED
      BY <3>1, <3>2, <3>3, StepKinds
  <2>4. ASSUME NEW d \in Downstream, stage[d] # "idle", NEW v, stage' = [stage EXCEPT ![d] = v]
        PROVE  \A e \in Downstream : stage'[e] # "idle" => stage[e] # "idle"
    BY <2>4 DEF LifeInv, LifeTypes
  <2> QED
    BY <2>1, <2>2, <2>3, <2>4
<1> QED
  BY <1>1, <1>2 DEF TipKnown

LEMMA StepQueuedTypes == TypeInv /\ [Next]_vars => QueuedTypes'
<1> SUFFICES ASSUME TypeInv, [Next]_vars PROVE QueuedTypes'
  OBVIOUS
<1>0. queued \in [Downstream -> 0..MaxQueued] /\ MaxQueued \in Nat
  BY ManagerAssumption DEF TypeInv, QueuedTypes
<1>1. ASSUME NEW d \in Downstream, queued[d] > 0, queued' = [queued EXCEPT ![d] = @ - 1]
      PROVE  QueuedTypes'
  <2>1. queued[d] - 1 \in 0..MaxQueued
    BY <1>0, <1>1
  <2> QED
    BY <1>0, <1>1, <2>1 DEF QueuedTypes
<1>2. AtMostTakes \/ EndsLoop => QueuedTypes'
  BY <1>0, <1>1 DEF AtMostTakes, EndsLoop, CloseIo, QueuedTypes
<1>3. ASSUME NEW d \in Downstream, HandlerDisconnects(d) PROVE QueuedTypes'
  BY <1>1, <1>3 DEF HandlerDisconnects, Receives, Taken
<1>4. ASSUME NEW p \in Task, RemoveDownstream(p) PROVE QueuedTypes'
  BY <1>0, <1>4 DEF RemoveDownstream, RecordClosed, Unmap, DecrementActiveDownstreams, RemoveSender,
                    QueuedTypes
<1>5. ASSUME NEW d \in Downstream, Connection(d) PROVE QueuedTypes'
  <2>1. CASE ForwardMiningMessage(d)
    <3>1. queued[d] < MaxQueued /\ queued' = [queued EXCEPT ![d] = @ + 1]
      BY <2>1 DEF ForwardMiningMessage
    <3>2. queued[d] + 1 \in 0..MaxQueued
      BY <1>0, <3>1
    <3> QED
      BY <1>0, <3>1, <3>2 DEF QueuedTypes
  <2>2. CASE ~ForwardMiningMessage(d)
    BY <1>0, <1>5, <2>2 DEF Connection, BootstrapGroupChannel, RegisterSender, InsertDownstream,
           IncrementActiveDownstreams, SetupConnection, Disconnect, QueuedTypes
  <2> QED
    BY <2>1, <2>2
<1> QED
  BY <1>2, <1>3, <1>4, <1>5, StepKinds

-----------------------------------------------------------------------------
\* What the handlers make of a connection, field by field.
ChannelFields == {"kind", "owner", "next", "now", "toldNext", "toldNow"}

LEMMA ChannelShape ==
  /\ \A chan \in Channel : /\ DOMAIN chan = ChannelFields
                           /\ chan.kind \in {"standard", "extended"} /\ chan.owner \in Address
                           /\ chan.next \in Job \cup {None} /\ chan.now \in Job \cup {None}
                           /\ chan.toldNext \in Job \cup {None} /\ chan.toldNow \in Job \cup {None}
  /\ \A kind \in {"standard", "extended"}, owner \in Address :
       \A n, m, tn, tm \in Job \cup {None} :
         [kind |-> kind, owner |-> owner, next |-> n, now |-> m, toldNext |-> tn, toldNow |-> tm]
           \in Channel
BY DEF Channel, ChannelFields

\* The job that a channel gets for a template, if it gets one.
Alone(x, c) == x.channels[c].kind = "standard" /\ x.standardJobs
IsTold(x, c) == Alone(x, c) \/ (~x.standardJobs /\ c \in x.members)
JobFor(x, c, msg) ==
  [template |-> msg.template, pays |-> Payee(x), by |-> IF Alone(x, c) THEN "channel" ELSE "group"]

LEMMA JobsTyped ==
  ASSUME NEW x, ConnData(x), NEW t \in Template
  PROVE  /\ Payee(x) \in Address \cup {PoolScript}
         /\ \A by \in {"group", "channel"} :
              [template |-> t, pays |-> Payee(x), by |-> by] \in Job
         /\ \A by \in {"group", "channel"}, a \in Address \cup {PoolScript} :
              [template |-> t, pays |-> a, by |-> by] \in Job
         /\ None \notin Job
         /\ \A j \in Job : j.template \in Template /\ j.pays \in Address \cup {PoolScript}
<1>1. Payee(x) \in Address \cup {PoolScript}
  BY DEF ConnData, Payee
<1>2. \A by \in {"group", "channel"}, a \in Address \cup {PoolScript} :
        [template |-> t, pays |-> a, by |-> by] \in Job
  BY DEF Job
<1>3. \A j \in Job : j.template \in Template /\ j.pays \in Address \cup {PoolScript}
  BY DEF Job
<1>4. None \notin Job
  BY ManagerAssumption, TypedMessages DEF Job
<1> QED
  BY <1>1, <1>2, <1>3, <1>4

\* new is chan, given job j.
GivenJob(chan, new, j, told, future) ==
  /\ new.kind = chan.kind /\ new.owner = chan.owner
  /\ IF future
       THEN /\ new.next = j /\ new.now = chan.now
            /\ new.toldNext = (IF told THEN j ELSE chan.toldNext)
            /\ new.toldNow = chan.toldNow
       ELSE /\ new.now = j /\ new.next = chan.next
            /\ new.toldNow = (IF told THEN j ELSE chan.toldNow)
            /\ new.toldNext = chan.toldNext

LEMMA JobGiven ==
  ASSUME NEW chan \in Channel, NEW j \in Job, NEW future \in BOOLEAN, NEW told \in BOOLEAN,
         NEW new, new = IF told THEN ToldJob(WithJob(chan, j, future), j, future)
                        ELSE WithJob(chan, j, future)
  PROVE  new \in Channel /\ GivenJob(chan, new, j, told, future)
<1>1. /\ DOMAIN chan = ChannelFields
      /\ chan = [kind |-> chan.kind, owner |-> chan.owner, next |-> chan.next, now |-> chan.now,
                toldNext |-> chan.toldNext, toldNow |-> chan.toldNow]
  BY ChannelShape DEF Channel
<1>2. /\ chan.kind \in {"standard", "extended"} /\ chan.owner \in Address
      /\ chan.next \in Job \cup {None} /\ chan.now \in Job \cup {None}
      /\ chan.toldNext \in Job \cup {None} /\ chan.toldNow \in Job \cup {None}
      /\ j \in Job \cup {None}
  BY ChannelShape
<1>3. CASE future
  <2>1. PICK tn \in Job \cup {None} : tn = IF told THEN j ELSE chan.toldNext
    BY <1>2
  <2>2. new = [kind |-> chan.kind, owner |-> chan.owner, next |-> j, now |-> chan.now,
               toldNext |-> tn, toldNow |-> chan.toldNow]
    BY <1>1, <1>3, <2>1 DEF ToldJob, WithJob, ChannelFields
  <2>3. /\ new \in Channel /\ new.kind = chan.kind /\ new.owner = chan.owner /\ new.next = j
        /\ new.now = chan.now /\ new.toldNext = tn /\ new.toldNow = chan.toldNow
    BY <1>2, <2>1, <2>2 DEF Channel
  <2> QED
    BY <1>3, <2>1, <2>3 DEF GivenJob
<1>4. CASE ~future
  <2>1. PICK tm \in Job \cup {None} : tm = IF told THEN j ELSE chan.toldNow
    BY <1>2
  <2>2. new = [kind |-> chan.kind, owner |-> chan.owner, next |-> chan.next, now |-> j,
               toldNext |-> chan.toldNext, toldNow |-> tm]
    BY <1>1, <1>4, <2>1 DEF ToldJob, WithJob, ChannelFields
  <2>3. /\ new \in Channel /\ new.kind = chan.kind /\ new.owner = chan.owner /\ new.now = j
        /\ new.next = chan.next /\ new.toldNow = tm /\ new.toldNext = chan.toldNext
    BY <1>2, <2>1, <2>2 DEF Channel
  <2> QED
    BY <1>4, <2>1, <2>3 DEF GivenJob
<1> QED
  BY <1>3, <1>4

LEMMA WithTemplateFields ==
  ASSUME NEW x, ConnData(x), NEW msg \in Message, IsTemplate(msg),
         NEW y, y = WithTemplate(x, msg)
  PROVE  /\ ConnData(y)
         /\ y.customWork = x.customWork /\ y.standardJobs = x.standardJobs
         /\ y.payout = x.payout /\ y.nextId = x.nextId /\ y.members = x.members
         /\ LET j == [template |-> msg.template, pays |-> Payee(x), by |-> "group"]
            IN  /\ y.groupNext = IF msg.future THEN j ELSE x.groupNext
                /\ y.groupNow = IF msg.future THEN x.groupNow ELSE j
         /\ DOMAIN y.channels = DOMAIN x.channels
         /\ \A c \in DOMAIN x.channels :
              GivenJob(x.channels[c], y.channels[c], JobFor(x, c, msg), IsTold(x, c), msg.future)
<1>1. /\ DOMAIN x = DataFields /\ x.standardJobs \in BOOLEAN /\ msg.future \in BOOLEAN
      /\ msg.template \in Template
  BY TypedMessages DEF ConnData
<1>2. /\ DOMAIN y = DataFields
      /\ y.customWork = x.customWork /\ y.standardJobs = x.standardJobs
      /\ y.payout = x.payout /\ y.nextId = x.nextId /\ y.members = x.members
      /\ LET j == [template |-> msg.template, pays |-> Payee(x), by |-> "group"]
         IN  /\ y.groupNext = IF msg.future THEN j ELSE x.groupNext
             /\ y.groupNow = IF msg.future THEN x.groupNow ELSE j
  BY <1>1 DEF WithTemplate, DataFields
<1>3. DOMAIN y.channels = DOMAIN x.channels
  BY <1>1 DEF WithTemplate, DataFields
<1>4. ASSUME NEW c \in DOMAIN x.channels
      PROVE  LET j    == JobFor(x, c, msg)
                 chan == WithJob(x.channels[c], j, msg.future)
             IN  y.channels[c] = IF IsTold(x, c) THEN ToldJob(chan, j, msg.future) ELSE chan
  <2>1. CASE Alone(x, c)
    BY <1>1, <2>1 DEF WithTemplate, DataFields, IsTold, Alone, JobFor
  <2>2. CASE ~Alone(x, c)
    BY <1>1, <2>2 DEF WithTemplate, DataFields, IsTold, Alone, JobFor
  <2> QED
    BY <2>1, <2>2
<1>5. ASSUME NEW c \in DOMAIN x.channels
      PROVE  /\ y.channels[c] \in Channel
             /\ GivenJob(x.channels[c], y.channels[c], JobFor(x, c, msg), IsTold(x, c), msg.future)
  <2>1. PICK j : j = JobFor(x, c, msg)
    OBVIOUS
  <2>2. j \in Job /\ x.channels[c] \in Channel
    BY <1>1, <2>1, JobsTyped DEF JobFor, ConnData
  <2>3. PICK chan \in Channel : chan = x.channels[c]
    BY <2>2
  <2>4. PICK told \in BOOLEAN : told = IsTold(x, c)
    BY DEF IsTold
  <2>5. y.channels[c] = IF told THEN ToldJob(WithJob(chan, j, msg.future), j, msg.future)
                        ELSE WithJob(chan, j, msg.future)
    BY <1>4, <2>1, <2>3, <2>4
  <2> QED
    BY <1>1, <2>1, <2>2, <2>3, <2>4, <2>5, JobGiven
<1>6. [template |-> msg.template, pays |-> Payee(x), by |-> "group"] \in Job
  BY <1>1, JobsTyped
<1>7. ConnData(y)
  BY <1>1, <1>2, <1>3, <1>5, <1>6 DEF ConnData
<1> QED
  BY <1>2, <1>3, <1>5, <1>7

LEMMA WithPrevHashFields ==
  ASSUME NEW x, ConnData(x), NEW y, y = WithPrevHash(x)
  PROVE  /\ ConnData(y)
         /\ y.customWork = x.customWork /\ y.standardJobs = x.standardJobs
         /\ y.payout = x.payout /\ y.nextId = x.nextId /\ y.members = x.members
         /\ y.groupNext = None /\ y.groupNow = x.groupNext
         /\ DOMAIN y.channels = DOMAIN x.channels
         /\ \A c \in DOMAIN x.channels :
              LET chan == x.channels[c]
                  next == y.channels[c]
              IN  /\ next \in Channel /\ next.kind = chan.kind /\ next.owner = chan.owner
                  /\ next.now = IF chan.next = None THEN chan.now ELSE chan.next
                  /\ next.next = None /\ next.toldNext = None
                  /\ Alone(x, c) => next.toldNow = Activated(chan.toldNext, chan.next)
                  /\ ~Alone(x, c) /\ GroupIsTold(x) /\ c \in x.members =>
                       next.toldNow = Activated(chan.toldNext, x.groupNext)
<1>1. DOMAIN x = DataFields /\ x.groupNext \in Job \cup {None}
      /\ \A c \in DOMAIN x.channels : x.channels[c] \in Channel
  BY DEF ConnData
<1>2. /\ DOMAIN y = DataFields
      /\ y.customWork = x.customWork /\ y.standardJobs = x.standardJobs
      /\ y.payout = x.payout /\ y.nextId = x.nextId /\ y.members = x.members
      /\ y.groupNext = None /\ y.groupNow = x.groupNext
  BY <1>1 DEF WithPrevHash, DataFields
<1>3. DOMAIN y.channels = DOMAIN x.channels
  BY <1>1 DEF WithPrevHash, DataFields
<1>4. ASSUME NEW c \in DOMAIN x.channels
      PROVE  LET chan == x.channels[c]
                 new == y.channels[c]
             IN  /\ new \in Channel /\ new.kind = chan.kind /\ new.owner = chan.owner
                 /\ new.now = (IF chan.next = None THEN chan.now ELSE chan.next)
                 /\ new.next = None /\ new.toldNext = None
                 /\ Alone(x, c) => new.toldNow = Activated(chan.toldNext, chan.next)
                 /\ ~Alone(x, c) /\ GroupIsTold(x) /\ c \in x.members =>
                      new.toldNow = Activated(chan.toldNext, x.groupNext)
  <2>1. PICK chan \in Channel : chan = x.channels[c]
    BY <1>1
  <2>2. PICK told : told = IF chan.kind = "standard" /\ x.standardJobs
                                    THEN Activated(chan.toldNext, chan.next)
                                  ELSE IF GroupIsTold(x) /\ c \in x.members
                                    THEN Activated(chan.toldNext, x.groupNext)
                                  ELSE chan.toldNow
    OBVIOUS
  <2>3. y.channels[c] = [chan EXCEPT !.now = IF chan.next = None THEN @ ELSE chan.next,
                                     !.next = None, !.toldNext = None, !.toldNow = told]
    BY <1>1, <2>1, <2>2 DEF WithPrevHash, DataFields
  <2>4. /\ Alone(x, c) => told = Activated(chan.toldNext, chan.next)
        /\ ~Alone(x, c) /\ GroupIsTold(x) /\ c \in x.members => told = Activated(chan.toldNext, x.groupNext)
    <3>1. Alone(x, c) <=> chan.kind = "standard" /\ x.standardJobs
      BY <2>1 DEF Alone
    <3>2. CASE Alone(x, c)
      <4>1. chan.kind = "standard" /\ x.standardJobs
        BY <3>1, <3>2
      <4>2. told = Activated(chan.toldNext, chan.next)
        BY <2>2, <4>1
      <4> QED
        BY <3>2, <4>2
    <3>3. CASE ~Alone(x, c) /\ GroupIsTold(x) /\ c \in x.members
      <4>1. told = Activated(chan.toldNext, x.groupNext)
        BY <2>2, <3>1, <3>3
      <4> QED
        BY <3>3, <4>1
    <3> QED
      BY <3>2, <3>3
  <2>5. told \in Job \cup {None}
    <3>1. \A a, b \in Job \cup {None} : Activated(a, b) \in Job \cup {None}
      BY DEF Activated
    <3>2. /\ chan.next \in Job \cup {None} /\ chan.toldNext \in Job \cup {None}
          /\ chan.toldNow \in Job \cup {None}
      BY ChannelShape
    <3> QED
      BY <1>1, <2>2, <3>1, <3>2
  <2>6. /\ y.channels[c] \in Channel
        /\ y.channels[c] = [kind |-> chan.kind, owner |-> chan.owner, next |-> None,
              now |-> IF chan.next = None THEN chan.now ELSE chan.next,
              toldNext |-> None, toldNow |-> told]
    <3>1. /\ DOMAIN chan = ChannelFields
          /\ chan = [kind |-> chan.kind, owner |-> chan.owner, next |-> chan.next, now |-> chan.now,
                    toldNext |-> chan.toldNext, toldNow |-> chan.toldNow]
      BY ChannelShape DEF Channel
    <3>2. y.channels[c] = [kind |-> chan.kind, owner |-> chan.owner, next |-> None,
              now |-> IF chan.next = None THEN chan.now ELSE chan.next,
              toldNext |-> None, toldNow |-> told]
      BY <2>3, <3>1 DEF ChannelFields
    <3>3. PICK now \in Job \cup {None} : now = IF chan.next = None THEN chan.now ELSE chan.next
      BY ChannelShape
    <3>4. chan.kind \in {"standard", "extended"} /\ chan.owner \in Address /\ None \in Job \cup {None}
      BY ChannelShape
    <3>6. y.channels[c] = [kind |-> chan.kind, owner |-> chan.owner, next |-> None,
              now |-> now, toldNext |-> None, toldNow |-> told]
      BY <3>2, <3>3
    <3>5. y.channels[c] \in Channel
      BY <2>5, <3>3, <3>4, <3>6 DEF Channel
    <3> QED
      BY <3>2, <3>5
  <2> QED
    BY <2>1, <2>4, <2>6
<1>5. ConnData(y)
  BY <1>1, <1>2, <1>3, <1>4 DEF ConnData
<1> QED
  BY <1>2, <1>3, <1>4, <1>5

-----------------------------------------------------------------------------
\* What the handling of the client's messages makes of a connection.
LEMMA OpeningFields ==
  ASSUME NEW x, ConnData(x), x.nextId <= MaxChannelId, NEW addr \in Address,
         NEW y, y = Opening(x, addr)
  PROVE  /\ ConnData(y) /\ y.payout = addr
         /\ y.customWork = x.customWork /\ y.standardJobs = x.standardJobs
         /\ y.groupNext = x.groupNext /\ y.members = x.members /\ y.channels = x.channels
<1>1. DOMAIN x = DataFields /\ DOMAIN y = DataFields /\ y.payout = addr
      /\ y.customWork = x.customWork /\ y.standardJobs = x.standardJobs
      /\ y.groupNext = x.groupNext /\ y.groupNow = x.groupNow
      /\ y.members = x.members /\ y.channels = x.channels /\ y.nextId = x.nextId + 1
  BY DEF ConnData, Opening, DataFields
<1>2. x.nextId + 1 \in (GroupId + 1)..(MaxChannelId + 1)
  BY ManagerAssumption DEF ConnData, GroupId
<1> QED
  BY <1>1, <1>2 DEF ConnData

\* y is x with channel chan opened.
OpenedFrom(x, y, chan, joins) ==
  /\ y.payout = chan.owner
  /\ y.customWork = x.customWork /\ y.standardJobs = x.standardJobs
  /\ y.groupNext = x.groupNext
  /\ y.members = IF joins THEN x.members \cup {x.nextId} ELSE x.members
  /\ DOMAIN y.channels = DOMAIN x.channels \cup {x.nextId}
  /\ \A c \in DOMAIN y.channels :
       y.channels[c] = IF c = x.nextId THEN chan ELSE x.channels[c]

LEMMA OpenedFields ==
  ASSUME NEW x, ConnData(x), x.nextId <= MaxChannelId, NEW chan \in Channel,
         NEW joins \in BOOLEAN, NEW y, y = Opened(x, chan, joins)
  PROVE  ConnData(y) /\ OpenedFrom(x, y, chan, joins)
<1>1. chan.owner \in Address
  BY ChannelShape
<1>2. PICK z : z = Opening(x, chan.owner)
  OBVIOUS
<1>3. /\ ConnData(z) /\ z.payout = chan.owner
      /\ z.customWork = x.customWork /\ z.standardJobs = x.standardJobs
      /\ z.groupNext = x.groupNext /\ z.members = x.members /\ z.channels = x.channels
  BY <1>1, <1>2, OpeningFields
<1>4. DOMAIN z = DataFields
  BY <1>3 DEF ConnData
<1>5. y = [z EXCEPT !.channels = [c \in DOMAIN x.channels \cup {x.nextId} |->
                                    IF c = x.nextId THEN chan ELSE x.channels[c]],
                    !.members = IF joins THEN @ \cup {x.nextId} ELSE @]
  BY <1>2 DEF Opened
<1>6. /\ DOMAIN y = DataFields /\ y.payout = chan.owner
      /\ y.customWork = x.customWork /\ y.standardJobs = x.standardJobs
      /\ y.groupNext = x.groupNext /\ y.groupNow = z.groupNow /\ y.nextId = z.nextId
      /\ y.members = IF joins THEN x.members \cup {x.nextId} ELSE x.members
      /\ y.channels = [c \in DOMAIN x.channels \cup {x.nextId} |->
                         IF c = x.nextId THEN chan ELSE x.channels[c]]
  BY <1>3, <1>4, <1>5 DEF DataFields
<1>7. x.nextId \in ChannelId
  BY ManagerAssumption DEF ConnData, ChannelId, GroupId
<1>8. /\ DOMAIN y.channels = DOMAIN x.channels \cup {x.nextId}
      /\ \A c \in DOMAIN y.channels :
           y.channels[c] = IF c = x.nextId THEN chan ELSE x.channels[c]
  BY <1>6
<1>9. /\ y.members \subseteq ChannelId /\ DOMAIN y.channels \subseteq ChannelId
      /\ \A c \in DOMAIN y.channels : y.channels[c] \in Channel
  BY <1>6, <1>7, <1>8 DEF ConnData
<1> QED
  BY <1>1, <1>3, <1>6, <1>8, <1>9 DEF ConnData, OpenedFrom

\* Without one of its channels.
Without(x, c) == [x EXCEPT !.channels = [e \in DOMAIN x.channels \ {c} |-> x.channels[e]]]

LEMMA WithoutFields ==
  ASSUME NEW x, ConnData(x), NEW c, NEW y, y = Without(x, c)
  PROVE  /\ ConnData(y) /\ y.payout = x.payout
         /\ y.customWork = x.customWork /\ y.standardJobs = x.standardJobs
         /\ y.groupNext = x.groupNext /\ y.members = x.members
         /\ DOMAIN y.channels = DOMAIN x.channels \ {c}
         /\ \A e \in DOMAIN y.channels : y.channels[e] = x.channels[e]
<1>1. /\ DOMAIN y = DataFields /\ y.payout = x.payout
      /\ y.customWork = x.customWork /\ y.standardJobs = x.standardJobs
      /\ y.groupNext = x.groupNext /\ y.groupNow = x.groupNow /\ y.nextId = x.nextId
      /\ y.members = x.members
      /\ y.channels = [e \in DOMAIN x.channels \ {c} |-> x.channels[e]]
  BY DEF ConnData, Without, DataFields
<1>2. /\ DOMAIN y.channels = DOMAIN x.channels \ {c}
      /\ \A e \in DOMAIN y.channels : y.channels[e] = x.channels[e]
  BY <1>1
<1> QED
  BY <1>1, <1>2 DEF ConnData

\* The connection task's own changes: the group channel's first job, the flags.
Bootstrapped(x, job) == [x EXCEPT !.groupNow = job]
WithFlags(x, flags) == [x EXCEPT !.customWork = flags.customWork,
                                 !.standardJobs = flags.standardJobs]

LEMMA BootstrappedFields ==
  ASSUME NEW x, ConnData(x), NEW job \in Job, NEW y, y = Bootstrapped(x, job)
  PROVE  /\ ConnData(y) /\ y.payout = x.payout
         /\ y.customWork = x.customWork /\ y.standardJobs = x.standardJobs
         /\ y.groupNext = x.groupNext /\ y.members = x.members /\ y.channels = x.channels
<1>1. /\ DOMAIN y = DataFields /\ y.payout = x.payout
      /\ y.customWork = x.customWork /\ y.standardJobs = x.standardJobs
      /\ y.groupNext = x.groupNext /\ y.groupNow = job /\ y.nextId = x.nextId
      /\ y.members = x.members /\ y.channels = x.channels
  BY DEF ConnData, Bootstrapped, DataFields
<1> QED
  BY <1>1 DEF ConnData

LEMMA WithFlagsFields ==
  ASSUME NEW x, ConnData(x), NEW flags \in Flags, NEW y, y = WithFlags(x, flags)
  PROVE  /\ ConnData(y) /\ y.payout = x.payout
         /\ y.groupNext = x.groupNext /\ y.members = x.members /\ y.channels = x.channels
<1>1. /\ DOMAIN y = DataFields /\ y.payout = x.payout
      /\ y.customWork = flags.customWork /\ y.standardJobs = flags.standardJobs
      /\ y.groupNext = x.groupNext /\ y.groupNow = x.groupNow /\ y.nextId = x.nextId
      /\ y.members = x.members /\ y.channels = x.channels
  BY DEF ConnData, WithFlags, DataFields
<1>2. flags.customWork \in BOOLEAN /\ flags.standardJobs \in BOOLEAN
  BY ManagerAssumption
<1> QED
  BY <1>1, <1>2 DEF ConnData

-----------------------------------------------------------------------------
(***************************************************************************)
(* The steps, by what they make of the data of one connection, if any.     *)
(***************************************************************************)
\* A channel of kind may be opened, and whether the group channel takes it in.
MayOpen(d, kind, joins) ==
  /\ ~data[d].customWork => Settled
  /\ kind \in {"standard", "extended"}
  /\ kind = "standard" => ~data[d].customWork /\ joins = ~data[d].standardJobs
  /\ kind = "extended" => joins = ~data[d].customWork

Serves(d) == queued[d] > 0 /\ d \in conns

Turns(d, y) ==
  \/ stage[d] = "idle" /\ Settled /\ lastTemplate # None
       /\ \E job : /\ job = [template |-> lastTemplate, pays |-> PoolScript, by |-> "group"]
                   /\ y = Bootstrapped(data[d], job)
  \/ /\ stage[d] = "started" /\ stage' = [stage EXCEPT ![d] = "running"]
     /\ \E flags \in Flags : y = WithFlags(data[d], flags)
  \/ y = NoData
  \/ /\ Serves(d) /\ data[d].nextId <= MaxChannelId
     /\ \E addr \in Address \cap AddressesOf[d] :
          \/ y = Opening(data[d], addr)
          \/ \E kind, joins : MayOpen(d, kind, joins)
                              /\ y = Opened(data[d], NewChannel(d, kind, addr), joins)
  \/ Serves(d) /\ \E c : y = Without(data[d], c)

OneTurns == \E d \in Downstream : \E y :
  Turns(d, y) /\ data' = [e \in Downstream |-> IF e = d THEN y ELSE data[e]]

SameData == DOMAIN data' = Downstream /\ \A e \in Downstream : data'[e] = data[e]

LEMMA HandlersTurn ==
  ASSUME DOMAIN data = Downstream, NEW d \in Downstream, Handler(d)
  PROVE  OneTurns \/ data' = data
<1> DEFINE Put(y) == [e \in Downstream |-> IF e = d THEN y ELSE data[e]]
<1>0. \A y : data' = [data EXCEPT ![d] = y] => data' = Put(y)
  OBVIOUS
<1>1. SUFFICES data' = data \/ \E y : Turns(d, y) /\ data' = [data EXCEPT ![d] = y]
  BY <1>0 DEF OneTurns
<1>2. ASSUME NEW addr \in Address, CanOpen(d, addr), data' = [data EXCEPT ![d] = Opening(@, addr)]
      PROVE  \E y : Turns(d, y) /\ data' = [data EXCEPT ![d] = y]
  <2>1. PICK y : y = Opening(data[d], addr)
    OBVIOUS
  <2>2. Turns(d, y)
    BY <1>2, <2>1 DEF Turns, Serves, CanOpen, Receives
  <2> QED
    BY <1>2, <2>1, <2>2
<1>3. ASSUME NEW addr \in Address, CanOpen(d, addr), NEW kind, NEW joins,
             MayOpen(d, kind, joins), OpenSucceeds(d, kind, addr, joins)
      PROVE  \E y : Turns(d, y) /\ data' = [data EXCEPT ![d] = y]
  <2>1. PICK y : y = Opened(data[d], NewChannel(d, kind, addr), joins)
    OBVIOUS
  <2>2. data' = [data EXCEPT ![d] = y]
    BY <1>3, <2>1 DEF OpenSucceeds
  <2>3. Turns(d, y)
    BY <1>3, <2>1 DEF Turns, Serves, CanOpen, Receives
  <2> QED
    BY <2>2, <2>3
<1>4. ASSUME NEW addr \in Address, HandleOpenStandardMiningChannel(d, addr)
      PROVE  \E y : Turns(d, y) /\ data' = [data EXCEPT ![d] = y]
  <2>1. CanOpen(d, addr) /\ ~data[d].customWork
    BY <1>4 DEF HandleOpenStandardMiningChannel
  <2>2. \/ Settled /\ OpenSucceeds(d, "standard", addr, ~data[d].standardJobs)
        \/ OpenFails(d, addr)
    BY <1>4 DEF HandleOpenStandardMiningChannel, Settled
  <2>3. Settled => MayOpen(d, "standard", ~data[d].standardJobs)
    BY <2>1 DEF MayOpen
  <2> QED
    BY <1>2, <1>3, <2>1, <2>2, <2>3 DEF OpenFails
<1>5. ASSUME NEW addr \in Address, HandleOpenExtendedMiningChannel(d, addr)
      PROVE  \E y : Turns(d, y) /\ data' = [data EXCEPT ![d] = y]
  <2>1. CanOpen(d, addr)
    BY <1>5 DEF HandleOpenExtendedMiningChannel
  <2>2. \/ (data[d].customWork \/ Settled)
             /\ OpenSucceeds(d, "extended", addr, ~data[d].customWork)
        \/ OpenFails(d, addr)
    BY <1>5 DEF HandleOpenExtendedMiningChannel, Settled
  <2>3. data[d].customWork \/ Settled => MayOpen(d, "extended", ~data[d].customWork)
    BY DEF MayOpen
  <2> QED
    BY <1>2, <1>3, <2>1, <2>2, <2>3 DEF OpenFails
<1>6. ASSUME NEW addr \in Address, OpenRefused(d, addr)
      PROVE  \E y : Turns(d, y) /\ data' = [data EXCEPT ![d] = y]
  BY <1>2, <1>6 DEF OpenRefused
<1>7. ASSUME NEW c \in ChannelId, HandleCloseChannel(d, c)
      PROVE  \E y : Turns(d, y) /\ data' = [data EXCEPT ![d] = y]
  <2>1. PICK y : y = Without(data[d], c)
    OBVIOUS
  <2>2. data' = [data EXCEPT ![d] = y]
    BY <1>7, <2>1 DEF HandleCloseChannel, Without
  <2>3. Turns(d, y)
    BY <1>7, <2>1 DEF Turns, Serves, HandleCloseChannel, Receives
  <2> QED
    BY <2>2, <2>3
<1>8. HandleWithoutEffect(d) => data' = data
  BY DEF HandleWithoutEffect, maps
<1> QED
  BY <1>4, <1>5, <1>6, <1>7, <1>8 DEF Handler

LEMMA ConnectionsTurn ==
  ASSUME DataTypes, NEW d \in Downstream, Connection(d)
  PROVE  OneTurns \/ data' = data
<1>0. DOMAIN data = Downstream /\ DOMAIN data[d] = DataFields
  BY DEF DataTypes, ConnData
<1>1. SUFFICES data' = data \/ \E y : Turns(d, y) /\ data' = [data EXCEPT ![d] = y]
  <2>1. \A y : data' = [data EXCEPT ![d] = y]
                 => data' = [e \in Downstream |-> IF e = d THEN y ELSE data[e]]
    BY <1>0
  <2> QED
    BY <2>1 DEF OneTurns
<1>3. CASE BootstrapGroupChannel(d) /\ data' # data
  <2>1. /\ stage[d] = "idle" /\ Settled /\ lastTemplate # None
        /\ data' = [data EXCEPT ![d].groupNow =
                      [template |-> lastTemplate, pays |-> PoolScript, by |-> "group"]]
    BY <1>3 DEF BootstrapGroupChannel, Settled
  <2>2. PICK job : job = [template |-> lastTemplate, pays |-> PoolScript, by |-> "group"]
    OBVIOUS
  <2>3. PICK y : y = Bootstrapped(data[d], job)
    OBVIOUS
  <2>4. data' = [data EXCEPT ![d] = y]
    BY <1>0, <2>1, <2>2, <2>3 DEF Bootstrapped
  <2>5. Turns(d, y)
    BY <2>1, <2>2, <2>3 DEF Turns
  <2> QED
    BY <2>4, <2>5
<1>4. ASSUME NEW flags \in Flags, SetupConnection(d, flags)
      PROVE  \E y : Turns(d, y) /\ data' = [data EXCEPT ![d] = y]
  <2>1. PICK y : y = WithFlags(data[d], flags)
    OBVIOUS
  <2>2. data' = [data EXCEPT ![d] = y]
    BY <1>0, <1>4, <2>1 DEF WithFlags, SetupConnection, DataFields
  <2>3. Turns(d, y)
    BY <1>4, <2>1 DEF Turns, SetupConnection
  <2> QED
    BY <2>2, <2>3
<1>5. \/ data' = data
      \/ BootstrapGroupChannel(d) /\ data' # data
      \/ \E flags \in Flags : SetupConnection(d, flags)
  BY DEF Connection, RegisterSender, InsertDownstream, IncrementActiveDownstreams,
         ForwardMiningMessage, Disconnect, maps
<1> QED
  BY <1>3, <1>4, <1>5

\* Every step is of one of these kinds.
LEMMA DataKinds ==
  ASSUME DataTypes, StreamTypes, [Next]_vars
  PROVE  \/ HandleNewTemplate
         \/ HandleSetNewPrevHash /\ (running' = FALSE => data' = data)
         \/ /\ OneTurns \/ SameData
            /\ UNCHANGED <<lastTemplate, lastPrevHash>>
<1>1. CASE HandleSetNewPrevHash
  <2>1. Ready /\ ((Shutdown /\ UNCHANGED data) \/ UNCHANGED <<senders, queued, pool>>)
    BY <1>1 DEF HandleSetNewPrevHash
  <2> QED
    BY <1>1, <2>1 DEF Ready, Shutdown, CloseIo, pool
<1>2. ASSUME Provider \/ EndsStream \/ SameStream PROVE UNCHANGED <<lastTemplate, lastPrevHash>>
  BY <1>2, ProviderSends DEF EndsStream, SameStream
<1>3. ASSUME ~HandleNewTemplate, ~HandleSetNewPrevHash PROVE OneTurns \/ SameData
  <2>0. data' = data => SameData
    BY DEF DataTypes, SameData
  <2>1. CASE UNCHANGED vars
    BY <2>0, <2>1 DEF vars, maps
  <2>2. CASE Provider \/ StopOnCancellation
    BY <2>0, <2>2 DEF Provider, SendNewTemplate, SendSetNewPrevHash, StopOnCancellation, maps
  <2>3. ASSUME NEW d \in Downstream, Connection(d) \/ HandleMining(d)
        PROVE  OneTurns \/ data' = data
    <3>1. HandlerDisconnects(d) => data' = data
      BY DEF HandlerDisconnects, maps
    <3>2. HandleMining(d) => Handler(d) \/ HandlerDisconnects(d)
      BY DEF HandleMining, Handler
    <3> QED
      BY <2>3, <3>1, <3>2, HandlersTurn, ConnectionsTurn DEF DataTypes
  <2>4. ASSUME NEW p \in Task, RemoveDownstream(p)
        PROVE  OneTurns \/ SameData
    <3>1. CASE Unmap(p)
      <4>1. PICK d : d = removal[p].target
        OBVIOUS
      <4>2. data' = [data EXCEPT ![d] = NoData]
        BY <3>1, <4>1 DEF Unmap
      <4>3. CASE d \in Downstream
        <5>1. data' = [e \in Downstream |-> IF e = d THEN NoData ELSE data[e]]
          BY <4>2, <4>3 DEF DataTypes
        <5>2. Turns(d, NoData)
          BY DEF Turns
        <5> QED
          BY <4>3, <5>1, <5>2 DEF OneTurns
      <4>4. CASE d \notin Downstream
        BY <4>2, <4>4 DEF DataTypes, SameData
      <4> QED
        BY <4>3, <4>4
    <3> QED
      BY <2>0, <2>4, <3>1 DEF RemoveDownstream, RecordClosed, DecrementActiveDownstreams, RemoveSender
  <2> QED
    BY <1>3, <2>0, <2>1, <2>2, <2>3, <2>4 DEF Next, Task
<1> QED
  BY <1>1, <1>2, <1>3, StreamKinds

LEMMA NewChannelFields ==
  ASSUME TypeInv, NEW d \in Downstream, Serves(d), NEW kind, NEW joins, MayOpen(d, kind, joins),
         NEW addr \in Address, NEW new, new = NewChannel(d, kind, addr)
  PROVE  /\ new \in Channel /\ new.kind = kind /\ new.owner = addr
         /\ new.next = None /\ new.toldNext = None /\ new.toldNow = new.now
         /\ new.now # None => new.now.pays = addr
         /\ ~data[d].customWork => /\ new.now # None /\ new.now.template = lastTemplate
                                   /\ lastTemplate \in Template /\ lastTemplate = lastPrevHash
<1>1. PICK own : own = IF data[d].customWork THEN None
                       ELSE [template |-> lastTemplate, pays |-> addr, by |-> "channel"]
  OBVIOUS
<1>2. ~data[d].customWork => lastTemplate \in Template /\ lastTemplate = lastPrevHash
  <2>1. stage[d] # "idle"
    BY DEF TypeInv, LifeInv, LifeTypes, MapsFollowStages, Serves, Mapped, Entered
  <2>2. lastTemplate \in Template
    BY <2>1 DEF TypeInv, StreamTypes, TipKnown
  <2> QED
    BY <2>2 DEF MayOpen, Settled
<1>3. own \in Job \cup {None} /\ (~data[d].customWork => own \in Job)
  BY <1>1, <1>2 DEF Job
<1>4. None \notin Job
  BY ManagerAssumption, TypedMessages DEF Job
<1>5. new = [kind |-> kind, owner |-> addr, next |-> None, now |-> own,
             toldNext |-> None, toldNow |-> own]
  BY <1>1 DEF NewChannel
<1>6. new \in Channel
  BY <1>3, <1>5 DEF Channel, MayOpen
<1>7. /\ new.kind = kind /\ new.owner = addr
      /\ new.next = None /\ new.toldNext = None /\ new.toldNow = own /\ new.now = own
  BY <1>5
<1>8. /\ own # None => own.pays = addr
      /\ ~data[d].customWork => own # None /\ own.template = lastTemplate
  BY <1>1, <1>3, <1>4
<1> QED
  BY <1>2, <1>6, <1>7, <1>8

LEMMA TurnsTyped ==
  ASSUME TypeInv, NEW d \in Downstream, NEW y, Turns(d, y)
  PROVE  ConnData(y)
<1>1. PICK x : x = data[d]
  OBVIOUS
<1>2. ConnData(x)
  BY <1>1 DEF TypeInv, DataTypes
<1>3. ASSUME lastTemplate # None, NEW job, y = Bootstrapped(x, job),
             job = [template |-> lastTemplate, pays |-> PoolScript, by |-> "group"]
      PROVE  ConnData(y)
  <2>1. lastTemplate \in Template
    BY <1>3 DEF TypeInv, StreamTypes
  <2>2. job \in Job
    BY <1>3, <2>1 DEF Job
  <2> QED
    BY <1>2, <1>3, <2>2, BootstrappedFields
<1>4. ASSUME NEW flags \in Flags, y = WithFlags(x, flags) PROVE ConnData(y)
  BY <1>2, <1>4, WithFlagsFields
<1>5. ASSUME NEW addr \in Address, x.nextId <= MaxChannelId, y = Opening(x, addr) PROVE ConnData(y)
  BY <1>2, <1>5, OpeningFields
<1>6. ASSUME Serves(d), NEW addr \in Address, x.nextId <= MaxChannelId,
             NEW kind, NEW joins, MayOpen(d, kind, joins),
             y = Opened(x, NewChannel(d, kind, addr), joins)
      PROVE  ConnData(y)
  <2>1. PICK chan : chan = NewChannel(d, kind, addr)
    OBVIOUS
  <2>2. chan \in Channel
    BY <1>6, <2>1, NewChannelFields
  <2>3. joins \in BOOLEAN
    BY <1>1, <1>6 DEF MayOpen
  <2> QED
    BY <1>2, <1>6, <2>1, <2>2, <2>3, OpenedFields
<1>7. ASSUME NEW c, y = Without(x, c) PROVE ConnData(y)
  BY <1>2, <1>7, WithoutFields
<1> QED
  BY <1>1, <1>3, <1>4, <1>5, <1>6, <1>7, NoDataTyped DEF Turns

LEMMA StepDataTypes == TypeInv /\ [Next]_vars => DataTypes'
<1> SUFFICES ASSUME TypeInv, [Next]_vars PROVE DataTypes'
  OBVIOUS
<1>0. DataTypes /\ StreamTypes
  BY DEF TypeInv
<1>1. SUFFICES DOMAIN data' = Downstream /\ \A d \in Downstream : ConnData(data'[d])
  BY DEF DataTypes, ConnData
<1>2. CASE HandleNewTemplate
  <2>1. PICK msg : msg = Head(tpQueue)
    OBVIOUS
  <2>2. tpQueue # <<>> /\ IsTemplate(msg)
    BY <1>2, <2>1 DEF HandleNewTemplate, IsTemplate
  <2>3. msg \in Message
    BY <1>0, <2>1, <2>2, HeadOfQueue
  <2>4. data' = [d \in Downstream |-> IF d \in conns /\ ~data[d].customWork
                                        THEN WithTemplate(data[d], msg) ELSE data[d]]
    BY <1>2, <2>1 DEF HandleNewTemplate
  <2>5. \A x : ConnData(x) => \A y : y = WithTemplate(x, msg) => ConnData(y)
    BY <2>2, <2>3, WithTemplateFields
  <2> QED
    BY <1>0, <2>4, <2>5 DEF DataTypes
<1>3. CASE HandleSetNewPrevHash
  <2>1. \/ data' = data
        \/ /\ DOMAIN data' = Downstream
           /\ \A d \in Downstream : data'[d] = data[d] \/ data'[d] = WithPrevHash(data[d])
    BY <1>3 DEF HandleSetNewPrevHash
  <2>2. \A x : ConnData(x) => \A y : y = WithPrevHash(x) => ConnData(y)
    BY WithPrevHashFields
  <2> QED
    BY <1>0, <2>1, <2>2 DEF DataTypes
<1>4. CASE OneTurns
  BY <1>0, <1>4, TurnsTyped DEF OneTurns, DataTypes
<1>5. CASE SameData
  BY <1>0, <1>5 DEF SameData, DataTypes
<1> QED
  BY <1>0, <1>2, <1>3, <1>4, <1>5, DataKinds

\* The other two tables of channels hold connections and channel ids.
LEMMA StepTableTypes == TypeInv /\ [Next]_vars => TableTypes'
<1> SUFFICES ASSUME TypeInv, [Next]_vars PROVE TableTypes'
  OBVIOUS
<1>0. /\ vardiff \subseteq Downstream \X ChannelId /\ sessions \subseteq Downstream \X ChannelId
  BY DEF TypeInv, TableTypes
<1>1. \/ vardiff' \subseteq vardiff /\ sessions' \subseteq sessions
      \/ \E d \in Downstream : \E kind, addr, joins :
           CanOpen(d, addr) /\ OpenSucceeds(d, kind, addr, joins)
  <2>1. ASSUME NEW d \in Downstream, Handler(d)
        PROVE  \/ vardiff' \subseteq vardiff /\ sessions' \subseteq sessions
               \/ \E kind, addr, joins : CanOpen(d, addr) /\ OpenSucceeds(d, kind, addr, joins)
    BY <2>1 DEF Handler, HandleOpenStandardMiningChannel, HandleOpenExtendedMiningChannel, OpenFails,
                OpenRefused, HandleCloseChannel, HandleWithoutEffect, maps
  <2>2. CASE Provider \/ StopOnCancellation \/ HandleNewTemplate \/ HandleSetNewPrevHash
    BY <2>2 DEF Provider, SendNewTemplate, SendSetNewPrevHash, StopOnCancellation,
                HandleNewTemplate, HandleSetNewPrevHash, maps
  <2>3. ASSUME NEW d \in Downstream, Connection(d) \/ HandlerDisconnects(d)
        PROVE  vardiff' \subseteq vardiff /\ sessions' \subseteq sessions
    BY <2>3 DEF Connection, BootstrapGroupChannel, RegisterSender, InsertDownstream,
                IncrementActiveDownstreams, SetupConnection, ForwardMiningMessage, Disconnect,
                HandlerDisconnects, maps
  <2>4. ASSUME NEW p \in Task, RemoveDownstream(p)
        PROVE  vardiff' \subseteq vardiff /\ sessions' \subseteq sessions
    BY <2>4 DEF RemoveDownstream, RecordClosed, Unmap, DecrementActiveDownstreams, RemoveSender
  <2>5. CASE UNCHANGED vars
    BY <2>5 DEF vars, maps
  <2>6. \A d \in Downstream : HandleMining(d) => Handler(d) \/ HandlerDisconnects(d)
    BY DEF HandleMining, Handler
  <2> QED
    BY <2>1, <2>2, <2>3, <2>4, <2>5, <2>6 DEF Next, Task
<1>2. ASSUME NEW d \in Downstream, NEW kind, NEW addr, NEW joins,
             CanOpen(d, addr), OpenSucceeds(d, kind, addr, joins)
      PROVE  TableTypes'
  <2>1. data[d].nextId \in ChannelId
    <3>1. data[d].nextId \in (GroupId + 1)..(MaxChannelId + 1) /\ data[d].nextId <= MaxChannelId
      BY <1>2 DEF TypeInv, DataTypes, ConnData, CanOpen
    <3> QED
      BY <3>1, ManagerAssumption DEF ChannelId, GroupId
  <2>2. /\ vardiff' = vardiff \cup {<<d, data[d].nextId>>}
        /\ sessions' = sessions \cup {<<d, data[d].nextId>>}
    BY <1>2 DEF OpenSucceeds
  <2> QED
    BY <1>0, <2>1, <2>2 DEF TableTypes
<1> QED
  BY <1>0, <1>1, <1>2 DEF TableTypes

LEMMA StepTypes == TypeInv /\ [Next]_vars => TypeInv'
BY StepStreamTypes, StepLife, StepTipKnown, StepDataTypes, StepTableTypes, StepQueuedTypes DEF TypeInv

LEMMA TypesAlways == Spec => []TypeInv
<1>1. TypeInv /\ [Next]_vars => TypeInv'
  BY StepTypes
<1> QED
  BY <1>1, InitTypes, PTL DEF Spec

\* Every variable has its type, whoever connects, opens, closes and leaves: a
\* job is made of a template only once the provider has announced one.
THEOREM StateIsTyped == Spec => []TypeOK
<1>1. Spec => []TypeInv
  BY TypesAlways
<1>2. TypeInv => TypeOK
  BY TypesAreTypeOK
<1> QED
  BY <1>1, <1>2, PTL

-----------------------------------------------------------------------------
(***************************************************************************)
(* Jobs: JobsInv and PaysInv are kept by what the templates make of a      *)
(* connection, and by its own turns.                                       *)
(***************************************************************************)
\* What the server holds for a channel: a job of the tip, and the job of the next
\* tip when that is announced.
HoldsJobs(chan) ==
  /\ chan.now # None /\ chan.now.template >= lastPrevHash
  /\ IF Settled THEN chan.next = None
     ELSE chan.next # None /\ chan.next.template = lastTemplate

\* The channels that the code sends jobs to: an extended channel gets those of
\* its group.  The client of such a channel holds what the server holds.
Follows(x, c) == x.channels[c].kind = "standard" \/ ~x.standardJobs

ClientHolds(x, c) ==
  LET chan == x.channels[c]
  IN  /\ chan.toldNow = chan.now /\ chan.toldNext = chan.next
      /\ ~x.standardJobs => c \in x.members /\ chan.next = x.groupNext

\* An extended channel of a client that requires standard jobs is in the group,
\* and its client holds the job of the opening or none.
ClientHoldsOpening(x, c) == c \in x.members /\ HoldsOpeningJob(x.channels[c])

\* The group channel waits for nothing but the announced tip.
GroupInv(x) ==
  IF Settled THEN x.groupNext = None
  ELSE x.groupNext # None => x.groupNext.template = lastTemplate

ConnJobs(x) ==
  ~x.customWork =>
    /\ GroupInv(x)
    /\ \A c \in DOMAIN x.channels :
         /\ HoldsJobs(x.channels[c])
         /\ Follows(x, c) => ClientHolds(x, c)
         /\ ~Follows(x, c) => ClientHoldsOpening(x, c)

\* A connection outside the maps waits for nothing; before its handshake it is
\* a plain one without channels.
Outside(d) ==
  /\ d \notin conns => data[d].groupNext = None /\ DOMAIN data[d].channels = {}
  /\ stage[d] \notin Entered => ~data[d].customWork /\ DOMAIN data[d].channels = {}

JobsInv == /\ \A d \in Downstream : Outside(d)
           /\ running => \A d \in Downstream : ConnJobs(data[d])

\* The connection's identity and its channels' owners are the client's, and so is
\* who is paid by a job of one of its channels.
ConnPays(d, x) ==
  /\ x.payout \in AddressesOf[d] \cup {None}
  /\ DOMAIN x.channels # {} => x.payout # None
  /\ \A c \in DOMAIN x.channels :
       LET chan == x.channels[c]
       IN  /\ chan.owner \in AddressesOf[d]
           /\ chan.now # None => chan.now.pays \in AddressesOf[d]
           /\ chan.next # None => chan.next.pays \in AddressesOf[d]

PaysInv == \A d \in Downstream : ConnPays(d, data[d])

\* A channel that follows, of a client that holds its jobs, is sent the next.
LEMMA FollowersAreTold ==
  ASSUME NEW x, ConnData(x), NEW c \in DOMAIN x.channels, NEW msg,
         Follows(x, c), ClientHolds(x, c)
  PROVE  /\ IsTold(x, c)
         /\ ~x.standardJobs => /\ c \in x.members
                               /\ JobFor(x, c, msg) = [template |-> msg.template,
                                                       pays |-> Payee(x), by |-> "group"]
<1>1. x.standardJobs \in BOOLEAN
  BY DEF ConnData
<1>2. CASE x.standardJobs
  BY <1>2 DEF Follows, IsTold, Alone
<1>3. CASE ~x.standardJobs
  BY <1>3 DEF ClientHolds, IsTold, JobFor, Alone
<1> QED
  BY <1>1, <1>2, <1>3

LEMMA TemplateJobs ==
  ASSUME StreamTypes, QueueInv, OrderInv, HandleNewTemplate, NEW msg, msg = Head(tpQueue),
         NEW x, ConnData(x), ConnJobs(x), ~x.customWork, NEW y, y = WithTemplate(x, msg)
  PROVE  ConnJobs(y)'
<1>1. /\ tpQueue # <<>> /\ IsTemplate(msg) /\ lastPrevHash' = lastPrevHash
      /\ lastTemplate' = IF msg.future THEN msg.template ELSE lastTemplate
  BY DEF HandleNewTemplate, StoredTemplate, IsTemplate
<1>2. /\ msg \in Message /\ msg.template \in Template /\ msg.template \in Nat
      /\ msg.future \in BOOLEAN
  BY <1>1, HeadOfQueue, TypedMessages
<1>3. /\ Settled /\ (lastTemplate = None => msg.future)
      /\ lastTemplate # None => lastTemplate < msg.template
  BY <1>1, HeadOfStream DEF IsFuture
<1>4. /\ y.customWork = x.customWork /\ y.standardJobs = x.standardJobs
      /\ y.members = x.members
      /\ LET j == [template |-> msg.template, pays |-> Payee(x), by |-> "group"]
         IN  y.groupNext = IF msg.future THEN j ELSE x.groupNext
      /\ DOMAIN y.channels = DOMAIN x.channels
  BY <1>1, <1>2, WithTemplateFields
<1>5. \A c \in DOMAIN x.channels :
        GivenJob(x.channels[c], y.channels[c], JobFor(x, c, msg), IsTold(x, c), msg.future)
  BY <1>1, <1>2, WithTemplateFields
<1>6. \A c \in DOMAIN x.channels :
        LET j == JobFor(x, c, msg) IN j # None /\ j.template = msg.template
  BY <1>2, JobsTyped DEF JobFor
<1>7. GroupInv(x) /\ \A c \in DOMAIN x.channels :
        /\ HoldsJobs(x.channels[c])
        /\ Follows(x, c) => ClientHolds(x, c)
        /\ ~Follows(x, c) => ClientHoldsOpening(x, c)
  BY DEF ConnJobs
<1>8. \A c \in DOMAIN x.channels : Follows(y, c) <=> Follows(x, c)
  BY <1>4, <1>5 DEF Follows, GivenJob
<1>9. ASSUME NEW c \in DOMAIN x.channels, Follows(x, c) PROVE ClientHolds(y, c)
  <2>1. /\ IsTold(x, c) /\ ClientHolds(x, c)
        /\ ~x.standardJobs => /\ c \in x.members
                              /\ JobFor(x, c, msg) = [template |-> msg.template,
                                                      pays |-> Payee(x), by |-> "group"]
    BY <1>7, <1>9, FollowersAreTold
  <2>2. CASE msg.future
    <3>1. y.channels[c].toldNow = y.channels[c].now /\ y.channels[c].toldNext = y.channels[c].next
      BY <1>5, <2>1, <2>2 DEF ClientHolds, GivenJob
    <3>2. ~y.standardJobs => c \in y.members /\ y.channels[c].next = y.groupNext
      BY <1>4, <1>5, <2>1, <2>2 DEF GivenJob
    <3> QED
      BY <3>1, <3>2 DEF ClientHolds
  <2>3. CASE ~msg.future
    <3>1. y.channels[c].toldNow = y.channels[c].now /\ y.channels[c].toldNext = y.channels[c].next
      BY <1>5, <2>1, <2>3 DEF ClientHolds, GivenJob
    <3>2. ~y.standardJobs => c \in y.members /\ y.channels[c].next = y.groupNext
      BY <1>4, <1>5, <2>1, <2>3 DEF ClientHolds, GivenJob
    <3> QED
      BY <3>1, <3>2 DEF ClientHolds
  <2> QED
    BY <1>2, <2>2, <2>3
<1>10. ASSUME NEW c \in DOMAIN x.channels, NEW new, new = y.channels[c] PROVE HoldsJobs(new)'
  <2>1. PICK chan : chan = x.channels[c]
    OBVIOUS
  <2>2. HoldsJobs(chan)
    BY <1>7, <2>1
  <2>3. CASE msg.future
    <3>1. lastTemplate' # lastPrevHash'
      BY <1>1, <1>2, <1>3, <2>3, TemplateIds DEF Settled
    <3>2. new.now = chan.now /\ new.next # None /\ new.next.template = lastTemplate'
      BY <1>1, <1>5, <1>6, <1>10, <2>1, <2>3 DEF GivenJob
    <3> QED
      BY <1>1, <2>2, <3>1, <3>2 DEF HoldsJobs, Settled
  <2>4. CASE ~msg.future
    <3>1. lastTemplate' = lastPrevHash' /\ lastPrevHash' < msg.template
      BY <1>1, <1>3, <2>4 DEF Settled
    <3>2. lastPrevHash' \in Nat
      BY <1>1, <1>3, <2>4, TemplateIds DEF Settled
    <3>3. new.next = None /\ new.now # None /\ new.now.template = msg.template
      BY <1>3, <1>5, <1>6, <1>10, <2>1, <2>2, <2>4 DEF HoldsJobs, GivenJob
    <3>4. new.now.template >= lastPrevHash'
      BY <1>2, <3>1, <3>2, <3>3
    <3> QED
      BY <3>1, <3>3, <3>4 DEF HoldsJobs, Settled
  <2> QED
    BY <1>2, <2>3, <2>4
<1>11. GroupInv(y)'
  <2>1. CASE msg.future
    <3>1. lastTemplate' # lastPrevHash' /\ y.groupNext.template = lastTemplate'
      BY <1>1, <1>2, <1>3, <1>4, <2>1, TemplateIds DEF Settled
    <3> QED
      BY <3>1 DEF GroupInv, Settled
  <2>2. CASE ~msg.future
    BY <1>1, <1>3, <1>4, <1>7, <2>2 DEF GroupInv, Settled
  <2> QED
    BY <1>2, <2>1, <2>2
<1>12. ASSUME NEW c \in DOMAIN x.channels, ~Follows(x, c) PROVE ClientHoldsOpening(y, c)'
  <2>1. ~IsTold(x, c) /\ ClientHoldsOpening(x, c)
    BY <1>7, <1>12 DEF Follows, IsTold, Alone
  <2>2. PICK chan, new : chan = x.channels[c] /\ new = y.channels[c]
    OBVIOUS
  <2>3. new.toldNow = chan.toldNow /\ new.toldNext = chan.toldNext /\ new.owner = chan.owner
    BY <1>2, <1>5, <2>1, <2>2 DEF GivenJob
  <2>4. HoldsOpeningJob(chan) /\ c \in x.members
    BY <2>1, <2>2 DEF ClientHoldsOpening
  <2>5. HoldsOpeningJob(new)'
    BY <1>1, <2>3, <2>4 DEF HoldsOpeningJob
  <2> QED
    BY <1>4, <2>2, <2>4, <2>5 DEF ClientHoldsOpening
<1> QED
  BY <1>4, <1>7, <1>8, <1>9, <1>10, <1>11, <1>12 DEF ConnJobs

\* The announced tip arrives: every connection that is told can advance.
LEMMA PrevHashJobs ==
  ASSUME HandleSetNewPrevHash, NEW t, t = Head(tpQueue).template, ~Settled, lastTemplate = t,
         t \in Nat, NEW x, ConnData(x), ConnJobs(x), ~x.customWork,
         CanAdvance(x.groupNext, t), NEW y, y = WithPrevHash(x)
  PROVE  ConnJobs(y)'
<1>1. lastTemplate' = t /\ lastPrevHash' = t
  BY DEF HandleSetNewPrevHash
<1>2. /\ y.customWork = x.customWork /\ y.standardJobs = x.standardJobs
      /\ y.members = x.members /\ y.groupNext = None
      /\ DOMAIN y.channels = DOMAIN x.channels
  BY WithPrevHashFields
<1>3. \A c \in DOMAIN x.channels :
        LET chan == x.channels[c]
            new == y.channels[c]
        IN  /\ new.kind = chan.kind
            /\ new.now = IF chan.next = None THEN chan.now ELSE chan.next
            /\ new.next = None /\ new.toldNext = None
            /\ Alone(x, c) => new.toldNow = Activated(chan.toldNext, chan.next)
            /\ ~Alone(x, c) /\ GroupIsTold(x) /\ c \in x.members =>
                 new.toldNow = Activated(chan.toldNext, x.groupNext)
  BY WithPrevHashFields
<1>4. \A c \in DOMAIN x.channels :
        LET chan == x.channels[c]
        IN  /\ chan.next # None /\ chan.next.template = t
            /\ Follows(x, c) => ClientHolds(x, c)
            /\ ~Follows(x, c) => ClientHoldsOpening(x, c)
  BY DEF ConnJobs, HoldsJobs
<1>5. \A c \in DOMAIN x.channels : Follows(y, c) <=> Follows(x, c)
  BY <1>2, <1>3 DEF Follows
<1>6. ASSUME NEW c \in DOMAIN x.channels, NEW new, new = y.channels[c] PROVE HoldsJobs(new)'
  <2>1. new.now # None /\ new.now.template = t /\ new.next = None
    BY <1>3, <1>4, <1>6
  <2> QED
    BY <1>1, <2>1 DEF HoldsJobs, Settled
<1>7. ASSUME NEW c \in DOMAIN x.channels, Follows(x, c) PROVE ClientHolds(y, c)
  <2>1. ClientHolds(x, c) /\ x.channels[c].next # None
    BY <1>4, <1>7
  <2>2. CASE Alone(x, c)
    <3>1. y.channels[c].toldNow = y.channels[c].now /\ y.channels[c].toldNext = y.channels[c].next
      BY <1>3, <2>1, <2>2 DEF ClientHolds, Activated
    <3>2. y.standardJobs
      BY <1>2, <2>2 DEF Alone
    <3> QED
      BY <3>1, <3>2 DEF ClientHolds
  <2>3. CASE ~Alone(x, c)
    <3>1. ~x.standardJobs
      BY <1>7, <2>3 DEF Follows, Alone
    <3>2. c \in x.members /\ x.channels[c].toldNext = x.groupNext
          /\ x.channels[c].next = x.groupNext
      BY <2>1, <3>1 DEF ClientHolds
    <3>3. GroupIsTold(x)
      BY <3>2 DEF GroupIsTold
    <3>4. y.channels[c].toldNow = y.channels[c].now /\ y.channels[c].toldNext = y.channels[c].next
      BY <1>3, <2>1, <2>3, <3>2, <3>3 DEF Activated
    <3>5. c \in y.members /\ y.channels[c].next = y.groupNext
      BY <1>2, <1>3, <3>2
    <3> QED
      BY <3>4, <3>5 DEF ClientHolds
  <2> QED
    BY <2>2, <2>3
<1>8. GroupInv(y)'
  BY <1>1, <1>2 DEF GroupInv, Settled
\* The client was not sent the job that the group's message names.
<1>9. ASSUME NEW c \in DOMAIN x.channels, ~Follows(x, c) PROVE ClientHoldsOpening(y, c)'
  <2>1. ~Alone(x, c) /\ ClientHoldsOpening(x, c)
    BY <1>4, <1>9 DEF Follows, Alone
  <2>2. PICK chan, new : chan = x.channels[c] /\ new = y.channels[c]
    OBVIOUS
  <2>3. c \in x.members /\ chan.toldNext = None /\ GroupIsTold(x)
    BY <2>1, <2>2 DEF ClientHoldsOpening, HoldsOpeningJob, GroupIsTold
  <2>4. new.toldNext = None /\ new.toldNow = Activated(chan.toldNext, x.groupNext)
    BY <1>3, <2>1, <2>2, <2>3
  <2>5. x.groupNext # None
    BY DEF CanAdvance
  <2>6. new.toldNow = None
    BY <2>3, <2>4, <2>5 DEF Activated
  <2>7. HoldsOpeningJob(new)'
    BY <2>4, <2>6 DEF HoldsOpeningJob
  <2> QED
    BY <1>2, <2>2, <2>3, <2>7 DEF ClientHoldsOpening
<1> QED
  BY <1>2, <1>4, <1>5, <1>6, <1>7, <1>8, <1>9 DEF ConnJobs

\* A channel opens when the tip is settled, with a job of that tip, in a group
\* that waits for nothing.
LEMMA OpenedJobs ==
  ASSUME TypeInv, NEW d \in Downstream, Serves(d), NEW kind, NEW joins, MayOpen(d, kind, joins),
         NEW addr \in Address, NEW x, x = data[d], ConnData(x), ConnJobs(x), ~x.customWork,
         x.nextId <= MaxChannelId, NEW y, y = Opened(x, NewChannel(d, kind, addr), joins)
  PROVE  ConnJobs(y)
<1>1. PICK new : new = NewChannel(d, kind, addr)
  OBVIOUS
<1>2. /\ new \in Channel /\ new.kind = kind
      /\ new.next = None /\ new.toldNext = None /\ new.toldNow = new.now
      /\ new.now # None /\ new.now.template = lastTemplate
      /\ lastTemplate \in Template /\ lastTemplate = lastPrevHash
      /\ new.owner = addr
      /\ new.now = [template |-> lastTemplate, pays |-> addr, by |-> "channel"]
  <2>1. new.now = [template |-> lastTemplate, pays |-> addr, by |-> "channel"]
    BY <1>1 DEF NewChannel
  <2> QED
    BY <1>1, <2>1, NewChannelFields
<1>3. joins \in BOOLEAN /\ joins = (kind = "extended" \/ ~x.standardJobs)
      /\ kind \in {"standard", "extended"}
  BY DEF MayOpen, ConnData
<1>4. /\ y.customWork = x.customWork /\ y.standardJobs = x.standardJobs
      /\ y.groupNext = x.groupNext
      /\ y.members = IF joins THEN x.members \cup {x.nextId} ELSE x.members
      /\ DOMAIN y.channels = DOMAIN x.channels \cup {x.nextId}
      /\ \A c \in DOMAIN y.channels :
           y.channels[c] = IF c = x.nextId THEN new ELSE x.channels[c]
  <2>1. y = Opened(x, new, joins)
    BY <1>1
  <2>2. OpenedFrom(x, y, new, joins)
    BY <1>2, <1>3, <2>1, OpenedFields
  <2> QED
    BY <2>2 DEF OpenedFrom
<1>5. GroupInv(x) /\ \A c \in DOMAIN x.channels :
        /\ HoldsJobs(x.channels[c])
        /\ Follows(x, c) => ClientHolds(x, c)
        /\ ~Follows(x, c) => ClientHoldsOpening(x, c)
  BY DEF ConnJobs
<1>6. Settled /\ x.groupNext = None
  BY <1>2, <1>5 DEF GroupInv, Settled
<1>7. HoldsJobs(new)
  <2>1. lastTemplate \in Nat
    BY <1>2, TypedMessages
  <2> QED
    BY <1>2, <1>6, <2>1 DEF HoldsJobs
<1> QED
  <2>1. ASSUME NEW c, c = x.nextId
        PROVE  /\ HoldsJobs(y.channels[c])
               /\ Follows(y, c) => ClientHolds(y, c)
               /\ ~Follows(y, c) => ClientHoldsOpening(y, c)
    <3>1. y.channels[c] = new
      BY <1>4, <2>1
    <3>2. ~y.standardJobs => c \in y.members
      BY <1>3, <1>4, <2>1
    <3>3. Follows(y, c) => ClientHolds(y, c)
      BY <1>2, <1>4, <1>6, <3>1, <3>2 DEF ClientHolds
    <3>4. ASSUME ~Follows(y, c) PROVE ClientHoldsOpening(y, c)
      <4>1. kind = "extended"
        BY <1>2, <1>3, <3>1, <3>4 DEF Follows
      <4>2. c \in y.members
        BY <1>3, <1>4, <2>1, <4>1
      <4>3. HoldsOpeningJob(new)
        BY <1>2 DEF HoldsOpeningJob
      <4> QED
        BY <3>1, <4>2, <4>3 DEF ClientHoldsOpening
    <3> QED
      BY <1>7, <3>1, <3>3, <3>4
  <2>2. ASSUME NEW c \in DOMAIN x.channels, c # x.nextId
        PROVE  /\ HoldsJobs(y.channels[c])
               /\ Follows(y, c) => ClientHolds(y, c)
               /\ ~Follows(y, c) => ClientHoldsOpening(y, c)
    <3>1. y.channels[c] = x.channels[c]
      BY <1>4, <2>2
    <3>2. Follows(y, c) <=> Follows(x, c)
      BY <1>4, <3>1 DEF Follows
    <3>3. ClientHolds(x, c) => ClientHolds(y, c)
      BY <1>4, <3>1 DEF ClientHolds
    <3>4. ClientHoldsOpening(x, c) => ClientHoldsOpening(y, c)
      BY <1>4, <3>1 DEF ClientHoldsOpening
    <3> QED
      BY <1>5, <3>1, <3>2, <3>3, <3>4
  <2>3. GroupInv(y)
    BY <1>4, <1>6 DEF GroupInv
  <2> QED
    BY <1>4, <2>1, <2>2, <2>3 DEF ConnJobs

\* What fewer or the same channels, with the same group, keep.
LEMMA SameJobs ==
  ASSUME NEW x, ConnJobs(x), NEW y, y.customWork = x.customWork, y.standardJobs = x.standardJobs,
         y.groupNext = x.groupNext, y.members = x.members,
         DOMAIN y.channels \subseteq DOMAIN x.channels,
         \A c \in DOMAIN y.channels : y.channels[c] = x.channels[c]
  PROVE  ConnJobs(y)
<1>1. GroupInv(x) = GroupInv(y)
  BY DEF GroupInv
<1>2. ASSUME NEW c \in DOMAIN y.channels
      PROVE  /\ c \in DOMAIN x.channels /\ y.channels[c] = x.channels[c]
             /\ Follows(x, c) = Follows(y, c) /\ ClientHolds(x, c) = ClientHolds(y, c)
             /\ ClientHoldsOpening(x, c) = ClientHoldsOpening(y, c)
  BY <1>2 DEF Follows, ClientHolds, ClientHoldsOpening
<1> QED
  BY <1>1, <1>2 DEF ConnJobs

LEMMA TurnsJobs ==
  ASSUME TypeInv, JobsInv, running, NEW d \in Downstream, NEW y, Turns(d, y)
  PROVE  ConnJobs(y)
<1>1. PICK x : x = data[d]
  OBVIOUS
<1>2. ConnData(x) /\ ConnJobs(x)
  BY <1>1 DEF TypeInv, DataTypes, JobsInv
<1>3. ASSUME lastTemplate # None, NEW job, y = Bootstrapped(x, job),
             job = [template |-> lastTemplate, pays |-> PoolScript, by |-> "group"]
      PROVE  ConnJobs(y)
  <2>1. lastTemplate \in Template
    BY <1>3 DEF TypeInv, StreamTypes
  <2>2. job \in Job
    BY <1>3, <2>1 DEF Job
  <2>3. /\ y.customWork = x.customWork /\ y.standardJobs = x.standardJobs
        /\ y.groupNext = x.groupNext /\ y.members = x.members /\ y.channels = x.channels
    BY <1>2, <1>3, <2>2, BootstrappedFields
  <2> QED
    BY <1>2, <2>3, SameJobs
<1>4. ASSUME stage[d] = "started", NEW flags \in Flags, y = WithFlags(x, flags)
      PROVE  ConnJobs(y)
  <2>1. y.groupNext = x.groupNext /\ y.channels = x.channels
    BY <1>2, <1>4, WithFlagsFields
  <2>2. ~x.customWork /\ DOMAIN x.channels = {}
    BY <1>1, <1>4 DEF JobsInv, Outside, Entered
  <2>3. GroupInv(y)
    BY <1>2, <2>1, <2>2 DEF ConnJobs, GroupInv
  <2> QED
    BY <2>1, <2>2, <2>3 DEF ConnJobs
<1>5. ASSUME NEW addr \in Address, x.nextId <= MaxChannelId, y = Opening(x, addr)
      PROVE  ConnJobs(y)
  <2>1. /\ y.customWork = x.customWork /\ y.standardJobs = x.standardJobs
        /\ y.groupNext = x.groupNext /\ y.members = x.members /\ y.channels = x.channels
    BY <1>2, <1>5, OpeningFields
  <2> QED
    BY <1>2, <2>1, SameJobs
<1>6. ASSUME Serves(d), NEW addr \in Address, x.nextId <= MaxChannelId,
             NEW kind, NEW joins, MayOpen(d, kind, joins),
             y = Opened(x, NewChannel(d, kind, addr), joins)
      PROVE  ConnJobs(y)
  <2>1. CASE ~x.customWork
    BY <1>1, <1>2, <1>6, <2>1, OpenedJobs
  <2>2. CASE x.customWork
    <3>1. PICK new : new = NewChannel(d, kind, addr)
      OBVIOUS
    <3>2. new \in Channel /\ joins \in BOOLEAN
      BY <1>1, <1>6, <3>1, NewChannelFields DEF MayOpen
    <3>3. y.customWork = x.customWork
      <4>1. y = Opened(x, new, joins)
        BY <1>6, <3>1
      <4>2. OpenedFrom(x, y, new, joins)
        BY <1>2, <1>6, <3>2, <4>1, OpenedFields
      <4> QED
        BY <4>2 DEF OpenedFrom
    <3> QED
      BY <2>2, <3>3 DEF ConnJobs
  <2> QED
    BY <2>1, <2>2
<1>7. ASSUME NEW c, y = Without(x, c) PROVE ConnJobs(y)
  <2>1. /\ y.customWork = x.customWork /\ y.standardJobs = x.standardJobs
        /\ y.groupNext = x.groupNext /\ y.members = x.members
        /\ DOMAIN y.channels \subseteq DOMAIN x.channels
        /\ \A e \in DOMAIN y.channels : y.channels[e] = x.channels[e]
    BY <1>2, <1>7, WithoutFields
  <2> QED
    BY <1>2, <2>1, SameJobs
<1>8. y = NoData => ConnJobs(y)
  BY DEF NoData, ConnJobs, GroupInv
<1> QED
  BY <1>1, <1>3, <1>4, <1>5, <1>6, <1>7, <1>8 DEF Turns

\* Who leaves the maps is forgotten; who has entered stays entered.
LEMMA OutsideKinds ==
  ASSUME TypeInv, [Next]_vars, NEW d \in Downstream
  PROVE  /\ d \notin conns' => d \notin conns \/ data'[d] = NoData
         /\ stage'[d] \notin Entered => stage[d] \notin Entered
<1>1. CASE AtMostTakes \/ EndsLoop
  BY <1>1 DEF AtMostTakes, EndsLoop
<1>2. ASSUME NEW e \in Downstream, Connection(e) \/ HandlerDisconnects(e)
      PROVE  /\ conns \subseteq conns'
             /\ stage'[d] \notin Entered => stage[d] \notin Entered
  <2>1. /\ conns \subseteq conns'
        /\ \/ stage' = stage
           \/ stage[e] \notin Entered /\ \E v : stage' = [stage EXCEPT ![e] = v]
           \/ stage' = [stage EXCEPT ![e] = "running"]
           \/ stage' = [stage EXCEPT ![e] = "left"]
    BY <1>2 DEF Connection, BootstrapGroupChannel, RegisterSender, InsertDownstream,
                IncrementActiveDownstreams, SetupConnection, ForwardMiningMessage, Disconnect,
                HandlerDisconnects, maps, Entered
  <2> QED
    BY <2>1 DEF TypeInv, LifeInv, LifeTypes, Entered
<1>3. ASSUME NEW p \in Task, RemoveDownstream(p)
      PROVE  /\ d \notin conns' => d \notin conns \/ data'[d] = NoData
             /\ stage' = stage
  <2>1. CASE Unmap(p)
    <3>1. PICK e : e = removal[p].target
      OBVIOUS
    <3>2. /\ conns' = conns \ {e} /\ stage' = stage
          /\ data' = [data EXCEPT ![e] = NoData]
      BY <2>1, <3>1 DEF Unmap
    <3>3. e = d => data'[d] = NoData
      BY <3>2 DEF TypeInv, DataTypes
    <3> QED
      BY <3>2, <3>3
  <2> QED
    BY <1>3, <2>1 DEF RemoveDownstream, RecordClosed, DecrementActiveDownstreams, RemoveSender
<1> QED
  BY <1>1, <1>2, <1>3, StepKinds

LEMMA TurnsOutside ==
  ASSUME TypeInv, NEW d \in Downstream, Outside(d), NEW y, Turns(d, y)
  PROVE  /\ d \notin conns => y.groupNext = None /\ DOMAIN y.channels = {}
         /\ stage[d] \notin Entered /\ stage'[d] \notin Entered =>
              ~y.customWork /\ DOMAIN y.channels = {}
<1>1. PICK x : x = data[d]
  OBVIOUS
<1>2. ConnData(x)
  BY <1>1 DEF TypeInv, DataTypes
<1>3. ASSUME lastTemplate # None, NEW job, y = Bootstrapped(x, job),
             job = [template |-> lastTemplate, pays |-> PoolScript, by |-> "group"]
      PROVE  y.groupNext = x.groupNext /\ y.channels = x.channels /\ y.customWork = x.customWork
  <2>1. lastTemplate \in Template
    BY <1>3 DEF TypeInv, StreamTypes
  <2>2. job \in Job
    BY <1>3, <2>1 DEF Job
  <2> QED
    BY <1>2, <1>3, <2>2, BootstrappedFields
<1>4. ASSUME stage' = [stage EXCEPT ![d] = "running"], NEW flags \in Flags, y = WithFlags(x, flags)
      PROVE  /\ y.groupNext = x.groupNext /\ y.channels = x.channels
             /\ stage'[d] \in Entered
  <2>1. stage'[d] = "running"
    BY <1>4 DEF TypeInv, LifeInv, LifeTypes
  <2>2. stage'[d] \in Entered
    BY <2>1 DEF Entered
  <2> QED
    BY <1>2, <1>4, <2>2, WithFlagsFields
<1>5. Serves(d) => d \in conns /\ stage[d] \in Entered
  BY DEF Serves, TypeInv, LifeInv, MapsFollowStages
<1>6. NoData.groupNext = None /\ DOMAIN NoData.channels = {} /\ ~NoData.customWork
  BY DEF NoData
<1>7. \/ y.groupNext = x.groupNext /\ y.channels = x.channels
         /\ (y.customWork = x.customWork \/ stage'[d] \in Entered)
      \/ Serves(d)
      \/ y = NoData
  BY <1>1, <1>3, <1>4 DEF Turns
<1> QED
  BY <1>1, <1>5, <1>6, <1>7 DEF Outside

LEMMA InitJobs == Init => JobsInv
<1> SUFFICES ASSUME Init PROVE JobsInv
  OBVIOUS
<1>1. /\ Settled /\ conns = {}
      /\ \A d \in Downstream : data[d] = NoData /\ stage[d] = "idle"
  BY DEF Init, Settled
<1>2. /\ ~NoData.customWork /\ NoData.groupNext = None /\ DOMAIN NoData.channels = {}
  BY DEF NoData
<1> QED
  BY <1>1, <1>2 DEF JobsInv, Outside, ConnJobs, GroupInv

\* What the templates make of the connections, one at a time.
LEMMA TemplatesTurn ==
  ASSUME TypeInv, HandleNewTemplate \/ HandleSetNewPrevHash, NEW d \in Downstream
  PROVE  \/ data'[d] = data[d]
         \/ /\ HandleNewTemplate /\ tpQueue # <<>> /\ IsTemplate(Head(tpQueue))
            /\ d \in conns /\ ~data[d].customWork
            /\ data'[d] = WithTemplate(data[d], Head(tpQueue))
         \/ /\ HandleSetNewPrevHash /\ d \in conns /\ ~data[d].customWork
            /\ CanAdvance(data[d].groupNext, Head(tpQueue).template)
            /\ data'[d] = WithPrevHash(data[d])
<1>1. CASE HandleNewTemplate
  BY <1>1 DEF HandleNewTemplate, IsTemplate
<1>2. CASE HandleSetNewPrevHash
  BY <1>2 DEF HandleSetNewPrevHash
<1> QED
  BY <1>1, <1>2

LEMMA StepOutside ==
  ASSUME TypeInv, [Next]_vars, NEW d \in Downstream, Outside(d)
  PROVE  Outside(d)'
<1>1. /\ d \notin conns' => d \notin conns \/ data'[d] = NoData
      /\ stage'[d] \notin Entered => stage[d] \notin Entered
  BY OutsideKinds
<1>2. SUFFICES /\ d \notin conns => data'[d].groupNext = None /\ DOMAIN data'[d].channels = {}
               /\ stage[d] \notin Entered /\ stage'[d] \notin Entered =>
                    ~data'[d].customWork /\ DOMAIN data'[d].channels = {}
  <2>1. NoData.groupNext = None /\ DOMAIN NoData.channels = {}
    BY DEF NoData
  <2> QED
    BY <1>1, <2>1 DEF Outside
<1>3. CASE data'[d] = data[d]
  BY <1>3 DEF Outside
<1>4. CASE HandleNewTemplate \/ HandleSetNewPrevHash
  <2>1. PICK x : x = data[d]
    OBVIOUS
  <2>2. PICK y : y = data'[d]
    OBVIOUS
  <2>3. ConnData(x)
    BY <2>1 DEF TypeInv, DataTypes
  <2>4. PICK msg : msg = Head(tpQueue)
    OBVIOUS
  <2>5. CASE tpQueue # <<>> /\ IsTemplate(msg) /\ d \in conns /\ y = WithTemplate(x, msg)
    <3>1. msg \in Message
      BY <2>4, <2>5, HeadOfQueue DEF TypeInv
    <3>2. y.customWork = x.customWork /\ DOMAIN y.channels = DOMAIN x.channels
      BY <2>3, <2>5, <3>1, WithTemplateFields
    <3> QED
      BY <2>1, <2>2, <2>5, <3>2 DEF Outside
  <2>6. CASE d \in conns /\ y = WithPrevHash(x)
    <3>1. y.customWork = x.customWork /\ DOMAIN y.channels = DOMAIN x.channels
      BY <2>3, <2>6, WithPrevHashFields
    <3> QED
      BY <2>1, <2>2, <2>6, <3>1 DEF Outside
  <2> QED
    BY <1>3, <1>4, <2>1, <2>2, <2>4, <2>5, <2>6, TemplatesTurn
<1>5. CASE OneTurns
  BY <1>3, <1>5, TurnsOutside DEF OneTurns
<1> QED
  BY <1>3, <1>4, <1>5, DataKinds DEF SameData, TypeInv

LEMMA StepJobs == TypeInv /\ StreamInv /\ JobsInv /\ [Next]_vars => JobsInv'
<1> SUFFICES ASSUME TypeInv, StreamInv, JobsInv, [Next]_vars PROVE JobsInv'
  OBVIOUS
<1>1. \A d \in Downstream : Outside(d)'
  BY StepOutside DEF JobsInv
<1>2. SUFFICES ASSUME running', NEW d \in Downstream, NEW y, y = data'[d] PROVE ConnJobs(y)'
  BY <1>1 DEF JobsInv, ConnJobs, GroupInv, HoldsJobs, Follows, ClientHolds, ClientHoldsOpening,
              HoldsOpeningJob, Settled
<1>3. running /\ QueueInv /\ OrderInv /\ StreamTypes
  <2>1. running' => running
    <3>1. HandleSetNewPrevHash => Ready
      BY DEF HandleSetNewPrevHash
    <3>2. HandleNewTemplate => Ready
      BY DEF HandleNewTemplate
    <3> QED
      BY <3>1, <3>2, StreamKinds, ProviderSends DEF TypeInv, Ready, EndsStream, SameStream
  <2> QED
    BY <1>2, <2>1 DEF StreamInv, TypeInv
<1>4. PICK x : x = data[d]
  OBVIOUS
<1>5. ConnData(x) /\ ConnJobs(x)
  BY <1>3, <1>4 DEF TypeInv, DataTypes, JobsInv
<1>6. UNCHANGED <<lastTemplate, lastPrevHash>> => \A z : ConnJobs(z) => ConnJobs(z)'
  BY DEF ConnJobs, GroupInv, HoldsJobs, Follows, ClientHolds, ClientHoldsOpening, HoldsOpeningJob,
         Settled
<1>7. CASE HandleNewTemplate
  <2>1. PICK msg : msg = Head(tpQueue)
    OBVIOUS
  <2>2. CASE ~x.customWork /\ y = WithTemplate(x, msg)
    BY <1>3, <1>5, <1>7, <2>1, <2>2, TemplateJobs
  <2>3. CASE y = x /\ (d \notin conns \/ x.customWork)
    <3>1. CASE x.customWork
      BY <2>3, <3>1 DEF ConnJobs
    <3>2. CASE d \notin conns
      <4>1. x.groupNext = None /\ DOMAIN x.channels = {}
        BY <1>4, <3>2 DEF JobsInv, Outside
      <4> QED
        BY <2>3, <4>1 DEF ConnJobs, GroupInv
    <3> QED
      BY <2>3, <3>1, <3>2
  <2>4. \/ y = x /\ (d \notin conns \/ x.customWork)
        \/ ~x.customWork /\ y = WithTemplate(x, msg)
    <3>1. y = IF d \in conns /\ ~x.customWork THEN WithTemplate(x, msg) ELSE x
      BY <1>2, <1>4, <1>7, <2>1 DEF HandleNewTemplate
    <3> QED
      BY <3>1
  <2> QED
    BY <2>2, <2>3, <2>4
<1>8. CASE HandleSetNewPrevHash
  <2>1. PICK t : t = Head(tpQueue).template
    OBVIOUS
  <2>2. /\ tpQueue # <<>> /\ IsPrevHash(Head(tpQueue))
        /\ \/ y = x /\ (d \notin conns \/ x.customWork)
           \/ ~x.customWork /\ CanAdvance(x.groupNext, t) /\ y = WithPrevHash(x)
    <3>1. ~Shutdown
      BY <1>2 DEF Shutdown, CloseIo
    <3> QED
      BY <1>2, <1>4, <1>8, <2>1, <3>1 DEF HandleSetNewPrevHash, IsPrevHash
  <2>3. ~Settled /\ lastTemplate = t /\ t \in Nat
    BY <1>3, <2>1, <2>2, HeadOfStream, HeadOfQueue
  <2>4. CASE ~x.customWork /\ CanAdvance(x.groupNext, t) /\ y = WithPrevHash(x)
    BY <1>5, <1>8, <2>1, <2>3, <2>4, PrevHashJobs
  <2>5. CASE y = x /\ (d \notin conns \/ x.customWork)
    <3>1. CASE x.customWork
      BY <2>5, <3>1 DEF ConnJobs
    <3>2. CASE d \notin conns
      <4>1. x.groupNext = None /\ DOMAIN x.channels = {}
        BY <1>4, <3>2 DEF JobsInv, Outside
      <4> QED
        BY <2>5, <4>1 DEF ConnJobs, GroupInv
    <3> QED
      BY <2>5, <3>1, <3>2
  <2> QED
    BY <2>2, <2>4, <2>5
<1>9. CASE UNCHANGED <<lastTemplate, lastPrevHash>> /\ (OneTurns \/ SameData)
  <2>1. CASE y = x
    BY <1>5, <1>6, <1>9, <2>1
  <2>2. CASE Turns(d, y)
    <3>1. ConnJobs(y)
      BY <1>3, <2>2, TurnsJobs
    <3> QED
      BY <1>6, <1>9, <3>1
  <2> QED
    BY <1>2, <1>4, <1>9, <2>1, <2>2 DEF OneTurns, SameData
<1> QED
  BY <1>3, <1>7, <1>8, <1>9, DataKinds DEF TypeInv

LEMMA JobsAlways == Spec => [](TypeInv /\ JobsInv)
<1> DEFINE I == TypeInv /\ StreamInv /\ JobsInv
<1>1. Init => I
  BY InitTypes, InitStream, InitJobs
<1>2. I /\ [Next]_vars => I'
  BY StepTypes, StepStream, StepJobs DEF TypeInv
<1> QED
  BY <1>1, <1>2, PTL DEF Spec

\* Every channel follows the tip with the ChannelManager, whatever the order in
\* which templates, tips and openings meet, and whoever opened it.
THEOREM ChannelsFollowTip == Spec => []ChannelsInStep
<1>1. TypeInv /\ JobsInv => ChannelsInStep
  <2> SUFFICES ASSUME TypeInv, JobsInv, running, NEW d \in conns, ~data[d].customWork,
                      NEW c \in DOMAIN data[d].channels
               PROVE  HoldsJobs(data[d].channels[c])
    BY DEF ChannelsInStep, HoldsJobs, Settled
  <2>1. d \in Downstream
    BY DEF TypeInv, LifeInv, LifeTypes
  <2> QED
    BY <2>1 DEF JobsInv, ConnJobs
<1> QED
  BY <1>1, JobsAlways, PTL

\* A client is never left on a job the server has replaced, nor misses the one
\* the next tip will activate, whatever kind it is of; only an extended channel
\* of a client that requires standard jobs, which is in the group and is sent
\* none of its jobs, is left with that of its opening, until the tip changes.
THEOREM ClientsHoldServerJobs == Spec => []ClientWorksOnServerJob
<1>1. TypeInv /\ JobsInv => ClientWorksOnServerJob
  <2> SUFFICES ASSUME TypeInv, JobsInv, running, NEW d \in conns, ~data[d].customWork,
                      NEW c \in DOMAIN data[d].channels
               PROVE  IF WithoutGroupJobs(data[d], data[d].channels[c])
                        THEN HoldsOpeningJob(data[d].channels[c])
                        ELSE HoldsServerJob(data[d].channels[c])
    BY DEF ClientWorksOnServerJob
  <2>1. d \in Downstream
    BY DEF TypeInv, LifeInv, LifeTypes
  <2>2. PICK x : x = data[d]
    OBVIOUS
  <2>3. PICK chan : chan = x.channels[c]
    OBVIOUS
  <2>4. ConnData(x) /\ ConnJobs(x) /\ c \in DOMAIN x.channels /\ ~x.customWork
    BY <2>1, <2>2 DEF JobsInv, TypeInv, DataTypes
  <2>5. CASE WithoutGroupJobs(x, chan)
    <3>1. ~Follows(x, c)
      BY <2>3, <2>5 DEF WithoutGroupJobs, Follows
    <3>2. HoldsOpeningJob(chan)
      BY <2>3, <2>4, <3>1 DEF ConnJobs, ClientHoldsOpening
    <3> QED
      BY <2>2, <2>3, <2>5, <3>2
  <2>6. CASE ~WithoutGroupJobs(x, chan)
    <3>1. chan.kind \in {"standard", "extended"}
      BY <2>3, <2>4 DEF ConnData, Channel
    <3>2. Follows(x, c)
      BY <2>3, <2>6, <3>1 DEF WithoutGroupJobs, Follows
    <3>3. HoldsServerJob(chan)
      BY <2>3, <2>4, <3>2 DEF ConnJobs, ClientHolds, HoldsServerJob
    <3> QED
      BY <2>2, <2>3, <2>6, <3>3
  <2> QED
    BY <2>5, <2>6
<1> QED
  BY <1>1, JobsAlways, PTL

-----------------------------------------------------------------------------
LEMMA InitPays == Init => PaysInv
<1> SUFFICES ASSUME Init PROVE PaysInv
  OBVIOUS
<1>1. \A d \in Downstream : data[d] = NoData
  BY DEF Init
<1>2. NoData.payout = None /\ DOMAIN NoData.channels = {}
  BY DEF NoData
<1> QED
  BY <1>1, <1>2 DEF PaysInv, ConnPays

\* What the templates make of a connection keeps its identity and its owners.
LEMMA TemplatePays ==
  ASSUME NEW d \in Downstream, NEW x, ConnData(x), ConnPays(d, x),
         NEW msg \in Message, IsTemplate(msg), NEW y, y = WithTemplate(x, msg)
  PROVE  ConnPays(d, y)
<1>1. y.payout = x.payout /\ DOMAIN y.channels = DOMAIN x.channels
  BY WithTemplateFields
<1>2. ASSUME NEW c \in DOMAIN x.channels
      PROVE  GivenJob(x.channels[c], y.channels[c], JobFor(x, c, msg), IsTold(x, c), msg.future)
  BY WithTemplateFields
<1>3. x.payout # None => Payee(x) \in AddressesOf[d]
  BY DEF ConnPays, Payee
<1>4. ASSUME NEW c \in DOMAIN x.channels
      PROVE  LET new == y.channels[c]
             IN  /\ new.owner \in AddressesOf[d]
                 /\ new.now # None => new.now.pays \in AddressesOf[d]
                 /\ new.next # None => new.next.pays \in AddressesOf[d]
  <2>1. JobFor(x, c, msg).pays \in AddressesOf[d]
    BY <1>3 DEF ConnPays, JobFor
  <2>2. msg.future \in BOOLEAN
    BY TypedMessages
  <2> QED
    BY <1>2, <2>1, <2>2 DEF ConnPays, GivenJob
<1> QED
  BY <1>1, <1>4 DEF ConnPays

LEMMA PrevHashPays ==
  ASSUME NEW d \in Downstream, NEW x, ConnData(x), ConnPays(d, x), NEW y, y = WithPrevHash(x)
  PROVE  ConnPays(d, y)
<1>1. y.payout = x.payout /\ DOMAIN y.channels = DOMAIN x.channels
  BY WithPrevHashFields
<1>2. ASSUME NEW c \in DOMAIN x.channels
      PROVE  LET chan == x.channels[c]
                 new == y.channels[c]
             IN  /\ new.owner = chan.owner /\ new.next = None
                 /\ new.now = IF chan.next = None THEN chan.now ELSE chan.next
  BY WithPrevHashFields
<1> QED
  BY <1>1, <1>2 DEF ConnPays

LEMMA TurnsPays ==
  ASSUME TypeInv, NEW d \in Downstream, ConnPays(d, data[d]), NEW y, Turns(d, y)
  PROVE  ConnPays(d, y)
<1>1. PICK x : x = data[d]
  OBVIOUS
<1>2. ConnData(x) /\ ConnPays(d, x)
  BY <1>1 DEF TypeInv, DataTypes
<1>0. ASSUME y.payout = x.payout, DOMAIN y.channels \subseteq DOMAIN x.channels,
             \A c \in DOMAIN y.channels : y.channels[c] = x.channels[c]
      PROVE  ConnPays(d, y)
  BY <1>0, <1>2 DEF ConnPays
<1>3. ASSUME lastTemplate # None, NEW job, y = Bootstrapped(x, job),
             job = [template |-> lastTemplate, pays |-> PoolScript, by |-> "group"]
      PROVE  ConnPays(d, y)
  <2>1. lastTemplate \in Template
    BY <1>3 DEF TypeInv, StreamTypes
  <2>2. job \in Job
    BY <1>3, <2>1 DEF Job
  <2>3. y.payout = x.payout /\ y.channels = x.channels
    BY <1>2, <1>3, <2>2, BootstrappedFields
  <2> QED
    BY <1>0, <2>3
<1>4. ASSUME NEW flags \in Flags, y = WithFlags(x, flags) PROVE ConnPays(d, y)
  <2>1. y.payout = x.payout /\ y.channels = x.channels
    BY <1>2, <1>4, WithFlagsFields
  <2> QED
    BY <1>0, <2>1
<1>5. ASSUME NEW addr \in Address \cap AddressesOf[d], x.nextId <= MaxChannelId,
             y = Opening(x, addr)
      PROVE  ConnPays(d, y)
  <2>1. y.payout = addr /\ y.channels = x.channels
    BY <1>2, <1>5, OpeningFields
  <2>2. addr # None
    BY ManagerAssumption
  <2> QED
    BY <1>2, <2>1, <2>2 DEF ConnPays
<1>6. ASSUME Serves(d), NEW addr \in Address \cap AddressesOf[d], x.nextId <= MaxChannelId,
             NEW kind, NEW joins, MayOpen(d, kind, joins),
             y = Opened(x, NewChannel(d, kind, addr), joins)
      PROVE  ConnPays(d, y)
  <2>1. PICK new : new = NewChannel(d, kind, addr)
    OBVIOUS
  <2>2. /\ new \in Channel /\ new.owner = addr /\ new.next = None
        /\ new.now # None => new.now.pays = addr
    BY <1>6, <2>1, NewChannelFields
  <2>3. joins \in BOOLEAN
    BY <1>1, <1>6 DEF MayOpen
  <2>4. y = Opened(x, new, joins)
    BY <1>6, <2>1
  <2>5. OpenedFrom(x, y, new, joins)
    BY <1>2, <1>6, <2>2, <2>3, <2>4, OpenedFields
  <2>6. /\ y.payout = addr
        /\ DOMAIN y.channels = DOMAIN x.channels \cup {x.nextId}
        /\ \A c \in DOMAIN y.channels :
             y.channels[c] = IF c = x.nextId THEN new ELSE x.channels[c]
    BY <2>2, <2>5 DEF OpenedFrom
  <2>7. addr # None
    BY ManagerAssumption
  <2> QED
    BY <1>2, <2>2, <2>6, <2>7 DEF ConnPays
<1>7. ASSUME NEW c, y = Without(x, c) PROVE ConnPays(d, y)
  <2>1. /\ y.payout = x.payout /\ DOMAIN y.channels \subseteq DOMAIN x.channels
        /\ \A e \in DOMAIN y.channels : y.channels[e] = x.channels[e]
    BY <1>2, <1>7, WithoutFields
  <2> QED
    BY <1>0, <2>1
<1>8. y = NoData => ConnPays(d, y)
  BY DEF NoData, ConnPays
<1> QED
  BY <1>1, <1>3, <1>4, <1>5, <1>6, <1>7, <1>8 DEF Turns

LEMMA StepPays == TypeInv /\ PaysInv /\ [Next]_vars => PaysInv'
<1> SUFFICES ASSUME TypeInv, PaysInv, [Next]_vars,
                    NEW d \in Downstream, NEW y, y = data'[d]
             PROVE  ConnPays(d, y)
  BY DEF PaysInv
<1>1. PICK x : x = data[d]
  OBVIOUS
<1>2. ConnData(x) /\ ConnPays(d, x)
  BY <1>1 DEF TypeInv, DataTypes, PaysInv
<1>3. CASE HandleNewTemplate \/ HandleSetNewPrevHash
  <2>1. PICK msg : msg = Head(tpQueue)
    OBVIOUS
  <2>2. CASE tpQueue # <<>> /\ IsTemplate(msg) /\ y = WithTemplate(x, msg)
    <3>1. msg \in Message
      BY <2>1, <2>2, HeadOfQueue DEF TypeInv
    <3> QED
      BY <1>2, <2>2, <3>1, TemplatePays
  <2>3. CASE y = WithPrevHash(x)
    BY <1>2, <2>3, PrevHashPays
  <2> QED
    BY <1>1, <1>2, <1>3, <2>1, <2>2, <2>3, TemplatesTurn
<1>4. CASE OneTurns
  BY <1>1, <1>2, <1>4, TurnsPays DEF OneTurns
<1>5. CASE SameData
  BY <1>1, <1>2, <1>5 DEF SameData
<1> QED
  BY <1>3, <1>4, <1>5, DataKinds DEF TypeInv

\* No job of an open channel pays the pool or another connection's address: the
\* payout identity of a connection is set before its first channel gets a job,
\* and is only ever replaced by another one of the same client.
THEOREM JobsPayTheClient == Spec => []PaysInv
<1>1. Init => TypeInv /\ PaysInv
  BY InitTypes, InitPays
<1>2. TypeInv /\ PaysInv /\ [Next]_vars => (TypeInv /\ PaysInv)'
  BY StepTypes, StepPays
<1> QED
  BY <1>1, <1>2, PTL DEF Spec

\* A client whose identities all name one address is paid by every job it may
\* solve, those included that the group channel made for all its channels.
THEOREM OneAddressIsPaid ==
  ASSUME \A d \in Downstream : \A a, b \in AddressesOf[d] : a = b
  PROVE  Spec => []MinersArePaid
<1>1. TypeInv /\ PaysInv => MinersArePaid
  <2> SUFFICES ASSUME TypeInv, PaysInv, NEW d \in conns, NEW c \in DOMAIN data[d].channels,
                      NEW chan, chan = data[d].channels[c],
                      NEW job \in {chan.now, chan.next} \ {None}
               PROVE  job.pays = chan.owner
    BY DEF MinersArePaid
  <2>1. d \in Downstream
    BY DEF TypeInv, LifeInv, LifeTypes
  <2>2. chan.owner \in AddressesOf[d] /\ job.pays \in AddressesOf[d]
    BY <2>1 DEF PaysInv, ConnPays
  <2> QED
    BY <2>1, <2>2
<1> QED
  BY <1>1, TypesAlways, JobsPayTheClient, PTL
=============================================================================
