--------------------------- MODULE ChannelManager ---------------------------
(***************************************************************************)
(* The pool's ChannelManager (pool_sv2, channel_manager/), the connection  *)
(* tasks that share its state, and what the template provider sends it.    *)
(*                                                                         *)
(* Three kinds of process run concurrently:                                *)
(*   - the template provider, which announces a new chain tip with two     *)
(*     messages, NewTemplate and SetNewPrevHash, and refreshes the         *)
(*     template of the current tip with NewTemplate alone;                 *)
(*   - the ChannelManager task, which takes one message at a time;         *)
(*   - one task per connection, which bootstraps the connection's group    *)
(*     channel, enters it in the shared maps, forwards the client's mining *)
(*     messages and removes the connection when it ends.                   *)
(* An action is what a task does under one lock, or between two awaits.    *)
(*                                                                         *)
(* A template is its number, in the order the provider announces them.  A  *)
(* job is the template it was made from, the address its coinbase pays,    *)
(* and whether the group channel or the channel itself made it.  What      *)
(* channels_sv2 does with a job is external: a future job waits for        *)
(* SetNewPrevHash of its template, which fails on a channel that does not  *)
(* hold it; any other job is active at once.                               *)
(***************************************************************************)
EXTENDS Naturals, Sequences, FiniteSets

CONSTANTS
  Downstream,     \* connections, by downstream_id; each connects once
  Address,        \* payout addresses
  AddressesOf,    \* the addresses that occur in a client's user identities
  PoolScript,     \* coinbase_reward_script
  Flags,          \* SetupConnection flags that clients send
  MaxTemplate,    \* bound: templates the provider announces
  MaxChannelId,   \* bound: channel ids per connection; 1 is the group channel
  MaxQueued,      \* bound: a client's mining messages waiting for the ChannelManager
  CM,             \* the ChannelManager task, as a caller of remove_downstream
  None            \* Option::None

ASSUME ManagerAssumption ==
  /\ AddressesOf \in [Downstream -> SUBSET Address]
  /\ PoolScript \notin Address
  /\ Flags \subseteq [customWork : BOOLEAN, standardJobs : BOOLEAN]
  /\ MaxTemplate \in Nat /\ MaxChannelId \in Nat \ {0} /\ MaxQueued \in Nat
  /\ CM \notin Downstream
  /\ None \notin Address \cup {PoolScript} \cup Nat
  /\ None \notin [template : Nat, pays : Address \cup {PoolScript}, by : {"group", "channel"}]

VARIABLES
  sent,          \* how many templates the provider announced
  owed,          \* its future template whose SetNewPrevHash is still to be sent
  tpQueue,       \* tp_receiver: messages from the provider
  lastTemplate,  \* last_future_template
  lastPrevHash,  \* last_new_prev_hash, by its template
  conns,         \* keys of ChannelManagerData.downstream
  vardiff,       \* keys of ChannelManagerData.vardiff
  data,          \* DownstreamData and the flags of each connection
  senders,       \* keys of ChannelManagerIo.downstream_sender
  active,        \* MinerActivity.active_downstreams
  sessions,      \* MinerStatsRegistry: the sessions not closed
  stage,         \* what each connection task is doing
  removal,       \* the remove_downstream each task is executing
  queued,        \* mining messages forwarded and not yet handled, by connection
  cancelled,     \* the global cancellation token
  running        \* the ChannelManager's loop

provider == <<sent, owed>>
maps == <<conns, vardiff, data, senders, active, sessions>>
tasks == <<stage, removal, queued>>
pool == <<cancelled, running>>
vars == <<provider, tpQueue, lastTemplate, lastPrevHash, maps, tasks, pool>>

-----------------------------------------------------------------------------
GroupId == 1
ChannelId == (GroupId + 1)..MaxChannelId

\* The messages of the template provider, and what it promises about them.
Stream == INSTANCE TemplateStream
Template == Stream!Template
Message == Stream!Message

Job == [template : Template, pays : Address \cup {PoolScript}, by : {"group", "channel"}]

\* next and now are the server's future and active job; toldNext and toldNow
\* are those of a client that has read every message sent to it.
Channel == [kind : {"standard", "extended"}, owner : Address,
            next : Job \cup {None}, now : Job \cup {None},
            toldNext : Job \cup {None}, toldNow : Job \cup {None}]

NoData == [customWork |-> FALSE, standardJobs |-> FALSE, payout |-> None,
           nextId |-> GroupId + 1, groupNext |-> None, groupNow |-> None,
           members |-> {}, channels |-> [c \in {} |-> None]]

NoRemoval == [step |-> "none", target |-> None]

Init ==
  /\ sent = 0 /\ owed = None /\ tpQueue = <<>>
  /\ lastTemplate = None /\ lastPrevHash = None
  /\ conns = {} /\ vardiff = {} /\ senders = {} /\ active = 0 /\ sessions = {}
  /\ data = [d \in Downstream |-> NoData]
  /\ stage = [d \in Downstream |-> "idle"]
  /\ removal = [p \in Downstream \cup {CM} |-> NoRemoval]
  /\ queued = [d \in Downstream |-> 0]
  /\ cancelled = FALSE /\ running = TRUE

-----------------------------------------------------------------------------
(***************************************************************************)
(* The template provider: its side of the stream of messages, which        *)
(* TemplateProvider implements.  It stops when its receiver is closed.     *)
(***************************************************************************)
SendNewTemplate(future) ==
  /\ running /\ Stream!SendNewTemplate(future)
  /\ UNCHANGED <<lastTemplate, lastPrevHash, maps, tasks, pool>>

SendSetNewPrevHash ==
  /\ running /\ Stream!SendSetNewPrevHash
  /\ UNCHANGED <<lastTemplate, lastPrevHash, maps, tasks, pool>>

-----------------------------------------------------------------------------
(***************************************************************************)
(* The task of a connection, from the handshake to Downstream::start.      *)
(***************************************************************************)
\* bootstrap_group_channel on a snapshot of the last template and prev hash.
\* It fails when SetNewPrevHash of that template has not arrived; the failure
\* cancels the token of the whole pool.
BootstrapGroupChannel(d) ==
  /\ stage[d] = "idle" /\ lastTemplate # None /\ lastPrevHash # None
  /\ IF lastTemplate = lastPrevHash
       THEN /\ stage' = [stage EXCEPT ![d] = "bootstrapped"]
            /\ data' = [data EXCEPT ![d].groupNow =
                          [template |-> lastTemplate, pays |-> PoolScript, by |-> "group"]]
            /\ UNCHANGED cancelled
       ELSE /\ stage' = [stage EXCEPT ![d] = "failed"]
            /\ cancelled' = TRUE
            /\ UNCHANGED data
  /\ UNCHANGED <<provider, tpQueue, lastTemplate, lastPrevHash, conns, vardiff,
                 senders, active, sessions, removal, queued, running>>

RegisterSender(d) ==
  /\ stage[d] = "bootstrapped"
  /\ senders' = senders \cup {d}
  /\ stage' = [stage EXCEPT ![d] = "registered"]
  /\ UNCHANGED <<provider, tpQueue, lastTemplate, lastPrevHash, conns, vardiff,
                 data, active, sessions, removal, queued, pool>>

InsertDownstream(d) ==
  /\ stage[d] = "registered"
  /\ conns' = conns \cup {d}
  /\ stage' = [stage EXCEPT ![d] = "inserted"]
  /\ UNCHANGED <<provider, tpQueue, lastTemplate, lastPrevHash, vardiff, data,
                 senders, active, sessions, removal, queued, pool>>

IncrementActiveDownstreams(d) ==
  /\ stage[d] = "inserted"
  /\ active' = active + 1
  /\ stage' = [stage EXCEPT ![d] = "started"]
  /\ UNCHANGED <<provider, tpQueue, lastTemplate, lastPrevHash, conns, vardiff,
                 data, senders, sessions, removal, queued, pool>>

\* setup_connection_with_downstream: the flags of SetupConnection are stored.
SetupConnection(d, flags) ==
  /\ stage[d] = "started"
  /\ data' = [data EXCEPT ![d].customWork = flags.customWork,
                          ![d].standardJobs = flags.standardJobs]
  /\ stage' = [stage EXCEPT ![d] = "running"]
  /\ UNCHANGED <<provider, tpQueue, lastTemplate, lastPrevHash, conns, vardiff,
                 senders, active, sessions, removal, queued, pool>>

\* handle_downstream_message forwards a mining message.
ForwardMiningMessage(d) ==
  /\ stage[d] = "running" /\ running /\ queued[d] < MaxQueued
  /\ queued' = [queued EXCEPT ![d] = @ + 1]
  /\ UNCHANGED <<provider, tpQueue, lastTemplate, lastPrevHash, maps, stage,
                 removal, pool>>

\* The setup fails, the client goes away, the ChannelManager dropped the
\* sender, or the pool stops: the task calls on_disconnect.
Disconnect(d) ==
  /\ stage[d] \in {"started", "running"}
  /\ stage' = [stage EXCEPT ![d] = "left"]
  /\ removal' = [removal EXCEPT ![d] = [step |-> "record", target |-> d]]
  /\ UNCHANGED <<provider, tpQueue, lastTemplate, lastPrevHash, maps, queued, pool>>

-----------------------------------------------------------------------------
(***************************************************************************)
(* remove_downstream, executed by task p: by the connection's own task     *)
(* when it ends, and by the ChannelManager when a handler asks for the     *)
(* connection to be dropped.  The shared structures are changed one after  *)
(* the other, and the two tasks may run it for one connection at a time.   *)
(***************************************************************************)
After(p, step) == removal' = [removal EXCEPT ![p] =
                    IF step = "none" THEN NoRemoval ELSE [@ EXCEPT !.step = step]]

\* Mutant: the sender is dropped before the maps forget the connection.
RecordClosedUnsendsFirst(p) ==
  /\ removal[p].step = "record"
  /\ sessions' = {s \in sessions : s[1] # removal[p].target}
  /\ senders' = senders \ {removal[p].target}
  /\ After(p, "unmap")
  /\ UNCHANGED <<provider, tpQueue, lastTemplate, lastPrevHash, conns, vardiff,
                 data, active, stage, queued, pool>>

\* record_downstream_closed
RecordClosed(p) ==
  /\ removal[p].step = "record"
  /\ sessions' = {s \in sessions : s[1] # removal[p].target}
  /\ After(p, "unmap")
  /\ UNCHANGED <<provider, tpQueue, lastTemplate, lastPrevHash, conns, vardiff,
                 data, senders, active, stage, queued, pool>>

\* Mutant: whether the entry was there is not asked.
UnmapAlwaysUncounts(p) ==
  LET d == removal[p].target
  IN  /\ removal[p].step = "unmap"
      /\ conns' = conns \ {d}
      /\ vardiff' = {k \in vardiff : k[1] # d}
      /\ data' = [data EXCEPT ![d] = NoData]
      /\ After(p, "decrement")
      /\ UNCHANGED <<provider, tpQueue, lastTemplate, lastPrevHash, senders,
                     active, sessions, stage, queued, pool>>

\* Under one lock; the channels go with the map's entry.
Unmap(p) ==
  LET d == removal[p].target
  IN  /\ removal[p].step = "unmap"
      /\ conns' = conns \ {d}
      /\ vardiff' = {k \in vardiff : k[1] # d}
      /\ data' = [data EXCEPT ![d] = NoData]
      /\ After(p, IF d \in conns THEN "decrement" ELSE "unsend")
      /\ UNCHANGED <<provider, tpQueue, lastTemplate, lastPrevHash, senders,
                     active, sessions, stage, queued, pool>>

\* decrement_active_downstreams saturates at zero.
DecrementActiveDownstreams(p) ==
  /\ removal[p].step = "decrement"
  /\ active' = IF active = 0 THEN 0 ELSE active - 1
  /\ After(p, "unsend")
  /\ UNCHANGED <<provider, tpQueue, lastTemplate, lastPrevHash, conns, vardiff,
                 data, senders, sessions, stage, queued, pool>>

\* Mutant: only another task's removal drops the sender.
RemoveSenderOfOthers(p) ==
  /\ removal[p].step = "unsend"
  /\ senders' = senders \ ({removal[p].target} \ {p})
  /\ After(p, "none")
  /\ UNCHANGED <<provider, tpQueue, lastTemplate, lastPrevHash, conns, vardiff,
                 data, active, sessions, stage, queued, pool>>

RemoveSender(p) ==
  /\ removal[p].step = "unsend"
  /\ senders' = senders \ {removal[p].target}
  /\ After(p, "none")
  /\ UNCHANGED <<provider, tpQueue, lastTemplate, lastPrevHash, conns, vardiff,
                 data, active, sessions, stage, queued, pool>>

RemoveDownstream(p) ==
  RecordClosed(p) \/ Unmap(p) \/ DecrementActiveDownstreams(p) \/ RemoveSender(p)

-----------------------------------------------------------------------------
(***************************************************************************)
(* The ChannelManager's loop.                                              *)
(***************************************************************************)
Ready == running /\ removal[CM].step = "none"

\* ChannelManagerIo::close, when the loop ends.
CloseIo ==
  /\ running' = FALSE
  /\ senders' = {}
  /\ tpQueue' = <<>>
  /\ queued' = [d \in Downstream |-> 0]

StopOnCancellation ==
  /\ Ready /\ cancelled
  /\ CloseIo
  /\ UNCHANGED <<provider, lastTemplate, lastPrevHash, conns, vardiff, data,
                 active, sessions, stage, removal, cancelled>>

\* handle_error_action, Action::Shutdown, out of a handler: the loop ends.  When
\* the token is cancelled already, the loop goes on, but ends at its next turn.
Shutdown == cancelled' = TRUE /\ CloseIo

\* Mutant: the group channel's jobs always pay the pool.
PayeeIsPool(x) == PoolScript

\* PayoutMode::coinbase_outputs of the jobs made on the group channel.
Payee(x) == IF x.payout = None THEN PoolScript ELSE x.payout

\* Mutant: the loop over the extended channels is missing.
WithJobStandardOnly(chan, job, future) ==
  CASE chan.kind = "extended" -> chan
    [] future -> [chan EXCEPT !.next = job]
    [] OTHER -> [chan EXCEPT !.now = job]

\* on_new_template, on_group_channel_job: a job for a future template waits.
WithJob(chan, job, future) ==
  IF future THEN [chan EXCEPT !.next = job] ELSE [chan EXCEPT !.now = job]

\* Mutant: the client is not told of a refreshed template.
ToldFutureJob(chan, job, future) ==
  IF future THEN [chan EXCEPT !.toldNext = job] ELSE chan

\* The client is told of the same job.
ToldJob(chan, job, future) ==
  IF future THEN [chan EXCEPT !.toldNext = job] ELSE [chan EXCEPT !.toldNow = job]

\* What handle_new_template does with one connection.
WithTemplate(x, msg) ==
  LET job(by) == [template |-> msg.template, pays |-> Payee(x), by |-> by]
      alone(c) == x.channels[c].kind = "standard" /\ x.standardJobs
      told(c)  == alone(c) \/ (~ x.standardJobs /\ c \in x.members)
      step(c)  == LET j    == job(IF alone(c) THEN "channel" ELSE "group")
                      chan == WithJob(x.channels[c], j, msg.future)
                  IN  IF told(c) THEN ToldJob(chan, j, msg.future) ELSE chan
  IN  [x EXCEPT !.groupNext = IF msg.future THEN job("group") ELSE @,
                !.groupNow  = IF msg.future THEN @ ELSE job("group"),
                !.channels  = [c \in DOMAIN x.channels |-> step(c)]]

\* Mutant: a refresh of the current tip's template is stored as well.
StoredTemplateOfAny(msg) == msg.template

\* last_future_template after msg.
StoredTemplate(msg) == IF msg.future THEN msg.template ELSE lastTemplate

HandleNewTemplate ==
  /\ Ready /\ tpQueue # <<>> /\ Head(tpQueue).type = "NewTemplate"
  /\ LET msg == Head(tpQueue)
     IN  /\ lastTemplate' = StoredTemplate(msg)
         /\ data' = [d \in Downstream |->
                       IF d \in conns /\ ~ data[d].customWork
                         THEN WithTemplate(data[d], msg) ELSE data[d]]
  /\ tpQueue' = Tail(tpQueue)
  /\ UNCHANGED <<provider, lastPrevHash, conns, vardiff, senders, active,
                 sessions, tasks, pool>>

\* on_set_new_prev_hash fails unless the future job of template t is there;
\* an extended channel that waits for no job only forgets its past ones.
CanAdvance(next, t) == next # None /\ next.template = t
ChannelCanAdvance(chan, t) ==
  CanAdvance(chan.next, t) \/ (chan.kind = "extended" /\ chan.next = None)

\* A client activates the job that SetNewPrevHash names if it was sent to it.
Activated(told, job) == IF told = job THEN job ELSE None

\* SetNewPrevHash is sent to the group channel of a connection.
GroupIsTold(x) == ~ x.customWork /\ x.members # {}

\* What handle_set_new_prev_hash does with one connection.
WithPrevHash(x) ==
  LET told(c, chan) ==
        IF chan.kind = "standard" /\ x.standardJobs THEN Activated(chan.toldNext, chan.next)
        ELSE IF GroupIsTold(x) /\ c \in x.members THEN Activated(chan.toldNext, x.groupNext)
        ELSE chan.toldNow
      step(c) == LET chan == x.channels[c]
                 IN  [chan EXCEPT !.now  = IF chan.next = None THEN @ ELSE chan.next,
                                  !.next = None, !.toldNext = None,
                                  !.toldNow = told(c, chan)]
  IN  [x EXCEPT !.groupNow = x.groupNext, !.groupNext = None,
                !.channels = [c \in DOMAIN x.channels |-> step(c)]]

HandleSetNewPrevHash ==
  /\ Ready /\ tpQueue # <<>> /\ Head(tpQueue).type = "SetNewPrevHash"
  /\ LET t       == Head(tpQueue).template
         updated == {d \in conns : ~ data[d].customWork}
         ok      == \A d \in updated :
                      /\ CanAdvance(data[d].groupNext, t)
                      /\ \A c \in DOMAIN data[d].channels :
                           ChannelCanAdvance(data[d].channels[c], t)
     IN  /\ lastPrevHash' = t
         \* what a failing handler changed in data, no task reads any more
         /\ \/ /\ ok
               /\ data' = [d \in Downstream |->
                             IF d \in updated THEN WithPrevHash(data[d]) ELSE data[d]]
               /\ tpQueue' = Tail(tpQueue)
               /\ UNCHANGED <<senders, queued, pool>>
            \/ ~ ok /\ Shutdown /\ UNCHANGED data
  /\ UNCHANGED <<provider, lastTemplate, conns, vardiff, active, sessions,
                 stage, removal>>

-----------------------------------------------------------------------------
(***************************************************************************)
(* The mining messages of a client.  One queue feeds the ChannelManager;   *)
(* how the messages of different connections interleave in it is left open.*)
(***************************************************************************)
\* The next message is one of d's.
Receives(d) == Ready /\ queued[d] > 0
Taken(d) == queued' = [queued EXCEPT ![d] = @ - 1]

\* What opening a channel does before it can fail: payout_mode is that of the
\* latest user identity, and an id is used up.
Opening(x, addr) == [x EXCEPT !.payout = addr, !.nextId = @ + 1]

Opened(x, chan, joins) ==
  LET id == x.nextId
  IN  [Opening(x, chan.owner) EXCEPT
         !.channels = [c \in DOMAIN x.channels \cup {id} |->
                         IF c = id THEN chan ELSE x.channels[c]],
         !.members = IF joins THEN @ \cup {id} ELSE @]

\* Mutant: the coinbase pays the identity stored before this one.
NewChannelOfOldIdentity(d, kind, addr) ==
  LET own == IF data[d].customWork THEN None
             ELSE [template |-> lastTemplate, pays |-> data[d].payout, by |-> "channel"]
  IN  [kind |-> kind, owner |-> addr, next |-> None, now |-> own,
       toldNext |-> None, toldNow |-> own]

\* The channel starts with a job of its own, made from the last future template
\* and activated by the last SetNewPrevHash; a custom-work client is sent none.
NewChannel(d, kind, addr) ==
  LET own == IF data[d].customWork THEN None
             ELSE [template |-> lastTemplate, pays |-> addr, by |-> "channel"]
  IN  [kind |-> kind, owner |-> addr, next |-> None, now |-> own,
       toldNext |-> None, toldNow |-> own]

OpenSucceeds(d, kind, addr, joins) ==
  LET key == <<d, data[d].nextId>>
  IN  /\ data' = [data EXCEPT ![d] = Opened(@, NewChannel(d, kind, addr), joins)]
      /\ sessions' = sessions \cup {key}
      /\ vardiff' = vardiff \cup {key}
      /\ Taken(d)
      /\ UNCHANGED <<tpQueue, senders, pool>>

\* on_set_new_prev_hash of the new channel fails: its template is not the one
\* the last SetNewPrevHash names.
OpenFails(d, addr) ==
  /\ data' = [data EXCEPT ![d] = Opening(@, addr)]
  /\ Shutdown
  /\ UNCHANGED <<vardiff, sessions>>

CanOpen(d, addr) ==
  /\ Receives(d) /\ d \in conns
  /\ addr \in AddressesOf[d] /\ data[d].nextId <= MaxChannelId

HandleOpenStandardMiningChannel(d, addr) ==
  /\ CanOpen(d, addr) /\ ~ data[d].customWork
  /\ \/ /\ lastTemplate = lastPrevHash
        /\ OpenSucceeds(d, "standard", addr, ~ data[d].standardJobs)
     \/ lastTemplate # lastPrevHash /\ OpenFails(d, addr)
  /\ UNCHANGED <<provider, lastTemplate, lastPrevHash, conns, active, stage, removal>>

HandleOpenExtendedMiningChannel(d, addr) ==
  /\ CanOpen(d, addr)
  /\ \/ /\ data[d].customWork \/ lastTemplate = lastPrevHash
        /\ OpenSucceeds(d, "extended", addr, ~ data[d].customWork)
     \/ /\ ~ data[d].customWork /\ lastTemplate # lastPrevHash
        /\ OpenFails(d, addr)
  /\ UNCHANGED <<provider, lastTemplate, lastPrevHash, conns, active, stage, removal>>

\* The channel is refused for its nominal hashrate, after the identity was taken.
OpenRefused(d, addr) ==
  /\ CanOpen(d, addr)
  /\ data' = [data EXCEPT ![d] = Opening(@, addr)]
  /\ Taken(d)
  /\ UNCHANGED <<provider, tpQueue, lastTemplate, lastPrevHash, conns, vardiff,
                 senders, active, sessions, stage, removal, pool>>

\* Mutant: the vardiff entry stays.
CloseChannelKeepsVardiff(d, c) ==
  /\ Receives(d) /\ d \in conns /\ c \in DOMAIN data[d].channels
  /\ data' = [data EXCEPT ![d].channels =
                 [e \in DOMAIN data[d].channels \ {c} |-> data[d].channels[e]]]
  /\ sessions' = sessions \ {<<d, c>>}
  /\ Taken(d)
  /\ UNCHANGED <<provider, tpQueue, lastTemplate, lastPrevHash, conns, vardiff,
                 senders, active, stage, removal, pool>>

\* The group channel keeps the id.
HandleCloseChannel(d, c) ==
  /\ Receives(d) /\ d \in conns /\ c \in DOMAIN data[d].channels
  /\ data' = [data EXCEPT ![d].channels =
                 [e \in DOMAIN data[d].channels \ {c} |-> data[d].channels[e]]]
  /\ sessions' = sessions \ {<<d, c>>}
  /\ vardiff' = vardiff \ {<<d, c>>}
  /\ Taken(d)
  /\ UNCHANGED <<provider, tpQueue, lastTemplate, lastPrevHash, conns, senders,
                 active, stage, removal, pool>>

\* Shares, UpdateChannel, and the requests refused before anything changed.
HandleWithoutEffect(d) ==
  /\ Receives(d) /\ d \in conns
  /\ Taken(d)
  /\ UNCHANGED <<provider, tpQueue, lastTemplate, lastPrevHash, maps, stage,
                 removal, pool>>

\* A handler fails with Action::Disconnect: always when the connection is not
\* in the map any more, and for some errors of its channels.  The error is
\* dropped once the token is cancelled.
HandlerDisconnects(d) ==
  /\ Receives(d)
  /\ Taken(d)
  /\ removal' = IF cancelled THEN removal
                ELSE [removal EXCEPT ![CM] = [step |-> "record", target |-> d]]
  /\ UNCHANGED <<provider, tpQueue, lastTemplate, lastPrevHash, maps, stage, pool>>

-----------------------------------------------------------------------------
Provider == (\E future \in BOOLEAN : SendNewTemplate(future)) \/ SendSetNewPrevHash

Connection(d) ==
  \/ BootstrapGroupChannel(d)
  \/ RegisterSender(d)
  \/ InsertDownstream(d)
  \/ IncrementActiveDownstreams(d)
  \/ \E flags \in Flags : SetupConnection(d, flags)
  \/ ForwardMiningMessage(d)
  \/ Disconnect(d)

HandleMining(d) ==
  \/ \E addr \in Address :
       \/ HandleOpenStandardMiningChannel(d, addr)
       \/ HandleOpenExtendedMiningChannel(d, addr)
       \/ OpenRefused(d, addr)
  \/ \E c \in ChannelId : HandleCloseChannel(d, c)
  \/ HandleWithoutEffect(d)
  \/ HandlerDisconnects(d)

Next ==
  \/ Provider
  \/ \E d \in Downstream : Connection(d) \/ HandleMining(d)
  \/ \E p \in Downstream \cup {CM} : RemoveDownstream(p)
  \/ HandleNewTemplate \/ HandleSetNewPrevHash \/ StopOnCancellation

Spec == Init /\ [][Next]_vars

\* remove_downstream never blocks; a running connection task wakes up when its
\* sender is dropped or the token is cancelled.
WokenUp(d) == stage[d] = "running" /\ (d \notin senders \/ cancelled)

Fairness ==
  /\ \A p \in Downstream \cup {CM} : WF_vars(RemoveDownstream(p))
  /\ \A d \in Downstream : WF_vars(WokenUp(d) /\ Disconnect(d))

FairSpec == Spec /\ Fairness

-----------------------------------------------------------------------------
TypeOK ==
  /\ sent \in 0..MaxTemplate
  /\ owed \in Template \cup {None}
  /\ tpQueue \in Seq(Message)
  /\ lastTemplate \in Template \cup {None} /\ lastPrevHash \in Template \cup {None}
  /\ conns \subseteq Downstream /\ senders \subseteq Downstream
  /\ vardiff \subseteq Downstream \X ChannelId
  /\ sessions \subseteq Downstream \X ChannelId
  /\ active \in Nat
  /\ DOMAIN data = Downstream
  /\ \A d \in Downstream :
       /\ data[d].customWork \in BOOLEAN /\ data[d].standardJobs \in BOOLEAN
       /\ data[d].payout \in Address \cup {None}
       /\ data[d].nextId \in (GroupId + 1)..(MaxChannelId + 1)
       /\ data[d].groupNext \in Job \cup {None} /\ data[d].groupNow \in Job \cup {None}
       /\ data[d].members \subseteq ChannelId
       /\ DOMAIN data[d].channels \subseteq ChannelId
       /\ \A c \in DOMAIN data[d].channels : data[d].channels[c] \in Channel
  /\ stage \in [Downstream -> {"idle", "bootstrapped", "failed", "registered",
                               "inserted", "started", "running", "left"}]
  /\ removal \in [Downstream \cup {CM} ->
                     [step : {"none", "record", "unmap", "decrement", "unsend"},
                      target : Downstream \cup {None}]]
  /\ queued \in [Downstream -> 0..MaxQueued]
  /\ cancelled \in BOOLEAN /\ running \in BOOLEAN

\* The counter behind the template idle gate is exact: it counts the mapped
\* connections, up to those whose own task has inserted them and not yet
\* counted, and the removals that have unmapped one and not yet uncounted it.
\* Two tasks that remove one connection at a time uncount it once.
ActiveCounted ==
  Cardinality(conns) + Cardinality({p \in DOMAIN removal : removal[p].step = "decrement"})
    = active + Cardinality({d \in conns : stage[d] = "inserted"})

\* A message for a mapped connection finds a sender: entering and leaving the
\* two maps, which have locks of their own, happens in opposite orders.
ConnsHaveSenders == running => conns \subseteq senders

\* A channel is open iff it has a vardiff entry, so no share meets a channel
\* without one (which would close the channel), and none is left behind.
VardiffMatchesChannels ==
  vardiff = UNION {{<<d, c>> : c \in DOMAIN data[d].channels} : d \in conns}

\* The miner page lists every open channel as connected, except while its
\* connection is being removed.
OpenChannelsListed ==
  \A k \in vardiff :
    \/ k \in sessions
    \/ \E p \in DOMAIN removal : removal[p] = [step |-> "unmap", target |-> k[1]]

\* The three tables of channels, which open, close and remove in steps of
\* their own, agree.
ChannelTablesAgree == VardiffMatchesChannels /\ OpenChannelsListed

\* Every channel that gets templates follows the tip with the ChannelManager:
\* it has a job of the current tip or a refresh of it, and waits for exactly
\* the announced next tip.  Channels opened at any moment included.
ChannelsInStep ==
  running => \A d \in conns : ~ data[d].customWork =>
    \A c \in DOMAIN data[d].channels :
      LET chan == data[d].channels[c]
      IN  /\ chan.now # None /\ chan.now.template >= lastPrevHash
          /\ IF lastTemplate = lastPrevHash
               THEN chan.next = None
               ELSE chan.next # None /\ chan.next.template = lastTemplate

\* A miner whose connection uses one address is paid by every job it may solve,
\* also by the jobs the group channel makes for all its channels.
MinersArePaid ==
  \A d \in conns : \A c \in DOMAIN data[d].channels :
    LET chan == data[d].channels[c]
    IN  \A job \in {chan.now, chan.next} \ {None} : job.pays = chan.owner

\* A client that requires standard jobs is sent no job of the group, so its
\* extended channels are sent none after that of their opening.
WithoutGroupJobs(x, chan) == x.standardJobs /\ chan.kind = "extended"

HoldsServerJob(chan) == chan.toldNow = chan.now /\ chan.toldNext = chan.next

\* The client holds the job of the opening, or after a change of the tip none:
\* the group's SetNewPrevHash, sent to it all the same, names a job that it
\* was not sent.
HoldsOpeningJob(chan) ==
  /\ chan.toldNext = None
  /\ chan.toldNow # None =>
       chan.toldNow = [template |-> lastPrevHash, pays |-> chan.owner, by |-> "channel"]

\* A client that reads every message works on the job the server holds active
\* for its channel, and was sent the job the next SetNewPrevHash will name;
\* the extended channels that no group job reaches are the one exception, and
\* never work on a job of a tip that is gone.
ClientWorksOnServerJob ==
  running => \A d \in conns : ~ data[d].customWork =>
    \A c \in DOMAIN data[d].channels :
      LET chan == data[d].channels[c]
      IN  IF WithoutGroupJobs(data[d], chan) THEN HoldsOpeningJob(chan) ELSE HoldsServerJob(chan)

\* Only a client that arrives while the tip changes stops the pool: the token is
\* cancelled only between the two messages that announce a tip.
ShutdownOnlyWhileTipChanges ==
  [][cancelled' # cancelled =>
       \/ owed # None
       \/ \E i \in DOMAIN tpQueue : tpQueue[i].type = "SetNewPrevHash"]_vars

\* A connection dropped by the ChannelManager is closed by its own task, and
\* one that has left, for whatever reason, is forgotten for good by every
\* shared map.
Forgotten(d) ==
  d \notin conns \cup senders /\ \A k \in vardiff : k[1] # d
ConnectionsAreForgotten ==
  \A d \in Downstream :
    /\ (stage[d] = "running" /\ d \notin senders) ~> (stage[d] = "left")
    /\ stage[d] = "left" ~> []Forgotten(d)
=============================================================================
