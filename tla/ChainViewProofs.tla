--------------------------- MODULE ChainViewProofs ---------------------------
(***************************************************************************)
(* What ChainView promises, for any limits, any interval, any number of    *)
(* requests.                                                               *)
(*                                                                         *)
(* The inductive invariant says of every list of blocks, cached or being   *)
(* put together, that it is a gapless stretch, and of every block in it    *)
(* that the chain has at its height the same branch or a later one, or     *)
(* nothing at all: a block is never newer than the chain, which is why a   *)
(* block fetched now may be put on top of blocks that were kept.           *)
(***************************************************************************)
EXTENDS ChainView, TLAPS

-----------------------------------------------------------------------------
(* Arithmetic.                                                             *)

\* The start of a period is a height, and not above the block it is for.
LEMMA PeriodStartBelow ==
  ASSUME NEW h \in Nat
  PROVE  PeriodStartHeight(h) \in 0..h
<1>1. Interval \in Nat \ {0}
  BY ChainViewAssumption
<1>2. h = Interval * (h \div Interval) + (h % Interval) /\ h \div Interval \in Nat /\ h % Interval \in Nat
  BY <1>1
<1>3. PeriodStartHeight(h) = Interval * (h \div Interval)
  BY <1>1, <1>2 DEF PeriodStartHeight
<1> QED
  BY <1>1, <1>2, <1>3

\* The countdown to the next adjustment.
LEMMA Countdown ==
  ASSUME NEW h \in Nat
  PROVE  CountsDown(h)
<1> DEFINE q == h \div Interval
           m == h % Interval
<1>1. Interval \in Nat \ {0}
  BY ChainViewAssumption
<1>2. h = Interval * q + m /\ q \in Nat /\ m \in 0..Interval - 1
  BY <1>1
<1>3. h + 1 + Interval - 1 = Interval * (q + 1) + m
  BY <1>1, <1>2
<1>4. (h + 1 + Interval - 1) \div Interval = q + 1
  BY <1>1, <1>2, <1>3
<1> QED
  BY <1>1, <1>2, <1>4 DEF CountsDown, NextDifficultyAdjustmentHeight, PeriodStartHeight, BlocksRemaining, BlocksMinedInPeriod

\* The heights shown are Limit at most, and end with the one asked for.
LEMMA WindowHeights ==
  ASSUME NEW h \in Nat
  PROVE  /\ FirstRecentBlockHeight(h) \in 0..h
         /\ h < FirstRecentBlockHeight(h) + Limit
BY ChainViewAssumption DEF FirstRecentBlockHeight

-----------------------------------------------------------------------------
(* The inductive invariant.                                                *)

\* What is known of a block: chain c, of br reorganisations so far, has not
\* gone back behind it.
NotAhead(b, c, br) ==
  /\ b.branch <= br
  /\ b.height < Len(c) => b.branch <= c[b.height + 1]

ChainOK(c, br) ==
  /\ c \in Seq(Branch) /\ Len(c) \in 1..MaxHeight + 1
  /\ br \in Branch
  /\ \A i \in 1..Len(c) : c[i] <= br
  /\ \A i, j \in 1..Len(c) : i <= j => c[i] <= c[j]

Ordered(blocks) == \A b, c \in blocks : b.height <= c.height => b.branch <= c.branch

BlocksOK(blocks, c, br) ==
  /\ blocks \subseteq Block
  /\ \A b \in blocks : NotAhead(b, c, br)
  /\ Ordered(blocks)

\* The list that a request puts together ends just below next.
Stretch(q) ==
  /\ \A b \in q.blocks : b.height >= FirstRecentBlockHeight(q.height) /\ b.height < q.next
  /\ \A b, c \in q.blocks : b.height = c.height => b = c
  /\ \A b \in q.blocks : \A h \in b.height..q.next - 1 : \E d \in q.blocks : d.height = h
  /\ FirstRecentBlockHeight(q.height) <= q.next /\ q.next <= q.height + 1

RequestOK(q, c, br) ==
  /\ q \in RequestState
  /\ q.pc \notin {"done", "recent"} => q.height \in Height
  /\ q.start # None => q.height \in Height /\ q.start.height = PeriodStartHeight(q.height)
  /\ q.pc = "storeStart" => q.start # None
  /\ q.pc \in {"fetch", "store"} => Stretch(q)
  /\ BlocksOK(q.blocks, c, br)

Complete(cache) ==
  cache.height # None =>
    /\ \E b \in cache.blocks : b.height = cache.height
    /\ \A b \in cache.blocks : b.height <= cache.height

RecentOK(cache, c, br) ==
  /\ cache \in [height : MaybeHeight, blocks : SUBSET Block]
  /\ IsWindow(cache.blocks)
  /\ Complete(cache)
  /\ BlocksOK(cache.blocks, c, br)

PeriodOK(cache) ==
  /\ cache \in [height : MaybeHeight, start : MaybeBlock]
  /\ cache.height # None => cache.start \in Block /\ cache.start.height = cache.height

IInv ==
  /\ ChainOK(chain, branch)
  /\ ready \in BOOLEAN /\ outages \in 0..MaxOutages /\ peak \in 0..MaxHeight + 1
  /\ RecentOK(recent, chain, branch)
  /\ PeriodOK(period)
  /\ request \in [Requests -> RequestState]
  /\ \A r \in Requests : RequestOK(request[r], chain, branch)

-----------------------------------------------------------------------------
(* Steps of Core.                                                          *)

\* What a block of height h was at some time is not ahead of what Core goes
\* on to.
LEMMA ChainMoves ==
  ASSUME ChainOK(chain, branch), Mine \/ Reorg
  PROVE  /\ ChainOK(chain', branch')
         /\ \A b \in Block : NotAhead(b, chain, branch) => NotAhead(b, chain', branch')
<1> USE ChainViewAssumption DEF Branch, Height, Block, ChainOK, NotAhead
<1>1. CASE Mine
  <2>1. chain' = Append(chain, branch) /\ branch' = branch /\ Len(chain) < MaxHeight + 1
    BY <1>1 DEF Mine, Tip
  <2>2. chain' \in Seq(Branch) /\ Len(chain') = Len(chain) + 1
    BY <2>1
  <2>3. \A i \in 1..Len(chain) : chain'[i] = chain[i]
    BY <2>1
  <2>4. chain'[Len(chain')] = branch
    BY <2>1
  <2>5. ChainOK(chain', branch')
    BY <2>1, <2>2, <2>3, <2>4
  <2>6. ASSUME NEW b \in Block, NotAhead(b, chain, branch)
        PROVE  NotAhead(b, chain', branch')
    BY <2>1, <2>2, <2>3, <2>4, <2>6
  <2> QED
    BY <2>5, <2>6
<1>2. CASE Reorg
  <2>1. branch' = branch + 1 /\ branch' \in Branch
    BY <1>2 DEF Reorg
  <2>2. PICK kept \in 1..Tip, len \in 1..MaxHeight + 1 :
          kept < len /\ chain' = [i \in 1..len |-> IF i <= kept THEN chain[i] ELSE branch']
    BY <1>2 DEF Reorg
  <2>3. kept \in 1..Len(chain) /\ kept < Len(chain)
    BY <2>2 DEF Tip
  <2>4. \A i \in 1..len : chain'[i] = (IF i <= kept THEN chain[i] ELSE branch') /\ chain'[i] \in Branch
    BY <2>1, <2>2, <2>3
  <2>5. chain' \in Seq(Branch) /\ Len(chain') = len
    BY <2>2, <2>4
  <2>6. ChainOK(chain', branch')
    <3>1. \A i \in 1..Len(chain) : chain[i] \in Nat /\ chain[i] <= branch /\ branch \in Nat
      OBVIOUS
    <3>2. ASSUME NEW i \in 1..len
          PROVE  /\ chain'[i] <= branch'
                 /\ chain'[i] = IF i <= kept THEN chain[i] ELSE branch'
      <4> HIDE DEF ChainOK, NotAhead, Block, Height
      <4>1. CASE i <= kept
        <5>1. i \in 1..Len(chain) /\ chain'[i] = chain[i]
          BY <2>3, <2>4, <4>1
        <5>2. chain[i] \in Nat /\ chain[i] <= branch /\ branch \in Nat
          BY <5>1, <3>1
        <5> QED
          BY <2>1, <4>1, <5>1, <5>2
      <4>2. CASE ~(i <= kept)
        <5>1. chain'[i] = branch' /\ branch' \in Nat
          BY <2>1, <2>4, <3>1, <4>2
        <5> QED
          BY <4>2, <5>1
      <4> QED
        BY <4>1, <4>2
    <3>3. ASSUME NEW i \in 1..len, NEW j \in 1..len, i <= j
          PROVE  chain'[i] <= chain'[j]
      <4>1. CASE j <= kept
        <5>1. i \in 1..Len(chain) /\ j \in 1..Len(chain) /\ i <= kept
          BY <2>3, <3>3, <4>1
        <5>2. chain[i] <= chain[j]
          BY <3>3, <5>1
        <5>3. chain'[i] = chain[i] /\ chain'[j] = chain[j]
          BY <3>2, <4>1, <5>1
        <5> QED
          BY <5>2, <5>3
      <4>2. CASE ~(j <= kept)
        <5>1. chain'[j] = branch'
          BY <3>2, <4>2
        <5> QED
          BY <5>1, <3>2
      <4> QED
        BY <4>1, <4>2
    <3> QED
      BY <2>1, <2>5, <3>2, <3>3
  <2>7. ASSUME NEW b \in Block, NotAhead(b, chain, branch)
        PROVE  NotAhead(b, chain', branch')
    BY <2>1, <2>2, <2>3, <2>4, <2>5, <2>7
  <2> QED
    BY <2>6, <2>7
<1> QED
  BY <1>1, <1>2

LEMMA BlocksStayOK ==
  ASSUME NEW blocks, BlocksOK(blocks, chain, branch),
         \A b \in Block : NotAhead(b, chain, branch) => NotAhead(b, chain', branch')
  PROVE  BlocksOK(blocks, chain', branch')
BY DEF BlocksOK

LEMMA EnvironmentKeeps ==
  ASSUME IInv, Environment
  PROVE  IInv'
<1>1. UNCHANGED <<recent, period, request>>
  BY DEF Environment, Mine, Reorg, CoreGoes, CoreComes
<1>2. ready' \in BOOLEAN /\ outages' \in 0..MaxOutages
  <2>1. ready \in BOOLEAN /\ outages \in 0..MaxOutages /\ MaxOutages \in Nat
    BY ChainViewAssumption DEF IInv
  <2>2. CASE Mine \/ Reorg \/ CoreComes
    BY <2>1, <2>2 DEF Mine, Reorg, CoreComes
  <2>3. CASE CoreGoes
    <3>1. ready' = FALSE /\ outages < MaxOutages /\ outages' = outages + 1
      BY <2>3 DEF CoreGoes
    <3>2. outages' \in 0..MaxOutages
      BY <2>1, <3>1
    <3> QED
      BY <3>1, <3>2
  <2> QED
    BY <2>2, <2>3 DEF Environment
<1>3. /\ ChainOK(chain', branch')
      /\ \A b \in Block : NotAhead(b, chain, branch) => NotAhead(b, chain', branch')
  <2>1. CASE Mine \/ Reorg
    BY <2>1, ChainMoves DEF IInv
  <2>2. CASE CoreGoes \/ CoreComes
    BY <2>2 DEF IInv, CoreGoes, CoreComes
  <2> QED
    BY <2>1, <2>2 DEF Environment
<1>4. RecentOK(recent', chain', branch')
  BY <1>1, <1>3, BlocksStayOK DEF IInv, RecentOK
<1>5. \A r \in Requests : RequestOK(request'[r], chain', branch')
  BY <1>1, <1>3, BlocksStayOK DEF IInv, RequestOK
<1>6. peak' \in 0..MaxHeight + 1
  <2>1. peak \in 0..MaxHeight + 1 /\ Len(chain) \in 0..MaxHeight + 1
    BY ChainViewAssumption DEF IInv, ChainOK
  <2>2. peak' \in {peak, Len(chain)}
    BY DEF Environment, Mine, Reorg, CoreGoes, CoreComes
  <2> QED
    BY <2>1, <2>2
<1> QED
  BY <1>1, <1>2, <1>3, <1>4, <1>5, <1>6 DEF IInv

-----------------------------------------------------------------------------
(* Steps of a request.                                                     *)

\* A request goes on to a state that is in order.
LEMMA RequestMoves ==
  ASSUME IInv, NEW r \in Requests, NEW new, Move(r, new), RequestOK(new, chain, branch),
         UNCHANGED coreVars, RecentOK(recent', chain, branch), PeriodOK(period')
  PROVE  IInv'
<1>1. /\ chain' = chain /\ branch' = branch /\ ready' = ready
      /\ outages' = outages /\ peak' = peak
  BY DEF coreVars
<1>2. new \in RequestState
  BY DEF RequestOK
<1>3. request' = [request EXCEPT ![r] = new] /\ request \in [Requests -> RequestState]
  BY DEF Move, IInv
<1>4. request' \in [Requests -> RequestState]
  BY <1>2, <1>3
<1>5. \A other \in Requests : request'[other] = IF other = r THEN new ELSE request[other]
  BY <1>3
<1>6. \A other \in Requests : RequestOK(request'[other], chain, branch)
  BY <1>5 DEF IInv
<1> QED
  BY <1>1, <1>4, <1>6 DEF IInv

\* Nothing is known yet.
LEMMA NoRequestOK ==
  ASSUME NEW c, NEW br
  PROVE  RequestOK(NoRequest, c, br) /\ NoRequest \in RequestState
BY ChainViewAssumption DEF NoRequest, RequestOK, RequestState, BlocksOK, Ordered, MaybeHeight, MaybeBlock

\* The height of the chain, and what it has there.
LEMMA TipIsHeight ==
  ASSUME IInv
  PROVE  /\ Tip \in Height
         /\ \A h \in Nat : h <= Tip => BlockAt(h) \in Block /\ NotAhead(BlockAt(h), chain, branch)
<1>1. chain \in Seq(Branch) /\ Len(chain) \in 1..MaxHeight + 1 /\ MaxHeight \in Nat /\ ChainOK(chain, branch)
  BY ChainViewAssumption DEF IInv, ChainOK
<1>2. Tip \in Height
  BY <1>1 DEF Tip, Height
<1>3. ASSUME NEW h \in Nat, h <= Tip
      PROVE  BlockAt(h) \in Block /\ NotAhead(BlockAt(h), chain, branch)
  <2>1. h + 1 \in 1..Len(chain) /\ h \in Height
    BY <1>1, <1>3 DEF Tip, Height
  <2>2. chain[h + 1] \in Branch /\ chain[h + 1] <= branch
    BY <1>1, <2>1 DEF ChainOK
  <2>3. BlockAt(h) = [height |-> h, branch |-> chain[h + 1]]
    BY DEF BlockAt
  <2>4. BlockAt(h) \in Block
    BY <2>1, <2>2, <2>3 DEF Block
  <2>5. chain[h + 1] <= chain[h + 1]
    BY <2>2, ChainViewAssumption DEF Branch
  <2> QED
    BY <2>2, <2>3, <2>4, <2>5 DEF NotAhead
<1> QED
  BY <1>2, <1>3

\* The state of a request, and what is used of it most.
LEMMA RequestFacts ==
  ASSUME IInv, NEW r \in Requests
  PROVE  /\ request[r] \in RequestState /\ RequestOK(request[r], chain, branch)
         /\ request[r].pc \notin {"done", "recent"} =>
              request[r].height \in Height /\ request[r].height \in Nat /\ request[r].height # None
BY ChainViewAssumption DEF IInv, RequestOK, Height

LEMMA StatusKeeps ==
  ASSUME IInv, NEW r \in Requests, FetchBitcoinCoreStatus(r)
  PROVE  IInv'
<1> DEFINE new == IF CallSucceeds THEN [NoRequest EXCEPT !.pc = "period", !.height = Tip]
                  ELSE [NoRequest EXCEPT !.pc = "recent"]
<1>1. Move(r, new) /\ UNCHANGED <<coreVars, recent, period>>
  BY DEF FetchBitcoinCoreStatus
<1>2. Tip \in Height
  BY TipIsHeight
<1>3. RequestOK(new, chain, branch)
  BY <1>2, NoRequestOK DEF RequestOK, RequestState, NoRequest, MaybeHeight
<1> HIDE DEF new
<1> QED
  BY <1>1, <1>3, RequestMoves DEF IInv

LEMMA FindStartKeeps ==
  ASSUME IInv, NEW r \in Requests, FindPeriodStart(r)
  PROVE  IInv'
<1> DEFINE q == request[r]
           cached == CachedDifficultyPeriodStart(PeriodStartHeight(q.height))
           new == IF cached # None THEN [q EXCEPT !.pc = "recent", !.start = cached]
                  ELSE [q EXCEPT !.pc = "fetchStart"]
<1>1. Move(r, new) /\ UNCHANGED <<coreVars, recent, period>> /\ q.pc = "period"
  BY DEF FindPeriodStart
<1>2. q \in RequestState /\ RequestOK(q, chain, branch) /\ q.height \in Height /\ q.height \in Nat
  BY <1>1, RequestFacts
<1>3. PeriodStartHeight(q.height) \in Nat
  BY <1>2, PeriodStartBelow
<1>4. cached # None => cached \in Block /\ cached.height = PeriodStartHeight(q.height)
  BY <1>3, ChainViewAssumption DEF IInv, PeriodOK, CachedDifficultyPeriodStart
<1> HIDE DEF cached
<1>5. RequestOK(new, chain, branch)
  <2>1. CASE cached # None
    BY <1>2, <1>4, <2>1 DEF RequestOK, RequestState, MaybeBlock
  <2>2. CASE cached = None
    BY <1>1, <1>2, <2>2 DEF RequestOK, RequestState
  <2> QED
    BY <2>1, <2>2
<1> HIDE DEF new
<1> QED
  BY <1>1, <1>5, RequestMoves DEF IInv

LEMMA FetchStartKeeps ==
  ASSUME IInv, NEW r \in Requests, FetchPeriodStart(r)
  PROVE  IInv'
<1> DEFINE q == request[r]
           h == PeriodStartHeight(q.height)
           new == IF CallSucceeds /\ h <= Tip THEN [q EXCEPT !.pc = "storeStart", !.start = BlockAt(h)]
                  ELSE [q EXCEPT !.pc = "recent"]
<1>1. Move(r, new) /\ UNCHANGED <<coreVars, recent, period>> /\ q.pc = "fetchStart"
  BY DEF FetchPeriodStart
<1>2. q \in RequestState /\ RequestOK(q, chain, branch) /\ q.height \in Height /\ q.height \in Nat
  BY <1>1, RequestFacts
<1>3. h \in Nat
  BY <1>2, PeriodStartBelow
<1>4. h <= Tip => BlockAt(h) \in Block /\ BlockAt(h) # None
  BY <1>3, TipIsHeight, ChainViewAssumption
<1>5. BlockAt(h).height = h
  BY DEF BlockAt
<1> HIDE DEF h
<1>6. RequestOK(new, chain, branch)
  <2>1. CASE CallSucceeds /\ h <= Tip
    BY <1>2, <1>4, <1>5, <2>1 DEF RequestOK, RequestState, MaybeBlock, h
  <2>2. CASE ~(CallSucceeds /\ h <= Tip)
    BY <1>1, <1>2, <2>2 DEF RequestOK, RequestState
  <2> QED
    BY <2>1, <2>2
<1> HIDE DEF new
<1> QED
  BY <1>1, <1>6, RequestMoves DEF IInv

LEMMA StoreStartKeeps ==
  ASSUME IInv, NEW r \in Requests, StorePeriodStart(r)
  PROVE  IInv'
<1> DEFINE q == request[r]
           new == [q EXCEPT !.pc = "recent"]
<1>1. Move(r, new) /\ UNCHANGED <<coreVars, recent>> /\ q.pc = "storeStart"
      /\ period' = [height |-> PeriodStartHeight(q.height), start |-> q.start]
  BY DEF StorePeriodStart
<1>2. q \in RequestState /\ RequestOK(q, chain, branch) /\ q.height \in Height /\ q.height \in Nat
  BY <1>1, RequestFacts
<1>3. q.start \in Block /\ q.start.height = PeriodStartHeight(q.height)
  BY <1>1, <1>2 DEF RequestOK, RequestState, MaybeBlock
<1>4. PeriodStartHeight(q.height) \in Height
  BY <1>3 DEF Block
<1>5. PeriodOK(period')
  BY <1>1, <1>3, <1>4 DEF PeriodOK, MaybeHeight, MaybeBlock
<1>6. RequestOK(new, chain, branch)
  BY <1>1, <1>2 DEF RequestOK, RequestState
<1> HIDE DEF new
<1> QED
  BY <1>1, <1>5, <1>6, RequestMoves DEF IInv

LEMMA ReadRecentKeeps ==
  ASSUME IInv, NEW r \in Requests, ReadRecentBlocks(r)
  PROVE  IInv'
<1> DEFINE q == request[r]
           new == IF recent.height = q.height \/ q.height = None THEN NoRequest
                  ELSE [NoRequest EXCEPT !.pc = "begin", !.height = q.height]
<1>1. Move(r, new) /\ UNCHANGED <<coreVars, recent, period>>
  BY DEF ReadRecentBlocks
<1>2. q \in RequestState
  BY RequestFacts
<1>3. RequestOK(new, chain, branch)
  <2>1. CASE recent.height = q.height \/ q.height = None
    BY <2>1, NoRequestOK
  <2>2. CASE ~(recent.height = q.height \/ q.height = None)
    BY <1>2, <2>2, NoRequestOK DEF RequestOK, RequestState, NoRequest, MaybeHeight
  <2> QED
    BY <2>1, <2>2
<1> HIDE DEF new
<1> QED
  BY <1>1, <1>3, RequestMoves DEF IInv

\* The blocks kept of a window are a stretch up to the last of them.
LEMMA BeginKeeps ==
  ASSUME IInv, NEW r \in Requests, BeginFetch(r)
  PROVE  IInv'
<1> DEFINE q == request[r]
           first == FirstRecentBlockHeight(q.height)
           kept == {b \in recent.blocks : b.height \in first..q.height}
<1>1. q \in RequestState /\ RequestOK(q, chain, branch) /\ q.height \in Height /\ q.height \in Nat
  BY RequestFacts DEF BeginFetch
<1>2. first \in 0..q.height
  BY <1>1, WindowHeights
<1>3. PICK next \in first..q.height + 1 :
        /\ kept = {} => next = first
        /\ kept # {} => \E last \in kept : next = last.height + 1
        /\ \A b \in kept : b.height < next
        /\ Move(r, [q EXCEPT !.pc = "fetch", !.next = next, !.blocks = kept])
  BY DEF BeginFetch
<1>4. UNCHANGED <<coreVars, recent, period>>
  BY DEF BeginFetch
<1> DEFINE new == [q EXCEPT !.pc = "fetch", !.next = next, !.blocks = kept]
<1>5. /\ recent.blocks \subseteq Block /\ IsWindow(recent.blocks)
      /\ BlocksOK(recent.blocks, chain, branch)
  BY DEF IInv, RecentOK, BlocksOK
<1>6. kept \subseteq recent.blocks /\ \A b \in kept : b.height \in first..q.height
  OBVIOUS
<1>7. BlocksOK(kept, chain, branch)
  BY <1>5, <1>6 DEF BlocksOK, Ordered
<1>8. \A b \in kept : b.height \in Nat /\ b.height >= first /\ b.height < next
  BY <1>2, <1>3, <1>6
<1>9. ASSUME NEW b \in kept, NEW h \in b.height..next - 1
      PROVE  \E d \in kept : d.height = h
  <2>1. PICK last \in kept : next = last.height + 1
    BY <1>3
  <2>2. h \in b.height..last.height /\ h \in first..q.height
    <3>1. last.height \in Nat /\ b.height \in Nat /\ b.height >= first /\ last.height <= q.height
      BY <1>2, <1>6, <1>8
    <3>2. h \in Int /\ b.height <= h /\ h <= last.height
      BY <2>1, <3>1
    <3> QED
      BY <1>1, <1>2, <3>1, <3>2
  <2>3. \E d \in recent.blocks : d.height = h
    BY <1>5, <1>6, <2>1, <2>2 DEF IsWindow
  <2> QED
    BY <2>2, <2>3
<1>10. \A b, c \in kept : b.height = c.height => b = c
  BY <1>5, <1>6 DEF IsWindow
<1>11. next \in 0..MaxHeight + 1 /\ next <= q.height + 1
  BY <1>1, <1>2, <1>3, ChainViewAssumption DEF Height
<1> HIDE DEF kept
<1>12. new \in RequestState /\ new.height = q.height /\ new.next = next /\ new.blocks = kept
       /\ new.pc = "fetch" /\ new.start = q.start
  BY <1>1, <1>7, <1>11 DEF RequestState, BlocksOK
<1>13. Stretch(new)
  BY <1>2, <1>3, <1>8, <1>9, <1>10, <1>11, <1>12 DEF Stretch
<1> HIDE DEF new
<1>14. RequestOK(new, chain, branch)
  BY <1>1, <1>7, <1>12, <1>13 DEF RequestOK
<1>15. Move(r, new)
  BY <1>3 DEF new
<1> QED
  BY <1>4, <1>14, <1>15, RequestMoves DEF IInv

\* A block is put on top of the stretch.
LEMMA FetchKeeps ==
  ASSUME IInv, NEW r \in Requests, FetchRecentBlock(r)
  PROVE  IInv'
<1> DEFINE q == request[r]
           fetched == [q EXCEPT !.next = q.next + 1, !.blocks = q.blocks \cup {BlockAt(q.next)}]
           stopped == [q EXCEPT !.pc = "store"]
           new == IF CallSucceeds /\ q.next <= Tip THEN fetched ELSE stopped
<1>1. Move(r, new) /\ UNCHANGED <<coreVars, recent, period>> /\ q.pc = "fetch" /\ q.next <= q.height
  BY DEF FetchRecentBlock
<1>2. q \in RequestState /\ RequestOK(q, chain, branch) /\ q.height \in Height /\ q.height \in Nat
  BY <1>1, RequestFacts
<1>3. Stretch(q) /\ BlocksOK(q.blocks, chain, branch) /\ q.next \in Nat /\ MaxHeight \in Nat
      /\ q.next \in 0..MaxHeight + 1 /\ q.height <= MaxHeight
  BY <1>1, <1>2, ChainViewAssumption DEF RequestOK, RequestState, Height
<1>4. CASE CallSucceeds /\ q.next <= Tip
  <2> DEFINE b0 == BlockAt(q.next)
  <2>1. b0 \in Block /\ NotAhead(b0, chain, branch) /\ b0.height = q.next /\ b0.branch = chain[q.next + 1]
    BY <1>3, <1>4, TipIsHeight DEF BlockAt
  <2>2. q.next < Len(chain) /\ Len(chain) \in Nat
    BY <1>3, <1>4 DEF Tip, IInv, ChainOK
  <2> HIDE DEF b0
  <2>3. \A b \in q.blocks : b \in Block /\ b.height \in Nat /\ b.height < q.next /\ b.branch \in Nat
    BY <1>3, ChainViewAssumption DEF Stretch, BlocksOK, Block, Height, Branch
  <2>4. \A b \in q.blocks : b.branch <= b0.branch
    <3> SUFFICES ASSUME NEW b \in q.blocks PROVE b.branch <= b0.branch
      OBVIOUS
    <3>1. b.height < Len(chain) /\ b.height + 1 \in 1..Len(chain) /\ q.next + 1 \in 1..Len(chain)
          /\ b.height + 1 <= q.next + 1
      BY <1>3, <2>2, <2>3
    <3>2. b.branch <= chain[b.height + 1]
      BY <1>3, <3>1 DEF BlocksOK, NotAhead
    <3>3. chain[b.height + 1] <= chain[q.next + 1]
      BY <3>1 DEF IInv, ChainOK
    <3>4. chain[b.height + 1] \in Nat /\ chain[q.next + 1] \in Nat
      <4>1. chain \in Seq(Branch) /\ \A x \in Branch : x \in Nat
        BY ChainViewAssumption DEF IInv, ChainOK, Branch
      <4>2. chain[b.height + 1] \in Branch /\ chain[q.next + 1] \in Branch
        BY <3>1, <4>1
      <4> QED
        BY <4>1, <4>2
    <3> QED
      BY <2>1, <2>3, <3>2, <3>3, <3>4
  <2> DEFINE blocks == q.blocks \cup {b0}
  <2>5. b0.branch <= b0.branch
    BY <2>1, ChainViewAssumption DEF Block, Branch
  <2>6. BlocksOK(blocks, chain, branch)
    <3>1. blocks \subseteq Block /\ \A b \in blocks : NotAhead(b, chain, branch)
      BY <1>3, <2>1 DEF BlocksOK
    <3>2. Ordered(q.blocks)
      BY <1>3 DEF BlocksOK
    <3>3. ASSUME NEW b \in blocks, NEW c \in blocks, b.height <= c.height
          PROVE  b.branch <= c.branch
      <4>1. CASE c = b0
        BY <2>4, <2>5, <4>1
      <4>2. CASE c \in q.blocks /\ b = b0
        BY <1>3, <2>1, <2>3, <3>3, <4>2
      <4>3. CASE c \in q.blocks /\ b \in q.blocks
        BY <3>2, <3>3, <4>3 DEF Ordered
      <4> QED
        BY <4>1, <4>2, <4>3
    <3> QED
      BY <3>1, <3>3 DEF BlocksOK, Ordered
  <2>7. q.next + 1 \in 0..MaxHeight + 1
    BY <1>1, <1>2, <1>3
  <2>8. blocks \subseteq Block
    BY <2>6 DEF BlocksOK
  <2>9. fetched = [q EXCEPT !.next = q.next + 1, !.blocks = blocks]
    BY DEF b0
  <2> HIDE DEF fetched, blocks
  <2>10. fetched \in RequestState /\ fetched.pc = "fetch" /\ fetched.height = q.height
         /\ fetched.next = q.next + 1 /\ fetched.blocks = blocks /\ fetched.start = q.start
    BY <1>1, <1>2, <2>7, <2>8, <2>9 DEF RequestState
  <2>11. \A b \in blocks : /\ b.height \in Nat /\ b.height >= FirstRecentBlockHeight(q.height)
                            /\ b.height < q.next + 1
    BY <1>2, <1>3, <2>1, <2>3, WindowHeights DEF Stretch, blocks
  <2>12. \A b, c \in blocks : b.height = c.height => b = c
    <3>1. \A b, c \in q.blocks : b.height = c.height => b = c
      BY <1>3 DEF Stretch
    <3>2. \A b \in q.blocks : b.height # q.next
      BY <1>3, <2>3
    <3> QED
      BY <2>1, <3>1, <3>2 DEF blocks
  <2>13. ASSUME NEW b \in blocks, NEW h \in b.height..q.next
         PROVE  \E d \in blocks : d.height = h
    <3>1. CASE h = q.next
      BY <2>1, <3>1 DEF blocks
    <3>2. CASE h # q.next
      <4>1. h \in b.height..q.next - 1
        BY <1>3, <2>11, <3>2
      <4>2. b \in q.blocks
        BY <1>3, <2>1, <4>1 DEF blocks
      <4>3. \E d \in q.blocks : d.height = h
        BY <1>3, <4>1, <4>2 DEF Stretch
      <4> QED
        BY <4>3 DEF blocks
    <3> QED
      BY <3>1, <3>2
  <2>14. FirstRecentBlockHeight(q.height) <= q.next + 1 /\ q.next + 1 <= q.height + 1
    BY <1>1, <1>2, <1>3, WindowHeights DEF Stretch
  <2>15. (q.next + 1) - 1 = q.next
    BY <1>3
  <2>16. Stretch(fetched)
    BY <2>10, <2>11, <2>12, <2>13, <2>14, <2>15 DEF Stretch
  <2>17. RequestOK(fetched, chain, branch)
    BY <1>1, <1>2, <2>6, <2>10, <2>16 DEF RequestOK
  <2> QED
    BY <1>1, <1>4, <2>17, RequestMoves DEF IInv
<1>5. CASE ~(CallSucceeds /\ q.next <= Tip)
  <2>1. RequestOK(stopped, chain, branch)
    BY <1>1, <1>2, <1>3 DEF RequestOK, RequestState, Stretch
  <2> HIDE DEF stopped
  <2> QED
    BY <1>1, <1>5, <2>1, RequestMoves DEF IInv
<1> QED
  BY <1>4, <1>5

\* The list that is stored is a window, and complete only if it ends with
\* the block of its height.
LEMMA StoreKeeps ==
  ASSUME IInv, NEW r \in Requests, StoreRecentBlocks(r)
  PROVE  IInv'
<1> DEFINE q == request[r]
<1>1. Move(r, NoRequest) /\ UNCHANGED <<coreVars, period>> /\ recent' = Stored(q)
      /\ q.pc \in {"store", "fetch"}
  BY DEF StoreRecentBlocks
<1>2. q \in RequestState /\ RequestOK(q, chain, branch) /\ q.height \in Height /\ q.height \in Nat
  BY <1>1, RequestFacts
<1>3. Stretch(q) /\ BlocksOK(q.blocks, chain, branch) /\ q.next \in Nat
  BY <1>1, <1>2, ChainViewAssumption DEF RequestOK, RequestState
<1>4. CASE q.blocks = {}
  BY <1>1, <1>4, NoRequestOK, RequestMoves DEF IInv, Stored
<1>5. CASE q.blocks # {}
  <2>1. recent' = [height |-> IF RecentBlocksComplete(q.height, q.blocks) THEN q.height ELSE None,
                   blocks |-> q.blocks]
    BY <1>1, <1>5 DEF Stored
  <2>2. \A b \in q.blocks : /\ b.height \in Nat /\ b.height >= FirstRecentBlockHeight(q.height)
                            /\ b.height < q.next /\ b.height <= q.height
    <3>1. \A b \in q.blocks : b.height \in Nat
      BY <1>3, ChainViewAssumption DEF BlocksOK, Block, Height
    <3> QED
      BY <1>2, <1>3, <3>1, WindowHeights DEF Stretch
  <2>3. \A b, c \in q.blocks : b.height < c.height + Limit
    BY <1>2, <2>2, WindowHeights, ChainViewAssumption
  <2>4. ASSUME NEW b \in q.blocks, NEW c \in q.blocks, NEW h \in b.height..c.height
        PROVE  \E d \in q.blocks : d.height = h
    <3>1. h \in b.height..q.next - 1
      BY <1>3, <2>2
    <3> QED
      BY <1>3, <3>1 DEF Stretch
  <2>5. IsWindow(q.blocks)
    BY <1>3, <2>3, <2>4 DEF IsWindow, Stretch
  <2>6. recent'.blocks = q.blocks /\ recent'.height \in {q.height, None}
        /\ (recent'.height # None => RecentBlocksComplete(q.height, q.blocks) /\ recent'.height = q.height)
    BY <2>1
  <2>7. Complete(recent')
    BY <2>2, <2>6 DEF Complete, RecentBlocksComplete
  <2>8. recent' \in [height : MaybeHeight, blocks : SUBSET Block]
    BY <1>2, <1>3, <2>1 DEF MaybeHeight, BlocksOK
  <2>9. RecentOK(recent', chain, branch)
    BY <1>3, <2>5, <2>6, <2>7, <2>8 DEF RecentOK
  <2> QED
    BY <1>1, <2>9, NoRequestOK, RequestMoves DEF IInv
<1> QED
  BY <1>4, <1>5

-----------------------------------------------------------------------------
(* The invariant holds throughout, and what follows from it.               *)

LEMMA InitKeeps == Init => IInv
<1> SUFFICES ASSUME Init PROVE IInv
  OBVIOUS
<1>1. ChainOK(chain, branch)
  <2>1. chain = <<0>> /\ branch = 0 /\ 0 \in Branch /\ MaxHeight \in Nat
    BY ChainViewAssumption DEF Init, Branch
  <2>2. chain \in Seq(Branch) /\ Len(chain) = 1 /\ chain[1] = 0
    BY <2>1
  <2> QED
    BY <2>1, <2>2 DEF ChainOK
<1>2. RecentOK(recent, chain, branch)
  BY DEF Init, RecentOK, IsWindow, Complete, BlocksOK, Ordered, MaybeHeight
<1>3. PeriodOK(period)
  BY DEF Init, PeriodOK, MaybeHeight, MaybeBlock
<1>4. request \in [Requests -> RequestState] /\ \A r \in Requests : RequestOK(request[r], chain, branch)
  BY NoRequestOK DEF Init
<1>5. ready \in BOOLEAN /\ outages \in 0..MaxOutages /\ peak \in 0..MaxHeight + 1
  BY ChainViewAssumption DEF Init
<1> QED
  BY <1>1, <1>2, <1>3, <1>4, <1>5 DEF IInv

LEMMA NextKeeps == IInv /\ [Next]_vars => IInv'
<1> SUFFICES ASSUME IInv, [Next]_vars PROVE IInv'
  OBVIOUS
<1>1. CASE Environment
  BY <1>1, EnvironmentKeeps
<1>2. ASSUME NEW r \in Requests, Step(r) PROVE IInv'
  BY <1>2, StatusKeeps, FindStartKeeps, FetchStartKeeps, StoreStartKeeps, ReadRecentKeeps,
     BeginKeeps, FetchKeeps, StoreKeeps DEF Step
<1>3. CASE UNCHANGED vars
  BY <1>3 DEF IInv, vars, coreVars
<1> QED
  BY <1>1, <1>2, <1>3 DEF Next

LEMMA Holds == Spec => []IInv
<1> QED
  BY InitKeeps, NextKeeps, PTL DEF Spec

\* Every variable keeps its type.
THEOREM ChainTypes == Spec => []TypeOK
<1>1. IInv => TypeOK
  BY DEF IInv, TypeOK, ChainOK, RecentOK, PeriodOK
<1> QED
  BY Holds, <1>1, PTL

\* Whatever requests overtake one another, the cached blocks are a gapless
\* stretch of at most Limit heights, and one that is taken for complete ends
\* with the block of its height (recent_blocks_response).
THEOREM CacheStaysWindow == Spec => []CacheIsWindow
<1>1. IInv => CacheIsWindow
  BY DEF IInv, RecentOK, Complete, CacheIsWindow
<1> QED
  BY Holds, <1>1, PTL

\* A block fetched later is never put below one of an older branch
\* (fetch_recent_blocks).
THEOREM ListFollowsChain == Spec => []NewerAboveOlder
<1>1. IInv => NewerAboveOlder
  BY DEF IInv, RecentOK, BlocksOK, Ordered, NewerAboveOlder
<1> QED
  BY Holds, <1>1, PTL

\* A projection starts from the first block of the period of its own height
\* and counts down to the end of that period
\* (cached_difficulty_period_start_time, calculate_difficulty_adjustment).
THEOREM ProjectsItsPeriod == Spec => []ProjectionIsOfItsPeriod
<1>1. ASSUME IInv, NEW r \in Requests
      PROVE  /\ request[r].height # None => CountsDown(request[r].height)
             /\ request[r].start # None => request[r].start.height = PeriodStartHeight(request[r].height)
  <2>1. request[r].height # None => request[r].height \in Nat
    BY <1>1, ChainViewAssumption DEF IInv, RequestState, MaybeHeight, Height
  <2> QED
    BY <1>1, <2>1, Countdown DEF IInv, RequestOK
<1>2. IInv => ProjectionIsOfItsPeriod
  BY <1>1 DEF ProjectionIsOfItsPeriod
<1> QED
  BY Holds, <1>2, PTL

=============================================================================
