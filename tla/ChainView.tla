------------------------------ MODULE ChainView ------------------------------
(***************************************************************************)
(* What the dashboard tells of the chain (fetch_bitcoin_core_status and    *)
(* recent_blocks_response of ui.rs): requests for /api/status, each with   *)
(* its own calls to Bitcoin Core (bitcoin_core_rpc.rs), over two caches    *)
(* that they share, the recent blocks and the block that started the       *)
(* current difficulty period.                                              *)
(*                                                                         *)
(* The browser asks every ten seconds whether or not the last answer has   *)
(* come, and there may be several browsers: requests run side by side and  *)
(* interleave at every call and every lock.  A call to Core reads the      *)
(* chain as it is at that moment; Core mines, reorganises its chain, is    *)
(* stopped and started.  A call that meets a Core that is not ready fails, *)
(* as one does that takes longer than its time limit.                      *)
(*                                                                         *)
(* A block is its height and the branch it was mined on: reorganisations   *)
(* so far.  The block's time and what is shown of its coinbase are         *)
(* functions of it; hash rate, difficulty, warnings, sync progress and the *)
(* estimates in seconds and percent are left out, for nothing is kept of   *)
(* them.  A list of blocks is sorted by height whenever it is stored, so   *)
(* that it is a set here.                                                  *)
(***************************************************************************)
EXTENDS Integers, Sequences

CONSTANTS
  Requests,    \* requests for /api/status
  Limit,       \* RECENT_BLOCK_LIMIT
  Interval,    \* DIFFICULTY_ADJUSTMENT_INTERVAL_BLOCKS
  None,        \* Option::None
  MaxHeight,   \* bound: height of the chain
  MaxBranch,   \* bound: reorganisations
  MaxOutages   \* bound: times that Core goes away

Height == 0..MaxHeight
Branch == 0..MaxBranch
Block == [height : Height, branch : Branch]

ASSUME ChainViewAssumption ==
  /\ {Limit, Interval} \subseteq Nat \ {0}
  /\ {MaxHeight, MaxBranch, MaxOutages} \subseteq Nat
  /\ None \notin Nat /\ None \notin Block

VARIABLES
  chain,     \* Core's active chain: the branch of each height, from genesis
  branch,    \* reorganisations so far
  ready,     \* whether Core answers calls
  outages,   \* times that Core went away
  recent,    \* RecentBlocksCache
  period,    \* DifficultyPeriodStartCache
  request,   \* where each request is, and its local variables
  peak       \* history: length of the longest chain that was reorganised

coreVars == <<chain, branch, ready, outages, peak>>
vars == <<coreVars, recent, period, request>>

Tip == Len(chain) - 1
BlockAt(h) == [height |-> h, branch |-> chain[h + 1]]

-----------------------------------------------------------------------------
(* Bitcoin Core and the calls to it.                                       *)

\* What a call may find: the cookie file, which Core writes when it starts
\* and removes when it stops; an answer within the time limit; the members
\* of the response.  A Core that is starting answers with an error.
Answer(error, result) == [cookie |-> TRUE, answered |-> TRUE, error |-> error, result |-> result]
NoAnswer(cookie) == [cookie |-> cookie, answered |-> FALSE, error |-> FALSE, result |-> "absent"]

Replies ==
  IF ready THEN {Answer(FALSE, "value")}
  ELSE {NoAnswer(FALSE), NoAnswer(TRUE), Answer(TRUE, "null"), Answer(FALSE, "absent")}

\* decode_rpc_response: an error member that is not null comes first.
DecodeRpcResponse(reply) ==
  CASE reply.error -> "Rpc"
    [] ~reply.error /\ reply.result = "absent" -> "MissingResult"
    [] ~reply.error /\ reply.result = "null" -> "UnexpectedResult"
    [] OTHER -> "ok"

\* call_at_url, which reads the cookie for every call
CallAtUrl(reply) ==
  CASE ~reply.cookie -> "ReadCookie"
    [] reply.cookie /\ ~reply.answered -> "Request"
    [] OTHER -> DecodeRpcResponse(reply)

CallSucceeds == \A reply \in Replies : CallAtUrl(reply) = "ok"

Mine ==
  /\ Tip < MaxHeight
  /\ chain' = Append(chain, branch)
  /\ UNCHANGED <<branch, ready, outages, peak, recent, period, request>>

\* The new chain is longer as a rule; invalidateblock may leave a shorter one.
Reorg ==
  /\ branch < MaxBranch
  /\ branch' = branch + 1
  /\ \E kept \in 1..Tip, len \in 1..MaxHeight + 1 :
       /\ kept < len
       /\ chain' = [i \in 1..len |-> IF i <= kept THEN chain[i] ELSE branch']
  /\ peak' = IF Len(chain) > peak THEN Len(chain) ELSE peak
  /\ UNCHANGED <<ready, outages, recent, period, request>>

CoreGoes ==
  /\ ready /\ outages < MaxOutages
  /\ ready' = FALSE /\ outages' = outages + 1
  /\ UNCHANGED <<chain, branch, peak, recent, period, request>>

CoreComes ==
  /\ ~ready /\ ready' = TRUE
  /\ UNCHANGED <<chain, branch, outages, peak, recent, period, request>>

-----------------------------------------------------------------------------
(* A request asks for the height of the chain, finds the start of the      *)
(* difficulty period, then the recent blocks.                              *)

NextDifficultyAdjustmentHeight(h) == ((h + 1 + Interval - 1) \div Interval) * Interval
PeriodStartHeight(h) == (h \div Interval) * Interval

\* calculate_difficulty_adjustment
BlocksRemaining(h) == NextDifficultyAdjustmentHeight(h) - h
BlocksMinedInPeriod(h) == (h % Interval) + 1

\* Mutant: no care is taken of a chain that is shorter than the list.
FirstRecentBlockHeightPlain(h) == h + 1 - Limit

\* first_recent_block_height
FirstRecentBlockHeight(h) == IF h + 1 < Limit THEN 0 ELSE h + 1 - Limit

NoRequest ==
  [pc |-> "done", height |-> None, start |-> None, next |-> 0, blocks |-> {}]

Init ==
  /\ chain = <<0>> /\ branch = 0
  /\ ready = TRUE /\ outages = 0 /\ peak = 0
  /\ recent = [height |-> None, blocks |-> {}]
  /\ period = [height |-> None, start |-> None]
  /\ request = [r \in Requests |-> NoRequest]

Move(r, new) == request' = [request EXCEPT ![r] = new]

\* getblockchaininfo: without an answer nothing else is asked of Core.
FetchBitcoinCoreStatus(r) ==
  /\ request[r].pc = "done"
  /\ Move(r, IF CallSucceeds THEN [NoRequest EXCEPT !.pc = "period", !.height = Tip]
             ELSE [NoRequest EXCEPT !.pc = "recent"])
  /\ UNCHANGED <<coreVars, recent, period>>

\* Mutant: whatever period is cached is taken.
CachedDifficultyPeriodStartAny(h) == period.start

CachedDifficultyPeriodStart(h) == IF period.height = h THEN period.start ELSE None

\* The read lock is not held while the block is fetched ...
FindPeriodStart(r) ==
  LET q == request[r]
      cached == CachedDifficultyPeriodStart(PeriodStartHeight(q.height))
  IN
  /\ q.pc = "period"
  /\ Move(r, IF cached # None THEN [q EXCEPT !.pc = "recent", !.start = cached]
             ELSE [q EXCEPT !.pc = "fetchStart"])
  /\ UNCHANGED <<coreVars, recent, period>>

FetchPeriodStart(r) ==
  LET q == request[r]
      h == PeriodStartHeight(q.height)
  IN
  /\ q.pc = "fetchStart"
  /\ Move(r, IF CallSucceeds /\ h <= Tip THEN [q EXCEPT !.pc = "storeStart", !.start = BlockAt(h)]
             ELSE [q EXCEPT !.pc = "recent"])
  /\ UNCHANGED <<coreVars, recent, period>>

\* ... and the block is stored under the height that was asked for.
StorePeriodStart(r) ==
  LET q == request[r] IN
  /\ q.pc = "storeStart"
  /\ period' = [height |-> PeriodStartHeight(q.height), start |-> q.start]
  /\ Move(r, [q EXCEPT !.pc = "recent"])
  /\ UNCHANGED <<coreVars, recent>>

\* The estimates have been made.  The cache as it is does for the height it
\* was filled for, and when there is no height.
ReadRecentBlocks(r) ==
  LET q == request[r] IN
  /\ q.pc = "recent"
  /\ Move(r, IF recent.height = q.height \/ q.height = None THEN NoRequest
             ELSE [NoRequest EXCEPT !.pc = "begin", !.height = q.height])
  /\ UNCHANGED <<coreVars, recent, period>>

\* Mutant: all blocks are fetched and those kept are not dropped.
BeginFetchFromFirst(r) ==
  LET q     == request[r]
      first == FirstRecentBlockHeight(q.height)
  IN
  /\ q.pc = "begin"
  /\ Move(r, [q EXCEPT !.pc = "fetch", !.next = first,
                 !.blocks = {b \in recent.blocks : b.height \in first..q.height}])
  /\ UNCHANGED <<coreVars, recent, period>>

\* The lock was let go: the cache is read again, for the blocks to keep.
BeginFetch(r) ==
  LET q     == request[r]
      first == FirstRecentBlockHeight(q.height)
      kept  == {b \in recent.blocks : b.height \in first..q.height}
  IN
  /\ q.pc = "begin"
  /\ \E next \in first..q.height + 1 :
       /\ kept = {} => next = first
       /\ kept # {} => \E last \in kept : next = last.height + 1
       /\ \A b \in kept : b.height < next
       /\ Move(r, [q EXCEPT !.pc = "fetch", !.next = next, !.blocks = kept])
  /\ UNCHANGED <<coreVars, recent, period>>

\* Mutant: a block that cannot be had is skipped.
FetchRecentBlockOrSkip(r) ==
  LET q == request[r] IN
  /\ q.pc = "fetch" /\ q.next <= q.height
  /\ Move(r, IF CallSucceeds /\ q.next <= Tip
             THEN [q EXCEPT !.next = @ + 1, !.blocks = @ \cup {BlockAt(q.next)}]
             ELSE [q EXCEPT !.next = @ + 1])
  /\ UNCHANGED <<coreVars, recent, period>>

\* Block by block upwards, to the first that cannot be had.
FetchRecentBlock(r) ==
  LET q == request[r] IN
  /\ q.pc = "fetch" /\ q.next <= q.height
  /\ Move(r, IF CallSucceeds /\ q.next <= Tip
             THEN [q EXCEPT !.next = @ + 1, !.blocks = @ \cup {BlockAt(q.next)}]
             ELSE [q EXCEPT !.pc = "store"])
  /\ UNCHANGED <<coreVars, recent, period>>

RecentBlocksComplete(h, blocks) == \E b \in blocks : b.height = h

\* Mutant: any list counts as complete.
StoredAsComplete(q) ==
  IF q.blocks = {} THEN recent ELSE [height |-> q.height, blocks |-> q.blocks]

\* A list without the tip is kept, but not for its height.
Stored(q) ==
  IF q.blocks = {} THEN recent
  ELSE [height |-> IF RecentBlocksComplete(q.height, q.blocks) THEN q.height ELSE None,
        blocks |-> q.blocks]

StoreRecentBlocks(r) ==
  LET q == request[r] IN
  /\ q.pc = "store" \/ (q.pc = "fetch" /\ q.next > q.height)
  /\ recent' = Stored(q)
  /\ Move(r, NoRequest)
  /\ UNCHANGED <<coreVars, period>>

Step(r) ==
  \/ FetchBitcoinCoreStatus(r)
  \/ FindPeriodStart(r) \/ FetchPeriodStart(r) \/ StorePeriodStart(r)
  \/ ReadRecentBlocks(r) \/ BeginFetch(r) \/ FetchRecentBlock(r) \/ StoreRecentBlocks(r)

Environment == Mine \/ Reorg \/ CoreGoes \/ CoreComes

Next == Environment \/ \E r \in Requests : Step(r)

Spec == Init /\ [][Next]_vars

\* Every call has a time limit, the browser keeps asking, and whoever
\* stopped Core starts it again.
FairSpec == Spec /\ WF_vars(CoreComes) /\ \A r \in Requests : WF_vars(Step(r))

-----------------------------------------------------------------------------
(* What can be relied on.                                                  *)

MaybeHeight == Height \cup {None}
MaybeBlock == Block \cup {None}

RequestState ==
  [pc : {"done", "period", "fetchStart", "storeStart", "recent", "begin", "fetch", "store"},
   height : MaybeHeight, start : MaybeBlock, next : 0..MaxHeight + 1, blocks : SUBSET Block]

\* Types and bounds.
TypeOK ==
  /\ chain \in Seq(Branch) /\ Len(chain) \in 1..MaxHeight + 1
  /\ branch \in Branch
  /\ ready \in BOOLEAN
  /\ outages \in 0..MaxOutages
  /\ peak \in 0..MaxHeight + 1
  /\ recent \in [height : MaybeHeight, blocks : SUBSET Block]
  /\ period \in [height : MaybeHeight, start : MaybeBlock]
  /\ request \in [Requests -> RequestState]

\* One block of each height, no height left out, no more than Limit.
IsWindow(blocks) ==
  /\ \A b, c \in blocks : b.height = c.height => b = c
  /\ \A b, c \in blocks : b.height < c.height + Limit
  /\ \A b, c \in blocks : \A h \in b.height..c.height : \E d \in blocks : d.height = h

\* However requests of different heights overwrite one another's results,
\* the cached blocks are a gapless stretch of at most Limit heights, and one
\* that is taken for complete ends with the block of its height ("recent
\* block cache requires current tip before marking complete").
CacheIsWindow ==
  /\ IsWindow(recent.blocks)
  /\ recent.height # None =>
       /\ \E b \in recent.blocks : b.height = recent.height
       /\ \A b \in recent.blocks : b.height <= recent.height

\* A list may hold blocks that a reorganisation has replaced, but only
\* below those fetched after it: it never goes back to an older branch.
NewerAboveOlder ==
  \A b, c \in recent.blocks : b.height <= c.height => b.branch <= c.branch

\* The next adjustment is the least multiple of Interval above the height:
\* the countdown runs from Interval, at the adjustment itself, to 1.
CountsDown(h) ==
  /\ NextDifficultyAdjustmentHeight(h) = PeriodStartHeight(h) + Interval
  /\ BlocksRemaining(h) \in 1..Interval
  /\ BlocksRemaining(h) + BlocksMinedInPeriod(h) = Interval + 1

\* The projection is based on the block that started the period of the
\* height that the answer names, whichever period other requests have put
\* in the cache meanwhile, and looks ahead to the end of that period.
ProjectionIsOfItsPeriod ==
  \A r \in Requests :
    /\ request[r].height # None => CountsDown(request[r].height)
    /\ request[r].start # None => request[r].start.height = PeriodStartHeight(request[r].height)

\* When the chain and Core stay as they are, the cache ends up with the block
\* at the tip for good: no request that was overtaken brings an older list or
\* a replaced tip back, and no list that an outage cut short is left as it is.
\* The cache is compared by height alone: where a reorganisation has left a
\* chain no longer than the one it replaced (invalidateblock), the block that
\* is shown as the tip may be the replaced one, until the chain outgrows both.
TipIsShown ==
  <>[](/\ recent.height = Tip
       /\ \E b \in recent.blocks : b.height = Tip
       /\ BlockAt(Tip) \in recent.blocks \/ Len(chain) <= peak)
=============================================================================
