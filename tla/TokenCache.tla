----------------------------- MODULE TokenCache -----------------------------
(***************************************************************************)
(* One token row and its copies: the hot copy in the memory of every node, *)
(* the hash in Redis that goroutines fill, change and delete later, and    *)
(* the quota deltas the batch updater collects. Requests load the token,   *)
(* charge it and return the charge, for ever; a user deletes it, alone or  *)
(* in a batch.                                                             *)
(*                                                                         *)
(* A step is one access to the database, to Redis or to a locked map. The  *)
(* copies are kept without their quota: the properties ask who still has   *)
(* a copy, and whether every delta reaches the row.                        *)
(***************************************************************************)
EXTENDS Integers, FiniteSets, FiniteSetsExt

CONSTANTS
  Nodes,       \* processes with a hot cache and a batch updater
  Requests,    \* request handlers
  Scenarios,   \* [at, batch, redis, user, how, keep, trouble]: the node of each
               \* request that runs, whether updates are batched, how many
               \* goroutines may have work for Redis (0 when it is disabled),
               \* the node that deletes the token and by which function, if at
               \* all, how many charges are not returned, and what may go wrong
  StartQuota   \* remain_quota of the row

ASSUME CacheAssumption ==
  /\ \A c \in Scenarios : /\ DOMAIN c.at \subseteq Requests
                          /\ \A r \in DOMAIN c.at : c.at[r] \in Nodes
                          /\ c.batch \in BOOLEAN /\ c.redis \in Nat
                          /\ c.user \in Nodes
                          /\ c.how \in {"Delete", "BatchDelete", "Never"}
                          /\ c.keep \in Nat
                          /\ c.trouble \subseteq {"failed", "crash"}
  /\ IsFiniteSet(Nodes) /\ IsFiniteSet(Requests)
  /\ "nobody" \notin Requests  \* no request has the name of Nobody
  /\ StartQuota \in Int

VARIABLES
  cfg,      \* the scenario
  row,      \* the row: there or deleted, and its remain_quota
  hot,      \* tokenHotCache of each node
  redis,    \* the hash in Redis
  async,    \* goroutines with work for Redis, counted by what they do next
  batch,    \* batchUpdateStores of each node: an entry for the token, its delta
  flush,    \* the entry the batch updater of a node took out and applies
  rq,       \* each request: where it is, its copy, the delta it applies
  user,     \* where the deletion is
  flight,   \* the request that loads the token for its node (singleflight)
  kept,     \* how many charges were not returned
  booked,   \* history: StartQuota and all deltas that were not lost
  broken,   \* history: an update failed or a process crashed
  late      \* history: where a copy was written after the deletion

vars == <<cfg, row, hot, redis, async, batch, flush, rq, user, flight, kept,
          booked, broken, late>>

Copies == [kind : {"none", "token", "fragment"}, fresh : BOOLEAN]
None == [kind |-> "none", fresh |-> FALSE]
NewCopy(kind) == [kind |-> kind, fresh |-> TRUE]
Nobody == "nobody"
Empty == [has |-> FALSE, delta |-> 0, at |-> "idle"]
AtRest == [pc |-> "idle", got |-> "none", delta |-> 0]
Works == {"set", "setfragment", "ttl", "incr", "del"}

(* The token has just been created: Insert leaves a hot copy on its node. *)
Init ==
  /\ cfg \in Scenarios
  /\ row = [live |-> TRUE, quota |-> StartQuota]
  /\ \E home \in Nodes :
       hot = [n \in Nodes |-> IF n = home THEN NewCopy("token") ELSE None]
  /\ redis = None
  /\ async = [k \in Works |-> 0]
  /\ batch = [n \in Nodes |-> Empty]
  /\ flush = [n \in Nodes |-> Empty]
  /\ rq = [r \in Requests |-> AtRest]
  /\ user = "using"
  /\ flight = [n \in Nodes |-> Nobody]
  /\ kept = 0
  /\ booked = StartQuota
  /\ broken = FALSE
  /\ late = {}

Node(r) == cfg.at[r]
Goto(r, place) == rq' = [rq EXCEPT ![r].pc = place]

(* gopool.Go with work for Redis, when Redis is enabled; the bound holds the *)
(* requests back, never the deletion.                                        *)
RedisEnabled == cfg.redis > 0

Busy == async["set"] + async["setfragment"] + async["ttl"] + async["incr"]

Spawn(work, count) ==
  IF RedisEnabled
  THEN Busy + count <= cfg.redis /\ async' = [async EXCEPT ![work] = @ + count]
  ELSE UNCHANGED async

(* The account of the deltas ends with the row. *)
Book(delta) == booked' = IF row.live THEN booked + delta ELSE booked

(* A copy is written to the place after the token was deleted. *)
Wrote(place) == late' = IF row.live THEN late ELSE late \cup {place}
-----------------------------------------------------------------------------
(* GetTokenByKey. *)

(* The request has its token and goes on to charge it, or is refused: a      *)
(* fragment is no valid token. The quota and the expiry inside a copy are    *)
(* not kept: without Redis, ValidateUserToken marks a copy that turns out    *)
(* expired or exhausted once, by SelectUpdate, which renews the hot copy.    *)
Loaded(kind) ==
  IF kind = "token" THEN [pc |-> "touch", got |-> "none", delta |-> -1] ELSE AtRest

(* getTokenHotCache *)
GetHot(r) ==
  LET copy == hot[Node(r)]
  IN  /\ r \in DOMAIN cfg.at
      /\ rq[r].pc = "idle"
      /\ rq' = [rq EXCEPT ![r] =
                  IF copy # None THEN Loaded(copy.kind)
                  ELSE [@ EXCEPT !.pc = IF RedisEnabled THEN "redis" ELSE "flight"]]
      /\ UNCHANGED <<cfg, row, hot, redis, async, batch, flush, user, flight, kept,
                     booked, broken, late>>

GetRedis(r) ==
  /\ rq[r].pc = "redis"
  /\ rq' = IF redis = None THEN [rq EXCEPT ![r].pc = "flight"]
           ELSE [rq EXCEPT ![r].pc = "sethot", ![r].got = redis.kind]
  /\ UNCHANGED <<cfg, row, hot, redis, async, batch, flush, user, flight, kept,
                 booked, broken, late>>

SetHotFromRedis(r) ==
  /\ rq[r].pc = "sethot"
  /\ hot' = [hot EXCEPT ![Node(r)] = NewCopy(rq[r].got)]
  /\ Wrote("hot")
  /\ rq' = [rq EXCEPT ![r] = Loaded(rq[r].got)]
  /\ UNCHANGED <<cfg, row, redis, async, batch, flush, user, flight, kept, booked,
                 broken>>

(* singleflight: the first request of a node looks at the hot copy again and *)
(* reads the row; the others wait for its answer. Any answer that is not an  *)
(* error is written to Redis, the one from the hot copy too.                 *)
JoinFlight(r) ==
  /\ rq[r].pc = "flight"
  /\ flight[Node(r)] # Nobody
  /\ Goto(r, "join")
  /\ UNCHANGED <<cfg, row, hot, redis, async, batch, flush, user, flight, kept,
                 booked, broken, late>>

LeadFlight(r) ==
  LET copy == hot[Node(r)]
  IN  /\ rq[r].pc = "flight"
      /\ flight[Node(r)] = Nobody
      /\ IF copy # None
         THEN /\ Spawn(IF copy.kind = "token" THEN "set" ELSE "setfragment", 1)
              /\ rq' = [rq EXCEPT ![r] = Loaded(copy.kind)]
              /\ UNCHANGED flight
         ELSE /\ flight' = [flight EXCEPT ![Node(r)] = r]
              /\ rq' = [rq EXCEPT ![r].pc = IF row.live THEN "answer" ELSE "missing"]
              /\ UNCHANGED async
      /\ UNCHANGED <<cfg, row, hot, redis, batch, flush, user, kept, booked, broken,
                     late>>

Sharing(r) == {r} \cup {q \in Requests : rq[q].pc = "join" /\ q \in DOMAIN cfg.at /\ Node(q) = Node(r)}

SetHotFromRow(r) ==
  /\ rq[r].pc = "answer"
  /\ hot' = [hot EXCEPT ![Node(r)] = NewCopy("token")]
  /\ Wrote("hot")
  /\ Spawn("set", Cardinality(Sharing(r)))
  /\ rq' = [q \in Requests |-> IF q \in Sharing(r) THEN Loaded("token") ELSE rq[q]]
  /\ flight' = [flight EXCEPT ![Node(r)] = Nobody]
  /\ UNCHANGED <<cfg, row, redis, batch, flush, user, kept, booked, broken>>

(* mutant: the error reaches only the request that read the row *)
NotFoundAlone(r) ==
  /\ rq[r].pc = "missing"
  /\ rq' = [rq EXCEPT ![r] = AtRest]
  /\ flight' = [flight EXCEPT ![Node(r)] = Nobody]
  /\ UNCHANGED <<cfg, row, hot, redis, async, batch, flush, user, kept, booked,
                 broken, late>>

NotFound(r) ==
  /\ rq[r].pc = "missing"
  /\ rq' = [q \in Requests |-> IF q \in Sharing(r) THEN AtRest ELSE rq[q]]
  /\ flight' = [flight EXCEPT ![Node(r)] = Nobody]
  /\ UNCHANGED <<cfg, row, hot, redis, async, batch, flush, user, kept, booked,
                 broken, late>>
-----------------------------------------------------------------------------
(* DecreaseTokenQuota, then IncreaseTokenQuota when the charge is returned.  *)

(* updateTokenHotCacheQuota renews the time to live of the copy. *)
Touch(r) ==
  /\ rq[r].pc = "touch"
  /\ hot' = [hot EXCEPT ![Node(r)] = IF @ = None THEN None ELSE [@ EXCEPT !.fresh = TRUE]]
  /\ Spawn("ttl", 1)
  /\ Goto(r, IF cfg.batch THEN "collect" ELSE "update")
  /\ UNCHANGED <<cfg, row, redis, batch, flush, user, flight, kept, booked, broken,
                 late>>

(* What follows an applied delta: a charge is returned or kept. *)
AfterDelta(r) ==
  IF rq[r].delta > 0
  THEN rq' = [rq EXCEPT ![r] = AtRest] /\ UNCHANGED kept
  ELSE \/ rq' = [rq EXCEPT ![r].pc = "touch", ![r].delta = 1] /\ UNCHANGED kept
       \/ kept < cfg.keep /\ kept' = kept + 1 /\ rq' = [rq EXCEPT ![r] = AtRest]

(* addNewRecord *)
AddNewRecord(entry, delta) == [entry EXCEPT !.has = TRUE, !.delta = @ + delta]

Collect(r) ==
  /\ rq[r].pc = "collect"
  /\ batch' = [batch EXCEPT ![Node(r)] = AddNewRecord(@, rq[r].delta)]
  /\ Book(rq[r].delta)
  /\ AfterDelta(r)
  /\ UNCHANGED <<cfg, row, hot, redis, async, flush, user, flight, broken, late>>

(* The row after an update: a deleted one is not found. *)
RowPlus(delta) == IF row.live THEN [row EXCEPT !.quota = @ + delta] ELSE row

Update(r) ==
  /\ rq[r].pc = "update"
  /\ row' = RowPlus(rq[r].delta)
  /\ Book(rq[r].delta)
  /\ Goto(r, "drop")
  /\ UNCHANGED <<cfg, hot, redis, async, batch, flush, user, flight, kept, broken,
                 late>>

(* The caller of an update that fails is told so. *)
UpdateFails(r) ==
  /\ rq[r].pc = "update"
  /\ "failed" \in cfg.trouble /\ ~broken
  /\ broken' = TRUE
  /\ rq' = [rq EXCEPT ![r] = AtRest]
  /\ UNCHANGED <<cfg, row, hot, redis, async, batch, flush, user, flight, kept,
                 booked, late>>

(* mutant: the copy stays, its quota was adjusted already *)
HotAsItIs(n) == hot

(* deleteTokenHotCacheByID; a fragment has no id. *)
HotWithoutId(n) ==
  [hot EXCEPT ![n] = IF @.kind = "token" THEN None ELSE @]

DropHot(n) == hot' = HotWithoutId(n)

DropAfterUpdate(r) ==
  /\ rq[r].pc = "drop"
  /\ DropHot(Node(r))
  /\ AfterDelta(r)
  /\ UNCHANGED <<cfg, row, redis, async, batch, flush, user, flight, booked, broken,
                 late>>
-----------------------------------------------------------------------------
(* batchUpdate *)

(* mutant: the map is emptied only after the update *)
TakeBatchLater(n) ==
  /\ flush[n].at = "idle"
  /\ batch[n].has
  /\ flush' = [flush EXCEPT ![n] = [batch[n] EXCEPT !.at = "apply"]]
  /\ UNCHANGED <<cfg, row, hot, redis, async, batch, rq, user, flight, kept, booked,
                 broken, late>>

TakeBatch(n) ==
  /\ flush[n].at = "idle"
  /\ batch[n].has
  /\ flush' = [flush EXCEPT ![n] = [batch[n] EXCEPT !.at = "apply"]]
  /\ batch' = [batch EXCEPT ![n] = Empty]
  /\ UNCHANGED <<cfg, row, hot, redis, async, rq, user, flight, kept, booked, broken,
                 late>>

ApplyBatch(n) ==
  /\ flush[n].at = "apply"
  /\ row' = RowPlus(flush[n].delta)
  /\ flush' = [flush EXCEPT ![n] = [Empty EXCEPT !.at = "drop"]]
  /\ UNCHANGED <<cfg, hot, redis, async, batch, rq, user, flight, kept, booked,
                 broken, late>>

DropAfterBatch(n) ==
  /\ flush[n].at = "drop"
  /\ DropHot(n)
  /\ flush' = [flush EXCEPT ![n] = Empty]
  /\ UNCHANGED <<cfg, row, redis, async, batch, rq, user, flight, kept, booked,
                 broken, late>>

(* The update fails: the error is logged and the delta is gone. *)
ApplyFails(n) ==
  /\ flush[n].at = "apply"
  /\ "failed" \in cfg.trouble /\ ~broken
  /\ broken' = TRUE
  /\ Book(-flush[n].delta)
  /\ flush' = [flush EXCEPT ![n] = Empty]
  /\ UNCHANGED <<cfg, row, hot, redis, async, batch, rq, user, flight, kept, late>>

(* A process stops: its copies, deltas, requests and goroutines are gone,    *)
(* the one that deletes from Redis with the deleting process only.           *)
Crash(n) ==
  /\ "crash" \in cfg.trouble /\ ~broken
  /\ broken' = TRUE
  /\ hot' = [hot EXCEPT ![n] = None]
  /\ Book(-(batch[n].delta + flush[n].delta))
  /\ batch' = [batch EXCEPT ![n] = Empty]
  /\ flush' = [flush EXCEPT ![n] = Empty]
  /\ rq' = [r \in Requests |-> IF r \in DOMAIN cfg.at /\ Node(r) = n THEN AtRest ELSE rq[r]]
  /\ flight' = [flight EXCEPT ![n] = Nobody]
  /\ \E left \in [Works -> 0..cfg.redis + 1] :
       /\ \A k \in Works : left[k] <= async[k]
       /\ left["del"] = IF n = cfg.user THEN 0 ELSE async["del"]
       /\ async' = left
       /\ user' = IF n = cfg.user /\ (user = "deleted" \/ async["del"] > 0) THEN "gone"
                  ELSE user
  /\ UNCHANGED <<cfg, row, redis, kept, late>>
-----------------------------------------------------------------------------
(* Token.Delete and BatchDeleteTokens. *)

DeleteRow ==
  /\ user = "using" /\ cfg.how # "Never"
  /\ row' = [row EXCEPT !.live = FALSE]
  /\ user' = "deleted"
  /\ UNCHANGED <<cfg, hot, redis, async, batch, flush, rq, flight, kept, booked,
                 broken, late>>

(* mutant: as BatchDeleteTokens does *)
HotAfterBatchDelete == hot

(* deleteTokenHotCache removes the hot copy of the deleting node; a batch    *)
(* leaves it.                                                                *)
HotAfterDelete ==
  IF cfg.how = "Delete" THEN [hot EXCEPT ![cfg.user] = None] ELSE hot

DeleteCopies ==
  /\ user = "deleted"
  /\ hot' = HotAfterDelete
  /\ async' = IF RedisEnabled THEN [async EXCEPT !["del"] = @ + 1] ELSE async
  /\ user' = "done"
  /\ UNCHANGED <<cfg, row, redis, batch, flush, rq, flight, kept, booked, broken,
                 late>>
-----------------------------------------------------------------------------
(* The goroutines' accesses to Redis, in any order. *)

CacheSetToken(work) ==
  /\ async[work] > 0
  /\ redis' = NewCopy(IF work = "set" THEN "token" ELSE "fragment")
  /\ Wrote("redis")
  /\ async' = [async EXCEPT ![work] = @ - 1]
  /\ UNCHANGED <<cfg, row, hot, batch, flush, rq, user, flight, kept, booked, broken>>

(* RedisHIncrBy: without a time to live nothing is done. *)
ReadTTL ==
  /\ async["ttl"] > 0
  /\ async' = IF redis = None THEN [async EXCEPT !["ttl"] = @ - 1]
              ELSE [async EXCEPT !["ttl"] = @ - 1, !["incr"] = @ + 1]
  /\ UNCHANGED <<cfg, row, hot, redis, batch, flush, rq, user, flight, kept, booked,
                 broken, late>>

(* The increment gives the hash the time to live it had, rounded to a second *)
(* (so it may not age), and makes a fragment of a hash that is gone by now.  *)
HIncrBy ==
  /\ async["incr"] > 0
  /\ redis' = IF redis = None THEN NewCopy("fragment") ELSE [redis EXCEPT !.fresh = TRUE]
  /\ IF redis = None THEN Wrote("redis") ELSE UNCHANGED late
  /\ async' = [async EXCEPT !["incr"] = @ - 1]
  /\ UNCHANGED <<cfg, row, hot, batch, flush, rq, user, flight, kept, booked, broken>>

CacheDeleteToken ==
  /\ async["del"] > 0
  /\ redis' = None
  /\ async' = [async EXCEPT !["del"] = @ - 1]
  /\ UNCHANGED <<cfg, row, hot, batch, flush, rq, user, flight, kept, booked, broken,
                 late>>
-----------------------------------------------------------------------------
(* Time: a copy that is not renewed gets old, then expires. *)

Older(copy) == IF copy.fresh THEN [copy EXCEPT !.fresh = FALSE] ELSE None

AgeHot(n) ==
  /\ hot[n] # None
  /\ hot' = [hot EXCEPT ![n] = Older(@)]
  /\ UNCHANGED <<cfg, row, redis, async, batch, flush, rq, user, flight, kept, booked,
                 broken, late>>

AgeRedis ==
  /\ redis # None
  /\ redis' = Older(redis)
  /\ UNCHANGED <<cfg, row, hot, async, batch, flush, rq, user, flight, kept, booked,
                 broken, late>>
-----------------------------------------------------------------------------
Continue(r) ==
  \/ GetRedis(r) \/ SetHotFromRedis(r) \/ JoinFlight(r) \/ LeadFlight(r)
  \/ SetHotFromRow(r) \/ NotFound(r)
  \/ Touch(r) \/ Collect(r) \/ Update(r) \/ DropAfterUpdate(r)

BatchUpdate(n) == TakeBatch(n) \/ ApplyBatch(n) \/ DropAfterBatch(n)

Goroutine == CacheSetToken("set") \/ CacheSetToken("setfragment") \/ ReadTTL \/ HIncrBy \/ CacheDeleteToken

Next ==
  \/ \E r \in Requests : GetHot(r) \/ Continue(r) \/ UpdateFails(r)
  \/ \E n \in Nodes : BatchUpdate(n) \/ ApplyFails(n) \/ Crash(n) \/ AgeHot(n)
  \/ DeleteRow \/ DeleteCopies
  \/ Goroutine \/ AgeRedis

Spec == Init /\ [][Next]_vars

(* Requests go on once begun, goroutines and batch updaters run, time passes. *)
(* Nobody must send requests, or delete the token.                            *)
Fairness ==
  /\ \A r \in Requests : WF_vars(Continue(r))
  /\ \A n \in Nodes : WF_vars(BatchUpdate(n)) /\ WF_vars(AgeHot(n))
  /\ WF_vars(DeleteCopies)
  /\ WF_vars(CacheSetToken("set")) /\ WF_vars(CacheSetToken("setfragment"))
  /\ WF_vars(ReadTTL) /\ WF_vars(HIncrBy)
  /\ WF_vars(CacheDeleteToken) /\ WF_vars(AgeRedis)

FairSpec == Spec /\ Fairness
-----------------------------------------------------------------------------
Places == {"idle", "redis", "sethot", "flight", "join", "answer", "missing",
           "touch", "collect", "update", "drop"}

(* The rows, copies, deltas and handlers stay in their ranges, and a node has *)
(* a load in flight exactly while its leader answers.                         *)
TypeOK ==
  /\ cfg \in Scenarios
  /\ row \in [live : BOOLEAN, quota : Int]
  /\ hot \in [Nodes -> Copies]
  /\ redis \in Copies
  /\ async \in [Works -> Nat]
  /\ batch \in [Nodes -> [has : BOOLEAN, delta : Int, at : {"idle"}]]
  /\ flush \in [Nodes -> [has : BOOLEAN, delta : Int, at : {"idle", "apply", "drop"}]]
  /\ rq \in [Requests -> [pc : Places, got : {"none", "token", "fragment"}, delta : {-1, 0, 1}]]
  /\ user \in {"using", "deleted", "gone", "done"}
  /\ flight \in [Nodes -> Requests \cup {Nobody}]
  /\ \A n \in Nodes : (flight[n] # Nobody) =>
       (flight[n] \in Requests /\ rq[flight[n]].pc \in {"answer", "missing"})
  /\ \A r \in Requests : (rq[r].pc = "join") => (flight[Node(r)] # Nobody)
  /\ kept \in 0..cfg.keep

(* Every delta is applied to the row exactly once: the row and the deltas     *)
(* that the batch updaters hold add up to what was charged and returned,      *)
(* less what a failed update or a crash took with it, whatever requests,      *)
(* updaters and nodes interleave.                                             *)
DeltasBooked ==
  LET held == [n \in Nodes |-> batch[n].delta + flush[n].delta]
  IN  row.live => (row.quota + MapThenSumSet(LAMBDA n : held[n], Nodes) = booked)

(* After Token.Delete and its goroutine are done, neither the deleting node   *)
(* nor Redis has a copy, unless one was written after the deletion by someone *)
(* who had read the token before. BatchDeleteTokens promises less: it leaves  *)
(* the hot copy of its own node.                                              *)
DeleteIsImmediate ==
  (/\ user = "done" /\ cfg.how = "Delete"
   /\ async["del"] = 0 /\ late = {}) => (hot[cfg.user] = None /\ redis = None)

(* A deleted token is forgotten by every node, although each use of a hot     *)
(* copy renews its time to live and requests never stop: applying the delta   *)
(* drops the copy. The exception is a copy that came back to Redis after the  *)
(* deletion, whose time to live the increments can renew, or a crash before   *)
(* the Redis deletion was started.                                            *)
DeletedIsForgotten ==
  (~row.live) ~> ((\A n \in Nodes : hot[n] = None) \/ "redis" \in late \/ user = "gone")
=============================================================================
