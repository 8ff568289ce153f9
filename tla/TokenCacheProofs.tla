-------------------------- MODULE TokenCacheProofs --------------------------
(***************************************************************************)
(* Proofs about TokenCache, for any nodes, requests and scenarios: every   *)
(* delta reaches the row exactly once, and a deletion leaves no copy on    *)
(* its node and in Redis but one written afterwards.                       *)
(***************************************************************************)
EXTENDS TokenCache, FiniteSums, FiniteSetTheorems, TLAPS

-----------------------------------------------------------------------------
(* Types. *)

Handler == [pc : Places, got : {"none", "token", "fragment"}, delta : {-1, 0, 1}]
Entry == [has : BOOLEAN, delta : Int, at : {"idle"}]
Flush == [has : BOOLEAN, delta : Int, at : {"idle", "apply", "drop"}]

RowsOK ==
  /\ cfg \in Scenarios
  /\ row \in [live : BOOLEAN, quota : Int]
  /\ booked \in Int
  /\ kept \in Nat /\ kept <= cfg.keep
  /\ user \in {"using", "deleted", "gone", "done"}

CopiesOK ==
  /\ hot \in [Nodes -> Copies]
  /\ redis \in Copies
  /\ async \in [Works -> Nat]

DeltasOK ==
  /\ batch \in [Nodes -> Entry]
  /\ flush \in [Nodes -> Flush]

HandlersOK ==
  /\ rq \in [Requests -> Handler]
  /\ flight \in [Nodes -> Requests \cup {Nobody}]

Types == RowsOK /\ CopiesOK /\ DeltasOK /\ HandlersOK

(* The handlers that run have a node, and a node has a load in flight        *)
(* exactly while its leader answers.                                         *)
FlightFits ==
  /\ \A r \in Requests : rq[r].pc # "idle" => r \in DOMAIN cfg.at
  /\ \A n \in Nodes : flight[n] # Nobody =>
       /\ flight[n] \in DOMAIN cfg.at /\ Node(flight[n]) = n
       /\ rq[flight[n]].pc \in {"answer", "missing"}
  /\ \A r \in Requests : rq[r].pc \in {"answer", "missing"} => flight[Node(r)] = r
  /\ \A r \in Requests : rq[r].pc = "join" => flight[Node(r)] # Nobody

LEMMA ScenarioFacts ==
  ASSUME RowsOK
  PROVE  /\ DOMAIN cfg.at \subseteq Requests
         /\ \A r \in DOMAIN cfg.at : Node(r) \in Nodes
         /\ cfg.redis \in Nat /\ cfg.keep \in Nat /\ cfg.user \in Nodes
         /\ cfg.how \in {"Delete", "BatchDelete", "Never"}
BY CacheAssumption DEF RowsOK, Node

LEMMA CopyFacts ==
  /\ None \in Copies
  /\ NewCopy("token") \in Copies /\ NewCopy("fragment") \in Copies /\ NewCopy("none") \in Copies
  /\ \A c \in Copies : Older(c) \in Copies
  /\ \A c \in Copies : [c EXCEPT !.fresh = TRUE] \in Copies
BY DEF None, NewCopy, Copies, Older

LEMMA HandlerFacts ==
  /\ AtRest \in Handler /\ AtRest.pc = "idle"
  /\ \A k : Loaded(k) \in Handler /\ Loaded(k).pc \in {"idle", "touch"}
  /\ Empty \in Entry /\ Empty \in Flush /\ Empty.delta = 0 /\ Empty.at = "idle"
BY DEF AtRest, Handler, Loaded, Empty, Entry, Flush, Places

LEMMA TypesInit == Init => Types /\ FlightFits
<1> SUFFICES ASSUME Init PROVE Types /\ FlightFits
  OBVIOUS
<1>1. RowsOK
  BY CacheAssumption DEF Init, RowsOK
<1>2. CopiesOK
  BY CopyFacts DEF Init, CopiesOK
<1>3. DeltasOK /\ HandlersOK
  BY HandlerFacts DEF Init, DeltasOK, HandlersOK
<1>4. FlightFits
  BY HandlerFacts DEF Init, FlightFits, Nobody
<1> QED BY <1>1, <1>2, <1>3, <1>4 DEF Types

LEMMA SharingFacts ==
  ASSUME HandlersOK, NEW r \in Requests
  PROVE  Sharing(r) \in SUBSET Requests /\ Cardinality(Sharing(r)) \in Nat
<1>1. Sharing(r) \in SUBSET Requests
  BY DEF Sharing
<1> QED BY <1>1, CacheAssumption, FS_Subset, FS_CardinalityType

LEMMA RowsStep ==
  ASSUME Types, FlightFits, [Next]_vars
  PROVE  RowsOK'
<1> USE DEF Types, RowsOK
<1>1. CASE UNCHANGED vars
  BY <1>1 DEF vars
<1>2. ASSUME NEW r \in Requests, GetHot(r) \/ GetRedis(r) \/ SetHotFromRedis(r) \/ JoinFlight(r)
             \/ LeadFlight(r) \/ SetHotFromRow(r) \/ NotFound(r) \/ Touch(r) \/ UpdateFails(r)
      PROVE  RowsOK'
  BY <1>2 DEF GetHot, GetRedis, SetHotFromRedis, JoinFlight, LeadFlight, SetHotFromRow,
     NotFound, Touch, UpdateFails
<1>3. ASSUME NEW r \in Requests, AfterDelta(r), UNCHANGED cfg
      PROVE  kept' \in Nat /\ kept' <= cfg'.keep
  BY <1>3, ScenarioFacts DEF AfterDelta
<1>4. ASSUME NEW r \in Requests, Collect(r) PROVE RowsOK'
  <2>1. rq[r].delta \in Int
    BY DEF HandlersOK, Handler
  <2> QED BY <1>3, <1>4, <2>1 DEF Collect, Book
<1>5. ASSUME NEW r \in Requests, Update(r) PROVE RowsOK'
  <2>1. rq[r].delta \in Int
    BY DEF HandlersOK, Handler
  <2>2. row' \in [live : BOOLEAN, quota : Int]
    BY <1>5, <2>1 DEF Update, RowPlus
  <2> QED BY <1>5, <2>1, <2>2 DEF Update, Book
<1>6. ASSUME NEW r \in Requests, DropAfterUpdate(r) PROVE RowsOK'
  BY <1>3, <1>6 DEF DropAfterUpdate
<1>7. ASSUME NEW n \in Nodes, TakeBatch(n) \/ DropAfterBatch(n) \/ AgeHot(n) PROVE RowsOK'
  BY <1>7 DEF TakeBatch, DropAfterBatch, AgeHot
<1>8. ASSUME NEW n \in Nodes
      PROVE  flush[n].delta \in Int /\ batch[n].delta \in Int
  BY DEF DeltasOK, Entry, Flush
<1>9. ASSUME NEW n \in Nodes, ApplyBatch(n) PROVE RowsOK'
  <2>1. row' \in [live : BOOLEAN, quota : Int]
    BY <1>8, <1>9 DEF ApplyBatch, RowPlus
  <2> QED BY <1>9, <2>1 DEF ApplyBatch
<1>10. ASSUME NEW n \in Nodes, ApplyFails(n) PROVE RowsOK'
  BY <1>8, <1>10 DEF ApplyFails, Book
<1>11. ASSUME NEW n \in Nodes, Crash(n) PROVE RowsOK'
  <2>1. booked' \in Int
    BY <1>8, <1>11 DEF Crash, Book
  <2>2. user' \in {"using", "deleted", "gone", "done"}
    BY <1>11 DEF Crash
  <2> QED BY <1>11, <2>1, <2>2 DEF Crash
<1>12. CASE DeleteRow \/ DeleteCopies
  BY <1>12 DEF DeleteRow, DeleteCopies
<1>13. CASE Goroutine \/ AgeRedis
  BY <1>13 DEF Goroutine, CacheSetToken, ReadTTL, HIncrBy, CacheDeleteToken, AgeRedis
<1> QED BY <1>1, <1>2, <1>4, <1>5, <1>6, <1>7, <1>9, <1>10, <1>11, <1>12, <1>13
        DEF Next, Continue, BatchUpdate

LEMMA CopiesStep ==
  ASSUME Types, FlightFits, [Next]_vars
  PROVE  CopiesOK'
<1> USE DEF Types, CopiesOK
<1> DEFINE Hots == hot' \in [Nodes -> Copies]
           Works2 == async' \in [Works -> Nat]
<1>1. CASE UNCHANGED vars
  BY <1>1 DEF vars
<1>2. ASSUME NEW w \in Works, NEW c \in Nat, Spawn(w, c) PROVE Works2
  BY <1>2 DEF Spawn
<1>3. {"set", "setfragment", "ttl", "incr", "del"} \subseteq Works
  BY DEF Works
<1>4. ASSUME NEW r \in Requests, GetHot(r) \/ GetRedis(r) \/ JoinFlight(r) \/ NotFound(r)
             \/ Collect(r) \/ Update(r) \/ UpdateFails(r)
      PROVE  CopiesOK'
  BY <1>4 DEF GetHot, GetRedis, JoinFlight, NotFound, Collect, Update, UpdateFails
<1>5. ASSUME NEW r \in Requests, SetHotFromRedis(r) PROVE CopiesOK'
  <2>1. NewCopy(rq[r].got) \in Copies
    BY DEF NewCopy, Copies, HandlersOK, Handler
  <2> QED BY <1>5, <2>1 DEF SetHotFromRedis
<1>6. ASSUME NEW r \in Requests, LeadFlight(r) PROVE CopiesOK'
  <2>1. Works2
    BY <1>2, <1>3, <1>6 DEF LeadFlight
  <2> QED BY <1>6, <2>1 DEF LeadFlight
<1>7. ASSUME NEW r \in Requests, SetHotFromRow(r) PROVE CopiesOK'
  <2>1. Works2
    BY <1>2, <1>3, <1>7, SharingFacts DEF SetHotFromRow
  <2> QED BY <1>7, <2>1, CopyFacts DEF SetHotFromRow
<1>8. ASSUME NEW r \in Requests, Touch(r) PROVE CopiesOK'
  <2>1. Works2
    BY <1>2, <1>3, <1>8 DEF Touch
  <2> QED BY <1>8, <2>1, CopyFacts DEF Touch
<1>9. ASSUME NEW n \in Nodes, DropHot(n) PROVE Hots
  BY <1>9, CopyFacts DEF DropHot, HotWithoutId
<1>10. ASSUME NEW r \in Requests, DropAfterUpdate(r) PROVE CopiesOK'
  <2>1. Node(r) \in Nodes
    BY <1>10, ScenarioFacts DEF DropAfterUpdate, FlightFits
  <2> QED BY <1>9, <1>10, <2>1 DEF DropAfterUpdate
<1>11. ASSUME NEW n \in Nodes, TakeBatch(n) \/ ApplyBatch(n) \/ ApplyFails(n) PROVE CopiesOK'
  BY <1>11 DEF TakeBatch, ApplyBatch, ApplyFails
<1>12. ASSUME NEW n \in Nodes, DropAfterBatch(n) PROVE CopiesOK'
  BY <1>9, <1>12 DEF DropAfterBatch
<1>13. ASSUME NEW n \in Nodes, AgeHot(n) PROVE CopiesOK'
  BY <1>13, CopyFacts DEF AgeHot
<1>14. ASSUME NEW n \in Nodes, Crash(n) PROVE CopiesOK'
  <2>1. Works2
    <3>1. PICK left \in [Works -> 0..cfg.redis + 1] : async' = left
      BY <1>14 DEF Crash
    <3>2. 0..cfg.redis + 1 \subseteq Nat
      BY ScenarioFacts
    <3> QED BY <3>1, <3>2
  <2>2. Hots
    BY <1>14, CopyFacts DEF Crash
  <2> QED BY <1>14, <2>1, <2>2 DEF Crash
<1>15. CASE DeleteRow
  BY <1>15 DEF DeleteRow
<1>16. CASE DeleteCopies
  <2>1. Works2
    BY <1>3, <1>16 DEF DeleteCopies
  <2>2. Hots
    BY <1>16, CopyFacts DEF DeleteCopies, HotAfterDelete
  <2> QED BY <1>16, <2>1, <2>2 DEF DeleteCopies
<1>17. CASE Goroutine
  <2>1. CASE CacheSetToken("set") \/ CacheSetToken("setfragment")
    BY <1>3, <2>1, CopyFacts DEF CacheSetToken
  <2>2. CASE ReadTTL
    BY <1>3, <2>2 DEF ReadTTL
  <2>3. CASE HIncrBy
    BY <1>3, <2>3, CopyFacts DEF HIncrBy
  <2>4. CASE CacheDeleteToken
    BY <1>3, <2>4, CopyFacts DEF CacheDeleteToken
  <2> QED BY <1>17, <2>1, <2>2, <2>3, <2>4 DEF Goroutine
<1>18. CASE AgeRedis
  BY <1>18, CopyFacts DEF AgeRedis
<1> QED BY <1>1, <1>4, <1>5, <1>6, <1>7, <1>8, <1>10, <1>11, <1>12, <1>13, <1>14, <1>15,
           <1>16, <1>17, <1>18
        DEF Next, Continue, BatchUpdate

LEMMA DeltasStep ==
  ASSUME Types, FlightFits, [Next]_vars
  PROVE  DeltasOK'
<1> USE DEF Types, DeltasOK
<1>1. CASE UNCHANGED vars
  BY <1>1 DEF vars
<1>2. ASSUME NEW r \in Requests, GetHot(r) \/ GetRedis(r) \/ SetHotFromRedis(r) \/ JoinFlight(r)
             \/ LeadFlight(r) \/ SetHotFromRow(r) \/ NotFound(r) \/ Touch(r) \/ Update(r)
             \/ UpdateFails(r) \/ DropAfterUpdate(r)
      PROVE  DeltasOK'
  BY <1>2 DEF GetHot, GetRedis, SetHotFromRedis, JoinFlight, LeadFlight, SetHotFromRow,
     NotFound, Touch, Update, UpdateFails, DropAfterUpdate
<1>3. ASSUME NEW r \in Requests, Collect(r) PROVE DeltasOK'
  <2>1. Node(r) \in Nodes
    BY <1>3, ScenarioFacts DEF Collect, FlightFits
  <2>2. rq[r].delta \in Int
    BY DEF HandlersOK, Handler
  <2>3. \A e \in Entry, d \in Int : AddNewRecord(e, d) \in Entry
    <3> SUFFICES ASSUME NEW e \in Entry, NEW d \in Int PROVE AddNewRecord(e, d) \in Entry
      OBVIOUS
    <3>1. [e EXCEPT !.has = TRUE] \in Entry
      BY Zenon DEF Entry
    <3>2. \A f \in Entry : [f EXCEPT !.delta = @ + d] \in Entry
      BY DEF Entry
    <3>3. AddNewRecord(e, d) = [[e EXCEPT !.has = TRUE] EXCEPT !.delta = @ + d]
      BY Zenon DEF AddNewRecord, Entry
    <3> QED BY <3>1, <3>2, <3>3
  <2> QED BY <1>3, <2>1, <2>2, <2>3 DEF Collect
<1>4. ASSUME NEW n \in Nodes, TakeBatch(n) PROVE DeltasOK'
  <2>1. [batch[n] EXCEPT !.at = "apply"] \in Flush
    BY DEF Entry, Flush
  <2> QED BY <1>4, <2>1, HandlerFacts DEF TakeBatch
<1>5. ASSUME NEW n \in Nodes, ApplyBatch(n) PROVE DeltasOK'
  <2>1. [Empty EXCEPT !.at = "drop"] \in Flush
    BY HandlerFacts DEF Flush
  <2> QED BY <1>5, <2>1 DEF ApplyBatch
<1>6. ASSUME NEW n \in Nodes, DropAfterBatch(n) \/ ApplyFails(n) \/ Crash(n) PROVE DeltasOK'
  BY <1>6, HandlerFacts DEF DropAfterBatch, ApplyFails, Crash
<1>7. ASSUME NEW n \in Nodes, AgeHot(n) PROVE DeltasOK'
  BY <1>7 DEF AgeHot
<1>8. CASE DeleteRow \/ DeleteCopies \/ Goroutine \/ AgeRedis
  BY <1>8 DEF DeleteRow, DeleteCopies, Goroutine, CacheSetToken, ReadTTL, HIncrBy,
     CacheDeleteToken, AgeRedis
<1> QED BY <1>1, <1>2, <1>3, <1>4, <1>5, <1>6, <1>7, <1>8 DEF Next, Continue, BatchUpdate

LEMMA HandlersStep ==
  ASSUME Types, FlightFits, [Next]_vars
  PROVE  HandlersOK'
<1> USE DEF Types, HandlersOK
<1>1. CASE UNCHANGED vars
  BY <1>1 DEF vars
<1>2. ASSUME NEW r \in Requests, NEW p \in Places, Goto(r, p)
      PROVE  rq' \in [Requests -> Handler]
  BY <1>2 DEF Goto, Handler
<1>3. ASSUME NEW r \in Requests, GetHot(r) PROVE HandlersOK'
  <2>1. \A p \in Places : [rq[r] EXCEPT !.pc = p] \in Handler
    BY DEF Handler
  <2>2. "redis" \in Places /\ "flight" \in Places
    BY DEF Places
  <2> QED BY <1>3, <2>1, <2>2, HandlerFacts DEF GetHot
<1>4. ASSUME NEW r \in Requests, GetRedis(r) PROVE HandlersOK'
  <2>1. redis.kind \in {"none", "token", "fragment"}
    BY DEF CopiesOK, Copies
  <2> QED BY <1>4, <2>1 DEF GetRedis, Handler, Places
<1>5. ASSUME NEW r \in Requests, SetHotFromRedis(r) PROVE HandlersOK'
  BY <1>5, HandlerFacts DEF SetHotFromRedis
<1>6. ASSUME NEW r \in Requests, JoinFlight(r) \/ Touch(r) \/ Update(r) PROVE HandlersOK'
  <2>1. UNCHANGED flight
    BY <1>6 DEF JoinFlight, Touch, Update
  <2>2. \E p \in Places : Goto(r, p)
    BY <1>6 DEF JoinFlight, Touch, Update, Places
  <2> QED BY <1>2, <2>1, <2>2
<1>7. ASSUME NEW r \in Requests, LeadFlight(r) PROVE HandlersOK'
  <2>1. flight' \in [Nodes -> Requests \cup {Nobody}]
    BY <1>7 DEF LeadFlight
  <2>2. rq' \in [Requests -> Handler]
    BY <1>7, HandlerFacts DEF LeadFlight, Handler, Places
  <2> QED BY <2>1, <2>2
<1>8. ASSUME NEW r \in Requests, SetHotFromRow(r) \/ NotFound(r) PROVE HandlersOK'
  BY <1>8, HandlerFacts DEF SetHotFromRow, NotFound
<1>9. ASSUME NEW r \in Requests, AfterDelta(r) PROVE rq' \in [Requests -> Handler]
  BY <1>9, HandlerFacts DEF AfterDelta, Handler, Places
<1>10. ASSUME NEW r \in Requests, Collect(r) \/ DropAfterUpdate(r) PROVE HandlersOK'
  BY <1>9, <1>10 DEF Collect, DropAfterUpdate
<1>11. ASSUME NEW r \in Requests, UpdateFails(r) PROVE HandlersOK'
  BY <1>11, HandlerFacts DEF UpdateFails
<1>12. ASSUME NEW n \in Nodes, Crash(n) PROVE HandlersOK'
  BY <1>12, HandlerFacts DEF Crash
<1>13. ASSUME NEW n \in Nodes,
              TakeBatch(n) \/ ApplyBatch(n) \/ DropAfterBatch(n) \/ ApplyFails(n) \/ AgeHot(n)
       PROVE  HandlersOK'
  BY <1>13 DEF TakeBatch, ApplyBatch, DropAfterBatch, ApplyFails, AgeHot
<1>14. CASE DeleteRow \/ DeleteCopies \/ Goroutine \/ AgeRedis
  BY <1>14 DEF DeleteRow, DeleteCopies, Goroutine, CacheSetToken, ReadTTL, HIncrBy,
     CacheDeleteToken, AgeRedis
<1> QED BY <1>1, <1>3, <1>4, <1>5, <1>6, <1>7, <1>8, <1>10, <1>11, <1>12, <1>13, <1>14
        DEF Next, Continue, BatchUpdate

(* A handler that goes on without a load: the flights stay. *)
LEMMA FlightKept ==
  ASSUME Types, FlightFits, NEW r \in Requests, UNCHANGED <<cfg, flight>>,
         rq[r].pc \notin {"answer", "missing"},
         \A q \in Requests : q # r => rq'[q] = rq[q],
         rq'[r].pc \notin {"answer", "missing", "join"},
         rq'[r].pc # "idle" => r \in DOMAIN cfg.at
  PROVE  FlightFits'
BY DEF FlightFits, Types, HandlersOK, Node

LEMMA FlightStep ==
  ASSUME Types, FlightFits, [Next]_vars
  PROVE  FlightFits'
<1>1. CASE UNCHANGED vars
  BY <1>1 DEF vars, FlightFits, Node
<1>2. rq \in [Requests -> Handler] /\ flight \in [Nodes -> Requests \cup {Nobody}]
      /\ Nobody \notin Requests
  BY CacheAssumption DEF Types, HandlersOK, Nobody
<1>3. ASSUME NEW r \in Requests, NEW e \in Handler, rq' = [rq EXCEPT ![r] = e]
      PROVE  rq'[r] = e /\ \A q \in Requests : q # r => rq'[q] = rq[q]
  BY <1>2, <1>3
<1>4. ASSUME NEW r \in Requests, NEW p \in Places, Goto(r, p)
      PROVE  rq'[r].pc = p /\ \A q \in Requests : q # r => rq'[q] = rq[q]
  BY <1>2, <1>4 DEF Goto, Handler
<1>5. ASSUME NEW r \in Requests, GetHot(r) PROVE FlightFits'
  <2>1. rq'[r].pc \in {"idle", "touch", "redis", "flight"}
        /\ \A q \in Requests : q # r => rq'[q] = rq[q]
    BY <1>2, <1>5, HandlerFacts DEF GetHot, Handler
  <2> QED BY <1>5, <2>1, FlightKept DEF GetHot
<1>6. ASSUME NEW r \in Requests, GetRedis(r) PROVE FlightFits'
  <2>1. rq'[r].pc \in {"sethot", "flight"} /\ \A q \in Requests : q # r => rq'[q] = rq[q]
    BY <1>2, <1>6 DEF GetRedis, Handler
  <2>2. r \in DOMAIN cfg.at
    BY <1>6 DEF GetRedis, FlightFits
  <2> QED BY <1>6, <2>1, <2>2, FlightKept DEF GetRedis
<1>7. ASSUME NEW r \in Requests, SetHotFromRedis(r) \/ UpdateFails(r) PROVE FlightFits'
  <2>1. rq'[r].pc \in {"idle", "touch"} /\ \A q \in Requests : q # r => rq'[q] = rq[q]
    BY <1>3, <1>7, HandlerFacts DEF SetHotFromRedis, UpdateFails
  <2>2. r \in DOMAIN cfg.at /\ rq[r].pc \in {"sethot", "update"} /\ UNCHANGED <<cfg, flight>>
    BY <1>7 DEF SetHotFromRedis, UpdateFails, FlightFits
  <2> QED BY <2>1, <2>2, FlightKept
<1>8. ASSUME NEW r \in Requests, Touch(r) \/ Update(r) PROVE FlightFits'
  <2>1. rq'[r].pc \in {"collect", "update", "drop"} /\ \A q \in Requests : q # r => rq'[q] = rq[q]
    BY <1>4, <1>8 DEF Touch, Update, Places
  <2>2. r \in DOMAIN cfg.at /\ rq[r].pc \in {"touch", "update"} /\ UNCHANGED <<cfg, flight>>
    BY <1>8 DEF Touch, Update, FlightFits
  <2> QED BY <2>1, <2>2, FlightKept
<1>9. ASSUME NEW r \in Requests, Collect(r) \/ DropAfterUpdate(r) PROVE FlightFits'
  <2>1. AfterDelta(r)
    BY <1>9 DEF Collect, DropAfterUpdate
  <2>2. rq'[r].pc \in {"idle", "touch"} /\ \A q \in Requests : q # r => rq'[q] = rq[q]
    BY <1>2, <2>1, HandlerFacts DEF AfterDelta, Handler
  <2>3. r \in DOMAIN cfg.at /\ rq[r].pc \in {"collect", "drop"} /\ UNCHANGED <<cfg, flight>>
    BY <1>9 DEF Collect, DropAfterUpdate, FlightFits
  <2> QED BY <2>2, <2>3, FlightKept
<1>10. ASSUME NEW r \in Requests, JoinFlight(r) PROVE FlightFits'
  <2>1. rq'[r].pc = "join" /\ \A q \in Requests : q # r => rq'[q] = rq[q]
    BY <1>4, <1>10 DEF JoinFlight, Places
  <2> QED BY <1>2, <1>10, <2>1 DEF JoinFlight, FlightFits, Node
<1>11. ASSUME NEW r \in Requests, LeadFlight(r) PROVE FlightFits'
  <2>1. r \in DOMAIN cfg.at /\ Node(r) \in Nodes /\ rq[r].pc = "flight" /\ UNCHANGED cfg
    BY <1>11, ScenarioFacts DEF LeadFlight, FlightFits, Types
  <2>2. CASE hot[Node(r)] # None
    <3>1. rq'[r].pc \in {"idle", "touch"} /\ \A q \in Requests : q # r => rq'[q] = rq[q]
      BY <1>3, <1>11, <2>2, HandlerFacts DEF LeadFlight
    <3> QED BY <1>11, <2>1, <2>2, <3>1, FlightKept DEF LeadFlight
  <2>3. CASE hot[Node(r)] = None
    <3>1. rq'[r].pc \in {"answer", "missing"} /\ \A q \in Requests : q # r => rq'[q] = rq[q]
      BY <1>2, <1>11, <2>3 DEF LeadFlight, Handler
    <3>2. /\ flight[Node(r)] = Nobody /\ flight'[Node(r)] = r
          /\ \A n \in Nodes : n # Node(r) => flight'[n] = flight[n]
      BY <1>2, <1>11, <2>1, <2>3 DEF LeadFlight
    <3> QED BY <1>2, <2>1, <3>1, <3>2, ScenarioFacts DEF FlightFits, Node, Types
  <2> QED BY <2>2, <2>3
<1>12. ASSUME NEW r \in Requests, SetHotFromRow(r) \/ NotFound(r) PROVE FlightFits'
  <2>1. r \in DOMAIN cfg.at /\ Node(r) \in Nodes /\ flight[Node(r)] = r /\ UNCHANGED cfg
    BY <1>12, ScenarioFacts DEF SetHotFromRow, NotFound, FlightFits, Types
  <2>2. /\ \A q \in Sharing(r) : rq'[q].pc \in {"idle", "touch"}
        /\ \A q \in Requests \ Sharing(r) : rq'[q] = rq[q]
    <3>1. Sharing(r) \in SUBSET Requests
      BY SharingFacts DEF Types
    <3>2. CASE SetHotFromRow(r)
      BY <1>2, <3>1, <3>2, HandlerFacts DEF SetHotFromRow
    <3>3. CASE NotFound(r)
      BY <1>2, <3>1, <3>3, HandlerFacts DEF NotFound
    <3> QED BY <1>12, <3>2, <3>3
  <2>3. /\ flight'[Node(r)] = Nobody
        /\ \A n \in Nodes : n # Node(r) => flight'[n] = flight[n]
    BY <1>2, <1>12, <2>1 DEF SetHotFromRow, NotFound
  <2>4. \A q \in Requests : q \in Sharing(r) =>
          q \in DOMAIN cfg.at /\ Node(q) = Node(r)
    BY <2>1 DEF Sharing
  <2>5. \A q \in Requests : q \notin Sharing(r) /\ q \in DOMAIN cfg.at /\ Node(q) = Node(r)
          => rq[q].pc \notin {"join", "answer", "missing"}
    BY <2>1 DEF Sharing, FlightFits
  <2>6. \A q \in DOMAIN cfg.at : Node(q)' = Node(q) /\ Node(q) \in Nodes
    BY <2>1, ScenarioFacts DEF Node, Types
  <2>7. \A q \in Requests : rq'[q].pc # "idle" => q \in DOMAIN cfg'.at
    BY <2>1, <2>2, <2>4 DEF FlightFits
  <2>8. \A n \in Nodes : flight'[n] # Nobody =>
          /\ flight'[n] \in DOMAIN cfg'.at /\ cfg'.at[flight'[n]] = n
          /\ rq'[flight'[n]].pc \in {"answer", "missing"}
    BY <1>2, <2>1, <2>2, <2>3, <2>4 DEF FlightFits, Node
  <2>9. \A q \in Requests : rq'[q].pc \in {"answer", "missing"} => flight'[cfg'.at[q]] = q
    BY <1>2, <2>1, <2>2, <2>3, <2>5, <2>6 DEF FlightFits, Node
  <2>10. \A q \in Requests : rq'[q].pc = "join" => flight'[cfg'.at[q]] # Nobody
    BY <1>2, <2>1, <2>2, <2>3, <2>5, <2>6 DEF FlightFits, Node
  <2> QED BY <2>7, <2>8, <2>9, <2>10 DEF FlightFits, Node
<1>13. ASSUME NEW n \in Nodes, Crash(n) PROVE FlightFits'
  <2>1. UNCHANGED cfg
    BY <1>13 DEF Crash
  <2>2. \A q \in Requests : IF q \in DOMAIN cfg.at /\ Node(q) = n THEN rq'[q].pc = "idle"
                            ELSE rq'[q] = rq[q]
    BY <1>2, <1>13, HandlerFacts DEF Crash
  <2>3. flight'[n] = Nobody /\ \A m \in Nodes : m # n => flight'[m] = flight[m]
    BY <1>2, <1>13 DEF Crash
  <2>4. \A q \in DOMAIN cfg.at : Node(q) \in Nodes
    BY ScenarioFacts DEF Types
  <2> QED BY <1>2, <2>1, <2>2, <2>3, <2>4 DEF FlightFits, Node
<1>14. ASSUME UNCHANGED <<cfg, rq, flight>> PROVE FlightFits'
  BY <1>14 DEF FlightFits, Node
<1>15. ASSUME NEW n \in Nodes,
              TakeBatch(n) \/ ApplyBatch(n) \/ DropAfterBatch(n) \/ ApplyFails(n) \/ AgeHot(n)
       PROVE  UNCHANGED <<cfg, rq, flight>>
  BY <1>15 DEF TakeBatch, ApplyBatch, DropAfterBatch, ApplyFails, AgeHot
<1>16. DeleteRow \/ DeleteCopies \/ Goroutine \/ AgeRedis => UNCHANGED <<cfg, rq, flight>>
  BY DEF DeleteRow, DeleteCopies, Goroutine, CacheSetToken, ReadTTL, HIncrBy,
     CacheDeleteToken, AgeRedis
<1> QED BY <1>1, <1>5, <1>6, <1>7, <1>8, <1>9, <1>10, <1>11, <1>12, <1>13, <1>14, <1>15, <1>16
        DEF Next, Continue, BatchUpdate

LEMMA TypesAlways == Spec => [](Types /\ FlightFits)
<1>1. Types /\ FlightFits /\ [Next]_vars => (Types /\ FlightFits)'
  BY RowsStep, CopiesStep, DeltasStep, HandlersStep, FlightStep DEF Types
<1> QED BY <1>1, TypesInit, PTL DEF Spec

(* The rows, copies, deltas and handlers stay in their ranges; a node has a  *)
(* load in flight exactly while its leader answers, so nobody joins a load   *)
(* that has ended.                                                           *)
THEOREM TokenCacheTypeOK == Spec => []TypeOK
<1>1. Types /\ FlightFits => TypeOK
  <2> SUFFICES ASSUME Types, FlightFits PROVE TypeOK
    OBVIOUS
  <2>1. kept \in 0..cfg.keep
    BY ScenarioFacts DEF Types, RowsOK
  <2>2. \A n \in Nodes : (flight[n] # Nobody) =>
          (flight[n] \in Requests /\ rq[flight[n]].pc \in {"answer", "missing"})
    BY DEF FlightFits, Types, HandlersOK
  <2>3. /\ cfg \in Scenarios
        /\ row \in [live : BOOLEAN, quota : Int]
        /\ hot \in [Nodes -> Copies]
        /\ redis \in Copies
        /\ async \in [Works -> Nat]
        /\ user \in {"using", "deleted", "gone", "done"}
        /\ flight \in [Nodes -> Requests \cup {Nobody}]
    BY DEF Types, RowsOK, CopiesOK, HandlersOK
  <2>4. /\ batch \in [Nodes -> [has : BOOLEAN, delta : Int, at : {"idle"}]]
        /\ flush \in [Nodes -> [has : BOOLEAN, delta : Int, at : {"idle", "apply", "drop"}]]
        /\ rq \in [Requests -> [pc : Places, got : {"none", "token", "fragment"},
                                delta : {-1, 0, 1}]]
    BY DEF Types, DeltasOK, HandlersOK, Entry, Flush, Handler
  <2> QED BY <2>1, <2>2, <2>3, <2>4 DEF TypeOK, FlightFits
<1> QED BY <1>1, TypesAlways, PTL
-----------------------------------------------------------------------------
(* The deltas.  A batch updater that does not apply an entry holds nothing,  *)
(* so that taking the next entry loses none.                                 *)

TakenOnce == \A n \in Nodes : flush[n].at # "apply" => flush[n].delta = 0

OnHand == [n \in Nodes |-> batch[n].delta + flush[n].delta]
RowBooked == row.live => row.quota + SumOf(OnHand, Nodes) = booked

LEMMA RowBookedIs == RowBooked <=> DeltasBooked
BY DEF RowBooked, DeltasBooked, OnHand, SumOf

LEMMA TakenOnceStep == Types /\ TakenOnce /\ [Next]_vars => TakenOnce'
<1> SUFFICES ASSUME Types, TakenOnce, [Next]_vars PROVE TakenOnce'
  OBVIOUS
<1> USE DEF TakenOnce
<1>1. flush \in [Nodes -> Flush] /\ batch \in [Nodes -> Entry]
  BY DEF Types, DeltasOK
<1>2. CASE UNCHANGED flush
  BY <1>2
<1>3. ASSUME NEW n \in Nodes, TakeBatch(n) PROVE TakenOnce'
  BY <1>1, <1>3 DEF TakeBatch, Entry, Flush
<1>4. ASSUME NEW n \in Nodes, ApplyBatch(n) PROVE TakenOnce'
  <2>1. [Empty EXCEPT !.at = "drop"].delta = 0
    BY DEF Empty
  <2> QED BY <1>1, <1>4, <2>1 DEF ApplyBatch
<1>5. ASSUME NEW n \in Nodes, DropAfterBatch(n) \/ ApplyFails(n) \/ Crash(n) PROVE TakenOnce'
  BY <1>1, <1>5, HandlerFacts DEF DropAfterBatch, ApplyFails, Crash
<1>6. ASSUME NEW r \in Requests, GetHot(r) \/ Continue(r) \/ UpdateFails(r)
      PROVE  UNCHANGED flush
  BY <1>6 DEF Continue, GetHot, GetRedis, SetHotFromRedis, JoinFlight, LeadFlight, SetHotFromRow,
     NotFound, Touch, Collect, Update, UpdateFails, DropAfterUpdate
<1>7. ASSUME NEW n \in Nodes, AgeHot(n) PROVE UNCHANGED flush
  BY <1>7 DEF AgeHot
<1>8. UNCHANGED vars \/ DeleteRow \/ DeleteCopies \/ Goroutine \/ AgeRedis => UNCHANGED flush
  BY DEF vars, DeleteRow, DeleteCopies, Goroutine, CacheSetToken, ReadTTL, HIncrBy,
     CacheDeleteToken, AgeRedis
<1> QED BY <1>2, <1>3, <1>4, <1>5, <1>6, <1>7, <1>8 DEF Next, BatchUpdate

LEMMA OnHandFacts ==
  ASSUME Types
  PROVE  /\ \A n \in Nodes : OnHand[n] \in Int
         /\ \A n \in Nodes : batch[n].delta \in Int /\ flush[n].delta \in Int
         /\ SumOf(OnHand, Nodes) \in Int
<1>1. \A n \in Nodes : batch[n].delta \in Int /\ flush[n].delta \in Int
  BY DEF Types, DeltasOK, Entry, Flush
<1>2. \A n \in Nodes : OnHand[n] \in Int
  BY <1>1 DEF OnHand
<1>3. IsFiniteSet(Nodes)
  BY CacheAssumption
<1>4. SumOf(OnHand, Nodes) \in Int
  BY <1>2, <1>3, SumOfInt
<1> QED BY <1>1, <1>2, <1>4

LEMMA OnHandChange ==
  ASSUME Types, Types', NEW n \in Nodes,
         \A m \in Nodes : m # n => batch'[m] = batch[m] /\ flush'[m] = flush[m]
  PROVE  SumOf(OnHand', Nodes) = SumOf(OnHand, Nodes) + OnHand'[n] - OnHand[n]
<1>1. \A m \in Nodes : OnHand[m] \in Int
  BY OnHandFacts
<1>2. \A m \in Nodes : OnHand'[m] \in Int
  BY DEF Types, DeltasOK, Entry, Flush, OnHand
<1>3. \A m \in Nodes \ {n} : OnHand[m] = OnHand'[m]
  BY DEF OnHand
<1>4. IsFiniteSet(Nodes)
  BY CacheAssumption
<1> HIDE DEF OnHand
<1> QED BY <1>1, <1>2, <1>3, <1>4, SumOfChange

LEMMA RowBookedStep ==
  Types /\ Types' /\ FlightFits /\ TakenOnce /\ RowBooked /\ [Next]_vars => RowBooked'
<1> SUFFICES ASSUME Types, Types', FlightFits, TakenOnce, RowBooked, [Next]_vars, row'.live
             PROVE  row'.quota + SumOf(OnHand', Nodes) = booked'
  BY DEF RowBooked
<1>1. row \in [live : BOOLEAN, quota : Int] /\ booked \in Int
  BY DEF Types, RowsOK
<1>2. /\ batch \in [Nodes -> Entry] /\ flush \in [Nodes -> Flush]
      /\ \A n \in Nodes : batch[n].delta \in Int /\ flush[n].delta \in Int
      /\ SumOf(OnHand, Nodes) \in Int
  BY OnHandFacts DEF Types, DeltasOK
<1>3. ASSUME row'.live => row.live PROVE row.quota + SumOf(OnHand, Nodes) = booked
  BY <1>3 DEF RowBooked
<1>4. CASE UNCHANGED <<row, batch, flush, booked>>
  <2>1. OnHand' = OnHand
    BY <1>4 DEF OnHand
  <2> QED BY <1>3, <1>4, <2>1
<1>5. ASSUME NEW r \in Requests
      PROVE  rq[r].delta \in Int /\ (rq[r].pc # "idle" => Node(r) \in Nodes)
  BY ScenarioFacts DEF Types, HandlersOK, Handler, FlightFits
<1>6. ASSUME NEW r \in Requests, Collect(r)
      PROVE  row'.quota + SumOf(OnHand', Nodes) = booked'
  <2>1. PICK n \in Nodes : n = Node(r)
    BY <1>5, <1>6 DEF Collect
  <2>2. /\ UNCHANGED <<row, flush>> /\ booked' = booked + rq[r].delta
        /\ batch' = [batch EXCEPT ![n] = AddNewRecord(@, rq[r].delta)]
    BY <1>6, <2>1 DEF Collect, Book
  <2>3. /\ batch'[n].delta = batch[n].delta + rq[r].delta
        /\ \A m \in Nodes : m # n => batch'[m] = batch[m] /\ flush'[m] = flush[m]
    BY <1>2, <2>2 DEF AddNewRecord, Entry
  <2>4. OnHand'[n] - OnHand[n] = rq[r].delta
    BY <1>2, <1>5, <2>2, <2>3 DEF OnHand
  <2>5. SumOf(OnHand', Nodes) = SumOf(OnHand, Nodes) + OnHand'[n] - OnHand[n]
    BY <2>3, OnHandChange
  <2>6. OnHand'[n] \in Int /\ OnHand[n] \in Int
    BY <1>2, <1>5, <2>2, <2>3 DEF OnHand
  <2> HIDE DEF OnHand
  <2> QED BY <1>1, <1>2, <1>3, <1>5, <2>2, <2>4, <2>5, <2>6
<1>7. ASSUME NEW r \in Requests, Update(r)
      PROVE  row'.quota + SumOf(OnHand', Nodes) = booked'
  <2>1. row' = RowPlus(rq[r].delta) /\ UNCHANGED <<batch, flush>>
    BY <1>7 DEF Update
  <2>2. row.live /\ row'.quota = row.quota + rq[r].delta
    BY <1>1, <2>1 DEF RowPlus
  <2>3. booked' = booked + rq[r].delta
    BY <1>7, <2>2 DEF Update, Book
  <2>4. OnHand' = OnHand
    BY <2>1 DEF OnHand
  <2> QED BY <1>1, <1>2, <1>3, <1>5, <2>2, <2>3, <2>4
<1>8. ASSUME NEW n \in Nodes, TakeBatch(n)
      PROVE  row'.quota + SumOf(OnHand', Nodes) = booked'
  <2>1. UNCHANGED <<row, booked>>
    BY <1>8 DEF TakeBatch
  <2>2. flush'[n].delta = batch[n].delta /\ batch'[n].delta = 0 /\ flush[n].delta = 0
    BY <1>2, <1>8, HandlerFacts DEF TakeBatch, TakenOnce, Entry
  <2>3. \A m \in Nodes : m # n => batch'[m] = batch[m] /\ flush'[m] = flush[m]
    BY <1>2, <1>8 DEF TakeBatch
  <2>4. OnHand'[n] = OnHand[n] /\ OnHand[n] \in Int
    BY <1>2, <2>2 DEF OnHand
  <2>5. SumOf(OnHand', Nodes) = SumOf(OnHand, Nodes) + OnHand'[n] - OnHand[n]
    BY <2>3, OnHandChange
  <2> HIDE DEF OnHand
  <2> QED BY <1>1, <1>2, <1>3, <2>1, <2>4, <2>5
<1>9. ASSUME NEW n \in Nodes, ApplyBatch(n)
      PROVE  row'.quota + SumOf(OnHand', Nodes) = booked'
  <2>1. UNCHANGED <<batch, booked>> /\ row' = RowPlus(flush[n].delta)
    BY <1>9 DEF ApplyBatch
  <2>2. row.live /\ row'.quota = row.quota + flush[n].delta
    BY <1>1, <2>1 DEF RowPlus
  <2>3. flush'[n].delta = 0
    <3>1. [Empty EXCEPT !.at = "drop"].delta = 0
      BY DEF Empty
    <3> QED BY <1>2, <1>9, <3>1 DEF ApplyBatch
  <2>4. \A m \in Nodes : m # n => batch'[m] = batch[m] /\ flush'[m] = flush[m]
    BY <1>2, <1>9 DEF ApplyBatch
  <2>5. OnHand'[n] = OnHand[n] - flush[n].delta /\ OnHand[n] \in Int
    BY <1>2, <2>1, <2>3 DEF OnHand
  <2>6. SumOf(OnHand', Nodes) = SumOf(OnHand, Nodes) + OnHand'[n] - OnHand[n]
    BY <2>4, OnHandChange
  <2> HIDE DEF OnHand
  <2> QED BY <1>1, <1>2, <1>3, <2>1, <2>2, <2>5, <2>6
<1>10. ASSUME NEW n \in Nodes, DropAfterBatch(n)
       PROVE  row'.quota + SumOf(OnHand', Nodes) = booked'
  <2>1. UNCHANGED <<row, batch, booked>>
    BY <1>10 DEF DropAfterBatch
  <2>2. flush'[n].delta = 0 /\ flush[n].delta = 0
    BY <1>2, <1>10, HandlerFacts DEF DropAfterBatch, TakenOnce
  <2>3. \A m \in Nodes : flush'[m].delta = flush[m].delta
    BY <1>2, <1>10, <2>2 DEF DropAfterBatch
  <2>4. OnHand' = OnHand
    BY <2>1, <2>3 DEF OnHand
  <2> QED BY <1>3, <2>1, <2>4
<1>11. ASSUME NEW n \in Nodes, ApplyFails(n)
       PROVE  row'.quota + SumOf(OnHand', Nodes) = booked'
  <2>1. UNCHANGED <<batch, row>>
    BY <1>11 DEF ApplyFails
  <2>2. booked' = booked - flush[n].delta
    BY <1>1, <1>2, <1>11, <2>1 DEF ApplyFails, Book
  <2>3. flush'[n].delta = 0
    BY <1>2, <1>11, HandlerFacts DEF ApplyFails
  <2>4. \A m \in Nodes : m # n => batch'[m] = batch[m] /\ flush'[m] = flush[m]
    BY <1>2, <1>11 DEF ApplyFails
  <2>5. OnHand'[n] = OnHand[n] - flush[n].delta /\ OnHand[n] \in Int
    BY <1>2, <2>1, <2>3 DEF OnHand
  <2>6. SumOf(OnHand', Nodes) = SumOf(OnHand, Nodes) + OnHand'[n] - OnHand[n]
    BY <2>4, OnHandChange
  <2> HIDE DEF OnHand
  <2> QED BY <1>1, <1>2, <1>3, <2>1, <2>2, <2>5, <2>6
<1>12. ASSUME NEW n \in Nodes, Crash(n)
       PROVE  row'.quota + SumOf(OnHand', Nodes) = booked'
  <2>1. UNCHANGED row
    BY <1>12 DEF Crash
  <2>2. booked' = booked - (batch[n].delta + flush[n].delta)
    BY <1>1, <1>2, <1>12, <2>1 DEF Crash, Book
  <2>3. flush'[n].delta = 0 /\ batch'[n].delta = 0
    BY <1>2, <1>12, HandlerFacts DEF Crash
  <2>4. \A m \in Nodes : m # n => batch'[m] = batch[m] /\ flush'[m] = flush[m]
    BY <1>2, <1>12 DEF Crash
  <2>5. OnHand'[n] = 0 /\ OnHand[n] = batch[n].delta + flush[n].delta
    BY <1>2, <2>3 DEF OnHand
  <2>6. SumOf(OnHand', Nodes) = SumOf(OnHand, Nodes) + OnHand'[n] - OnHand[n]
    BY <2>4, OnHandChange
  <2> HIDE DEF OnHand
  <2> QED BY <1>1, <1>2, <1>3, <2>1, <2>2, <2>5, <2>6
<1>13. ASSUME NEW r \in Requests, GetHot(r) \/ GetRedis(r) \/ SetHotFromRedis(r) \/ JoinFlight(r)
              \/ LeadFlight(r) \/ SetHotFromRow(r) \/ NotFound(r) \/ Touch(r) \/ UpdateFails(r)
              \/ DropAfterUpdate(r)
       PROVE  UNCHANGED <<row, batch, flush, booked>>
  BY <1>13 DEF GetHot, GetRedis, SetHotFromRedis, JoinFlight, LeadFlight, SetHotFromRow,
     NotFound, Touch, UpdateFails, DropAfterUpdate
<1>14. ASSUME NEW n \in Nodes, AgeHot(n) PROVE UNCHANGED <<row, batch, flush, booked>>
  BY <1>14 DEF AgeHot
<1>15. DeleteRow => ~row'.live
  BY <1>1 DEF DeleteRow
<1>16. UNCHANGED vars \/ DeleteCopies \/ Goroutine \/ AgeRedis
         => UNCHANGED <<row, batch, flush, booked>>
  BY DEF vars, DeleteCopies, Goroutine, CacheSetToken, ReadTTL, HIncrBy,
     CacheDeleteToken, AgeRedis
<1> QED BY <1>4, <1>6, <1>7, <1>8, <1>9, <1>10, <1>11, <1>12, <1>13, <1>14, <1>15, <1>16
        DEF Next, Continue, BatchUpdate

(* Every delta is applied to the row exactly once: the row and the deltas    *)
(* that the batch updaters hold add up to what was charged and returned,     *)
(* less what a failed update or a crash took with it, for any number of      *)
(* nodes and requests.                                                       *)
THEOREM TokenCacheDeltasBooked == Spec => []DeltasBooked
<1>1. Init => TakenOnce /\ RowBooked
  <2> SUFFICES ASSUME Init PROVE TakenOnce /\ RowBooked
    OBVIOUS
  <2>1. TakenOnce
    BY HandlerFacts DEF Init, TakenOnce
  <2>2. \A n \in Nodes : OnHand[n] = 0
    BY HandlerFacts DEF Init, OnHand
  <2>3. SumOf(OnHand, Nodes) = 0
    BY <2>2, CacheAssumption, SumOfZero
  <2> QED BY <2>1, <2>3, CacheAssumption DEF Init, RowBooked
<1>2. (Types /\ FlightFits) /\ (Types /\ FlightFits)' /\ TakenOnce /\ RowBooked /\ [Next]_vars
        => (TakenOnce /\ RowBooked)'
  BY TakenOnceStep, RowBookedStep
<1> QED BY <1>1, <1>2, RowBookedIs, TypesAlways, PTL DEF Spec
-----------------------------------------------------------------------------
(* The deletion.  Once it is done its node has no hot copy and, when its     *)
(* goroutine is done too, Redis has none, until somebody writes one; without *)
(* Redis there never is one.                                                 *)

Deleted ==
  /\ user \in {"deleted", "done"} => ~row.live
  /\ ~RedisEnabled => redis = None /\ \A k \in Works : async[k] = 0
  /\ user = "done" /\ cfg.how = "Delete" /\ late = {} =>
       /\ hot[cfg.user] = None
       /\ async["del"] = 0 => redis = None

LEMMA DeletedStep == Types /\ FlightFits /\ Deleted /\ [Next]_vars => Deleted'
<1> SUFFICES ASSUME Types, FlightFits, Deleted, [Next]_vars PROVE Deleted'
  OBVIOUS
<1> USE DEF Deleted, RedisEnabled
<1>1. /\ hot \in [Nodes -> Copies] /\ redis \in Copies /\ async \in [Works -> Nat]
      /\ row \in [live : BOOLEAN, quota : Int]
      /\ cfg.redis \in Nat /\ cfg.user \in Nodes
      /\ {"set", "setfragment", "ttl", "incr", "del"} \subseteq Works
  BY ScenarioFacts DEF Types, RowsOK, CopiesOK, Works
<1>2. CASE UNCHANGED <<cfg, row, hot, redis, async, user, late>>
  BY <1>2
<1>3. ASSUME NEW r \in Requests, rq[r].pc # "idle" PROVE Node(r) \in Nodes
  BY <1>3, ScenarioFacts DEF Types, FlightFits
<1>4. ASSUME NEW w \in Works, NEW c \in Nat, Spawn(w, c), w # "del"
      PROVE  async'["del"] = async["del"] /\ (~RedisEnabled => async' = async)
  BY <1>1, <1>4 DEF Spawn
<1>5. ASSUME UNCHANGED <<cfg, user, row, redis, late>>, async'["del"] = async["del"],
             ~RedisEnabled => async' = async,
             hot[cfg.user] = None => hot'[cfg.user] = None
      PROVE  Deleted'
  BY <1>5
<1>6. ASSUME NEW r \in Requests, SetHotFromRedis(r) PROVE Deleted'
  BY <1>1, <1>6 DEF SetHotFromRedis, Wrote
<1>7. ASSUME NEW r \in Requests, LeadFlight(r) PROVE Deleted'
  <2>1. async'["del"] = async["del"] /\ (~RedisEnabled => async' = async)
    BY <1>1, <1>4, <1>7 DEF LeadFlight
  <2> QED BY <1>5, <1>7, <2>1 DEF LeadFlight
<1>8. ASSUME NEW r \in Requests, SetHotFromRow(r) PROVE Deleted'
  <2>1. async'["del"] = async["del"] /\ (~RedisEnabled => async' = async)
    BY <1>1, <1>4, <1>8, SharingFacts DEF SetHotFromRow, Types
  <2> QED BY <1>1, <1>8, <2>1 DEF SetHotFromRow, Wrote
<1>9. ASSUME NEW r \in Requests, Touch(r) PROVE Deleted'
  <2>1. async'["del"] = async["del"] /\ (~RedisEnabled => async' = async)
    BY <1>1, <1>4, <1>9 DEF Touch
  <2>2. hot[cfg.user] = None => hot'[cfg.user] = None
    BY <1>1, <1>9 DEF Touch
  <2> QED BY <1>5, <1>9, <2>1, <2>2 DEF Touch
<1>10. ASSUME NEW r \in Requests, Update(r) PROVE Deleted'
  BY <1>1, <1>10 DEF Update, RowPlus
<1>11. ASSUME NEW n \in Nodes, ApplyBatch(n) PROVE Deleted'
  BY <1>1, <1>11 DEF ApplyBatch, RowPlus
<1>12. ASSUME NEW n \in Nodes, DropHot(n) PROVE hot[cfg.user] = None => hot'[cfg.user] = None
  BY <1>1, <1>12 DEF DropHot, HotWithoutId
<1>13. ASSUME NEW r \in Requests, DropAfterUpdate(r) PROVE Deleted'
  BY <1>3, <1>5, <1>12, <1>13 DEF DropAfterUpdate
<1>14. ASSUME NEW n \in Nodes, DropAfterBatch(n) PROVE Deleted'
  BY <1>5, <1>12, <1>14 DEF DropAfterBatch
<1>15. ASSUME NEW n \in Nodes, AgeHot(n) PROVE Deleted'
  BY <1>1, <1>5, <1>15 DEF AgeHot
<1>16. ASSUME NEW n \in Nodes, Crash(n) PROVE Deleted'
  <2>1. UNCHANGED <<cfg, row, redis, late>>
    BY <1>16 DEF Crash
  <2>2. PICK left \in [Works -> 0..cfg.redis + 1] :
          /\ \A k \in Works : left[k] <= async[k]
          /\ left["del"] = IF n = cfg.user THEN 0 ELSE async["del"]
          /\ async' = left
          /\ user' = IF n = cfg.user /\ (user = "deleted" \/ async["del"] > 0) THEN "gone"
                     ELSE user
    BY <1>16 DEF Crash
  <2>3. hot[cfg.user] = None => hot'[cfg.user] = None
    BY <1>1, <1>16 DEF Crash
  <2>4. ~RedisEnabled => \A k \in Works : async'[k] = 0
    BY <1>1, <2>2
  <2>5. user' \in {"deleted", "done"} => user' = user
    BY <2>2
  <2>6. user' = "done" /\ async'["del"] = 0 => async["del"] = 0
    BY <1>1, <2>2
  <2> QED BY <2>1, <2>3, <2>4, <2>5, <2>6
<1>17. CASE DeleteRow
  BY <1>1, <1>17 DEF DeleteRow
<1>18. CASE DeleteCopies
  BY <1>1, <1>18 DEF DeleteCopies, HotAfterDelete
<1>19. ASSUME NEW w \in {"set", "setfragment"}, CacheSetToken(w) PROVE Deleted'
  BY <1>1, <1>19 DEF CacheSetToken, Wrote
<1>20. CASE ReadTTL
  BY <1>1, <1>5, <1>20 DEF ReadTTL
<1>21. CASE HIncrBy
  BY <1>1, <1>21 DEF HIncrBy, Wrote
<1>22. CASE CacheDeleteToken
  BY <1>1, <1>22 DEF CacheDeleteToken
<1>23. CASE AgeRedis
  BY <1>1, <1>23 DEF AgeRedis
<1>24. ASSUME NEW r \in Requests, GetHot(r) \/ GetRedis(r) \/ JoinFlight(r) \/ NotFound(r)
              \/ Collect(r) \/ UpdateFails(r)
       PROVE  UNCHANGED <<cfg, row, hot, redis, async, user, late>>
  BY <1>24 DEF GetHot, GetRedis, JoinFlight, NotFound, Collect, UpdateFails
<1>25. ASSUME NEW n \in Nodes, TakeBatch(n) \/ ApplyFails(n)
       PROVE  UNCHANGED <<cfg, row, hot, redis, async, user, late>>
  BY <1>25 DEF TakeBatch, ApplyFails
<1>26. UNCHANGED vars => UNCHANGED <<cfg, row, hot, redis, async, user, late>>
  BY DEF vars
<1> QED BY <1>2, <1>6, <1>7, <1>8, <1>9, <1>10, <1>11, <1>13, <1>14, <1>15, <1>16, <1>17,
           <1>18, <1>19, <1>20, <1>21, <1>22, <1>23, <1>24, <1>25, <1>26
        DEF Next, Continue, BatchUpdate, Goroutine

(* After Token.Delete and its goroutine are done, neither the deleting node  *)
(* nor Redis has a copy, unless one was written after the deletion by        *)
(* someone who had read the token before.                                    *)
THEOREM TokenCacheDeleteIsImmediate == Spec => []DeleteIsImmediate
<1>1. Init => Deleted
  BY CacheAssumption DEF Init, Deleted, RedisEnabled
<1>2. Deleted => DeleteIsImmediate
  BY DEF Deleted, DeleteIsImmediate
<1> QED BY <1>1, <1>2, DeletedStep, TypesAlways, PTL DEF Spec
=============================================================================
