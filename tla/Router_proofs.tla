---------------------------- MODULE Router_proofs ----------------------------
(***************************************************************************)
(* Proofs, for any worlds, lists, sources and handlers, that the router's  *)
(* rules implement RoutingTable, that a request is answered from a list    *)
(* that was offered for its world, and that no turn of the round robin is  *)
(* lost.                                                                   *)
(***************************************************************************)
EXTENDS Router, TLAPS

-----------------------------------------------------------------------------
(* Keys *)

(* makeRuleKey yields a key, also for worlds below zero. *)
LEMMA KeyType ==
  ASSUME NEW t \in Types, NEW w \in Worlds
  PROVE  makeRuleKey(t, w) \in Keys
  BY RouterAssumption DEF makeRuleKey, Keys

(* Counters and changes are counted up to bounds that are numbers. *)
LEMMA Bounds == Cycle \in Nat \ {0} /\ MaxChanges \in Nat
  BY RouterAssumption, Zenon

-----------------------------------------------------------------------------
(* The inductive invariant *)

(* Functions where the code has maps or one value per goroutine. *)
Shapes ==
  /\ mode \in Modes
  /\ redis \in RuleSets \cup {Unavailable}
  /\ consul \in ServiceMaps \cup {Unavailable}
  /\ \A k \in DOMAIN routingConfigs :
       k \in Types \X Worlds /\ routingConfigs[k].strategy \in Strategies
  /\ loaded \in RuleSets \cup {<<>>}
  /\ DOMAIN services = Loops /\ DOMAIN updates = Loops
  /\ \A l \in Loops : \A w \in DOMAIN services[l] :
       w \in Worlds /\ services[l][w] \in Lists

(* Whatever is on its way to the router was offered by the source that     *)
(* the mode names, and the source's present contents have been, too.       *)
Sourced ==
  /\ offered \subseteq Keys \X Lists
  /\ OfferedBy(redis, consul) \subseteq offered
  /\ mode # "consul" =>
       /\ OfferedBy(loaded, consul) \subseteq offered
       /\ \A l \in Loops : DOMAIN services[l] = {}
  /\ mode = "consul" =>
       \A l \in Loops : \A w \in DOMAIN services[l] : \A t \in Types :
         <<makeRuleKey(t, w), services[l][w]>> \in offered
  /\ \A l \in Loops : \A u \in updates[l] :
       u \in Updates /\ <<u.key, u.rule.endpoints>> \in offered
  /\ \A k \in DOMAIN rules :
       rules[k] \in Rules /\ <<k, rules[k].endpoints>> \in offered

TableInv == Shapes /\ Sourced

(* Nothing is offered by an empty map. *)
LEMMA EmptyOffer ==
  ASSUME mode # "consul", NEW c
  PROVE  OfferedBy(<<>>, c) = {}
  BY DEF OfferedBy

(* Sources offer lists for keys. *)
LEMMA OfferedType ==
  ASSUME NEW r \in RuleSets \cup {Unavailable},
         NEW c \in ServiceMaps \cup {Unavailable}
  PROVE  OfferedBy(r, c) \subseteq Keys \X Lists
<1> SUFFICES ASSUME NEW p \in OfferedBy(r, c) PROVE p \in Keys \X Lists
  OBVIOUS
<1>1. CASE mode = "consul"
  <2>1. PICK w \in DOMAIN c, t \in Types : p = <<makeRuleKey(t, w), c[w]>>
    BY <1>1 DEF OfferedBy
  <2>2. w \in Worlds /\ c[w] \in Lists
    BY <1>1, RouterAssumption DEF OfferedBy
  <2> QED
    BY <2>1, <2>2, KeyType
<1>2. CASE mode # "consul"
  <2>1. PICK k \in DOMAIN r :
          p = <<makeRuleKey(k[1], k[2]), r[k].endpoints>>
    BY <1>2 DEF OfferedBy
  <2>2. k[1] \in Types /\ k[2] \in Worlds /\ r[k].endpoints \in Lists
    BY <1>2, RouterAssumption DEF OfferedBy
  <2> QED
    BY <2>1, <2>2, KeyType
<1> QED
  BY <1>1, <1>2

(* A new router has no rules, and none are under way. *)
LEMMA InitInv == Init => TableInv
<1> SUFFICES ASSUME Init PROVE TableInv
  OBVIOUS
<1>1. Shapes
  BY DEF Init, Shapes
<1>2. offered \subseteq Keys \X Lists
  BY OfferedType DEF Init
<1>3. mode # "consul" => OfferedBy(loaded, consul) \subseteq offered
  BY EmptyOffer DEF Init
<1>4. Sourced
  BY <1>2, <1>3 DEF Init, Sourced
<1> QED
  BY <1>1, <1>4 DEF TableInv

(* What UpdateRule is called with after Redis was read. *)
LEMMA RedisRules ==
  ASSUME mode # "consul", NEW c, NEW r \in RuleSets \cup {<<>>}
  PROVE  \A u \in FromRedis(r) :
           u \in Updates /\ <<u.key, u.rule.endpoints>> \in OfferedBy(r, c)
<1>1. CASE r = <<>>
  BY <1>1 DEF FromRedis
<1>2. CASE r \in RuleSets
  <2> TAKE u \in FromRedis(r)
  <2>1. PICK k \in DOMAIN r :
          u = [key |-> makeRuleKey(k[1], k[2]),
               rule |-> [strategy |-> r[k].strategy,
                         endpoints |-> r[k].endpoints]]
    BY DEF FromRedis
  <2>2. /\ k[1] \in Types /\ k[2] \in Worlds
        /\ r[k].strategy \in Strategies /\ r[k].endpoints \in Lists
    BY <1>2, RouterAssumption
  <2>3. u \in Updates
    BY <2>1, <2>2, KeyType DEF Updates, Rules
  <2>4. <<makeRuleKey(k[1], k[2]), r[k].endpoints>> \in OfferedBy(r, c)
    BY <1>2, RouterAssumption DEF OfferedBy
  <2> QED
    BY <2>1, <2>3, <2>4
<1> QED
  BY <1>1, <1>2

(* What it is called with for a world of Consul's answer. *)
LEMMA ConsulRules ==
  ASSUME Shapes, NEW w \in Worlds, NEW list \in Lists
  PROVE  \A u \in RulesFor(w, list) :
           /\ u \in Updates /\ u.rule.endpoints = list
           /\ \E t \in Types : u.key = makeRuleKey(t, w)
<1> TAKE u \in RulesFor(w, list)
<1>1. PICK t \in Types, y \in Strategies :
        u = [key |-> makeRuleKey(t, w),
             rule |-> [strategy |-> y, endpoints |-> list]]
  BY RouterAssumption DEF RulesFor, Matching, Shapes, Strategies
<1>2. makeRuleKey(t, w) \in Keys
  BY KeyType
<1> QED
  BY <1>1, <1>2 DEF Updates, Rules

(* Every step keeps the shapes. *)
LEMMA ShapesStep == TableInv /\ [Next]_vars => Shapes'
<1> SUFFICES ASSUME TableInv, [Next]_vars PROVE Shapes'
  OBVIOUS
<1> USE DEF TableInv, Shapes, Goto
<1>1. CASE SourcesChange
  BY <1>1 DEF SourcesChange, table, loops
<1>2. ASSUME NEW r \in RuleSets \cup {<<>>}, routingConfigs' = Stored(r),
             loaded' \in {loaded, <<>>}, DOMAIN updates' = Loops,
             UNCHANGED <<mode, sources, services>>
      PROVE  Shapes'
  <2>1. ASSUME NEW k \in DOMAIN r
        PROVE  k \in Types \X Worlds /\ r[k].strategy \in Strategies
    BY <1>2, RouterAssumption
  <2>2. \A k \in DOMAIN Stored(r) : /\ k \in Types \X Worlds
                                   /\ Stored(r)[k].strategy \in Strategies
    BY <2>1 DEF Stored
  <2> QED
    BY <1>2, <2>2 DEF sources
<1>3. CASE LoadInitial
  BY <1>2, <1>3 DEF LoadInitial
<1>4. CASE LoadRoutingRules
  BY <1>4 DEF LoadRoutingRules, sources, table
<1>5. CASE StoreConfigs
  BY <1>2, <1>5 DEF StoreConfigs
<1>6. ASSUME NEW l \in Loops, DiscoverServices(l) PROVE Shapes'
  BY <1>6, RouterAssumption DEF DiscoverServices, sources, table
<1>7. ASSUME NEW l \in Loops, MergeBegin(l) \/ UpdateRule(l) \/ Refreshed(l)
      PROVE  Shapes'
  BY <1>7 DEF MergeBegin, UpdateRule, Refreshed, sources, table
<1>8. ASSUME NEW l \in Loops, MergeWorld(l) PROVE Shapes'
  BY <1>8 DEF MergeWorld, sources, table
<1>9. ASSUME NEW h \in Handlers, Request(h) PROVE Shapes'
  BY <1>9 DEF Request, RouteByServerID, FindCounter, CreateCounter, TakeTurn,
              RequestDone, sources, table, loops
<1>10. CASE UNCHANGED vars
  BY <1>10 DEF vars, sources, table, loops
<1> QED
  BY <1>1, <1>3, <1>4, <1>5, <1>6, <1>7, <1>8, <1>9, <1>10 DEF Next, Refresh

(* Every step keeps what the router has, and will have, to what a source   *)
(* offered.                                                                *)
LEMMA SourcedStep == TableInv /\ [Next]_vars => Sourced'
<1> SUFFICES ASSUME TableInv, [Next]_vars PROVE Sourced'
  OBVIOUS
<1>0. Shapes /\ Sourced
  BY DEF TableInv
<1> USE DEF Goto
<1>1. CASE SourcesChange
  <2>1. /\ offered' = offered \cup OfferedBy(redis', consul')
        /\ OfferedBy(redis', consul') \subseteq Keys \X Lists
        /\ UNCHANGED <<mode, rules, loaded, services, updates>>
    BY <1>1, OfferedType DEF SourcesChange, table, loops
  <2>2. OfferedBy(redis, consul)' = OfferedBy(redis', consul')
    BY <2>1 DEF OfferedBy
  <2>3. mode # "consul" => OfferedBy(loaded, consul)' = OfferedBy(loaded, consul)
    BY <2>1 DEF OfferedBy
  <2> QED
    BY <1>0, <2>1, <2>2, <2>3 DEF Sourced
<1>2. ASSUME NEW l \in Loops, UNCHANGED <<mode, sources, rules, services>>,
             loaded' \in {loaded, redis, <<>>},
             \/ updates' = updates
             \/ \E r \in RuleSets \cup {<<>>} :
                  /\ mode # "consul"
                  /\ OfferedBy(r, consul) \subseteq offered
                  /\ updates' = [updates EXCEPT ![l] = FromRedis(r)]
             \/ updates' = [updates EXCEPT ![l] = {}]
      PROVE  Sourced'
  <2>1. OfferedBy(redis, consul)' = OfferedBy(redis, consul)
    BY <1>2 DEF OfferedBy, sources
  <2>2. mode # "consul" => OfferedBy(loaded, consul)' \subseteq offered
    BY <1>0, <1>2, EmptyOffer DEF OfferedBy, Sourced, sources
  <2>3. \A m \in Loops : \A u \in updates'[m] :
          u \in Updates /\ <<u.key, u.rule.endpoints>> \in offered
    <3>1. CASE updates' = updates \/ updates' = [updates EXCEPT ![l] = {}]
      BY <1>0, <3>1 DEF Sourced, Shapes
    <3>2. CASE \E r \in RuleSets \cup {<<>>} :
                 /\ mode # "consul"
                 /\ OfferedBy(r, consul) \subseteq offered
                 /\ updates' = [updates EXCEPT ![l] = FromRedis(r)]
      BY <1>0, <3>2, RedisRules DEF Sourced, Shapes
    <3> QED
      BY <1>2, <3>1, <3>2
  <2> QED
    BY <1>0, <1>2, <2>1, <2>2, <2>3 DEF Sourced, sources
<1>3. CASE LoadInitial
  <2> DEFINE r == IF redis = Unavailable THEN <<>> ELSE redis
  <2>1. r \in RuleSets \cup {<<>>}
    BY <1>0 DEF Shapes
  <2>2. mode # "consul" => OfferedBy(r, consul) \subseteq offered
    BY <1>0, EmptyOffer DEF Sourced
  <2>3. /\ "redis" \in Loops
        /\ UNCHANGED <<mode, sources, rules, services>> /\ loaded' = loaded
        /\ updates' = [updates EXCEPT !["redis"] =
                         IF mode = "redis" THEN FromRedis(r) ELSE {}]
    BY <1>3 DEF LoadInitial, Loops
  <2> HIDE DEF r
  <2>4. CASE mode = "redis"
    BY <1>2, <2>1, <2>2, <2>3, <2>4
  <2>5. CASE mode # "redis"
    BY <1>2, <2>3, <2>5
  <2> QED
    BY <2>4, <2>5
<1>4. CASE LoadRoutingRules
  <2>1. /\ "redis" \in Loops
        /\ UNCHANGED <<mode, sources, rules, services>>
        /\ loaded' \in {loaded, redis, <<>>} /\ updates' = updates
    BY <1>4 DEF LoadRoutingRules, table, Loops
  <2> QED
    BY <1>2, <2>1
<1>5. CASE StoreConfigs
  <2>1. /\ "redis" \in Loops
        /\ UNCHANGED <<mode, sources, rules, services>> /\ loaded' = <<>>
        /\ \/ updates' = updates
           \/ /\ mode # "consul"
              /\ updates' = [updates EXCEPT !["redis"] = FromRedis(loaded)]
    BY <1>5 DEF StoreConfigs, Loops
  <2>2. loaded \in RuleSets \cup {<<>>}
        /\ (mode # "consul" => OfferedBy(loaded, consul) \subseteq offered)
    BY <1>0 DEF Shapes, Sourced
  <2>3. CASE updates' = updates
    BY <1>2, <2>1, <2>3
  <2>4. CASE /\ mode # "consul"
             /\ updates' = [updates EXCEPT !["redis"] = FromRedis(loaded)]
    BY <1>2, <2>1, <2>2, <2>4
  <2> QED
    BY <2>1, <2>3, <2>4
<1>6. ASSUME NEW l \in Loops, DiscoverServices(l) PROVE Sourced'
  <2>1. OfferedBy(redis, consul)' = OfferedBy(redis, consul)
    <3>1. UNCHANGED <<mode, redis, consul>>
      BY <1>6 DEF DiscoverServices, sources
    <3> QED
      BY <3>1 DEF OfferedBy
  <2>2. ASSUME consul # Unavailable, NEW w \in DOMAIN consul, NEW t \in Types
        PROVE  <<makeRuleKey(t, w), consul[w]>> \in offered
    BY <1>0, <1>6, <2>2 DEF DiscoverServices, Sourced, OfferedBy
  <2> QED
    BY <1>0, <1>6, <2>1, <2>2
       DEF DiscoverServices, Sourced, Shapes, sources, table
<1>10. CASE UNCHANGED <<mode, sources, table, loaded, services, updates>>
  BY <1>0, <1>10 DEF Sourced, OfferedBy, sources, table
<1>7. ASSUME NEW l \in Loops, MergeBegin(l) \/ Refreshed(l) PROVE Sourced'
  <2>1. UNCHANGED <<mode, sources, table, loaded, services, updates>>
    BY <1>7 DEF MergeBegin, Refreshed
  <2> QED
    BY <1>10, <2>1
<1>8. ASSUME NEW l \in Loops, MergeWorld(l) PROVE Sourced'
  <2>1. PICK w \in DOMAIN services[l] :
          /\ updates' = [updates EXCEPT ![l] = RulesFor(w, services[l][w])]
          /\ services' = [services EXCEPT ![l] =
                            [v \in DOMAIN services[l] \ {w} |-> services[l][v]]]
    BY <1>8 DEF MergeWorld
  <2>2. UNCHANGED <<mode, redis, consul, offered, rules, loaded>>
    BY <1>8 DEF MergeWorld, sources, table
  <2>3. (OfferedBy(redis, consul))' = OfferedBy(redis, consul)
        /\ (OfferedBy(loaded, consul))' = OfferedBy(loaded, consul)
    BY <2>2 DEF OfferedBy
  <2>4. mode = "consul" /\ w \in Worlds /\ services[l][w] \in Lists
    BY <1>0, <2>1 DEF Sourced, Shapes
  <2>5. \A u \in RulesFor(w, services[l][w]) :
          u \in Updates /\ <<u.key, u.rule.endpoints>> \in offered
    <3> TAKE u \in RulesFor(w, services[l][w])
    <3>1. PICK t \in Types : u.key = makeRuleKey(t, w)
      BY <1>0, <2>4, ConsulRules
    <3>2. u \in Updates /\ u.rule.endpoints = services[l][w]
      BY <1>0, <2>4, ConsulRules
    <3>3. <<makeRuleKey(t, w), services[l][w]>> \in offered
      BY <1>0, <2>4 DEF Sourced
    <3> QED
      BY <3>1, <3>2, <3>3
  <2> QED
    BY <1>0, <2>1, <2>2, <2>3, <2>4, <2>5 DEF Sourced, Shapes
<1>9. ASSUME NEW l \in Loops, UpdateRule(l) PROVE Sourced'
  <2>1. PICK u \in updates[l] :
          /\ rules' = Put(rules, u.key, u.rule)
          /\ updates' = [updates EXCEPT ![l] = updates[l] \ {u}]
    BY <1>9 DEF UpdateRule
  <2>2. UNCHANGED <<mode, redis, consul, offered, services, loaded>>
    BY <1>9 DEF UpdateRule, sources
  <2>3. (OfferedBy(redis, consul))' = OfferedBy(redis, consul)
        /\ (OfferedBy(loaded, consul))' = OfferedBy(loaded, consul)
    BY <2>2 DEF OfferedBy
  <2>4. u.rule \in Rules /\ <<u.key, u.rule.endpoints>> \in offered
    BY <1>0 DEF Sourced, Updates
  <2>5. \A k \in DOMAIN rules' :
          rules'[k] \in Rules /\ <<k, rules'[k].endpoints>> \in offered
    <3>1. /\ DOMAIN rules' = DOMAIN rules \cup {u.key}
          /\ rules'[u.key] = u.rule
          /\ \A k \in DOMAIN rules : k # u.key => rules'[k] = rules[k]
      BY <2>1 DEF Put
    <3> QED
      BY <1>0, <2>4, <3>1 DEF Sourced
  <2> QED
    BY <1>0, <2>1, <2>2, <2>3, <2>5 DEF Sourced, Shapes
<1>11. ASSUME NEW h \in Handlers, Request(h)
       PROVE  UNCHANGED <<mode, sources, table, loaded, services, updates>>
  BY <1>11 DEF Request, RouteByServerID, FindCounter, CreateCounter, TakeTurn,
               RequestDone, loops
<1>12. UNCHANGED vars
         => UNCHANGED <<mode, sources, table, loaded, services, updates>>
  BY DEF vars, loops
<1> QED
  BY <1>1, <1>3, <1>4, <1>5, <1>6, <1>7, <1>8, <1>9, <1>10, <1>11, <1>12
     DEF Next, Refresh

(* The rules and all that is on its way to them is what a source offered.  *)
LEMMA TableInvariant == Spec => []TableInv
<1>1. TableInv /\ [Next]_vars => TableInv'
  BY ShapesStep, SourcedStep DEF TableInv
<1> QED
  BY <1>1, InitInv, PTL DEF Spec

-----------------------------------------------------------------------------
(* Refinement *)

(* The lists of the rules, which the refinement mapping takes for the      *)
(* table.                                                                  *)
Tabled == [k \in DOMAIN rules |-> rules[k].endpoints]

(* UpdateRule is an Install of RoutingTable, a change of the sources an    *)
(* Offer, and no other step touches either.                                *)
LEMMA TableStep == TableInv /\ [Next]_vars => [T!Next]_<<Tabled, offered>>
<1> SUFFICES ASSUME TableInv, [Next]_vars
             PROVE  T!Next \/ (Tabled' = Tabled /\ offered' = offered)
  BY DEF Tabled
<1>0. Shapes /\ Sourced /\ Sourced'
  BY SourcedStep DEF TableInv
<1>1. CASE UNCHANGED <<rules, offered>>
  BY <1>1 DEF Tabled
<1>2. CASE SourcesChange
  <2>1. Tabled' = Tabled /\ offered \subseteq offered'
    BY <1>2 DEF SourcesChange, table, Tabled
  <2>2. offered' \subseteq Keys \X Lists
    BY <1>0 DEF Sourced
  <2> QED
    BY <2>1, <2>2 DEF T!Next, T!Offer, Tabled
<1>3. ASSUME NEW l \in Loops, UpdateRule(l) PROVE T!Next
  <2>1. PICK u \in updates[l] : rules' = Put(rules, u.key, u.rule)
    BY <1>3 DEF UpdateRule
  <2>2. offered' = offered
    BY <1>3 DEF UpdateRule, sources
  <2> DEFINE p == <<u.key, u.rule.endpoints>>
  <2>3. p \in offered
    BY <1>0 DEF Sourced
  <2>4. Tabled' = [k \in DOMAIN Tabled \cup {p[1]} |->
                     IF k = p[1] THEN p[2] ELSE Tabled[k]]
    BY <2>1 DEF Tabled, Put
  <2> QED
    BY <2>2, <2>3, <2>4 DEF T!Next, T!Install, Tabled
<1>4. CASE LoadInitial \/ LoadRoutingRules \/ StoreConfigs
  BY <1>1, <1>4 DEF LoadInitial, LoadRoutingRules, StoreConfigs, sources, table
<1>5. ASSUME NEW l \in Loops,
             DiscoverServices(l) \/ MergeBegin(l) \/ MergeWorld(l)
               \/ Refreshed(l)
      PROVE  UNCHANGED <<rules, offered>>
  BY <1>5 DEF DiscoverServices, MergeBegin, MergeWorld, Refreshed, sources, table
<1>6. ASSUME NEW h \in Handlers, Request(h) PROVE UNCHANGED <<rules, offered>>
  BY <1>6 DEF Request, RouteByServerID, FindCounter, CreateCounter, TakeTurn,
              RequestDone, sources, table
<1>7. CASE UNCHANGED vars
  BY <1>1, <1>7 DEF vars, sources, table
<1> QED
  BY <1>1, <1>2, <1>3, <1>4, <1>5, <1>6, <1>7 DEF Next, Refresh

(* The two refresh loops together implement RoutingTable: a routable key   *)
(* stays routable whatever the sources do, and UpdateRule only files a     *)
(* list under a key it was offered for.                                    *)
THEOREM ImplementsTableCorrect == Spec => ImplementsTable
<1>1. Init => T!Init
  <2> SUFFICES ASSUME Init PROVE T!Init
    OBVIOUS
  <2>1. Tabled = <<>>
    BY DEF Init, Tabled
  <2>2. offered \subseteq Keys \X Lists
    BY InitInv DEF TableInv, Sourced
  <2> QED
    BY <2>1, <2>2 DEF T!Init, Tabled
<1>2. TableInv /\ [Next]_vars => [T!Next]_<<Tabled, offered>>
  BY TableStep
<1> QED
  BY <1>1, <1>2, TableInvariant, PTL DEF Spec, ImplementsTable, T!Spec, Tabled

-----------------------------------------------------------------------------
(* Requests *)

Points == {"idle", "counter", "create", "add", "routed"}

(* The keys whose rules may answer a handler. *)
AskedKeys(h) == {makeRuleKey(ask[h][1], ask[h][2]), makeRuleKey(ask[h][1], 0)}

(* While a handler waits for its turn it holds a rule with endpoints that  *)
(* were offered for what it asked.                                         *)
Waiting(h) ==
  pc[h] \in {"counter", "create", "add"} =>
    /\ rule[h].endpoints \in Lists /\ rule[h].endpoints # <<>>
    /\ \E k \in AskedKeys(h) : <<k, rule[h].endpoints>> \in offered

RequestInv ==
  /\ pc \in [Handlers -> Points]
  /\ DOMAIN ask = Handlers /\ DOMAIN rule = Handlers
  /\ DOMAIN counter = Handlers /\ DOMAIN answer = Handlers
  /\ \A h \in Handlers : ask[h][1] \in Types /\ ask[h][2] \in Worlds
  /\ \A h \in Handlers : Waiting(h)

(* A key has no counter, or one that stands at the turns taken; and that   *)
(* one is what a handler about to take a turn holds.                       *)
TurnInv ==
  /\ DOMAIN counters = Keys /\ DOMAIN value = Keys /\ DOMAIN turns = Keys
  /\ \A k \in Keys :
       \/ counters[k] = 0 /\ value[k] = <<>> /\ turns[k] = 0
       \/ counters[k] = 1 /\ value[k] = <<turns[k]>>
  /\ \A k \in Keys : turns[k] \in 0..(Cycle - 1)
  /\ \A h \in Handlers : pc[h] = "add" =>
       counter[h] = 1 /\ counters[CounterKey(h)] = 1

(* A list has an entry at every number modulo its length. *)
LEMMA EntryOf ==
  ASSUME NEW list \in Lists, list # <<>>, NEW x \in Nat
  PROVE  (x % Len(list)) + 1 \in DOMAIN list
<1>1. list \in Seq(STRING)
  BY RouterAssumption
<1>2. Len(list) \in Nat \ {0} /\ DOMAIN list = 1..Len(list)
  BY <1>1
<1> QED
  BY <1>2

(* The counters' key of a handler is a key. *)
LEMMA CounterKeyType ==
  ASSUME RequestInv, NEW h \in Handlers
  PROVE  CounterKey(h) \in Keys
  BY KeyType DEF RequestInv, CounterKey

(* The rule GetRule finds is filed under a key that may answer. *)
LEMMA GetRuleKey ==
  ASSUME NEW t, NEW w
  PROVE  GetRule(t, w) \in {makeRuleKey(t, w), makeRuleKey(t, 0)}
  BY DEF GetRule

(* The turns of the round robin, kept by every step. *)
LEMMA TurnStep == RequestInv /\ TurnInv /\ [Next]_vars => TurnInv'
<1> SUFFICES ASSUME RequestInv, TurnInv, [Next]_vars PROVE TurnInv'
  OBVIOUS
<1> USE DEF RequestAt
<1>1. CASE UNCHANGED requests
  <2>1. UNCHANGED <<counters, value, turns, pc, ask, counter>>
    BY <1>1 DEF requests
  <2> QED
    BY <2>1 DEF TurnInv, CounterKey
<1>2. ASSUME NEW h \in Handlers, RouteByServerID(h) PROVE TurnInv'
  <2>1. /\ UNCHANGED <<counters, value, turns, counter>>
        /\ \A g \in Handlers : pc'[g] = "add" => g # h /\ pc[g] = "add"
        /\ \A g \in Handlers : g # h => ask'[g] = ask[g]
    BY <1>2 DEF RouteByServerID, RequestInv
  <2> QED
    BY <2>1 DEF TurnInv, CounterKey
<1>3. ASSUME NEW h \in Handlers, FindCounter(h) PROVE TurnInv'
  <2>1. CounterKey(h) \in Keys
    BY CounterKeyType
  <2>2. UNCHANGED <<counters, value, turns, ask>>
    BY <1>3 DEF FindCounter
  <2>3. ASSUME NEW g \in Handlers, pc'[g] = "add"
        PROVE  counter'[g] = 1 /\ counters[CounterKey(g)] = 1
    <3>1. CASE g = h
      BY <1>3, <2>1, <2>3, <3>1 DEF FindCounter, RequestInv, TurnInv
    <3>2. CASE g # h
      BY <1>3, <2>3, <3>2 DEF FindCounter, RequestInv, TurnInv
    <3> QED
      BY <3>1, <3>2
  <2> QED
    BY <2>2, <2>3 DEF TurnInv, CounterKey
<1>4. ASSUME NEW h \in Handlers, CreateCounter(h) PROVE TurnInv'
  <2> DEFINE k == CounterKey(h)
  <2>1. k \in Keys
    BY CounterKeyType
  <2>2. UNCHANGED <<turns, ask>>
    BY <1>4 DEF CreateCounter
  <2>3. /\ DOMAIN counters' = Keys /\ DOMAIN value' = Keys
        /\ counters'[k] = 1 /\ value'[k] = <<turns[k]>>
        /\ \A j \in Keys : j # k => /\ counters'[j] = counters[j]
                                   /\ value'[j] = value[j]
    <3>1. CASE counters[k] # 0
      BY <1>4, <2>1, <3>1 DEF CreateCounter, TurnInv
    <3>2. CASE counters[k] = 0
      <4>1. value[k] = <<>> /\ turns[k] = 0
        BY <2>1, <3>2 DEF TurnInv
      <4>2. /\ value' = [value EXCEPT ![k] = Append(value[k], 0)]
            /\ counters' = [counters EXCEPT ![k] = Len(value[k]) + 1]
        BY <1>4, <3>2 DEF CreateCounter
      <4> QED
        BY <2>1, <4>1, <4>2 DEF TurnInv
    <3> QED
      BY <3>1, <3>2
  <2>4. \A j \in Keys : \/ counters'[j] = 0 /\ value'[j] = <<>> /\ turns[j] = 0
                        \/ counters'[j] = 1 /\ value'[j] = <<turns[j]>>
    BY <2>3 DEF TurnInv
  <2>5. /\ DOMAIN counter' = Handlers /\ counter'[h] = 1
        /\ \A g \in Handlers : g # h => counter'[g] = counter[g] /\ pc'[g] = pc[g]
    BY <1>4, <2>3 DEF CreateCounter, RequestInv
  <2>6. ASSUME NEW g \in Handlers, pc'[g] = "add"
        PROVE  counter'[g] = 1 /\ counters'[CounterKey(g)] = 1
    <3>1. CounterKey(g) \in Keys
      BY CounterKeyType
    <3>2. CASE g = h
      BY <2>3, <2>5, <3>2
    <3>3. CASE g # h
      BY <2>3, <2>5, <2>6, <3>1, <3>3 DEF TurnInv
    <3> QED
      BY <3>2, <3>3
  <2> QED
    BY <2>2, <2>3, <2>4, <2>6 DEF TurnInv, CounterKey
<1>5. ASSUME NEW h \in Handlers, TakeTurn(h) PROVE TurnInv'
  <2> DEFINE k == CounterKey(h)
  <2> DEFINE n == (turns[k] + 1) % Cycle
  <2>1. k \in Keys
    BY CounterKeyType
  <2>2. UNCHANGED <<counters, ask>> /\ counters[k] = 1 /\ counter[h] = 1
    BY <1>5 DEF TakeTurn, TurnInv
  <2>3. value[k] = <<turns[k]>>
    BY <2>1, <2>2 DEF TurnInv
  <2>4. /\ value' = [value EXCEPT ![k] = [value[k] EXCEPT ![1] = n]]
        /\ turns' = [turns EXCEPT ![k] = n]
    BY <1>5, <2>1, <2>2, <2>3 DEF TakeTurn
  <2>5. n \in 0..(Cycle - 1)
    BY <2>1, Bounds DEF TurnInv
  <2>6. /\ DOMAIN value' = Keys /\ DOMAIN turns' = Keys
        /\ value'[k] = <<n>> /\ turns'[k] = n
        /\ \A j \in Keys : j # k => /\ value'[j] = value[j]
                                   /\ turns'[j] = turns[j]
    <3> HIDE DEF n, k
    <3> QED
      BY <2>1, <2>3, <2>4 DEF TurnInv
  <2>7. ASSUME NEW g \in Handlers, pc'[g] = "add"
        PROVE  counter'[g] = 1 /\ counters[CounterKey(g)] = 1
    BY <1>5, <2>7 DEF TakeTurn, RequestInv, TurnInv
  <2> HIDE DEF n, k
  <2>8. \A j \in Keys :
          /\ \/ counters[j] = 0 /\ value'[j] = <<>> /\ turns'[j] = 0
             \/ counters[j] = 1 /\ value'[j] = <<turns'[j]>>
          /\ turns'[j] \in 0..(Cycle - 1)
    BY <2>2, <2>5, <2>6 DEF TurnInv
  <2> QED
    BY <2>2, <2>6, <2>7, <2>8 DEF TurnInv, CounterKey
<1>6. ASSUME NEW h \in Handlers, RequestDone(h) PROVE TurnInv'
  <2>1. /\ UNCHANGED <<counters, value, turns, counter>>
        /\ \A g \in Handlers : pc'[g] = "add" => g # h /\ pc[g] = "add"
        /\ \A g \in Handlers : g # h => ask'[g] = ask[g]
    BY <1>6 DEF RequestDone, RequestInv
  <2> QED
    BY <2>1 DEF TurnInv, CounterKey
<1>7. \/ SourcesChange \/ LoadInitial \/ LoadRoutingRules \/ StoreConfigs
      \/ (\E l \in Loops : Refresh(l)) \/ UNCHANGED vars
      => UNCHANGED requests
  BY DEF SourcesChange, LoadInitial, LoadRoutingRules, StoreConfigs, Refresh,
         DiscoverServices, MergeBegin, MergeWorld, UpdateRule, Refreshed, vars
<1> QED
  BY <1>1, <1>2, <1>3, <1>4, <1>5, <1>6, <1>7 DEF Next, Request

(* AnswerOffered for one handler. *)
Answered(h) ==
  pc[h] = "routed" =>
    \E p \in offered : p[1] \in AskedKeys(h)
                       /\ \E i \in DOMAIN p[2] : answer[h] = p[2][i]

(* What has been offered stays so. *)
LEMMA OfferedGrows == [Next]_vars => offered \subseteq offered'
  BY DEF Next, SourcesChange, LoadInitial, LoadRoutingRules, StoreConfigs,
         Refresh, DiscoverServices, MergeBegin, MergeWorld, UpdateRule,
         Refreshed, Request, RouteByServerID, FindCounter, CreateCounter,
         TakeTurn, RequestDone, vars, sources

(* An untouched request waits, and is answered, as before. *)
LEMMA RequestKept ==
  ASSUME [Next]_vars, NEW h \in Handlers, pc'[h] = pc[h], ask'[h] = ask[h],
         rule'[h] = rule[h], answer'[h] = answer[h]
  PROVE  (Waiting(h) => Waiting(h)') /\ (Answered(h) => Answered(h)')
<1>1. AskedKeys(h)' = AskedKeys(h)
  BY DEF AskedKeys
<1>2. Waiting(h) => Waiting(h)'
  BY <1>1, OfferedGrows DEF Waiting
<1>3. Answered(h) => Answered(h)'
  BY <1>1, OfferedGrows DEF Answered
<1> QED
  BY <1>2, <1>3

(* One request's step: what it holds, or its answer, was offered. *)
LEMMA OwnStep ==
  ASSUME TableInv, RequestInv, TurnInv, [Next]_vars,
         NEW h \in Handlers, Request(h)
  PROVE  /\ pc' \in [Handlers -> Points]
         /\ DOMAIN ask' = Handlers /\ DOMAIN rule' = Handlers
         /\ DOMAIN counter' = Handlers /\ DOMAIN answer' = Handlers
         /\ ask'[h][1] \in Types /\ ask'[h][2] \in Worlds
         /\ Waiting(h)' /\ (Answered(h) => Answered(h)')
         /\ \A g \in Handlers : g # h =>
              /\ pc'[g] = pc[g] /\ ask'[g] = ask[g]
              /\ rule'[g] = rule[g] /\ answer'[g] = answer[g]
<1> USE DEF RequestAt, Points
<1>1. CASE RouteByServerID(h)
  <2>1. PICK a \in Asks :
          LET k == GetRule(a[1], a[2])
          IN /\ k \in DOMAIN rules /\ rules[k].endpoints # <<>>
             /\ ask' = [ask EXCEPT ![h] = a]
             /\ \/ /\ pc' = [pc EXCEPT ![h] = "counter"]
                   /\ rule' = [rule EXCEPT ![h] = rules[k]]
                   /\ answer' = answer
                \/ /\ pc' = [pc EXCEPT ![h] = "routed"]
                   /\ rule' = rule
                   /\ \E x \in Hashed(rules[k], a[2], a[3]) :
                        answer' = [answer EXCEPT ![h] = rules[k].endpoints[
                                     (x % Len(rules[k].endpoints)) + 1]]
    BY <1>1 DEF RouteByServerID
  <2> DEFINE k == GetRule(a[1], a[2])
             list == rules[k].endpoints
  <2>2. a[1] \in Types /\ a[2] \in Worlds /\ a[3] \in Nat
    BY RouterAssumption
  <2>3. list \in Lists /\ list # <<>> /\ <<k, list>> \in offered
    BY <2>1 DEF TableInv, Sourced, Rules
  <2>4. ask'[h] = a /\ AskedKeys(h)' = {makeRuleKey(a[1], a[2]),
                                       makeRuleKey(a[1], 0)}
    BY <2>1 DEF AskedKeys, RequestInv
  <2>5. k \in AskedKeys(h)'
    BY <2>4, GetRuleKey
  <2>6. offered' = offered /\ counter' = counter
    BY <1>1 DEF RouteByServerID, sources
  <2>7. Waiting(h)'
    BY <2>1, <2>3, <2>5, <2>6 DEF Waiting, RequestInv
  <2>8. Answered(h)'
    <3>1. CASE pc'[h] # "routed"
      BY <3>1 DEF Answered
    <3>2. CASE pc'[h] = "routed"
      <4>1. PICK x \in Hashed(rules[k], a[2], a[3]) :
              answer' = [answer EXCEPT ![h] = list[(x % Len(list)) + 1]]
        BY <2>1, <3>2 DEF RequestInv
      <4>2. x \in Nat
        BY <2>2, RouterAssumption DEF Hashed
      <4>3. (x % Len(list)) + 1 \in DOMAIN list
        BY <2>3, <4>2, EntryOf
      <4>4. answer'[h] = list[(x % Len(list)) + 1]
        BY <4>1 DEF RequestInv
      <4> HIDE DEF list, k
      <4>5. \E i \in DOMAIN list : answer'[h] = list[i]
        BY <4>3, <4>4
      <4> QED
        BY <2>3, <2>5, <2>6, <4>5 DEF Answered
    <3> QED
      BY <3>1, <3>2
  <2>9. \A g \in Handlers : g # h =>
          /\ pc'[g] = pc[g] /\ ask'[g] = ask[g]
          /\ rule'[g] = rule[g] /\ answer'[g] = answer[g]
    BY <2>1 DEF RequestInv
  <2>10. /\ pc' \in [Handlers -> Points]
         /\ DOMAIN ask' = Handlers /\ DOMAIN rule' = Handlers
         /\ DOMAIN counter' = Handlers /\ DOMAIN answer' = Handlers
    BY <2>1, <2>6 DEF RequestInv
  <2> QED
    BY <2>2, <2>4, <2>7, <2>8, <2>9, <2>10
<1>2. CASE FindCounter(h) \/ CreateCounter(h)
  <2>1. UNCHANGED <<ask, rule, answer, offered>>
    BY <1>2 DEF FindCounter, CreateCounter, sources
  <2>2. /\ pc[h] \in {"counter", "create"} /\ pc'[h] \in {"create", "add"}
        /\ pc' \in [Handlers -> Points] /\ DOMAIN counter' = Handlers
        /\ \A g \in Handlers : g # h => pc'[g] = pc[g]
    BY <1>2 DEF FindCounter, CreateCounter, RequestInv
  <2>3. AskedKeys(h)' = AskedKeys(h)
    BY <2>1 DEF AskedKeys
  <2>4. Waiting(h)' /\ Answered(h)'
    BY <2>1, <2>2, <2>3 DEF Waiting, Answered, RequestInv
  <2> QED
    BY <2>1, <2>2, <2>4 DEF RequestInv
<1>3. CASE TakeTurn(h)
  <2> DEFINE list == rule[h].endpoints
             v == value[CounterKey(h)][counter[h]]
  <2>1. UNCHANGED <<ask, offered>>
    BY <1>3 DEF TakeTurn, sources
  <2>2. PICK k \in AskedKeys(h) : <<k, list>> \in offered
    BY <1>3 DEF TakeTurn, RequestInv, Waiting
  <2>3. list \in Lists /\ list # <<>>
    BY <1>3 DEF TakeTurn, RequestInv, Waiting
  <2>4. v \in Nat
    <3>1. PICK c \in Keys : c = CounterKey(h)
      BY CounterKeyType
    <3>2. counter[h] = 1 /\ counters[c] = 1
      BY <1>3, <3>1 DEF TakeTurn, TurnInv
    <3>3. /\ counters[c] = 0 \/ value[c] = <<turns[c]>>
          /\ turns[c] \in 0..(Cycle - 1)
      BY Zenon DEF TurnInv
    <3>4. value[c] = <<turns[c]>>
      BY <3>2, <3>3
    <3>5. v = turns[c]
      BY <3>1, <3>2, <3>4
    <3> QED
      BY <3>3, <3>5, Bounds
  <2>5. (v % Len(list)) + 1 \in DOMAIN list
    BY <2>3, <2>4, EntryOf
  <2>6. /\ answer' = [answer EXCEPT ![h] = list[(v % Len(list)) + 1]]
        /\ pc' = [pc EXCEPT ![h] = "routed"]
        /\ rule' = [rule EXCEPT ![h] = NoRule]
        /\ counter' = [counter EXCEPT ![h] = 0]
    BY <1>3 DEF TakeTurn
  <2>7. AskedKeys(h)' = AskedKeys(h)
    BY <2>1 DEF AskedKeys
  <2> HIDE DEF list, v
  <2>8. \E i \in DOMAIN list : answer'[h] = list[i]
    BY <2>5, <2>6 DEF RequestInv
  <2>9. Answered(h)'
    BY <2>1, <2>2, <2>7, <2>8 DEF Answered
  <2>10. Waiting(h)'
    BY <2>6 DEF Waiting, RequestInv
  <2> QED
    BY <2>1, <2>6, <2>9, <2>10 DEF RequestInv
<1>4. CASE RequestDone(h)
  <2>1. /\ UNCHANGED <<rule, counter>>
        /\ pc' = [pc EXCEPT ![h] = "idle"]
        /\ ask' = [ask EXCEPT ![h] = NoAsk]
        /\ answer' = [answer EXCEPT ![h] = Unavailable]
    BY <1>4 DEF RequestDone
  <2>2. Waiting(h)' /\ Answered(h)'
    BY <2>1 DEF Waiting, Answered, RequestInv
  <2>3. ask'[h][1] \in Types /\ ask'[h][2] \in Worlds
    BY <2>1, RouterAssumption DEF NoAsk, RequestInv
  <2> QED
    BY <2>1, <2>2, <2>3 DEF RequestInv
<1> QED
  BY <1>1, <1>2, <1>3, <1>4 DEF Request

(* Every step keeps all of it. *)
RouterInv == TableInv /\ RequestInv /\ TurnInv /\ AnswerOffered

LEMMA RequestStep ==
  TableInv /\ RequestInv /\ TurnInv /\ AnswerOffered /\ [Next]_vars
    => RequestInv' /\ AnswerOffered'
<1> SUFFICES ASSUME TableInv, RequestInv, TurnInv, AnswerOffered, [Next]_vars
             PROVE  RequestInv' /\ AnswerOffered'
  OBVIOUS
<1>1. AnswerOffered <=> \A h \in Handlers : Answered(h)
  BY DEF AnswerOffered, Answered, AskedKeys
<1>2. (\A h \in Handlers : Answered(h)') => AnswerOffered'
  BY DEF AnswerOffered, Answered, AskedKeys
<1>3. CASE UNCHANGED requests
  <2>1. UNCHANGED <<pc, ask, rule, counter, answer>>
    BY <1>3 DEF requests
  <2>2. ASSUME NEW h \in Handlers PROVE Waiting(h)' /\ Answered(h)'
    BY <1>1, <2>1, RequestKept DEF RequestInv
  <2> QED
    BY <1>2, <2>1, <2>2 DEF RequestInv
<1>4. ASSUME NEW h \in Handlers, Request(h)
      PROVE  RequestInv' /\ AnswerOffered'
  <2>1. ASSUME NEW g \in Handlers
        PROVE  /\ ask'[g][1] \in Types /\ ask'[g][2] \in Worlds
               /\ Waiting(g)' /\ Answered(g)'
    <3>1. CASE g = h
      BY <1>1, <1>4, <3>1, OwnStep
    <3>2. CASE g # h
      <4>1. /\ pc'[g] = pc[g] /\ ask'[g] = ask[g]
            /\ rule'[g] = rule[g] /\ answer'[g] = answer[g]
        BY <1>4, <3>2, OwnStep
      <4> QED
        BY <1>1, <4>1, RequestKept DEF RequestInv
    <3> QED
      BY <3>1, <3>2
  <2>2. /\ pc' \in [Handlers -> Points]
        /\ DOMAIN ask' = Handlers /\ DOMAIN rule' = Handlers
        /\ DOMAIN counter' = Handlers /\ DOMAIN answer' = Handlers
    BY <1>4, OwnStep
  <2> QED
    BY <1>2, <2>1, <2>2 DEF RequestInv
<1>5. \/ SourcesChange \/ LoadInitial \/ LoadRoutingRules \/ StoreConfigs
      \/ (\E l \in Loops : Refresh(l)) \/ UNCHANGED vars
      => UNCHANGED requests
  BY DEF SourcesChange, LoadInitial, LoadRoutingRules, StoreConfigs, Refresh,
         DiscoverServices, MergeBegin, MergeWorld, UpdateRule, Refreshed, vars
<1> QED
  BY <1>3, <1>4, <1>5 DEF Next

LEMMA RouterInvariant == Spec => []RouterInv
<1>1. Init => RouterInv
  <2> SUFFICES ASSUME Init PROVE RouterInv
    OBVIOUS
  <2>1. RequestInv /\ AnswerOffered
    BY RouterAssumption
       DEF Init, RequestInv, Waiting, AnswerOffered, NoAsk, Points
  <2>2. TurnInv
    <3>1. /\ DOMAIN counters = Keys /\ DOMAIN value = Keys /\ DOMAIN turns = Keys
          /\ \A k \in Keys : counters[k] = 0 /\ value[k] = <<>> /\ turns[k] = 0
          /\ \A h \in Handlers : pc[h] = "idle"
      BY Zenon DEF Init
    <3>2. 0 \in 0..(Cycle - 1)
      BY Bounds
    <3> QED
      BY <3>1, <3>2 DEF TurnInv
  <2> QED
    BY <2>1, <2>2, InitInv DEF RouterInv
<1>2. RouterInv /\ [Next]_vars => RouterInv'
  BY ShapesStep, SourcedStep, RequestStep, TurnStep DEF RouterInv, TableInv
<1> QED
  BY <1>1, <1>2, PTL DEF Spec

(* Every request that was routed got an endpoint that a source offered for *)
(* its world or the wildcard, whatever was replaced in between.            *)
THEOREM AnswerOfferedCorrect == Spec => []AnswerOffered
<1>1. RouterInv => AnswerOffered
  BY DEF RouterInv
<1> QED
  BY <1>1, RouterInvariant, PTL

(* routeRoundRobin counts every turn exactly once for any number of        *)
(* handlers that race to create the counter.                               *)
THEOREM TurnsCountedCorrect == Spec => []TurnsCounted
<1>1. ASSUME RouterInv PROVE TurnsCounted
  <2>1. ASSUME NEW k \in Keys, counters[k] # 0
        PROVE  counters[k] = 1 /\ value[k] = <<turns[k]>>
    BY <1>1, <2>1, Zenon DEF RouterInv, TurnInv
  <2> QED
    BY <2>1 DEF TurnsCounted
<1> QED
  BY <1>1, RouterInvariant, PTL

-----------------------------------------------------------------------------
(* Types *)

(* The part of TypeOK that RouterInv does not contain. *)
Stages == {"start", "idle", "store", "discover", "fetched", "merge", "apply"}
TypeRest ==
  /\ changes \in 0..MaxChanges
  /\ at \in [Loops -> Stages]
  /\ updates = [l \in Loops |-> updates[l]]
  /\ value = [k \in Keys |-> value[k]]
  /\ DOMAIN rules \subseteq Keys

LEMMA TypeRestStep == RouterInv /\ TypeRest /\ [Next]_vars => TypeRest'
<1> SUFFICES ASSUME RouterInv, TypeRest, [Next]_vars PROVE TypeRest'
  OBVIOUS
<1> USE DEF Goto, Stages, Loops
<1>1. CASE SourcesChange
  BY <1>1, RouterAssumption DEF SourcesChange, TypeRest, table, loops, requests
<1>2. CASE LoadInitial
  BY <1>2 DEF LoadInitial, TypeRest, sources, requests
<1>3. CASE LoadRoutingRules
  BY <1>3 DEF LoadRoutingRules, TypeRest, sources, table, requests
<1>4. CASE StoreConfigs
  BY <1>4 DEF StoreConfigs, TypeRest, sources, requests
<1>5. ASSUME NEW l \in Loops, DiscoverServices(l) \/ MergeBegin(l) \/ Refreshed(l)
      PROVE  TypeRest'
  BY <1>5 DEF DiscoverServices, MergeBegin, Refreshed, TypeRest, sources, table,
              requests
<1>6. ASSUME NEW l \in Loops, MergeWorld(l) PROVE TypeRest'
  BY <1>6 DEF MergeWorld, TypeRest, sources, table, requests
<1>7. ASSUME NEW l \in Loops, UpdateRule(l) PROVE TypeRest'
  <2>1. PICK u \in updates[l] :
          /\ rules' = Put(rules, u.key, u.rule)
          /\ updates' = [updates EXCEPT ![l] = updates[l] \ {u}]
    BY <1>7 DEF UpdateRule
  <2>2. u.key \in Keys
    BY DEF RouterInv, TableInv, Sourced, Updates
  <2>3. DOMAIN rules' \subseteq Keys
    BY <2>1, <2>2 DEF TypeRest, Put
  <2> QED
    BY <1>7, <2>1, <2>3 DEF UpdateRule, TypeRest, sources, requests
<1>8. ASSUME NEW h \in Handlers, Request(h) PROVE TypeRest'
  BY <1>8 DEF Request, RouteByServerID, FindCounter, CreateCounter, TakeTurn,
              RequestDone, TypeRest, sources, table, loops
<1>9. CASE UNCHANGED vars
  BY <1>9 DEF vars, TypeRest, sources, table, loops, requests
<1> QED
  BY <1>1, <1>2, <1>3, <1>4, <1>5, <1>6, <1>7, <1>8, <1>9 DEF Next, Refresh

(* Rules are filed under normalised keys only, and the rest of the state   *)
(* keeps its type.                                                         *)
THEOREM TypeCorrect == Spec => []TypeOK
<1>1. Init => TypeRest
  <2> SUFFICES ASSUME Init PROVE TypeRest
    OBVIOUS
  <2>1. /\ changes = 0 /\ at = [l \in Loops |-> "start"]
        /\ updates = [l \in Loops |-> {}] /\ value = [k \in Keys |-> <<>>]
        /\ rules = <<>>
    BY DEF Init
  <2>2. changes \in 0..MaxChanges
    BY <2>1, Bounds
  <2>3. at \in [Loops -> Stages]
    BY <2>1 DEF Stages
  <2>4. updates = [l \in Loops |-> updates[l]] /\ value = [k \in Keys |-> value[k]]
    BY <2>1
  <2>5. DOMAIN rules \subseteq Keys
    BY <2>1
  <2> QED
    BY <2>2, <2>3, <2>4, <2>5 DEF TypeRest
<1>2. RouterInv /\ TypeRest => TypeOK
  <2> SUFFICES ASSUME RouterInv, TypeRest PROVE TypeOK
    OBVIOUS
  <2>1. updates \in [Loops -> SUBSET Updates]
    BY DEF RouterInv, TableInv, Sourced, TypeRest
  <2>2. ASSUME NEW k \in Keys
        PROVE  value[k] \in Seq(0..(Cycle - 1)) /\ counters[k] \in 0..Len(value[k])
    <3> DEFINE c == counters[k]
               v == value[k]
               n == turns[k]
    <3>1. /\ (c = 0 /\ v = <<>>) \/ (c = 1 /\ v = <<n>>)
          /\ n \in 0..(Cycle - 1)
      BY DEF RouterInv, TurnInv
    <3> HIDE DEF c, v, n
    <3>2. v \in Seq(0..(Cycle - 1)) /\ c \in 0..Len(v)
      <4>1. CASE c = 0 /\ v = <<>>
        BY <4>1
      <4>2. CASE c = 1 /\ v = <<n>>
        BY <3>1, <4>2
      <4> QED
        BY <3>1, <4>1, <4>2
    <3> QED
      BY <3>2 DEF c, v
  <2>3. value \in [Keys -> Seq(0..(Cycle - 1))]
    BY <2>2 DEF TypeRest
  <2>4. /\ mode \in Modes /\ redis \in RuleSets \cup {Unavailable}
        /\ consul \in ServiceMaps \cup {Unavailable}
        /\ DOMAIN routingConfigs \subseteq Types \X Worlds
        /\ offered \subseteq Keys \X Lists
        /\ \A k \in DOMAIN rules : rules[k] \in Rules
        /\ pc \in [Handlers -> Points]
    BY DEF RouterInv, TableInv, Shapes, Sourced, RequestInv
  <2> QED
    BY <2>1, <2>2, <2>3, <2>4 DEF TypeOK, TypeRest, Stages, Points
<1> QED
  BY <1>1, <1>2, TypeRestStep, RouterInvariant, PTL DEF Spec

=============================================================================
