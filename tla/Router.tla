------------------------------- MODULE Router -------------------------------
(***************************************************************************)
(* The routing table and the two goroutines that refresh it: RefreshLoop   *)
(* (internal/redis/client.go) with onRoutingRulesUpdate, and the Consul    *)
(* loop (internal/consul/discovery.go) with onConsulServicesUpdate, both   *)
(* ending in mergeConsulEndpoints (internal/gateway/gateway.go); and the   *)
(* handlers that route by internal/router/router.go.                       *)
(*                                                                         *)
(* A merge holds routingConfigsMu for reading only, so two merges run at   *)
(* once; each UpdateRule is a step of its own.  A source that cannot be    *)
(* reached, or Redis without the key, is Unavailable.                      *)
(***************************************************************************)
EXTENDS Integers, Sequences, FiniteSets

CONSTANTS
  Types,          \* serverType
  gameServerType, \* the type of the default rule, 200
  Worlds,         \* worldID; 0 is the wildcard, and so is any below in a key
  Lists,          \* lists of endpoints
  RuleSets,       \* contents of the Redis key routing:rules
  ServiceMaps,    \* what Consul reports: world -> list
  Unavailable,
  Handlers,       \* goroutines that route a first packet
  Asks,           \* <<serverType, worldID, instID>> of first packets
  Crc32(_, _),    \* the checksum of worldID (0: left out) and instID
  Cycle,          \* counters are kept modulo a multiple of all lengths
  MaxChanges      \* bound: how often the sources change

Keys == Types \X {w \in Worlds : w >= 0}
Strategies == {"round_robin", "consistent_hash", "realm_based"}
Modes == {"consul", "redis", "no_node_ip"}

ASSUME RouterAssumption ==
  /\ 0 \in Worlds /\ Worlds \subseteq Int
  /\ gameServerType \in Types
  /\ Lists \subseteq Seq(STRING)
  /\ Cycle \in Nat \ {0} /\ \A l \in Lists : Len(l) # 0 => Cycle % Len(l) = 0
  /\ MaxChanges \in Nat
  /\ Unavailable \notin RuleSets /\ Unavailable \notin ServiceMaps
  /\ \A r \in RuleSets : \A k \in DOMAIN r :
       /\ k \in Types \X Worlds
       /\ r[k] \in [service : {"game", "other"}, strategy : Strategies,
                    endpoints : Lists]
  /\ \A c \in ServiceMaps : \A w \in DOMAIN c :
       w \in Worlds /\ c[w] \in Lists /\ c[w] # <<>>
  /\ \A a \in Asks : a[1] \in Types /\ a[2] \in Worlds /\ a[3] \in Nat
  /\ \A w \in Worlds, a \in Asks : Crc32(w, a[3]) \in Nat

VARIABLES
  mode,            \* config.Consul.Enabled, and whether NODE_IP was set
  redis, consul,   \* what the sources hold
  changes,         \* how often they have changed
  offered,         \* history: <<key, list>> offered by the mode's source
  routingConfigs,  \* Gateway.routingConfigs
  rules,           \* Router.rules
  at,              \* where each refresh loop stands
  loaded,          \* the rules the Redis loop has read
  services,        \* the part of Consul's answer each loop has yet to merge
  updates,         \* the rules each loop is about to pass to UpdateRule
  counters,        \* Router.roundRobinCounters: which counter, 0 for none
  value,           \* the values of the counters made for a key
  turns,           \* history: requests answered by turn, per key
  pc, ask, rule, counter, answer   \* the handlers' requests; counter is
                                   \* the one a request uses

sources == <<redis, consul, changes, offered>>
table == <<routingConfigs, rules>>
loops == <<at, loaded, services, updates>>
requests == <<counters, value, turns, pc, ask, rule, counter, answer>>
vars == <<mode, sources, table, loops, requests>>

Loops == {"redis", "consul"}

(* makeRuleKey *)
makeRuleKey(t, w) == <<t, IF w <= 0 THEN 0 ELSE w>>

Rules == [strategy : Strategies, endpoints : Lists]
NoRule == [strategy |-> "round_robin", endpoints |-> <<>>]
NoAsk == <<gameServerType, 0, 0>>
Updates == [key : Keys, rule : Rules]

(* m[k] = v on a Go map. *)
Put(m, k, v) == [j \in DOMAIN m \cup {k} |-> IF j = k THEN v ELSE m[j]]

TypeOK ==
  /\ mode \in Modes
  /\ redis \in RuleSets \cup {Unavailable}
  /\ consul \in ServiceMaps \cup {Unavailable}
  /\ changes \in 0..MaxChanges
  /\ offered \subseteq Keys \X Lists
  /\ DOMAIN routingConfigs \subseteq Types \X Worlds
  /\ DOMAIN rules \subseteq Keys
  /\ \A k \in DOMAIN rules : rules[k] \in Rules
  /\ at \in [Loops -> {"start", "idle", "store", "discover", "fetched",
                       "merge", "apply"}]
  /\ updates \in [Loops -> SUBSET Updates]
  /\ value \in [Keys -> Seq(0..(Cycle - 1))]
  /\ \A k \in Keys : counters[k] \in 0..Len(value[k])
  /\ pc \in [Handlers -> {"idle", "counter", "create", "add", "routed"}]

-----------------------------------------------------------------------------
(* The sources *)

(* The pairs a source offers: Redis its rules, Consul a list for every     *)
(* key of the world.                                                       *)
OfferedBy(r, c) ==
  IF mode = "consul"
    THEN IF c = Unavailable THEN {}
         ELSE UNION {{<<makeRuleKey(t, w), c[w]>> : t \in Types} :
                        w \in DOMAIN c}
    ELSE IF r = Unavailable THEN {}
         ELSE {<<makeRuleKey(k[1], k[2]), r[k].endpoints>> : k \in DOMAIN r}

SourcesChange ==
  /\ changes < MaxChanges
  /\ changes' = changes + 1
  /\ redis' \in RuleSets \cup {Unavailable}
  /\ consul' \in ServiceMaps \cup {Unavailable}
  /\ (redis' = redis) # (consul' = consul)
  /\ mode # "consul" => consul' = consul
  /\ offered' = offered \cup OfferedBy(redis', consul')
  /\ UNCHANGED <<mode, table, loops, requests>>

(* New: no rules, no counters. *)
Init ==
  /\ mode \in Modes
  /\ redis \in RuleSets \cup {Unavailable}
  /\ consul \in (IF mode = "consul" THEN ServiceMaps ELSE {}) \cup {Unavailable}
  /\ changes = 0
  /\ offered = OfferedBy(redis, consul)
  /\ routingConfigs = <<>>
  /\ rules = <<>>
  /\ at = [l \in Loops |-> "start"]
  /\ loaded = <<>>
  /\ services = [l \in Loops |-> <<>>]
  /\ updates = [l \in Loops |-> {}]
  /\ counters = [k \in Keys |-> 0]
  /\ value = [k \in Keys |-> <<>>]
  /\ turns = [k \in Keys |-> 0]
  /\ pc = [h \in Handlers |-> "idle"]
  /\ ask = [h \in Handlers |-> NoAsk]
  /\ rule = [h \in Handlers |-> NoRule]
  /\ counter = [h \in Handlers |-> 0]
  /\ answer = [h \in Handlers |-> Unavailable]

Goto(l, point) == at' = [at EXCEPT ![l] = point]

-----------------------------------------------------------------------------
(* Refreshing *)

(* The rules are copied without their endpoints; entries are replaced or   *)
(* added, never removed.                                                   *)
Stored(r) ==
  [k \in DOMAIN routingConfigs \cup DOMAIN r |->
     IF k \in DOMAIN r THEN [service |-> r[k].service, strategy |-> r[k].strategy]
                       ELSE routingConfigs[k]]

(* UpdateRule is called for every rule of Redis, endpoints included. *)
FromRedis(r) ==
  {[key |-> makeRuleKey(k[1], k[2]),
    rule |-> [strategy |-> r[k].strategy, endpoints |-> r[k].endpoints]] :
      k \in DOMAIN r}

(* Mutant: the endpoints of Redis are used with Consul, too. *)
LoadInitialAlways ==
  LET r == IF redis = Unavailable THEN <<>> ELSE redis
  IN /\ at["redis"] = "start"
     /\ routingConfigs' = Stored(r)
     /\ updates' = [updates EXCEPT !["redis"] = FromRedis(r)]
     /\ Goto("redis", "apply")
     /\ UNCHANGED <<mode, sources, rules, loaded, services, requests>>

(* loadConfigFromRedis, before anything else runs: no rules if the key is  *)
(* not there, and the gateway does not start if Redis cannot be read.      *)
LoadInitial ==
  LET r == IF redis = Unavailable THEN <<>> ELSE redis
  IN /\ at["redis"] = "start"
     /\ routingConfigs' = Stored(r)
     /\ updates' = [updates EXCEPT !["redis"] =
                      IF mode = "redis" THEN FromRedis(r) ELSE {}]
     /\ Goto("redis", "apply")
     /\ UNCHANGED <<mode, sources, rules, loaded, services, requests>>

(* A tick of RefreshLoop: rules that cannot be read leave all as it is. *)
LoadRoutingRules ==
  /\ at["redis"] = "idle"
  /\ IF redis = Unavailable THEN UNCHANGED <<at, loaded>>
                            ELSE Goto("redis", "store") /\ loaded' = redis
  /\ UNCHANGED <<mode, sources, table, services, updates, requests>>

(* onRoutingRulesUpdate takes routingConfigsMu, which a merge holds. *)
StoreConfigs ==
  /\ at["redis"] = "store" /\ at["consul"] # "merge"
  /\ routingConfigs' = Stored(loaded)
  /\ loaded' = <<>>
  /\ IF mode = "consul"
       THEN Goto("redis", "discover") /\ updates' = updates
       ELSE /\ Goto("redis", "apply")
            /\ updates' = [updates EXCEPT !["redis"] = FromRedis(loaded)]
  /\ UNCHANGED <<mode, sources, rules, services, requests>>

(* DiscoverServices, on a tick of the Consul loop or after new rules. *)
DiscoverServices(l) ==
  /\ mode = "consul"
  /\ at[l] = (IF l = "consul" THEN "idle" ELSE "discover")
  /\ IF consul = Unavailable
       THEN Goto(l, "idle") /\ services' = services
       ELSE Goto(l, "fetched") /\ services' = [services EXCEPT ![l] = consul]
  /\ UNCHANGED <<mode, sources, table, loaded, updates, requests>>

(* mergeConsulEndpoints, with routingConfigsMu held for reading. *)
MergeBegin(l) ==
  /\ at[l] = "fetched"
  /\ Goto(l, "merge")
  /\ UNCHANGED <<mode, sources, table, loaded, services, updates, requests>>

(* The configurations that match a world: its own and the wildcard ones,   *)
(* of Consul's service or of none in particular ("game").                  *)
Matching(w) ==
  {k \in DOMAIN routingConfigs :
     /\ k[2] = w \/ (k[2] = 0 /\ w > 0)
     /\ routingConfigs[k].service = "game"}

(* Mutant: the rule is filed under the configuration's own world. *)
RulesForConfigWorld(w, list) ==
  {[key |-> makeRuleKey(k[1], k[2]),
    rule |-> [strategy |-> routingConfigs[k].strategy, endpoints |-> list]] :
      k \in Matching(w)}

(* Configuration from Redis, endpoints from Consul; a default rule if no   *)
(* configuration matches.  When several rules have one key, the order of   *)
(* the map decides which stays.                                            *)
RulesFor(w, list) ==
  IF Matching(w) = {}
    THEN {[key |-> makeRuleKey(gameServerType, w),
           rule |-> [strategy |-> "round_robin", endpoints |-> list]]}
    ELSE {[key |-> makeRuleKey(k[1], w),
           rule |-> [strategy |-> routingConfigs[k].strategy,
                     endpoints |-> list]] : k \in Matching(w)}

MergeWorld(l) ==
  /\ at[l] = "merge" /\ updates[l] = {}
  /\ \E w \in DOMAIN services[l] :
       /\ updates' = [updates EXCEPT ![l] = RulesFor(w, services[l][w])]
       /\ services' = [services EXCEPT ![l] =
                         [v \in DOMAIN services[l] \ {w} |-> services[l][v]]]
  /\ UNCHANGED <<mode, sources, table, at, loaded, requests>>

(* Mutant: a rule that exists is not replaced. *)
UpdateRuleOnce(l) ==
  /\ at[l] \in {"merge", "apply"}
  /\ \E u \in updates[l] :
       /\ rules' = IF u.key \in DOMAIN rules THEN rules
                   ELSE Put(rules, u.key, u.rule)
       /\ updates' = [updates EXCEPT ![l] = @ \ {u}]
  /\ UNCHANGED <<mode, sources, routingConfigs, at, loaded, services, requests>>

(* UpdateRule *)
UpdateRule(l) ==
  /\ at[l] \in {"merge", "apply"}
  /\ \E u \in updates[l] :
       /\ rules' = Put(rules, u.key, u.rule)
       /\ updates' = [updates EXCEPT ![l] = @ \ {u}]
  /\ UNCHANGED <<mode, sources, routingConfigs, at, loaded, services, requests>>

(* The callback returns; after the initial load the Consul loop, if there  *)
(* is one, and the listener start.                                         *)
Refreshed(l) ==
  /\ at[l] \in {"merge", "apply"}
  /\ updates[l] = {} /\ DOMAIN services[l] = {}
  /\ at' = IF at["consul"] = "start" THEN [m \in Loops |-> "idle"]
                                     ELSE [at EXCEPT ![l] = "idle"]
  /\ UNCHANGED <<mode, sources, table, loaded, services, updates, requests>>

Refresh(l) ==
  \/ DiscoverServices(l) \/ MergeBegin(l) \/ MergeWorld(l) \/ UpdateRule(l)
  \/ Refreshed(l)

-----------------------------------------------------------------------------
(* Routing *)

RequestAt(h, point) == pc' = [pc EXCEPT ![h] = point]

(* GetRule: the world's own rule before the wildcard. *)
GetRule(t, w) ==
  IF w > 0 /\ makeRuleKey(t, w) \in DOMAIN rules THEN makeRuleKey(t, w)
                                                 ELSE makeRuleKey(t, 0)

(* What the strategy hashes; no hash means a turn of the round robin. *)
Hashed(r, w, inst) ==
  IF r.strategy = "consistent_hash" /\ inst > 0 THEN {Crc32(0, inst)}
  ELSE IF r.strategy = "realm_based" /\ w > 0 /\ inst > 0
    THEN {Crc32(w, inst)}
    ELSE {}

(* RouteByServerID up to the strategy.  Without a rule, or with an empty   *)
(* list, the handler gives up.                                             *)
RouteByServerID(h) ==
  /\ pc[h] = "idle" /\ at["consul"] # "start"
  /\ \E a \in Asks :
       LET k == GetRule(a[1], a[2])
       IN /\ k \in DOMAIN rules /\ rules[k].endpoints # <<>>
          /\ ask' = [ask EXCEPT ![h] = a]
          /\ IF Hashed(rules[k], a[2], a[3]) = {}
               THEN /\ RequestAt(h, "counter")
                    /\ rule' = [rule EXCEPT ![h] = rules[k]]
                    /\ answer' = answer
               ELSE /\ RequestAt(h, "routed")
                    /\ rule' = rule
                    /\ \E x \in Hashed(rules[k], a[2], a[3]) :
                         answer' = [answer EXCEPT ![h] = rules[k].endpoints[
                                      (x % Len(rules[k].endpoints)) + 1]]
  /\ UNCHANGED <<mode, sources, table, loops, counters, value, turns,
                 counter>>

(* The counters' key: the world asked for, also under a wildcard rule. *)
CounterKey(h) == makeRuleKey(ask[h][1], ask[h][2])

(* routeRoundRobin: look the counter up ... *)
FindCounter(h) ==
  /\ pc[h] = "counter"
  /\ counter' = [counter EXCEPT ![h] = counters[CounterKey(h)]]
  /\ RequestAt(h, IF counters[CounterKey(h)] = 0 THEN "create" ELSE "add")
  /\ UNCHANGED <<mode, sources, table, loops, counters, value, turns, ask,
                 rule, answer>>

(* Mutant: no second look under the lock. *)
CreateCounterAlways(h) ==
  LET k == CounterKey(h)
  IN /\ pc[h] = "create"
     /\ value' = [value EXCEPT ![k] = Append(@, 0)]
     /\ counters' = [counters EXCEPT ![k] = Len(value[k]) + 1]
     /\ counter' = [counter EXCEPT ![h] = counters'[k]]
     /\ RequestAt(h, "add")
     /\ UNCHANGED <<mode, sources, table, loops, turns, ask, rule, answer>>

(* ... create it unless another request has ... *)
CreateCounter(h) ==
  LET k == CounterKey(h)
  IN /\ pc[h] = "create"
     /\ IF counters[k] # 0
          THEN UNCHANGED <<counters, value>>
          ELSE /\ value' = [value EXCEPT ![k] = Append(@, 0)]
               /\ counters' = [counters EXCEPT ![k] = Len(value[k]) + 1]
     /\ counter' = [counter EXCEPT ![h] = counters'[k]]
     /\ RequestAt(h, "add")
     /\ UNCHANGED <<mode, sources, table, loops, turns, ask, rule, answer>>

(* ... and take a turn.  The list is that of the rule found earlier. *)
TakeTurn(h) ==
  LET k == CounterKey(h)
      v == value[k][counter[h]]
      list == rule[h].endpoints
  IN /\ pc[h] = "add"
     /\ value' = [value EXCEPT ![k][counter[h]] = (v + 1) % Cycle]
     /\ turns' = [turns EXCEPT ![k] = (@ + 1) % Cycle]
     /\ answer' = [answer EXCEPT ![h] = list[(v % Len(list)) + 1]]
     /\ RequestAt(h, "routed")
     /\ rule' = [rule EXCEPT ![h] = NoRule]
     /\ counter' = [counter EXCEPT ![h] = 0]
     /\ UNCHANGED <<mode, sources, table, loops, counters, ask>>

(* The handler goes on with its backend address, and another request comes. *)
RequestDone(h) ==
  /\ pc[h] = "routed"
  /\ RequestAt(h, "idle")
  /\ ask' = [ask EXCEPT ![h] = NoAsk]
  /\ answer' = [answer EXCEPT ![h] = Unavailable]
  /\ UNCHANGED <<mode, sources, table, loops, counters, value, turns, rule,
                 counter>>

Request(h) ==
  \/ RouteByServerID(h) \/ FindCounter(h) \/ CreateCounter(h) \/ TakeTurn(h)
  \/ RequestDone(h)

Next ==
  \/ SourcesChange
  \/ LoadInitial \/ LoadRoutingRules \/ StoreConfigs
  \/ \E l \in Loops : Refresh(l)
  \/ \E h \in Handlers : Request(h)

(* Tickers fire and the loops run on.  A writer waiting for the RWMutex    *)
(* keeps new readers out, so StoreConfigs is strongly fair.                *)
Fairness ==
  /\ WF_vars(LoadInitial) /\ WF_vars(LoadRoutingRules) /\ SF_vars(StoreConfigs)
  /\ \A l \in Loops : WF_vars(Refresh(l))

Spec == Init /\ [][Next]_vars /\ Fairness

-----------------------------------------------------------------------------
(* Properties *)

(* Whatever the two loops interleave, the rules behave as RoutingTable: a  *)
(* routable key stays routable while the sources fail, and UpdateRule only *)
(* files a list under a key for which the source offered it.               *)
T == INSTANCE RoutingTable
       WITH table <- [k \in DOMAIN rules |-> rules[k].endpoints]
ImplementsTable == T!Spec

(* A handler is sent only to an endpoint that the source of endpoints,     *)
(* Consul if it is used and else Redis, offered for the world asked for or *)
(* for the wildcard, though the rule the handler holds may have been       *)
(* replaced between GetRule and its turn.                                  *)
AnswerOffered ==
  \A h \in Handlers : pc[h] = "routed" =>
    \E p \in offered :
      /\ p[1] \in {makeRuleKey(ask[h][1], ask[h][2]), makeRuleKey(ask[h][1], 0)}
      /\ \E i \in DOMAIN p[2] : answer[h] = p[2][i]

(* routeRoundRobin loses no turn and gives none twice: the counter that    *)
(* the map holds for a key has counted every request answered by turn,     *)
(* also when first requests race to create it.                             *)
TurnsCounted ==
  \A k \in Keys : counters[k] # 0 => value[k][counters[k]] = turns[k]

(* The keys for which the gateway has endpoints from the sources as they   *)
(* are: those of Redis; with Consul, for each world Consul reports, those  *)
(* that Redis configures for Consul's service, or the default one.  The    *)
(* endpoints Redis lists for other services are not used with Consul.      *)
KeysDue ==
  IF mode = "consul"
    THEN UNION {{makeRuleKey(k[1], w) :
                   k \in {j \in DOMAIN redis : redis[j].service = "game"
                                              /\ (j[2] = w \/ (j[2] = 0 /\ w > 0))}}
                \cup (IF Matching(w) = {} THEN {makeRuleKey(gameServerType, w)}
                                         ELSE {}) :
                  w \in DOMAIN consul}
    ELSE {makeRuleKey(k[1], k[2]) : k \in DOMAIN redis}

(* The rule under a key is what the sources say now: Redis the whole rule, *)
(* Consul the endpoints.                                                   *)
Current(k) ==
  /\ k \in DOMAIN rules
  /\ IF mode = "consul"
       THEN <<k, rules[k].endpoints>> \in OfferedBy(redis, consul)
       ELSE [key |-> k, rule |-> rules[k]] \in FromRedis(redis)

(* Once the sources answer and stay as they are, each of these keys has    *)
(* its present rule for good: a merge that began with older data cannot    *)
(* undo a newer one for ever.  With Consul this is claimed for Consul's    *)
(* service alone, because mergeConsulEndpoints files nothing else.         *)
Converges ==
  <>[](redis # Unavailable /\ (mode = "consul" => consul # Unavailable)
         => \A k \in KeysDue : Current(k))

=============================================================================
