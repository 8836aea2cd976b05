------------------------------- MODULE Router -------------------------------
(***************************************************************************)
(* The database router (proxy/router.go): the routes made from the         *)
(* configuration at start-up, GetRoute with its cache, and changes of      *)
(* routes while requests look them up.  DatabaseRouter.mutex is a          *)
(* read-write lock; the cache has a lock of its own (module LruTtl) and is *)
(* read before the router's lock is taken.                                 *)
(***************************************************************************)
EXTENDS RoutePatterns

CONSTANTS Callers,     \* goroutines in GetRoute
          Names,       \* the database names they ask for
          Patterns,    \* the names routes are configured or changed for
          Added,       \* *RouteConfig objects of routes added later
          MaxChanges,  \* bound: changes after start-up
          NoRoute, NoWriter

ASSUME RouterAssumption ==
  /\ Names # {} /\ Names \subseteq Seq(STRING) /\ Patterns \subseteq Seq(STRING)
  /\ MaxChanges \in Nat

\* The RouteConfig of a configured route is named after its pattern
Configs == Patterns \cup Added

VARIABLES phase,    \* of the process
          config,   \* the names of the configuration
          pending,  \* those whose route is still to be added
          table,    \* the router's routes, patternRoutes and wildcardRoute
          cache,    \* normalised name -> route, or NoRoute
          writer,   \* the change that holds the lock
          changes,  \* how many changes there were
          call      \* caller -> where it is in GetRoute

vars == <<phase, config, pending, table, cache, writer, changes, call>>

Normalized == {NormalizeDatabaseName(n) : n \in Names}
ExactNames == {NormalizeDatabaseName(p) : p \in {q \in Patterns : Stars(q) = {}}}

PatternRoutes ==
  [pr : {Classify(NormalizeDatabaseName(p)) : p \in {q \in Patterns : Stars(q) # {}}},
   config : Configs]

IsTable(t) ==
  /\ t.routes \in [DOMAIN t.routes -> Configs] /\ DOMAIN t.routes \subseteq ExactNames
  /\ t.patternRoutes \in Seq(PatternRoutes)
  /\ t.wildcardRoute \in Configs \cup {NoRoute}

\* AddRoute or UpdateRoute with a config, RemoveRoute without
Writing == [op : {"add"}, pattern : Patterns, config : Added]
             \cup [op : {"remove"}, pattern : Patterns, config : {NoRoute}]

\* seen: history, the routes the name has resolved to since the call began
Calls == [pc : {"idle", "cache", "lock", "add", "done"}, name : Normalized,
          route : Configs \cup {NoRoute}, seen : SUBSET (Configs \cup {NoRoute})]

TypeOK ==
  /\ phase \in {"validating", "refused", "starting", "serving"}
  /\ config \subseteq Patterns /\ pending \subseteq config
  /\ IsTable(table)
  /\ cache \in [Normalized -> Configs \cup {NoRoute}]
  /\ writer \in Writing \cup {NoWriter}
  /\ changes \in 0 .. MaxChanges
  /\ call \in [Callers -> Calls]

Init ==
  /\ phase = "validating"
  /\ config \in SUBSET Patterns
  /\ pending = config
  /\ table = [routes |-> <<>>, patternRoutes |-> <<>>, wildcardRoute |-> NoRoute]
  /\ cache = [n \in Normalized |-> NoRoute]
  /\ writer = NoWriter
  /\ changes = 0
  /\ call = [g \in Callers |-> [pc |-> "idle", name |-> CHOOSE n \in Normalized : TRUE,
                              route |-> NoRoute, seen |-> {}]]

-----------------------------------------------------------------------------
(* The table *)

MutAddTo(t, p, c) ==
  LET n == NormalizeDatabaseName(p)
  IN IF n = <<Star>> THEN [t EXCEPT !.wildcardRoute = c]
     ELSE IF Stars(n) # {}
     THEN [t EXCEPT !.patternRoutes = Append(@, [pr |-> Classify(n), config |-> c])]
     ELSE [t EXCEPT !.routes = [m \in DOMAIN @ \cup {p} |-> IF m = p THEN c ELSE @[m]]]

\* AddRoute, and UpdateRoute, which is AddRoute
AddTo(t, p, c) ==
  LET n == NormalizeDatabaseName(p)
  IN IF n = <<Star>> THEN [t EXCEPT !.wildcardRoute = c]
     ELSE IF Stars(n) # {}
     THEN [t EXCEPT !.patternRoutes = Append(@, [pr |-> Classify(n), config |-> c])]
     ELSE [t EXCEPT !.routes = [m \in DOMAIN @ \cup {n} |-> IF m = n THEN c ELSE @[m]]]

\* RemoveRoute compares with the pattern as it is given: not normalised, and
\* with its stars, although the stored pattern has lost the outer ones
RemoveFrom(t, p) ==
  IF p = <<Star>> THEN [t EXCEPT !.wildcardRoute = NoRoute]
  ELSE [t EXCEPT !.routes = [n \in DOMAIN @ \ {p} |-> @[n]],
                 !.patternRoutes = SelectSeq(@, LAMBDA r : r.pr.pattern # p)]

\* The body of GetRoute: the exact route, the first pattern, the wildcard
Resolve(t, n) ==
  LET matching == {i \in DOMAIN t.patternRoutes : matchesPattern(n, t.patternRoutes[i].pr)}
  IN IF n \in DOMAIN t.routes THEN t.routes[n]
     ELSE IF matching # {}
     THEN t.patternRoutes[CHOOSE i \in matching : \A k \in matching : i <= k].config
     ELSE t.wildcardRoute

-----------------------------------------------------------------------------
(* Start-up *)

Same(p, q) == NormalizeDatabaseName(p) = NormalizeDatabaseName(q)

\* validateDatabaseNames; GetDatabases keeps one of the names that are the
\* same in lower case
Validate ==
  /\ phase = "validating"
  /\ \/ /\ ~ Valid(config)
        /\ phase' = "refused"
        /\ UNCHANGED pending
     \/ /\ Valid(config)
        /\ phase' = "starting"
        /\ \E kept \in SUBSET config :
             /\ \A p \in config : \E q \in kept : Same(p, q)
             /\ \A p, q \in kept : Same(p, q) => p = q
             /\ pending' = kept
  /\ UNCHANGED <<config, table, cache, writer, changes, call>>

\* The loop over the databases, a Go map: the routes are added in any order
Start(p) ==
  /\ phase = "starting" /\ p \in pending
  /\ table' = AddTo(table, p, p)
  /\ pending' = pending \ {p}
  /\ UNCHANGED <<phase, config, cache, writer, changes, call>>

Serve ==
  /\ phase = "starting" /\ pending = {}
  /\ phase' = "serving"
  /\ UNCHANGED <<config, pending, table, cache, writer, changes, call>>

-----------------------------------------------------------------------------
(* GetRoute *)

Move(g, c) == call' = [call EXCEPT ![g] = c]

Call(g) ==
  /\ phase = "serving" /\ call[g].pc = "idle"
  /\ \E n \in Normalized :
       Move(g, [pc |-> "cache", name |-> n, route |-> NoRoute, seen |-> {Resolve(table, n)}])
  /\ UNCHANGED <<phase, config, pending, table, cache, writer, changes>>

\* routeCache.Get, without the router's lock
LookInCache(g) ==
  LET r == cache[call[g].name] IN
  /\ call[g].pc = "cache"
  /\ Move(g, [call[g] EXCEPT !.pc = IF r # NoRoute THEN "done" ELSE "lock", !.route = r])
  /\ UNCHANGED <<phase, config, pending, table, cache, writer, changes>>

MutLookInTable(g) ==
  LET r == Resolve(table, call[g].name) IN
  /\ call[g].pc = "lock"
  /\ Move(g, [call[g] EXCEPT !.pc = IF r # NoRoute THEN "add" ELSE "done", !.route = r])
  /\ UNCHANGED <<phase, config, pending, table, cache, writer, changes>>

\* With the lock for reading: the table.  Without a route GetRoute returns.
LookInTable(g) ==
  LET r == Resolve(table, call[g].name) IN
  /\ call[g].pc = "lock" /\ writer = NoWriter
  /\ Move(g, [call[g] EXCEPT !.pc = IF r # NoRoute THEN "add" ELSE "done", !.route = r])
  /\ UNCHANGED <<phase, config, pending, table, cache, writer, changes>>

\* Callers that have the lock for reading
Reading(g) == call[g].pc = "add"

\* routeCache.Add, then the lock is released
CacheRoute(g) ==
  /\ call[g].pc = "add"
  /\ cache' = [cache EXCEPT ![call[g].name] = call[g].route]
  /\ Move(g, [call[g] EXCEPT !.pc = "done"])
  /\ UNCHANGED <<phase, config, pending, table, writer, changes>>

Return(g) ==
  /\ call[g].pc = "done"
  /\ Move(g, [call[g] EXCEPT !.pc = "idle", !.route = NoRoute, !.seen = {}])
  /\ UNCHANGED <<phase, config, pending, table, cache, writer, changes>>

\* The cache drops a record that expired or is over the limit
CacheDrops(n) ==
  /\ cache[n] # NoRoute
  /\ cache' = [cache EXCEPT ![n] = NoRoute]
  /\ UNCHANGED <<phase, config, pending, table, writer, changes, call>>

-----------------------------------------------------------------------------
(* AddRoute and RemoveRoute while requests run *)

MutLock(w) ==
  /\ phase = "serving" /\ writer = NoWriter /\ changes < MaxChanges
  /\ writer' = w
  /\ changes' = changes + 1
  /\ cache' = [n \in Normalized |-> NoRoute]
  /\ UNCHANGED <<phase, config, pending, table, call>>

\* The lock for writing, and routeCache.Clear
Lock(w) ==
  /\ phase = "serving" /\ writer = NoWriter /\ changes < MaxChanges
  /\ \A g \in Callers : ~ Reading(g)
  /\ writer' = w
  /\ changes' = changes + 1
  /\ cache' = [n \in Normalized |-> NoRoute]
  /\ UNCHANGED <<phase, config, pending, table, call>>

\* The table changes and the lock is released
Change ==
  /\ writer # NoWriter
  /\ table' = IF writer.op = "add" THEN AddTo(table, writer.pattern, writer.config)
                                   ELSE RemoveFrom(table, writer.pattern)
  /\ writer' = NoWriter
  /\ call' = [g \in Callers |->
                IF call[g].pc = "idle" THEN call[g]
                ELSE [call[g] EXCEPT !.seen = @ \cup {Resolve(table', call[g].name)}]]
  /\ UNCHANGED <<phase, config, pending, cache, changes>>

Refused == phase = "refused" /\ UNCHANGED vars

Next ==
  \/ Validate \/ Serve \/ Change \/ Refused
  \/ \E p \in Patterns : Start(p)
  \/ \E w \in Writing : Lock(w)
  \/ \E g \in Callers : \/ Call(g) \/ LookInCache(g) \/ LookInTable(g)
                       \/ CacheRoute(g) \/ Return(g)
  \/ \E n \in Normalized : CacheDrops(n)

Spec == Init /\ [][Next]_vars

-----------------------------------------------------------------------------
(* Properties *)

\* The cache never disagrees with the table, although GetRoute reads it without
\* the router's lock and other callers add to it while routes are changed: what
\* is cached for a name is what the routes resolve it to now.
CacheCoherent ==
  \A n \in Normalized : cache[n] \in {NoRoute, Resolve(table, n)}

\* GetRoute answers with a route the name resolved to at some moment of the
\* call, whether it came from the cache or from the table and whatever was
\* added or removed meanwhile; it fails only if there was no route.
AnswerWasCurrent ==
  \A g \in Callers : call[g].pc = "done" => call[g].route \in call[g].seen

\* What the configuration says of a name: its exact route, else a route whose
\* pattern matches it, else the wildcard
Configured(n) ==
  LET exact == {p \in config : NormalizeDatabaseName(p) = n}
      matching == {p \in config \ {<<Star>>} :
                     Stars(p) # {} /\ Glob(NormalizeDatabaseName(p), n)}
  IN IF exact # {} THEN exact
     ELSE IF matching # {} THEN matching
     ELSE IF <<Star>> \in config THEN {<<Star>>} ELSE {NoRoute}

\* Once the routes of an accepted configuration are added, in whatever order
\* the map gave them, every name resolves to a route the configuration has for
\* it: the classification of patterns and the order of precedence agree with
\* what the patterns stand for.  Of several patterns that match a name it may be
\* any: that depends on the order of the map.
RoutedAsConfigured ==
  phase = "starting" /\ pending = {}
    => \A n \in Normalized \cup TestNames : Resolve(table, n) \in Configured(n)
=============================================================================
