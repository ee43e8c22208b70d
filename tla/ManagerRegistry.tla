-------------------------- MODULE ManagerRegistry --------------------------
(***************************************************************************)
(* The life of the process's memory managers: the cache of               *)
(* search-manager.ts (lookup, deduplicated initialisation, borrows,        *)
(* eviction, closeAll), the reference-counted MongoClient of               *)
(* mongodb-client-registry.ts that they share, and the signal-driven       *)
(* shutdown of the API server that closes both (apps/api/src/app.ts).      *)
(*                                                                         *)
(* A request calls getMemorySearchManager once, runs at most one operation *)
(* on what it is given and ends.  The manager a request creates, and the   *)
(* client it is the first to connect, carry the request's name.  All       *)
(* configurations use one URI and the shared-client runtime (the default). *)
(***************************************************************************)
EXTENDS Integers, FiniteSets, Sequences, SequencesExt

CONSTANTS
  Req,        \* requests
  None,       \* not a request
  Key,        \* cache keys: agent and resolved configuration
  Wants,      \* what each request may ask for: its cache key, and ownership
  CacheMax,   \* MEMONGO_MANAGER_CACHE_MAX
  MaxGen      \* bound on calls of closeAllMemorySearchManagers

ASSUME RegistryAssumption ==
  /\ None \notin Req /\ IsFiniteSet(Req)
  /\ Wants \in [Req -> SUBSET (Key \X BOOLEAN)]
  /\ CacheMax \in Nat \ {0} /\ MaxGen \in Nat

VARIABLES
  req,        \* the requests
  mgr,        \* the managers: initializeManager's locals and ManagerCacheEntry
  cache,      \* MONGODB_MANAGER_CACHE: managers in insertion order
  inflight,   \* INFLIGHT_INIT: key -> the request whose initialisation it is
  closeGeneration,
  client,     \* the MongoClients ever created for the URI
  registry,   \* REGISTRY: the client under the URI
  closer,     \* closeAllMemorySearchManagers and what it waits for
  server,     \* TRUE: an API server; FALSE: a library user calls closeAll
  exit,       \* the process has called exit(0)
  overlap,    \* history: an initialisation began while closeAll was running
  torn        \* history: closeAll closed a client that a manager still used

registryVars == << req, mgr, cache, inflight, closeGeneration, client, registry,
                   closer, server, exit, overlap, torn >>

Building == {"import", "connect", "create", "discard"}

RegistryTypeOK ==
  /\ req \in [Req -> [pc : {"new", "wait", "hold", "op", "done"},
                      on : Req \cup {None}, late : BOOLEAN]]
  /\ mgr \in [Req -> [pc : Building \cup {"none", "live", "closing", "closed", "failed"},
                      key : Key \cup {None}, owned : BOOLEAN, gen : 0..MaxGen,
                      client : Req \cup {None}, borrows : 0..Cardinality(Req),
                      evicted : BOOLEAN]]
  /\ cache \in Seq(Req) /\ Len(cache) <= CacheMax
  /\ inflight \in [Key -> Req \cup {None}]
  /\ closeGeneration \in 0..MaxGen
  /\ client \in [Req -> [pc : {"none", "connecting", "open", "closed", "failed"},
                         refs : Int, doomed : BOOLEAN]]
  /\ registry \in Req \cup {None}
  /\ closer \in [pc : {"up", "drain", "settle", "quiesce", "clients"},
                 wait : SUBSET Req]
  /\ server \in BOOLEAN /\ exit \in BOOLEAN
  /\ overlap \in BOOLEAN /\ torn \in BOOLEAN

NoManager == [pc |-> "none", key |-> None, owned |-> FALSE, gen |-> 0,
              client |-> None, borrows |-> 0, evicted |-> FALSE]

\* What is left of a manager that is closed or was never finished.
Gone(m, how) ==
  [NoManager EXCEPT !.pc = how, !.owned = m.owned, !.borrows = m.borrows]

Answered == [pc |-> "done", on |-> None, late |-> FALSE]

RegistryInit ==
  /\ req = [r \in Req |-> [pc |-> "new", on |-> None, late |-> FALSE]]
  /\ mgr = [r \in Req |-> NoManager]
  /\ cache = << >> /\ inflight = [k \in Key |-> None]
  /\ closeGeneration = 0
  /\ client = [r \in Req |-> [pc |-> "none", refs |-> 0, doomed |-> FALSE]]
  /\ registry = None
  /\ closer = [pc |-> "up", wait |-> {}]
  /\ server \in BOOLEAN
  /\ exit = FALSE /\ overlap = FALSE /\ torn = FALSE

-----------------------------------------------------------------------------
(* The shared client. *)

\* acquireSharedMongoClient: connect on first use, count the reference before
\* the connection is known to work, and await it; an open client is handed to
\* MongoDBMemoryManager.create at once.
Acquired(r) ==
  LET c == IF registry = None THEN r ELSE registry IN
  /\ registry' = c
  /\ client' = [client EXCEPT ![c].pc = IF registry = None THEN "connecting" ELSE @,
                               ![c].refs = IF registry = None THEN 1 ELSE @ + 1]
  /\ mgr' = [mgr EXCEPT ![r].client = c,
                         ![r].pc = IF client'[c].pc = "open" THEN "create" ELSE "connect"]

\* releaseSharedMongoClient: the reference is given back to whatever client
\* is registered under the URI; the last one closes it in the background.
Release ==
  IF registry = None THEN UNCHANGED << client, registry >>
  ELSE LET last == client[registry].refs <= 1 IN
       /\ client' = [client EXCEPT ![registry].refs = @ - 1,
                                   ![registry].doomed = @ \/ last]
       /\ registry' = IF last THEN None ELSE registry

Awaiting(c) == {i \in Req : mgr[i].pc = "connect" /\ mgr[i].client = c}

\* The initialisations of S settle: their own callers and those that joined
\* them are answered, and the keys leave INFLIGHT_INIT.
InitSettles(S, ok) ==
  /\ req' = [r \in Req |-> IF req[r].pc = "wait" /\ req[r].on \in S
                THEN IF ok THEN [req[r] EXCEPT !.pc = "hold"] ELSE Answered
                ELSE req[r]]
  /\ inflight' = [k \in Key |->
                    IF \E i \in S : mgr[i].key = k /\ ~mgr[i].owned THEN None
                    ELSE inflight[k]]

\* defaultSharedMongoClientConnect succeeds and resumes those that await it.
Connects(c) ==
  /\ client[c].pc = "connecting"
  /\ client' = [client EXCEPT ![c].pc = "open"]
  /\ mgr' = [i \in Req |-> IF i \in Awaiting(c) THEN [mgr[i] EXCEPT !.pc = "create"]
                           ELSE mgr[i]]
  /\ UNCHANGED << req, cache, inflight, closeGeneration, registry, closer,
                  server, exit, overlap, torn >>

\* Mutant: the failed acquires release by URI, like every other path.
FailedRefsByUri(c) ==
  IF registry \in {None, c} THEN [client EXCEPT ![c].pc = "failed"]
  ELSE [client EXCEPT ![c].pc = "failed", ![registry].refs = @ - Cardinality(Awaiting(c))]

\* Every failed acquire takes its reference back from its own entry.
FailedRefs(c) ==
  [client EXCEPT ![c].pc = "failed", ![c].refs = @ - Cardinality(Awaiting(c))]

\* It fails: the entry is dropped so that the next acquire connects afresh,
\* and the initialisations that await it return no manager.
ConnectFails(c) ==
  /\ client[c].pc = "connecting"
  /\ client' = FailedRefs(c)
  /\ registry' = IF registry = c THEN None ELSE registry
  /\ mgr' = [i \in Req |-> IF i \in Awaiting(c) THEN Gone(mgr[i], "failed")
                           ELSE mgr[i]]
  /\ InitSettles(Awaiting(c), FALSE)
  /\ UNCHANGED << cache, closeGeneration, closer, server, exit, overlap, torn >>

\* The background close of a released client.
ClientCloses(c) ==
  /\ client[c].doomed /\ client[c].pc = "open"
  /\ client' = [client EXCEPT ![c].pc = "closed"]
  /\ UNCHANGED << req, mgr, cache, inflight, closeGeneration, registry, closer,
                  server, exit, overlap, torn >>

-----------------------------------------------------------------------------
(* Eviction: an entry leaves the lookup at once and closes when idle. *)

\* Mutant: eviction closes a manager in use.
AtQuiescenceEager(e) ==
  IF e.evicted /\ e.pc = "live" THEN [e EXCEPT !.pc = "closing"] ELSE e

\* closeEntryAtQuiescence.
AtQuiescence(e) ==
  IF e.evicted /\ e.pc = "live" /\ e.borrows = 0
    THEN [e EXCEPT !.pc = "closing"] ELSE e

\* evictEntry on every manager of S.
Evicted(m, S) ==
  [i \in Req |-> IF i \in S THEN AtQuiescence([m[i] EXCEPT !.evicted = TRUE])
                 ELSE m[i]]

\* left is s without the members of S: the deletions from a Map keep the order of
\* the other entries.
Without(s, S, left) ==
  LET stay == {n \in DOMAIN s : s[n] \notin S} IN
  \E at \in [1..Cardinality(stay) -> stay] :
    /\ \A m, n \in DOMAIN at : m < n => at[m] < at[n]
    /\ left = [n \in DOMAIN at |-> s[at[n]]]

\* evictIdleMemorySearchManagers: the sweep finds the managers of S idle
\* beyond the TTL.  The timer runs while the cache holds anything.
EvictIdle(S) ==
  /\ S # {} /\ S \subseteq ToSet(cache)
  /\ Without(cache, S, cache')
  /\ mgr' = Evicted(mgr, S)
  /\ UNCHANGED << req, inflight, closeGeneration, client, registry, closer,
                  server, exit, overlap, torn >>

\* manager.close() returns; its onClosed hook releases the client.  A manager
\* closed because closeAll overtook its creation ends its initialisation here.
ManagerCloses(i) ==
  /\ mgr[i].pc \in {"closing", "discard"}
  /\ mgr' = [mgr EXCEPT ![i] = Gone(@, "closed")]
  /\ Release
  /\ IF mgr[i].pc = "discard" THEN InitSettles({i}, FALSE)
     ELSE UNCHANGED << req, inflight >>
  /\ UNCHANGED << cache, closeGeneration, closer, server, exit, overlap, torn >>

-----------------------------------------------------------------------------
(* getMemorySearchManager. *)

Serving == ~server \/ closer.pc = "up"

At(k) == {i \in ToSet(cache) : mgr[i].key = k}

\* A cached manager is handed out and becomes the most recently used.
Cached(r, k) ==
  \E p \in DOMAIN cache :
    /\ mgr[cache[p]].key = k
    /\ cache' = [n \in DOMAIN cache |-> IF n = Len(cache) THEN cache[p]
                                       ELSE cache[IF n < p THEN n ELSE n + 1]]
    /\ req' = [req EXCEPT ![r].pc = "hold", ![r].on = cache[p]]
    /\ UNCHANGED << mgr, inflight, overlap >>

\* Another request is already initialising this key: wait for its promise.
Joined(r, k) ==
  /\ inflight[k] # None
  /\ req' = [req EXCEPT ![r].pc = "wait", ![r].on = inflight[k]]
  /\ UNCHANGED << mgr, cache, inflight, overlap >>

\* initializeManager begins and notes the close generation.
Initialises(r, k, owned) ==
  /\ mgr' = [mgr EXCEPT ![r] = [NoManager EXCEPT !.pc = "import", !.key = k,
                                  !.owned = owned, !.gen = closeGeneration]]
  /\ inflight' = IF owned THEN inflight ELSE [inflight EXCEPT ![k] = r]
  /\ req' = [req EXCEPT ![r].pc = "wait", ![r].on = r]
  /\ overlap' = (overlap \/ closer.pc \in {"settle", "quiesce", "clients"})
  /\ UNCHANGED cache

GetMemorySearchManager(r, k, owned) ==
  /\ req[r].pc = "new" /\ Serving
  /\ owned => ~server
  /\ IF owned THEN Initialises(r, k, TRUE)
     ELSE IF At(k) # {} THEN Cached(r, k)
     ELSE IF inflight[k] # None THEN Joined(r, k)
     ELSE Initialises(r, k, FALSE)
  /\ UNCHANGED << closeGeneration, client, registry, closer, server, exit, torn >>

Imported(r) ==
  /\ mgr[r].pc = "import"
  /\ Acquired(r)
  /\ UNCHANGED << req, cache, inflight, closeGeneration, closer, server, exit,
                  overlap, torn >>

\* create() fails in some phase and unwinds what it acquired; either its own
\* close() or initializeManager's catch gives the reference back, once.
CreateFails(r) ==
  /\ mgr[r].pc = "create"
  /\ mgr' = [mgr EXCEPT ![r] = Gone(@, "failed")]
  /\ Release
  /\ InitSettles({r}, FALSE)
  /\ UNCHANGED << cache, closeGeneration, closer, server, exit, overlap, torn >>

\* cacheManager: Map.set keeps an existing key's place and drops its old
\* value; a new key over the limit evicts the least recently used one.
CacheManager(r) ==
  LET k     == mgr[r].key
      set   == IF At(k) = {} THEN Append(cache, r)
               ELSE [n \in DOMAIN cache |-> IF cache[n] \in At(k) THEN r ELSE cache[n]]
      over  == Len(set) > CacheMax
  IN /\ cache' = IF over THEN Tail(set) ELSE set
     /\ mgr' = Evicted([mgr EXCEPT ![r].pc = "live"],
                       IF over THEN {Head(set)} ELSE {})

\* A manager created before closeAll and finished after its start is closed
\* instead of cached.
OvertakenBy(r) == mgr[r].gen # closeGeneration

Created(r) ==
  /\ mgr[r].pc = "create"
  /\ IF OvertakenBy(r)
       THEN /\ mgr' = [mgr EXCEPT ![r].pc = "discard"]
            /\ UNCHANGED << req, cache, inflight >>
       ELSE /\ IF mgr[r].owned
                 THEN mgr' = [mgr EXCEPT ![r].pc = "live"] /\ UNCHANGED cache
                 ELSE CacheManager(r)
            /\ InitSettles({r}, TRUE)
  /\ UNCHANGED << closeGeneration, client, registry, closer, server, exit,
                  overlap, torn >>

-----------------------------------------------------------------------------
(* Operations: trackManagerBorrows counts one borrow for as long as the     *)
(* operation's promise is pending.  An owned manager is handed out bare.    *)

BeginOperation(r) ==
  LET i == req[r].on IN
  /\ req[r].pc = "hold"
  /\ req' = [req EXCEPT ![r].pc = "op", ![r].late = mgr[i].pc # "live"]
  /\ mgr' = [mgr EXCEPT ![i].borrows = IF mgr[i].owned THEN @ ELSE @ + 1]
  /\ UNCHANGED << cache, inflight, closeGeneration, client, registry, closer,
                  server, exit, overlap, torn >>

\* Mutant: the last borrow's release does not look at the eviction.
EndOperationForgets(r) ==
  LET i == req[r].on
      m == mgr[i] IN
  /\ req[r].pc = "op"
  /\ req' = [req EXCEPT ![r] = Answered]
  /\ mgr' = [mgr EXCEPT ![i] =
                IF m.owned THEN [m EXCEPT !.pc = "closing"]
                ELSE [m EXCEPT !.borrows = m.borrows - 1]]
  /\ UNCHANGED << cache, inflight, closeGeneration, client, registry, closer,
                  server, exit, overlap, torn >>

\* The operation settles; the owner of an owned manager then closes it.
EndOperation(r) ==
  LET i == req[r].on
      m == mgr[i] IN
  /\ req[r].pc = "op"
  /\ req' = [req EXCEPT ![r] = Answered]
  /\ mgr' = [mgr EXCEPT ![i] =
                IF m.owned THEN [m EXCEPT !.pc = "closing"]
                ELSE AtQuiescence([m EXCEPT !.borrows = m.borrows - 1])]
  /\ UNCHANGED << cache, inflight, closeGeneration, client, registry, closer,
                  server, exit, overlap, torn >>

-----------------------------------------------------------------------------
(* closeAllMemorySearchManagers, and the signal handler that calls it. *)

\* registerGracefulShutdown: a second signal finds shuttingDown set.  The
\* server first stops accepting and ends its open requests.
Signal ==
  /\ server /\ closer.pc = "up"
  /\ closer' = [closer EXCEPT !.pc = "drain"]
  /\ UNCHANGED << req, mgr, cache, inflight, closeGeneration, client, registry,
                  server, exit, overlap, torn >>

\* The generation moves on and the running initialisations are awaited.
CloseAll ==
  /\ IF server THEN closer.pc = "drain" /\ \A r \in Req : req[r].pc \in {"new", "done"}
     ELSE closer.pc = "up"
  /\ closeGeneration < MaxGen
  /\ closeGeneration' = closeGeneration + 1
  /\ closer' = [pc |-> "settle", wait |-> {inflight[k] : k \in Key} \ {None}]
  /\ UNCHANGED << req, mgr, cache, inflight, client, registry, server, exit,
                  overlap, torn >>

Pending(m) == {i \in Req : m[i].evicted /\ m[i].pc \in {"live", "closing"}}

\* Mutant: running initialisations are dropped instead of awaited.
CloseEntriesAtOnce ==
  /\ closer.pc = "settle"
  /\ inflight' = [k \in Key |-> None]
  /\ cache' = << >>
  /\ mgr' = Evicted(mgr, ToSet(cache))
  /\ closer' = [pc |-> "quiesce", wait |-> Pending(mgr')]
  /\ UNCHANGED << req, closeGeneration, client, registry, server, exit,
                  overlap, torn >>

\* They have settled: forget the rest, evict everything, and wait for every
\* close that is pending by then.
CloseEntries ==
  /\ closer.pc = "settle"
  /\ \A i \in closer.wait : mgr[i].pc \notin Building
  /\ inflight' = [k \in Key |-> None]
  /\ cache' = << >>
  /\ mgr' = Evicted(mgr, ToSet(cache))
  /\ closer' = [pc |-> "quiesce", wait |-> Pending(mgr')]
  /\ UNCHANGED << req, closeGeneration, client, registry, server, exit,
                  overlap, torn >>

Uses(i, c) == mgr[i].client = c /\ mgr[i].pc \in Building \cup {"live", "closing"}

\* closeAllSharedMongoClients empties the registry ...
CloseClients ==
  /\ closer.pc = "quiesce"
  /\ \A i \in closer.wait : mgr[i].pc = "closed"
  /\ registry' = None
  /\ closer' = [pc |-> "clients", wait |-> {registry} \ {None}]
  /\ client' = IF registry = None THEN client
               ELSE [client EXCEPT ![registry].doomed = TRUE]
  /\ torn' = (torn \/ (registry # None /\ \E i \in Req : Uses(i, registry)))
  /\ UNCHANGED << req, mgr, cache, inflight, closeGeneration, server, exit, overlap >>

\* ... and waits until what it held is closed, or never connected.
CloseAllReturns ==
  /\ closer.pc = "clients"
  /\ \A c \in closer.wait : client[c].pc \in {"closed", "failed"}
  /\ closer' = [pc |-> "up", wait |-> {}]
  /\ exit' = server
  /\ UNCHANGED << req, mgr, cache, inflight, closeGeneration, client, registry,
                  server, overlap, torn >>

-----------------------------------------------------------------------------

\* Progress that the event loop and the driver owe.
Progress ==
  \/ \E r \in Req : \/ Connects(r) \/ ClientCloses(r) \/ ManagerCloses(r)
                    \/ Imported(r) \/ Created(r)
                    \/ BeginOperation(r) \/ EndOperation(r)
  \/ CloseAll /\ server
  \/ CloseEntries \/ CloseClients \/ CloseAllReturns

RegistryNext ==
  /\ ~exit
  /\ \/ Progress
     \/ CloseAll
     \/ \E r \in Req : \/ ConnectFails(r) \/ CreateFails(r)
                       \/ \E w \in Wants[r] : GetMemorySearchManager(r, w[1], w[2])
     \/ \E S \in SUBSET Req : EvictIdle(S)
     \/ Signal

RegistrySpec == RegistryInit /\ [][RegistryNext]_registryVars

\* Every await the code is suspended on settles, and requests run to their end;
\* nothing obliges a connection or a creation to succeed, or anyone to call.
RegistryFairSpec == RegistrySpec /\ WF_registryVars(~exit /\ Progress)

-----------------------------------------------------------------------------
(* Properties. *)

\* B9 of search-manager.ts: an operation that began on a live manager never
\* has the manager closed under it, whatever evicts it meanwhile (LRU, idle
\* sweep, shutdown).  An operation started on a facade kept past the eviction
\* of an idle manager is outside this promise ("late").
NoCloseUnderOperation ==
  \A r \in Req : req[r].pc = "op" /\ ~req[r].late => mgr[req[r].on].pc = "live"

\* The registry's count is the number of managers that hold or await the
\* client, so that it is closed exactly when the last of them is done.
\* Releases name the URI and not the client, so this needs that no closeAll
\* tore a client away from a user, and only an owned manager or a get that
\* overlaps closeAll makes one do that.
ClientsCounted ==
  /\ ~torn => \A c \in Req :
       LET users == {i \in Req : Uses(i, c)} IN
       /\ client[c].refs = Cardinality(users)
       /\ client[c].doomed \/ client[c].pc = "closed" => users = {}
  /\ torn => overlap \/ \E i \in Req : mgr[i].owned

\* Concurrent gets share one initialisation, at most one manager per key is
\* in service, and when closeAll has closed the entries every manager begun
\* before it is closed.  A clean exit leaves no manager behind.
ManagersAccounted ==
  LET cached == {i \in Req : mgr[i].pc # "none" /\ ~mgr[i].owned} IN
  /\ ~overlap => \A i, j \in cached :
       /\ mgr[i].key = mgr[j].key /\ i # j
       /\ {mgr[i].pc, mgr[j].pc} \subseteq Building \cup {"live"}
       => mgr[i].evicted \/ mgr[j].evicted
  /\ ~overlap /\ closer.pc = "clients" =>
       \A i \in cached : mgr[i].gen < closeGeneration => mgr[i].pc \in {"closed", "failed"}
  /\ exit => \A i \in cached : mgr[i].pc \in {"closed", "failed"}

\* Neither a client nor a manager is closed under its users or left open behind
\* them (acquireSharedMongoClient, getMemorySearchManager and their closers).
NothingLeaks == ClientsCounted /\ ManagersAccounted

\* Again and again nothing is left to do: no request waits, no evicted
\* manager is still open, no shutdown is under way.
EverythingEnds ==
  []<>(/\ \A r \in Req : req[r].pc \in {"new", "done"}
       /\ \A i \in Req : mgr[i].evicted => mgr[i].pc = "closed"
       /\ closer.pc = "up")
=============================================================================
