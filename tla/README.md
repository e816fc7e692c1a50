# NimbusDNS in TLA+

NimbusDNS is a DNS forwarder for a home network: it answers from blocking lists
and a cache, forwards the rest over UDP, TCP or TLS, hands out addresses by
DHCP, keeps a query log, and has an HTTP API. It is a multi-threaded tokio
program; what is hard in it is hard because many tasks share maps, channels,
semaphores and a database, and because peers, upstreams, clients and the process
itself stop whenever they like. These modules model the parts where that
matters, in the order given under [Plan](#plan).

Paths below are relative to the repository; `core/` is short for
`nimbus-core/src/`.

## The system

| component | state it keeps | operations | talks to |
|---|---|---|---|
| listener, `core/dns/listener.rs` | a semaphore, in-flight counts per client | accept a datagram or a connection, serve it, release | router |
| router, `core/dns/router.rs` | rate limit windows per client | route a query: rate limit, blocking, cache, upstreams, log | cache, blocking, forwarder, writer |
| cache, `core/dns/cache.rs` | a sharded map of responses | get, insert (purge, evict), remove_domain, clear; swept every 60 s | router, sweep task |
| forwarder, `core/dns/forwarder.rs` | a pool of UDP sockets | forward by UDP with TCP fallback, or by TLS | router, DoT |
| DoT, `core/dns/dot.rs` | a sender per upstream; per connection a channel, pending queries, a reader task | send_query; connect, write, read, sweep, reconnect | forwarder |
| blocking, `core/blocking/` | exact sets and patterns in memory, the gravity database | check, reload, deltas, periodic refresh | router, API, SIGHUP |
| query log, `core/database/writer.rs`, `queries.rs` | a channel, a batch, SQLite tables | queue, flush on size or timer, purge, flush on shutdown | router, API, main |
| statistics, `core/over_time/` | a ring of slots, histories per client | record, read | router, API |
| DHCP, `core/dhcp/mod.rs` | leases, offers, pool, exclusions, quarantines, rows in SQLite | DISCOVER, REQUEST, RELEASE, DECLINE, INFORM, reclaim, load at start | API, configuration |
| configuration, `core/config/`, `nimbus-api/src/lib.rs` | the configuration in memory and its file | PATCH, password, blocking switch, SIGHUP reload | everything |
| sessions, `nimbus-api/src/auth.rs` | a cache over a table, login attempts per address | login, validate, logout, clean up | API |
| process, `nimbus-bin/src/main.rs`, `core/signals`, `core/daemon` | shutdown and reload channels, PID file | start, SIGHUP, shutdown | everything |

What makes each correct, and what is hard about it:

- **listener**: a slot taken is given back, exactly once, on every path; one
  client cannot take them all; counts of finished clients do not pile up. Two
  accept loops and all the tasks share the counts, and taking and releasing are
  two steps each.
- **cache**: its size stays bounded and its expired entries go away while any
  number of tasks walk its shards.
- **DoT**: an answer reaches the caller that asked for it or nobody, and a
  caller is never left to its timeout by a connection that has ended. Ids
  wrap, answers are late, connections break while queries are written.
- **DHCP**: an address has one owner at a time, across lost, repeated and
  reordered packets, expiry, declines and restarts; the pool loses none.
- **forwarder, router**: one deadline bounds everything a query may try; an
  answer belongs to its query; what is cached carries what is left of its TTL.
- **blocking, configuration, sessions**: memory agrees with what is persisted
  once nothing is under way, whatever the order of concurrent changes.
- **query log**: a query is written at most once; a purge takes nothing newer
  than what it leaves; what is queued does not stay queued.
- **rate limiter, statistics**: a flood is shed whatever the order in which its
  queries reach the limiter; the histories count every query once, in its slot.
- **process**: a crash between any two steps of a start loses no row; the check
  of the PID file keeps out a second instance and nobody else.

The hazards, each at its line and with the properties that cover it, are listed
in `PROJECT.json`; those without a property say why.

## Modules

| module | models | proofs |
|---|---|---|
| `QueryLimiter` | listener: both accept loops, limiter, permits, tasks | `AdmissionProofs` |
| `DnsCache` (checked through `MCDnsCache`) | cache and sweep task | `DnsCacheProofs` |
| `DotConnection` | DoT to one upstream | `DotConnectionProofs` |
| `Forwarding` (through `MCForwarding`) | router and forwarder, from the cache to the answer | `ForwardingProofs` |
| `DhcpServer` | DHCP server, its rows and restarts | `DhcpServerProofs` |
| `RateLimiter`, `OverTime` | the limiter of the router, the statistics; no behaviour of their own, instances in `QueryLog` | `QueryLogProofs` |
| `QueryLog` | what a query leaves behind: limiter, channel, writer, table, statistics, over shutdown and crash | `QueryLogProofs` |
| `WriteOnceLog` | abstract specification of the log, refined by `QueryLog` | the refinement, in `QueryLogProofs` |
| `BlockingLists` (through `MCBlockingLists`) | lists in the database and in memory, API, fetcher, SIGHUP | `AdmissionProofs` |
| `ConfigStore`, `Sessions` | configuration and its file; sessions, their cache and the login limiter; extended by `Management` | `ManagementProofs` |
| `Management` (through `MCManagement`) | the API's handlers that change either, with SIGHUP and restart | `ManagementProofs` |
| `Startup` | instances of the program: PID file, migrations, port, stop and crash | `StartupProofs` |

`MCDnsCache` only defines three keys (two of one domain) and their shards,
`MCForwarding` three messages and two lists of upstreams, `MCBlockingLists` a
domain and its parent with the texts that name them, `MCManagement` three bodies
of PATCH and two files an administrator writes. The other modules are small
enough in their constants for the `.cfg` alone.
Operators with an underscore in their name (`Decrement_KeepsZero`) are variants
with a plausible bug, each placed before the definition it is a variant of;
nothing uses them. They show that a property notices that bug.
`AdmissionProofs` is about the two things a query must pass before it is looked
up or forwarded, the limits and the lists. It extends both modules, which is why
the specification of `BlockingLists` is called `ListsSpec`, its invariant
`ListsTypeOK`.

### QueryLimiter

| here | code |
|---|---|
| `inFlight`, `free` | `in_flight: DashMap`, the permits left in `sem` |
| `listener[l]` | the loop of `handle_udp` / `handle_tcp`: receiving, between the two halves of `try_acquire`, sleeping after a socket error, or ended |
| `task[t]` | a spawned task and its permit; `dropping` lies between `QueryPermit::drop` and the drop of its field `_global` |
| `EnterClient`, `RefuseClient`, `TakeGlobal`, `Abandon` | `try_acquire` |
| `FinishUdp` | `process_udp_query` and `drop(_permit)` |
| `ReadQuery`, `IgnoreResponse`, `WriteAnswer`, `WriteFails`, `CloseTcp` | `serve_tcp_connection` |
| `DropPermit`, `ReleaseGlobal` | the two steps of dropping a permit |

The steps on one map entry are atomic because DashMap holds the shard's lock
over `entry()` and `remove_if_mut`. What a task does in the router is one step,
since it touches nothing of this module.

### DnsCache

DashMap's operations on one key are atomic; `len`, `iter`, `retain` and `clear`
take one shard's lock at a time, in order. The module keeps that: each is a walk
with a position, and other tasks act in between. A task's local variables are
in its `thread` record.

| here | code |
|---|---|
| `entries` | `entries`, with `cached_at` and `ttl`; payload left out |
| `BeginInsert` | stamping in the router and `entries.remove(&key)` |
| `CheckCapacity`, `PurgeStep` | `if len() >= max_entries { purge_expired() }` |
| `TestFull`, `EvictSample`, `EvictRemove` | the eviction loop and `evict_one`; `take(8)` is `SampleSize` |
| `Store` | `entries.insert` |
| `GetExpired`, `RemoveExpired` | `get` of an expired entry: the guard is dropped, then the key removed |
| `BeginRemoveDomain`, `FindDomainStep`, `RemoveDomainStep` | `remove_domain` |
| `BeginClear`, `ClearStep` | `clear` |
| `SweepTick`, `SweepStep`, `StopSweeper` | the task in `core/dns/mod.rs` |

The iterator's order within a shard is a hash order, so any sample of the right
size may come up. `get` of a fresh or absent key changes nothing and has no
action. The `len()` calls of `purge_expired` are for a log line and left out.

### DotConnection

One upstream, its successive connection tasks, and any calls of `send_query`.

| here | code |
|---|---|
| `upstream` | the sender in `DotManager.upstreams` |
| `caller[q]` | a call: sending, waiting for the oneshot, or done with a result |
| `task[k]`, `queue[k]` | `tls_connection_task` and its bounded channel |
| `pending[k]`, `reader[k]` | the pending map of its current connection and the reader task |
| `wire[k]` | queries the server has, or may have, and has not answered |
| `drawn` | `NEXT_ID`, not wrapped; an id is `drawn % IdSpace` |
| `Start`, `Enqueue`, `SendTimeout`, `SendClosed`, `WaitTimeout` | `send_query` |
| `Connect`, `ConnectFails`, `Retry`, `Take`, `WriteOk`, `WriteFails`, `Sweep`, `ReaderDone`, `Reconnect`, `ChannelClosed` | the task's two loops |
| `ReadResponse`, `ReadError` | the reader |

Details that matter and are kept: a query is registered before it is written;
while it is written the task does nothing else, but the reader goes on; each
connection has a pending map of its own; an aborted reader may still run until
it next waits; `SendClosed` removes whatever sender is in the map by then.
`TaskDies` is external to the code in the sense that no statement of the task is
known to panic; it is the case the comment at `dot.rs:136-141` provides for.

### Forwarding

Any number of calls of `route`, which share the cache and the pool of UDP
sockets, with time.

| here | code |
|---|---|
| `call[q]` | a call and its local variables: between upstreams, waiting for UDP, TCP or TLS, or done |
| `idle` | `udp_pool.idle` |
| `net` | nothing in the code: queries sent by UDP, by the socket they came from, and when the upstream answered |
| `cache` | the cache as far as its callers can tell: it may drop an entry at any time (`Drop`) |
| `told` | nothing in the code: the answer the last step gave to a client, for the properties |
| `peak` | nothing in the code: most sockets in use at one time, for `PoolBounded` |
| `TurnAway`, `AnswerFromCache`, `Forward` | `route` up to the deadline, with the hit's new id and TTLs |
| `AskUdp`, `AskTls`, `AskFails`, `Exhausted`, `GiveUp` | the loop of `forward_attempt` and the timeout around it |
| `ReadUdp`, `ReadMismatch`, `ReadUnusable`, `UdpError`, `UdpTimeout` | `forward_plain`, and `forward` where it validates |
| `StreamAnswers`, `StreamFails` | `forward_tcp` and `forward_tls`, and the validation |
| `Succeed`, `CacheResponse`, `Life` | `route` with a response |
| `UdpAnswered`, `Tick` | upstreams and time |

What makes it interesting is kept: `forward_plain` gives its socket back as soon
as it stops listening, also on a timeout, so that the answer can still come and
wait in the socket for the next user; the outer timeout drops a socket instead
of giving it back; upstreams can be replaced under way, but a call keeps the
list it began with; TCP gets the attempt's whole budget once more, and a DoT
call up to twice its budget (`Due`), so that only the deadline bounds a query.

A message is an id, a key and a class. DoT and TCP are abstracted to: the
query's own answer, made since it was asked for, or a failure. That DoT keeps
this promise is what `DotConnection` is about, and that the cache keeps its own
is for `DnsCache`. An answer's TTL is what `cache_ttl_secs` makes of it, so the
cache's bounds on it are a choice of `Ttls`. `born` and `own` in a response say
when it was made and whether for the query that took it.

### DhcpServer

| here | code |
|---|---|
| `leases`, `offered`, `allocated`, `excluded`, `declined` | the fields of `DhcpServer` and `IpPool.allocated` |
| `db` | the rows of `dhcp_leases` |
| `lock` | `mutation`, with the packet that holds it |
| `acked` | nothing in the code: what each client was told, for the properties |
| `Begin` | the lock and `reclaim_expired_locked` in `process_dhcp_message` |
| `Discover`, `DiscoverExhausted`, `Request`, `Refuse`, `Release`, `Decline`, `Ignore` | its `match`, with `can_client_request`, `try_commit_lease`, `handle_decline`, persistence |
| `Reclaim` | the timer of the receive loop, and `get_leases` |
| `Stop`, `Restart` | the end of the loop; a new process and `load_persisted_leases` |

A packet is one transaction under the lock, in two actions because the two
halves read the clock separately. Within the second half the code reads the
clock up to three times (`can_client_request`, the new expiry,
`try_commit_lease`); the model reads it once there. Since `Begin` and the
handler may already be any time apart, this leaves out only a clock that moves
between the tests of one handler. Packets run in tasks of their own and may be
lost, repeated and reordered before they get the lock, so any message may come
next. Addresses outside the pool are one value `Foreign`. The wall clock does
not go back in the model.

### QueryLog, RateLimiter, OverTime, WriteOnceLog

Three components that meet in `route` and in `log_query`, and the process around
them. `QueryLog` instantiates `RateLimiter` and `OverTime` with its own
variables.

| here | code |
|---|---|
| `window`, `lastCleanup`; `Check`, `Counted`, `Decision` | `RateLimiter` and `check` in `router.rs` |
| `counters`, `ring`, `histories`; `RecordQuery`, `Bump`, `CleanupStaleClients`, `Recent` | `over_time/mod.rs` |
| `task[q]` | a call of `route`: `snapshot` is its reading of `dns.query_log`; `opened` and `counted` are for the properties |
| `Route`, `LogQuery`, `Enqueued` | `route` to the limiter's answer; `log_query` with `DbWriter::store` and `record_query` |
| `channel`, `batch`, `flights` | the bounded channel, the writer's batch, the batches given to `spawn_blocking` |
| `Receive`, `FlushTimer`, `StopWriter` | the three arms of the writer's `select!` |
| `FlushEnds`, `Written` | `store_query_batch`: a transaction that commits or does not |
| `SetQueryLog`, `RunPurge` | `update_config` and the purge it spawns |
| `HourlyCleanup` | the hourly task of `serve` (`nimbus-api/src/lib.rs:185-227`) |
| `Shutdown`, `ProcessEnds` | a signal; the end of the process, orderly or not, and the next start |

The limiter reads the clock before it takes the lock; the model lets a query
have any reading of the last `MaxLag` ticks. Of its two steps on the map,
`retain` and the entry, only the order is kept. A purge reads the clock and
deletes in one step. `ProcessEnds` does not ask whether the writer has stopped,
because `main` does not either. The branch of the writer for a closed channel
cannot be reached, as the router keeps a sender for as long as the process lives.
Only PATCH changes the log's switch here: a file that says otherwise, which SIGHUP
or a restart would read, is in `Management`.

`WriteOnceLog` knows an entry and its timestamp. `QueryLog` maps to it by
`Entry(q)`: new until it has a timestamp, accepted while it is queued anywhere,
written by the number of its rows, gone otherwise. A second row, a row that comes
back after it was given up, or a purge that leaves an older row maps to no step.

### BlockingLists

| here | code |
|---|---|
| `rows`, `gravity` | tables `domainlist`, `gravity` |
| `lists`, `CheckBlocked`, `IsMatch` | `BlockingLists`, `check_blocked`, `WildcardMatcher::is_match` |
| `AddListed`, `FindListed` and `RemoveListed`, `AddGravity`, `RemoveGravity` | the handlers of `/api/allowlist`, `/api/denylist`, `/api/blocklist` |
| `ClientGone` | a handler is dropped at its await |
| `WithDelta`, `ApplyDelta` | the detached task of `apply_blocking_delta` and what it calls |
| `AskRefresh`, `RefreshImports` | `post_blocklist_refresh` and its task |
| `RefreshDue`, `Fetch`, `FetchFails`, `Import` | the fetcher's loop, `do_fetch`, `replace_all_gravity` |
| `LoadStep`, `Swap`, `Loaded` | `reload` query by query, and the swap; `load` at start |
| `missed`, `doubt` | nothing in the code: the names the copy may be wrong about, and why |

A name is a sequence of labels, a text a name that may be spelled in capitals
or be a wildcard (`*.` in front). A name has one label at least (what `split`
returns is never empty), and what is fetched is finite. Regex rows are constant: no handler adds or
removes one. Every row of the API is enabled and in group 0. A text has no blanks
around it: the deltas would trim them (`blocking/mod.rs:264-279`), the loads of
the allow and deny lists do not (`blocking/mod.rs:96`, `:104`), which is one more
way for copy and rows to disagree. `add_domainlist` is two statements, each
committed by itself, and one step here.

**Dropped handlers.** `axum::serve` (`lib.rs:174`) drops the future of a handler
whose client disconnects while the handler is at an await. A closure that was given
to `spawn_blocking` runs to its end all the same, so a handler that is awaiting its
database or file operation leaves that operation done and all that follows undone.
In `BlockingLists` a request whose row is written stays `written` until the change
is applied (`ApplyDelta`) or the handler is dropped (`ClientGone`). That the handler
goes on and spawns the task in between touches nothing that anybody else reads, so
it is no step of its own. After `ClientGone` no task is to come, the names the text
touches are in `doubt`, and loads that had read before do not have the row. `ClientGone` in `Management` is the same for every handler there, at
each await. Tasks that a handler spawned are not its own, and go on.

### ConfigStore, Sessions, Management

| here | code |
|---|---|
| `config`, `dhcpConfig`, `file` | `AppState::config`, `AppState::dhcp_config`, the file at `config_path` |
| `Valid`, `WithEnv`, `Load`, `Merge`, `Strip` | `validate`, `apply_env_overrides`, `load`, `json_merge` with the defaults, `strip_secrets_from_config` |
| `Truncate`, `WriteOut` | the two effects of `std::fs::write` |
| `rows`, `cached`, `attempts` | table `sessions`, `SessionCache`, `AuthRateLimiter` |
| `task[t]` | a request and its handler's local variables; or SIGHUP's, or the hourly task's |
| `BeginGuarded`, `Lookup`, `Evict`, `Fetch`, `Expire`, `Uncache`, `Insert` | `AuthService::call` and `SessionCache::validate` |
| `BeginLogin`, `Verify`, `CreateRow`, `ReadRow`, `CacheSession` | `authenticate` |
| `BeginLogout`, `DeleteRow`, `Forget` | `delete_session` |
| `BeginSetup`, `CheckSession`, `ChangeLive` | `setup_password` |
| `MergePatch`, `OpenFile`, `WriteFile`, `ApplyPatch` | `update_config` |
| `ChangeLive`, `OpenFile`, `WriteFile` | `set_blocking_status` |
| `ClientGone` | a handler is dropped at its await (see above) |
| `Sighup`, `SwapConfig`, `Restart` | `main.rs` |
| `CleanRows`, `CleanCache` | the hourly task of `serve` (`lib.rs:185-227`) |
| `expected`, `settled`, `ended`, `lifetime`, `guesses` | nothing in the code: what was asked for and granted, for the properties |

A configuration is four fields, one of each kind the code treats differently:
the password, which PATCH must not set; the blocking mode, which the environment
overrides and which has a handler of its own; the upstreams, for which
`validate` stands; the DHCP section, which is copied. While `AuthService`
validates a session it holds the read lock of the configuration, so writers
wait (`ConfigFree`). The limiter reads clock and entry in one step, and the hash
is read with it.

### Startup

| here | code |
|---|---|
| `pc[p]`, `pid[p]` | a process and where it is in `main` |
| `Start`, `CheckOtherInstance`, `SavePid`, `RemovePid` | `main` to the check, `daemon/mod.rs` |
| `OpenGravity`, `ReadVersion`, `Schema`, `Create`, `Copy`, `Drop`, `Rename`, `RecordVersion` | `Database::open` and `run_migrations`, a statement at a time |
| `Applies`, `StatementFails` | what SQLite makes of a statement: `IF NOT EXISTS` or not, a missing table, the key of `schema_version` |
| `tables`, `rows`, `version` | the tables of queries, their rows, the highest recorded version |
| `BindPort`, `StoreRow`, `Terminate`, `ListenerEnds`, `Exit` | the rest of `main`, from `dns::start` to the end |
| `Crash` | a kill, a failed start, and any error that ends a start for a reason outside the model: `main` returns by `?` and cleans nothing up |

A process gets any id no other has, also one that was used before, and
`kill(pid, 0)` may find an unrelated program. The TCP listener is what a second
instance fails at, since the UDP socket may be shared. All processes are of one
user: of another user's `kill` says EPERM, which the code takes for a process that
does not exist. `CREATE INDEX` is part
of the step that records the version. The check is on, as it is by default.

## Runs

| run | instance | result |
|---|---|---|
| `limiter` | 2 clients, 3 tasks, 3 permits, cap 2, 2 messages per connection | all properties hold; 183 thousand states |
| `cache` | 2 tasks, 3 keys, 2 shards, size 2, sample 2, TTL below a tick, 1 tick | all properties hold; 482 thousand states |
| `dot` | 3 queries, 2 tasks, channel of 1, 3 ids, counter seeded up to 3 by others | all properties hold; 280 thousand states |
| `forwarding` | 2 queries, 2 sockets, 3 messages (two ids, two keys, two classes), upstreams by UDP then TLS or by TLS only, timeouts 1, time 0..2 | all properties hold; 585 thousand states |
| `forwarding_socket` | the same | `OwnSocket` is violated |
| `dhcp` | 3 clients, 2 addresses and one foreign, lease 3, offer 2, quarantine 1, time 0..4, writes succeed | all properties hold; 2.3 million states |
| `dhcp_dbfail` | 2 clients, the same with time 0..3, writes may fail | `OwnedNotFree` is violated |
| `querylog` | 3 queries of one client, limit 1 a window, ring of 2 slots, channel of 1, batches of 2, retention 1, lag 1, time 1..4, 1 purge at a time | all properties hold; 623 thousand states |
| `lists` | 2 names, one below the other, in both spellings and as a wildcard, one regex row, 2 requests at a time and in all, 1 SIGHUP or restart, any number of fetches | both properties hold; 576 thousand states |
| `management` | 2 passwords, 2 sessions, 3 requests, 2 at a time, 1 event (SIGHUP, edit, failed write, restart), 1 attempt in 2 ticks, time 1..2 | all properties hold; 2.8 million states |
| `startup` | 2 instances at a time and any number in turn, 3 process ids, 2 rows, a database of any earlier version | all properties hold; 260 thousand states |
| `startup_stale` | the same, 2 process ids, 1 row | `RefusedForOther` is violated |

What the properties say:

- `PermitAccounting`, `ClientAccounting`, `ClientCapRespected`,
  `OnlyActiveClients`: the counts are exact at every step of every
  interleaving, the half-done ones included. `SlotsComeBack`: every permit
  taken is given back.
- `OvershootBounded`: the test for room and the store are two steps, so the
  size is overshot, but entries and tasks about to store stay below
  `max_entries` plus the number of tasks. `InsertProgress`: the tasks cannot
  spin in the eviction loop together. `ExpiredReclaimed`: the sweep reaches
  every expired entry.
- `AnswersOwnQuery`: an answer goes to its query, or the counter has gone
  through the whole id space in between. (The exception is real: a query that
  was swept leaves its id free, and its answer may come 65536 draws later; the
  forwarder then compares questions.) `WaiterNotForgotten`: some task will see
  to each waiting caller. `DisconnectFailsFast`, `AbandonedSwept`,
  `DeadSenderReplaced`: it does, without a caller's timeout.
- `AnswersQuestion`: whatever waits in a socket, a client gets an answer to its
  own question with its own id, and the cache keeps answers under their keys.
  For a hit this does not extend to the class, which the cache's key takes for
  IN whatever the query says (`router.rs:122`). `CachedWithinTtl`: the time a
  query took is taken off the TTL. `ToldWithinTtl`: what a client is told ends
  no later than the deadline allows. Both are about answers made for the query
  that took them: a socket may yield the answer to an earlier query for the same
  name with the same id, and how old that is the router cannot know.
  `SocketsExclusive`, `PoolBounded`: sockets are neither shared nor lost to a
  growing pool. `FailsAfterAll`: one upstream's bad answer does not fail the
  query. `EveryQueryEnds`: upstreams that never answer do not keep it.
- `PoolAccounting`, `ExclusiveOwnership`, `ExcludedNotServed`: the five maps
  agree. `AckedIsPersisted`, `NoSharedBinding`: what clients were told agrees
  with the table and with each other, across restarts.
- `FloodShed`: of the queries let through in one window of a client, at most the
  limit and the first refused one are logged, in whatever order clock readings
  and locks came. `HistoryExact`: what the statistics report of any slot of the
  last day is the number of queries that were logged in it, over reuse of the
  ring, removal of idle clients and their return. `ImplementsLog`: the
  refinement of `WriteOnceLog`. `LogCatchesUp`: again and again nothing is
  queued.
- `FollowsDatabase`: a name is decided in memory as the rows say, however
  changes of other names and loads interleave, unless a change of it is under
  way or one of seven things has happened since the last load: opposite changes
  of it crossed, a load took a change back, a wildcard or capitals came through
  the API, a row was removed through the wrong list or left another spelling, an
  import was not loaded, or the handler was dropped between the row and the copy.
  The seven are what the code does, and the property says that among the texts
  modelled there is no eighth. `DisagreementEnds`: whatever the disagreement, a later
  refresh ends it.
- `ConfigSettles`: when no change is under way and the last one ran alone, was
  written and was not dropped with its handler, file and live copy agree up to the environment, are valid, and are
  what was asked for since the last load, in order. `LogoutHolds`: a session that
  was logged out, by a handler that came to its end and while nobody was between
  reading its row and caching it, is gone for good, and none is accepted after its time. `GuessesBounded`: no
  window of any position holds more than the allowed attempts between successes.
- `RowsKept`: unless two instances overlapped, crashes between any two statements
  of any number of starts lose no row, and after migration 4 the rows are where
  the program looks. `FailsForCause`: a start that fails met an overlap or the
  left-over table of an interrupted migration 4. `CheckDecides`: nobody gets
  past the check while another instance has its id saved, and after orderly stops
  a lone instance does.

### Why the bounds are enough

- `limiter`: cap below permits below the demand, so that the cap, the
  exhausted semaphore and both at once occur; three tasks let both loops be
  half way through an acquisition while a task is half way through a release.
- `cache`: two tasks in every pair of steps of their walks; two shards so that
  every walk has a middle; three keys so that a full cache can get a further
  one, two in one domain so that `remove_domain` has something to do between.
  A run of the safety properties with three tasks (size 1, no tick, 5.9 million
  states) found nothing more. Zero TTL means less than a tick: an entry expires
  at the next.
- `dot`: fewer ids than draws, so ids wrap and get reused; a channel of one, so
  that it is full; two tasks, so that a dead one is replaced while it still has
  a reader. More queries than `IdSpace` would let `unique_conn_id` spin for
  ever, which 65536 ids rule out (`DotAssumption`). `MaxDrawn` bounds only the
  draws for other upstreams.
- `forwarding`: two queries, as all that passes between them goes through a
  socket, the pool or the cache; two sockets, so that a pooled one and a new one
  are in use together; two messages that differ in the key only and two that
  share the key, so that a late answer is the right one, the wrong one with the
  right id, and the right key with the wrong id. A unit of time is the five
  seconds that `DEFAULT_TIMEOUT` gives to an upstream and to the whole query. That
  they are the same is the code's choice and not without effect: an upstream
  that times out leaves no time for its TCP retry or for the next upstream, which
  get their turn after an error. `MaxTime` stops queries from coming in when there
  is no room for their deadline.
- `dhcp`: fewer addresses than clients; lease longer than offer longer than
  quarantine, as in the code; time enough for a lease given at 1 to expire and
  its address to be leased again.
- `querylog`: a channel of one and a batch of two, so that the channel is full,
  a batch waits for the timer, and a flush is under way while the next batch
  fills. Three queries of one client are the limit, the first refused and
  another; two slots and four ticks make the ring go round. With two clients and
  one tick less (1.2 million states) the type invariant and all properties held
  as well.
- `lists`: two requests in every overlap with each other, with both loaders and
  with the end of a client; a wildcard above a literal, so that one row decides two
  names; capitals and lower case of one name. With two SIGHUPs or restarts
  (1.2 million states), and with three changes (7.1 million up to symmetry),
  `FollowsDatabase` held as well.
- `management`: two requests at a time are enough for every overlap of two
  handlers; a session that outlived a process, and one to be created; a timeout
  below a tick, so that sessions expire, and a window longer than a tick, so that
  attempts do not. With three passwords and one tick more (5.7 million states)
  all properties and the type invariant held as well.
- `startup`: what an instance does depends on the others only by the file, the
  port and the database; the third process id is one that nobody has. With three
  instances and one row (6.5 million states) all properties and the type
  invariant held as well.

Deadlock is checked in the cache and DHCP runs and in `startup`. It is not in the
others, where the system may stop: both accept loops end on shutdown, and
calls, queries, requests and ticks are limited in number.

Type correctness is proved for every module; it is part of the runs of three
modules only, as the runs are for what can go wrong. The inductive invariant of
`BlockingLists` was checked on the instance above before it was proved.

### Fairness

- `QueryLimiter`: an accept loop that has begun an acquisition goes on (no
  await in it); a UDP task ends (the router has a deadline); a TCP read ends
  (`IDLE_TIMEOUT`). Nothing in the code bounds the write of an answer, so that a
  peer reads or its connection breaks is a separate assumption, `PeerFairness`.
- `DnsCache`: a call that has begun runs on, since nothing in it waits; the
  interval fires; time passes. Insertions need not happen.
- `DotConnection`: the task runs, and connecting and a write end one way or the
  other. Connecting has a timeout, the operating system's for TCP and 10 s for the
  handshake (`dot.rs:378-383`). The write has none (`dot.rs:312`), so that it ends
  is an assumption about the upstream's host. Nothing is assumed of its answers or
  of callers' timeouts.
- `QueryLog`: the writer's loop runs, the timer fires, and a flush that was begun
  ends, well or not. Nothing is assumed of queries or of signals.
- `BlockingLists`: handlers go on or are dropped, the detached tasks and the loads
  run, the refresh interval
  ends, and the source answers again and again (`SF`, since failed fetches may
  come in between). Nobody has to send a request or a signal.
- `Forwarding`: tokio's timers fire and time passes. A timer that is due fires
  before the clock goes on. Nothing is assumed of upstreams, nor that a call gets
  to its next upstream in time.

`Management` and `Startup` have no liveness property and no fairness.

## What the runs found

1. `forwarding_socket`: the comment on `forward_plain` (`forwarder.rs:87`) says
   that each query gets a socket of its own and that this rules out a collision of
   ids. Sockets are pooled and given back on a timeout or an error, so the answer to
   an earlier query may be what the next user reads (`forwarder.rs:111`). Its id
   and question are compared, and a mismatch costs that query this upstream.
2. `dhcp_dbfail`: the release notes 0.5.8 say an address cannot return to the
   free pool while a lease owns it. If the deletion of a row fails, which is
   only logged, a restart may load two leases of one address, and RELEASE
   (`dhcp/mod.rs:684-696`) frees it under the other: unlike the reclaim, it does
   not look for another owner.
3. `startup_stale`: `main.rs:80` says that another instance is running when the
   check says so. After a crash the PID file stays, and the check
   (`daemon/mod.rs:141`) finds any process that has the id by then, the new
   instance itself included. In a container its id is always the same, so that it
   refuses to start for as long as the file is there.

What the properties leave out, because the code does it:

- **listener**: the comment on `MAX_QUERIES_PER_TCP_CONN` (`listener.rs:26-28`)
  says it bounds how long a client keeps a connection slot. It bounds messages; a
  peer that does not read keeps its slot in `write_all` (`listener.rs:365`).
  `SlotsComeBack` is violated without `PeerFairness`.
- **cache**: the test at `cache.rs:385` asserts that concurrent inserts never
  exceed the capacity. They can, by one entry for each further task: each passes
  the test at line 123 before any stores. `OvershootBounded` is what holds.
- **configuration**: a PATCH with `"webserver": null` removes the section and
  with it the password, although `lib.rs:1087-1089` says the hash is never set
  this way; a PATCH that overlaps a password's set-up undoes it. The file is
  empty between the truncation and the write, and an empty file is a valid
  configuration without a password, for SIGHUP and after a crash. SIGHUP does
  not bring the DHCP section to the DHCP server's copy. A PATCH whose client
  disconnects while the file is written (`lib.rs:1110-1112`) is in the file, and in
  neither the live configuration nor the DHCP server's copy, until the next SIGHUP
  or start. `ConfigSettles` says nothing in the meantime (`settled` is FALSE);
  without that exception TLC finds it violated.
- **sessions**: a validation that has read the row before a logout deletes it
  caches the session afterwards; it is accepted until it expires. So is one whose
  logout is dropped with its handler between row and cache (`lib.rs:1016-1019`).
- **lists**: the seven situations of `FollowsDatabase`. The last is a client that
  disconnects at one of the awaits of `lib.rs:594-597`, `608-611`, `626-631`,
  `645-650`, `1278-1281` and `1292-1295`: the row is written and the copy is not
  changed; without that exception TLC finds the property violated. Also, what the API adds to
  the blocklist is gone with the next fetch.
- **start**: a crash between the first and the last statement of migration 4
  leaves `queries_v4` behind, and every later start fails at `CREATE TABLE`
  (`database/mod.rs:209`) until somebody removes it; the rows are kept. A start
  that fails after saving its id leaves the file. Two instances that are both
  past the check before either saves its id may lose rows.

## Proofs

TLAPS proves the following for all values of the constants that satisfy the
modules' assumptions (`LimitsAssumption`, `CacheAssumption`, `DotAssumption`,
`ForwardingAssumption`, `DhcpAssumption`, `LogAssumption`, `ConfigAssumption`,
`SessionsAssumption`, `ManagementAssumption`, `StartupAssumption`,
`ListsAssumption`: types, finiteness, names of a label or more, at least one shard, at least as many task identities as permits,
socket identities as queries and DoT ids as queries of one connection, time for
one slot of the statistics, bodies of PATCH that name fields of a configuration).

**AdmissionProofs**, on `QueryLimiter`: `TypeCorrect`, `PermitsAccounted`, `ClientsAccounted`,
`CapRespected`, `MapHoldsActiveClients`. The inductive invariant is the type
invariant with `PermitAccounting`, `ClientAccounting` and `WritingBelowLimit` (a
connection whose answer is being written has not had its last message). The type
bounds `free` and every count, and a step keeps those bounds because of the
accounting: without it a decrement could meet an absent entry. The cap and the
map's domain follow: a count is at most the cap by its type, and an entry is
there exactly if its count, a sum of two cardinalities, is not zero. The lemmas
say how a step that changes one task or one loop changes those cardinalities.

**AdmissionProofs**, on `BlockingLists`: `ListsTypeCorrect`, `CopyFollows`.
`FollowsDatabase` speaks of names whose changes have all been applied and says
nothing of loads, so it is far from inductive. The invariant (`ListsInv`) goes
text by text. A text whose name is not in doubt and that has no change under way
is in the copy if its row is there (`CopyRight`); a change under way says what the
rows say, since an opposite one that crossed it put the name in doubt
(`ChangeRight`); a load has read what the rows say of every text it has not missed,
unless a change under way knows that it will be taken back (`during`,
`LoadRight`). A change under way begins with its row, before its task exists, so
that one lemma (`ChangeEnds`) serves both of its ends: the task applies it, or the
handler is dropped and the change is in doubt. Wildcards are told apart by the names they touch: one of those
out of doubt is enough for the wildcard to be right. A row found by a handler that
is to remove it may have gone, but its id is nobody else's (`Numbered`). The total
of a load counts wildcard rows, not the suffixes they become, and a delta moves it
by one exactly if the copy changes (`TotalRight`, `DeltaCounted`). Steps that
change rows behind the copy's back are all cases of `Aside`, those that leave a delta
cases of `Changed`. `Suffixed` is the one fact about sequences: looking up each
boundary between labels finds a suffix of the name.

**DnsCacheProofs**: `TypeCorrect` and `Overshoot`. `TypeOK` is inductive
together with `StampedInPast`: an entry on its way into the map is not stamped
ahead of the clock. `OvershootBounded` needs more: what makes it true lies in
the past, since `len()` adds up shards that change behind it. A task can store
behind a walk and evict ahead of it again and again, so no bound on what one
walk misses is invariant. But that task's own walks, which let it store, began
later. Of the walks that have let a task through, consider the one that began
last: since it began, no task can have both stored and been let through again.
So the entries this walk has missed and the tasks let through and not yet done
are together at most one per task, and the walk has counted fewer than
`MaxEntries`. The state does not record when a walk began; the invariant
(`Explained`) says that some history does: when each walk began, who has stored
since, and which keys. Each action's proof gives the new history.

**DhcpServerProofs**: `TypeCorrect` without conditions, and under `~DbMayFail`
`PoolAccounted`, `OwnershipExclusive`, `ExcludedStaysOut`, `AckPersisted` and
`BindingsDisjoint`. None of these is inductive by itself. The inductive
invariant joins them with three facts. `SingleClaim`: a client has a claim,
lease or offer, to one address at most; without it RELEASE, which gives back one
address but drops all offers of the client, and DECLINE, which drops its lease
whatever the address, would leave addresses nobody owns. `FreshInside`: inside a
transaction nothing in memory had expired when it began. `RowsAreLeases`: an
unexpired row is a lease in memory, so that a restart loads what was there.
`BindingsDisjoint` follows from `AckPersisted`, `RowsAreLeases` and exclusive
leases. `~DbMayFail` is needed: `dhcp_dbfail` shows what happens without.

**ForwardingProofs**: `TypeCorrect`, `QuestionsAnswered`, `SocketsAreExclusive`,
`PoolStaysBounded`, `CacheKeepsTtls`, `ClientsToldTtls`, `FailuresAreFinal`.
`TypeOK` says which calls listen on a socket (`Proper`), and its proof needs
`Past`: calls came in, and entries were cached, no later than now, so that no TTL
goes below zero. `AnswersQuestion` is inductive given the types: an answer is
compared before it is cached, under the key it was compared with. The two
statements about sockets are proved together (`PoolSound`): exclusive use makes
the number of sockets held go down when one is given back, so that pool and
holders stay within the peak. The bounds on TTLs need `InTime` (a call that is
under way is within its deadline, which the clock cannot pass),
`AnsweredSince` (an answer waiting for a query under way was made after it came
in) and `CachedInTime` (what was cached had been under way for `Overall` at
most). `FailsAfterAll` is proved step by step, with types only.

**StartupProofs**: `TypeCorrect`, `RowsAreKept`, `FailuresHaveCause`,
`CheckIsRight`. The inductive invariant has three parts. `OneInside`: as long as
no two instances overlapped, one at most is past the check. So it alone works on
the database, and `Sound` says what it finds before each statement (`Finds`:
both tables before the copy and the drop, the copied rows before the drop, only
the new table before the renaming), and what anybody finds after a crash at any
point. `Guarded`: an instance with its id saved finds it in the file, the file is
that of a live instance if all were stopped by a signal, and the port belongs to
one that serves. The two action properties follow step by step. `Overlapped` is
needed: two instances in the same migration do lose rows.

**DotConnectionProofs**: `TypeCorrect`, `OwnAnswer`, `NoneForgotten`. The inductive
invariant joins the types and both properties with two facts. `OnceEach`: a call
is in a channel or a pending map once, so that a map has fewer entries than there
are calls whenever another query is taken, and `unique_conn_id` ends: that it
does is part of type correctness (`FreshSeq`). `Matched`: an entry is found under
the id of its number, and a query the server may still answer is the entry under
its id or older than that entry. Two different numbers with one id are at least
`IdSpace` apart, and this gives `AnswersOwnQuery`. `WaiterNotForgotten` is
inductive with these: each action is shown to leave a waiting caller where it is,
to move it from the channel to the map, or to answer it.

**QueryLogProofs**: `TypeCorrect`, `WritesOnce`, `FloodsAreShed`,
`HistoriesAreExact`. The refinement maps each action to a step of
`WriteOnceLog` or a stutter; it needs `OnePlace` (what is queued is in one of
channel, batch and flights, once, with a timestamp and without a row), `Past`
(the windows of the limiter did not begin ahead of the clock) and `RowsStamped`
(a row at most, and none before a timestamp), all inductive with the types
(`LogInv`). `FloodInv` (`WindowsOver`, `WindowCounts`): the window a query was
let through in is its client's still, or is over for so long that no reading of
the clock is as early; and the limiter has counted those let through in the
window it keeps. It is proved for `MaxLag < StaleAfter`: a clean-up on behalf of
another client forgets a window that is `StaleAfter` old, and a reading of the
clock that is even later opens it once more. The code keeps windows for twice
their length, and between reading the clock and taking the lock there is no
wait, so the condition leaves out only a thread that is not scheduled for
that long; with two clients and a lag of two TLC finds `FloodShed` violated.
`HistoryInv`: what a slot says is the counts of the queries logged in the round
that its timestamp names (`Truthful`), for the ring of the server and of each
client; no query is missing unless it is a day old or its slot was taken over
(`Complete`); a client was active when its latest query was counted (`LastSeen`).
A slot's place is its time modulo the ring, so that two rounds share it exactly
if they are a day apart, and a client that is removed has been idle for a day: so
`HistoryExact` claims nothing of slots that are older.

**ManagementProofs**: `TypeCorrect`, `LogoutsHold`, `GuessesAreBounded`,
`ConfigurationSettles`. Types are inductive only with `SessionInv`: that the
session of a request is one somebody was told of, and that of a login nobody's
and no other login's (`Ids`, `Unshared`), so that ids in `ended` are known ones.
It also bounds what a thread has read, a row and a cached entry by the session's
lifetime, and keeps rows and cache empty of ended sessions; an insert whose
session was logged out under way is the exception `LogoutHolds` makes.
`GuessInv`: the limiter's attempts are the latest of the guesses, in order of
time, and what it has forgotten is out of the window of every position;
`RecordSuccess` forgets both. Overlapping logins do not matter, as reading the
clock, pruning and appending are one step under the lock of the entry. `ConfigInv`: a change that
is still alone is the only one, finds the file as it has left it and ends with
what was asked for; whatever any thread carries to file or memory is valid. That
the live copy may be ahead of the file (`set_blocking_status`, `setup_password`)
or behind it (`update_config`) while a change is under way is why the four steps
each have a clause of their own (`AloneSound`). A dropped handler ends a change
without its last step (`GoneStep`): of a patch that is written this is not settled,
and no other change awaits anything after its last effect.

Only model-checked: the liveness properties (`SlotsComeBack`, `InsertProgress`,
`ExpiredReclaimed`, `DisconnectFailsFast`, `AbandonedSwept`,
`DeadSenderReplaced`, `EveryQueryEnds`, `LogCatchesUp`, `DisagreementEnds`), which
are out of the prover's reach, and the three runs that refute a claim. Every safety
property of the other runs has a theorem.

## Not modelled

Of the modules above: the payload and hit counters of the cache; the TLS stream
and framing of DoT; the content of messages, encoding, the DNSSEC flag and the
arithmetic of `cache_ttl_secs` in `Forwarding`; DHCP options, INFORM, reply addresses, encoding, hostnames,
the choice of the server's own address, and a pool that changes between two
runs (rows outside of it are not loaded).

Of the newer modules: the outcome of a query other than by its kind
(`QueryLog`); regular expressions, groups, disabled rows and comments of list
entries (`BlockingLists`); all fields of the configuration but four, all rules of
`validate` but one, the content of hashes and cookies (`Management`); fork, nice,
redirection of output (`Startup`).
Functions that only tests call (`update_domainlist`, `GravityDb::check_blocked`,
`touch_session`, `refresh_session`) are left out.

Of the system, for good: read-only API handlers, the records of blocked answers,
the static web panel, logging, the vendor table: no state that two actors share.

## Plan

Done: the modules above. `Forwarding` assumes of DoT and of the cache what
`DotConnection` and `DnsCache` are about, each by itself.

Next: abstract specifications of what the lease table and the sessions promise,
refined by `DhcpServer` and `Management` as `WriteOnceLog` is by `QueryLog`, with the
refinements proved from the invariants there are.
