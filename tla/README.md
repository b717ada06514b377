# Verification of dish

TLA+ models of the trading system in this repository, the TLC runs that check
them, and TLAPS proofs of what matters most about them. Every definition is
translated from the code; `PROJECT.json` maps each one to its lines.

## 1. The system and its parts

The repository is a trading bot in three languages: Rust crates (the engine, the
exchange adapters, execution, risk, state, telemetry, about 75 000 lines), Python
packages (learning, research, supervision, operator control, about 64 000 lines)
and a TypeScript front end. Most of it is sequential numeric code or calls into
libraries. What is hard lies where threads, the exchange, the network, a crash or
an operator act at the same time on shared state. These parts are modelled (paths
without a prefix are under `src/crates/`):

| part | code | state it keeps | what makes it hard | what makes it correct |
|---|---|---|---|---|
| market data feed | `ingestion/src/binance_ws_client.rs`, `orderbook_reconstructor.rs` | connection, back-off, local book and its last update | streams end and die, updates are lost with them, a snapshot overtakes updates | the book is the exchange's as of its last update; a dead stream is opened again |
| tick ring | `core-engine/src/event_bus.rs` | slots, head, tail, overflow count | two threads, no lock, `unsafe` slots | no shared slot; bounded FIFO; no loss uncounted; delivery |
| trading engine | `core-engine/src/main.rs`, `event_bus.rs` | two channels, counters, running flags | polling, full channels, counter shared by threads | no event disappears; orders handled |
| order book tree | `orderbook/src/l3_tree.rs`, `memory_arena.rs` | red-black tree in an arena | rotations on children that may be missing | finds exactly the orders it was given |
| backtest order book | `backtest/src/lob_simulator.rs` | levels, queues, volumes | three places keep one level's volume | levels agree with their orders |
| memory pool | `core-engine/src/memory_pool.rs` | bytes per slab, counters, peak | counters updated one by one | the peak loses no maximum |
| task queue | `scheduler/src/priority_queue.rs` | a queue of tasks, size counter | tasks taken out and put back one by one | no task mislaid; size right; highest first |
| rate limiter | `exchange/src/rate_limiter.rs` | tokens, last refill | refill and consumption race; truncation | rate kept; the announced wait is enough |
| trade journal | `journal/src/event_logger.rs` | batch, ring, counters | a flush stops in the middle of a batch | events once each and in order, losses known |
| orphan order sweeper | `resilience/src/orphan_order_sweeper.rs` | queue of pending orders | a sweep holds the orders while others register, clear or sweep | no order forgotten, none cancelled twice, none left though late |
| order manager | `exchange/src/binance_order_manager.rs` | local orders, confirmations, history | reports lost, repeated, late; restart; inactive phases | never ahead of the exchange; exact until the first fault |
| reconciliation daemon | `exchange/src/reconciliation.rs` | discrepancy history | compares snapshots of two moving systems | a clean result can be relied on; newest findings kept |
| emergency flattener | `circuit_breaker/src/emergency_flattener.rs` | phase, armed, active | exchange moves on, calls fail or time out, triggers overlap | flat afterwards; closes at zero; returns |
| control handoff | `python/recovery/manual_override_handoff.py` | control state, emergency flag, session | callbacks fail or call back under a re-entrant lock | MANUAL is held; components agree; no endless transition |
| graceful shutdown | `python/system/backend_graceful_shutdown.py` | phase, results | every phase goes on after a failure, strategies trade on meanwhile | completed without errors means clean; ends |
| model hot swapper | `deployment/src/model_hot_swapper.rs` | active and previous model, two locks | validation before the lock | newest serves; no deadlock |
| UI state cache | `cache/src/ui_state_cache.rs` | slots, index, LRU queue, three locks | a lock given up before its result is used | index exact; least recent evicted |
| batch scheduler | `inference/src/batch_scheduler.rs` | two queues, statistics | batches cut while events come and are dropped | no event lost or doubled |
| chain synchronizer | `crosschain/src/state_sync.rs` | events, finality, watermarks | a lock for each map | maps agree; calls return |
| execution algorithms | `execution/src/iceberg_sniper.rs`, `twap_vwap.rs`, `adaptive_algos.rs`, `discretionary_orders.rs`, `pegged_orders.rs` | remaining and executed quantities, clips, reserves, peg prices | fills recorded by several threads | never more than the parent order; it completes; pegs stay in bounds |
| write-ahead log | `state/src/wal_writer.rs` | channel, buffer, files | crash between any two steps; errors of the disk are passed over | a replay has no holes but the failed writes; full mode misses no more than the channel |
| order store and recovery | `state/src/lmdb_store.rs`, `crash_recovery.rs` | orders on disk | the exchange goes on while the process is down; cancels and deletes fail unreported | what is live is kept; a call settles all but what its failed steps name |
| position rebuilder | `recovery/src/position_rebuilder.rs` | fills, positions | pages of a list that grows while it is read | the position is the exchange's, its money that of the fills |
| Python supervisor | `python/orchestrator/python_supervisor.py` | workers, locks, flags | signals on top of calls, a monitor that sleeps between test and start | one process per worker; the dead start again; ends when told |
| AMM arithmetic | `defi/src/amm_math.rs` | none | rounding | rounding never costs the pool |

How they interact. The feed keeps a book and hands ticks to the network thread,
which pushes them into the ring; the strategy thread pops ticks and sends orders
over the priority channel; the event thread drains both channels. Orders are
worked by the execution algorithms, leave through the rate limiter, are registered
with the order manager and the sweeper, and come back as execution reports; the
reconciliation daemon compares the manager with the exchange. When something goes
wrong the circuit breaker flattens, an operator takes over through the handoff, or
the system is shut down in phases. What must survive goes through the write-ahead
log and the order store, and the supervisor keeps the workers up. In the
repository most of these are libraries tested alone: `main.rs` starts only the bus
and three threads. So models are composed where code or documentation does
(ring and engine, manager and daemon with the exchange); elsewhere a run takes one
of several subjects that share a kind of hazard, and the others stand still.

## 2. Modules

| module | is | one action is |
|---|---|---|
| `MarketDataFeed` | client and book against an exchange and its stream | one message, connection attempt, snapshot or time-out |
| `TickQueue` | abstract: a bounded FIFO that accepts or refuses and counts | what `push` and `pop` promise |
| `TickRing` | the ring and its two threads | one load or store of an index, one slot access |
| `TradingEngine` | the three threads, using `TickQueue` for the ring | one receive, one count (`fetch_add` comes a step after the receive), one send |
| `OrderTree`, `MatchingBook` | the two order books | one node visited or rotated; one order |
| `DataPath` | composes the five above | |
| `ThreadSteps` | where each thread of a shared structure is, and the locks it holds | |
| `MemoryPool`, `TaskQueue`, `TokenBucket`, `TradeJournal`, `OrphanSweeper` | the lock-free structures | one atomic operation or queue operation |
| `LockFreeStructures` | composes them | |
| `OrderTracking` | the order manager with an exchange and a stream | one handler; the environment's moves and faults are external |
| `Reconciliation` | extends it with the daemon | one snapshot; the whole comparison with `record_discrepancy` |
| `EmergencyFlattener` | the panic button against an exchange | one call to the exchange |
| `ControlHandoff` | the handoff; calls in progress are a stack, because the lock is re-entrant | one callback |
| `GracefulShutdown` | the five phases against a trading world | one callback or phase end |
| `LiveOperations` | composes the three interventions | |
| `ModelHotSwapper`, `UiStateCache`, `BatchScheduler`, `StateSynchronizer` | the structures behind locks | one lock taken or released with what is done under it |
| `LockedStructures` | composes them | |
| `ParentOrder` | abstract: a quantity executed part by part, never more than there is | what an execution algorithm promises |
| `ChildOrders` | the venue and the handlers that record its fills | one fill, one load, one store |
| `IcebergOrder`, `SliceSchedule`, `AdaptiveOrder`, `ReserveOrder`, `PeggedOrder` | the algorithms | one timer, clip, change or record step |
| `ExecutionDesk` | composes them | |
| `WriteAheadLog`, `OrderStore`, `PositionRebuilder`, `Supervisor` | what survives a crash, and who starts again | one append, write, request, fill, lock or signal step |
| `StateRecovery` | composes them | |
| `ConstantProduct` | the integer functions of the pool, with theorems | (operators only) |
| `DataPathProofs`, `LockFreeProofs`, `LockedStructuresProofs`, `ReconciliationProofs`, `LiveOperationsProofs`, `ExecutionDeskProofs`, `StateRecoveryProofs` | theorems, with their proofs, about the composing module each is named after | |

Each `MC...cfg` instantiates a composing module, or one component, for TLC. Constants
that are not plain values (profiles, books, scenarios, events, the symmetry of
threads) are definitions named `Sample...` or `Symmetry` of the composing module,
which the cfg names. Names beginning
with `Mutant` are altered copies of the definition that follows them, each with a
plausible mistake; every property is shown to fail when its mutant is put in
place. They are not part of the specifications.

Data are abstracted to what decisions depend on: a tick is its number, an order
its id and status, a model its version and shape, a fill its size and sign, time a
small integer or a nondeterministic choice. History variables (marked `history:`)
record what a property needs to look back at and influence no step. `AdaptiveOrder` loads the
executed quantity and the average in one step: a fill between the two loads is an
overlap, which its property excludes as the code does not guard against it. Memory order
is sequential consistency: the ring stores its indices with release and loads them
with acquire, which for one writer per index is as strong; the relaxed counters
elsewhere are single atomic variables, for each of which all threads agree on one
order of updates, but reorderings between different relaxed variables are not
explored. Several crates do not compile as they stand (types that do not exist, a
transmute of the wrong size, an enum without a derive); where the intended meaning
is evident, that is modelled, and where it is not the part is left out.

## 3. Runs

| run | bounds | what it shows |
|---|---|---|
| `data_path` | 3 slots and 8 ticks, so the ring wraps twice; channels of 1 and 2, counters modulo 5; 3 updates on 2 levels with a dropped stream and 2 attempts; 3 orders in the books | no slot race, no tick lost uncounted, `TickQueue` refined, every accepted tick delivered; no event disappears and orders are handled when standard traffic stops; the local book is the exchange's; the order books agree with their orders, the tree as long as ids ascend |
| `order_tree` | 3 orders of any ids | **violation**: a rotation takes a missing child, or hides orders |
| `lock_free` | 2 threads; 2 slabs of one buffer and 4 allocations; a queue of 1 and 3 tasks; a bucket of 2 and 4 units of time; a ring of 2 and batches of 3; 3 pending orders | the peak loses no maximum; no task or order mislaid or handled twice, overshoot bounded; the rate kept unless refills race, retries succeed; the journal complete and in order |
| `task_queue_order` | 1 thread, 3 tasks | **violation**: `pop` returns the least important task |
| `token_bucket_race` | 2 callers, one token a unit, 2 units | **violation**: two refills hand out the same elapsed time |
| `reconciliation` | 2 orders of 2 units, histories of 1, fault scenarios: none, lost, repeated, inactive, restart | exact until the first fault, never ahead after it; an end is noticed; a clean audit means agreement |
| `live_operations` | 1 operator, one nested halt; 2 threads, 2 triggers, 2 orders, 2 faults, 2 attempts; 2 open orders and 4 changes during a shutdown | MANUAL has an operator and a gateway that is locked, halted or said it did not lock; components agree; an undisturbed trigger is flat and closes land at zero; a shutdown without errors is clean; every intervention ends |
| `locked_structures` | 2 threads, 3 versions, 3 keys in 2 slots, 4 events in queues of 2 and 1, 2 chain events stored, 4 or 5 calls | readers find the newest model unless swaps raced; the least recent is evicted; index, queues and maps agree; every call returns but for the named tangles |
| `watermark_deadlock` | 1 thread, 1 event | **violation**: `update_watermark` waits for itself |
| `execution_desk` | 4 units, fills recorded by 2 handlers, clips and slices of 2, two prices, every book of the small grid | the atomic algorithms refine `ParentOrder` and complete it; the others keep their books while records do not overlap; pegged prices stay inside their bounds and, with a tick, do not cross |
| `state_recovery` | full and normal mode, 3 appends a run, 2 entries a file, a channel of 1, 1 restart, 1 error of the disk; 2 orders, 3 exchanges of which 2 have a client, 2 calls; 3 fills in pages of 2, each with a commission; 2 workers, 2 restarts each, 1 death, 2 signals | what is replayed has no holes but failed writes; live orders stay stored and calls settle what they should; the rebuilt position and its money are right; one process per worker, the dead start again, a signal ends |
| `emergency_shutdown` | 1 death of a critical worker | **violation**: the last way out joins its own thread |

Why the bounds are enough: each is the smallest at which the cases in question
happen, and usually one beyond. The ring wraps twice and is full and empty at every
index; every channel, queue, cache, history and journal overflows; the counters
that wrap do so; a call of each kind meets a call of every other kind half-way;
each kind of fault meets each phase; a crash comes between any two steps.
Two threads are enough where no step depends on more than one
other thread; overshoot, which does, is stated in the number of threads. Three
orders are the fewest with which the tree rotates; three fills in pages of two are
the fewest with which the offset of the second page is wrong when the list grows.
The runs end when their bounded inputs are used up and say so with
`CHECK_DEADLOCK FALSE`; that no thread is stuck there is what the liveness
properties state.

### Fairness

Weak fairness, always of a thread or a handler that is scheduled and never of the
environment: the loops of `main.rs` run for ever without blocking; the client's
loop and timers and the book's handler go on; a thread inside `trigger` and a phase
inside a shutdown run on, since each callback and call returns or raises; the
algorithms' timers tick and their handlers finish a record; the log's background
task, the supervisor's main thread and its monitor are scheduled. The log's timer also
finds, in the end, a disk that takes the data: it fails only so often, since each of its
failures is forgotten and only the next tick makes them good. Strong fairness
only in `locked_structures`, for a thread in a call: the scheduler's own loop takes
and gives up its locks for ever, so a lock that is free again and again must be
granted in the end, which the queueing locks of the code do. `OrdersHandledWhenQuiet`
assumes that standard traffic stops, since the event thread drains the standard
channel completely before it looks at the priority channel again and nothing else
bounds that. `FeedRecovers` assumes that attempts are not used up,
`ParentCompletes` that a schedule is not stopped for good.

## 4. Proofs

Seven modules of proofs, one beside each composing module, and the theorems of
`ConstantProduct`. A theorem is about the specification a run checks, for every
value of its constants; most state a property of that run, with the sample it is
checked on replaced by the assumption its module names (`CapacityAssumption`,
`TreeAssumption` and so on). These assumptions say that sizes are positive or
natural numbers, that a value standing for "none" is not one of the values, and:

- `TreeAssumption`: the arena has fewer nodes than `node_count` can count, since
  the nodes are in memory.
- `PoolAssumption`: the counter of a slab wraps above the slab's size.
- `OrderTrackingAssumption`, `FlattenerAssumption`: orders and symbols are finitely
  many, and the faults are those the model has.
- `TaskQueueAssumption`, `BatchAssumption`, `SynchronizerAssumption`: threads are
  finitely many, since they are counted; `CacheAssumption`: there is a key.
- `PegAssumption`: a book's bid is positive and below its ask.
- `JournalKeepsEvents` has a hypothesis of its own, `OneReader`: at most two
  threads, so that one writes and at most one reads. The ring of the journal is
  written for one of each; with two readers the code promises nothing.

Each proof has the same plan. The property is not inductive, so the module defines
an invariant that is (its name ends in `Inv`), proves that the initial states
satisfy it, that every action keeps it, one lemma for an action or a group of
alike ones, and that it implies the property. At the end of the module the results
are carried over to the composed specification, in which a step belongs to one
component and leaves the others alone. What was doubtful in an invariant was checked
by TLC before it was proved. What the invariants say beyond the properties:

**`DataPathProofs`** (spec `PathSpec`; the ring's theorems are about `Spec`, which
`PathRunsRing` shows it implies).
`TypeCorrect`, `SlotRaceFreedom`, `PopNeverReadsEmpty`, `NoTickVanishes`,
`RingImplementsQueue`: each thread of the ring knows one fact about the other's
index while it is inside its call (`IndexInv`: the consumer can only have made
room, the producer only added ticks), published slots hold ticks (`SlotInv`), and a
thread in a call has a tick in hand (`CallInv`). For the refinement of `TickQueue`
each step is shown to be `Accept`, `Refuse`, `Deliver` or a stutter, under the
mapping in which the front tick stays in the queue until `head` is stored.
`BookExact`: a message that passes the sequence test may still skip updates the
network lost; what saves the book is that each message carries every level that
moved in its span. So the proof goes through `QuietLevelsKeep`: a level that no
update from one version to another moves is the same in both.
`EventsAddUp`: an event is taken in one step and counted in a later one, so
`events_processed` is behind the sources by `BeingCounted`, the threads that stand
between the two steps, and by nothing else. The counters are counts modulo their
size and the event thread's is a wrapping sum; `WrappingAddition` and
`RemainderIsUnique` show that wrapping at every step is wrapping once.
`OrderBooksKeep` has two halves. In the backtest's book a level's volume is the
fold of its queue's quantities. The proof counts an order of quantity q as q
*pieces*, shows that the fold is the number of pieces (`QuantityIsPieces`), and
takes every sum from cardinalities: a queue split in two, one that lost an order,
one whose first order was reduced. In the tree, ascending ids make a list
(`IsList`): a new node is linked to the right of the last one; the left child of
every node is missing; so `fix_insertion` takes the red parent itself for the
uncle, recolours, and `Rotate` is never enabled (`NothingRotates`). A search goes
down that list and arrives (`SearchArrives`), and `node_count` is the number of live
orders, less the one being inserted (`CountMatches`).

**`LiveOperationsProofs`** (`OperationSpec`).
`HandoffTypeCorrect`, `ManualStaysHeld`, `ComponentsFollow`: the first two speak of
the moments between two calls, so the invariant says how far a call has come. Only
halts are nested, and once one is the emergency flag is set (`StackInv`); a handoff
to MANUAL that has passed the gateway has it in manual mode, declining or under a
halt, and a
return that has not reached it still finds MANUAL as it was (`ProgressInv`); a call
in which no callback failed has told its mode to all but those it has still to visit
(`AgreeInv`).
`TriggerFlattens`, `ClosesLandAtZero`: while a trigger is undisturbed, the orders it
listed cover those that are open, each position it has still to close is the one it
fetched, and the others are small (`FlattenerInv`).
`CompletionIsClean`: an invariant by phase of the shutdown (`ShutdownInv`).

**`StateRecoveryProofs`** (`RecoverySpec`).
`ReplayIsFaithful`: what was written has no holes but the entries in `lost`, which an
error of the disk took, and is in the order of the appends; the channel continues
where the files end (`ChannelInv`), a file is complete before the same run writes to
another (`FilesInv`), and in full mode only the channel, the entry in hand and those
whose flush failed may be missing in the files (`FullInv`).
`StoreKeepsLive`, `CallsSettleOrders`: an answer that ends an order is still true when
it is handled (`AnswersHold`), and an order a call should settle is of an exchange still
to visit, in its list, the one it asks about, settled, or one for which a step of the
call failed (`ExpectedInv`, `ToRecover`, `ToShutDown`).
`FetchCoversHistory`: the fills before the offset that were there at the start have
been fetched, each once, from a history that only grows at its end (`RebuildInv`).
`RebuiltPositionIsExact`: while nothing is traded, what was fetched is the listing up to
the offset (`QuietInv`), so in the end all of it. What remains is arithmetic. A position
is *balanced* if its realized money less the cost of what it holds is the cash of the
fills so far less the commissions of those that closed something (`ChargesAreSum`). All three ways of applying a fill, to add, to reduce, to close or flip,
are an identity of polynomials over the whole numbers, the fractions multiplied out
(`AddingBalances`, `ReducingBalances`, `FlippingBalances`), so `FillBalances`, and by
induction on the fills `RebuiltAddsUp`. For a list with the newest first, sums do not
depend on the direction (`TurnedSums`); which fills close does, so the commissions are
those of the listing.
`EveryWorkerAccounted`: a worker runs as often as its handle says, and what the main
thread's `stop_all` has dealt with is stopped, or started since by the monitor, which
had waited out its delay (`SupervisorInv`).

**`LockFreeProofs`** (`SharedSpec`).
`PeakIsTheMaximum`: what each thread has loaded bounds what it may store (`PeakInv`).
`UnracedRateHolds`: what was handed out and what is left are worth the time of the
last refill, or of the one that has not stored its time yet (`RefillInv`).
`WaitIsEnough`: for each step between a refusal and the next look, what is known of
the tokens, and of the refills of others under way (`PromiseInv`).
`JournalKeepsEvents`: what was read, the ring and the batch, one after the other, are
what was logged without what was discarded, in order (`EventsInv`), with one fact
each for the thread that writes and the one that reads (`WriterInv`, `ReaderInv`).
`OrdersStaySomewhere`: an order is in the queue or in the hands of one thread
(`PlacesInv`, `UniqueInv`), and a sweep that is alone has kept nothing that was late
(`LateInv`).
`NothingIsMislaid` adds the task queue (`QueueIInv`). The queue, what is gone, and each
thread's list and best task so far are places apart, none holds a task twice
(`Apart`, `NoneTwice`), and together they hold the ids given out so far (`Known`).
`Counted` relates their number to `current_size`, which does not count yet what is
being pushed and still counts what a `drop_below_priority` will subtract at its end:
this is how it can exceed the limit, by less than the number of threads.

**`LockedStructuresProofs`** (`LockedSpec`). All but the synchronizer's proof rest on
`GuardsOK`: a lock held to write is held by one thread and by no reader.
`NewestModelServes`: between the moment a swap has taken the active model out and the
moment it puts another in, it holds the lock to write, and what it has moved aside is
the newest; what a thread plans to install is newer than what it validated it
against, which is the active one unless somebody came between (`SwapIInv`).
`LockedDataAgrees`, for the cache: `Slots` and index agree but for the key whose slot
was just taken by another, and that key's thread holds the index (`CacheIInv`). For
the scheduler: events keep to places apart, an event being dropped is made up for by
a queue that stays locked (`BatchIInv`). For the synchronizer, as long as no event
was inserted twice: an id is in the map of ids before the event is in that of times,
and one thread at a time is in between (`ChainIInv`).
`EvictsTheOldest`: the queue of slots lists the keys in the order of their use, but
for the key being moved to its end, whose thread has the slots locked (`CacheOrder`).

**`ReconciliationProofs`** (`RSpec`).
`PictureNeverAhead`: neither a report ever sent nor the manager's copy is ahead of the
exchange, on which an order moves from nothing through open to one end (`AheadInv`,
`ExchangeInv`). `PictureStaysExact`: until the first fault, what the copy lacks is
what the stream still carries, and the last report of each order on it is the order's
state (`ExactInv`). `AuditsMayBeTrusted` adds the types of the snapshots and of the
history (`ShotInv`).

**`ExecutionDeskProofs`** (`DeskSpec`).
`AccountsAreExact`: each unit the venue has filled is in the executed quantity, was
ignored by a disabled manager, or is owed by exactly one handler (`CoreInv`, with
`UnitsOwed` adding up the handlers as a cardinality).
`DeskImplementsParent`: with it every step of the iceberg orders, the schedules and
the discretionary orders is a step of `ParentOrder` or a stutter; a clip covers no
more than what is left because what is left counts the units still owed.
`BooksAgree`: while at most one handler records, each algorithm's own books follow
(`IcebergInv`, `AdaptiveInv`, `CvdInv`, `ReserveInv`).
`PeggedPricesAreSafe`: rounding to the tick, up or down, stays between the bounds, and
a step away from the other side by a tick, where there is one, no longer meets it.

**`ConstantProduct`**: for all amounts, reserves and fees at which no 128-bit
product overflows, `ProductNeverFalls`, `AskedIsEnough` and `NoFreeRoundTrip`. The
one fact behind them is `OutRoundsDown`, a two-sided bound on the quotient; the
rest is cancelling a positive factor. Where a product does overflow the code's
release build wraps and nothing is promised; the operators wrap too.

Induction. The library's induction rule takes the claim as an operator, which the
provers cannot instantiate. Where a proof needs induction over data it takes the
least number for which the claim fails (`LeastNumber`, from the well-foundedness of
the order on numbers) and refutes it. Folds are unfolded to the equation they are
chosen by, for which a solution is given and which has no other
(`QuantityIsFold`, `QuantityIsPieces`); a recursive function likewise
(`SearchExists`, `SearchIsWalk`, `RebuildExists`, `CourseExists`): the least length for
which there is none is refuted by making the function one step longer.

Proving changed two models. `PeggedOrder` rounded a price in a way that the code does
only for positive prices. The book of the backtest was said never to cross, which a
price that rounds down to zero disproves; the case is now among the misplaced ones.
Three were restated to be reasoned about: `drop_below_priority` of the task queue takes
its tasks one at a time, as the code does, and the cache's `Without` and the sums and
folds of the rebuilder are recursive functions.

Model-checked only: every invariant and every action property of the passing runs is
stated by a theorem; what is left to TLC is liveness, which needs fairness and `ENABLED`
(`Delivery`, `FeedRecovers`, `OrdersHandledWhenQuiet`, `EndIsNoticed`,
`InterventionsEnd`, `CallsEnd`, `ParentCompletes`, `AppendsReachFile`, `DeadAreRestarted`,
`SignalEnds`), and the properties that the code violates (section 5).

## 5. Where code and words disagree

Five disagreements are checked as runs that must fail (`findings` in
`PROJECT.json`). The models have further behaviours that surprise; the properties
are stated so as to leave them out, openly, and this is the list.

Market data and books:

- `binance_ws_client.rs`: there is no back-off after a stream that was open and
  dropped. The heartbeat is set by the sleep alone, which every message starts
  again: it does not notice a stream that dies early, yet leaves a healthy one that
  pauses after much traffic. `orderbook_reconstructor.rs`: `pending_updates` is not
  used, the ingestor never calls the reconstructor, and a book cut to its depth
  does not get back the levels it cut off.
- `main.rs:231`: the standard channel is drained completely before the priority
  channel is looked at again, so an order waits behind all of it. `main.rs:136`:
  `stop()` clears a flag that no loop reads (`while true`, `:181`) and joins
  nothing.
- `l3_tree.rs`: with ascending ids the repair never rotates, and the tree is a
  list. `lob_simulator.rs`: a crossing order trades once, and what remains of it
  vanishes; a buy subtracts a partial fill from its level twice, so the level may
  go while orders are in it; a price off the grid rests on the other side.

Structures shared by threads:

- `memory_pool.rs:77`: dropping one buffer resets the whole slab, also under
  buffers in use, which then share memory. `:68`: the rollback of a failed acquire
  can come after such a reset and wrap the counter below zero. `:159`: `stats()`
  subtracts two counters loaded one after the other.
- `priority_queue.rs:90`: a full queue refuses urgent tasks like any other.
  `:150`: `peek` puts tasks back into the queue it waits to see empty and never
  returns from a queue that is not empty. `:179`: `clear` stores zero whatever
  other threads are about to add or put back.
- `rate_limiter.rs:203`: burst and refill together may exceed what the exchange
  allows in one of its windows. `:125`: the wait is computed from tokens read
  before a lost race and can wrap. `:257`: the request weight is consumed although
  the order bucket then refuses.
- `event_logger.rs`: `count` is updated after the indices, so `len()` is off, and
  may wrap, while a call is going on.
- `orphan_order_sweeper.rs:166`: `is_confirmed` is always false, so orders the
  exchange has acknowledged are swept like the others, and the queue of
  confirmations only grows. Late orders are judged by a clock read before the first
  one was taken.
- `model_hot_swapper.rs:83`: two swaps validated against the same model may install
  the older version last. `:147`: a rollback installs the previous model it copied
  before it waited for the lock, and the one in between is lost. Versions are
  compared as strings (`:170`), so "v10" is older than "v9"; in the model they are
  numbers.
- `ui_state_cache.rs`: `remove` and expiry leave a slot in the LRU queue; `clear`
  lets insertions in between its locks; `expire_old` takes two locks the other way
  round (`:240`).
- `batch_scheduler.rs`: the loop ends when both queues are empty, so the thread
  dies at its start, and the stop flag is not read; the report and a submission
  take the statistics and the queues in opposite orders (`:247`).
- `state_sync.rs`: `event_count` is never decreased; two adds of one event race
  past the test for duplicates (`:161`).

Orders, execution and interventions:

- `binance_order_manager.rs:237`: a repeated report brings a finished order back.
  `:215`: an order first seen through a report is not in the symbol index. `:232`:
  the discrepancy check looks before the update it is about.
- `reconciliation.rs:182`: an order rejected or expired locally counts as a
  phantom. `:175`: "fixed" mismatches are counted, nothing is fixed. `:337`:
  `mark_resolved` marks the first entry of an id only, although a discrepancy that
  persists is recorded again under the same id.
- `iceberg_sniper.rs:177` and the like: a remainder loaded, reduced and stored is
  wrong after overlapping fills. `discretionary_orders.rs:330`: a fill that comes
  while the manager is disabled is ignored. `pegged_orders.rs:196`:
  `update_on_market_move` compares with the price it has just overwritten, so a
  market that drifts tick by tick is never followed, although `:2` says the orders
  track it. `:141`: the step that "avoids crossing" moves the price by one tick, so
  with the tick size 0 that `set_tick_size` accepts the price stays on the best price of
  the other side; `PegIsSafe` promises no more for it.
- `emergency_flattener.rs:266`: the state becomes Completed although cancels
  failed or closes were given up. Two triggers at once close twice and turn the
  position round; so does a repeated submission that had timed out but was
  executed. `get_state` transmutes a `usize` to a one-byte enum, which the compiler
  refuses; the model takes the state as the enum it is meant to be.
- `manual_override_handoff.py:212`: a handoff refused by the gateway sets AUTOMATED
  whatever the state was, also while a halt is in force, although resuming from a
  halt is meant to go "to paused first, not automated" (`:360`). `:191`: a halt
  from within a callback has its EMERGENCY overwritten by the handoff's target.
  `request_handoff` does not look at the emergency flag. `:360`: resume tells the
  components nothing. `:263`: positions are locked but never told AUTOMATED again.
  `:251`: the gateway's answer of False is read as a number of cancelled orders and
  the handoff goes on, so MANUAL is entered with a gateway that locked nothing;
  `ManualIsHeld` excepts it by name (`told["gateway"] = "declined"`).
- `backend_graceful_shutdown.py`: strategies are stopped after orders are cancelled
  and state is flushed, so what they do meanwhile stays open and unsaved; SIGTERM
  never flattens although the header says so; a kill requested during a shutdown is
  refused; a callback that is not configured counts as a success.

State, recovery and supervision:

- `wal_writer.rs`: `:59` has full mode as "fsync after every write" and `:60` normal
  mode as "fsync periodically", but `flush` hands the data to the operating system and
  no more, so what full mode keeps survives the end of the process and not of the
  machine; normal mode flushes only when a file is rotated. Errors are logged and the
  task goes on (`:157`), behind a hole, or behind a length without its data, which puts
  the reader out of step; errors of the timer are dropped (`:169`). A torn file
  hides the files after it; `bytes_written` is not reset, so after the first
  rotation every entry rotates; numbering starts at zero again after a restart;
  `sync()` does nothing; the channel never closes and the shutdown flag is not read.
- `crash_recovery.rs`: partial fills are only logged; orders filled while the
  process was down are deleted as orphans; `recover_positions` writes nothing.
  `:150` counts PENDING_NEW as live, but `lmdb_store.rs:240` does not list it, so an
  order that is stored so is found by no recovery and cancelled by no shutdown.
  `emergency_shutdown`, "cancel everything" (`:269`), passes over the orders of
  exchanges that have no client (`:273`); a cancel that failed is logged and counted as
  nothing, and the call returns Ok (`:260`); failed deletes are ignored (`:112`, `:256`).
  So an empty list of errors says little, and `CallsAreThorough` goes by the steps that
  failed, not by the report.
- `position_rebuilder.rs`: flat positions lose their realised profit (`:199`), so
  `RebuildIsExact` says nothing of their money; commissions of closing fills reduce
  `realized_pnl`, those of opening fills go to `total_cost` alone; that cost is
  wrong after a position turned round, and nothing reads it; with a listing that is newest first a growing
  list repeats fills, and the offset advances by a page however many came back.
- `python_supervisor.py`: `setrlimit` in the parent lowers the hard limit, so an
  unprivileged supervisor cannot start a larger worker again after a smaller one; the
  monitor starts a worker after its delay although it was stopped meanwhile; a
  signal that arrives inside `start()` or `stop()` waits for the lock its own thread
  holds; a health check that raises on a live worker leaves it RESTARTING, and it is
  not looked after again; the pipes of the workers are never read.

Read and not modelled, for what they are worth to a maintainer: `ws_auto_reconnect.rs`
never moves its expected number past a gap, so every later message is a gap too;
`cancellation_manager.rs` measures time between two readings of one clock, so its
counter is never reset and after a thousand cancellations it refuses all;
`liquidation_cascade_halt.rs` reports long cascades only and never reaches
Subsiding; `rollback_manager.py` stores no snapshot, since `savez_compressed(None)`
raises and the error is swallowed, and would not change its current version when it
rolls back; `venue_failover.py` raises a `KeyError` for its primary venue;
`event_loop/src/main_loop.rs` dispatches every hundredth tick only, where its test
expects all.

## 6. Not modelled

Within the modelled parts: statistics, logs and time stamps that no decision uses;
the daily counters, `reset` and `update_limits` of the limiter; `should_sync` and
the summary of the daemon; floating-point prices and values (positions are whole
units, "small" is a bound on them); poisoned locks; callbacks of the handoff that
call anything but `emergency_halt`; checksums and parsing. Bytes that the reader of the log reads out of step are taken
not to decode to an entry.

Outside them, the rest of the 216 Rust files and of the Python files, about nine tenths of
the lines, is listed by part in `components`, and is of four kinds. Floating-point
computation without protocol (indicators, models, optimisers, pricing, cost
analysis, the detectors of the circuit breaker, risk limits over float positions):
TLC has no reals and the properties would be about numerics. Pure I/O and calls into
libraries or the operating system (gateways, storage, encryption, pinning, displays).
Code whose behaviour is not defined because it does not compile and the intention
is not evident (the master daemon, the risk gate of `drawdown_control.rs` and
`pre_trade_validator.rs`). And state machines that are incomplete and that nothing
in the repository drives (FIX session, reconnection and gap filling, failover,
rollback, clock synchronisation).

## 7. Plan

What is left is models: the detectors in front of the flattener, with prices as a small
grid; the gap filler and the failover router once something drives them.
