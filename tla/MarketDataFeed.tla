--------------------------- MODULE MarketDataFeed ----------------------------
(***************************************************************************)
(* Market data of one symbol: BinanceWsClient::run of crates/ingestion/src/*)
(* binance_ws_client.rs keeps a depth stream open, and OrderBook with      *)
(* OrderBookReconstructor of orderbook_reconstructor.rs keeps the book.    *)
(* What joins them is not in the repository: a caller that hands on every  *)
(* message and asks for a snapshot when a stream opens and whenever        *)
(* process_update reports a gap.  The asks mirror the bids.                *)
(***************************************************************************)
EXTENDS Integers, Sequences, FiniteSetsExt

CONSTANTS
    LevelPrices,
    FirstId,        \* the exchange's update id when the client starts
    Depth,          \* MAX_BOOK_DEPTH
    MaxUpdates,     \* bound on the updates of the exchange
    MaxDrops,       \* bound on the streams that end or die
    MaxAttempts,    \* max_reconnect_attempts
    BaseDelay, MaxDelay,
    Heartbeat       \* heartbeat_interval, in ticks of the clock

ASSUME FeedAssumption ==
    /\ LevelPrices \subseteq Int /\ LevelPrices # {}
    /\ FirstId \in Nat \ {0} /\ Depth \in Nat \ {0} /\ MaxAttempts \in Nat /\ Heartbeat \in Nat \ {0}
    /\ BaseDelay \in Nat \ {0} /\ MaxDelay \in Nat

VARIABLES
    books,      \* external: the exchange's book after each update, the first has FirstId
    sent,       \* external: last update put on the stream
    wire,       \* messages on the stream, [first, last]
    snapshot,   \* external: id of a snapshot on its way, -1 without one
    wanted,     \* external: the caller is to ask for a snapshot
    local,      \* bids: quantity of each level
    lastId,     \* last_update_id
    received,   \* is_snapshot_received
    followed,   \* history: a message has followed the latest snapshot
    cut,        \* history: the depth limit has dropped a level of this book
    stream,     \* "down", "up", or "gone": run has returned
    dead,       \* external: the open stream carries nothing any more
    attempt,
    delay,      \* delay_ms
    quiet,      \* time since select! last returned
    beat,       \* last_heartbeat.elapsed(), up to what is too long
    drops

exchangeVars == <<books, sent, wire, snapshot, wanted>>
bookVars == <<local, lastId, received, followed, cut>>
clientVars == <<stream, dead, attempt, delay, quiet, beat, drops>>
feedVars == <<exchangeVars, bookVars, clientVars>>

EmptyBook == [p \in LevelPrices |-> 0]
Version == FirstId + Len(books) - 1
BookAt(id) == books[id - FirstId + 1]
TooLong == 2 * Heartbeat + 1

FeedInit ==
    /\ books = <<EmptyBook>>
    /\ sent = FirstId /\ wire = << >> /\ snapshot = -1 /\ wanted = FALSE
    /\ local = EmptyBook /\ lastId = 0 /\ received = FALSE /\ followed = FALSE /\ cut = FALSE
    /\ stream = "down" /\ dead = FALSE
    /\ attempt = 0 /\ delay = BaseDelay
    /\ quiet = 0 /\ beat = 0 /\ drops = 0

-----------------------------------------------------------------------------
(* The exchange.                                                           *)
BookChanges ==
    /\ Len(books) <= MaxUpdates
    /\ \E p \in LevelPrices :
        books' = Append(books, [BookAt(Version) EXCEPT ![p] = 1 - @])
    /\ UNCHANGED <<sent, wire, snapshot, wanted, bookVars, clientVars>>

Publish ==
    /\ stream = "up" /\ ~dead /\ sent < Version
    /\ wire' = Append(wire, [first |-> sent + 1, last |-> Version])
    /\ sent' = Version
    /\ UNCHANGED <<books, snapshot, wanted, bookVars, clientVars>>

TakeSnapshot ==
    /\ wanted /\ snapshot = -1
    /\ snapshot' = Version
    /\ wanted' = FALSE
    /\ UNCHANGED <<books, sent, wire, bookVars, clientVars>>

-----------------------------------------------------------------------------
(* The book.                                                               *)
Best(b) ==
    LET Better(p) == Cardinality({q \in LevelPrices : q > p /\ b[q] > 0})
    IN  [p \in LevelPrices |-> IF Better(p) < Depth THEN b[p] ELSE 0]

ApplySnapshot ==
    /\ snapshot >= 0
    /\ local' = Best(BookAt(snapshot))
    /\ cut' = (Best(BookAt(snapshot)) # BookAt(snapshot))
    /\ lastId' = snapshot
    /\ received' = TRUE
    /\ followed' = FALSE
    /\ snapshot' = -1
    /\ UNCHANGED <<books, sent, wire, wanted, clientVars>>

(* The levels a message carries, and the book once they are set.           *)
Carried(m) ==
    {p \in LevelPrices : \E id \in m.first .. m.last : BookAt(id)[p] # BookAt(id - 1)[p]}
Updated(m) == [p \in LevelPrices |-> IF p \in Carried(m) THEN BookAt(m.last)[p] ELSE local[p]]

(* Mutant: a gap of one update passes.                                     *)
MutantIsGap(m) == m.first > lastId + 2

IsGap(m) == m.first > lastId + 1

ValidSequence(m) == received /\ ~IsGap(m) /\ m.last > lastId

Receive ==
    /\ stream = "up" /\ wire # << >>
    /\ wire' = Tail(wire)
    /\ quiet' = 0
    /\ followed' = TRUE
    /\ UNCHANGED <<books, sent, snapshot, stream, dead, attempt, delay, beat, drops>>

ApplyUpdate ==
    /\ Receive /\ ValidSequence(Head(wire))
    /\ local' = Best(Updated(Head(wire)))
    /\ cut' = (cut \/ Best(Updated(Head(wire))) # Updated(Head(wire)))
    /\ lastId' = Head(wire).last
    /\ UNCHANGED <<wanted, received>>

(* Stale updates are skipped; a gap is reported to the caller.             *)
RefuseUpdate ==
    /\ Receive /\ ~ValidSequence(Head(wire))
    /\ wanted' = (wanted \/ IsGap(Head(wire)))
    /\ UNCHANGED <<local, lastId, received, cut>>

-----------------------------------------------------------------------------
(* The client.  The back-off is reset by any connection.                   *)
Connect ==
    /\ stream = "down"
    /\ stream' = "up"
    /\ attempt' = 0 /\ delay' = BaseDelay
    /\ quiet' = 0 /\ beat' = 0
    /\ sent' = Version
    /\ wanted' = TRUE
    /\ UNCHANGED <<books, wire, snapshot, bookVars, dead, drops>>

ConnectFails ==
    /\ stream = "down"
    /\ attempt' = attempt + 1
    /\ IF attempt + 1 >= MaxAttempts
       THEN stream' = "gone" /\ UNCHANGED delay
       ELSE delay' = Min({2 * delay, MaxDelay}) /\ UNCHANGED stream
    /\ UNCHANGED <<exchangeVars, bookVars, dead, quiet, beat, drops>>

LeaveStream ==
    /\ stream' = "down"
    /\ dead' = FALSE
    /\ wire' = << >>
    /\ UNCHANGED <<books, sent, snapshot, wanted, bookVars, attempt, delay, quiet, beat>>

StreamEnds ==
    /\ stream = "up" /\ ~dead /\ drops < MaxDrops
    /\ drops' = drops + 1
    /\ LeaveStream

StreamDies ==
    /\ stream = "up" /\ ~dead /\ drops < MaxDrops
    /\ dead' = TRUE
    /\ wire' = << >>
    /\ drops' = drops + 1
    /\ UNCHANGED <<books, sent, snapshot, wanted, bookVars, stream, attempt, delay, quiet, beat>>

(* The sleep in select!, which every message starts again.  last_heartbeat *)
(* is set by the sleep alone, never by a message.                          *)
TimerDue == stream = "up" /\ quiet = Heartbeat

LeaveQuietStream ==
    /\ TimerDue /\ beat = TooLong
    /\ LeaveStream
    /\ UNCHANGED drops

(* Mutant: the elapsed time is not taken from the last heartbeat.          *)
MutantRestartTimer ==
    /\ TimerDue
    /\ quiet' = 0 /\ beat' = 0
    /\ UNCHANGED <<exchangeVars, bookVars, stream, dead, attempt, delay, drops>>

RestartTimer ==
    /\ TimerDue /\ beat < TooLong
    /\ quiet' = 0 /\ beat' = 0
    /\ UNCHANGED <<exchangeVars, bookVars, stream, dead, attempt, delay, drops>>

FeedTick ==
    /\ stream = "up" /\ ~TimerDue
    /\ quiet' = quiet + 1
    /\ beat' = Min({beat + 1, TooLong})
    /\ UNCHANGED <<exchangeVars, bookVars, stream, dead, attempt, delay, drops>>

FeedNext ==
    \/ BookChanges \/ Publish \/ TakeSnapshot
    \/ ApplySnapshot \/ ApplyUpdate \/ RefuseUpdate
    \/ Connect \/ ConnectFails \/ StreamEnds \/ StreamDies
    \/ LeaveQuietStream \/ RestartTimer \/ FeedTick

-----------------------------------------------------------------------------
(* Whatever was lost, late or overlapping, the local book is the           *)
(* exchange's as of last_update_id: every level it shows is right, and     *)
(* none is missing unless the depth limit dropped one.                     *)
BookIsExact ==
    received =>
        /\ \A p \in LevelPrices : local[p] \in {0, BookAt(lastId)[p]}
        /\ ~cut => local = BookAt(lastId)

InSync == received /\ lastId = Version

(* Once the streams stop ending, the book is level with the exchange for   *)
(* good, unless the client has given up, holds a dead stream, or nothing   *)
(* has come after the latest snapshot, which may have put the book back;   *)
(* and it leaves a dead stream if that died after running for longer than  *)
(* two heartbeats.                                                         *)
FeedRecovers ==
    /\ <>[](stream = "gone" \/ dead \/ ~followed \/ InSync)
    /\ (dead /\ beat = TooLong) ~> ~dead
=============================================================================
