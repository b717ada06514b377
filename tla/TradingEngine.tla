---------------------------- MODULE TradingEngine ----------------------------
(***************************************************************************)
(* The engine of crates/core-engine/src/main.rs: the network thread, the   *)
(* strategy thread and the event thread, coupled by the EventBus.  The     *)
(* tick ring is used through what it promises (TickQueue, which TickRing   *)
(* is proved to implement); the two crossbeam channels are bounded queues  *)
(* with a non-blocking send.                                               *)
(***************************************************************************)
EXTENDS Naturals, Sequences

CONSTANTS
    Limit,          \* ticks that fit in the ring
    TickBound,      \* bound on the ticks the network thread produces
    PriorityLimit,  \* priority_channel_capacity
    StandardLimit,  \* standard_channel_capacity
    OrderEvery,     \* the strategy orders on every OrderEvery-th tick (100)
    CounterSize     \* the event counters wrap here (2^64 in the code)

ASSUME OrderEveryAssumption == OrderEvery \in Nat \ {0}
ASSUME CounterAssumption == CounterSize \in Nat \ {0}

VARIABLES
    queue, offered, popped, lost, \* the tick ring, see TickQueue
    priority,       \* ids of the orders in the priority channel
    standard,       \* number of events in the standard channel
    taken,          \* the tick popped and not yet counted, 0 for none
    ordered,        \* order_counter of strategy_loop
    sending,        \* the order strategy_loop is about to send, 0 for none
    refused,        \* orders that met a full priority channel
    handled,        \* id of the last order the event thread received
    orderEvents,    \* events received from the priority channel
    standardEvents, \* events received from the standard channel, wrapping
    epc,            \* which channel event_processing_loop drains or has to count
    eventsProcessed,      \* events_processed of the bus, wrapping
    running         \* running of the engine and of the bus

tickVars == <<queue, offered, popped, lost>>
strategyVars == <<taken, ordered, sending, refused>>
eventVars == <<handled, orderEvents, standardEvents, epc>>
engineVars == <<tickVars, priority, standard, strategyVars, eventVars, eventsProcessed, running>>

Ticks == INSTANCE TickQueue WITH MaxTicks <- TickBound, out <- popped

EngineInit ==
    /\ Ticks!Init
    /\ priority = <<>>
    /\ standard = 0
    /\ taken = 0
    /\ ordered = 0
    /\ sending = 0
    /\ refused = 0
    /\ handled = 0
    /\ orderEvents = 0
    /\ standardEvents = 0
    /\ epc = "priority"
    /\ eventsProcessed = 0
    /\ running = TRUE

CountEvent == eventsProcessed' = (eventsProcessed + 1) % CounterSize

-----------------------------------------------------------------------------
(* network_io_loop                                                         *)
PushTick ==
    /\ Ticks!Accept \/ Ticks!Refuse
    /\ UNCHANGED <<priority, standard, strategyVars, eventVars, eventsProcessed, running>>

-----------------------------------------------------------------------------
(* strategy_loop                                                           *)

(* pop_tick takes the tick out of the ring ...                             *)
PopTick ==
    /\ sending = 0 /\ taken = 0
    /\ Ticks!Deliver
    /\ taken' = Head(queue)
    /\ UNCHANGED <<priority, standard, ordered, sending, refused, eventVars,
                   eventsProcessed, running>>

(* ... and counts it in a step of its own; the loop then looks at it.      *)
CountTick ==
    /\ taken # 0
    /\ CountEvent
    /\ taken' = 0
    /\ IF taken % OrderEvery = 0
         THEN /\ ordered' = ordered + 1
              /\ sending' = ordered + 1
         ELSE UNCHANGED <<ordered, sending>>
    /\ UNCHANGED <<tickVars, priority, standard, refused, eventVars, running>>

(* send_priority is a try_send: a full channel drops the order.            *)
SendOrder ==
    /\ sending # 0
    /\ sending' = 0
    /\ IF Len(priority) < PriorityLimit
         THEN priority' = Append(priority, sending) /\ UNCHANGED refused
         ELSE refused' = refused + 1 /\ UNCHANGED priority
    /\ UNCHANGED <<tickVars, standard, taken, ordered, eventVars, eventsProcessed, running>>

-----------------------------------------------------------------------------
(* event_processing_loop drains one channel, then the other.  As with a    *)
(* tick, an event is received first and counted in the next step.          *)
RecvPriority ==
    /\ epc = "priority"
    /\ priority # <<>>
    /\ handled' = Head(priority)
    /\ priority' = Tail(priority)
    /\ orderEvents' = orderEvents + 1
    /\ epc' = "countOrder"
    /\ UNCHANGED <<tickVars, standard, strategyVars, standardEvents, eventsProcessed, running>>

CountOrder ==
    /\ epc = "countOrder"
    /\ CountEvent
    /\ epc' = "priority"
    /\ UNCHANGED <<tickVars, priority, standard, strategyVars, handled, orderEvents,
                   standardEvents, running>>

(* Mutant: the receive that found nothing is counted too.                  *)
MutantPriorityDrained ==
    /\ epc = "priority"
    /\ priority = <<>>
    /\ CountEvent
    /\ epc' = "standard"
    /\ UNCHANGED <<tickVars, priority, standard, strategyVars, handled,
                   orderEvents, standardEvents, running>>

PriorityDrained ==
    /\ epc = "priority"
    /\ priority = <<>>
    /\ epc' = "standard"
    /\ UNCHANGED <<tickVars, priority, standard, strategyVars, handled,
                   orderEvents, standardEvents, eventsProcessed, running>>

RecvStandard ==
    /\ epc = "standard"
    /\ standard > 0
    /\ standard' = standard - 1
    /\ standardEvents' = (standardEvents + 1) % CounterSize
    /\ epc' = "countStandard"
    /\ UNCHANGED <<tickVars, priority, strategyVars, handled, orderEvents,
                   eventsProcessed, running>>

CountStandard ==
    /\ epc = "countStandard"
    /\ CountEvent
    /\ epc' = "standard"
    /\ UNCHANGED <<tickVars, priority, standard, strategyVars, handled, orderEvents,
                   standardEvents, running>>

(* Mutant: the loop stays with the standard channel.                       *)
MutantStandardDrained ==
    /\ epc = "standard"
    /\ standard = 0
    /\ UNCHANGED engineVars

StandardDrained ==
    /\ epc = "standard"
    /\ standard = 0
    /\ epc' = "priority"
    /\ UNCHANGED <<tickVars, priority, standard, strategyVars, handled,
                   orderEvents, standardEvents, eventsProcessed, running>>

-----------------------------------------------------------------------------
(* A user of the bus calls send_standard; a full channel refuses.          *)
SendStandard ==
    /\ standard < StandardLimit
    /\ standard' = standard + 1
    /\ UNCHANGED <<tickVars, priority, strategyVars, eventVars, eventsProcessed, running>>

(* stop() of the engine and of the bus.  No loop looks at the flag.        *)
Stop ==
    /\ running
    /\ running' = FALSE
    /\ UNCHANGED <<tickVars, priority, standard, strategyVars, eventVars, eventsProcessed>>

-----------------------------------------------------------------------------
NetworkThread == PushTick
StrategyThread == PopTick \/ CountTick \/ SendOrder
EventThread ==
    RecvPriority \/ CountOrder \/ PriorityDrained
    \/ RecvStandard \/ CountStandard \/ StandardDrained

EngineNext == NetworkThread \/ StrategyThread \/ EventThread \/ SendStandard \/ Stop

-----------------------------------------------------------------------------
(* The events a thread has taken out of its source and not counted yet.    *)
BeingCounted ==
    (IF taken = 0 THEN 0 ELSE 1) + (IF epc \in {"countOrder", "countStandard"} THEN 1 ELSE 0)

(* Every order the strategy made was received, waits in the channel, is    *)
(* about to be sent, or met a full channel: none disappears in between.    *)
(* And events_processed, which two threads increment for three sources     *)
(* some time after they took the event, is behind what the sources have    *)
(* handed out by exactly the threads that stand between the two steps: no  *)
(* event is counted twice, or before it was taken, or never.               *)
EventsAccounted ==
    /\ ordered = orderEvents + Len(priority) + refused + (IF sending = 0 THEN 0 ELSE 1)
    /\ eventsProcessed =
         ((offered - lost - Len(queue)) + orderEvents + standardEvents - BeingCounted) % CounterSize

(* Once nobody sends standard events any more, every order that entered    *)
(* the priority channel reaches the event thread.                          *)
OrdersHandledWhenQuiet ==
    <>[][~ SendStandard]_engineVars =>
        \A n \in 1 .. (TickBound \div OrderEvery) :
            (\E i \in 1 .. Len(priority) : priority[i] = n) ~> (handled >= n)
=============================================================================
