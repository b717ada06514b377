--------------------------- MODULE Reconciliation ---------------------------
(***************************************************************************)
(* ReconciliationDaemon of crates/exchange/src/reconciliation.rs for one   *)
(* symbol, composed with the order manager and the exchange it compares.   *)
(* The two lists it is given are snapshots: the manager's orders and the   *)
(* exchange's open orders, taken one after the other while both go on.     *)
(***************************************************************************)
EXTENDS OrderTracking, SequencesExt

CONSTANT
    MaxHistory      \* max_history_size

ASSUME ReconciliationAssumption == MaxHistory \in Nat \ {0}

VARIABLES
    localShot,      \* local_orders: the orders in it, with their states
    exchangeShot,   \* exchange_orders
    history,        \* discrepancy_history
    reconciles,     \* total_reconciliations
    found           \* the discrepancies of the last reconciliation

daemon == <<history, reconciles, found>>
shots == <<localShot, exchangeShot>>
rvars == <<vars, shots, daemon>>

Nothing == [o \in {} |-> Unknown]

RInit ==
    /\ Init
    /\ localShot = Nothing
    /\ exchangeShot = Nothing
    /\ history = <<>>
    /\ reconciles = 0
    /\ found = {}

(* The manager, the stream and the exchange go on.                         *)
Track == Next /\ UNCHANGED <<shots, daemon>>

-----------------------------------------------------------------------------
AuditsLeft == reconciles < scenario.audits

(* External: whoever calls reconcile_symbol collects the two lists.        *)
SnapLocal ==
    /\ AuditsLeft
    /\ localShot' = [o \in {x \in Orders : local[x].status # "none"} |-> local[o]]
    /\ UNCHANGED <<vars, exchangeShot, daemon>>

SnapExchange ==
    /\ AuditsLeft
    /\ exchangeShot' = [o \in {x \in Orders : exchange[x].status \in Open} |-> exchange[o]]
    /\ UNCHANGED <<vars, localShot, daemon>>

-----------------------------------------------------------------------------
Entry(kind, o) == [kind |-> kind, order |-> o]

(* compare_orders: the status first, then the quantity.                    *)
Compared ==
    {Entry(IF localShot[o].status # exchangeShot[o].status THEN "status" ELSE "quantity", o) :
        o \in {x \in DOMAIN localShot \cap DOMAIN exchangeShot :
                  \/ localShot[x].status # exchangeShot[x].status
                  \/ localShot[x].filled # exchangeShot[x].filled}}

Phantoms ==
    {Entry("phantom", o) :
        o \in {x \in DOMAIN localShot \ DOMAIN exchangeShot :
                  localShot[x].status \notin {"filled", "canceled"}}}

(* Mutant: only the manager's own orders are compared.                     *)
MutantMissing == {}

Missing == {Entry("missing", o) : o \in DOMAIN exchangeShot \ DOMAIN localShot}

(* record_discrepancy for each of them: the oldest entries make room.      *)
Recorded(h, ids) ==
    LET all == h \o [i \in 1 .. Len(ids) |-> [id |-> ids[i], resolved |-> FALSE]]
    IN  IF Len(all) <= MaxHistory THEN all
        ELSE SubSeq(all, Len(all) - MaxHistory + 1, Len(all))

(* reconcile_symbol; the hash maps are walked in any order.  A status      *)
(* mismatch is counted as fixed, but no order is touched.                  *)
Reconcile ==
    /\ AuditsLeft
    /\ reconciles' = reconciles + 1
    /\ found' = Compared \cup Phantoms \cup Missing
    /\ \E order \in SetToSeqs(Compared \cup Phantoms), rest \in SetToSeqs(Missing) :
          history' = Recorded(history, order \o rest)
    /\ UNCHANGED <<vars, shots>>

(* mark_resolved stops at the first entry with the id.                     *)
MarkResolved ==
    \E i \in DOMAIN history :
        /\ \A j \in 1 .. (i - 1) : history[j].id # history[i].id
        /\ history' = [history EXCEPT ![i].resolved = TRUE]
        /\ UNCHANGED <<vars, shots, reconciles, found>>

RNext == Track \/ SnapLocal \/ SnapExchange \/ Reconcile \/ MarkResolved

(* The stream is read for as long as it holds reports.                     *)
RSpec ==
    RInit /\ [][RNext]_rvars
    /\ WF_rvars((ProcessReport \/ DropReport) /\ UNCHANGED <<shots, daemon>>)

-----------------------------------------------------------------------------
(* A reconciliation that finds nothing may be relied on: the manager and   *)
(* the exchange then hold the same open orders, equally filled.            *)
InSyncMeansAgreement ==
    [][ reconciles' # reconciles /\ found' = {} =>
          \A o \in Orders :
            LET tracked == o \in DOMAIN localShot /\ localShot[o].status \in Open
            IN  /\ tracked <=> o \in DOMAIN exchangeShot
                /\ tracked => /\ localShot[o].status = exchangeShot[o].status
                              /\ localShot[o].filled = exchangeShot[o].filled ]_rvars

(* What the last reconciliation found is on record, unless the history is  *)
(* too short for it: nothing newer is given up for something older.        *)
LatestIsRecorded ==
    [][ reconciles' # reconciles =>
          \/ \A d \in found' : \E i \in DOMAIN history' :
                history'[i].id = d /\ ~ history'[i].resolved
          \/ Cardinality(found') > MaxHistory ]_rvars

(* The daemon's report can be trusted, empty or not.                       *)
ReportsAreTrue == InSyncMeansAgreement /\ LatestIsRecorded
-----------------------------------------------------------------------------
(* For TLC: without audits all faults happen, two of them; with audits     *)
(* reports get lost.                                                       *)
SampleScenarios ==
    LET AllFaults == {"lose", "repeat", "restart", "inactive"}
        one == CHOOSE o \in Orders : TRUE
    IN  {[orders |-> Orders, faults |-> AllFaults, most |-> 1, audits |-> 0],
         [orders |-> {one}, faults |-> AllFaults, most |-> 2, audits |-> 2],
         [orders |-> Orders, faults |-> {"lose"}, most |-> 1, audits |-> 1]}
=============================================================================
