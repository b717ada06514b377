---------------------------- MODULE IcebergOrder ----------------------------
(***************************************************************************)
(* DynamicIceberg of crates/execution/src/iceberg_sniper.rs, and           *)
(* IcebergOrder of twap_vwap.rs, which is the same but for the last clip   *)
(* (algo "plain").  record_fill runs on whatever thread brings the fill;   *)
(* its loads and stores are steps of their own.  start and stop set a flag *)
(* that nothing reads; the fill rate and clips_executed are left out.      *)
(***************************************************************************)
EXTENDS ChildOrders

CONSTANTS InitialVisible, MinVisible, MaxVisible

ASSUME IcebergAssumption ==
    /\ InitialVisible \in Nat \ {0}
    /\ MinVisible \in Nat \ {0} /\ MaxVisible \in Nat

VARIABLES visible, hidden, clip

icebergVars == <<visible, hidden, clip>>

IcebergInit ==
    /\ visible = InitialVisible
    /\ hidden = Max({Quantity - InitialVisible, 0})
    /\ clip = InitialVisible

(* Mutant: a whole clip is shown whatever remains.                         *)
MutantDisplayQuantity == visible

DisplayQuantity == Min({visible, Remaining})

PlaceClip ==
    /\ algo \in {"iceberg", "plain"}
    /\ Place(DisplayQuantity)
    /\ UNCHANGED icebergVars

CountFill(h) ==
    /\ algo \in {"iceberg", "plain"}
    /\ Goto(h, "report", "clip")
    /\ executed' = executed + qty[h]
    /\ UNCHANGED <<algo, working, filled, qty, held, overlapped, icebergVars>>

Hold(h, x) == held' = [held EXCEPT ![h] = x]

LoadClip(h) ==
    /\ Goto(h, "clip", IF clip <= qty[h] THEN "reload" ELSE "keep")
    /\ Hold(h, clip - qty[h])
    /\ UNCHANGED <<algo, working, filled, executed, qty, overlapped, icebergVars>>

KeepClip(h) ==
    /\ Goto(h, "keep", "idle")
    /\ clip' = held[h]
    /\ UNCHANGED <<algo, working, filled, executed, qty, held, overlapped, visible, hidden>>

(* The plain form has no last clip.                                        *)
PlainLastClip == 0
LastClip == IF algo = "plain" THEN PlainLastClip ELSE Remaining

(* reload_clip.                                                            *)
LoadHidden(h) ==
    /\ Goto(h, "reload", IF hidden > 0 THEN "refill" ELSE "keep")
    /\ Hold(h, IF hidden > 0 THEN Min({visible, hidden})
               ELSE LastClip)
    /\ UNCHANGED <<algo, working, filled, executed, qty, overlapped, icebergVars>>

Refill(h) ==
    /\ Goto(h, "refill", "hide")
    /\ clip' = held[h]
    /\ UNCHANGED <<algo, working, filled, executed, qty, held, overlapped, visible, hidden>>

(* Mutant: the reserve loses a whole clip.                                 *)
MutantReserveAfter(h) == hidden - held[h] - 1

ReserveAfter(h) == hidden - held[h]

TakeFromHidden(h) ==
    /\ Goto(h, "hide", "idle")
    /\ hidden' = ReserveAfter(h)
    /\ UNCHANGED <<algo, working, filled, executed, qty, held, overlapped, visible, clip>>

(* adjust_visible_size and adjust_based_on_fill_rate: the depth and the    *)
(* fill rate move the size anywhere between its bounds.                    *)
AdjustVisible ==
    /\ algo = "iceberg"
    /\ visible' \in MinVisible .. MaxVisible
    /\ UNCHANGED <<childVars, hidden, clip>>

(* The plain form takes any size.                                          *)
AdjustPlainVisible ==
    /\ algo = "plain"
    /\ visible' \in 1 .. MaxVisible
    /\ UNCHANGED <<childVars, hidden, clip>>

IcebergStep(h) ==
    CountFill(h) \/ LoadClip(h) \/ KeepClip(h) \/ LoadHidden(h) \/ Refill(h)
    \/ TakeFromHidden(h)

IcebergNext ==
    PlaceClip \/ AdjustVisible \/ AdjustPlainVisible \/ \E h \in Handlers : IcebergStep(h)

(* The clip and the reserve together never understate what remains of the  *)
(* order and the reserve is not negative, as long as no two fills were     *)
(* recorded at once.                                                       *)
IcebergBooks ==
    algo \in {"iceberg", "plain"} /\ Quiet /\ ~overlapped =>
        hidden >= 0 /\ (algo = "iceberg" \/ hidden > 0 => hidden + clip >= Remaining)
=============================================================================
