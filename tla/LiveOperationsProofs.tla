------------------------ MODULE LiveOperationsProofs ------------------------
(***************************************************************************)
(* Proofs about the three interventions of LiveOperations.  Each section   *)
(* has the inductive invariant of one of them, the facts Init => Inv and   *)
(* Inv /\ [Next] => Inv', and what follows from it; the last section       *)
(* carries the results over to OperationSpec.                              *)
(***************************************************************************)
EXTENDS LiveOperations, SequenceTheorems, FiniteSetTheorems, TLAPS

-----------------------------------------------------------------------------
(***************************************************************************)
(* The handoff.  ManualIsHeld is not inductive: what holds between two     *)
(* calls depends on how far the outermost call has come.  IInv says so for *)
(* each kind of call, and that all calls nested in it are halts, so that   *)
(* the emergency flag is set from the first of them on.                    *)
(***************************************************************************)
Held == session # NoOne /\ (emergency \/ told["gateway"] \in {"manual", "declined"})

(* The gateway has still to be called.                                     *)
Waiting(call) == \E i \in DOMAIN call.left : call.left[i] = "gateway"

(* It is called once.                                                      *)
Once(call) ==
    \A i, j \in DOMAIN call.left :
        call.left[i] = "gateway" /\ call.left[j] = "gateway" => i = j

(* The calls in progress: only halts are nested, and under a halt.         *)
StackInv ==
    /\ \A i \in 2 .. Len(calls) : calls[i].op = "halt"
    /\ Len(calls) > 1 => emergency
    /\ ~ Idle /\ calls[1].op = "halt" => state = "emergency"
    /\ ~ Idle /\ calls[1].op = "handoff" => calls[1].by \in Operators
    /\ ~ Idle => Once(calls[1])

(* What the outermost call has achieved so far.                            *)
ProgressInv ==
    /\ ~ Idle /\ calls[1].op = "handoff" /\ calls[1].target = "manual"
          /\ ~ Waiting(calls[1]) => emergency \/ told["gateway"] \in {"manual", "declined"}
    /\ ~ Idle /\ calls[1].op = "return" /\ Waiting(calls[1]) /\ state = "manual" => Held

IInv == TypeOK /\ StackInv /\ ProgressInv /\ ManualIsHeld

-----------------------------------------------------------------------------
(* Lemmas about the stack of calls and about what each call visits.        *)

(* What a new call visits, and that the gateway is still to be called.     *)
LEMMA NewCall ==
    ASSUME NEW op \in {"handoff", "return", "halt"}, NEW target \in Modes,
           NEW by \in Operators \cup {NoOne}
    PROVE  /\ Call(op, target, by) \in Calls
           /\ Waiting(Call(op, target, by))
           /\ Once(Call(op, target, by))
  <1>1. Visits(op, target) \in Seq(ToSet(Components))
    <2> DEFINE S == {"ml", "gateway", "positions", "risk"}
    <2>1. DOMAIN Components = 1 .. 4 /\ ToSet(Components) = {Components[i] : i \in 1 .. 4}
      BY DEF Components, ToSet
    <2>2. S \subseteq ToSet(Components)
      <3>1. /\ "ml" = Components[1] /\ "gateway" = Components[2]
            /\ "positions" = Components[3] /\ "risk" = Components[4]
        BY DEF Components
      <3>2. 1 \in 1 .. 4 /\ 2 \in 1 .. 4 /\ 3 \in 1 .. 4 /\ 4 \in 1 .. 4
        OBVIOUS
      <3> QED  BY <2>1, <3>1, <3>2
    <2>3. /\ <<"ml", "gateway", "positions", "risk">> \in Seq(S)
          /\ <<"ml", "gateway", "risk">> \in Seq(S)
      OBVIOUS
    <2>4. Visits(op, target) \in Seq(S)
      BY <2>3 DEF Visits, Components
    <2> QED  BY <2>2, <2>4, SeqMonotonic
  <1>2. \E i \in DOMAIN Visits(op, target) : Visits(op, target)[i] = "gateway"
    <2>1. 2 \in DOMAIN Visits(op, target) /\ Visits(op, target)[2] = "gateway"
      BY DEF Visits, Components
    <2> QED  BY <2>1
  <1>3. \A i, j \in DOMAIN Visits(op, target) :
           Visits(op, target)[i] = "gateway" /\ Visits(op, target)[j] = "gateway" => i = j
    BY DEF Visits, Components
  <1> QED  BY <1>1, <1>2, <1>3 DEF Call, Calls, Waiting, Once

(* The innermost call is the outermost one, or a halt.                     *)
LEMMA Innermost ==
    ASSUME TypeOK, StackInv, ~ Idle
    PROVE  /\ Len(calls) \in Nat \ {0}
           /\ Current = calls[Len(calls)]
           /\ Current \in Calls
           /\ Current.op # "halt" => Len(calls) = 1
  <1>1. calls \in Seq(Calls) /\ calls # <<>>
    BY DEF TypeOK, Idle
  <1>2. Len(calls) \in Nat \ {0} /\ Current = calls[Len(calls)]
    BY <1>1 DEF Current, Last
  <1>3. Len(calls) # 1 => calls[Len(calls)].op = "halt"
    <2>1. Len(calls) # 1 => Len(calls) \in 2 .. Len(calls)
      <3> DEFINE n == Len(calls)
      <3>1. n \in Nat /\ n # 0  BY <1>2
      <3> HIDE DEF n
      <3>2. n # 1 => n \in 2 .. n  BY <3>1
      <3> QED  BY <3>2 DEF n
    <2>2. \A i \in 2 .. Len(calls) : calls[i].op = "halt"
      BY DEF StackInv
    <2> QED  BY <2>1, <2>2
  <1> QED  BY <1>1, <1>2, <1>3

(* A call that returns leaves the calls around it as they were.            *)
LEMMA ReturnPops ==
    ASSUME TypeOK, StackInv, ~ Idle, Return
    PROVE  /\ calls' \in Seq(Calls)
           /\ Len(calls') = Len(calls) - 1
           /\ \A i \in 1 .. Len(calls') : calls'[i] = calls[i]
           /\ Len(calls) = 1 => calls' = <<>>
  <1>1. calls \in Seq(Calls) /\ Len(calls) \in Nat \ {0}
    BY Innermost DEF TypeOK
  <1>2. calls' = SubSeq(calls, 1, Len(calls) - 1)
    BY DEF Return, Front
  <1>3. \A i \in 1 .. Len(calls) - 1 : calls[i] \in Calls
    BY <1>1, ElementOfSeq
  <1>4. /\ calls' \in Seq(Calls)
        /\ Len(calls') = Len(calls) - 1
        /\ \A i \in 1 .. Len(calls) - 1 : calls'[i] = calls[i]
    <2> DEFINE n == Len(calls) - 1
    <2>1. n \in Int /\ 1 \in Int /\ (1 <= n \/ n = 0)
      <3> DEFINE k == Len(calls)
      <3>1. k \in Nat /\ k # 0  BY <1>1
      <3> HIDE DEF k
      <3>2. k - 1 \in Int /\ (1 <= k - 1 \/ k - 1 = 0)  BY <3>1
      <3> QED  BY <3>2 DEF k
    <2>2. /\ SubSeq(calls, 1, n) \in Seq(Calls)
          /\ Len(SubSeq(calls, 1, n)) = IF 1 <= n THEN n - 1 + 1 ELSE 0
          /\ \A i \in 1 .. n - 1 + 1 : SubSeq(calls, 1, n)[i] = calls[1 + i - 1]
      <3> HIDE DEF n
      <3> QED  BY <1>3, <2>1, SubSeqProperties DEF n
    <2> QED  BY <1>1, <1>2, <2>1, <2>2
  <1>5. Len(calls) = 1 => calls' = <<>>
    BY <1>4, EmptySeq
  <1> QED  BY <1>4, <1>5

(* A callback done changes only the two fields of the innermost call, and  *)
(* the gateway is still to be called unless it was the one.                *)
LEMMA NextKeeps ==
    ASSUME TypeOK, StackInv, ~ Idle, Current.left # <<>>, NextComponent
    PROVE  /\ calls' \in Seq(Calls)
           /\ Len(calls') = Len(calls)
           /\ \A i \in 1 .. Len(calls) :
                 /\ calls'[i].op = calls[i].op
                 /\ calls'[i].target = calls[i].target
                 /\ calls'[i].by = calls[i].by
           /\ \A i \in 1 .. Len(calls) - 1 : calls'[i] = calls[i]
           /\ Waiting(calls'[Len(calls)]) => Waiting(Current)
           /\ Waiting(Current) =>
                 Waiting(calls'[Len(calls)]) \/ Head(Current.left) = "gateway"
           /\ Once(Current) =>
                 /\ Once(calls'[Len(calls)])
                 /\ Head(Current.left) = "gateway" => ~ Waiting(calls'[Len(calls)])
  <1> DEFINE n == Len(calls)
             c == [Current EXCEPT !.left = Tail(@), !.nested = FALSE]
  <1>1. n \in Nat \ {0} /\ Current = calls[n] /\ Current \in Calls /\ calls \in Seq(Calls)
    BY Innermost DEF TypeOK
  <1>2. calls' = [calls EXCEPT ![n] = c]
    BY <1>1 DEF NextComponent
  <1>3. Current.left \in Seq(ToSet(Components)) /\ c.left = Tail(Current.left)
    BY <1>1 DEF Calls
  <1>4. c \in Calls /\ c.op = Current.op /\ c.target = Current.target /\ c.by = Current.by
    <2>1. Tail(Current.left) \in Seq(ToSet(Components))
      BY <1>3
    <2> QED  BY <1>1, <2>1 DEF Calls
  <1>5. calls' \in Seq(Calls) /\ Len(calls') = n /\ calls'[n] = c
        /\ \A i \in 1 .. n : i # n => calls'[i] = calls[i]
    <2>1. n \in 1 .. Len(calls)
      BY <1>1
    <2> HIDE DEF c
    <2> QED  BY <1>1, <1>2, <1>4, <2>1, ExceptSeq
  <1>6. Waiting(c) => Waiting(Current)
    BY <1>3 DEF Waiting
  <1>7. ASSUME Waiting(Current), Head(Current.left) # "gateway"
        PROVE  Waiting(c)
    <2>1. PICK i \in DOMAIN Current.left : Current.left[i] = "gateway"
      BY <1>7 DEF Waiting
    <2>2. i # 1
      BY <1>3, <1>7, <2>1
    <2>3. i - 1 \in DOMAIN c.left /\ c.left[i - 1] = "gateway"
      BY <1>3, <2>1, <2>2
    <2> QED  BY <2>3 DEF Waiting
  <1>8. ASSUME Once(Current)
         PROVE  /\ Once(c)
                /\ Head(Current.left) = "gateway" => ~ Waiting(c)
    <2>1. \A i \in DOMAIN c.left : i + 1 \in DOMAIN Current.left /\ i + 1 # 1
                                  /\ c.left[i] = Current.left[i + 1]
      BY <1>3
    <2>2. DOMAIN c.left \subseteq Nat
      BY <1>3
    <2>3. 1 \in DOMAIN Current.left /\ Head(Current.left) = Current.left[1]
      BY <1>3
    <2>4. Once(c)
      BY <1>8, <2>1, <2>2 DEF Once
    <2>5. Head(Current.left) = "gateway" => ~ Waiting(c)
      BY <1>8, <2>1, <2>3 DEF Once, Waiting
    <2> QED  BY <2>4, <2>5
  <1>9. \A i \in 1 .. n - 1 : i \in 1 .. n /\ i # n
    BY <1>1
  <1> HIDE DEF c
  <1>10. \A i \in 1 .. n : /\ calls'[i].op = calls[i].op
                         /\ calls'[i].target = calls[i].target
                         /\ calls'[i].by = calls[i].by
    BY <1>1, <1>4, <1>5
  <1> QED  BY <1>5, <1>6, <1>7, <1>8, <1>9, <1>10

(* A call that finds the lock free is alone.                               *)
LEMMA NewAlone ==
    ASSUME NEW c \in Calls
    PROVE  /\ <<c>> \in Seq(Calls) /\ Len(<<c>>) = 1 /\ <<c>>[1] = c
           /\ <<c>> # <<>>
  OBVIOUS

(* A nested halt leaves what the calls around it have still to do.         *)
LEMMA HaltNests ==
    ASSUME TypeOK, StackInv, HaltFromCallback
    PROVE  /\ calls' \in Seq(Calls) /\ Len(calls') = Len(calls) + 1
           /\ \A i \in 1 .. Len(calls) :
                 /\ calls'[i].op = calls[i].op
                 /\ calls'[i].target = calls[i].target
                 /\ calls'[i].by = calls[i].by
                 /\ calls'[i].left = calls[i].left
           /\ calls'[Len(calls')].op = "halt"
  <1> DEFINE n == Len(calls)
             c == [Current EXCEPT !.nested = TRUE]
             t == [calls EXCEPT ![n] = c]
             h == Call("halt", "emergency", NoOne)
  <1>1. n \in Nat \ {0} /\ Current = calls[n] /\ Current \in Calls /\ calls \in Seq(Calls)
    BY Innermost DEF TypeOK, HaltFromCallback
  <1>2. n \in 1 .. Len(calls) /\ c \in Calls
    <2>1. n \in 1 .. Len(calls)
      BY <1>1
    <2>2. c \in Calls
      BY <1>1 DEF Calls
    <2> QED  BY <2>1, <2>2
  <1>3. t \in Seq(Calls) /\ Len(t) = n
        /\ \A i \in 1 .. n : t[i] = IF i = n THEN c ELSE calls[i]
    <2> HIDE DEF c
    <2> QED  BY <1>1, <1>2, ExceptSeq
  <1>4. calls' = Append(t, h)
    BY <1>1 DEF HaltFromCallback
  <1>5. h \in Calls /\ h.op = "halt"
    <2>1. h \in Calls
      BY NewCall DEF Modes
    <2>2. h.op = "halt"
      BY DEF Call
    <2> QED  BY <2>1, <2>2
  <1>6. /\ calls' \in Seq(Calls) /\ Len(calls') = n + 1 /\ calls'[n + 1] = h
        /\ \A i \in 1 .. n : calls'[i] = t[i]
    <2> HIDE DEF t, h, c
    <2> QED  BY <1>1, <1>3, <1>4, <1>5
  <1>7. \A i \in 1 .. n :
           /\ t[i].op = calls[i].op /\ t[i].target = calls[i].target
           /\ t[i].by = calls[i].by /\ t[i].left = calls[i].left
    <2>1. /\ c.op = Current.op /\ c.target = Current.target
          /\ c.by = Current.by /\ c.left = Current.left
      BY <1>1 DEF Calls
    <2> HIDE DEF c, t
    <2> QED  BY <1>1, <1>3, <2>1
  <1> HIDE DEF t, h
  <1> QED  BY <1>5, <1>6, <1>7

-----------------------------------------------------------------------------
(* The initial state and every step.                                       *)

(* The order gateway is one of the components.                             *)
LEMMA Gateway == "gateway" \in ToSet(Components)
  <1>1. 2 \in DOMAIN Components /\ Components[2] = "gateway"
    BY DEF Components
  <1> QED  BY <1>1 DEF ToSet

(* The handoff starts in AUTOMATED with no call.                           *)
LEMMA InitInv == Init => IInv
  <1> SUFFICES ASSUME Init PROVE IInv
    OBVIOUS
  <1>1. calls \in Seq(Calls) /\ Len(calls) = 0
    BY EmptySeq DEF Init
  <1>2. TypeOK
    <2>1. Len(calls) <= MaxDepth
      BY <1>1, HandoffAssumption
    <2>2. told \in [ToSet(Components) -> Modes \cup {"declined"}]
      BY DEF Init, Modes
    <2>3. state \in Modes \cup {"transitioning"}
      BY DEF Init, Modes
    <2>4. session \in Operators \cup {NoOne} /\ authorized \subseteq Operators
      BY DEF Init
    <2>5. emergency \in BOOLEAN /\ recent \in BOOLEAN /\ clean \in BOOLEAN
      BY DEF Init
    <2> QED  BY <1>1, <2>1, <2>2, <2>3, <2>4, <2>5 DEF TypeOK
  <1>3. Idle /\ state # "manual"
    BY DEF Init, Idle
  <1>4. StackInv
    BY <1>1, <1>3 DEF StackInv
  <1> QED  BY <1>2, <1>3, <1>4 DEF IInv, ProgressInv, ManualIsHeld

(* The steps that start a call while the lock is free.                     *)
LEMMA StartStep ==
    ASSUME IInv, NEW op \in {"handoff", "return", "halt"}, NEW target \in Modes,
           NEW by \in Operators \cup {NoOne},
           Idle, calls' = <<Call(op, target, by)>>,
           op = "handoff" => by \in Operators,
           op = "halt" => state' = "emergency",
           op = "return" /\ state' = "manual" => Held'
    PROVE  /\ calls' \in Seq(Calls) /\ Len(calls') <= MaxDepth
           /\ StackInv' /\ ProgressInv' /\ ManualIsHeld'
  <1> DEFINE c == Call(op, target, by)
  <1>1. c \in Calls /\ Waiting(c) /\ Once(c)
    BY NewCall
  <1>2. c.op = op /\ c.by = by
    BY DEF Call
  <1> HIDE DEF c
  <1>3. calls' \in Seq(Calls) /\ Len(calls') = 1 /\ calls'[1] = c /\ ~ Idle'
    BY <1>1, NewAlone DEF Idle, c
  <1>4. StackInv'
    BY <1>1, <1>2, <1>3 DEF StackInv
  <1>5. ProgressInv'
    BY <1>1, <1>2, <1>3 DEF ProgressInv
  <1>6. ManualIsHeld'
    BY <1>3 DEF ManualIsHeld
  <1> QED  BY <1>3, <1>4, <1>5, <1>6, HandoffAssumption

(* The end of the only call.                                               *)
LEMMA LastReturns ==
    ASSUME TypeOK, StackInv, ~ Idle, Return, Len(calls) = 1,
           state' = "manual" => Held'
    PROVE  /\ calls' \in Seq(Calls) /\ Len(calls') <= MaxDepth
           /\ StackInv' /\ ProgressInv' /\ ManualIsHeld'
  <1>1. calls' = <<>>
    BY ReturnPops
  <1>2. calls' \in Seq(Calls) /\ Len(calls') = 0 /\ Idle'
    BY <1>1, EmptySeq DEF Idle
  <1>3. StackInv'
    BY <1>2 DEF StackInv
  <1> QED  BY <1>2, <1>3, HandoffAssumption DEF ProgressInv, ManualIsHeld, Held

(* One callback done, skipped over by an exception, or declined.           *)
LEMMA CallbackStep ==
    ASSUME IInv, ~ Idle, Current.left # <<>>, NextComponent,
           UNCHANGED <<state, emergency, session, authorized, recent>>,
           clean' \in BOOLEAN,
           \/ told' = [told EXCEPT ![Head(Current.left)] = Current.target]
           \/ told' = told /\ ~ Refuses
           \/ told' = [told EXCEPT !["gateway"] = "declined"] /\ Refuses
    PROVE  IInv'
  <1> DEFINE n == Len(calls)
  <1> USE DEF IInv
  <1>1. /\ n \in Nat \ {0} /\ Current = calls[n] /\ Current \in Calls
        /\ Current.op # "halt" => n = 1
    BY Innermost
  <1>2. /\ calls' \in Seq(Calls) /\ Len(calls') = n
        /\ \A i \in 1 .. n : /\ calls'[i].op = calls[i].op
                            /\ calls'[i].target = calls[i].target
                            /\ calls'[i].by = calls[i].by
        /\ \A i \in 1 .. n - 1 : calls'[i] = calls[i]
        /\ Waiting(calls'[n]) => Waiting(Current)
        /\ Waiting(Current) => Waiting(calls'[n]) \/ Head(Current.left) = "gateway"
        /\ Once(Current) =>
              /\ Once(calls'[n])
              /\ Head(Current.left) = "gateway" => ~ Waiting(calls'[n])
    BY NextKeeps
  <1> HIDE DEF n
  <1>3. 1 \in 1 .. n /\ (n # 1 => n > 1 /\ 1 \in 1 .. n - 1)
    BY <1>1
  <1>4. ~ Idle'
    BY <1>1, <1>2, EmptySeq DEF Idle
  <1>5. told' \in [ToSet(Components) -> Modes \cup {"declined"}]
    <2>1. Current.target \in Modes
      BY <1>1 DEF Calls
    <2> QED  BY <2>1 DEF TypeOK
  <1>6. TypeOK'
    BY <1>2, <1>5 DEF TypeOK, n
  <1>7. Once(calls'[1])
    BY <1>1, <1>2, <1>3 DEF StackInv
  <1>8. StackInv'
    <2>1. \A i \in 2 .. n : i \in 1 .. n
      BY <1>1
    <2> QED  BY <1>2, <1>3, <1>4, <1>7, <2>1 DEF StackInv, n
  <1>9. ProgressInv'
    <2>1. CASE n # 1
      <3>1. emergency' /\ calls'[1] = calls[1] /\ session' = session /\ state' = state
        BY <1>2, <1>3, <2>1 DEF StackInv, n
      <3> QED  BY <1>4, <3>1 DEF ProgressInv, Held
    <2>2. CASE n = 1
      <3>1. Current = calls[1] /\ calls'[n] = calls'[1] /\ Once(Current)
        BY <1>1, <2>2 DEF StackInv
      <3>2. ASSUME calls'[1].op = "handoff", calls'[1].target = "manual", ~ Waiting(calls'[1])
            PROVE  emergency' \/ told'["gateway"] \in {"manual", "declined"}
        <4>1. calls[1].op = "handoff" /\ Current.target = "manual"
          BY <1>2, <1>3, <3>1, <3>2
        <4>2. CASE Waiting(Current)
          <5>1. Head(Current.left) = "gateway"
            BY <1>2, <3>1, <3>2, <4>2
          <5>2. Refuses
            BY <3>1, <4>1, <5>1 DEF Refuses
          <5> QED  BY <4>1, <5>1, <5>2, Gateway DEF TypeOK
        <4>3. CASE ~ Waiting(Current)
          <5>1. emergency \/ told["gateway"] \in {"manual", "declined"}
            BY <3>1, <4>1, <4>3 DEF ProgressInv
          <5> QED  BY <4>1, <5>1, Gateway DEF TypeOK
        <4> QED  BY <4>2, <4>3
      <3>3. ASSUME calls'[1].op = "return", Waiting(calls'[1]), state' = "manual"
            PROVE  Held'
        <4>1. calls[1].op = "return" /\ Waiting(calls[1]) /\ Head(Current.left) # "gateway"
          BY <1>2, <1>3, <3>1, <3>3
        <4>2. Held
          BY <3>3, <4>1 DEF ProgressInv
        <4>3. told'["gateway"] = told["gateway"]
          BY <4>1, Gateway DEF TypeOK, Refuses
        <4> QED  BY <4>2, <4>3 DEF Held
      <3> QED  BY <3>2, <3>3 DEF ProgressInv
    <2> QED  BY <2>1, <2>2
  <1>10. ManualIsHeld'
    BY <1>4 DEF ManualIsHeld
  <1> QED  BY <1>6, <1>8, <1>9, <1>10

(* Every step of the handoff keeps the invariant.                          *)
LEMMA StepInv == IInv /\ [Next]_vars => IInv'
  <1> SUFFICES ASSUME IInv, [Next]_vars PROVE IInv'
    OBVIOUS
  <1> USE DEF IInv
  <1>1. ASSUME NEW o \in Operators, Register(o) PROVE IInv'
    BY <1>1 DEF Register, TypeOK, StackInv, ProgressInv, ManualIsHeld, Held, Idle
  <1>2. CASE MinutePasses
    BY <1>2 DEF MinutePasses, TypeOK, StackInv, ProgressInv, ManualIsHeld, Held, Idle
  <1>3. ASSUME NEW o \in Operators, NEW target \in Modes, RequestHandoff(o, target)
        PROVE  IInv'
    <2>1. /\ calls' \in Seq(Calls) /\ Len(calls') <= MaxDepth
          /\ StackInv' /\ ProgressInv' /\ ManualIsHeld'
      <3>1. calls' = <<Call("handoff", target, o)>> /\ Idle
        BY <1>3 DEF RequestHandoff
      <3> QED  BY <3>1, StartStep
    <2> QED  BY <1>3, <2>1 DEF RequestHandoff, TypeOK
  <1>4. ASSUME NEW o \in Operators, ReturnToAutomated(o) PROVE IInv'
    <2>1. /\ calls' \in Seq(Calls) /\ Len(calls') <= MaxDepth
          /\ StackInv' /\ ProgressInv' /\ ManualIsHeld'
      <3>1. calls' = <<Call("return", "automated", o)>> /\ Idle /\ Held'
        BY <1>4 DEF ReturnToAutomated, ManualIsHeld, Held
      <3>2. "automated" \in Modes
        BY DEF Modes
      <3> QED  BY <3>1, <3>2, StartStep
    <2> QED  BY <1>4, <2>1 DEF ReturnToAutomated, TypeOK
  <1>5. CASE EmergencyHalt
    <2>1. /\ calls' \in Seq(Calls) /\ Len(calls') <= MaxDepth
          /\ StackInv' /\ ProgressInv' /\ ManualIsHeld'
      <3>1. calls' = <<Call("halt", "emergency", NoOne)>> /\ Idle /\ state' = "emergency"
        BY <1>5 DEF EmergencyHalt, Halt
      <3>2. "emergency" \in Modes
        BY DEF Modes
      <3> QED  BY <3>1, <3>2, StartStep
    <2> QED  BY <1>5, <2>1 DEF EmergencyHalt, Halt, TypeOK, Modes
  <1>6. CASE HaltFromCallback
    <2> DEFINE n == Len(calls)
    <2>1. n \in Nat \ {0} /\ n < MaxDepth /\ ~ Idle
      BY <1>6, Innermost DEF HaltFromCallback
    <2>2. /\ calls' \in Seq(Calls) /\ Len(calls') = n + 1
          /\ \A i \in 1 .. n : /\ calls'[i].op = calls[i].op
                              /\ calls'[i].target = calls[i].target
                              /\ calls'[i].by = calls[i].by
                              /\ calls'[i].left = calls[i].left
          /\ calls'[n + 1].op = "halt"
      BY <1>6, HaltNests
    <2>3. emergency' = TRUE /\ state' = "emergency" /\ clean' = FALSE
          /\ UNCHANGED <<session, authorized, recent, told>>
      BY <1>6 DEF HaltFromCallback, Halt
    <2> HIDE DEF n
    <2>4. 1 \in 1 .. n /\ n + 1 <= MaxDepth /\ n + 1 # 0
          /\ \A i \in 2 .. n + 1 : i = n + 1 \/ (i \in 2 .. n /\ i \in 1 .. n)
      BY <2>1, HandoffAssumption
    <2>5. ~ Idle'
      BY <2>2, <2>4, EmptySeq DEF Idle
    <2>6. TypeOK'
      BY <2>2, <2>3, <2>4 DEF TypeOK, Modes
    <2>7. Once(calls'[1])
      BY <2>1, <2>2, <2>4 DEF StackInv, Once
    <2>8. StackInv'
      <3>1. \A i \in 2 .. Len(calls') : calls'[i].op = "halt"
        BY <2>2, <2>4 DEF StackInv, n
      <3> QED  BY <2>1, <2>2, <2>3, <2>4, <2>7, <3>1 DEF StackInv
    <2> QED  BY <2>3, <2>5, <2>6, <2>8 DEF ProgressInv, ManualIsHeld
  <1>7. ASSUME NEW o \in Operators, ResumeFromEmergency(o) PROVE IInv'
    <2>1. /\ Idle /\ emergency' = FALSE /\ state' = "paused" /\ clean' = FALSE
          /\ UNCHANGED <<session, authorized, recent, calls, told>>
      BY <1>7 DEF ResumeFromEmergency
    <2>2. Len(calls) = 0 /\ Idle'
      BY <2>1, EmptySeq DEF Idle
    <2>3. TypeOK'
      BY <2>1 DEF TypeOK, Modes
    <2>4. StackInv'
      BY <2>1, <2>2 DEF StackInv
    <2> QED  BY <2>1, <2>2, <2>3, <2>4 DEF ProgressInv, ManualIsHeld
  <1>8. CASE CallbackReturns
    <2>1. /\ ~ Idle /\ Current.left # <<>> /\ NextComponent
          /\ told' = [told EXCEPT ![Head(Current.left)] = Current.target]
          /\ UNCHANGED <<state, emergency, session, authorized, recent>>
      BY <1>8 DEF CallbackReturns
    <2>2. clean' \in BOOLEAN
      BY <1>8 DEF CallbackReturns, TypeOK
    <2> QED  BY <2>1, <2>2, CallbackStep
  <1>9. CASE CallbackFails
    <2>1. /\ ~ Idle /\ Current.left # <<>> /\ NextComponent /\ ~ Refuses
          /\ UNCHANGED <<state, emergency, session, authorized, recent, told>>
      BY <1>9 DEF CallbackFails
    <2>2. clean' \in BOOLEAN
      BY <1>9 DEF CallbackFails
    <2> QED  BY <2>1, <2>2, CallbackStep
  <1>15. CASE GatewayDeclines
    <2>1. /\ ~ Idle /\ Current.left # <<>> /\ NextComponent /\ Refuses
          /\ told' = [told EXCEPT !["gateway"] = "declined"]
          /\ UNCHANGED <<state, emergency, session, authorized, recent>>
      BY <1>15 DEF GatewayDeclines
    <2>2. clean' \in BOOLEAN
      BY <1>15 DEF GatewayDeclines
    <2> QED  BY <2>1, <2>2, CallbackStep
  <1>10. CASE GatewayFails
    <2>1. /\ ~ Idle /\ Current.left # <<>> /\ Refuses /\ Return
          /\ state' = AfterRefusal /\ clean' = FALSE
          /\ UNCHANGED <<emergency, session, authorized, recent, told>>
      BY <1>10 DEF GatewayFails
    <2>2. /\ Len(calls) = 1 /\ Current = calls[1] /\ Current \in Calls
          /\ Current.op \in {"handoff", "return"}
      BY <2>1, Innermost DEF Refuses, Calls
    <2>3. Waiting(Current)
      <3>1. Current.left \in Seq(ToSet(Components))
        BY <2>2 DEF Calls
      <3>2. 1 \in DOMAIN Current.left /\ Current.left[1] = "gateway"
        BY <2>1, <3>1 DEF Refuses
      <3> QED  BY <3>2 DEF Waiting
    <2>4. state' = "manual" => Held'
      BY <2>1, <2>2, <2>3 DEF AfterRefusal, ProgressInv, Held
    <2>5. /\ calls' \in Seq(Calls) /\ Len(calls') <= MaxDepth
          /\ StackInv' /\ ProgressInv' /\ ManualIsHeld'
      BY <2>1, <2>2, <2>4, LastReturns
    <2> QED  BY <2>1, <2>5 DEF TypeOK, AfterRefusal, Modes
  <1>11. CASE HandoffCompletes
    <2>1. /\ ~ Idle /\ Current.left = <<>> /\ Current.op = "handoff" /\ Return
          /\ state' = Current.target /\ recent' = TRUE
          /\ session' = IF Current.target = "manual" THEN Current.by ELSE session
          /\ UNCHANGED <<emergency, authorized, told, clean>>
      BY <1>11 DEF HandoffCompletes, Finished
    <2>2. Len(calls) = 1 /\ Current = calls[1] /\ Current \in Calls
      BY <2>1, Innermost
    <2>3. ~ Waiting(Current)
      BY <2>1 DEF Waiting
    <2>4. Current.by \in Operators
      BY <2>1, <2>2 DEF StackInv
    <2>5. state' = "manual" => Held'
      BY <2>1, <2>2, <2>3, <2>4, HandoffAssumption DEF ProgressInv, Held
    <2>6. /\ calls' \in Seq(Calls) /\ Len(calls') <= MaxDepth
          /\ StackInv' /\ ProgressInv' /\ ManualIsHeld'
      BY <2>1, <2>2, <2>5, LastReturns
    <2>7. state' \in Modes
      BY <2>1, <2>2 DEF Calls
    <2> QED  BY <2>1, <2>4, <2>6, <2>7 DEF TypeOK
  <1>12. CASE ReturnCompletes
    <2>1. /\ ~ Idle /\ Current.op = "return" /\ Return
          /\ state' = "automated" /\ recent' = TRUE /\ session' = NoOne
          /\ UNCHANGED <<emergency, authorized, told, clean>>
      BY <1>12 DEF ReturnCompletes, Finished
    <2>2. Len(calls) = 1
      BY <2>1, Innermost
    <2>3. /\ calls' \in Seq(Calls) /\ Len(calls') <= MaxDepth
          /\ StackInv' /\ ProgressInv' /\ ManualIsHeld'
      BY <2>1, <2>2, LastReturns
    <2> QED  BY <2>1, <2>3 DEF TypeOK, Modes
  <1>13. CASE HaltCompletes
    <2> DEFINE n == Len(calls)
    <2>1. /\ ~ Idle /\ Current.op = "halt" /\ Return
          /\ UNCHANGED <<state, emergency, session, authorized, recent, told, clean>>
      BY <1>13 DEF HaltCompletes, Finished
    <2>2. n \in Nat \ {0} /\ Current = calls[n]
      BY <2>1, Innermost
    <2>3. CASE n = 1
      <3>1. state = "emergency"
        BY <2>1, <2>2, <2>3 DEF StackInv
      <3>2. /\ calls' \in Seq(Calls) /\ Len(calls') <= MaxDepth
            /\ StackInv' /\ ProgressInv' /\ ManualIsHeld'
        BY <2>1, <2>3, <3>1, LastReturns
      <3> QED  BY <2>1, <3>2 DEF TypeOK
    <2>4. CASE n # 1
      <3>1. /\ calls' \in Seq(Calls) /\ Len(calls') = n - 1
            /\ \A i \in 1 .. n - 1 : calls'[i] = calls[i]
        BY <2>1, ReturnPops
      <3> HIDE DEF n
      <3>2. /\ n - 1 # 0 /\ 1 \in 1 .. n - 1 /\ n > 1
            /\ \A i \in 2 .. n - 1 : i \in 2 .. n /\ i \in 1 .. n - 1
        BY <2>2, <2>4
      <3>3. calls'[1] = calls[1] /\ ~ Idle' /\ emergency
        BY <3>1, <3>2, EmptySeq DEF Idle, StackInv, n
      <3>4. n - 1 <= MaxDepth
        BY <2>2, HandoffAssumption DEF TypeOK, n
      <3>5. TypeOK'
        BY <2>1, <3>1, <3>4 DEF TypeOK
      <3>6. StackInv'
        BY <2>1, <3>1, <3>2, <3>3 DEF StackInv, n
      <3> QED  BY <2>1, <3>3, <3>5, <3>6 DEF ProgressInv, ManualIsHeld, Held
    <2> QED  BY <2>3, <2>4
  <1>14. CASE UNCHANGED vars
    BY <1>14 DEF vars, TypeOK, StackInv, ProgressInv, ManualIsHeld, Held, Idle
  <1> QED
    BY <1>1, <1>2, <1>3, <1>4, <1>5, <1>6, <1>7, <1>8, <1>9, <1>10, <1>11, <1>12, <1>13,
       <1>14, <1>15 DEF Next, Proceed

-----------------------------------------------------------------------------
(***************************************************************************)
(* ComponentsAgree: while no callback has failed or called back, each      *)
(* component has still to be called or is in the mode of the call.         *)
(***************************************************************************)
Agrees(c, mode) == told[c] = mode \/ (c = "positions" /\ mode = "automated")
InLeft(call, c) == \E i \in DOMAIN call.left : call.left[i] = c

AgreeInv ==
    /\ Len(calls) > 1 => ~clean
    /\ ~Idle => /\ calls[1].op = "return" => calls[1].target = "automated"
                /\ calls[1].op = "halt" => calls[1].target = "emergency"
    /\ ~Idle /\ clean => \A c \in ToSet(Components) :
          InLeft(calls[1], c) \/ Agrees(c, calls[1].target)
    /\ ComponentsAgree

(* A new call visits every component, but a return leaves the positions.   *)
LEMMA VisitsAll ==
    ASSUME NEW op \in {"handoff", "return", "halt"}, NEW target \in Modes,
           NEW by \in Operators \cup {NoOne}, NEW c \in ToSet(Components)
    PROVE  \/ InLeft(Call(op, target, by), c)
           \/ c = "positions" /\ target = "automated"
  <1>1. c \in {"ml", "gateway", "positions", "risk"}
    BY DEF ToSet, Components
  <1>2. CASE op # "halt" /\ target = "automated"
    <2>1. Call(op, target, by).left = <<"ml", "gateway", "risk">>
      BY <1>2 DEF Call, Visits
    <2>2. /\ 1 \in DOMAIN <<"ml", "gateway", "risk">> /\ 2 \in DOMAIN <<"ml", "gateway", "risk">>
          /\ 3 \in DOMAIN <<"ml", "gateway", "risk">>
      OBVIOUS
    <2> QED  BY <1>1, <1>2, <2>1, <2>2 DEF InLeft
  <1>3. CASE ~(op # "halt" /\ target = "automated")
    <2>1. Call(op, target, by).left = <<"ml", "gateway", "positions", "risk">>
      BY <1>3 DEF Call, Visits, Components
    <2> DEFINE s == <<"ml", "gateway", "positions", "risk">>
    <2>2. 1 \in DOMAIN s /\ 2 \in DOMAIN s /\ 3 \in DOMAIN s /\ 4 \in DOMAIN s
      OBVIOUS
    <2> QED  BY <1>1, <2>1, <2>2 DEF InLeft
  <1> QED  BY <1>2, <1>3

(* A new call has every component still to call.                           *)
LEMMA StartAgrees ==
    ASSUME NEW op \in {"handoff", "return", "halt"}, NEW target \in Modes,
           NEW by \in Operators \cup {NoOne}, calls' = <<Call(op, target, by)>>,
           op = "return" => target = "automated", op = "halt" => target = "emergency"
    PROVE  AgreeInv'
  <1> DEFINE c == Call(op, target, by)
  <1>1. c \in Calls /\ c.op = op /\ c.target = target
    BY NewCall DEF Call
  <1>2. \A k \in ToSet(Components) : InLeft(c, k) \/ (k = "positions" /\ target = "automated")
    BY VisitsAll
  <1> HIDE DEF c
  <1>3. Len(calls') = 1 /\ calls'[1] = c /\ ~ Idle'
    BY <1>1, NewAlone DEF Idle, c
  <1>4. \A k \in ToSet(Components) : (InLeft(calls[1], k) \/ Agrees(k, calls[1].target))'
    BY <1>1, <1>2, <1>3 DEF Agrees, InLeft
  <1> QED  BY <1>1, <1>3, <1>4 DEF AgreeInv, ComponentsAgree

(* The only call ends; if it was clean, its mode is the state.             *)
LEMMA LastAgrees ==
    ASSUME IInv, AgreeInv, ~Idle, Return, Len(calls) = 1, UNCHANGED told,
           clean' => clean /\ Current.left = << >> /\ state' = calls[1].target
    PROVE  AgreeInv'
  <1>1. calls' = <<>>
    BY ReturnPops DEF IInv
  <1>2. Len(calls') = 0 /\ Idle'
    BY <1>1, EmptySeq DEF Idle
  <1>3. Current = calls[1]
    BY Innermost DEF IInv
  <1>4. ASSUME clean', NEW c \in ToSet(Components)
        PROVE  told'[c] = state' \/ (c = "positions" /\ state' = "automated")
    <2>1. ~InLeft(calls[1], c)
      BY <1>3, <1>4 DEF InLeft
    <2> QED  BY <1>4, <2>1 DEF AgreeInv, Agrees
  <1> QED  BY <1>2, <1>4 DEF AgreeInv, ComponentsAgree

(* A component that was called is in the mode of the call.                 *)
LEMMA CallbackAgrees ==
    ASSUME IInv, AgreeInv, CallbackReturns
    PROVE  AgreeInv'
  <1> DEFINE n == Len(calls)
  <1>0. TypeOK /\ StackInv /\ ~Idle /\ Current.left # << >>
    BY DEF IInv, CallbackReturns
  <1>1. /\ n \in Nat \ {0} /\ Current = calls[n] /\ Current \in Calls
        /\ calls \in Seq(Calls)
    BY <1>0, Innermost DEF TypeOK
  <1>2. /\ Len(calls') = n
        /\ \A i \in 1 .. n : calls'[i].op = calls[i].op /\ calls'[i].target = calls[i].target
    BY <1>0, NextKeeps DEF CallbackReturns
  <1>3. 1 \in 1 .. n /\ ~Idle'
    BY <1>1, <1>2, EmptySeq DEF Idle
  <1>4. UNCHANGED <<state, clean>>
    BY DEF CallbackReturns
  <1>5. Len(calls') > 1 => ~clean'
    BY <1>2, <1>4 DEF AgreeInv
  <1>6. ASSUME clean', NEW c \in ToSet(Components)
        PROVE  (InLeft(calls[1], c) \/ Agrees(c, calls[1].target))'
    <2>1. n = 1 /\ Current = calls[1]
      <3>1. ~(Len(calls) > 1)
        BY <1>4, <1>6 DEF AgreeInv
      <3>2. PICK k \in Nat \ {0} : k = n
        BY <1>1
      <3>3. k = 1
        BY <3>1, <3>2
      <3> QED  BY <1>1, <3>2, <3>3
    <2>2. Current.left \in Seq(ToSet(Components))
      BY <1>1 DEF Calls
    <2>3. calls'[1].left = Tail(Current.left) /\ calls'[1].target = Current.target
      BY <1>1, <2>1 DEF CallbackReturns, NextComponent, Calls
    <2>4. told' = [told EXCEPT ![Head(Current.left)] = Current.target]
      BY DEF CallbackReturns
    <2>5. CASE c = Head(Current.left)
      BY <1>0, <2>3, <2>4, <2>5, <1>6 DEF TypeOK, Agrees
    <2>6. CASE c # Head(Current.left)
      <3>1. told'[c] = told[c]
        BY <1>0, <2>4, <2>6 DEF TypeOK
      <3>2. CASE Agrees(c, calls[1].target)
        BY <2>1, <2>3, <3>1, <3>2 DEF Agrees
      <3>3. CASE InLeft(Current, c)
        <4>1. PICK i \in DOMAIN Current.left : Current.left[i] = c
          BY <3>3 DEF InLeft
        <4>2. i # 1
          BY <1>0, <2>2, <2>6, <4>1
        <4>3. i - 1 \in DOMAIN Tail(Current.left) /\ Tail(Current.left)[i - 1] = c
          BY <1>0, <2>2, <4>1, <4>2
        <4> QED  BY <2>3, <4>3 DEF InLeft
      <3> QED  BY <1>0, <1>4, <1>6, <2>1, <3>2, <3>3 DEF AgreeInv
    <2> QED  BY <2>5, <2>6
  <1> QED  BY <1>0, <1>2, <1>3, <1>5, <1>6 DEF AgreeInv, ComponentsAgree

(* Every step of the handoff keeps the agreement.                          *)
LEMMA AgreeStep == IInv /\ AgreeInv /\ [Next]_vars => AgreeInv'
  <1> SUFFICES ASSUME IInv, AgreeInv, [Next]_vars PROVE AgreeInv'
    OBVIOUS
  <1>0. TypeOK /\ StackInv
    BY DEF IInv
  <1>1. ASSUME UNCHANGED <<state, calls, told, clean>> PROVE AgreeInv'
    BY <1>1 DEF AgreeInv, ComponentsAgree, Agrees, InLeft, Idle
  <1>2. ASSUME NEW o \in Operators,
               Register(o) \/ ReturnToAutomated(o) \/ ResumeFromEmergency(o)
        PROVE  AgreeInv'
    <2>1. CASE Register(o)
      BY <1>1, <2>1 DEF Register
    <2>2. CASE ReturnToAutomated(o)
      <3>1. "automated" \in Modes
        BY DEF Modes
      <3> QED  BY <2>2, <3>1, StartAgrees DEF ReturnToAutomated
    <2>3. CASE ResumeFromEmergency(o)
      <3>1. clean' = FALSE /\ Idle' /\ Len(calls') = 0
        BY <2>3, EmptySeq DEF ResumeFromEmergency, Idle
      <3> QED  BY <3>1 DEF AgreeInv, ComponentsAgree
    <2> QED  BY <1>2, <2>1, <2>2, <2>3
  <1>3. ASSUME NEW o \in Operators, NEW target \in Modes, RequestHandoff(o, target)
        PROVE  AgreeInv'
    BY <1>3, StartAgrees DEF RequestHandoff
  <1>4. CASE MinutePasses
    BY <1>1, <1>4 DEF MinutePasses
  <1>5. CASE EmergencyHalt
    <2>1. "emergency" \in Modes
      BY DEF Modes
    <2> QED  BY <1>5, <2>1, StartAgrees DEF EmergencyHalt
  <1>6. CASE HaltFromCallback
    <2>1. clean' = FALSE /\ ~Idle
      BY <1>6 DEF HaltFromCallback
    <2>2. /\ Len(calls) \in Nat \ {0}
          /\ \A i \in 1 .. Len(calls) : calls'[i].op = calls[i].op /\ calls'[i].target = calls[i].target
      BY <1>0, <1>6, <2>1, HaltNests, Innermost
    <2>3. 1 \in 1 .. Len(calls)
      BY <2>2
    <2> QED  BY <2>1, <2>2, <2>3 DEF AgreeInv, ComponentsAgree
  <1>7. CASE CallbackReturns
    BY <1>7, CallbackAgrees
  <1>8. CASE CallbackFails \/ GatewayDeclines
    <2>1. clean' = FALSE /\ ~Idle /\ Current.left # << >> /\ NextComponent
      BY <1>8 DEF CallbackFails, GatewayDeclines
    <2>2. /\ Len(calls) \in Nat \ {0}
          /\ \A i \in 1 .. Len(calls) : calls'[i].op = calls[i].op /\ calls'[i].target = calls[i].target
      BY <1>0, <2>1, NextKeeps, Innermost
    <2>3. 1 \in 1 .. Len(calls)
      BY <2>2
    <2> QED  BY <2>1, <2>2, <2>3 DEF AgreeInv, ComponentsAgree
  <1>9. CASE GatewayFails
    <2>1. ~Idle /\ Refuses /\ Return /\ clean' = FALSE /\ UNCHANGED told
      BY <1>9 DEF GatewayFails
    <2>2. Len(calls) = 1
      BY <1>0, <2>1, Innermost DEF Refuses
    <2> QED  BY <2>1, <2>2, LastAgrees
  <1>10. CASE HandoffCompletes \/ ReturnCompletes
    <2>1. /\ ~Idle /\ Current.left = << >> /\ Return /\ UNCHANGED <<told, clean>>
          /\ Current.op # "halt"
      BY <1>10 DEF HandoffCompletes, ReturnCompletes, Finished
    <2>2. Len(calls) = 1 /\ Current = calls[1]
      BY <1>0, <2>1, Innermost
    <2>3. state' = calls[1].target
      BY <1>10, <2>1, <2>2 DEF HandoffCompletes, ReturnCompletes, Finished, AgreeInv
    <2> QED  BY <2>1, <2>2, <2>3, LastAgrees
  <1>11. CASE HaltCompletes
    <2>1. ~Idle /\ Current.left = << >> /\ Current.op = "halt" /\ Return /\ UNCHANGED <<state, told, clean>>
      BY <1>11 DEF HaltCompletes, Finished
    <2>2. Len(calls) \in Nat \ {0} /\ Current = calls[Len(calls)]
      BY <1>0, <2>1, Innermost
    <2>3. CASE Len(calls) = 1
      <3>1. state = "emergency" /\ calls[1].target = "emergency"
        BY <1>0, <2>1, <2>2, <2>3 DEF StackInv, AgreeInv
      <3> QED  BY <2>1, <2>3, <3>1, LastAgrees
    <2>4. CASE Len(calls) # 1
      <3>1. clean' = FALSE
        <4>1. Len(calls) > 1
          <5>1. PICK k \in Nat \ {0} : k = Len(calls) /\ k # 1
            BY <2>2, <2>4
          <5>2. k > 1
            BY <5>1
          <5> QED  BY <5>1, <5>2
        <4> QED  BY <1>0, <2>1, <4>1 DEF AgreeInv, TypeOK
      <3>2. Len(calls') = Len(calls) - 1 /\ \A i \in 1 .. Len(calls') : calls'[i] = calls[i]
        BY <1>0, <2>1, ReturnPops
      <3>3. 1 \in 1 .. Len(calls')
        BY <2>2, <2>4, <3>2
      <3> QED  BY <2>1, <3>1, <3>2, <3>3 DEF AgreeInv, ComponentsAgree
    <2> QED  BY <2>3, <2>4
  <1>12. CASE UNCHANGED vars
    BY <1>1, <1>12 DEF vars
  <1> QED
    BY <1>2, <1>3, <1>4, <1>5, <1>6, <1>7, <1>8, <1>9, <1>10, <1>11, <1>12 DEF Next, Proceed

(* At the start all components are in AUTOMATED.                           *)
LEMMA AgreeInit == Init => AgreeInv
  <1> SUFFICES ASSUME Init PROVE AgreeInv
    OBVIOUS
  <1>1. Idle /\ Len(calls) = 0
    BY EmptySeq DEF Init, Idle
  <1>2. ComponentsAgree
    BY DEF Init, ComponentsAgree
  <1> QED  BY <1>1, <1>2 DEF AgreeInv

-----------------------------------------------------------------------------
(***************************************************************************)
(* The flattener.  While nothing disturbs it, a trigger runs alone; it has *)
(* still to cancel all that is open, then every position is as fetched or  *)
(* small.                                                                  *)
(***************************************************************************)
FlattenerTypeOK ==
    /\ open \subseteq Orders /\ placed \in Nat
    /\ position \in [Symbols -> Int]
    /\ undisturbed \in BOOLEAN
    /\ pc \in [Threads -> {"idle", "fetchOrders", "cancel", "close"}]
    /\ DOMAIN orders = Threads
    /\ held \in [Threads -> [Symbols -> Int]]
    /\ todo \in [Threads -> Seq(Symbols)]

(* The symbols that a thread has still to close, each once.                *)
Remaining(t) == {todo[t][i] : i \in 1 .. Len(todo[t])}
EachOnce(t) == \A i, j \in 1 .. Len(todo[t]) : i # j => todo[t][i] # todo[t][j]

(* What the only trigger that runs has achieved, if nothing disturbed it.  *)
FlattenerInv ==
    undisturbed =>
        /\ \A t \in Threads : pc[t] # "idle" => Alone(t) /\ phase # "completed"
        /\ \A t \in Threads : pc[t] = "cancel" => open \subseteq orders[t]
        /\ \A t \in Threads : pc[t] = "close" =>
              /\ open = {}
              /\ EachOnce(t)
              /\ \A s \in Symbols : IF s \in Remaining(t) THEN position[s] = held[t][s]
                                                          ELSE Small(position[s])
        /\ CleanFinishIsFlat

FlattenerIInv == FlattenerTypeOK /\ FlattenerInv

-----------------------------------------------------------------------------
(* The positions are closed in some order, each symbol once.               *)
LEMMA Permuted ==
    ASSUME NEW s \in SetToSeqs(Symbols)
    PROVE  /\ s \in Seq(Symbols)
           /\ \A i, j \in 1 .. Len(s) : i # j => s[i] # s[j]
           /\ {s[i] : i \in 1 .. Len(s)} = Symbols
  <1> DEFINE n == Cardinality(Symbols)
             D == 1 .. n
  <1>1. n \in Nat /\ IsFiniteSet(Symbols)
    BY FlattenerAssumption, FS_CardinalityType
  <1>2. s \in [D -> Symbols] /\ \A i, j \in D : i # j => s[i] # s[j]
    BY DEF SetToSeqs
  <1>3. s \in Seq(Symbols) /\ Len(s) = n
    <2> HIDE DEF n
    <2>1. s \in Seq(Symbols)
      BY <1>1, <1>2
    <2>2. DOMAIN s = 1 .. n
      BY <1>2
    <2>3. Len(s) = n
      BY <1>1, <2>1, <2>2, LenProperties
    <2> QED  BY <2>1, <2>3
  <1>4. s \in Injection(D, Symbols)
    BY <1>2 DEF Injection, IsInjective
  <1>5. IsFiniteSet(D) /\ Cardinality(D) = n
    <2> HIDE DEF n
    <2>1. IsFiniteSet(1 .. n) /\ Cardinality(1 .. n) = n
      <3>1. Cardinality(1 .. n) = IF 1 > n THEN 0 ELSE n - 1 + 1
        BY <1>1, FS_Interval
      <3> QED  BY <1>1, <3>1, FS_Interval
    <2> QED  BY <2>1
  <1>6. s \in Surjection(D, Symbols)
    <2> HIDE DEF D
    <2> QED  BY <1>1, <1>4, <1>5, FS_Injection
  <1>7. \A x \in Symbols : \E i \in D : s[i] = x
    BY <1>6 DEF Surjection
  <1> QED  BY <1>2, <1>3, <1>7

(* A position done: the others remain.                                     *)
LEMMA Advanced ==
    ASSUME FlattenerTypeOK, NEW t \in Threads, Closing(t), Advance(t)
    PROVE  /\ todo' \in [Threads -> Seq(Symbols)]
           /\ Head(todo[t]) \in Remaining(t) /\ Head(todo[t]) \in Symbols
           /\ EachOnce(t) => /\ EachOnce(t)'
                             /\ Remaining(t)' = Remaining(t) \ {Head(todo[t])}
  <1>1. todo[t] \in Seq(Symbols) /\ todo[t] # << >>
    BY DEF FlattenerTypeOK, Closing
  <1>2. PICK n \in Nat \ {0} : n = Len(todo[t])
    BY <1>1, EmptySeq
  <1>3. PICK rest \in Seq(Symbols) :
          rest = Tail(todo[t]) /\ Len(rest) = n - 1 /\ \A i \in 1 .. n - 1 : rest[i] = todo[t][i + 1]
    <2>1. Tail(todo[t]) \in Seq(Symbols) /\ Len(Tail(todo[t])) = n - 1
      BY <1>1, <1>2, HeadTailProperties
    <2>2. \A i \in 1 .. Len(Tail(todo[t])) : Tail(todo[t])[i] = todo[t][i + 1]
      BY <1>1, HeadTailProperties
    <2> QED  BY <2>1, <2>2
  <1>4. todo' \in [Threads -> Seq(Symbols)] /\ todo'[t] = rest
    BY <1>3 DEF Advance, FlattenerTypeOK
  <1>5. Head(todo[t]) = todo[t][1] /\ 1 \in 1 .. n /\ Head(todo[t]) \in Symbols
    BY <1>1, <1>2
  <1>6. ASSUME EachOnce(t) PROVE EachOnce(t)'
    <2>1. \A i, j \in 1 .. n - 1 : i # j => rest[i] # rest[j]
      BY <1>2, <1>3, <1>6 DEF EachOnce
    <2> QED  BY <1>3, <1>4, <2>1 DEF EachOnce
  <1>7. ASSUME EachOnce(t) PROVE Remaining(t)' = Remaining(t) \ {Head(todo[t])}
    <2>1. Remaining(t)' = {rest[i] : i \in 1 .. n - 1}
      BY <1>3, <1>4 DEF Remaining
    <2>2. ASSUME NEW i \in 1 .. n - 1
          PROVE  rest[i] \in Remaining(t) /\ rest[i] # todo[t][1]
      <3>1. i + 1 \in 1 .. n /\ i + 1 # 1 /\ 1 \in 1 .. n /\ rest[i] = todo[t][i + 1]
        BY <1>2, <1>3
      <3>2. todo[t][i + 1] # todo[t][1]
        BY <1>2, <1>7, <3>1 DEF EachOnce
      <3> QED  BY <1>2, <3>1, <3>2 DEF Remaining
    <2>3. ASSUME NEW i \in 1 .. n, todo[t][i] # todo[t][1]
          PROVE  \E j \in 1 .. n - 1 : rest[j] = todo[t][i]
      <3>1. i # 1
        BY <2>3
      <3>2. i - 1 \in 1 .. n - 1 /\ (i - 1) + 1 = i
        BY <1>2, <3>1
      <3> QED  BY <1>3, <3>2
    <2>4. Remaining(t) = {todo[t][i] : i \in 1 .. n}
      BY <1>2 DEF Remaining
    <2>5. \A x : x \in Remaining(t)' => x \in Remaining(t) /\ x # todo[t][1]
      BY <2>1, <2>2
    <2>6. \A x : x \in Remaining(t) /\ x # todo[t][1] => x \in Remaining(t)'
      BY <2>1, <2>3, <2>4
    <2> QED  BY <1>5, <2>5, <2>6
  <1>8. Head(todo[t]) \in Remaining(t)
    BY <1>2, <1>5 DEF Remaining
  <1> QED  BY <1>4, <1>5, <1>6, <1>7, <1>8

(* The flattener starts disarmed of any promise.                           *)
LEMMA FlattenerInitInv == FlattenerInit => FlattenerIInv
  <1> SUFFICES ASSUME FlattenerInit PROVE FlattenerIInv
    OBVIOUS
  <1>1. << >> \in Seq(Symbols)
    OBVIOUS
  <1>2. FlattenerTypeOK
    <2>1. [s \in Symbols |-> 0] \in [Symbols -> Int]
      OBVIOUS
    <2>2. held \in [Threads -> [Symbols -> Int]]
      BY <2>1 DEF FlattenerInit
    <2>3. position \in [Symbols -> Int] /\ open \subseteq Orders /\ placed \in Nat
      BY <2>1 DEF FlattenerInit
    <2>4. /\ pc \in [Threads -> {"idle", "fetchOrders", "cancel", "close"}]
          /\ todo \in [Threads -> Seq(Symbols)]
          /\ DOMAIN orders = Threads
      BY <1>1 DEF FlattenerInit
    <2>5. undisturbed \in BOOLEAN
      BY DEF FlattenerInit
    <2> QED  BY <2>2, <2>3, <2>4, <2>5 DEF FlattenerTypeOK
  <1> QED  BY <1>2 DEF FlattenerInit, FlattenerIInv, FlattenerInv

(* Every step of the flattener, its callers and the exchange keeps it.     *)
LEMMA FlattenerStep == FlattenerIInv /\ [FlattenerNext]_flattenerVars => FlattenerIInv'
  <1> SUFFICES ASSUME FlattenerIInv, [FlattenerNext]_flattenerVars PROVE FlattenerIInv'
    OBVIOUS
  <1>t. FlattenerTypeOK /\ FlattenerInv
    BY DEF FlattenerIInv
  <1> USE DEF exchange, control, local
  <1>0. ASSUME UNCHANGED <<open, placed, position, pc, orders, held, todo, undisturbed>>,
               phase' = phase \/ phase' = "idle"
        PROVE  FlattenerIInv'
    <2>1. \A t : Alone(t)' = Alone(t) /\ EachOnce(t)' = EachOnce(t) /\ Remaining(t)' = Remaining(t)
      BY <1>0 DEF Alone, EachOnce, Remaining
    <2> QED  BY <1>t, <1>0, <2>1 DEF FlattenerIInv, FlattenerTypeOK, FlattenerInv, CleanFinishIsFlat
  <1>1. CASE Place
    <2>1. open' \subseteq Orders /\ placed' \in Nat
      BY <1>t, <1>1, FlattenerAssumption DEF Place, FlattenerTypeOK, Orders
    <2> QED  BY <1>t, <1>1, <2>1 DEF Place, FlattenerIInv, FlattenerTypeOK, FlattenerInv
  <1>2. CASE Fill
    <2>1. PICK o \in open : /\ open' = open \ {o}
                            /\ position' = [position EXCEPT ![o.symbol] = @ + o.side]
      BY <1>2 DEF Fill
    <2>2. UNCHANGED <<placed, faults, phase, armed, active, triggers, pc, orders, held, todo,
                      attempts, undisturbed>>
      BY <1>2 DEF Fill
    <2>3. position' \in [Symbols -> Int]
      <3>1. o.symbol \in Symbols /\ o.side \in Int
        BY <1>t DEF FlattenerTypeOK, Orders
      <3>2. position[o.symbol] + o.side \in Int
        BY <1>t, <3>1 DEF FlattenerTypeOK
      <3> QED  BY <1>t, <2>1, <3>2 DEF FlattenerTypeOK
    <2>4. FlattenerInv'
      BY <1>t, <2>1, <2>2 DEF FlattenerInv, CleanFinishIsFlat, Alone
    <2>5. open' \subseteq Orders
      BY <1>t, <2>1 DEF FlattenerTypeOK
    <2>6. FlattenerTypeOK'
      BY <1>t, <2>2, <2>3, <2>5 DEF FlattenerTypeOK
    <2> QED  BY <2>4, <2>6 DEF FlattenerIInv
  <1>3. CASE SetArmed \/ SetActive \/ Reset
    BY <1>0, <1>3 DEF SetArmed, SetActive, Reset
  <1>5. ASSUME NEW t \in Threads, Trigger(t) PROVE FlattenerIInv'
    BY <1>t, <1>5 DEF Trigger, Goto, FlattenerIInv, FlattenerTypeOK, FlattenerInv, Alone,
                      CleanFinishIsFlat
  <1>6. ASSUME NEW t \in Threads, FetchOrders(t) PROVE FlattenerIInv'
    BY <1>t, <1>6 DEF FetchOrders, Goto, FlattenerIInv, FlattenerTypeOK, FlattenerInv, Alone,
                      CleanFinishIsFlat
  <1>7. ASSUME NEW t \in Threads, FetchOrdersFails(t) \/ FetchPositionsFails(t)
        PROVE  FlattenerIInv'
    BY <1>t, <1>7 DEF FetchOrdersFails, FetchPositionsFails, Goto, FlattenerIInv, FlattenerTypeOK,
                      FlattenerInv
  <1>8. ASSUME NEW t \in Threads, CancelOne(t) PROVE FlattenerIInv'
    <2>1. PICK o \in orders[t] :
            /\ orders' = [orders EXCEPT ![t] = @ \ {o}]
            /\ \/ open' = open \ {o} /\ undisturbed' = undisturbed
               \/ undisturbed' = FALSE /\ open' = open
      BY <1>8 DEF CancelOne
    <2>2. pc[t] = "cancel" /\ UNCHANGED <<position, placed, phase, pc, held, todo>>
      BY <1>8 DEF CancelOne
    <2>3. FlattenerTypeOK'
      BY <1>t, <2>1, <2>2 DEF FlattenerTypeOK
    <2>4. ASSUME undisturbed'
          PROVE  /\ undisturbed /\ Alone(t) /\ phase # "completed" /\ open \subseteq orders[t]
                 /\ open' = open \ {o} /\ orders'[t] = orders[t] \ {o}
      BY <1>t, <2>1, <2>2, <2>4 DEF FlattenerInv, FlattenerTypeOK
    <2>5. ASSUME undisturbed', NEW u \in Threads, u # t PROVE pc[u] = "idle"
      BY <2>4, <2>5 DEF Alone
    <2>6. undisturbed' => open' \subseteq orders'[t]
      BY <2>4
    <2>7. FlattenerInv'
      BY <2>2, <2>4, <2>5, <2>6 DEF FlattenerInv, Alone, CleanFinishIsFlat
    <2> QED  BY <2>3, <2>7 DEF FlattenerIInv
  <1>9. ASSUME NEW t \in Threads, FetchPositions(t) PROVE FlattenerIInv'
    <2>1. PICK s \in SetToSeqs(Symbols) : todo' = [todo EXCEPT ![t] = s]
      BY <1>9 DEF FetchPositions
    <2>2. /\ pc[t] = "cancel" /\ orders[t] = {} /\ phase' = "closing"
          /\ held' = [held EXCEPT ![t] = position] /\ pc' = [pc EXCEPT ![t] = "close"]
          /\ UNCHANGED <<open, position, placed, faults, armed, active, triggers, orders,
                         attempts, undisturbed>>
      BY <1>9 DEF FetchPositions, Goto
    <2>3. FlattenerTypeOK'
      BY <1>t, <2>1, <2>2, Permuted DEF FlattenerTypeOK
    <2>4. EachOnce(t)' /\ Remaining(t)' = Symbols
      <3>1. todo'[t] = s
        BY <1>t, <2>1 DEF FlattenerTypeOK
      <3>2. /\ \A i, j \in 1 .. Len(s) : i # j => s[i] # s[j]
            /\ {s[i] : i \in 1 .. Len(s)} = Symbols
        BY Permuted
      <3>3. {todo'[t][i] : i \in 1 .. Len(todo'[t])} = Symbols
        BY <3>1, <3>2
      <3> QED  BY <3>1, <3>2, <3>3 DEF EachOnce, Remaining
    <2>5. ASSUME undisturbed' PROVE Alone(t) /\ open = {} /\ phase' # "completed"
      BY <1>t, <2>2, <2>5 DEF FlattenerInv
    <2>6. held'[t] = position' /\ pc'[t] = "close"
      BY <1>t, <2>2 DEF FlattenerTypeOK
    <2>7. \A u \in Threads \ {t} : pc'[u] = pc[u]
      BY <1>t, <2>2 DEF FlattenerTypeOK
    <2>8. FlattenerInv'
      BY <2>2, <2>4, <2>5, <2>6, <2>7 DEF FlattenerInv, Alone, CleanFinishIsFlat
    <2> QED  BY <2>3, <2>8 DEF FlattenerIInv
  <1>10. ASSUME NEW t \in Threads, Skip(t) \/ Submit(t) PROVE FlattenerIInv'
    <2> DEFINE s == Head(todo[t])
    <2>1. Closing(t) /\ Advance(t) /\ pc[t] = "close"
      BY <1>10 DEF Skip, Submit, Attempt, Closing
    <2>2. UNCHANGED <<open, placed, faults, phase, armed, active, triggers, pc, orders, held,
                      undisturbed>>
      BY <1>10 DEF Skip, Submit
    <2>3. /\ todo' \in [Threads -> Seq(Symbols)] /\ s \in Remaining(t) /\ s \in Symbols
          /\ EachOnce(t) => EachOnce(t)' /\ Remaining(t)' = Remaining(t) \ {s}
      BY <1>t, <2>1, Advanced
    <2> HIDE DEF s
    <2>4. held[t][s] \in Int /\ position[s] \in Int
      BY <1>t, <2>3 DEF FlattenerTypeOK
    <2>5. \/ position' = position /\ Small(held[t][s])
          \/ position' = [position EXCEPT ![s] = @ - held[t][s]]
      BY <1>10 DEF Skip, Submit, Executed, Quantity, s
    <2>6. position' \in [Symbols -> Int]
      BY <1>t, <2>4, <2>5 DEF FlattenerTypeOK
    <2>7. \A u \in Symbols : u # s => position'[u] = position[u]
      BY <1>t, <2>5 DEF FlattenerTypeOK
    <2>8. position[s] = held[t][s] => Small(position'[s])
      <3>1. CASE position' = position /\ Small(held[t][s])
        BY <3>1
      <3>2. CASE position' = [position EXCEPT ![s] = @ - held[t][s]]
        <4>1. position'[s] = position[s] - held[t][s]
          BY <1>t, <2>3, <3>2 DEF FlattenerTypeOK
        <4> QED  BY <2>4, <4>1 DEF Small
      <3> QED  BY <2>5, <3>1, <3>2
    <2>9. ASSUME undisturbed
          PROVE  /\ Alone(t) /\ phase # "completed" /\ open = {} /\ EachOnce(t)
                 /\ \A u \in Symbols : IF u \in Remaining(t) THEN position[u] = held[t][u]
                                                             ELSE Small(position[u])
      BY <1>t, <2>1, <2>9 DEF FlattenerInv
    <2>10. FlattenerInv'
      <3> SUFFICES ASSUME undisturbed PROVE FlattenerInv'
        BY <2>2 DEF FlattenerInv
      <3>1. EachOnce(t)' /\ Remaining(t)' = Remaining(t) \ {s}
        BY <2>3, <2>9
      <3>2. \A u \in Symbols : IF u \in Remaining(t)' THEN position'[u] = held'[t][u]
                                                      ELSE Small(position'[u])
        BY <2>2, <2>3, <2>7, <2>8, <2>9, <3>1
      <3> QED  BY <2>1, <2>2, <2>9, <3>1, <3>2 DEF FlattenerInv, Alone, CleanFinishIsFlat
    <2> QED  BY <1>t, <2>2, <2>3, <2>6, <2>10 DEF FlattenerIInv, FlattenerTypeOK
  <1>11. ASSUME NEW t \in Threads, SubmitFails(t) PROVE FlattenerIInv'
    <2>1. Closing(t) /\ UNCHANGED <<open, placed, phase, armed, active, triggers, pc, orders, held, todo>>
      BY <1>11 DEF SubmitFails, Attempt
    <2>2. \/ UNCHANGED <<position, undisturbed>>
          \/ position' = Executed(t) /\ undisturbed' = FALSE
      BY <1>11 DEF SubmitFails
    <2>3. Head(todo[t]) \in Symbols
      BY <1>t, <2>1, HeadTailProperties DEF Closing, FlattenerTypeOK
    <2>4. Executed(t) \in [Symbols -> Int]
      BY <1>t, <2>3 DEF Executed, Quantity, FlattenerTypeOK
    <2>5. FlattenerTypeOK'
      BY <1>t, <2>1, <2>2, <2>4 DEF FlattenerTypeOK
    <2> QED  BY <1>t, <2>1, <2>2, <2>5 DEF FlattenerIInv, FlattenerInv, Alone, Remaining, EachOnce,
                                          CleanFinishIsFlat
  <1>12. ASSUME NEW t \in Threads, GiveUp(t) PROVE FlattenerIInv'
    <2>1. Closing(t) /\ Advance(t) /\ undisturbed' = FALSE
      BY <1>12 DEF GiveUp
    <2>2. todo' \in [Threads -> Seq(Symbols)]
      BY <1>t, <2>1, Advanced
    <2> QED  BY <1>t, <1>12, <2>1, <2>2 DEF GiveUp, FlattenerIInv, FlattenerTypeOK, FlattenerInv
  <1>13. ASSUME NEW t \in Threads, Complete(t) PROVE FlattenerIInv'
    <2>1. /\ pc[t] = "close" /\ todo[t] = << >> /\ phase' = "completed"
          /\ held' = [held EXCEPT ![t] = [s \in Symbols |-> 0]] /\ pc' = [pc EXCEPT ![t] = "idle"]
          /\ UNCHANGED <<open, position, orders, todo, undisturbed>>
      BY <1>13 DEF Complete, Goto
    <2>2. FlattenerTypeOK'
      <3>1. [s \in Symbols |-> 0] \in [Symbols -> Int]
        OBVIOUS
      <3>2. held' \in [Threads -> [Symbols -> Int]]
        BY <1>t, <2>1, <3>1 DEF FlattenerTypeOK
      <3>3. placed' = placed
        BY <1>13 DEF Complete
      <3> QED  BY <1>t, <2>1, <3>2, <3>3 DEF FlattenerTypeOK
    <2>3. Remaining(t) = {}
      BY <2>1, EmptySeq DEF Remaining
    <2>4. ASSUME undisturbed
          PROVE  Alone(t) /\ open = {} /\ \A s \in Symbols : Small(position[s])
      BY <1>t, <2>1, <2>3, <2>4 DEF FlattenerInv
    <2>5. \A u \in Threads : undisturbed => pc'[u] = "idle"
      BY <1>t, <2>1, <2>4 DEF FlattenerTypeOK, Alone
    <2>6. FlattenerInv'
      BY <2>1, <2>4, <2>5 DEF FlattenerInv, CleanFinishIsFlat
    <2> QED  BY <2>2, <2>6 DEF FlattenerIInv
  <1>14. CASE UNCHANGED flattenerVars
    BY <1>0, <1>14 DEF flattenerVars
  <1> QED
    BY <1>1, <1>2, <1>3, <1>5, <1>6, <1>7, <1>8, <1>9, <1>10, <1>11, <1>12, <1>13, <1>14
    DEF FlattenerNext, Flatten

(* A close order that something undisturbed sends takes its position to 0. *)
LEMMA CloseLands ==
    ASSUME FlattenerIInv, [FlattenerNext]_flattenerVars, undisturbed', open' = open,
           NEW s \in Symbols, position'[s] # position[s]
    PROVE  position'[s] = 0
  <1>t. FlattenerTypeOK /\ FlattenerInv
    BY DEF FlattenerIInv
  <1>1. CASE Fill
    <2>1. FALSE
      BY <1>1 DEF Fill
    <2> QED  BY <2>1
  <1>2. ASSUME NEW t \in Threads, Submit(t) PROVE position'[s] = 0
    <2>1. Closing(t) /\ pc[t] = "close" /\ undisturbed
      BY <1>2 DEF Submit, Attempt, Closing
    <2>2. Advance(t) /\ position' = Executed(t)
      BY <1>2 DEF Submit
    <2>3. Head(todo[t]) \in Remaining(t) /\ Head(todo[t]) \in Symbols
      BY <1>t, <2>1, <2>2, Advanced
    <2>4. s = Head(todo[t])
      BY <1>t, <2>2, <2>3 DEF Executed, FlattenerTypeOK
    <2>5. position[s] = held[t][s] /\ position[s] \in Int
      BY <1>t, <2>1, <2>3, <2>4 DEF FlattenerInv, FlattenerTypeOK
    <2>6. position'[s] = position[s] - held[t][s]
      BY <1>t, <2>2, <2>3, <2>4 DEF Executed, Quantity, FlattenerTypeOK
    <2> QED  BY <2>5, <2>6
  <1>3. ASSUME NEW t \in Threads, SubmitFails(t) PROVE position'[s] = 0
    BY <1>3 DEF SubmitFails
  <1>4. ASSUME UNCHANGED position PROVE position'[s] = 0
    BY <1>4
  <1>5. ASSUME NEW t \in Threads, Flatten(t) PROVE position'[s] = 0
    <2>1. \/ Submit(t) \/ SubmitFails(t) \/ UNCHANGED position
      BY <1>5 DEF Flatten, FetchOrders, FetchOrdersFails, CancelOne, FetchPositions,
                  FetchPositionsFails, Skip, GiveUp, Complete, exchange
    <2> QED  BY <1>2, <1>3, <1>4, <2>1
  <1>6. CASE Place \/ SetArmed \/ SetActive \/ Reset
    BY <1>4, <1>6 DEF Place, SetArmed, SetActive, Reset, exchange
  <1>7. ASSUME NEW t \in Threads, Trigger(t) PROVE position'[s] = 0
    BY <1>4, <1>7 DEF Trigger, exchange
  <1>8. CASE UNCHANGED flattenerVars
    BY <1>4, <1>8 DEF flattenerVars, exchange
  <1> QED  BY <1>1, <1>5, <1>6, <1>7, <1>8 DEF FlattenerNext

-----------------------------------------------------------------------------
(***************************************************************************)
(* The graceful shutdown.  A phase that has ended without a failure leaves *)
(* behind what it is there for.                                            *)
(***************************************************************************)
Phases == {"none", "canceling", "flattening", "flushing", "stopping", "teardown", "completed"}

ShutdownTypeOK ==
    /\ shutdown \in [phase : Phases, by : {"nobody", "signal", "ui_kill"}]
    /\ callback \in {"called", "acted"}
    /\ shutdown.phase = "none" => callback = "called"
    /\ failed \subseteq Phases
    /\ openOrders \in Nat /\ changes \in Nat /\ saved \in Nat
    /\ exposed \in BOOLEAN /\ strategiesUp \in BOOLEAN /\ rayUp \in BOOLEAN /\ late \in BOOLEAN

(* The callback of a phase has acted, in it or before a later one.         *)
Did(phase_, later) ==
    shutdown.phase \in later \/ (shutdown.phase = phase_ /\ callback = "acted")

ShutdownInv ==
    failed = {} =>
        /\ Did("stopping", {"teardown", "completed"}) => ~strategiesUp
        /\ Did("teardown", {"completed"}) => ~rayUp
        /\ ~late =>
              /\ Did("canceling", Phases \ {"none", "canceling"}) => openOrders = 0
              /\ Did("flattening", {"flushing", "stopping", "teardown", "completed"})
                    /\ shutdown.by = "ui_kill" => ~exposed
              /\ Did("flushing", {"stopping", "teardown", "completed"}) => saved = changes

ShutdownIInv == ShutdownTypeOK /\ ShutdownInv

(* Before the first request no phase has done anything.                    *)
LEMMA ShutdownInitInv == ShutdownInit => ShutdownIInv
  <1> SUFFICES ASSUME ShutdownInit PROVE ShutdownIInv
    OBVIOUS
  <1>1. ShutdownTypeOK
    BY DEF ShutdownInit, ShutdownTypeOK, Phases
  <1>2. shutdown.phase = "none"
    BY DEF ShutdownInit
  <1> QED  BY <1>1, <1>2 DEF ShutdownIInv, ShutdownInv, Did, Phases

(* Every step of the phases and of the trading keeps the invariant.        *)
LEMMA ShutdownStep == ShutdownIInv /\ [ShutdownNext]_shutdownVars => ShutdownIInv'
  <1> SUFFICES ASSUME ShutdownIInv, [ShutdownNext]_shutdownVars PROVE ShutdownIInv'
    OBVIOUS
  <1> USE DEF ShutdownIInv, ShutdownTypeOK, ShutdownInv, Did, Phases, tradingVars
  <1>1. ASSUME NEW by \in {"signal", "ui_kill"}, InitiateShutdown(by) PROVE ShutdownIInv'
    <2>1. shutdown'.phase = "canceling" /\ shutdown'.by = by /\ shutdown' \in [phase : Phases, by : {"nobody", "signal", "ui_kill"}]
      BY <1>1 DEF InitiateShutdown
    <2> QED  BY <1>1, <2>1 DEF InitiateShutdown
  <1>2. CASE CallbackActs
    BY <1>2 DEF CallbackActs, Busy
  <1>3. CASE EndPhase
    <2>1. /\ shutdown'.phase = PhaseAfter(shutdown.phase) /\ shutdown'.by = shutdown.by
          /\ shutdown' = [phase |-> PhaseAfter(shutdown.phase), by |-> shutdown.by]
      BY <1>3 DEF EndPhase
    <2>2. ShutdownTypeOK'
      BY <1>3, <2>1 DEF EndPhase, Busy, PhaseAfter
    <2>3. failed' = {} => failed = {} /\ callback = "acted"
      BY <1>3 DEF EndPhase
    <2>4. ShutdownInv'
      BY <1>3, <2>1, <2>3 DEF EndPhase, Busy, PhaseAfter
    <2> QED BY <2>2, <2>4
  <1>4. CASE PlaceOrder
    <2>1. ShutdownTypeOK'
      BY <1>4 DEF PlaceOrder
    <2>2. failed = {} /\ Did("canceling", Phases \ {"none", "canceling"}) => late'
      BY <1>4 DEF PlaceOrder, Cancelled, Busy
    <2> QED  BY <1>4, <2>1, <2>2 DEF PlaceOrder
  <1>5. CASE OrderFills
    BY <1>5 DEF OrderFills
  <1>6. CASE UNCHANGED shutdownVars
    BY <1>6 DEF shutdownVars
  <1> QED  BY <1>1, <1>2, <1>3, <1>4, <1>5, <1>6 DEF ShutdownNext

-----------------------------------------------------------------------------
(***************************************************************************)
(* The composition: a step of OperationSpec is a step of each part or      *)
(* leaves its variables alone.                                             *)
(***************************************************************************)
LEMMA OperationInitParts == OperationInit => Init /\ FlattenerInit /\ ShutdownInit
  BY DEF OperationInit

(* A step of the composition is a step of each, or none.                   *)
LEMMA OperationStepParts ==
    [OperationNext]_operationVars =>
        [Next]_vars /\ [FlattenerNext]_flattenerVars /\ [ShutdownNext]_shutdownVars
  BY DEF operationVars, OperationNext, Handing, Flattening, ShuttingDown

(* What is invariant of the handoff in the composition.                    *)
LEMMA HandoffInvariant == OperationSpec => [](IInv /\ AgreeInv)
  <1>1. OperationInit => IInv /\ AgreeInv
    BY OperationInitParts, InitInv, AgreeInit
  <1>2. IInv /\ AgreeInv /\ [OperationNext]_operationVars => IInv' /\ AgreeInv'
    BY OperationStepParts, StepInv, AgreeStep
  <1> QED  BY <1>1, <1>2, PTL DEF OperationSpec

(* Modes, sessions and calls are what their types say, for every number of *)
(* operators and every depth of nesting (manual_override_handoff.py).      *)
THEOREM HandoffTypeCorrect == OperationSpec => []TypeOK
  <1>1. IInv => TypeOK
    BY DEF IInv
  <1> QED  BY <1>1, HandoffInvariant, PTL

(* While the state is MANUAL between two calls, an operator has a session, *)
(* and the order gateway is in manual mode, a halt is in force, or the     *)
(* gateway answered the last handoff or return with False and was taken at *)
(* its word, whatever exceptions and nested halts came before, for any     *)
(* operators and any depth of nesting (manual_override_handoff.py).        *)
THEOREM ManualStaysHeld == OperationSpec => []ManualIsHeld
  <1>1. IInv => ManualIsHeld
    BY DEF IInv
  <1> QED  BY <1>1, HandoffInvariant, PTL

(* After a call in which every callback did as told, the components        *)
(* it visits are in the mode of the controller, whatever the calls before  *)
(* it did (manual_override_handoff.py).                                    *)
THEOREM ComponentsFollow == OperationSpec => []ComponentsAgree
  <1>1. AgreeInv => ComponentsAgree
    BY DEF AgreeInv
  <1> QED  BY <1>1, HandoffInvariant, PTL

(* A trigger that completed undisturbed leaves nothing open and no         *)
(* position that is not small, for any number of threads, symbols and      *)
(* retries (emergency_flattener.rs).                                       *)
THEOREM TriggerFlattens == OperationSpec => []CleanFinishIsFlat
  <1>1. OperationInit => FlattenerIInv
    BY OperationInitParts, FlattenerInitInv
  <1>2. FlattenerIInv /\ [OperationNext]_operationVars => FlattenerIInv'
    BY OperationStepParts, FlattenerStep
  <1>3. FlattenerIInv => CleanFinishIsFlat
    BY DEF FlattenerIInv, FlattenerInv, CleanFinishIsFlat
  <1> QED  BY <1>1, <1>2, <1>3, PTL DEF OperationSpec

(* A close order takes its position to zero, although the quantity was     *)
(* fetched earlier, unless something disturbed the trigger                 *)
(* (emergency_flattener.rs).                                               *)
THEOREM ClosesLandAtZero == OperationSpec => CloseLandsAtZero
  <1> DEFINE Lands ==
        undisturbed' /\ open' = open =>
            \A s \in Symbols : position'[s] # position[s] => position'[s] = 0
  <1>1. OperationInit => FlattenerIInv
    BY OperationInitParts, FlattenerInitInv
  <1>2. FlattenerIInv /\ [OperationNext]_operationVars => FlattenerIInv'
    BY OperationStepParts, FlattenerStep
  <1>3. FlattenerIInv /\ [OperationNext]_operationVars => [Lands]_flattenerVars
    BY OperationStepParts, CloseLands
  <1>4. OperationSpec => [][Lands]_flattenerVars
    BY <1>1, <1>2, <1>3, PTL DEF OperationSpec
  <1> QED  BY <1>4 DEF CloseLandsAtZero

(* A shutdown in which no callback failed leaves the strategies and Ray    *)
(* down and, if no order came late, no order open and every change saved   *)
(* (backend_graceful_shutdown.py).                                         *)
THEOREM CompletionIsClean == OperationSpec => []CompletedIsClean
  <1>1. OperationInit => ShutdownIInv
    BY OperationInitParts, ShutdownInitInv
  <1>2. ShutdownIInv /\ [OperationNext]_operationVars => ShutdownIInv'
    BY OperationStepParts, ShutdownStep
  <1>3. ShutdownIInv => CompletedIsClean
    BY DEF ShutdownIInv, ShutdownTypeOK, ShutdownInv, Did, Phases, CompletedIsClean
  <1> QED  BY <1>1, <1>2, <1>3, PTL DEF OperationSpec
=============================================================================
