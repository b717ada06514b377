-------------------------- MODULE ConstantProduct ---------------------------
(***************************************************************************)
(* ConstantProductAmm of crates/defi/src/amm_math.rs, which prices swaps   *)
(* against a pool that holds x of the token paid in and y of the one paid  *)
(* out.  All amounts are u128, and the build that trades does not check    *)
(* for overflow.                                                           *)
(***************************************************************************)
EXTENDS Integers, TLAPS

CONSTANT Limit      \* 2^128

Basis == 10000      \* fees are in parts of 10000
NoAmount == -1      \* None

Wrapped(n) == n % Limit

(* get_amount_out: what the pool pays for `paid`.                          *)
AmountOut(paid, x, y, fee) ==
    LET withFee == Wrapped(paid * (Basis - fee))
        denominator == Wrapped(Wrapped(x * Basis) + withFee)
    IN IF paid = 0 \/ x = 0 \/ y = 0 \/ denominator = 0
         THEN NoAmount
         ELSE Wrapped(withFee * y) \div denominator

(* get_amount_in: what has to be paid to get `wanted`.                     *)
AmountIn(wanted, x, y, fee) ==
    LET denominator == Wrapped((y - wanted) * (Basis - fee))
    IN IF wanted = 0 \/ x = 0 \/ y = 0 \/ wanted >= y \/ denominator = 0
         THEN NoAmount
         ELSE Wrapped(Wrapped(Wrapped(x * wanted) * Basis) \div denominator + 1)

(* The amounts at which no product overflows.                              *)
OutFits(paid, x, y, fee) ==
    /\ x * Basis + paid * (Basis - fee) < Limit
    /\ paid * (Basis - fee) * y < Limit
InFits(wanted, x, y, fee) ==
    /\ x * wanted * Basis + 1 < Limit
    /\ (y - wanted) * (Basis - fee) < Limit

-----------------------------------------------------------------------------
(* Taking the remainder of a number below the limit changes nothing.       *)
LEMMA WrappedSmall ==
    ASSUME Limit \in Nat, NEW n \in Nat, n < Limit
    PROVE  Wrapped(n) = n
BY SMT DEF Wrapped

(* Integer division rounds down.                                           *)
LEMMA Division ==
    ASSUME NEW a \in Nat, NEW b \in Nat \ {0}
    PROVE  /\ a \div b \in Nat
           /\ (a \div b) * b <= a
           /\ a < (a \div b) * b + b
BY SMT

(* Products keep the order.                                                *)
LEMMA Monotone ==
    ASSUME NEW a \in Nat, NEW b \in Nat, NEW c \in Nat, a <= b
    PROVE  a * c <= b * c
BY SMT

(* A positive factor cancels.                                              *)
LEMMA Cancel ==
    ASSUME NEW a \in Nat, NEW b \in Nat, NEW c \in Nat \ {0}, a * c <= b * c
    PROVE  a <= b
BY SMT

(* A strict comparison cancels any factor.                                 *)
LEMMA CancelStrict ==
    ASSUME NEW a \in Nat, NEW b \in Nat, NEW c \in Nat, a * c < b * c
    PROVE  a < b
BY SMT

-----------------------------------------------------------------------------
(* The value of get_amount_out where nothing overflows: no more than the   *)
(* pool's exact price, and less than it holds.                             *)
LEMMA OutRoundsDown ==
    ASSUME Limit \in Nat,
           NEW paid \in Nat \ {0}, NEW x \in Nat \ {0}, NEW y \in Nat \ {0},
           NEW fee \in 0 .. Basis, OutFits(paid, x, y, fee)
    PROVE  LET charged == paid * (Basis - fee)
               total == x * Basis + charged
               out == AmountOut(paid, x, y, fee)
           IN /\ charged \in Nat /\ total \in Nat \ {0}
              /\ out \in Nat /\ out < y
              /\ out * total <= charged * y
              /\ charged * y < out * total + total
<1> DEFINE charged == paid * (Basis - fee)
           total == x * Basis + charged
           out == (charged * y) \div total
<1>1. charged \in Nat /\ x * Basis \in Nat \ {0} /\ total \in Nat \ {0} /\ charged * y \in Nat
  <2>1. Basis \in Nat \ {0} /\ Basis - fee \in Nat
    BY SMT DEF Basis
  <2>2. charged \in Nat /\ x * Basis \in Nat \ {0}
    BY <2>1, SMT
  <2> HIDE DEF charged
  <2>3. charged * y \in Nat
    BY <2>2, SMT
  <2> QED
    BY <2>2, <2>3, SMT
<1>2. charged < Limit /\ x * Basis < Limit /\ total < Limit /\ charged * y < Limit
  BY <1>1, SMT DEF OutFits
<1>3. AmountOut(paid, x, y, fee) = out
  <2>1. /\ Wrapped(charged) = charged /\ Wrapped(x * Basis) = x * Basis
        /\ Wrapped(total) = total /\ Wrapped(charged * y) = charged * y
    BY <1>1, <1>2, WrappedSmall
  <2> QED
    BY <2>1, <1>1 DEF AmountOut
<1>4. out \in Nat /\ out * total <= charged * y /\ charged * y < out * total + total
  BY <1>1, Division
<1>5. out < y
  <2>1. charged * y < total * y
    <3> HIDE DEF charged
    <3> QED  BY <1>1, SMT DEF Basis
  <2>2. out * total < y * total
    <3> HIDE DEF charged, total, out
    <3> QED  BY <1>1, <1>4, <2>1, SMT
  <2> QED
    <3> HIDE DEF charged, total, out
    <3> QED  BY <1>1, <1>4, <2>2, CancelStrict
<1> QED
  BY <1>1, <1>3, <1>4, <1>5

(* A swap never costs the pool: whatever is paid and whatever the fee, the *)
(* product of what it holds does not fall, because get_amount_out rounds   *)
(* down.                                                                   *)
THEOREM ProductNeverFalls ==
    ASSUME Limit \in Nat,
           NEW paid \in Nat \ {0}, NEW x \in Nat \ {0}, NEW y \in Nat \ {0},
           NEW fee \in 0 .. Basis, OutFits(paid, x, y, fee)
    PROVE  x * y <= (x + paid) * (y - AmountOut(paid, x, y, fee))
<1> DEFINE charged == paid * (Basis - fee)
           total == x * Basis + charged
           out == AmountOut(paid, x, y, fee)
           left == y - out
<1>1. /\ charged \in Nat /\ total \in Nat \ {0} /\ out \in Nat /\ out < y
      /\ out * total <= charged * y
  BY OutRoundsDown
<1>2. charged <= paid * Basis
  BY SMT DEF Basis
<1>3. total <= (x + paid) * Basis
  BY <1>1, <1>2, SMT DEF Basis
<1>4. left \in Nat
  BY <1>1, SMT
<1>5. x * Basis * y <= total * left
  <2>1. total * left = x * Basis * y + charged * y - out * total
    <3> HIDE DEF charged, out
    <3> QED  BY <1>1, SMT DEF Basis
  <2> QED
    <3> HIDE DEF charged, total, out, left
    <3> QED  BY <1>1, <2>1, SMT DEF Basis
<1>6. total * left <= (x + paid) * Basis * left
  <2>1. (x + paid) * Basis \in Nat
    BY SMT DEF Basis
  <2> HIDE DEF total, left
  <2> QED  BY <1>1, <1>3, <1>4, <2>1, Monotone
<1>7. (x * y) * Basis <= ((x + paid) * left) * Basis
  <2> HIDE DEF total, left
  <2> QED  BY <1>1, <1>4, <1>5, <1>6, SMT DEF Basis
<1>8. x * y \in Nat /\ (x + paid) * left \in Nat /\ Basis \in Nat \ {0}
  <2> HIDE DEF left
  <2> QED  BY <1>4, SMT DEF Basis
<1> QED
  <2> HIDE DEF left
  <2>1. x * y <= (x + paid) * left
    BY <1>7, <1>8, Cancel
  <2> QED  BY <2>1 DEF left

(* What get_amount_in asks for is enough: who pays it gets at least what   *)
(* was wanted, although both computations round.                           *)
THEOREM AskedIsEnough ==
    ASSUME Limit \in Nat,
           NEW wanted \in Nat \ {0}, NEW x \in Nat \ {0}, NEW y \in Nat, wanted < y,
           NEW fee \in 0 .. (Basis - 1), InFits(wanted, x, y, fee),
           OutFits(AmountIn(wanted, x, y, fee), x, y, fee)
    PROVE  /\ AmountIn(wanted, x, y, fee) \in Nat \ {0}
           /\ wanted <= AmountOut(AmountIn(wanted, x, y, fee), x, y, fee)
<1> DEFINE rate == Basis - fee
           cost == x * wanted * Basis
           share == (y - wanted) * rate
           paid == cost \div share + 1
<1>1. /\ rate \in Nat \ {0} /\ y - wanted \in Nat \ {0} /\ y \in Nat \ {0}
      /\ x * wanted \in Nat /\ cost \in Nat /\ share \in Nat \ {0}
  <2>1. rate \in Nat \ {0} /\ y - wanted \in Nat \ {0} /\ y \in Nat \ {0}
    BY SMT DEF Basis
  <2>2. x * wanted \in Nat
    BY SMT
  <2>3. cost \in Nat
    BY <2>2, SMT DEF Basis
  <2>4. share \in Nat \ {0}
    <3> HIDE DEF rate
    <3> QED  BY <2>1, SMT
  <2> QED
    BY <2>1, <2>2, <2>3, <2>4
<1>2. /\ cost \div share \in Nat /\ (cost \div share) * share <= cost
      /\ cost < (cost \div share) * share + share
  <2> HIDE DEF cost, share
  <2> QED  BY <1>1, Division
<1>3. paid \in Nat \ {0} /\ cost < paid * share
  <2>1. paid * share = (cost \div share) * share + share
    <3> HIDE DEF cost, share
    <3> QED  BY <1>1, <1>2, SMT
  <2> HIDE DEF cost, share
  <2> QED  BY <1>2, <2>1, SMT
<1>4. AmountIn(wanted, x, y, fee) = paid
  <2>1. cost \div share <= cost
    <3> HIDE DEF cost, share
    <3> QED  BY <1>1, <1>2, SMT
  <2>2. x * wanted <= cost
    <3> DEFINE product == x * wanted
    <3> HIDE DEF product
    <3>1. product \in Nat
      BY <1>1 DEF product
    <3>2. product <= product * Basis
      BY <3>1, SMT DEF Basis
    <3> QED  BY <3>2 DEF product
  <2>3. /\ x * wanted < Limit /\ cost < Limit /\ share < Limit /\ paid < Limit
    <3>1. cost + 1 < Limit /\ share < Limit
      BY DEF InFits
    <3> HIDE DEF cost, share
    <3> QED  BY <1>1, <1>2, <2>1, <2>2, <3>1, SMT
  <2>4. /\ Wrapped(x * wanted) = x * wanted /\ Wrapped(cost) = cost
        /\ Wrapped(share) = share /\ Wrapped(paid) = paid
    <3> HIDE DEF cost, share, paid
    <3> QED  BY <1>1, <1>3, <2>3, WrappedSmall
  <2>5. ~ (wanted >= y) /\ share # 0
    BY <1>1, SMT
  <2> QED
    BY <2>4, <2>5, <1>1 DEF AmountIn
<1> DEFINE charged == paid * rate
           total == x * Basis + charged
           out == AmountOut(paid, x, y, fee)
<1>5. /\ charged \in Nat /\ total \in Nat \ {0} /\ out \in Nat
      /\ charged * y < out * total + total
  <2>1. fee \in 0 .. Basis /\ OutFits(paid, x, y, fee)
    BY <1>4, SMT DEF Basis
  <2> QED
    BY <2>1, <1>1, <1>3, OutRoundsDown
<1>6. wanted * total < charged * y
  <2>1. wanted * total = cost + wanted * charged
    <3> HIDE DEF charged
    <3> QED  BY <1>5, SMT DEF Basis
  <2>2. charged * y = paid * share + wanted * charged
    <3> HIDE DEF paid, rate
    <3> QED  BY <1>1, <1>3, SMT
  <2> HIDE DEF cost, share, paid, charged, total
  <2> QED  BY <1>1, <1>3, <1>5, <2>1, <2>2, SMT
<1>7. wanted * total < (out + 1) * total
  <2> HIDE DEF charged, total, out
  <2> QED  BY <1>5, <1>6, SMT
<1>8. wanted < out + 1
  <2> HIDE DEF charged, total, out
  <2> QED  BY <1>5, <1>7, CancelStrict
<1> QED
  <2>1. wanted <= out
    <3> HIDE DEF out
    <3> QED  BY <1>5, <1>8, SMT
  <2> QED
    BY <2>1, <1>3, <1>4

(* There and back again: whoever swaps and at once swaps what he got back  *)
(* ends with no more than he began with.                                   *)
THEOREM NoFreeRoundTrip ==
    ASSUME Limit \in Nat,
           NEW paid \in Nat \ {0}, NEW x \in Nat \ {0}, NEW y \in Nat \ {0},
           NEW fee \in 0 .. Basis, OutFits(paid, x, y, fee),
           NEW got \in Nat \ {0}, got = AmountOut(paid, x, y, fee),
           OutFits(got, y - got, x + paid, fee)
    PROVE  AmountOut(got, y - got, x + paid, fee) <= paid
<1> DEFINE back == AmountOut(got, y - got, x + paid, fee)
<1>1. got < y /\ x * y <= (x + paid) * (y - got)
  BY OutRoundsDown, ProductNeverFalls
<1>2. y - got \in Nat \ {0} /\ x + paid \in Nat \ {0}
  BY <1>1, SMT
<1>3. /\ back \in Nat /\ back < x + paid
      /\ (y - got) * (x + paid) <= ((y - got) + got) * ((x + paid) - back)
  BY <1>2, OutRoundsDown, ProductNeverFalls
<1> HIDE DEF back
<1>4. x * y <= ((x + paid) - back) * y
  BY <1>1, <1>3, SMT
<1>5. (x + paid) - back \in Nat
  BY <1>3, SMT
<1>6. x <= (x + paid) - back
  BY <1>4, <1>5, Cancel
<1> QED
  BY <1>3, <1>6, SMT DEF back
=============================================================================
