------------------------- MODULE InterestAllocation -------------------------
(***************************************************************************)
(* How a state's interest is divided among its POPs                        *)
(* (plugins/interest_bug_fix/src/interest_allocation.cpp): in proportion   *)
(* to their savings, in whole units, the units that are left going to the  *)
(* largest remainders.  Integers have Width bits: a product that would not *)
(* fit is divided bit by bit instead.                                      *)
(***************************************************************************)
EXTENDS Integers, Sequences, FiniteSets, SequencesExt

CONSTANTS Width,           \* the bits of an int64_t
          MaxPayees,       \* the POPs of the divisions that are checked
          PopMoneyScale    \* POP money is this much finer than the pool

ASSUME AllocationAssumption ==
    Width \in Nat /\ Width > 1 /\ MaxPayees \in Nat /\ PopMoneyScale \in Nat /\ PopMoneyScale > 0

MaxRaw == 2 ^ (Width - 1) - 1
MaxWord == 2 ^ Width - 1

Bit(n, i) == (n \div 2 ^ i) % 2
AllocationStatus == {"success", "no_payment", "no_eligible_savings", "overflow"}
Overflowed == [ok |-> FALSE, quotient |-> 0, remainder |-> 0]

\* Mutant of the next: the multiplicand's own remainder is not carried along.
MultiplyDivide_DropsRemainder(multiplicand, multiplier, divisor) ==
    [ok |-> TRUE, quotient |-> (multiplicand \div divisor) * multiplier, remainder |-> 0]

(***************************************************************************)
(* multiplicand * multiplier / divisor without the product: the            *)
(* multiplier's bits from the highest, doubling quotient and remainder     *)
(* and adding the multiplicand's.                                          *)
(***************************************************************************)
MultiplyDivide(multiplicand, multiplier, divisor) ==
    LET q == multiplicand \div divisor
        r == multiplicand % divisor
        Doubled(x) ==
            LET carry == IF x.remainder >= divisor - x.remainder THEN 1 ELSE 0
            IN  [ok |-> x.ok /\ x.quotient <= MaxWord \div 2, quotient |-> 2 * x.quotient, carry |-> carry,
                 remainder |-> 2 * x.remainder - carry * divisor]
        Added(x) ==
            LET carry == IF r # 0 /\ x.remainder >= divisor - r THEN 1 ELSE 0
            IN  [ok |-> x.ok /\ x.quotient <= MaxWord - q, quotient |-> x.quotient + q,
                 carry |-> x.carry + carry, remainder |-> x.remainder + r - carry * divisor]
        Carried(x) == [ok |-> x.ok /\ x.quotient <= MaxWord - x.carry, quotient |-> x.quotient + x.carry,
                       remainder |-> x.remainder]
        Round(i, x) == IF ~x.ok THEN Overflowed
                       ELSE Carried(IF Bit(multiplier, i) = 1 THEN Added(Doubled(x)) ELSE Doubled(x))
        start == [ok |-> TRUE, quotient |-> 0, remainder |-> 0]
    IN  IF divisor = 0 \/ multiplier > divisor THEN Overflowed
        ELSE FoldLeft(LAMBDA x, i : Round(Width - i, x), start, [i \in 1 .. Width |-> i])

\* The share of one POP: directly when the product fits, else bit by bit.
Share(total, savings, all) ==
    IF total <= MaxRaw \div savings
    THEN [ok |-> TRUE, quotient |-> (total * savings) \div all, remainder |-> (total * savings) % all]
    ELSE LET share == MultiplyDivide(total, savings, all)
         IN  IF share.quotient > MaxRaw THEN Overflowed ELSE share

(***************************************************************************)
(* What each of the POPs is paid.  The units that rounding left go to the  *)
(* POPs with the largest remainders, the earlier one of two equal ones.    *)
(***************************************************************************)
Refused(status, savings) == [status |-> status, payout |-> [i \in DOMAIN savings |-> 0]]
AllocateInterest(transfer, savings) ==
    LET eligible == {i \in DOMAIN savings : savings[i] > 0}
        total == transfer * PopMoneyScale
        all == FoldSeq(LAMBDA s, sum : IF s > 0 /\ sum <= MaxRaw THEN sum + s ELSE sum, 0, savings)
        share == [i \in eligible |-> Share(total, savings[i], all)]
        allocated == FoldSeq(+, 0, [i \in DOMAIN savings |->
                                        IF i \in eligible THEN share[i].quotient ELSE 0])
        units == total - allocated
        Before(j, i) == \/ share[j].remainder > share[i].remainder
                        \/ share[j].remainder = share[i].remainder /\ j < i
        Extra(i) == IF Cardinality({j \in eligible : Before(j, i)}) < units THEN 1 ELSE 0
    IN  CASE transfer <= 0 -> Refused("no_payment", savings)
          [] transfer > 0 /\ savings = <<>> -> Refused("no_eligible_savings", savings)
          [] transfer > MaxRaw \div PopMoneyScale /\ savings # <<>> -> Refused("overflow", savings)
          [] OTHER ->
               IF all > MaxRaw THEN Refused("overflow", savings)
               ELSE IF eligible = {} THEN Refused("no_eligible_savings", savings)
               ELSE IF \/ \E i \in eligible : ~share[i].ok
                       \/ units < 0 \/ units > Cardinality(eligible)
                    THEN Refused("overflow", savings)
               ELSE [status |-> "success",
                     payout |-> [i \in DOMAIN savings |->
                                    IF i \in eligible THEN share[i].quotient + Extra(i) ELSE 0]]
-----------------------------------------------------------------------------
(***************************************************************************)
(* DivisionIsFair.  For every transfer and up to MaxPayees POPs: the       *)
(* payments are the whole transfer, each POP's is its exact share rounded  *)
(* down or up, none without savings gets any and none with more savings    *)
(* gets less; and a division is refused only when there is nobody to pay   *)
(* or a sum does not fit, never by the arithmetic of a share               *)
(* (AllocateInterest, MultiplyDivide).                                     *)
(***************************************************************************)
DivisionIsFair ==
    \A transfer \in 1 .. MaxRaw, savings \in BoundedSeq(-1 .. MaxRaw, MaxPayees) :
        LET division == AllocateInterest(transfer, savings)
            total == transfer * PopMoneyScale
            kept == [i \in DOMAIN savings |-> IF savings[i] > 0 THEN savings[i] ELSE 0]
            all == FoldSeq(+, 0, kept)
            pay == division.payout
        IN  IF division.status = "success"
            THEN /\ FoldSeq(+, 0, pay) = total
                 /\ \A i \in DOMAIN savings :
                        /\ kept[i] = 0 => pay[i] = 0
                        /\ pay[i] * all > kept[i] * total - all /\ pay[i] * all < kept[i] * total + all
                        /\ \A j \in DOMAIN savings : kept[i] > kept[j] => pay[i] >= pay[j]
            ELSE /\ \A i \in DOMAIN savings : pay[i] = 0
                 /\ division.status = "no_eligible_savings" => all = 0
                 /\ division.status = "overflow" => total > MaxRaw \/ all > MaxRaw
=============================================================================
