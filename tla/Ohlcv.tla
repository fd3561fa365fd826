------------------------------- MODULE Ohlcv --------------------------------
(***************************************************************************)
(* OhlcvAccumulator of itch-book/src/ohlcv.rs: one bar per symbol, created *)
(* by its first printable trade.  VolumeMax is u64::MAX, where the volume  *)
(* stops; the count of trades does not get that far.                       *)
(***************************************************************************)
EXTENDS Integers

CONSTANT VolumeMax

ASSUME VolumeAssumption == VolumeMax \in Nat

saturating_add(m, n) == IF m + n > VolumeMax THEN VolumeMax ELSE m + n

\* or_insert
FirstTrade(price, shares) ==
  [open |-> price, high |-> price, low |-> price, close |-> price, volume |-> shares,
   trade_count |-> 1]

\* Mutant: wrapping_add.
NextTradeWraps(bar, price, shares) ==
  [bar EXCEPT !.high = IF price > @ THEN price ELSE @,
              !.low = IF price < @ THEN price ELSE @,
              !.close = price,
              !.volume = (@ + shares) % (VolumeMax + 1),
              !.trade_count = @ + 1]

\* and_modify
NextTrade(bar, price, shares) ==
  [bar EXCEPT !.high = IF price > @ THEN price ELSE @,
              !.low = IF price < @ THEN price ELSE @,
              !.close = price,
              !.volume = saturating_add(@, shares),
              !.trade_count = @ + 1]

apply_trade(bars, locate, price, shares) ==
  [s \in DOMAIN bars \cup {locate} |->
     IF s # locate THEN bars[s]
     ELSE IF s \in DOMAIN bars THEN NextTrade(bars[s], price, shares)
     ELSE FirstTrade(price, shares)]
=============================================================================
