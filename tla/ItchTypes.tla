------------------------------ MODULE ItchTypes ------------------------------
(***************************************************************************)
(* The ITCH 5.0 messages in memory (itch-protocol): the primitive types,   *)
(* the closed enumerations with their ASCII codes, and one record type per *)
(* message kind.  An enumeration is the function from its variants to      *)
(* their characters; a field of that type holds a variant.                 *)
(***************************************************************************)
EXTENDS WireBytes

-----------------------------------------------------------------------------
(* primitives.rs.  A type is described by what its values are.              *)

Unsigned(n) == [kind |-> "unsigned", width |-> n]
Text(n) == [kind |-> "text", width |-> n]
Octet == [kind |-> "octet"]
Variant(enum) == [kind |-> "variant", enum |-> enum]

HasType(v, type) ==
    CASE type.kind = "unsigned" -> v \in Word(type.width)
      [] type.kind = "text" -> v \in Bytes(type.width)
      [] type.kind = "octet" -> v \in Byte
      [] type.kind = "variant" -> v \in DOMAIN type.enum

StockLocate == Unsigned(2)
TrackingNumber == Unsigned(2)
OrderReference == Unsigned(8)
MatchNumber == Unsigned(8)
Shares == Unsigned(4)

\* Nanoseconds since midnight, 48 bits on the wire and 64 in memory: from_u64
\* takes any u64, only try_new refuses what the wire cannot hold.
Timestamp == Unsigned(8)
try_new(w) == IF w[6] = 0 /\ w[7] = 0 THEN Ok(w) ELSE Err("OutOfRange")

\* Text is padded on the right with spaces, and cut when it is too long.
Padded(s, n) == [i \in 1..n |-> IF i <= Len(s) THEN s[i] ELSE Space]

\* The view without the trailing padding.
Trimmed(s) ==
    LET text == {i \in DOMAIN s : s[i] # Space}
    IN  IF text = {} THEN <<>>
        ELSE SubSeq(s, 1, CHOOSE i \in text : \A j \in text : j <= i)

Stock == Text(8)
NewStock(s) == Padded(s, 8)
Mpid == Text(4)
NewMpid(s) == Padded(s, 4)

Price4 == Unsigned(4)
Price8 == Unsigned(8)

-----------------------------------------------------------------------------
(* enums.rs *)

EventCode == [StartOfMessages |-> "O", StartOfSystemHours |-> "S", StartOfMarketHours |-> "Q",
              EndOfMarketHours |-> "M", EndOfSystemHours |-> "E", EndOfMessages |-> "C"]

MarketCategory == [NasdaqGlobalSelect |-> "Q", NasdaqGlobalMarket |-> "G",
                   NasdaqCapitalMarket |-> "S", NyseMkt |-> "A", Nyse |-> "N",
                   NyseArca |-> "P", BatsZ |-> "Z", Iex |-> "V", Unavailable |-> " "]

FinancialStatus == [Deficient |-> "D", Delinquent |-> "E", Bankrupt |-> "Q", Suspended |-> "S",
                    DeficientAndBankrupt |-> "G", DeficientAndDelinquent |-> "H",
                    DelinquentAndBankrupt |-> "J", DeficientDelinquentBankrupt |-> "K",
                    CreationsRedemptionsSuspended |-> "C", Normal |-> "N", Unavailable |-> " "]

Authenticity == [Live |-> "P", Test |-> "T"]

YesNo == [Yes |-> "Y", No |-> "N", Unavailable |-> " "]

LuldTier == [Tier1 |-> "1", Tier2 |-> "2", Unavailable |-> " "]

TradingState == [Halted |-> "H", Paused |-> "P", QuotationOnly |-> "Q", Trading |-> "T"]

RegShoAction == [NoPriceTest |-> "0", InEffectIntradayDrop |-> "1", InEffect |-> "2"]

MarketMakerMode == [Normal |-> "N", Passive |-> "P", Syndicate |-> "S", PreSyndicate |-> "R",
                    Penalty |-> "L"]

MarketParticipantState == [Active |-> "A", ExcusedOrWithdrawn |-> "E", Withdrawn |-> "W",
                           Suspended |-> "S", Deleted |-> "D"]

BreachedLevel == [Level1 |-> "1", Level2 |-> "2", Level3 |-> "3"]

IpoReleaseQualifier == [Anticipated |-> "A", Cancelled |-> "C"]

Side == [Buy |-> "B", Sell |-> "S"]

Printable == [NonPrintable |-> "N", Printable |-> "Y"]

CrossType == [Opening |-> "O", Closing |-> "C", Halted |-> "H", Intraday |-> "I"]

ImbalanceDirection == [Buy |-> "B", Sell |-> "S", NoImbalance |-> "N",
                       InsufficientToCalc |-> "O"]

PriceVariation == [LessThan1Percent |-> "L", Pct1To2 |-> "1", Pct2To3 |-> "2", Pct3To4 |-> "3",
                   Pct4To5 |-> "4", Pct5To6 |-> "5", Pct6To7 |-> "6", Pct7To8 |-> "7",
                   Pct8To9 |-> "8", Pct9To10 |-> "9", Pct10To20 |-> "A", Pct20To30 |-> "B",
                   Pct30OrGreater |-> "C", CannotBeCalculated |-> " "]

RpiInterestFlag == [BuySide |-> "B", SellSide |-> "S", BothSides |-> "A", None |-> "N"]

\* AlphaCoded, which the macro enum_alpha writes for each of them.
to_byte(enum, variant) == Ascii[enum[variant]]

KnownCode(enum, b) == \E v \in DOMAIN enum : to_byte(enum, v) = b

from_byte(enum, b) == CHOOSE v \in DOMAIN enum : to_byte(enum, v) = b
-----------------------------------------------------------------------------
(* messages.rs: the header every message opens with, and the body of each    *)
(* kind under its tag.                                                       *)

Header == [stock_locate |-> StockLocate, tracking_number |-> TrackingNumber, timestamp |-> Timestamp]

SystemEvent == [event_code |-> Variant(EventCode)]

StockDirectory ==
    [stock |-> Stock, market_category |-> Variant(MarketCategory),
     financial_status |-> Variant(FinancialStatus), round_lot_size |-> Shares,
     round_lots_only |-> Variant(YesNo), issue_classification |-> Octet, issue_subtype |-> Text(2),
     authenticity |-> Variant(Authenticity), short_sale_threshold |-> Variant(YesNo),
     ipo_flag |-> Variant(YesNo), luld_reference_price_tier |-> Variant(LuldTier),
     etp_flag |-> Variant(YesNo), etp_leverage_factor |-> Unsigned(4), inverse_indicator |-> Variant(YesNo)]

StockTradingAction ==
    [stock |-> Stock, trading_state |-> Variant(TradingState), reserved |-> Octet, reason |-> Text(4)]

RegShoRestriction == [stock |-> Stock, reg_sho_action |-> Variant(RegShoAction)]

MarketParticipantPosition ==
    [mpid |-> Mpid, stock |-> Stock, primary_market_maker |-> Variant(YesNo),
     market_maker_mode |-> Variant(MarketMakerMode),
     market_participant_state |-> Variant(MarketParticipantState)]

MwcbDeclineLevel == [level1 |-> Price8, level2 |-> Price8, level3 |-> Price8]

MwcbStatus == [breached_level |-> Variant(BreachedLevel)]

IpoQuotingPeriodUpdate ==
    [stock |-> Stock, ipo_quotation_release_time |-> Unsigned(4),
     ipo_quotation_release_qualifier |-> Variant(IpoReleaseQualifier), ipo_price |-> Price4]

AddOrder ==
    [order_ref |-> OrderReference, side |-> Variant(Side), shares |-> Shares, stock |-> Stock,
     price |-> Price4]

AddOrderWithMpid ==
    [order_ref |-> OrderReference, side |-> Variant(Side), shares |-> Shares, stock |-> Stock,
     price |-> Price4, attribution |-> Mpid]

OrderExecuted ==
    [order_ref |-> OrderReference, executed_shares |-> Shares, match_number |-> MatchNumber]

OrderExecutedWithPrice ==
    [order_ref |-> OrderReference, executed_shares |-> Shares, match_number |-> MatchNumber,
     printable |-> Variant(Printable), execution_price |-> Price4]

OrderCancel == [order_ref |-> OrderReference, cancelled_shares |-> Shares]

OrderDelete == [order_ref |-> OrderReference]

OrderReplace ==
    [original_order_ref |-> OrderReference, new_order_ref |-> OrderReference, shares |-> Shares,
     price |-> Price4]

TradeNonCross ==
    [order_ref |-> OrderReference, side |-> Variant(Side), shares |-> Shares, stock |-> Stock,
     price |-> Price4, match_number |-> MatchNumber]

CrossTrade ==
    [shares |-> Unsigned(8), stock |-> Stock, cross_price |-> Price4, match_number |-> MatchNumber,
     cross_type |-> Variant(CrossType)]

BrokenTrade == [match_number |-> MatchNumber]

Noii ==
    [paired_shares |-> Unsigned(8), imbalance_shares |-> Unsigned(8),
     imbalance_direction |-> Variant(ImbalanceDirection), stock |-> Stock, far_price |-> Price4,
     near_price |-> Price4, current_reference_price |-> Price4, cross_type |-> Variant(CrossType),
     price_variation |-> Variant(PriceVariation)]

RetailPriceImprovement == [stock |-> Stock, interest_flag |-> Variant(RpiInterestFlag)]

\* The enum Message: a kind is known by its tag.
Kinds ==
    [S |-> SystemEvent, R |-> StockDirectory, H |-> StockTradingAction, Y |-> RegShoRestriction,
     L |-> MarketParticipantPosition, V |-> MwcbDeclineLevel, W |-> MwcbStatus,
     K |-> IpoQuotingPeriodUpdate, A |-> AddOrder, F |-> AddOrderWithMpid, E |-> OrderExecuted,
     C |-> OrderExecutedWithPrice, X |-> OrderCancel, D |-> OrderDelete, U |-> OrderReplace,
     P |-> TradeNonCross, Q |-> CrossTrade, B |-> BrokenTrade, I |-> Noii,
     N |-> RetailPriceImprovement]

Tags == DOMAIN Kinds

IsRecord(r, struct) == DOMAIN r = DOMAIN struct /\ \A f \in DOMAIN r : HasType(r[f], struct[f])

IsMessage(m) == m.tag \in Tags /\ IsRecord(m.header, Header) /\ IsRecord(m.body, Kinds[m.tag])

body_len ==
    [S |-> 11, R |-> 38, H |-> 24, Y |-> 19, L |-> 25, V |-> 34, W |-> 11, K |-> 27, A |-> 35,
     F |-> 39, E |-> 30, C |-> 35, X |-> 22, D |-> 18, U |-> 34, P |-> 43, Q |-> 39, B |-> 18,
     I |-> 49, N |-> 19]

encoded_len(tag) == 1 + body_len[tag]
=============================================================================
