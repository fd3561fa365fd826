------------------------- MODULE ConformanceVectors -------------------------
(***************************************************************************)
(* The wire-format contract of the workspace (itch-conformance): for every *)
(* kind of message a byte literal and the message it stands for            *)
(* (vectors.rs), and for every enumeration its table of codes with some    *)
(* bytes that are none of them (enum_vectors.rs).  Neither side is derived *)
(* from the codec.                                                         *)
(***************************************************************************)
EXTENDS ItchTypes

\* The word of n bytes with the value v; TLC's integers hold four bytes.
Num(v, n) == [i \in 0..(n - 1) |-> IF i < 4 THEN (v \div 256^i) % 256 ELSE 0]

Chars(s) == [i \in DOMAIN s |-> Ascii[s[i]]]

AAPL == Chars(<<"A", "A", "P", "L">>)

NSDQ == Chars(<<"N", "S", "D", "Q">>)

header(locate) ==
    [stock_locate |-> Num(locate, 2), tracking_number |-> Num(2, 2),
     timestamp |-> Num(305419896, 8)]

stock_header == header(1)

session_header == header(0)

StockHead == <<0, 1, 0, 2, 0, 0, 18, 52, 86, 120>>

SessionHead == <<0, 0, 0, 2, 0, 0, 18, 52, 86, 120>>

Vector(tag, head, hdr, bytes, body) ==
    [bytes |-> <<Ascii[tag]>> \o head \o bytes, message |-> [tag |-> tag, header |-> hdr, body |-> body]]

OfStock(tag, bytes, body) == Vector(tag, StockHead, stock_header, bytes, body)

OfSession(tag, bytes, body) == Vector(tag, SessionHead, session_header, bytes, body)

SYSTEM_EVENT == OfSession("S", <<79>>, [event_code |-> "StartOfMessages"])

STOCK_DIRECTORY ==
    OfStock("R", Chars(<<"A", "A", "P", "L", " ", " ", " ", " ", "Q", "N">>) \o <<0, 0, 0, 100>>
                 \o Chars(<<"N", "C", " ", " ", "P", "N", "N", "1", "N">>) \o <<0, 0, 0, 0, 78>>,
        [stock |-> NewStock(AAPL), market_category |-> "NasdaqGlobalSelect",
         financial_status |-> "Normal", round_lot_size |-> Num(100, 4), round_lots_only |-> "No",
         issue_classification |-> Ascii["C"], issue_subtype |-> Chars(<<" ", " ">>),
         authenticity |-> "Live", short_sale_threshold |-> "No", ipo_flag |-> "No",
         luld_reference_price_tier |-> "Tier1", etp_flag |-> "No",
         etp_leverage_factor |-> Num(0, 4), inverse_indicator |-> "No"])

STOCK_TRADING_ACTION ==
    OfStock("H", <<65, 65, 80, 76, 32, 32, 32, 32, 84, 32, 78, 79, 82, 77>>,
        [stock |-> NewStock(AAPL), trading_state |-> "Trading", reserved |-> Ascii[" "],
         reason |-> Chars(<<"N", "O", "R", "M">>)])

REG_SHO_RESTRICTION ==
    OfStock("Y", <<84, 83, 76, 65, 32, 32, 32, 32, 50>>,
        [stock |-> NewStock(Chars(<<"T", "S", "L", "A">>)), reg_sho_action |-> "InEffect"])

MARKET_PARTICIPANT_POSITION ==
    OfStock("L", <<78, 83, 68, 81, 65, 65, 80, 76, 32, 32, 32, 32, 89, 78, 65>>,
        [mpid |-> NewMpid(NSDQ), stock |-> NewStock(AAPL), primary_market_maker |-> "Yes",
         market_maker_mode |-> "Normal", market_participant_state |-> "Active"])

\* Price8::from_u64(n * 100_000_000_000), which is 256 times 390_625_000 n.
HundredBillion(n) == [i \in 0..7 |-> IF i = 0 THEN 0 ELSE Num(390625000 * n, 8)[i - 1]]

MWCB_DECLINE_LEVEL ==
    OfSession("V", <<0, 0, 0, 23, 72, 118, 232, 0, 0, 0, 0, 46, 144, 237, 208, 0,
                     0, 0, 0, 69, 217, 100, 184, 0>>,
        [level1 |-> HundredBillion(1), level2 |-> HundredBillion(2), level3 |-> HundredBillion(3)])

MWCB_STATUS == OfSession("W", <<50>>, [breached_level |-> "Level2"])

IPO_QUOTING_PERIOD_UPDATE ==
    OfSession("K", <<78, 69, 87, 67, 79, 32, 32, 32, 0, 0, 133, 152, 65, 0, 22, 227, 96>>,
        [stock |-> NewStock(Chars(<<"N", "E", "W", "C", "O">>)),
         ipo_quotation_release_time |-> Num(34200, 4),
         ipo_quotation_release_qualifier |-> "Anticipated", ipo_price |-> Num(1500000, 4)])

ADD_ORDER ==
    OfStock("A", <<0, 0, 0, 0, 0, 0, 3, 233, 66, 0, 0, 1, 244, 65, 65, 80, 76, 32, 32, 32, 32,
                   0, 29, 95, 136>>,
        [order_ref |-> Num(1001, 8), side |-> "Buy", shares |-> Num(500, 4),
         stock |-> NewStock(AAPL), price |-> Num(1925000, 4)])

ADD_ORDER_WITH_MPID ==
    OfStock("F", <<0, 0, 0, 0, 0, 0, 3, 234, 83, 0, 0, 1, 44, 65, 65, 80, 76, 32, 32, 32, 32,
                   0, 29, 99, 112, 78, 83, 68, 81>>,
        [order_ref |-> Num(1002, 8), side |-> "Sell", shares |-> Num(300, 4),
         stock |-> NewStock(AAPL), price |-> Num(1926000, 4), attribution |-> NewMpid(NSDQ)])

ORDER_EXECUTED ==
    OfStock("E", <<0, 0, 0, 0, 0, 0, 3, 233, 0, 0, 0, 100, 0, 0, 0, 0, 0, 0, 0, 42>>,
        [order_ref |-> Num(1001, 8), executed_shares |-> Num(100, 4), match_number |-> Num(42, 8)])

ORDER_EXECUTED_WITH_PRICE ==
    OfStock("C", <<0, 0, 0, 0, 0, 0, 3, 233, 0, 0, 0, 50, 0, 0, 0, 0, 0, 0, 0, 43, 89,
                   0, 29, 93, 148>>,
        [order_ref |-> Num(1001, 8), executed_shares |-> Num(50, 4), match_number |-> Num(43, 8),
         printable |-> "Printable", execution_price |-> Num(1924500, 4)])

ORDER_CANCEL ==
    OfStock("X", <<0, 0, 0, 0, 0, 0, 3, 233, 0, 0, 0, 75>>,
        [order_ref |-> Num(1001, 8), cancelled_shares |-> Num(75, 4)])

ORDER_DELETE == OfStock("D", <<0, 0, 0, 0, 0, 0, 3, 233>>, [order_ref |-> Num(1001, 8)])

ORDER_REPLACE ==
    OfStock("U", <<0, 0, 0, 0, 0, 0, 3, 233, 0, 0, 0, 0, 0, 0, 7, 209, 0, 0, 1, 169,
                   0, 29, 105, 76>>,
        [original_order_ref |-> Num(1001, 8), new_order_ref |-> Num(2001, 8),
         shares |-> Num(425, 4), price |-> Num(1927500, 4)])

TRADE_NON_CROSS_POST_2014 ==
    OfStock("P", <<0, 0, 0, 0, 0, 0, 0, 0, 66, 0, 0, 0, 200, 65, 65, 80, 76, 32, 32, 32, 32,
                   0, 29, 97, 124, 0, 0, 0, 0, 0, 0, 30, 97>>,
        [order_ref |-> Num(0, 8), side |-> "Buy", shares |-> Num(200, 4), stock |-> NewStock(AAPL),
         price |-> Num(1925500, 4), match_number |-> Num(7777, 8)])

TRADE_NON_CROSS_PRE_2014 ==
    OfStock("P", <<0, 0, 0, 0, 0, 0, 4, 210, 83, 0, 0, 0, 150, 77, 83, 70, 84, 32, 32, 32, 32,
                   0, 53, 103, 224, 0, 0, 0, 0, 0, 0, 34, 184>>,
        [order_ref |-> Num(1234, 8), side |-> "Sell", shares |-> Num(150, 4),
         stock |-> NewStock(Chars(<<"M", "S", "F", "T">>)), price |-> Num(3500000, 4),
         match_number |-> Num(8888, 8)])

CROSS_TRADE ==
    OfStock("Q", <<0, 0, 0, 0, 0, 15, 66, 64, 83, 80, 89, 32, 32, 32, 32, 32, 0, 61, 9, 0,
                   0, 0, 0, 0, 0, 0, 0, 99, 67>>,
        [shares |-> Num(1000000, 8), stock |-> NewStock(Chars(<<"S", "P", "Y">>)),
         cross_price |-> Num(4000000, 4), match_number |-> Num(99, 8), cross_type |-> "Closing"])

BROKEN_TRADE ==
    OfStock("B", <<0, 0, 0, 0, 0, 6, 121, 50>>, [match_number |-> Num(424242, 8)])

NOII ==
    OfStock("I", <<0, 0, 0, 0, 0, 15, 66, 64, 0, 0, 0, 0, 0, 7, 161, 32, 66,
                   81, 81, 81, 32, 32, 32, 32, 32, 0, 56, 117, 32, 0, 56, 156, 48, 0, 56, 136, 168,
                   67, 49>>,
        [paired_shares |-> Num(1000000, 8), imbalance_shares |-> Num(500000, 8),
         imbalance_direction |-> "Buy", stock |-> NewStock(Chars(<<"Q", "Q", "Q">>)),
         far_price |-> Num(3700000, 4), near_price |-> Num(3710000, 4),
         current_reference_price |-> Num(3705000, 4), cross_type |-> "Closing",
         price_variation |-> "Pct1To2"])

RETAIL_PRICE_IMPROVEMENT ==
    OfStock("N", <<65, 65, 80, 76, 32, 32, 32, 32, 65>>,
        [stock |-> NewStock(AAPL), interest_flag |-> "BothSides"])

all ==
    {SYSTEM_EVENT, STOCK_DIRECTORY, STOCK_TRADING_ACTION, REG_SHO_RESTRICTION,
     MARKET_PARTICIPANT_POSITION, MWCB_DECLINE_LEVEL, MWCB_STATUS, IPO_QUOTING_PERIOD_UPDATE,
     ADD_ORDER, ADD_ORDER_WITH_MPID, ORDER_EXECUTED, ORDER_EXECUTED_WITH_PRICE, ORDER_CANCEL,
     ORDER_DELETE, ORDER_REPLACE, TRADE_NON_CROSS_POST_2014, TRADE_NON_CROSS_PRE_2014,
     CROSS_TRADE, BROKEN_TRADE, NOII, RETAIL_PRICE_IMPROVEMENT}

-----------------------------------------------------------------------------
(* enum_vectors.rs: the codes as bytes, and bytes that are no code.          *)

EnumVector(enum, variants, unknown) == [enum |-> enum, variants |-> variants, unknown |-> unknown]

EVENT_CODE ==
    EnumVector(EventCode, [StartOfMessages |-> 79, StartOfSystemHours |-> 83,
        StartOfMarketHours |-> 81, EndOfMarketHours |-> 77, EndOfSystemHours |-> 69,
        EndOfMessages |-> 67], {0, 32, 90, 255})

SIDE == EnumVector(Side, [Buy |-> 66, Sell |-> 83], {0, 32, 88, 255})

MARKET_CATEGORY ==
    EnumVector(MarketCategory, [NasdaqGlobalSelect |-> 81, NasdaqGlobalMarket |-> 71,
        NasdaqCapitalMarket |-> 83, NyseMkt |-> 65, Nyse |-> 78, NyseArca |-> 80, BatsZ |-> 90,
        Iex |-> 86, Unavailable |-> 32], {0, 88, 33, 255})

FINANCIAL_STATUS ==
    EnumVector(FinancialStatus, [Deficient |-> 68, Delinquent |-> 69, Bankrupt |-> 81,
        Suspended |-> 83, DeficientAndBankrupt |-> 71, DeficientAndDelinquent |-> 72,
        DelinquentAndBankrupt |-> 74, DeficientDelinquentBankrupt |-> 75,
        CreationsRedemptionsSuspended |-> 67, Normal |-> 78, Unavailable |-> 32], {0, 88, 63, 255})

AUTHENTICITY == EnumVector(Authenticity, [Live |-> 80, Test |-> 84], {0, 32, 88, 255})

YES_NO == EnumVector(YesNo, [Yes |-> 89, No |-> 78, Unavailable |-> 32], {0, 88, 63, 255})

LULD_TIER == EnumVector(LuldTier, [Tier1 |-> 49, Tier2 |-> 50, Unavailable |-> 32], {0, 57, 88, 255})

TRADING_STATE ==
    EnumVector(TradingState, [Halted |-> 72, Paused |-> 80, QuotationOnly |-> 81, Trading |-> 84],
        {0, 32, 88, 255})

REG_SHO_ACTION ==
    EnumVector(RegShoAction, [NoPriceTest |-> 48, InEffectIntradayDrop |-> 49, InEffect |-> 50],
        {0, 32, 57, 255})

MARKET_MAKER_MODE ==
    EnumVector(MarketMakerMode, [Normal |-> 78, Passive |-> 80, Syndicate |-> 83,
        PreSyndicate |-> 82, Penalty |-> 76], {0, 32, 88, 255})

MARKET_PARTICIPANT_STATE ==
    EnumVector(MarketParticipantState, [Active |-> 65, ExcusedOrWithdrawn |-> 69,
        Withdrawn |-> 87, Suspended |-> 83, Deleted |-> 68], {0, 32, 88, 255})

BREACHED_LEVEL ==
    EnumVector(BreachedLevel, [Level1 |-> 49, Level2 |-> 50, Level3 |-> 51], {0, 32, 57, 255})

IPO_RELEASE_QUALIFIER ==
    EnumVector(IpoReleaseQualifier, [Anticipated |-> 65, Cancelled |-> 67], {0, 32, 88, 255})

PRINTABLE == EnumVector(Printable, [NonPrintable |-> 78, Printable |-> 89], {0, 32, 88, 255})

CROSS_TYPE ==
    EnumVector(CrossType, [Opening |-> 79, Closing |-> 67, Halted |-> 72, Intraday |-> 73],
        {0, 32, 88, 255})

IMBALANCE_DIRECTION ==
    EnumVector(ImbalanceDirection, [Buy |-> 66, Sell |-> 83, NoImbalance |-> 78,
        InsufficientToCalc |-> 79], {0, 32, 88, 255})

PRICE_VARIATION ==
    EnumVector(PriceVariation, [LessThan1Percent |-> 76, Pct1To2 |-> 49, Pct2To3 |-> 50,
        Pct3To4 |-> 51, Pct4To5 |-> 52, Pct5To6 |-> 53, Pct6To7 |-> 54, Pct7To8 |-> 55,
        Pct8To9 |-> 56, Pct9To10 |-> 57, Pct10To20 |-> 65, Pct20To30 |-> 66,
        Pct30OrGreater |-> 67, CannotBeCalculated |-> 32], {0, 88, 63, 255})

RPI_INTEREST_FLAG ==
    EnumVector(RpiInterestFlag, [BuySide |-> 66, SellSide |-> 83, BothSides |-> 65, None |-> 78],
        {0, 32, 88, 255})

EnumVectors ==
    {EVENT_CODE, SIDE, MARKET_CATEGORY, FINANCIAL_STATUS, AUTHENTICITY, YES_NO, LULD_TIER,
     TRADING_STATE, REG_SHO_ACTION, MARKET_MAKER_MODE, MARKET_PARTICIPANT_STATE, BREACHED_LEVEL,
     IPO_RELEASE_QUALIFIER, PRINTABLE, CROSS_TYPE, IMBALANCE_DIRECTION, PRICE_VARIATION,
     RPI_INTEREST_FLAG}
=============================================================================
