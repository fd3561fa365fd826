---------------------------- MODULE MessageCodec ----------------------------
(***************************************************************************)
(* Encoding and decoding of a message (itch-protocol/src/codec.rs).  The   *)
(* code writes and reads every field at a literal offset of the body; the  *)
(* two sides are written twice there, and so they are here, as one table   *)
(* per kind and side.  That they agree is what the wire run checks.        *)
(***************************************************************************)
EXTENDS ItchTypes

-----------------------------------------------------------------------------
(* What a field occupies, and how its value becomes bytes and comes back.    *)

U8(at) == [at |-> at, len |-> 1, form |-> "u8"]
U16(at) == [at |-> at, len |-> 2, form |-> "uint"]
U32(at) == [at |-> at, len |-> 4, form |-> "uint"]
U64(at) == [at |-> at, len |-> 8, form |-> "uint"]
U48(at) == [at |-> at, len |-> 6, form |-> "u48"]
Raw(at, n) == [at |-> at, len |-> n, form |-> "raw"]
Code(at, enum) == [at |-> at, len |-> 1, form |-> "code", enum |-> enum]

write(field, v) ==
    CASE field.form = "u8" -> <<v>>
      [] field.form = "uint" -> to_be_bytes(v, field.len)
      [] field.form = "u48" -> write_u48(v)
      [] field.form = "raw" -> v
      [] field.form = "code" -> <<to_byte(field.enum, v)>>

read(field, buf) ==
    LET s == slice_n(buf, field.at, field.len)
    IN  CASE field.form = "u8" -> s[1]
          [] field.form = "uint" -> from_be_bytes(s)
          [] field.form = "u48" -> read_u48(s)
          [] field.form = "raw" -> s
          [] field.form = "code" -> from_byte(field.enum, s[1])

\* buf after the fields of rec are written over it.
WriteFields(buf, table, rec) ==
    [p \in DOMAIN buf |->
        LET here == {f \in DOMAIN table : p \in (table[f].at + 1)..(table[f].at + table[f].len)}
        IN  IF here = {} THEN buf[p]
            ELSE LET f == CHOOSE f \in here : TRUE IN write(table[f], rec[f])[p - table[f].at]]

ReadFields(buf, table) == [f \in DOMAIN table |-> read(table[f], buf)]

CodesKnown(buf, table) ==
    \A f \in DOMAIN table :
        table[f].form = "code" => KnownCode(table[f].enum, buf[table[f].at + 1])

-----------------------------------------------------------------------------
(* The offsets, as encode_body and decode_body state them.                   *)

HeaderEncode == [stock_locate |-> U16(0), tracking_number |-> U16(2), timestamp |-> U48(4)]

HeaderDecode == [stock_locate |-> U16(0), tracking_number |-> U16(2), timestamp |-> U48(4)]

SystemEventEncode == [event_code |-> Code(10, EventCode)]

SystemEventDecode == [event_code |-> Code(10, EventCode)]

StockDirectoryEncode ==
    [stock |-> Raw(10, 8), market_category |-> Code(18, MarketCategory),
     financial_status |-> Code(19, FinancialStatus), round_lot_size |-> U32(20),
     round_lots_only |-> Code(24, YesNo), issue_classification |-> U8(25),
     issue_subtype |-> Raw(26, 2), authenticity |-> Code(28, Authenticity),
     short_sale_threshold |-> Code(29, YesNo), ipo_flag |-> Code(30, YesNo),
     luld_reference_price_tier |-> Code(31, LuldTier), etp_flag |-> Code(32, YesNo),
     etp_leverage_factor |-> U32(33), inverse_indicator |-> Code(37, YesNo)]

StockDirectoryDecode ==
    [stock |-> Raw(10, 8), market_category |-> Code(18, MarketCategory),
     financial_status |-> Code(19, FinancialStatus), round_lot_size |-> U32(20),
     round_lots_only |-> Code(24, YesNo), issue_classification |-> U8(25),
     issue_subtype |-> Raw(26, 2), authenticity |-> Code(28, Authenticity),
     short_sale_threshold |-> Code(29, YesNo), ipo_flag |-> Code(30, YesNo),
     luld_reference_price_tier |-> Code(31, LuldTier), etp_flag |-> Code(32, YesNo),
     etp_leverage_factor |-> U32(33), inverse_indicator |-> Code(37, YesNo)]

StockTradingActionEncode ==
    [stock |-> Raw(10, 8), trading_state |-> Code(18, TradingState), reserved |-> U8(19),
     reason |-> Raw(20, 4)]

StockTradingActionDecode ==
    [stock |-> Raw(10, 8), trading_state |-> Code(18, TradingState), reserved |-> U8(19),
     reason |-> Raw(20, 4)]

RegShoRestrictionEncode == [stock |-> Raw(10, 8), reg_sho_action |-> Code(18, RegShoAction)]

RegShoRestrictionDecode == [stock |-> Raw(10, 8), reg_sho_action |-> Code(18, RegShoAction)]

MarketParticipantPositionEncode ==
    [mpid |-> Raw(10, 4), stock |-> Raw(14, 8), primary_market_maker |-> Code(22, YesNo),
     market_maker_mode |-> Code(23, MarketMakerMode),
     market_participant_state |-> Code(24, MarketParticipantState)]

MarketParticipantPositionDecode ==
    [mpid |-> Raw(10, 4), stock |-> Raw(14, 8), primary_market_maker |-> Code(22, YesNo),
     market_maker_mode |-> Code(23, MarketMakerMode),
     market_participant_state |-> Code(24, MarketParticipantState)]

MwcbDeclineLevelEncode == [level1 |-> U64(10), level2 |-> U64(18), level3 |-> U64(26)]

MwcbDeclineLevelDecode == [level1 |-> U64(10), level2 |-> U64(18), level3 |-> U64(26)]

MwcbStatusEncode == [breached_level |-> Code(10, BreachedLevel)]

MwcbStatusDecode == [breached_level |-> Code(10, BreachedLevel)]

IpoQuotingPeriodUpdateEncode ==
    [stock |-> Raw(10, 8), ipo_quotation_release_time |-> U32(18),
     ipo_quotation_release_qualifier |-> Code(22, IpoReleaseQualifier), ipo_price |-> U32(23)]

IpoQuotingPeriodUpdateDecode ==
    [stock |-> Raw(10, 8), ipo_quotation_release_time |-> U32(18),
     ipo_quotation_release_qualifier |-> Code(22, IpoReleaseQualifier), ipo_price |-> U32(23)]

AddOrderEncode ==
    [order_ref |-> U64(10), side |-> Code(18, Side), shares |-> U32(19), stock |-> Raw(23, 8),
     price |-> U32(31)]

AddOrderDecode ==
    [order_ref |-> U64(10), side |-> Code(18, Side), shares |-> U32(19), stock |-> Raw(23, 8),
     price |-> U32(31)]

AddOrderWithMpidEncode ==
    [order_ref |-> U64(10), side |-> Code(18, Side), shares |-> U32(19), stock |-> Raw(23, 8),
     price |-> U32(31), attribution |-> Raw(35, 4)]

AddOrderWithMpidDecode ==
    [order_ref |-> U64(10), side |-> Code(18, Side), shares |-> U32(19), stock |-> Raw(23, 8),
     price |-> U32(31), attribution |-> Raw(35, 4)]

OrderExecutedEncode ==
    [order_ref |-> U64(10), executed_shares |-> U32(18), match_number |-> U64(22)]

OrderExecutedDecode ==
    [order_ref |-> U64(10), executed_shares |-> U32(18), match_number |-> U64(22)]

OrderExecutedWithPriceEncode ==
    [order_ref |-> U64(10), executed_shares |-> U32(18), match_number |-> U64(22),
     printable |-> Code(30, Printable), execution_price |-> U32(31)]

OrderExecutedWithPriceDecode ==
    [order_ref |-> U64(10), executed_shares |-> U32(18), match_number |-> U64(22),
     printable |-> Code(30, Printable), execution_price |-> U32(31)]

OrderCancelEncode == [order_ref |-> U64(10), cancelled_shares |-> U32(18)]

OrderCancelDecode == [order_ref |-> U64(10), cancelled_shares |-> U32(18)]

OrderDeleteEncode == [order_ref |-> U64(10)]

OrderDeleteDecode == [order_ref |-> U64(10)]

OrderReplaceEncode ==
    [original_order_ref |-> U64(10), new_order_ref |-> U64(18), shares |-> U32(26),
     price |-> U32(30)]

OrderReplaceDecode ==
    [original_order_ref |-> U64(10), new_order_ref |-> U64(18), shares |-> U32(26),
     price |-> U32(30)]

TradeNonCrossEncode ==
    [order_ref |-> U64(10), side |-> Code(18, Side), shares |-> U32(19), stock |-> Raw(23, 8),
     price |-> U32(31), match_number |-> U64(35)]

TradeNonCrossDecode ==
    [order_ref |-> U64(10), side |-> Code(18, Side), shares |-> U32(19), stock |-> Raw(23, 8),
     price |-> U32(31), match_number |-> U64(35)]

CrossTradeEncode ==
    [shares |-> U64(10), stock |-> Raw(18, 8), cross_price |-> U32(26), match_number |-> U64(30),
     cross_type |-> Code(38, CrossType)]

CrossTradeDecode ==
    [shares |-> U64(10), stock |-> Raw(18, 8), cross_price |-> U32(26), match_number |-> U64(30),
     cross_type |-> Code(38, CrossType)]

BrokenTradeEncode == [match_number |-> U64(10)]

BrokenTradeDecode == [match_number |-> U64(10)]

NoiiEncode ==
    [paired_shares |-> U64(10), imbalance_shares |-> U64(18),
     imbalance_direction |-> Code(26, ImbalanceDirection), stock |-> Raw(27, 8),
     far_price |-> U32(35), near_price |-> U32(39), current_reference_price |-> U32(43),
     cross_type |-> Code(47, CrossType), price_variation |-> Code(48, PriceVariation)]

NoiiDecode ==
    [paired_shares |-> U64(10), imbalance_shares |-> U64(18),
     imbalance_direction |-> Code(26, ImbalanceDirection), stock |-> Raw(27, 8),
     far_price |-> U32(35), near_price |-> U32(39), current_reference_price |-> U32(43),
     cross_type |-> Code(47, CrossType), price_variation |-> Code(48, PriceVariation)]

RetailPriceImprovementEncode ==
    [stock |-> Raw(10, 8), interest_flag |-> Code(18, RpiInterestFlag)]

RetailPriceImprovementDecode ==
    [stock |-> Raw(10, 8), interest_flag |-> Code(18, RpiInterestFlag)]

-----------------------------------------------------------------------------
(* Message::encode and Message::decode.                                      *)

EncodeTable ==
    [S |-> SystemEventEncode, R |-> StockDirectoryEncode, H |-> StockTradingActionEncode,
     Y |-> RegShoRestrictionEncode, L |-> MarketParticipantPositionEncode,
     V |-> MwcbDeclineLevelEncode, W |-> MwcbStatusEncode, K |-> IpoQuotingPeriodUpdateEncode,
     A |-> AddOrderEncode, F |-> AddOrderWithMpidEncode, E |-> OrderExecutedEncode,
     C |-> OrderExecutedWithPriceEncode, X |-> OrderCancelEncode, D |-> OrderDeleteEncode,
     U |-> OrderReplaceEncode, P |-> TradeNonCrossEncode, Q |-> CrossTradeEncode,
     B |-> BrokenTradeEncode, I |-> NoiiEncode, N |-> RetailPriceImprovementEncode]

DecodeTable ==
    [S |-> SystemEventDecode, R |-> StockDirectoryDecode, H |-> StockTradingActionDecode,
     Y |-> RegShoRestrictionDecode, L |-> MarketParticipantPositionDecode,
     V |-> MwcbDeclineLevelDecode, W |-> MwcbStatusDecode, K |-> IpoQuotingPeriodUpdateDecode,
     A |-> AddOrderDecode, F |-> AddOrderWithMpidDecode, E |-> OrderExecutedDecode,
     C |-> OrderExecutedWithPriceDecode, X |-> OrderCancelDecode, D |-> OrderDeleteDecode,
     U |-> OrderReplaceDecode, P |-> TradeNonCrossDecode, Q |-> CrossTradeDecode,
     B |-> BrokenTradeDecode, I |-> NoiiDecode, N |-> RetailPriceImprovementDecode]

encode_body(m, buf) ==
    WriteFields(WriteFields(buf, HeaderEncode, m.header), EncodeTable[m.tag], m.body)

\* Writes the message at the front of buf; what lies behind it stays.
encode(m, buf) ==
    LET total == encoded_len(m.tag)
    IN  IF Len(buf) < total THEN Err("BufferTooSmall")
        ELSE Ok(<<Ascii[m.tag]>> \o encode_body(m, SubSeq(buf, 2, total))
                \o SubSeq(buf, total + 1, Len(buf)))

decode_body(tag, body) ==
    IF Len(body) < body_len[tag] THEN Err("Truncated")
    ELSE IF ~CodesKnown(body, DecodeTable[tag]) THEN Err("InvalidEnumCode")
    ELSE Ok([tag |-> tag, header |-> ReadFields(body, HeaderDecode),
             body |-> ReadFields(body, DecodeTable[tag])])

\* Bytes after the body are not looked at.
decode(buf) ==
    IF buf = <<>> THEN Err("Truncated")
    ELSE IF ~\E t \in Tags : Ascii[t] = buf[1] THEN Err("UnknownMessageType")
    ELSE decode_body(CHOOSE t \in Tags : Ascii[t] = buf[1], Tail(buf))
=============================================================================
