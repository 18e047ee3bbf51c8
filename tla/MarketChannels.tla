--------------------------- MODULE MarketChannels ---------------------------
(***************************************************************************)
(* The channel tables of marketdata/MarketDataEngine.js: which channel of  *)
(* an exchange a subscription of a data type asks for, and to which data   *)
(* types the engine dispatches a message of that channel.  One symbol, so  *)
(* a channel is its name without the instrument.  "none" stands for the    *)
(* types the builder throws on.                                            *)
(***************************************************************************)

DataTypes == {"ticker", "depth", "trade", "fundingRate", "kline"}

Table(ticker, depth, trade, fundingRate, kline) ==
  [ticker |-> ticker, depth |-> depth, trade |-> trade,
   fundingRate |-> fundingRate, kline |-> kline]

BinanceChannel(spot) ==
  Table("@ticker", "@depth20", "@trade", "@markPrice", "@kline")

BybitChannel(spot) ==
  Table("tickers", "orderbook.50", "publicTrade", "tickers", "kline")

OKXChannel(spot) ==
  Table("tickers", "books5", "trades", "funding-rate", "candle")

\* an instrument that is no perpetual has no funding rate
DeribitChannel(perpetual) ==
  Table("ticker", "book", "trades", IF perpetual THEN "perpetual" ELSE "none",
        "chart.trades")

GateChannel(spot) ==
  Table("tickers", "order_book_update", "trades",
        IF spot THEN "none" ELSE "tickers", "candlesticks")

BitgetChannel(spot) ==
  Table("ticker", "books15", "trade", IF spot THEN "none" ELSE "ticker", "candle")

KuCoinChannel(spot) ==
  IF spot
  THEN Table("/market/ticker", "/spotMarket/level2Depth5", "/market/match",
             "none", "/market/candles")
  ELSE Table("/contractMarket/tickerV2", "/contractMarket/level2Depth5",
             "/contractMarket/execution", "/contract/instrument",
             "/contractMarket/candle")

KrakenChannel(spot) ==
  IF spot THEN Table("ticker", "book", "trade", "none", "ohlc")
          ELSE Table("ticker", "book", "trade", "ticker", "none")

\* _buildSubscribeMessage(); _buildUnsubscribeMessage() names the same channel
ChannelTable(ex, spot) ==
  CASE ex = "binance" -> BinanceChannel(spot)
    [] ex = "bybit"   -> BybitChannel(spot)
    [] ex = "okx"     -> OKXChannel(spot)
    [] ex = "deribit" -> DeribitChannel(~spot)
    [] ex = "gate"    -> GateChannel(spot)
    [] ex = "bitget"  -> BitgetChannel(spot)
    [] ex = "kucoin"  -> KuCoinChannel(spot)
    [] ex = "kraken"  -> KrakenChannel(spot)

\* The data types a message of channel ch is dispatched to: t[k] are the channels
\* whose messages the handler gives to the processing of type k.
Dispatched(ch, t) == {k \in DataTypes : ch \in t[k]}

BinanceServes(ch, spot) ==
  Dispatched(ch, Table({"@ticker"}, {"@depth20"}, {"@trade"}, {"@markPrice"}, {"@kline"}))

BybitServes(ch, spot) ==
  Dispatched(ch, Table({"tickers"}, {"orderbook.50"}, {"publicTrade"}, {}, {"kline"}))

OKXServes(ch, spot) ==
  Dispatched(ch, Table({"tickers"}, {"books5"}, {"trades"}, {"funding-rate"}, {"candle"}))

DeribitServes(ch, spot) ==
  Dispatched(ch, Table({"ticker"}, {"book"}, {"trades"}, {"perpetual"}, {"chart.trades"}))

GateServes(ch, spot) ==
  Dispatched(ch, Table({"tickers"}, {"order_book_update", "order_book"}, {"trades"},
                       IF spot THEN {} ELSE {"tickers"}, {"candlesticks"}))

BitgetServes(ch, spot) ==
  Dispatched(ch, Table({"ticker"}, {"books5", "books15", "books"}, {"trade"},
                       IF spot THEN {} ELSE {"ticker"}, {"candle"}))

KuCoinServes(ch, spot) ==
  Dispatched(ch, Table({"/market/ticker", "/contractMarket/tickerV2"},
                       {"/spotMarket/level2Depth5", "/contractMarket/level2Depth5"},
                       {"/market/match", "/contractMarket/execution"},
                       {"/contract/instrument"},
                       {"/market/candles", "/contractMarket/candle"}))

KrakenServes(ch, spot) ==
  Dispatched(ch, IF spot THEN Table({"ticker"}, {"book"}, {"trade"}, {}, {"ohlc"})
                         ELSE Table({"ticker"}, {"book"}, {"trade"}, {"ticker"}, {}))

\* _handleMessage()
Serves(ex, ch, spot) ==
  CASE ex = "binance" -> BinanceServes(ch, spot)
    [] ex = "bybit"   -> BybitServes(ch, spot)
    [] ex = "okx"     -> OKXServes(ch, spot)
    [] ex = "deribit" -> DeribitServes(ch, spot)
    [] ex = "gate"    -> GateServes(ch, spot)
    [] ex = "bitget"  -> BitgetServes(ch, spot)
    [] ex = "kucoin"  -> KuCoinServes(ch, spot)
    [] ex = "kraken"  -> KrakenServes(ch, spot)
=============================================================================
