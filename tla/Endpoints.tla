------------------------------ MODULE Endpoints ------------------------------
(***************************************************************************)
(* The endpoint classes of domestic/ and the registry that makes them.     *)
(* Every method of a REST class sends its body, cont_yn and next_key to    *)
(* the class's resource URL, under /api/dostk, with an api-id, its TR, of  *)
(* its own.  A class is a record: the path and, by method, the TRs.        *)
(***************************************************************************)

Account == [path |-> "acnt", trs |->
    [realized_profit_by_date |-> "ka10072", realized_profit_by_period |-> "ka10073",
     daily_realized_profit |-> "ka10074", unfilled_orders |-> "ka10075",
     filled_orders |-> "ka10076", today_realized_profit_detail |-> "ka10077",
     account_return_rate |-> "ka10085", unfilled_split_order_detail |-> "ka10088",
     today_trading_journal |-> "ka10170", deposit_detail |-> "kt00001",
     daily_estimated_deposit |-> "kt00002", estimated_asset |-> "kt00003",
     account_evaluation |-> "kt00004", filled_position |-> "kt00005",
     order_execution_detail |-> "kt00007", next_day_settlement |-> "kt00008",
     order_execution_status |-> "kt00009", withdrawable_amount |-> "kt00010",
     orderable_qty_by_margin |-> "kt00011", orderable_qty_by_credit |-> "kt00012",
     margin_detail |-> "kt00013", comprehensive_transaction_history |-> "kt00015",
     daily_return_detail |-> "kt00016", today_account_status |-> "kt00017",
     evaluation_balance_detail |-> "kt00018", account_number_inquiry |-> "ka00001",
     daily_balance_return_rate |-> "ka01690", gold_spot_balance |-> "kt50020",
     gold_spot_deposit |-> "kt50021", gold_spot_order_execution_all |-> "kt50030",
     gold_spot_order_execution |-> "kt50031", gold_spot_transaction_history |-> "kt50032",
     gold_spot_unfilled_orders |-> "kt50075"]]

StockInfo == [path |-> "stkinfo", trs |->
    [basic_stock_info |-> "ka10001", stock_trading_agent |-> "ka10002",
     execution_info |-> "ka10003", credit_trading_trend |-> "ka10013",
     daily_transaction_detail |-> "ka10015", new_high_low |-> "ka10016",
     upper_lower_limit |-> "ka10017", near_high_low |-> "ka10018",
     rapid_price_change |-> "ka10019", trading_volume_update |-> "ka10024",
     volume_concentration |-> "ka10025", high_low_per |-> "ka10026",
     change_rate_vs_opening |-> "ka10028", trading_agent_supply_demand |-> "ka10043",
     trading_agent_instant_volume |-> "ka10052", vi_triggered_stocks |-> "ka10054",
     today_vs_yesterday_volume |-> "ka10055", daily_trading_by_investor |-> "ka10058",
     investor_institution_by_stock |-> "ka10059", investor_institution_aggregate |-> "ka10061",
     today_vs_yesterday_execution |-> "ka10084", watchlist_stock_info |-> "ka10095",
     stock_info_list |-> "ka10099", stock_info_inquiry |-> "ka10100",
     industry_code_list |-> "ka10101", member_company_list |-> "ka10102",
     program_buy_top50 |-> "ka90003", program_trading_by_stock |-> "ka90004",
     realtime_stock_inquiry_rank |-> "ka00198", margin_loan_available_stocks |-> "kt20016",
     margin_loan_inquiry |-> "kt20017"]]

Market == [path |-> "mrkcond", trs |->
    [stock_quote |-> "ka10004", stock_daily_weekly_monthly |-> "ka10005",
     stock_minute_price |-> "ka10006", order_book_info |-> "ka10007",
     rights_issue_price |-> "ka10011", daily_institutional_trading |-> "ka10044",
     institutional_trading_trend |-> "ka10045", hourly_execution_strength |-> "ka10046",
     daily_execution_strength |-> "ka10047", intraday_investor_trading |-> "ka10063",
     after_hours_investor_trading |-> "ka10066", broker_stock_trading_trend |-> "ka10078",
     daily_stock_price |-> "ka10086", after_hours_single_price |-> "ka10087",
     program_trading_by_time |-> "ka90005", program_arbitrage_balance |-> "ka90006",
     cumulative_program_trading |-> "ka90007", program_trading_by_stock_time |-> "ka90008",
     program_trading_by_date |-> "ka90010", program_trading_by_stock_day |-> "ka90013",
     gold_spot_execution_trend |-> "ka50010", gold_spot_daily_trend |-> "ka50012",
     gold_spot_expected_execution |-> "ka50087", gold_spot_price_info |-> "ka50100",
     gold_spot_order_book |-> "ka50101"]]

Chart == [path |-> "chart", trs |->
    [investor_institution_chart |-> "ka10060", intraday_investor_chart |-> "ka10064",
     stock_tick_chart |-> "ka10079", stock_minute_chart |-> "ka10080",
     stock_daily_chart |-> "ka10081", stock_weekly_chart |-> "ka10082",
     stock_monthly_chart |-> "ka10083", stock_yearly_chart |-> "ka10094",
     industry_tick_chart |-> "ka20004", industry_minute_chart |-> "ka20005",
     industry_daily_chart |-> "ka20006", industry_weekly_chart |-> "ka20007",
     industry_monthly_chart |-> "ka20008", industry_yearly_chart |-> "ka20019",
     gold_spot_tick_chart |-> "ka50079", gold_spot_minute_chart |-> "ka50080",
     gold_spot_daily_chart |-> "ka50081", gold_spot_weekly_chart |-> "ka50082",
     gold_spot_monthly_chart |-> "ka50083", gold_spot_intraday_tick_chart |-> "ka50091",
     gold_spot_intraday_minute_chart |-> "ka50092"]]

Order == [path |-> "ordr", trs |->
    [buy_order |-> "kt10000", sell_order |-> "kt10001", modify_order |-> "kt10002",
     cancel_order |-> "kt10003", gold_spot_buy_order |-> "kt50000",
     gold_spot_sell_order |-> "kt50001", gold_spot_modify_order |-> "kt50002",
     gold_spot_cancel_order |-> "kt50003"]]

CreditOrder == [path |-> "crdordr", trs |->
    [margin_buy_order |-> "kt10006", margin_sell_order |-> "kt10007",
     margin_modify_order |-> "kt10008", margin_cancel_order |-> "kt10009"]]

Ranking == [path |-> "rkinfo", trs |->
    [top_order_book_volume |-> "ka10020", sudden_order_book_increase |-> "ka10021",
     sudden_order_ratio_increase |-> "ka10022", sudden_volume_increase |-> "ka10023",
     top_change_rate |-> "ka10027", top_expected_change_rate |-> "ka10029",
     top_volume_today |-> "ka10030", top_volume_yesterday |-> "ka10031",
     top_trading_value |-> "ka10032", top_credit_ratio |-> "ka10033",
     top_foreign_trades_by_period |-> "ka10034", top_foreign_consecutive_buy |-> "ka10035",
     top_foreign_limit_increase |-> "ka10036", top_foreign_broker_trading |-> "ka10037",
     broker_ranking_by_stock |-> "ka10038", top_broker_by_stock |-> "ka10039",
     main_brokers_today |-> "ka10040", top_net_buying_brokers |-> "ka10042",
     departed_brokers_today |-> "ka10053", same_day_net_buying_rank |-> "ka10062",
     top_intraday_investor_trading |-> "ka10065", after_hours_change_rate_rank |-> "ka10098",
     top_foreign_institution_trades |-> "ka90009"]]

Sector == [path |-> "sect", trs |->
    [industry_program_trading |-> "ka10010", industry_investor_net_buy |-> "ka10051",
     industry_current_price |-> "ka20001", industry_stock_price |-> "ka20002",
     all_industry_index |-> "ka20003", industry_daily_price |-> "ka20009"]]

ForeignInstitution == [path |-> "frgnistt", trs |->
    [foreign_trading_trend |-> "ka10008", institutional_stock |-> "ka10009",
     consecutive_trading_status |-> "ka10131", gold_spot_investor_status |-> "ka52301"]]

ShortSelling == [path |-> "shsa", trs |->
    [short_selling_trend |-> "ka10014"]]

SLB == [path |-> "slb", trs |->
    [lending_trend |-> "ka10068", top10_lending |-> "ka10069",
     lending_trend_by_stock |-> "ka20068", lending_details |-> "ka90012"]]

Theme == [path |-> "thme", trs |->
    [theme_group_list |-> "ka90001", theme_component_stocks |-> "ka90002"]]

ELW == [path |-> "elw", trs |->
    [daily_sensitivity_indicator |-> "ka10048", sensitivity_indicator |-> "ka10050",
     price_spike |-> "ka30001", top_net_buying_by_broker |-> "ka30002",
     lp_daily_holding_trend |-> "ka30003", premium_rate |-> "ka30004",
     condition_search |-> "ka30005", change_rate_ranking |-> "ka30009",
     order_volume_ranking |-> "ka30010", proximity_rate |-> "ka30011",
     detailed_stock_info |-> "ka30012"]]

ETF == [path |-> "etf", trs |->
    [return_rate |-> "ka40001", stock_info |-> "ka40002", daily_trend |-> "ka40003",
     overall_market_price |-> "ka40004", time_segment_trend |-> "ka40006",
     time_segment_execution |-> "ka40007", daily_execution |-> "ka40008", time_nav |-> "ka40009",
     time_trend |-> "ka40010"]]

\* ConditionSearch only builds payloads, which travel over the WebSocket.
ConditionSearch ==
    [path |-> "websocket", trs |->
        [condition_list |-> "CNSRLST", condition_search |-> "CNSRREQ",
         condition_search_realtime |-> "CNSRREQ", condition_search_cancel |-> "CNSRCLR"]]

\* The class behind each property of ModuleRegistry.
Classes ==
    [account |-> Account, stock_info |-> StockInfo, market |-> Market, chart |-> Chart,
     order |-> Order, credit_order |-> CreditOrder, ranking |-> Ranking, sector |-> Sector,
     foreign_institution |-> ForeignInstitution, short_selling |-> ShortSelling, slb |-> SLB,
     theme |-> Theme, condition_search |-> ConditionSearch, elw |-> ELW, etf |-> ETF]

ModuleNames == DOMAIN Classes

\* Mutant: a property pasted from its neighbour keeps the neighbour's attribute.
SlotOfNeighbour(name) == IF name = "slb" THEN "short_selling" ELSE name

\* The private attribute in which a property keeps its object.
Slot(name) == name

NotMade == "not made"
NoModules == [name \in ModuleNames |-> NotMade]

\* What a property gives, when the objects in "made" exist: the one in its slot, or a
\* new one of its own class.  An object is named by the property of its class.
ModuleIn(made, name) == IF made[Slot(name)] = NotMade THEN name ELSE made[Slot(name)]

\* The objects that exist once the property has been read.
MakeModule(made, name) == [made EXCEPT ![Slot(name)] = ModuleIn(made, name)]
=============================================================================
