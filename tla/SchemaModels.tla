----------------------------- MODULE SchemaModels -----------------------------
(***************************************************************************)
(* The tables the ORM declares (persistence/models.py): what every query   *)
(* and insert of the program is compiled from.  One definition per mapped  *)
(* class, as the table it would create; a constraint SQLAlchemy names only *)
(* when it creates it has the name "".                                     *)
(***************************************************************************)
EXTENDS SchemaOps

\* iv_{tenor}_{delta}, set on the class by the loop below it.
IvColumns == {"iv_" \o t \o "_" \o d : t \in {"1m", "2m", "3m", "4m", "5m", "6m"},
                                       d \in {"10dp", "25dp", "atm", "25dc", "10dc"}}

OpenPosition ==
  Create("open_position", {"id", "structure", "product_label", "contract_id", "trade_id",
    "package_id", "side", "tenor", "expiry", "quantity", "nominal_eur", "contract_price_entry",
    "market_price", "current_pnl_usd", "delta_usd", "gamma_usd", "vega_usd", "theta_usd", "iv",
    "vanna_usd", "volga_usd", "entry_timestamp", "timestamp"}, {Fk("", {"trade_id"},
    "trade_structure"), Fk("", {"package_id"}, "package"), Ck("ck_positions_side", {"side"})})
OpenPositionHistory ==
  Create("open_position_history", {"id", "position_id", "timestamp", "structure", "product_label",
    "contract_id", "trade_id", "package_id", "side", "tenor", "expiry", "quantity", "nominal_eur",
    "contract_price_entry", "market_price", "current_pnl_usd", "delta_usd", "gamma_usd",
    "vega_usd", "theta_usd", "iv", "vanna_usd", "volga_usd"}, {Fk("", {"trade_id"},
    "trade_structure"), Fk("", {"package_id"}, "package")})
AccountHistory ==
  Create("account_history", {"id", "timestamp", "net_liq_usd", "cash_usd", "unrealized_pnl_usd",
    "accrued_cash", "gross_position_value", "init_margin_req", "maint_margin_req",
    "excess_liquidity", "cushion", "currencies", "open_positions_count"}, {<<"ix",
    "ix_account_history_ts", {"timestamp"}, "">>})
VolSurface ==
  Create("vol_surface_history", {"id", "timestamp", "underlying", "spot", "forward",
    "surface_data"}, {Uq("uq_vol_surfaces_ts_underlying", {"timestamp", "underlying"})})
RegimeSnapshot ==
  Create("regime_snapshot_history", {"id", "timestamp", "symbol", "label", "method",
    "vol_level_pct", "vol_of_vol_pct", "term_slope_pct", "vol_level_z", "vol_of_vol_z",
    "term_slope_z", "p_calm", "p_stressed", "p_pre_event", "event_dampener", "days_to_next_event",
    "next_event_type", "bucket_vol_level", "delta_z_1h_vol_level", "pct_vol_level",
    "signal_vol_level", "bucket_vol_of_vol", "delta_z_1h_vol_of_vol", "pct_vol_of_vol",
    "signal_vol_of_vol", "bucket_term_slope", "delta_z_1h_term_slope", "pct_term_slope",
    "signal_term_slope"}, {Ck("ck_regime_snapshot_history_label", {"label"}),
    Uq("uq_regime_snapshot_symbol_ts", {"symbol", "timestamp"})})
FeatureHistory ==
  Create("feature_history", {"id", "timestamp", "symbol", "iv_atm_1m_pct", "iv_atm_3m_pct",
    "iv_atm_6m_pct", "rv_yz_pct", "vol_of_vol_30d_pct", "term_slope_pct", "vol_level_z90",
    "vol_of_vol_z90", "term_slope_z90"}, {Uq("uq_feature_history_symbol_ts", {"symbol",
    "timestamp"})})
Event ==
  Create("event_calendar", {"id", "event_hash", "event_type", "impact", "region", "scheduled_at",
    "description", "source", "source_url", "inserted_at"}, {Ck("ck_events_impact", {"impact"}),
    Uq("uq_events_event_hash", {"event_hash"})})
VolConfig ==
  Create("config_vol_engine", {"version", "config", "updated_at", "updated_by", "comment"}, {})
SurfaceSnapshotHourly ==
  Create("pca_surface_snapshot_history", {"id", "timestamp", "symbol", "source",
    "spot_at_snapshot", "n_strikes_present", "has_no_arb_violation"} \cup IvColumns,
    {Uq("uq_surface_snap_hourly_symbol_ts", {"symbol", "timestamp"})})
PcaModel ==
  Create("pca_model", {"id", "version", "fit_timestamp", "fit_window_start", "fit_window_end",
    "n_obs_used", "means", "stds", "loadings", "eigenvalues", "variance_explained_ratio",
    "n_components_kept", "is_active", "superseded_by", "cosine_similarity_pc1",
    "cosine_similarity_pc2", "cosine_similarity_pc3", "sign_flip_pc1", "sign_flip_pc2",
    "sign_flip_pc3", "notes"}, {Uq("", {"version"}), Fk("", {"superseded_by"}, "pca_model")})
PcaSignal ==
  Create("pca_signal_history", {"id", "timestamp", "symbol", "pca_model_id", "pc_id", "raw_score",
    "z_score", "label", "actionable", "actionable_reason", "sub_signals"}, {Fk("",
    {"pca_model_id"}, "pca_model"), Uq("uq_pca_signals_symbol_ts_model_pc", {"symbol",
    "timestamp", "pca_model_id", "pc_id"}), Ck("ck_pca_signals_label", {"label"}),
    Ck("ck_pca_signals_pc_id", {"pc_id"})})
TradePreviewRow ==
  Create("trade_preview", {"id", "preview_id", "created_at", "expires_at", "pca_signal_id",
    "triggering_pc", "armed_z_score", "armed_signal_label", "structure_type", "product_label",
    "reference_tenor", "structure_full_payload", "state", "pre_submit_checks", "blocking_reasons",
    "user_action", "user_action_at", "submitted_trade_id"}, {Uq("", {"preview_id"}), Fk("",
    {"pca_signal_id"}, "pca_signal_history"), Ck("ck_trade_previews_state", {"state"})})
BookStateSnapshot ==
  Create("book_state_snapshot_history", {"id", "timestamp", "symbol", "total_vega_usd",
    "total_gamma_usd", "total_theta_usd", "total_delta", "vega_by_tenor", "vega_by_pc_source",
    "n_open_structures", "n_open_legs", "notional_engaged_usd", "capital_total_usd",
    "margin_used_usd", "is_current"}, {})
AppConfigScalar ==
  Create("config_scalar", {"id", "namespace", "name", "value", "unit", "description", "is_active",
    "updated_at", "updated_by"}, {Uq("uq_config_scalar_ns_name", {"namespace", "name"})})
Package ==
  Create("package", {"id", "created_at", "label", "description"}, {})
TradeStructure ==
  Create("trade_structure", {"id", "created_at", "preview_id", "pca_signal_id", "triggering_pc",
    "armed_z_score", "armed_signal_label", "structure_type", "product_label", "package_id",
    "reference_tenor", "expiry_date", "base_qty", "state", "state_updated_at",
    "ib_combo_order_id", "execution_mode", "total_premium_paid_usd", "total_slippage_usd",
    "total_commission_usd", "total_entry_cost_usd", "first_fill_at", "fully_filled_at",
    "closed_at", "close_reason", "trace_id", "submit_claimed_at", "rollback_started_at"}, {Uq("",
    {"preview_id"}), Fk("", {"preview_id"}, "trade_preview"), Fk("", {"pca_signal_id"},
    "pca_signal_history"), Fk("", {"package_id"}, "package"), Ck("ck_trade_structures_state",
    {"state"})})
StructureOrder ==
  Create("trade_order", {"id", "structure_id", "leg_idx", "order_role", "ib_order_id",
    "ib_perm_id", "ib_local_symbol", "contract_symbol", "contract_type", "contract_expiry",
    "contract_strike", "contract_exchange", "contract_currency", "side", "qty", "order_type",
    "limit_price", "time_in_force", "preview_iv_pct", "preview_price", "state",
    "state_updated_at", "submitted_at", "submit_claimed_at", "acknowledged_at", "rejected_at",
    "rejection_code", "rejection_text", "qty_filled", "avg_fill_price", "total_commission_usd",
    "fully_filled_at", "slippage_per_contract", "total_slippage_usd", "trace_id",
    "closes_order_id"}, {Fk("", {"structure_id"}, "trade_structure"), Fk("", {"closes_order_id"},
    "trade_order"), Uq("uq_structure_orders_structure_leg_role", {"structure_id", "leg_idx",
    "order_role"}), Ck("ck_structure_orders_state", {"state"}), Ck("ck_structure_orders_side",
    {"side"}), Ck("ck_structure_orders_order_role", {"order_role"})})
StructureFill ==
  Create("trade_fill", {"id", "order_id", "ib_execution_id", "timestamp", "qty_filled",
    "fill_price", "commission_usd", "currency", "exchange", "side", "spot_at_fill", "bid_at_fill",
    "ask_at_fill", "iv_implied_from_fill", "received_at", "trace_id"}, {Fk("", {"order_id"},
    "trade_order"), Uq("", {"ib_execution_id"})})
LegPosition ==
  Create("leg_position", {"id", "order_id", "open_qty", "reserved_qty", "avg_price",
    "realized_pnl_usd", "rebuilt_at"}, {Uq("", {"order_id"}), Fk("", {"order_id"},
    "trade_order")})
ReconciliationBreak ==
  Create("reconciliation_break", {"id", "local_symbol", "book_qty", "broker_qty", "diff",
    "break_type", "detected_at", "last_seen_at", "resolved_at"},
    {Ck("ck_reconciliation_break_type", {"break_type"})})
BookedPosition ==
  Create("booked_position", {"id", "structure_id", "opened_at", "entry_premium_usd",
    "entry_total_cost_usd", "state", "state_updated_at", "entry_vega_usd_per_volpt",
    "entry_gamma_usd_per_pip2", "entry_theta_usd_per_day", "entry_spot", "entry_iv_avg",
    "entry_regime", "closed_at", "close_reason", "exit_premium_usd", "exit_total_cost_usd",
    "gross_pnl_usd", "net_pnl_usd", "ib_reconciled_at", "ib_qty_total", "ib_qty_diff"}, {Uq("",
    {"structure_id"}), Fk("", {"structure_id"}, "trade_structure"), Ck("ck_trade_positions_state",
    {"state"})})
IbConnectionState ==
  Create("runtime_ib_session", {"id", "broker", "is_connected", "last_heartbeat", "account_id",
    "account_type", "available_funds_usd", "buying_power_usd", "margin_used_usd",
    "gateway_version", "api_version", "last_disconnect_at", "n_disconnects_24h", "updated_at"},
    {Uq("", {"broker"}), Ck("ck_ib_connection_account_type", {"account_type"})})
SpotOrder ==
  Create("spot_order", {"id", "created_at", "symbol", "currency", "exchange", "side", "qty",
    "order_type", "limit_price", "ib_order_id", "ib_perm_id", "ib_local_symbol", "state",
    "state_updated_at", "qty_filled", "avg_fill_price", "commission_usd", "filled_at",
    "rejection_text", "trace_id", "ib_status", "why_held"}, {<<"ix", "ix_spot_order_created_at",
    {"created_at"}, "">>})
BookedPositionMetricHistory ==
  Create("booked_position_metric_history", {"id", "position_id", "timestamp", "spot",
    "iv_avg_legs_pct", "current_pnl_gross_usd", "current_pnl_net_usd", "vega_pnl_usd",
    "gamma_pnl_usd", "theta_pnl_usd", "other_pnl_usd", "current_vega_usd_per_volpt",
    "current_gamma_usd_per_pip2", "current_theta_usd_per_day", "current_delta_unhedged",
    "triggering_pc", "current_z_score", "current_label", "entry_z_score", "entry_label",
    "weakening_ratio", "sign_flipped", "signal_status"}, {Fk("", {"position_id"},
    "booked_position"), Uq("uq_mtm_position_ts", {"position_id", "timestamp"}),
    Ck("ck_signal_track_status", {"signal_status"})})
HedgeOrder ==
  Create("hedge_order", {"id", "position_id", "triggered_at", "submitted_at", "submit_claimed_at",
    "filled_at", "delta_imbalance_at_trigger", "rebalance_threshold_used", "hedge_qty", "side",
    "ib_order_id", "fill_price", "commission_usd", "spread_paid_usd", "total_cost_usd", "state"},
    {Fk("", {"position_id"}, "booked_position"), Ck("ck_hedge_orders_side", {"side"}),
    Ck("ck_hedge_orders_state", {"state"})})
ExitAlert ==
  Create("exit_alert", {"id", "position_id", "timestamp", "rule_triggered", "action_recommended",
    "priority", "rule_detail", "auto_executed", "execution_status", "closing_structure_id",
    "notes"}, {Fk("", {"position_id"}, "booked_position"), Fk("", {"closing_structure_id"},
    "trade_structure"), Ck("ck_exit_alerts_action", {"action_recommended"}),
    Ck("ck_exit_alerts_exec_status", {"execution_status"})})
ExitRulesConfig ==
  Create("config_exit_rules", {"id", "rule_name", "is_active", "priority", "params",
    "description", "updated_at", "updated_by"}, {Uq("", {"rule_name"}),
    Ck("ck_exit_rules_priority", {"priority"})})
TradeEvent ==
  Create("trade_event", {"id", "ts", "event_type", "severity", "structure_id", "order_id",
    "position_id", "description", "payload"}, {Fk("", {"structure_id"}, "trade_structure"), Fk("",
    {"order_id"}, "trade_order"), Fk("", {"position_id"}, "booked_position"),
    Ck("ck_trade_event_severity", {"severity"})})
PortfolioDaily ==
  Create("portfolio_daily", {"id", "day", "net_liq_open", "net_liq_close", "mtm_usd",
    "realized_usd", "n_closed", "n_samples", "first_sample_at", "last_sample_at", "computed_at"},
    {Uq("uq_portfolio_daily_day", {"day"})})
PnlAttributionLatest ==
  Create("pnl_attribution_latest", {"id", "lookback_hours", "computed_at", "window_start",
    "forward_source", "n_positions", "per_position"}, {Uq("uq_pnl_attribution_latest_lookback",
    {"lookback_hours"})})
DbWriterDeadLetter ==
  Create("db_writer_dead_letter", {"id", "table_name", "payload", "error", "created_at",
    "replayed_at"}, {})

\* Base.metadata.
Models ==
  { OpenPosition, OpenPositionHistory, AccountHistory, VolSurface, RegimeSnapshot, FeatureHistory,
    Event, VolConfig, SurfaceSnapshotHourly, PcaModel, PcaSignal, TradePreviewRow,
    BookStateSnapshot, AppConfigScalar, Package, TradeStructure, StructureOrder, StructureFill,
    LegPosition, ReconciliationBreak, BookedPosition, IbConnectionState, SpotOrder,
    BookedPositionMetricHistory, HedgeOrder, ExitAlert, ExitRulesConfig, TradeEvent,
    PortfolioDaily, PnlAttributionLatest, DbWriterDeadLetter }
==============================================================================
