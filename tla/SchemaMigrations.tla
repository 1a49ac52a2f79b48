-------------------------- MODULE SchemaMigrations --------------------------
(***************************************************************************)
(* The files of persistence/migrations/versions: one definition each, the  *)
(* operations of its upgrade() and of its downgrade() in their order, on   *)
(* PostgreSQL.  Consecutive add_column (drop_column) calls on one table    *)
(* are one operation; a seed or a copy of rows is the columns it touches.  *)
(***************************************************************************)
EXTENDS SchemaOps, SchemaModels

M001 == Migration("001_initial_schema", "base",
  << Create("account_snaps", {"id", "timestamp", "net_liq_usd", "cash_usd", "buying_power_usd",
         "available_usd", "unrealized_pnl_usd", "realized_pnl_usd", "gross_position_value_usd",
         "currencies", "open_positions_count"}, {}),
     Create("backtest_runs", {"id", "strategy_name", "parameters", "start_date", "end_date",
         "sharpe_ratio", "sortino_ratio", "max_drawdown_pct", "max_drawdown_duration_days",
         "hit_rate", "total_return_pct", "annualized_return_pct", "annualized_vol_pct", "n_trades",
         "avg_holding_period_days", "profit_factor", "equity_curve", "trades_log", "created_at"},
         {}),
     Create("positions", {"id", "symbol", "instrument_type", "side", "quantity", "strike",
         "maturity", "option_type", "entry_price", "entry_timestamp", "exit_price",
         "exit_timestamp", "status", "created_at", "updated_at"},
         {Ck("ck_positions_instrument_type", {"instrument_type"}), Ck("ck_positions_option_type",
         {"option_type"}), Ck("ck_positions_side", {"side"}), Ck("ck_positions_status",
         {"status"})}),
     Create("signals", {"id", "timestamp", "underlying", "tenor", "dte", "sigma_mid", "sigma_fair",
         "ecart", "signal_type", "rv"}, {Ck("ck_signals_signal_type", {"signal_type"}),
         Uq("uq_signals_ts_underlying_tenor", {"timestamp", "underlying", "tenor"})}),
     Create("vol_surfaces", {"id", "timestamp", "underlying", "spot", "forward", "surface_data",
         "fair_vol_data", "rv_data", "scan_duration_s"}, {Uq("uq_vol_surfaces_ts_underlying",
         {"timestamp", "underlying"})}),
     Create("position_snapshots", {"id", "position_id", "timestamp", "spot", "iv", "delta_usd",
         "vega_usd", "gamma_usd", "theta_usd", "pnl_usd"},
         {Fk("position_snapshots_position_id_fkey", {"position_id"}, "positions")}),
     Create("trades", {"id", "position_id", "ib_order_id", "side", "quantity", "price",
         "commission", "timestamp", "spot_at_execution", "iv_at_execution"}, {Ck("ck_trades_side",
         {"side"}), Fk("trades_position_id_fkey", {"position_id"}, "positions"),
         Uq("uq_trades_ib_order_id", {"ib_order_id"})}) >>,
  << Drop("trades"), Drop("position_snapshots"), Drop("vol_surfaces"), Drop("signals"),
     Drop("positions"), Drop("backtest_runs"), Drop("account_snaps") >>)

M002 == Migration("002_add_indices", "001_initial_schema",
  << Index("idx_positions_symbol_status", "positions", {"symbol", "status"}),
     Index("idx_positions_entry_ts", "positions", {"entry_timestamp"}),
     Index("idx_positions_status_active", "positions", {"status"}),
     Index("idx_pos_snaps_position_ts", "position_snapshots", {"position_id", "timestamp"}),
     Index("idx_pos_snaps_ts", "position_snapshots", {"timestamp"}),
     Index("idx_vol_surf_underlying_ts", "vol_surfaces", {"underlying", "timestamp"}),
     Index("idx_vol_surf_ts", "vol_surfaces", {"timestamp"}),
     Index("idx_vol_surf_data_gin", "vol_surfaces", {"surface_data"}),
     Index("idx_signals_underlying_tenor_ts", "signals", {"underlying", "tenor", "timestamp"}),
     Index("idx_signals_type_ts", "signals", {"signal_type", "timestamp"}),
     Index("idx_signals_ts", "signals", {"timestamp"}),
     Index("idx_trades_position", "trades", {"position_id"}),
     Index("idx_trades_ts", "trades", {"timestamp"}),
     Index("idx_account_ts", "account_snaps", {"timestamp"}),
     Index("idx_backtest_strategy", "backtest_runs", {"strategy_name"}),
     Index("idx_backtest_created", "backtest_runs", {"created_at"}) >>,
  << DropIndex("idx_backtest_created"), DropIndex("idx_backtest_strategy"),
     DropIndex("idx_account_ts"), DropIndex("idx_trades_ts"), DropIndex("idx_trades_position"),
     DropIndex("idx_signals_ts"), DropIndex("idx_signals_type_ts"),
     DropIndex("idx_signals_underlying_tenor_ts"), DropIndex("idx_vol_surf_data_gin"),
     DropIndex("idx_vol_surf_ts"), DropIndex("idx_vol_surf_underlying_ts"),
     DropIndex("idx_pos_snaps_ts"), DropIndex("idx_pos_snaps_position_ts"),
     DropIndex("idx_positions_status_active"), DropIndex("idx_positions_entry_ts"),
     DropIndex("idx_positions_symbol_status") >>)

M254f == Migration("254fc54bb36f", "002_add_indices",
  << DropIndex("idx_account_ts"), DropIndex("idx_backtest_created"),
     DropIndex("idx_backtest_strategy"), DropIndex("idx_pos_snaps_position_ts"),
     DropIndex("idx_pos_snaps_ts"), DropIndex("idx_positions_entry_ts"),
     DropIndex("idx_positions_status_active"), DropIndex("idx_positions_symbol_status"),
     DropIndex("idx_signals_ts"), DropIndex("idx_signals_type_ts"),
     DropIndex("idx_signals_underlying_tenor_ts"), DropIndex("idx_trades_position"),
     DropIndex("idx_trades_ts"), DropIndex("idx_vol_surf_data_gin"), DropIndex("idx_vol_surf_ts"),
     DropIndex("idx_vol_surf_underlying_ts") >>,
  << Index("idx_vol_surf_underlying_ts", "vol_surfaces", {"underlying", "timestamp"}),
     Index("idx_vol_surf_ts", "vol_surfaces", {"timestamp"}),
     Index("idx_vol_surf_data_gin", "vol_surfaces", {"surface_data"}),
     Index("idx_trades_ts", "trades", {"timestamp"}),
     Index("idx_trades_position", "trades", {"position_id"}),
     Index("idx_signals_underlying_tenor_ts", "signals", {"underlying", "tenor", "timestamp"}),
     Index("idx_signals_type_ts", "signals", {"signal_type", "timestamp"}),
     Index("idx_signals_ts", "signals", {"timestamp"}),
     Index("idx_positions_symbol_status", "positions", {"symbol", "status"}),
     Index("idx_positions_status_active", "positions", {"status"}),
     Index("idx_positions_entry_ts", "positions", {"entry_timestamp"}),
     Index("idx_pos_snaps_ts", "position_snapshots", {"timestamp"}),
     Index("idx_pos_snaps_position_ts", "position_snapshots", {"position_id", "timestamp"}),
     Index("idx_backtest_strategy", "backtest_runs", {"strategy_name"}),
     Index("idx_backtest_created", "backtest_runs", {"created_at"}),
     Index("idx_account_ts", "account_snaps", {"timestamp"}) >>)

M003 == Migration("003_svi_ssvi_params", "254fc54bb36f",
  << Create("svi_params", {"id", "timestamp", "underlying", "tenor", "a", "b", "rho", "m", "sigma",
         "rmse_fit", "butterfly_g_min"}, {Uq("uq_svi_params_ts_underlying_tenor", {"timestamp",
         "underlying", "tenor"})}),
     Index("idx_svi_params_underlying_tenor_ts", "svi_params", {"underlying", "tenor",
         "timestamp"}),
     Create("ssvi_params", {"id", "timestamp", "underlying", "spot", "eta", "gamma", "rho",
         "rmse_fit", "calendar_arb_free"}, {Uq("uq_ssvi_params_ts_underlying", {"timestamp",
         "underlying"})}),
     Index("idx_ssvi_params_underlying_ts", "ssvi_params", {"underlying", "timestamp"}) >>,
  << DropIndex("idx_ssvi_params_underlying_ts"), Drop("ssvi_params"),
     DropIndex("idx_svi_params_underlying_tenor_ts"), Drop("svi_params") >>)

M004 == Migration("004_add_vol_config_table", "003_svi_ssvi_params",
  << Create("vol_config", {"version", "config", "updated_at", "updated_by", "comment"}, {}),
     Index("idx_vol_config_version_desc", "vol_config", {"version"}),
     Touch("vol_config", {"version", "config", "updated_by", "comment"}) >>,
  << DropIndex("idx_vol_config_version_desc"), Drop("vol_config") >>)

M005 == Migration("005_add_orders_table", "004_add_vol_config_table",
  << Create("orders", {"id", "ib_perm_id", "ib_order_id", "symbol", "sec_type", "expiry", "strike",
         "right", "side", "quantity", "limit_price", "status", "filled_qty", "avg_fill_price",
         "submitted_at", "updated_at"}, {Uq("uq_orders_ib_perm_id", {"ib_perm_id"}),
         Ck("ck_orders_side", {"side"}), Ck("ck_orders_sec_type", {"sec_type"})}),
     Index("idx_orders_status", "orders", {"status"}),
     Index("idx_orders_submitted_at", "orders", {"submitted_at"}) >>,
  << DropIndex("idx_orders_submitted_at"), DropIndex("idx_orders_status"), Drop("orders") >>)

M006 == Migration("006_drop_position_exit_cols", "005_add_orders_table",
  << DropColumns("positions", {"exit_price", "exit_timestamp"}) >>,
  << AddColumns("positions", {"exit_price", "exit_timestamp"}) >>)

M007 == Migration("007_add_order_events_table", "006_drop_position_exit_cols",
  << Create("order_events", {"id", "order_id", "action_type", "request_payload", "response_payload",
         "success", "error_message", "timestamp"}, {Fk("order_events_order_id_fkey", {"order_id"},
         "orders"), Ck("ck_order_events_action_type", {"action_type"})}),
     Index("idx_order_events_timestamp", "order_events", {"timestamp"}),
     Index("idx_order_events_order_id", "order_events", {"order_id"}) >>,
  << DropIndex("idx_order_events_order_id"), DropIndex("idx_order_events_timestamp"),
     Drop("order_events") >>)

M008 == Migration("008_account_snaps_cleanup", "007_add_order_events_table",
  << DropColumns("account_snaps", {"buying_power_usd", "available_usd", "realized_pnl_usd",
         "gross_position_value_usd"}),
     AddColumns("account_snaps", {"accrued_cash", "cushion", "init_margin_req", "maint_margin_req",
         "excess_liquidity", "gross_position_value"}) >>,
  << DropColumns("account_snaps", {"gross_position_value", "excess_liquidity", "maint_margin_req",
         "init_margin_req", "cushion", "accrued_cash"}),
     AddColumns("account_snaps", {"gross_position_value_usd", "realized_pnl_usd", "available_usd",
         "buying_power_usd"}) >>)

M009 == Migration("009_vol_tables_cleanup", "008_account_snaps_cleanup",
  << DropColumns("vol_surfaces", {"fair_vol_data", "rv_data"}),
     AddColumns("signals", {"sigma_fair_p", "vrp_vol_pts"}) >>,
  << DropColumns("signals", {"vrp_vol_pts", "sigma_fair_p"}),
     AddColumns("vol_surfaces", {"rv_data", "fair_vol_data"}) >>)

M010 == Migration("010_step1_regime_tables", "009_vol_tables_cleanup",
  << Create("regime_snapshots", {"id", "timestamp", "symbol", "label", "method", "vol_level_pct",
         "vol_of_vol_pct", "term_slope_pct", "vol_level_z", "vol_of_vol_z", "term_slope_z",
         "p_calm", "p_stressed", "p_pre_event", "event_dampener", "days_to_next_event",
         "next_event_type"}, {Ck("ck_regime_snapshots_label", {"label"})}),
     Index("ix_regime_snapshots_timestamp", "regime_snapshots", {"timestamp"}),
     Index("ix_regime_snapshots_symbol_ts", "regime_snapshots", {"symbol", "timestamp"}),
     Create("feature_history", {"id", "timestamp", "symbol", "iv_atm_1m_pct", "iv_atm_3m_pct",
         "iv_atm_6m_pct", "rv_yz_pct", "vol_of_vol_30d_pct", "term_slope_pct", "vol_level_z90",
         "vol_of_vol_z90", "term_slope_z90"}, {Uq("uq_feature_history_symbol_ts", {"symbol",
         "timestamp"})}),
     Index("ix_feature_history_symbol_ts", "feature_history", {"symbol", "timestamp"}),
     Create("events", {"id", "event_type", "impact", "region", "scheduled_at", "description",
         "source", "source_url", "inserted_at"}, {Ck("ck_events_impact", {"impact"})}),
     Index("ix_events_scheduled_at", "events", {"scheduled_at"}),
     Create("vrp_table_default", {"id", "regime", "tenor", "vrp_vol_pts", "calibration_method",
         "calibration_date", "notes"}, {Uq("uq_vrp_table_default_regime_tenor", {"regime",
         "tenor"}), Ck("ck_vrp_table_default_regime", {"regime"})}),
     Touch("vrp_table_default", {"regime", "tenor", "vrp_vol_pts"}) >>,
  << Drop("vrp_table_default"), DropIndex("ix_events_scheduled_at"), Drop("events"),
     DropIndex("ix_feature_history_symbol_ts"), Drop("feature_history"),
     DropIndex("ix_regime_snapshots_symbol_ts"), DropIndex("ix_regime_snapshots_timestamp"),
     Drop("regime_snapshots") >>)

M011_models ==
  << Create("surface_snapshots_hourly", {"id", "timestamp", "symbol", "source", "spot_at_snapshot",
         "n_strikes_present", "has_no_arb_violation"} \cup IvColumns,
         {Uq("uq_surface_snap_hourly_symbol_ts", {"symbol", "timestamp"})}),
     Index("ix_surface_snap_hourly_symbol_ts", "surface_snapshots_hourly", {"symbol", "timestamp"}),
     Create("pca_models", {"id", "version", "fit_timestamp", "fit_window_start", "fit_window_end",
         "n_obs_used", "means", "stds", "loadings", "eigenvalues", "variance_explained_ratio",
         "n_components_kept", "is_active", "superseded_by", "cosine_similarity_pc1",
         "cosine_similarity_pc2", "cosine_similarity_pc3", "sign_flip_pc1", "sign_flip_pc2",
         "sign_flip_pc3", "notes"}, {Uq("pca_models_version_key", {"version"}),
         Fk("pca_models_superseded_by_fkey", {"superseded_by"}, "pca_models")}),
     UniqueIndex("ix_pca_models_active_unique", "pca_models", {"is_active"}) >>

M011 == Migration("011_step2_pca_tables", "010_step1_regime_tables",
  M011_models \o
  << Create("pca_signals", {"id", "timestamp", "symbol", "pca_model_id", "pc_id", "raw_score",
         "z_score", "label", "actionable", "actionable_reason", "sub_signals",
         "recommended_structure"}, {Fk("pca_signals_pca_model_id_fkey", {"pca_model_id"},
         "pca_models"), Uq("uq_pca_signals_symbol_ts_model_pc", {"symbol", "timestamp",
         "pca_model_id", "pc_id"}), Ck("ck_pca_signals_label", {"label"}),
         Ck("ck_pca_signals_pc_id", {"pc_id"})}),
     Index("ix_pca_signals_symbol_ts", "pca_signals", {"symbol", "timestamp"}),
     Create("signal_recommendations_map", {"id", "pc_id", "signal_label", "recommended_structure",
         "default_tenor", "description", "rationale", "is_active"},
         {Uq("uq_signal_rec_map_pc_label_active", {"pc_id", "signal_label", "is_active"}),
         Ck("ck_signal_rec_map_label", {"signal_label"})}),
     Touch("signal_recommendations_map", {"pc_id", "signal_label", "recommended_structure",
         "default_tenor", "description", "rationale"}) >>,
  << Drop("signal_recommendations_map"), DropIndex("ix_pca_signals_symbol_ts"), Drop("pca_signals"),
     DropIndex("ix_pca_models_active_unique"), Drop("pca_models"),
     DropIndex("ix_surface_snap_hourly_symbol_ts"), Drop("surface_snapshots_hourly") >>)

M012 == Migration("012_events_hash_unique", "011_step2_pca_tables",
  << AddColumns("events", {"event_hash"}),
     Touch("events", {"event_type", "region", "scheduled_at"}), Fix("nn", "events", {"event_hash"}),
     Fix("uq", "events", {"event_hash"}), SetNotNull("events", "event_hash"),
     Add("events", Uq("uq_events_event_hash", {"event_hash"})),
     Index("ix_events_event_hash", "events", {"event_hash"}) >>,
  << DropIndex("ix_events_event_hash"), DropConstraint("events", "uq_events_event_hash"),
     DropColumns("events", {"event_hash"}) >>)

M013_definitions ==
  << Create("structure_definitions", {"id", "structure_type", "display_name", "leg_template",
         "min_legs", "max_legs", "requires_delta_hedge", "typical_vega_sign", "typical_gamma_sign",
         "typical_theta_sign", "description", "rationale_for_pc", "is_active"},
         {Uq("structure_definitions_structure_type_key", {"structure_type"}),
         Ck("ck_struct_def_vega_sign", {"typical_vega_sign"})}),
     Touch("structure_definitions", {"structure_type", "display_name", "leg_template", "min_legs",
         "max_legs", "requires_delta_hedge", "typical_vega_sign", "typical_gamma_sign",
         "typical_theta_sign", "description", "rationale_for_pc"}) >>

M013 == Migration("013_step3_trade_preview_tables", "012_events_hash_unique",
  M013_definitions \o
  << Create("trade_previews", {"id", "preview_id", "created_at", "expires_at", "pca_signal_id",
         "triggering_pc", "armed_z_score", "armed_signal_label", "structure_type",
         "reference_tenor", "structure_full_payload", "state", "pre_submit_checks",
         "blocking_reasons", "user_action", "user_action_at", "submitted_trade_id"},
         {Uq("trade_previews_preview_id_key", {"preview_id"}),
         Fk("trade_previews_pca_signal_id_fkey", {"pca_signal_id"}, "pca_signals"),
         Ck("ck_trade_previews_state", {"state"})}),
     Index("ix_trade_previews_created", "trade_previews", {"created_at"}),
     Index("ix_trade_previews_state", "trade_previews", {"state", "created_at"}),
     Create("book_state_snapshots", {"id", "timestamp", "symbol", "total_vega_usd",
         "total_gamma_usd", "total_theta_usd", "total_delta", "vega_by_tenor", "vega_by_pc_source",
         "n_open_structures", "n_open_legs", "notional_engaged_usd", "capital_total_usd",
         "margin_used_usd", "is_current"}, {}),
     UniqueIndex("ix_book_state_current", "book_state_snapshots", {"symbol", "is_current"}),
     Create("risk_limits", {"id", "limit_name", "limit_value", "unit", "description", "is_active",
         "updated_at", "updated_by"}, {Uq("risk_limits_limit_name_key", {"limit_name"})}),
     Touch("risk_limits", {"limit_name", "limit_value", "unit", "description"}) >>,
  << Drop("risk_limits"), DropIndex("ix_book_state_current"), Drop("book_state_snapshots"),
     DropIndex("ix_trade_previews_state"), DropIndex("ix_trade_previews_created"),
     Drop("trade_previews"), Drop("structure_definitions") >>)

M014_orders ==
  << Create("trade_structures", {"id", "created_at", "preview_id", "pca_signal_id", "triggering_pc",
         "armed_z_score", "armed_signal_label", "structure_type", "reference_tenor", "expiry_date",
         "base_qty", "state", "state_updated_at", "ib_combo_order_id", "execution_mode",
         "total_premium_paid_usd", "total_slippage_usd", "total_commission_usd",
         "total_entry_cost_usd", "first_fill_at", "fully_filled_at", "closed_at", "close_reason"},
         {Fk("trade_structures_preview_id_fkey", {"preview_id"}, "trade_previews"),
         Fk("trade_structures_pca_signal_id_fkey", {"pca_signal_id"}, "pca_signals"),
         Ck("ck_trade_structures_state", {"state"})}),
     Index("ix_trade_structures_state", "trade_structures", {"state", "created_at"}),
     Create("structure_orders", {"id", "structure_id", "leg_idx", "ib_order_id", "ib_perm_id",
         "contract_symbol", "contract_type", "contract_expiry", "contract_strike",
         "contract_exchange", "contract_currency", "side", "qty", "order_type", "limit_price",
         "time_in_force", "preview_iv_pct", "preview_price", "state", "state_updated_at",
         "submitted_at", "acknowledged_at", "rejected_at", "rejection_code", "rejection_text",
         "qty_filled", "avg_fill_price", "total_commission_usd", "fully_filled_at",
         "slippage_per_contract", "total_slippage_usd"}, {Fk("structure_orders_structure_id_fkey",
         {"structure_id"}, "trade_structures"), Uq("uq_structure_orders_structure_leg",
         {"structure_id", "leg_idx"}), Ck("ck_structure_orders_state", {"state"}),
         Ck("ck_structure_orders_side", {"side"})}),
     Index("ix_structure_orders_structure", "structure_orders", {"structure_id", "leg_idx"}) >>

M014 == Migration("014_step4_execution_tables", "013_step3_trade_preview_tables",
  M014_orders \o
  << Create("structure_fills", {"id", "order_id", "ib_execution_id", "timestamp", "qty_filled",
         "fill_price", "commission_usd", "exchange", "side", "spot_at_fill", "bid_at_fill",
         "ask_at_fill", "iv_implied_from_fill", "received_at"}, {Fk("structure_fills_order_id_fkey",
         {"order_id"}, "structure_orders"), Uq("structure_fills_ib_execution_id_key",
         {"ib_execution_id"})}),
     Index("ix_structure_fills_order", "structure_fills", {"order_id", "timestamp"}),
     Create("trade_positions", {"id", "structure_id", "opened_at", "entry_premium_usd",
         "entry_total_cost_usd", "state", "state_updated_at", "entry_vega_usd_per_volpt",
         "entry_gamma_usd_per_pip2", "entry_theta_usd_per_day", "entry_spot", "entry_iv_avg",
         "entry_regime", "closed_at", "close_reason", "exit_premium_usd", "exit_total_cost_usd",
         "gross_pnl_usd", "net_pnl_usd"}, {Uq("trade_positions_structure_id_key", {"structure_id"}),
         Fk("trade_positions_structure_id_fkey", {"structure_id"}, "trade_structures"),
         Ck("ck_trade_positions_state", {"state"})}),
     Index("ix_trade_positions_state", "trade_positions", {"state", "opened_at"}),
     Create("execution_audit_log", {"id", "timestamp", "structure_id", "order_id", "event_type",
         "severity", "message", "payload"}, {Fk("execution_audit_log_structure_id_fkey",
         {"structure_id"}, "trade_structures"), Fk("execution_audit_log_order_id_fkey",
         {"order_id"}, "structure_orders"), Ck("ck_audit_severity", {"severity"})}),
     Index("ix_audit_timestamp", "execution_audit_log", {"timestamp"}) >>,
  << DropIndex("ix_audit_timestamp"), Drop("execution_audit_log"),
     DropIndex("ix_trade_positions_state"), Drop("trade_positions"),
     DropIndex("ix_structure_fills_order"), Drop("structure_fills"),
     DropIndex("ix_structure_orders_structure"), Drop("structure_orders"),
     DropIndex("ix_trade_structures_state"), Drop("trade_structures") >>)

M015 == Migration("015_step4_phase2_extras", "014_step4_execution_tables",
  << AddColumns("structure_orders", {"order_role"}),
     Add("structure_orders", Ck("ck_structure_orders_order_role", {"order_role"})),
     Create("ib_connection_state", {"id", "broker", "is_connected", "last_heartbeat", "account_id",
         "account_type", "available_funds_usd", "buying_power_usd", "margin_used_usd",
         "gateway_version", "api_version", "last_disconnect_at", "n_disconnects_24h", "updated_at"},
         {Uq("ib_connection_state_broker_key", {"broker"}), Ck("ck_ib_connection_account_type",
         {"account_type"})}),
     Touch("ib_connection_state", {"broker", "is_connected", "last_heartbeat"}) >>,
  << Drop("ib_connection_state"),
     DropConstraint("structure_orders", "ck_structure_orders_order_role"),
     DropColumns("structure_orders", {"order_role"}) >>)

M016_tables ==
  << Create("position_mtm_history", {"id", "position_id", "timestamp", "spot", "iv_avg_legs_pct",
         "current_pnl_gross_usd", "current_pnl_net_usd", "vega_pnl_usd", "gamma_pnl_usd",
         "theta_pnl_usd", "other_pnl_usd", "current_vega_usd_per_volpt",
         "current_gamma_usd_per_pip2", "current_theta_usd_per_day", "current_delta_unhedged"},
         {Fk("position_mtm_history_position_id_fkey", {"position_id"}, "trade_positions"),
         Uq("uq_mtm_position_ts", {"position_id", "timestamp"})}),
     Index("ix_mtm_position_ts", "position_mtm_history", {"position_id", "timestamp"}),
     Create("position_signal_tracking", {"id", "position_id", "timestamp", "triggering_pc",
         "current_z_score", "current_label", "entry_z_score", "entry_label", "weakening_ratio",
         "sign_flipped", "status"}, {Fk("position_signal_tracking_position_id_fkey",
         {"position_id"}, "trade_positions"), Uq("uq_signal_track_position_ts", {"position_id",
         "timestamp"}), Ck("ck_signal_track_status", {"status"})}),
     Index("ix_signal_track_position_ts", "position_signal_tracking", {"position_id", "timestamp"}),
     Create("hedge_orders", {"id", "position_id", "triggered_at", "submitted_at", "filled_at",
         "delta_imbalance_at_trigger", "rebalance_threshold_used", "hedge_qty", "side",
         "ib_order_id", "fill_price", "commission_usd", "spread_paid_usd", "total_cost_usd",
         "state"}, {Fk("hedge_orders_position_id_fkey", {"position_id"}, "trade_positions"),
         Ck("ck_hedge_orders_side", {"side"}), Ck("ck_hedge_orders_state", {"state"})}),
     Index("ix_hedge_position_ts", "hedge_orders", {"position_id", "triggered_at"}),
     Create("exit_alerts", {"id", "position_id", "timestamp", "rule_triggered",
         "action_recommended", "priority", "rule_detail", "auto_executed", "execution_status",
         "closing_structure_id", "notes"}, {Fk("exit_alerts_position_id_fkey", {"position_id"},
         "trade_positions"), Fk("exit_alerts_closing_structure_id_fkey", {"closing_structure_id"},
         "trade_structures"), Ck("ck_exit_alerts_action", {"action_recommended"}),
         Ck("ck_exit_alerts_exec_status", {"execution_status"})}),
     Index("ix_exit_alerts_position_ts", "exit_alerts", {"position_id", "timestamp"}) >>

M016 == Migration("016_step5_position_monitoring", "015_step4_phase2_extras",
  M016_tables \o
  << Create("exit_rules_config", {"id", "rule_name", "is_active", "priority", "params",
         "description", "updated_at", "updated_by"}, {Uq("exit_rules_config_rule_name_key",
         {"rule_name"}), Ck("ck_exit_rules_priority", {"priority"})}),
     Touch("exit_rules_config", {"rule_name", "priority", "params", "description"}),
     Create("delta_hedge_config", {"id", "config_name", "config_value", "unit", "description",
         "updated_at"}, {Uq("delta_hedge_config_config_name_key", {"config_name"})}),
     Touch("delta_hedge_config", {"config_name", "config_value", "unit", "description"}) >>,
  << Drop("delta_hedge_config"), Drop("exit_rules_config"), DropIndex("ix_exit_alerts_position_ts"),
     Drop("exit_alerts"), DropIndex("ix_hedge_position_ts"), Drop("hedge_orders"),
     DropIndex("ix_signal_track_position_ts"), Drop("position_signal_tracking"),
     DropIndex("ix_mtm_position_ts"), Drop("position_mtm_history") >>)

M017 == Migration("017_unwind_unique_includes_role", "016_step5_position_monitoring",
  << DropConstraint("structure_orders", "uq_structure_orders_structure_leg"),
     Add("structure_orders", Uq("uq_structure_orders_structure_leg_role", {"structure_id",
         "leg_idx", "order_role"})) >>,
  << DropConstraint("structure_orders", "uq_structure_orders_structure_leg_role"),
     Add("structure_orders", Uq("uq_structure_orders_structure_leg", {"structure_id", "leg_idx"})) >>)

M018 == Migration("018_features_enrichment", "017_unwind_unique_includes_role",
  << AddColumns("regime_snapshots", {"bucket_vol_level", "delta_z_1h_vol_level", "pct_vol_level",
         "signal_vol_level", "bucket_vol_of_vol", "delta_z_1h_vol_of_vol", "pct_vol_of_vol",
         "signal_vol_of_vol", "bucket_term_slope", "delta_z_1h_term_slope", "pct_term_slope",
         "signal_term_slope"}),
     Add("regime_snapshots", Ck("ck_regime_snapshots_bucket_vol_level", {"bucket_vol_level"})),
     Add("regime_snapshots", Ck("ck_regime_snapshots_signal_vol_level", {"signal_vol_level"})),
     Add("regime_snapshots", Ck("ck_regime_snapshots_bucket_vol_of_vol", {"bucket_vol_of_vol"})),
     Add("regime_snapshots", Ck("ck_regime_snapshots_signal_vol_of_vol", {"signal_vol_of_vol"})),
     Add("regime_snapshots", Ck("ck_regime_snapshots_bucket_term_slope", {"bucket_term_slope"})),
     Add("regime_snapshots", Ck("ck_regime_snapshots_signal_term_slope", {"signal_term_slope"})),
     Create("regime_lookup_table", {"pattern", "regime_id", "regime_name", "family",
         "action_default", "asymmetry_note", "intensity_count", "created_at"}, {}),
     Create("vol_features_context_baseline", {"feature", "event_type", "days_bucket", "tod_bucket",
         "mu", "sigma", "n_obs", "status", "computed_at"},
         {Ck("ck_vol_features_context_baseline_status", {"status"})}) >>,
  << Drop("vol_features_context_baseline"), Drop("regime_lookup_table"),
     DropConstraint("regime_snapshots", "ck_regime_snapshots_signal_vol_level"),
     DropConstraint("regime_snapshots", "ck_regime_snapshots_bucket_vol_level"),
     DropConstraint("regime_snapshots", "ck_regime_snapshots_signal_vol_of_vol"),
     DropConstraint("regime_snapshots", "ck_regime_snapshots_bucket_vol_of_vol"),
     DropConstraint("regime_snapshots", "ck_regime_snapshots_signal_term_slope"),
     DropConstraint("regime_snapshots", "ck_regime_snapshots_bucket_term_slope"),
     DropColumns("regime_snapshots", {"signal_vol_level", "pct_vol_level", "delta_z_1h_vol_level",
         "bucket_vol_level", "signal_vol_of_vol", "pct_vol_of_vol", "delta_z_1h_vol_of_vol",
         "bucket_vol_of_vol", "signal_term_slope", "pct_term_slope", "delta_z_1h_term_slope",
         "bucket_term_slope"}) >>)

M019 == Migration("019_drop_unused_vol_tables", "018_features_enrichment",
  << Drop("svi_params"), Drop("ssvi_params"), Drop("vol_features_context_baseline"),
     Drop("backtest_runs") >>,
  << Create("svi_params", {"id", "timestamp", "underlying", "tenor", "a", "b", "rho", "m", "sigma",
         "rmse_fit", "butterfly_g_min"}, {Uq("uq_svi_params_ts_underlying_tenor", {"timestamp",
         "underlying", "tenor"})}),
     Create("ssvi_params", {"id", "timestamp", "underlying", "spot", "eta", "gamma", "rho",
         "rmse_fit", "calendar_arb_free"}, {Uq("uq_ssvi_params_ts_underlying", {"timestamp",
         "underlying"})}),
     Create("vol_features_context_baseline", {"feature", "event_type", "days_bucket", "tod_bucket",
         "mu", "sigma", "n_obs", "status", "computed_at"},
         {Ck("ck_vol_features_context_baseline_status", {"status"})}),
     Create("backtest_runs", {"id", "strategy_name", "parameters", "start_date", "end_date",
         "sharpe_ratio", "sortino_ratio", "max_drawdown_pct", "max_drawdown_duration_days",
         "hit_rate", "total_return_pct", "annualized_return_pct", "annualized_vol_pct", "n_trades",
         "avg_holding_period_days", "profit_factor", "equity_curve", "trades_log", "created_at"},
         {}) >>)

M020 == Migration("020_rename_vol_tables", "019_drop_unused_vol_tables",
  << Rename("vol_surfaces", "vol_surface_snapshot"),
     Rename("signals", "vol_pricing_signal_snapshot"),
     Rename("regime_snapshots", "regime_feature_snapshot"),
     Rename("pca_signals", "pca_projection_snapshot"), Rename("pca_models", "pca_model"),
     Rename("events", "macro_event"), Rename("regime_lookup_table", "regime_pattern_dict"),
     Rename("signal_recommendations_map", "pca_structure_recommendation"),
     Rename("vrp_table_default", "vrp_default_curve"),
     Rename("feature_history", "feature_history_30d"), Rename("vol_config", "vol_engine_config") >>,
  << Rename("vol_surface_snapshot", "vol_surfaces"),
     Rename("vol_pricing_signal_snapshot", "signals"),
     Rename("regime_feature_snapshot", "regime_snapshots"),
     Rename("pca_projection_snapshot", "pca_signals"), Rename("pca_model", "pca_models"),
     Rename("macro_event", "events"), Rename("regime_pattern_dict", "regime_lookup_table"),
     Rename("pca_structure_recommendation", "signal_recommendations_map"),
     Rename("vrp_default_curve", "vrp_table_default"),
     Rename("feature_history_30d", "feature_history"), Rename("vol_engine_config", "vol_config") >>)

M021 == Migration("021_drop_pricing_signal_snapshot", "020_rename_vol_tables",
  << Drop("vol_pricing_signal_snapshot"), DropColumns("vol_surface_snapshot", {"scan_duration_s"}) >>,
  << AddColumns("vol_surface_snapshot", {"scan_duration_s"}),
     Create("vol_pricing_signal_snapshot", {"id", "timestamp", "underlying", "tenor", "dte",
         "sigma_mid", "sigma_fair", "ecart", "signal_type", "rv", "sigma_fair_p", "vrp_vol_pts"},
         {Uq("uq_signals_ts_underlying_tenor", {"timestamp", "underlying", "tenor"}),
         Ck("ck_signals_signal_type", {"signal_type"})}) >>)

M022 == Migration("022_purge_market_closed_rows", "021_drop_pricing_signal_snapshot",
  << Touch("vol_surface_snapshot", {"timestamp", "underlying", "spot"}),
     Touch("regime_feature_snapshot", {"symbol", "timestamp"}),
     Touch("feature_history_30d", {"symbol", "timestamp"}),
     Touch("pca_projection_snapshot", {"symbol", "timestamp"}),
     Touch("surface_snapshots_hourly", {"symbol", "timestamp"}) >>,
  <<  >>)

M023 == Migration("023_trade_positions_ib_recon", "022_purge_market_closed_rows",
  << AddColumns("trade_positions", {"ib_reconciled_at", "ib_qty_total", "ib_qty_diff"}),
     Index("ix_trade_positions_ib_reconciled_at", "trade_positions", {"ib_reconciled_at"}) >>,
  << DropIndex("ix_trade_positions_ib_reconciled_at"),
     DropColumns("trade_positions", {"ib_qty_diff", "ib_qty_total", "ib_reconciled_at"}) >>)

M024 == Migration("024_position_panel_cols", "023_trade_positions_ib_recon",
  << AddColumns("positions", {"local_symbol", "multiplier", "nominal_eur", "contract_price_entry"}),
     AddColumns("position_snapshots", {"market_price"}) >>,
  << DropColumns("position_snapshots", {"market_price"}),
     DropColumns("positions", {"contract_price_entry", "nominal_eur", "multiplier", "local_symbol"}) >>)

M025 == Migration("025_positions_panel_only", "024_position_panel_cols",
  << Touch("positions", {"local_symbol", "instrument_type", "symbol", "maturity", "option_type",
         "strike"}),
     DropConstraint("positions", "ck_positions_instrument_type"),
     DropConstraint("positions", "ck_positions_option_type"),
     DropColumns("positions", {"symbol", "instrument_type", "strike", "option_type", "entry_price",
         "multiplier"}),
     SetNotNull("positions", "local_symbol"),
     UniqueIndex("ix_positions_local_symbol_open", "positions", {"local_symbol"}) >>,
  << DropIndex("ix_positions_local_symbol_open"), Touch("positions", {"local_symbol"}),
     AddColumns("positions", {"multiplier", "entry_price", "option_type", "strike",
         "instrument_type", "symbol"}),
     Add("positions", Ck("ck_positions_instrument_type", {"instrument_type"})),
     Add("positions", Ck("ck_positions_option_type", {"option_type"})) >>)

M026 == Migration("026_positions_live_cols", "025_positions_panel_only",
  << AddColumns("positions", {"market_price", "current_pnl_usd", "delta_usd", "gamma_usd",
         "vega_usd", "theta_usd"}) >>,
  << DropColumns("positions", {"theta_usd", "vega_usd", "gamma_usd", "delta_usd", "current_pnl_usd",
         "market_price"}) >>)

M027 == Migration("027_positions_closed_at", "026_positions_live_cols",
  << AddColumns("positions", {"closed_at"}), Touch("positions", {"closed_at", "status"}),
     DropIndex("ix_positions_local_symbol_open"), DropIndexIfExists("idx_positions_status_active"),
     DropConstraint("positions", "ck_positions_status"),
     DropColumns("positions", {"status", "created_at"}),
     UniqueIndex("ix_positions_local_symbol_open", "positions", {"local_symbol"}) >>,
  << DropIndex("ix_positions_local_symbol_open"), AddColumns("positions", {"created_at", "status"}),
     Touch("positions", {"closed_at", "status"}),
     Add("positions", Ck("ck_positions_status", {"status"})),
     Index("idx_positions_status_active", "positions", {"status"}),
     UniqueIndex("ix_positions_local_symbol_open", "positions", {"local_symbol"}),
     DropColumns("positions", {"closed_at"}) >>)

M028 == Migration("028_positions_panel_exact", "027_positions_closed_at",
  << DropConstraint("position_snapshots", "position_snapshots_position_id_fkey"),
     DropConstraint("trades", "trades_position_id_fkey"),
     DropIndex("ix_positions_local_symbol_open"), DropConstraint("positions", "ck_positions_side"),
     Create("positions_new", {"id", "tenor", "local_symbol", "side", "maturity", "quantity",
         "nominal_eur", "contract_price_entry", "market_price", "current_pnl_usd", "delta_usd",
         "gamma_usd", "vega_usd", "theta_usd", "entry_timestamp", "updated_at"},
         {Ck("ck_positions_side", {"side"})}),
     Touch("positions", {"id", "closed_at", "local_symbol", "side", "maturity", "quantity",
         "nominal_eur", "contract_price_entry", "market_price", "current_pnl_usd", "delta_usd",
         "gamma_usd", "vega_usd", "theta_usd", "entry_timestamp", "updated_at"}),
     Fix("uq", "positions_new", {"local_symbol"}), Drop("positions"),
     Rename("positions_new", "positions"),
     Add("position_snapshots", Fk("position_snapshots_position_id_fkey", {"position_id"},
         "positions")),
     Add("trades", Fk("trades_position_id_fkey", {"position_id"}, "positions")),
     UniqueIndex("ix_positions_local_symbol_unique", "positions", {"local_symbol"}) >>,
  << Refuse >>)

M029 == Migration("029_positions_rename_cols", "028_positions_panel_exact",
  << RenameColumn("positions", "local_symbol", "structure"),
     RenameColumn("positions", "maturity", "expiry"),
     RenameIndex("ix_positions_local_symbol_unique", "ix_positions_structure_unique") >>,
  << RenameIndex("ix_positions_structure_unique", "ix_positions_local_symbol_unique"),
     RenameColumn("positions", "expiry", "maturity"),
     RenameColumn("positions", "structure", "local_symbol") >>)

M030 == Migration("030_snapshots_mirror_positions", "029_positions_rename_cols",
  << Drop("position_snapshots"),
     Create("position_snapshots", {"id", "position_id", "timestamp", "structure", "side", "tenor",
         "expiry", "quantity", "nominal_eur", "contract_price_entry", "market_price",
         "current_pnl_usd", "delta_usd", "gamma_usd", "vega_usd", "theta_usd"},
         {Fk("position_snapshots_position_id_fkey", {"position_id"}, "positions")}),
     Index("ix_position_snapshots_position_ts", "position_snapshots", {"position_id", "timestamp"}),
     Index("ix_position_snapshots_ts", "position_snapshots", {"timestamp"}) >>,
  << Refuse >>)

M031 == Migration("031_iv_vanna_volga", "030_snapshots_mirror_positions",
  << AddColumns("positions", {"iv", "vanna_usd", "volga_usd"}),
     AddColumns("position_snapshots", {"iv", "vanna_usd", "volga_usd"}) >>,
  << DropColumns("position_snapshots", {"volga_usd", "vanna_usd", "iv"}),
     DropColumns("positions", {"volga_usd", "vanna_usd", "iv"}) >>)

M023theme == Migration("023_theme1_renames", "031_iv_vanna_volga",
  << Rename("vol_surface_snapshot", "vol_surface_history"),
     Rename("surface_snapshots_hourly", "surface_pca_snapshot_history"),
     Rename("feature_history_30d", "feature_history"),
     Rename("regime_feature_snapshot", "regime_snapshot"),
     Rename("pca_projection_snapshot", "pca_signal_history"),
     Rename("macro_event", "event_calendar") >>,
  << Rename("event_calendar", "macro_event"),
     Rename("pca_signal_history", "pca_projection_snapshot"),
     Rename("regime_snapshot", "regime_feature_snapshot"),
     Rename("feature_history", "feature_history_30d"),
     Rename("surface_pca_snapshot_history", "surface_snapshots_hourly"),
     Rename("vol_surface_history", "vol_surface_snapshot") >>)

M024theme == Migration("024_theme4_app_config", "023_theme1_renames",
  << Create("app_config_scalar", {"id", "namespace", "name", "value", "unit", "description",
         "is_active", "updated_at", "updated_by"}, {Uq("uq_app_config_scalar_ns_name", {"namespace",
         "name"})}),
     Index("ix_app_config_scalar_ns_active", "app_config_scalar", {"namespace", "is_active"}),
     Touch("delta_hedge_config", {"config_name", "config_value", "unit", "description",
         "updated_at"}),
     Touch("risk_limits", {"limit_name", "limit_value", "unit", "description", "is_active",
         "updated_at", "updated_by"}),
     Drop("delta_hedge_config"), Drop("risk_limits"),
     Rename("ib_connection_state", "ib_session_state") >>,
  << Rename("ib_session_state", "ib_connection_state"),
     Create("delta_hedge_config", {"id", "config_name", "config_value", "unit", "description",
         "updated_at"}, {Uq("delta_hedge_config_config_name_key", {"config_name"})}),
     Create("risk_limits", {"id", "limit_name", "limit_value", "unit", "description", "is_active",
         "updated_at", "updated_by"}, {Uq("risk_limits_limit_name_key", {"limit_name"})}),
     Touch("app_config_scalar", {"namespace", "name", "value", "unit", "description", "is_active",
         "updated_at", "updated_by"}),
     DropIndex("ix_app_config_scalar_ns_active"), Drop("app_config_scalar") >>)

M025theme_upgrade ==
  << DropCascade("order_events"), DropCascade("orders"), DropCascade("trades"),
     Rename("trade_previews", "trade_preview"), Rename("trade_structures", "trade_structure"),
     Rename("structure_orders", "trade_order"), Rename("structure_fills", "trade_fill"),
     Rename("structure_definitions", "structure_definition_ref"),
     Rename("hedge_orders", "hedge_order"), Rename("exit_alerts", "exit_alert"),
     Create("trade_event", {"id", "ts", "event_type", "severity", "structure_id", "order_id",
         "position_id", "description", "payload"}, {Fk("trade_event_structure_id_fkey",
         {"structure_id"}, "trade_structure"), Fk("trade_event_order_id_fkey", {"order_id"},
         "trade_order"), Fk("trade_event_position_id_fkey", {"position_id"}, "trade_positions"),
         Ck("ck_trade_event_severity", {"severity"})}),
     ToJson("trade_event", {"payload"}),
     Index("ix_trade_event_ts", "trade_event", {"ts"}),
     Index("ix_trade_event_structure", "trade_event", {"structure_id"}),
     Index("ix_trade_event_type_ts", "trade_event", {"event_type", "ts"}),
     Touch("execution_audit_log", {"timestamp", "event_type", "severity", "structure_id",
         "order_id", "message"}), ReadJsonb("execution_audit_log", {"payload"}),
     Drop("execution_audit_log") >>

M025theme == Migration("025_theme3_trade_order", "024_theme4_app_config",
  M025theme_upgrade,
  << Create("execution_audit_log", {"id", "timestamp", "structure_id", "order_id", "event_type",
         "severity", "message", "payload"}, {Fk("execution_audit_log_structure_id_fkey",
         {"structure_id"}, "trade_structure"), Fk("execution_audit_log_order_id_fkey", {"order_id"},
         "trade_order"), Ck("ck_audit_severity", {"severity"})}),
     ToJson("execution_audit_log", {"payload"}),
     Touch("trade_event", {"ts", "event_type", "severity", "structure_id", "order_id",
         "description", "payload"}),
     DropIndex("ix_trade_event_type_ts"), DropIndex("ix_trade_event_structure"),
     DropIndex("ix_trade_event_ts"), Drop("trade_event"), Rename("exit_alert", "exit_alerts"),
     Rename("hedge_order", "hedge_orders"),
     Rename("structure_definition_ref", "structure_definitions"),
     Rename("trade_fill", "structure_fills"), Rename("trade_order", "structure_orders"),
     Rename("trade_structure", "trade_structures"), Rename("trade_preview", "trade_previews"),
     Create("trades", {"id", "position_id", "ib_order_id", "side", "quantity", "price",
         "commission", "timestamp", "spot_at_execution", "iv_at_execution"}, {}),
     Create("orders", {"id", "ib_perm_id", "ib_order_id", "symbol", "sec_type", "expiry", "strike",
         "right", "side", "quantity", "limit_price", "status", "filled_qty", "avg_fill_price",
         "submitted_at", "updated_at"}, {}),
     Create("order_events", {"id", "order_id", "action_type", "request_payload", "response_payload",
         "success", "error_message", "timestamp"}, {Fk("order_events_order_id_fkey", {"order_id"},
         "orders")}) >>)

M026theme == Migration("026_theme2_portfolio", "025_theme3_trade_order",
  << AddColumns("position_mtm_history", {"triggering_pc", "current_z_score", "current_label",
         "entry_z_score", "entry_label", "weakening_ratio", "sign_flipped", "signal_status"}),
     Touch("position_signal_tracking", {"position_id", "timestamp", "triggering_pc",
         "current_z_score", "current_label", "entry_z_score", "entry_label", "weakening_ratio",
         "sign_flipped", "status"}),
     Drop("position_signal_tracking"),
     Rename("position_mtm_history", "booked_position_metric_history"),
     Rename("positions", "position"), Rename("position_snapshots", "position_metric_history"),
     Rename("trade_positions", "booked_position"), Rename("account_snaps", "account_history"),
     Rename("book_state_snapshots", "book_state_snapshot") >>,
  << Rename("book_state_snapshot", "book_state_snapshots"),
     Rename("account_history", "account_snaps"), Rename("booked_position", "trade_positions"),
     Rename("position_metric_history", "position_snapshots"), Rename("position", "positions"),
     Rename("booked_position_metric_history", "position_mtm_history"),
     Create("position_signal_tracking", {"id", "position_id", "timestamp", "triggering_pc",
         "current_z_score", "current_label", "entry_z_score", "entry_label", "weakening_ratio",
         "sign_flipped", "status"}, {Fk("position_signal_tracking_position_id_fkey",
         {"position_id"}, "trade_positions"), Uq("uq_signal_track_position_ts", {"position_id",
         "timestamp"}), Ck("ck_signal_track_status", {"status"})}),
     Touch("position_mtm_history", {"position_id", "timestamp", "triggering_pc", "current_z_score",
         "current_label", "entry_z_score", "entry_label", "weakening_ratio", "sign_flipped",
         "signal_status"}),
     DropColumns("position_mtm_history", {"signal_status", "sign_flipped", "weakening_ratio",
         "entry_label", "entry_z_score", "current_label", "current_z_score", "triggering_pc"}) >>)

M032 == Migration("032_product_label_dual_column", "026_theme2_portfolio",
  << AddColumns("position", {"product_label"}),
     AddColumns("position_metric_history", {"product_label"}),
     AddColumns("trade_structure", {"product_label"}),
     AddColumns("trade_preview", {"product_label"}) >>,
  << DropColumns("trade_preview", {"product_label"}),
     DropColumns("trade_structure", {"product_label"}),
     DropColumns("position_metric_history", {"product_label"}),
     DropColumns("position", {"product_label"}) >>)

M033 == Migration("033_open_position_rename", "032_product_label_dual_column",
  << Rename("position", "open_position"),
     Rename("position_metric_history", "open_position_history"),
     RenameColumn("open_position", "updated_at", "timestamp") >>,
  << RenameColumn("open_position", "timestamp", "updated_at"),
     Rename("open_position_history", "position_metric_history"), Rename("open_position", "position") >>)

M034 == Migration("034_package_trade_contract_ids", "033_open_position_rename",
  << Create("package", {"id", "created_at", "label", "description"}, {}),
     AddColumns("trade_structure", {"package_id"}),
     Add("trade_structure", Fk("fk_trade_structure_package_id", {"package_id"}, "package")),
     AddColumns("open_position", {"contract_id", "trade_id", "package_id"}),
     Add("open_position", Fk("fk_open_position_trade_id", {"trade_id"}, "trade_structure")),
     Add("open_position", Fk("fk_open_position_package_id", {"package_id"}, "package")),
     AddColumns("open_position_history", {"contract_id", "trade_id", "package_id"}),
     Add("open_position_history", Fk("fk_open_position_history_trade_id", {"trade_id"},
         "trade_structure")),
     Add("open_position_history", Fk("fk_open_position_history_package_id", {"package_id"},
         "package")) >>,
  << DropConstraint("open_position_history", "fk_open_position_history_package_id"),
     DropConstraint("open_position_history", "fk_open_position_history_trade_id"),
     DropColumns("open_position_history", {"package_id", "trade_id", "contract_id"}),
     DropConstraint("open_position", "fk_open_position_package_id"),
     DropConstraint("open_position", "fk_open_position_trade_id"),
     DropColumns("open_position", {"package_id", "trade_id", "contract_id"}),
     DropConstraint("trade_structure", "fk_trade_structure_package_id"),
     DropColumns("trade_structure", {"package_id"}), Drop("package") >>)

M035 == Migration("035_trade_order_ib_local_symbol", "034_package_trade_contract_ids",
  << AddColumns("trade_order", {"ib_local_symbol"}) >>,
  << DropColumns("trade_order", {"ib_local_symbol"}) >>)

M036 == Migration("036_rename_pca_surface_snapshot", "035_trade_order_ib_local_symbol",
  << Rename("surface_pca_snapshot_history", "pca_surface_snapshot_history") >>,
  << Rename("pca_surface_snapshot_history", "surface_pca_snapshot_history") >>)

M037 == Migration("037_rename_config_tables", "036_rename_pca_surface_snapshot",
  << Rename("app_config_scalar", "config_scalar"),
     RenameConstraint("config_scalar", "uq_app_config_scalar_ns_name", "uq_config_scalar_ns_name"),
     Rename("ib_session_state", "config_ib_session") >>,
  << Rename("config_ib_session", "ib_session_state"), Rename("config_scalar", "app_config_scalar"),
     RenameConstraint("app_config_scalar", "uq_config_scalar_ns_name",
         "uq_app_config_scalar_ns_name") >>)

M038 == Migration("038_drop_vrp_default_curve", "037_rename_config_tables",
  << Drop("vrp_default_curve") >>,
  << Create("vrp_default_curve", {"id", "regime", "tenor", "vrp_vol_pts", "calibration_method",
         "calibration_date", "notes"}, {Uq("uq_vrp_table_default_regime_tenor", {"regime",
         "tenor"}), Ck("ck_vrp_table_default_regime", {"regime"})}),
     Touch("vrp_default_curve", {"regime", "tenor", "vrp_vol_pts"}) >>)

M039 == Migration("039_drop_lookup_tables", "038_drop_vrp_default_curve",
  << Drop("regime_pattern_dict"), Drop("pca_structure_recommendation"),
     Drop("structure_definition_ref") >>,
  << Create("regime_pattern_dict", {"pattern", "regime_id", "regime_name", "family",
         "action_default", "asymmetry_note", "intensity_count", "created_at"}, {}),
     Touch("regime_pattern_dict", {"pattern", "regime_id", "regime_name", "family",
         "action_default", "asymmetry_note", "intensity_count"}),
     Create("pca_structure_recommendation", {"id", "pc_id", "signal_label", "recommended_structure",
         "default_tenor", "description", "rationale", "is_active"},
         {Uq("uq_signal_rec_map_pc_label_active", {"pc_id", "signal_label", "is_active"}),
         Ck("ck_signal_rec_map_label", {"signal_label"})}),
     Touch("pca_structure_recommendation", {"pc_id", "signal_label", "recommended_structure",
         "default_tenor", "description", "rationale"}),
     Create("structure_definition_ref", {"id", "structure_type", "display_name", "leg_template",
         "min_legs", "max_legs", "requires_delta_hedge", "typical_vega_sign", "typical_gamma_sign",
         "typical_theta_sign", "description", "rationale_for_pc", "is_active"},
         {Uq("structure_definition_ref_structure_type_key", {"structure_type"})}),
     Touch("structure_definition_ref", {"structure_type", "display_name", "leg_template",
         "min_legs", "max_legs", "requires_delta_hedge", "typical_vega_sign", "typical_gamma_sign",
         "typical_theta_sign", "description", "rationale_for_pc"}) >>)

M040 == Migration("040_rename_config_history_tables", "039_drop_lookup_tables",
  << Rename("vol_engine_config", "config_vol_engine"),
     Rename("exit_rules_config", "config_exit_rules"),
     Rename("regime_snapshot", "regime_snapshot_history"),
     RenameConstraint("regime_snapshot_history", "ck_regime_snapshots_label",
         "ck_regime_snapshot_history_label"),
     Rename("book_state_snapshot", "book_state_snapshot_history") >>,
  << Rename("book_state_snapshot_history", "book_state_snapshot"),
     RenameConstraint("regime_snapshot_history", "ck_regime_snapshot_history_label",
         "ck_regime_snapshots_label"),
     Rename("regime_snapshot_history", "regime_snapshot"),
     Rename("config_exit_rules", "exit_rules_config"),
     Rename("config_vol_engine", "vol_engine_config") >>)

M041 == Migration("041_ib_session_to_runtime", "040_rename_config_history_tables",
  << Rename("config_ib_session", "runtime_ib_session") >>,
  << Rename("runtime_ib_session", "config_ib_session") >>)

M042 == Migration("042_add_table_comments", "041_ib_session_to_runtime",
  << Comment({"account_history", "book_state_snapshot_history", "booked_position",
         "booked_position_metric_history", "exit_alert", "hedge_order", "open_position",
         "open_position_history", "package", "trade_event", "trade_fill", "trade_order",
         "trade_preview", "trade_structure", "vol_surface_history", "pca_model",
         "pca_signal_history", "pca_surface_snapshot_history", "event_calendar", "feature_history",
         "regime_snapshot_history", "config_exit_rules", "config_scalar", "config_vol_engine",
         "runtime_ib_session"}) >>,
  << Comment({"account_history", "book_state_snapshot_history", "booked_position",
         "booked_position_metric_history", "exit_alert", "hedge_order", "open_position",
         "open_position_history", "package", "trade_event", "trade_fill", "trade_order",
         "trade_preview", "trade_structure", "vol_surface_history", "pca_model",
         "pca_signal_history", "pca_surface_snapshot_history", "event_calendar", "feature_history",
         "regime_snapshot_history", "config_exit_rules", "config_scalar", "config_vol_engine",
         "runtime_ib_session"}) >>)

M043 == Migration("043_drop_recommended_structure", "042_add_table_comments",
  << DropColumns("pca_signal_history", {"recommended_structure"}) >>,
  << AddColumns("pca_signal_history", {"recommended_structure"}) >>)

M044 == Migration("044_index_open_position_history", "043_drop_recommended_structure",
  << Index("idx_open_position_history_position_ts", "open_position_history", {"position_id",
         "timestamp"}),
     Index("idx_open_position_history_ts", "open_position_history", {"timestamp"}) >>,
  << DropIndex("idx_open_position_history_ts"), DropIndex("idx_open_position_history_position_ts") >>)

M045 == Migration("045_signal_surface_idx", "044_index_open_position_history",
  << Index("ix_pca_signal_symbol_pc_ts", "pca_signal_history", {"symbol", "pc_id", "timestamp"}),
     Index("ix_vol_surface_underlying_ts", "vol_surface_history", {"underlying", "timestamp"}) >>,
  << DropIndexIfExists("ix_vol_surface_underlying_ts"),
     DropIndexIfExists("ix_pca_signal_symbol_pc_ts") >>)

M046 == Migration("046_trace_id", "045_signal_surface_idx",
  << AddColumns("trade_structure", {"trace_id"}), AddColumns("trade_order", {"trace_id"}),
     AddColumns("trade_fill", {"trace_id"}) >>,
  << DropColumns("trade_fill", {"trace_id"}), DropColumns("trade_order", {"trace_id"}),
     DropColumns("trade_structure", {"trace_id"}) >>)

M047 == Migration("047_leg_position", "046_trace_id",
  << Create("leg_position", {"id", "order_id", "open_qty", "reserved_qty", "avg_price",
         "realized_pnl_usd", "rebuilt_at"}, {Uq("leg_position_order_id_key", {"order_id"}),
         Fk("leg_position_order_id_fkey", {"order_id"}, "trade_order")}),
     AddColumns("trade_order", {"closes_order_id"}),
     Add("trade_order", Fk("trade_order_closes_order_id_fkey", {"closes_order_id"}, "trade_order")) >>,
  << DropColumns("trade_order", {"closes_order_id"}), Drop("leg_position") >>)

M048 == Migration("048_reconciliation_break", "047_leg_position",
  << Create("reconciliation_break", {"id", "local_symbol", "book_qty", "broker_qty", "diff",
         "break_type", "detected_at", "last_seen_at", "resolved_at"},
         {Ck("ck_reconciliation_break_type", {"break_type"})}),
     Index("ix_reconciliation_break_open", "reconciliation_break", {"local_symbol"}) >>,
  << DropIndex("ix_reconciliation_break_open"), Drop("reconciliation_break") >>)

M049 == Migration("049_sync_drift", "048_reconciliation_break",
  << Touch("event_calendar", {"event_hash"}), ToJsonb("trade_event", {"payload"}),
     Fix("nn", "runtime_ib_session", {"n_disconnects_24h"}),
     SetNotNull("runtime_ib_session", "n_disconnects_24h") >>,
  << Touch("runtime_ib_session", {"n_disconnects_24h"}), ToJson("trade_event", {"payload"}),
     Fix("nn", "event_calendar", {"event_hash"}), SetNotNull("event_calendar", "event_hash") >>)

M050 == Migration("050_submit_claims", "049_sync_drift",
  << AddColumns("trade_structure", {"submit_claimed_at", "rollback_started_at"}) >>,
  << DropColumns("trade_structure", {"rollback_started_at", "submit_claimed_at"}) >>)

M051 == Migration("051_acct_ts_idx_dedup", "050_submit_claims",
  << IndexIfNotExists("ix_account_history_ts", "account_history", {"timestamp"}),
     DropIndexIfExists("ix_position_snapshots_position_ts"),
     DropIndexIfExists("ix_position_snapshots_ts") >>,
  << Index("ix_position_snapshots_ts", "open_position_history", {"timestamp"}),
     Index("ix_position_snapshots_position_ts", "open_position_history", {"position_id",
         "timestamp"}),
     DropIndexIfExists("ix_account_history_ts") >>)

M052 == Migration("052_spot_order", "051_acct_ts_idx_dedup",
  << Create("spot_order", {"id", "created_at", "symbol", "currency", "exchange", "side", "qty",
         "order_type", "limit_price", "ib_order_id", "ib_perm_id", "ib_local_symbol", "state",
         "state_updated_at", "qty_filled", "avg_fill_price", "commission_usd", "filled_at",
         "rejection_text", "trace_id"}, {}),
     Index("ix_spot_order_created_at", "spot_order", {"created_at"}) >>,
  << DropIndex("ix_spot_order_created_at"), Drop("spot_order") >>)

M053 == Migration("053_uq_structure_preview", "052_spot_order",
  << Add("trade_structure", Uq("uq_trade_structure_preview_id", {"preview_id"})) >>,
  << DropConstraint("trade_structure", "uq_trade_structure_preview_id") >>)

M054 == Migration("054_spot_order_ib_status", "053_uq_structure_preview",
  << AddColumns("spot_order", {"ib_status", "why_held"}) >>,
  << DropColumns("spot_order", {"why_held", "ib_status"}) >>)

\* Fault: the second table's column is forgotten.
M055_one_table == Migration("055_submit_claim_cols", "054_spot_order_ib_status",
  << AddColumns("trade_order", {"submit_claimed_at"}) >>,
  << DropColumns("trade_order", {"submit_claimed_at"}) >>)

M055 == Migration("055_submit_claim_cols", "054_spot_order_ib_status",
  << AddColumns("trade_order", {"submit_claimed_at"}),
     AddColumns("hedge_order", {"submit_claimed_at"}) >>,
  << DropColumns("hedge_order", {"submit_claimed_at"}),
     DropColumns("trade_order", {"submit_claimed_at"}) >>)

M056 == Migration("056_trade_fill_currency", "055_submit_claim_cols",
  << AddColumns("trade_fill", {"currency"}) >>,
  << DropColumns("trade_fill", {"currency"}) >>)

M057 == Migration("057_portfolio_rollups", "056_trade_fill_currency",
  << Create("portfolio_daily", {"id", "day", "net_liq_open", "net_liq_close", "mtm_usd",
         "realized_usd", "n_closed", "n_samples", "first_sample_at", "last_sample_at",
         "computed_at"}, {Uq("uq_portfolio_daily_day", {"day"})}),
     Create("pnl_attribution_latest", {"id", "lookback_hours", "computed_at", "window_start",
         "forward_source", "n_positions", "per_position"}, {Uq("uq_pnl_attribution_latest_lookback",
         {"lookback_hours"})}) >>,
  << Drop("pnl_attribution_latest"), Drop("portfolio_daily") >>)

\* Fault: the constraint is dropped by the name the renamed table would give it.
M058_by_name == Migration("058_history_fk_detach", "057_portfolio_rollups",
  << DropConstraint("open_position_history", "open_position_history_position_id_fkey") >>, << >>)

\* Fault: the downgrade removes the orphans and does not restore the key.
M058_no_restore == Migration("058_history_fk_detach", "057_portfolio_rollups",
  << DropFksOn("open_position_history", "position_id") >>,
  << Fix("fk", "open_position_history", {"position_id"}) >>)

M058 == Migration("058_history_fk_detach", "057_portfolio_rollups",
  << DropFksOn("open_position_history", "position_id") >>,
  << Fix("fk", "open_position_history", {"position_id"}),
     Add("open_position_history", Fk("position_snapshots_position_id_fkey", {"position_id"},
         "open_position")) >>)

M059 == Migration("059_writer_delivery", "058_history_fk_detach",
  << Fix("uq", "regime_snapshot_history", {"symbol", "timestamp"}),
     Add("regime_snapshot_history", Uq("uq_regime_snapshot_symbol_ts", {"symbol", "timestamp"})),
     Create("db_writer_dead_letter", {"id", "table_name", "payload", "error", "created_at",
         "replayed_at"}, {}),
     Index("ix_db_writer_dead_letter_created", "db_writer_dead_letter", {"created_at"}) >>,
  << DropIndex("ix_db_writer_dead_letter_created"), Drop("db_writer_dead_letter"),
     DropConstraint("regime_snapshot_history", "uq_regime_snapshot_symbol_ts") >>)
\* The files under migrations/versions, as alembic's ScriptDirectory loads them: an
\* unordered set; the order is down_revision's.
Versions ==
  { M001, M002, M254f, M003, M004, M005, M006, M007, M008, M009, M010, M011, M012, M013, M014,
    M015, M016, M017, M018, M019, M020, M021, M022, M023, M024, M025, M026, M027, M028, M029,
    M030, M031, M023theme, M024theme, M025theme, M026theme, M032, M033, M034, M035, M036, M037,
    M038, M039, M040, M041, M042, M043, M044, M045, M046, M047, M048, M049, M050, M051, M052,
    M053, M054, M055, M056, M057, M058, M059 }
==============================================================================
