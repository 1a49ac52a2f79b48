SPECIFICATION Spec
CONSTANT
  Heads = {"003_svi_ssvi_params", "018_features_enrichment", "027_positions_closed_at",
           "026_theme2_portfolio", "059_writer_delivery"}
INVARIANTS
  UpgradeStuckOnlyByPayload
  StampTruthful
  KeysSurviveDowngrade
  HeadMatchesModels
