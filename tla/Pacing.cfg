SPECIFICATION FairSpec
CONSTANTS
  available_agents = 2
  window_size = 2
  min_answer_rate <- TenPercent
  max_answer_rate <- MaxAnswerRate
  default_answer_rate <- ThirtyPercent
  engine_max_line_ratio <- ThreePerAgent
  hard_max_line_ratio <- TwoPerAgent
  min_samples_for_predictive = 2
  max_provider_error_rate <- FortyPercent
  feedback_window = 3
  target_abandon_rate <- FortyPercent
  critical_abandon_rate <- SixtyPercent
  scale_down_factor <- Half
  scale_up_factor <- Double
  min_pacing_scale = 1
  ScaleUnit = 8
INVARIANTS
  PacingTypeOK
  SpeculationWithinHardCap
  
PROPERTIES
  AbandonmentComesDown
  ScaleRecovers
