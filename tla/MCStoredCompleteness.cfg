\* Four deliveries around three deadlines, over the night the clocks go forward.
SPECIFICATION Spec
CONSTANTS
    Delivery <- MCDelivery
    Report <- MCReport
    Quarantined <- MCQuarantined
    Instant <- MCInstant
    SpringForward = 2
    FallBack = 219
    Absent = Absent
    Never = Never
INVARIANTS
    EvaluatorsAgree
    PublishedIsDue
    TimeAloneOnlyWorsens
    PublishedIsCurrent
PROPERTIES
    OnlyEvidenceReachesBack
\* The behaviour ends when the last delivery is damaged and time is up.
CHECK_DEADLOCK FALSE
