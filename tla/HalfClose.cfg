SPECIFICATION TaskSpec
\* A connection both sides keep open may stay for ever.
CHECK_DEADLOCK FALSE
CONSTANTS
    Channels = {c1}
    MaxData = 1
PROPERTIES
    EndsWithEither
