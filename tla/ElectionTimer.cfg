\* The timeouts of adaptive_timeout.h, a clock that moves by 400 or 750 ms at a time, and
\* two RPCs that are measured.
CONSTANTS
    min_timeout = 150
    max_timeout = 300
    initial_timeout = 200
    RPC = {1, 2}
    Computed = {100, 250, 400}
    Phases = {500}
    Ticks = {400, 750}
    MaxTime = 2800
SPECIFICATION TimerSpec
INVARIANTS TimerTypeOK  NeverMeasuredLong
