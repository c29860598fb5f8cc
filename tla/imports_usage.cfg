INIT Init
NEXT Write
INVARIANT UsageIsDescribed
CHECK_DEADLOCK FALSE
