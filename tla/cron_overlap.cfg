\* One tick of cron and one request.
CONSTANTS
    t1 = t1
    c1 = c1
    r1 = r1
    r2 = r2
    Ticks = {t1}
    Clients = {c1}
    Runs = {r1, r2}
    NoRun = NoRun
SPECIFICATION Spec
PROPERTY CronSkips
CHECK_DEADLOCK FALSE
