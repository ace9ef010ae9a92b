SPECIFICATION FairSpec
CONSTANTS
    web = web
    worker = worker
    all = all
    b1 = b1
    b2 = b2
    daily = daily
    hourly = hourly
    None = None
    Pods = {all, worker}
    Serves = {all}
    Syncs = {all, worker}
    Backups = {b1, b2}
    Crons = {daily, hourly}
    MaxEdits = 2
    MaxFaults = 1
PROPERTIES SyncIsExact WorkersSettle
