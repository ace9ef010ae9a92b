SPECIFICATION MCSpec
CONSTANTS
    None = None
    src = src
    tgt = tgt
    s3 = s3
    boss = boss
    dev = dev
    p1 = p1
    p2 = p2
    stage = stage
    v1 = v1
    v2 = v2
    api = api
    admins = admins
    devs = devs
    ops = ops
    Databases = {src, tgt}
    Destinations = {s3}
    TagOf <- Tags
    Workers = {w}
    Serves <- ServesDefault
    Managers = {boss}
    Clients = {boss, dev, api}
    Conns = {v1, v2}
    Edited = {tgt, s3}
    Present = {src, tgt}
    MaxChanges = 2
    Presets = {p1}
    Envs = {stage}
    Pods = {pod}
    Configs <- TwoConfigs
    Groups = {admins, devs, ops}
    UserOf <- Users
    LoginOf <- Logins
    GroupsOf <- Carried
    Dumps = {1, 2}
    DumpOf <- OfSource
    DayOf <- OneDay
    Sends <- Asked
INVARIANTS StartedAsAllowed AuditTrail
PROPERTY HealthSettles
CHECK_DEADLOCK FALSE
