CONSTANTS
    a = a  b = b  g = g  h = h  s = s  r = r  u = u  v = v
    None = None  Unreadable = Unreadable
    Hard = Hard  NoExpire = NoExpire  Infinite = Infinite
    NoReply = NoReply  Error = Error  Ack = Ack
    Sub = 1
    Pod = {a}  Key = {k}  Tag = {t}
    Caller = {g, s, u}
    PodOf <- OnePod  Does <- OneEach
    Revalidate = {3}
    SoftTags <- Maybe
    EntryTags = {{}}
    Lifetimes = {"finite"}
    Bumps <- Tagged
    Durations = {Hard}
    Faults = {"timeout", "evict_entry", "evict_record"}
    Skew = 0  MaxClock = 1  MaxSent = 1
SPECIFICATION ProgressSpec
PROPERTIES EveryCallReturns ColdTagHeals
