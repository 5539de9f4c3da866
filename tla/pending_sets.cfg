CONSTANTS
    a = a  b = b  g = g  h = h  s = s  r = r  u = u  v = v
    None = None  Unreadable = Unreadable
    Hard = Hard  NoExpire = NoExpire  Infinite = Infinite
    NoReply = NoReply  Error = Error  Ack = Ack
    Sub = 1
    Pod = {a}  Key = {k, l}  Tag = {t}
    Caller = {g, s, r}
    PodOf <- OnePod  Does <- OneEach
    Revalidate = {1}
    SoftTags = {{}}
    EntryTags = {{}}
    Lifetimes = {"finite"}
    Bumps <- Tagged
    Durations = {Hard, NoExpire, 1}
    Faults = {"timeout", "disconnect"}
    Skew = 0  MaxClock = 0  MaxSent = 2
SPECIFICATION PSpec
INVARIANTS PendingSetsLive GetAwaitsLoneSet
SYMMETRY AnyWriter
