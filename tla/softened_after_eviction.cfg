CONSTANTS
    a = a  b = b  g = g  h = h  s = s  r = r  u = u  v = v
    None = None  Unreadable = Unreadable
    Hard = Hard  NoExpire = NoExpire  Infinite = Infinite
    NoReply = NoReply  Error = Error  Ack = Ack
    Sub = 1
    Pod = {a, b}  Key = {k}  Tag = {t}
    Caller = {g, v}
    PodOf <- TwoPods  Does <- ReaderWrites
    Revalidate = {3}
    SoftTags = {{}}
    EntryTags <- Tagged
    Lifetimes = {"finite"}
    Bumps <- Tagged
    Durations = {Hard, NoExpire}
    Faults = {"evict_record"}
    Skew = 0  MaxClock = 2  MaxSent = 2
SPECIFICATION HSpec
INVARIANT HardInvalidatedNeverServed
