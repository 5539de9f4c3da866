CONSTANTS
    a = a  b = b  g = g  h = h  s = s  r = r  u = u  v = v
    None = None  Unreadable = Unreadable
    Hard = Hard  NoExpire = NoExpire  Infinite = Infinite
    NoReply = NoReply  Error = Error  Ack = Ack
    Sub = 1
    Pod = {a}  Key = {k}  Tag = {t}
    Caller = {g, u, v}
    PodOf <- OnePod  Does <- ReaderWrites
    Revalidate = {3}
    SoftTags = {{}}
    EntryTags <- Tagged
    Lifetimes = {"finite"}
    Bumps <- Tagged
    Durations = {Hard, NoExpire, 1}
    Faults = {"evict_record"}
    Skew = 0  MaxClock = 1  MaxSent = 1
SPECIFICATION KSpec
INVARIANT InvalidatedNeverFresh
PROPERTIES HardInvalidationKept ReturnedInvalidationStands
SYMMETRY AnyUpdater
