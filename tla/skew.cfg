CONSTANTS
    a = a  b = b  g = g  h = h  s = s  r = r  u = u  v = v
    None = None  Unreadable = Unreadable
    Hard = Hard  NoExpire = NoExpire  Infinite = Infinite
    NoReply = NoReply  Error = Error  Ack = Ack
    Sub = 2
    Pod = {a, b}  Key = {k}  Tag = {t}
    Caller = {g, v}
    PodOf <- TwoPods  Does <- BothUpdate
    Revalidate = {3}
    SoftTags = {{}}
    EntryTags <- Tagged
    Lifetimes = {"finite", "infinite"}
    Bumps <- Tagged
    Durations = {1}
    Faults = {"evict_record"}
    Skew = 1  MaxClock = 3  MaxSent = 1
SPECIFICATION RSpec
INVARIANT StandingInv
PROPERTIES FreshWithinSlack ReturnedUnlessOvertaken
