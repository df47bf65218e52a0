\* Is a watcher shown states there have been, and the right one in the end?
SPECIFICATION Spec
CONSTANTS
    Json = {j1, j2}
    NoEntry = NoEntry
    Handler = {h1, h2}
    MaxChanges = 2
    MaxFaults = 1
INVARIANT QuietAgrees
PROPERTIES ImplementsWatch ListSettles
