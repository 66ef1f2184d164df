\* "However the HTTP calls interleave": refuted by a call that outlives its
\* transaction's 20 s and its lock.
SPECIFICATION Spec
CONSTANTS
    Workers = {w1, w2}
    None = None
    MaxChanges = 4
    MaxTime = 2
    MaxFaults = 1
    w1 = w1
    w2 = w2
INVARIANT LastRunApplies
