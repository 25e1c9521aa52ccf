\* Two workers that keep passing with batches of one, over two recordings.
SPECIFICATION FairWork
CONSTANTS
    w1 = w1
    w2 = w2
    Workers = {w1, w2}
    Limit <- OnesOnly
    Recordings = {1, 2}
    Statuses = {"available"}
    MaxEntries = 2
    Deadlines = {1}
    MaxVersion = 2
    MaxTime = 1
PROPERTY EventuallyPurged
