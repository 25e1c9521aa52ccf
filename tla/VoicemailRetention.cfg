\* Two overlapping workers with batches of one and of two, over two recordings.
SPECIFICATION WorkSpec
CONSTANTS
    w1 = w1
    w2 = w2
    Workers = {w1, w2}
    Limit <- OneAndTwo
    Recordings = {1, 2}
    Statuses = {"available"}
    MaxEntries = 2
    Deadlines = {1, 2}
    MaxVersion = 2
    MaxTime = 2
INVARIANTS PurgedIsGone NoFollowUpMeansDrained ConsumersAreNotMisled
PROPERTY ReceiptsAreForWhatWasListed
