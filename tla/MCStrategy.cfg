SPECIFICATION FairSpec
CONSTANTS
    review = review
    redo = redo
    ask = ask
    fork = fork
    mid = mid
    leaf = leaf
    loop = loop
    lane = lane
    draft = draft
    check = check
    again = again
    signoff = signoff
    left = left
    right = right
    join = join
    note = note
    down = down
    work = work
    back = back
    forth = forth
    Strategy = {review, redo, ask, fork, mid, leaf, loop, lane}
    Node = {draft, check, again, signoff, left, right, note, join, down, work, back, forth}
    Name = {"doc"}
    NodesOf <- MCNodesOf
    DependsOn <- MCDependsOn
    Calls <- MCCalls
    Gate <- MCGate
    Retries <- MCRetries
    Refreshes = {draft, left, note}
    Inputs <- MCInputs
    Outputs <- MCOutputs
    Escalation <- MCEscalation
    MaxParallel = 2
    MaxDepth = 3
    NoStrategy = NoStrategy
    Nobody = Nobody
INVARIANTS ApprovalNeeded CycleDetection CompletedIsPaid OverIsQuiet
PROPERTIES Terminates
CHECK_DEADLOCK FALSE
