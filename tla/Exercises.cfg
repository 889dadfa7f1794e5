SPECIFICATION Spec
CONSTANTS
    Senders = {s1, s2, s3}
    Byte = {a, b}
    BlockSize = 2
    MaxLength = 5
    Bits = 7
    MaxIter = 17
    n = 3
    Name = {f1, f2, f3}
    Txt = {f1, f2}
INVARIANTS ServedOnce CopiedSoFar Convergence OwnPartOnly FlippedUpTo
PROPERTIES SleeperServes SendersAreAnswered SecondCopyComplete ParentEnds Answered
CHECK_DEADLOCK FALSE
