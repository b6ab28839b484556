------------------------ MODULE MCMountedPartitionTable ------------------------
EXTENDS MountedPartitionTable, TLC

CONSTANTS u1, u2

\* Each thread unmounts the letters it mounted; or any thread any letter, with which two
\* unmounts of one partition meet.
OwnLetters == {<<u1, 1>>, <<u2, 2>>, <<u2, 3>>}
AnyLetter  == Unmounters \X Letters
=============================================================================
