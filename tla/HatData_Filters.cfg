CONSTANTS
    Absent = Absent
    Wrong = Wrong
    Unset = Unset
    Stray = Stray
    Degree = 10
    Histories <- MCHistories
SPECIFICATION DataSpec
INVARIANT AcceptedNeverThrows
