SPECIFICATION Spec
CONSTANTS
    Requests <- SomeRequests
    Versions <- SomeVersions
    MaxReaders = 2
    MaxRuns = 2
    MaxMarks = 1
CHECK_DEADLOCK FALSE
INVARIANTS
    TypeOK
    OneWatcherEach
    ResumesOwn
    RelistsWatched
    Decodable
    Redacted
    BookmarksWhenSupported
