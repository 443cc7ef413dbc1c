CONSTANTS
    NUM_MAX_OPEN_FILES <- MCNumMaxOpenFiles
    NUM_FILES <- MCNumFiles
    BLOCK_SIZE <- MCBlockSize
    RTC_MAX_FREQ <- MCRtcMaxFreq
    Dentries <- MCDentries
    Contents <- MCContents
    OpenNames <- MCOpenNames
    ReadSizes <- MCReadSizes
    WriteArgs <- MCWriteArgs
SPECIFICATION Spec
INVARIANTS
    TypeOK
    ReadDataMatchesReference
    FileCursorMatchesBytes
    DirectoryListingInOrder
    RtcRateValid
PROPERTIES
    RtcReadReturns
