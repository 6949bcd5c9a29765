CONSTANTS
    Clients = {"c1", "c2"}
    EventTypes = {"metric", "processes"}
    Limits = {0, 1}
    BufferSize = 2
    TableRows = 2
    MaxFrames = 3
    OpClients = {"c1", "c2"}
    Work <- MCWork
    Machines <- MCMachines
    MaxHostOps = 3
    FileClients = {"c1", "c2"}
    Names = {"r", "d", "f", "s", "l", "out", "in", "p", "x", "e", "g", "c1", "c2"}
    FileRoots <- MCRoots
    FileRequests <- MCRequests
    StartTree <- MCTree
    StartDisk <- MCDisk
    MaxFileOps = 2
    Entries <- MCEntries
    FirstFiles <- MCFirstFiles
    Tables <- MCTables
    MaxEdits = 2
SPECIFICATION Spec
INVARIANT NoSendOnClosed
INVARIANT SlowClientKeepsNewest
INVARIANT SuccessTakesEffect
INVARIANT UngrantedNeverHappens
INVARIANT FilesConfined
INVARIANT PrivilegedNeverTorn
INVARIANT MigrationInvisible
CHECK_DEADLOCK FALSE
