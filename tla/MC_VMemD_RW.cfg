\* A read or a write of every file listed for every pair of memory maps of up
\* to two entries in an address space of four pages, at every offset up to
\* two pages, for requests of one byte, of less than a page and of more.
CONSTANTS
    Kinds = {"rw"}
    MaxEntries = 33
    EntrySizes = {1, 40}
    DWORD = 65536
    AMod = 16
    PageSize = 4
    ReqSizes = {1, 3, 6}
SPECIFICATION Spec
INVARIANT RWMatchesFile
