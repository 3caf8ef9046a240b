---------------------------- MODULE TableSessions ----------------------------
(***************************************************************************)
(* One heap table over several sessions of the program: MyDB_Catalog with  *)
(* all the tables it knows, the descriptor of the one that is used, and    *)
(* its MyDB_TableReaderWriter, with a crash between any two calls.  The    *)
(* buffer manager is what PageStore says it is: a page changed is written  *)
(* when it is evicted, at any time, or when the manager is destroyed.  As  *)
(* in the tests, the manager goes before the catalog.                      *)
(***************************************************************************)
EXTENDS Catalog, TableIterators

CONSTANTS
    PageCapacity,   \* records on a page
    NewDescriptor,  \* the descriptor of the table where the catalog has none
    Statements,     \* CREATE TABLE statements
    MaxPages,       \* bound: pages of the table file
    MaxRecords,     \* bound: records appended in all sessions
    MaxCreated,     \* bound: statements executed in all sessions
    MaxCrashes      \* bound: crashes

ASSUME SessionsAssumption ==
    /\ PageCapacity \in Nat \ {0} /\ MaxPages \in Nat \ {0}
    /\ MaxRecords \in Nat /\ MaxCreated \in Nat /\ MaxCrashes \in Nat
    /\ NewDescriptor \in Descriptors /\ NewDescriptor.last = -1
    /\ Statements \subseteq [tableName : SqlNames, atts : Seq(Attributes), sortAtt : SqlNames]

VARIABLES
    catFile,      \* the catalog file, a set of lines
    myData,       \* the map of the MyDB_Catalog
    table,        \* the MyDB_Table
    current,      \* the page of pageReaderWriter
    mem, disk,    \* the pages as the program sees them, and in the file
    status,       \* "closed"; "catalog" and "table" open; "flushed", "saving"
    nextId,       \* number of the next record
    base,         \* history: the table's records when the session began
    appended,     \* history: and now
    loaded,       \* history: loadFromTextFile was called in this session
    put,          \* history: the catalog has the table as it is
    described,    \* history: what was put in the catalog of each table
    created,      \* history: statements executed so far
    crashes       \* history: crashes so far

pageVars == <<current, mem, disk>>
catalogVars == <<catFile, myData, described>>
recordVars == <<nextId, base, appended, loaded>>
vars == <<catalogVars, table, pageVars, status, recordVars, put, created, crashes>>

Pages == 0 .. MaxPages - 1

(* A page nobody wrote reads as a record nobody appended.                  *)
Unwritten == <<0>>

Between(low, high, pages) == FlattenSeq([n \in 1 .. high - low + 1 |-> pages[low + n - 1]])

Visible(n, pages) == Between(0, n, pages)

name == NewDescriptor.tableName

-----------------------------------------------------------------------------
(* MyDB_Catalog's constructor and getAllTables; a table the catalog does   *)
(* not know is made new.                                                   *)
OpenCatalog ==
    LET data == ReadLines(catFile)  tables == GetAllTables(data) IN
    /\ status = "closed"
    /\ myData' = data /\ described' = tables
    /\ table' = IF name \in DOMAIN tables THEN tables[name] ELSE NewDescriptor
    /\ base' = Visible(table'.last, disk) /\ appended' = base'
    /\ mem' = disk
    /\ loaded' = FALSE /\ put' = (name \in DOMAIN tables)
    /\ status' = "catalog"
    /\ UNCHANGED <<catFile, current, disk, nextId, created, crashes>>

(* What is in the catalog of a table: its attributes are those of every    *)
(* descriptor put there, in the order in which they came, each with the    *)
(* type it was given last.                                                 *)
Renewed(schema, att) ==
    IF att[1] \in Names(schema)
    THEN [n \in DOMAIN schema |-> IF schema[n][1] = att[1] THEN att ELSE schema[n]]
    ELSE Append(schema, att)

Merged(old, new) == FoldLeft(Renewed, old, new)

Described(descriptor) ==
    LET t == descriptor.tableName
        old == IF t \in DOMAIN described THEN described[t].mySchema ELSE << >>
    IN Put(described, t, [descriptor EXCEPT !.mySchema = Merged(old, @)])

(* A statement executed, whether or not its table is known.  It touches    *)
(* the catalog only; here it comes before the table is opened, and not     *)
(* between the operations on its pages.                                    *)
CreateTable(statement) ==
    /\ status = "catalog" /\ created < MaxCreated
    /\ Creatable(statement)
    /\ myData' = TableInCatalog(myData, Created(statement))
    /\ described' = Described(Created(statement))
    /\ created' = created + 1
    /\ put' = (put /\ statement.tableName # name)
    /\ UNCHANGED <<catFile, table, pageVars, status, recordVars, crashes>>

(* Mutant of OpenTable: the page is cleared in any case.                   *)
OpenTableClearing ==
    /\ status = "catalog"
    /\ table' = [table EXCEPT !.last = IF @ = -1 THEN 0 ELSE @] /\ current' = table'.last
    /\ mem' = [mem EXCEPT ![current'] = << >>]
    /\ put' = (put /\ table.last # -1)
    /\ status' = "table"
    /\ UNCHANGED <<catalogVars, disk, recordVars, created, crashes>>

(* The constructor of MyDB_TableReaderWriter.                              *)
OpenTable ==
    /\ status = "catalog"
    /\ IF table.last = -1 THEN /\ table' = [table EXCEPT !.last = 0] /\ current' = 0
                               /\ mem' = [mem EXCEPT ![0] = << >>]
                               /\ put' = FALSE
                          ELSE current' = table.last /\ UNCHANGED <<table, mem, put>>
    /\ status' = "table"
    /\ UNCHANGED <<catalogVars, disk, recordVars, created, crashes>>

(* Mutant of NewPage: the page is taken as it is.                          *)
NewPageUncleared(s) ==
    /\ table.last + 1 \in Pages
    /\ table' = [table EXCEPT !.last = @ + 1] /\ current' = table'.last
    /\ mem' = [mem EXCEPT ![current'] = (IF @ = Unwritten THEN << >> ELSE @) \o s]
    /\ put' = FALSE

(* The next page becomes the last and the current one, with records s.     *)
NewPage(s) ==
    /\ table.last + 1 \in Pages
    /\ table' = [table EXCEPT !.last = @ + 1] /\ current' = table'.last
    /\ mem' = [mem EXCEPT ![current'] = s]
    /\ put' = FALSE

HasRoom == Len(mem[current]) < PageCapacity

AppendRecord ==
    /\ status = "table" /\ nextId <= MaxRecords
    /\ IF HasRoom
       THEN /\ mem' = [mem EXCEPT ![current] = Append(@, nextId)]
            /\ UNCHANGED <<table, current, put>>
       ELSE NewPage(<<nextId>>)
    /\ appended' = Append(appended, nextId)
    /\ nextId' = nextId + 1
    /\ UNCHANGED <<catalogVars, disk, status, base, loaded, created, crashes>>

(* operator[] on the page after the last one.                              *)
ExtendTable ==
    /\ status = "table"
    /\ NewPage(<< >>)
    /\ UNCHANGED <<catalogVars, disk, status, recordVars, created, crashes>>

(* loadFromTextFile empties the first page; the records of the file follow *)
(* as appends.                                                             *)
LoadFromTextFile ==
    /\ status = "table" /\ ~ loaded
    /\ table' = [table EXCEPT !.last = 0] /\ current' = 0
    /\ mem' = [mem EXCEPT ![0] = << >>]
    /\ appended' = << >>
    /\ loaded' = TRUE /\ put' = (put /\ table.last = 0)
    /\ UNCHANGED <<catalogVars, disk, status, nextId, base, created, crashes>>

PutInCatalog ==
    /\ status = "table"
    /\ myData' = TableInCatalog(myData, table)
    /\ described' = Described(table)
    /\ put' = TRUE
    /\ UNCHANGED <<catFile, table, pageVars, status, recordVars, created, crashes>>

Evict(p) ==
    /\ status = "table"
    /\ mem[p] # disk[p]
    /\ disk' = [disk EXCEPT ![p] = mem[p]]
    /\ UNCHANGED <<catalogVars, table, current, mem, status, recordVars, put, created, crashes>>

DestroyManager ==
    /\ status = "table"
    /\ disk' = mem
    /\ status' = "flushed"
    /\ UNCHANGED <<catalogVars, table, current, mem, recordVars, put, created, crashes>>

(* save, in the catalog's destructor: the file is truncated, then written. *)
TruncateCatalog ==
    /\ status = "flushed"
    /\ catFile' = {}
    /\ status' = "saving"
    /\ UNCHANGED <<myData, described, table, pageVars, recordVars, put, created, crashes>>

(* The end of a process; the histories of a session end with it.           *)
MemoryGone ==
    /\ myData' = << >> /\ described' = << >>
    /\ table' = NewDescriptor /\ current' = 0 /\ mem' = disk
    /\ base' = << >> /\ appended' = << >>
    /\ loaded' = FALSE /\ put' = FALSE

WriteCatalog ==
    /\ status = "saving"
    /\ catFile' = Lines(myData)
    /\ status' = "closed" /\ MemoryGone
    /\ UNCHANGED <<disk, nextId, created, crashes>>

Crash ==
    /\ status # "closed" /\ crashes < MaxCrashes
    /\ status' = "closed" /\ MemoryGone
    /\ crashes' = crashes + 1
    /\ UNCHANGED <<catFile, disk, nextId, created>>

-----------------------------------------------------------------------------
Init ==
    /\ catFile = {} /\ myData = << >> /\ described = << >>
    /\ table = NewDescriptor /\ current = 0
    /\ disk = [p \in Pages |-> Unwritten] /\ mem = disk
    /\ status = "closed"
    /\ nextId = 1
    /\ base = << >> /\ appended = << >>
    /\ loaded = FALSE /\ put = FALSE
    /\ created = 0 /\ crashes = 0

Next == \/ OpenCatalog \/ (\E s \in Statements : CreateTable(s)) \/ OpenTable
        \/ AppendRecord \/ ExtendTable \/ LoadFromTextFile
        \/ PutInCatalog \/ (\E p \in Pages : Evict(p))
        \/ DestroyManager \/ TruncateCatalog \/ WriteCatalog \/ Crash

Spec == Init /\ [][Next]_vars

-----------------------------------------------------------------------------
(* A table reads back as what was appended to it, in that order, also on   *)
(* pages that an earlier session wrote and the catalog never heard of: by  *)
(* either iterator, with empty pages at any place, and by the iterator     *)
(* over some of the pages what is on these.                                *)
ReadsBack ==
    status \in {"table", "flushed", "saving"} =>
        /\ Scan(mem, table.last) = appended
        /\ ScanAlt(mem, Pages, 0, HighPage, table.last) = appended
        /\ \A low \in 0 .. table.last : \A high \in low .. MaxPages :
              ScanAlt(mem, Pages, low, high, table.last) = Between(low, Min({high, table.last}), mem)

SavedLast ==
    LET data == ReadLines({line \in catFile : KeyOf(line) = Key(name, ".lastPage")})
    IN IF data = << >> THEN -1 ELSE GetInt(data, Key(name, ".lastPage"))

(* After a session that ended in order, the files hold the whole table if  *)
(* it was put in the catalog after it grew, and the beginning of it if it  *)
(* was put there before; and the next session will read of every table     *)
(* from the catalog what was last put there, and no attribute twice.       *)
OrderlyEndKeepsTable == status = "saving" =>
    LET next == GetAllTables(ReadLines(Lines(myData)))
        n == IF name \in DOMAIN next THEN next[name].last ELSE -1 IN
    /\ put => Visible(n, disk) = appended
    /\ ~ loaded => IsPrefix(Visible(n, disk), appended)
    /\ next = described
    /\ \A t \in DOMAIN next : Cardinality(Names(next[t].mySchema)) = Len(next[t].mySchema)

(* A crash while the table grows loses nothing that was in the files when  *)
(* the session began, and what it leaves is the beginning of the table:    *)
(* nothing twice, nothing out of order, no page that nobody wrote.         *)
CrashKeepsTable ==
    status \in {"catalog", "table", "flushed"} /\ ~ loaded =>
        /\ IsPrefix(base, Visible(SavedLast, disk))
        /\ IsPrefix(Visible(SavedLast, disk), appended)

=============================================================================
