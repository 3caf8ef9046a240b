--------------------------- MODULE BufferManager ---------------------------
(***************************************************************************)
(* The buffer pool of src/Main/BufferMgr: MyDB_BufferManager, PageBase and *)
(* MyDB_PageHandleBase.  The program is sequential, so one action is one   *)
(* whole call of the public interface.  A page is named by the key of its  *)
(* bufferMap entry, <<table, page number>>; at most one PageBase object    *)
(* exists for a key at a time (invariant Structure), so the fields of the  *)
(* object are kept per key.                                                *)
(***************************************************************************)
EXTENDS Integers, FiniteSets, SequencesExt

CONSTANTS
    Tables,        \* names of the persistent tables
    TempTable,     \* the name "" under which anonymous pages are filed
    PageIds,       \* page numbers that are requested of a table
    NumPages,      \* numPages, the number of frames in the pool
    MaxAnonymous,  \* bound: anonymous pages allocated in one session
    Handles,       \* slots for the live MyDB_PageHandleBase objects
    Values,        \* what clients write in a page
    Junk,          \* bytes nobody wrote: fresh memory, reads past the end
    NoPage,        \* a handle slot that is not in use
    WriteFaults    \* whether a write() to a table file may fail

AnonIds == 0 .. MaxAnonymous - 1
Names == Tables \cup {TempTable}
Keys == (Tables \X PageIds) \cup ({TempTable} \X AnonIds)
Frames == 0 .. NumPages - 1
NoFrame == -1
Bytes == Values \cup {Junk}

ASSUME ConstantsAssumption ==
    /\ NumPages \in Nat \ {0}
    /\ MaxAnonymous \in Nat
    /\ PageIds \subseteq Nat
    /\ TempTable \notin Tables
    /\ Junk \notin Values
    /\ NoPage \notin Keys
    /\ IsFiniteSet(Handles)
    /\ WriteFaults \in BOOLEAN

VARIABLES
    status,       \* "running", "down" after the destructor, "crashed"
    mapped,       \* keys of bufferMap
    lru,          \* pageContainer, the next page to evict first
    memory,       \* PageBase::memory, the frame of a page or NoFrame
    pin,          \* pages whose PageBase::pin is set
    dirty,        \* pages whose PageBase::dirty is set
    pool,         \* bufferPool, the bytes in each frame
    disk,         \* bytes of the table files and of the temporary file
    tableMap,     \* tableMap: no entry, an open file, or descriptor 0
    currPage,     \* currPage, frames handed out so far
    anonymousID,  \* anonymousID, the number of the next anonymous page
    handles,      \* the page each live handle refers to
    killed        \* history: tables killed in this session

vars == <<status, mapped, lru, memory, pin, dirty, pool, disk, tableMap,
          currPage, anonymousID, handles, killed>>

Resident == {k \in Keys : memory[k] # NoFrame}
Referenced == {k \in Keys : \E h \in Handles : handles[h] = k}
Refs(k) == {h \in Handles : handles[h] = k}

(***************************************************************************)
(* The file descriptors.  tableMap[name] on a missing name inserts 0, the  *)
(* descriptor of the standard input: what is read from it is Junk, what is *)
(* written to it is in no table file.                                      *)
(***************************************************************************)
Lookup(tm, t) == [tm EXCEPT ![t] = IF @ = "none" THEN "stdin" ELSE @]

Opened(tm, t) == [tm EXCEPT ![t] = IF @ = "none" THEN "open" ELSE @]

ReadPage(tm, k) == IF tm[k[1]] = "open" THEN disk[k] ELSE Junk

(* Mutant of WritePage: the lseek to the page's offset is missing.          *)
WritePageWithoutSeek(tm, k) ==
    \/ /\ tm[k[1]] = "open"
       /\ disk' = [disk EXCEPT ![<<k[1], 0>>] = pool[memory[k]]]
    \/ /\ tm[k[1]] # "open" \/ WriteFaults
       /\ disk' = disk

WritePage(tm, k) ==
    \/ /\ tm[k[1]] = "open"
       /\ disk' = [disk EXCEPT ![k] = pool[memory[k]]]
    \/ /\ tm[k[1]] # "open" \/ WriteFaults
       /\ disk' = disk

(* Mutant of IsVictim: the pin of the page is not looked at.               *)
IsVictimIgnoringPins(i) == i = 1

(***************************************************************************)
(* A frame for page k, which has none: the next frame never used, or the   *)
(* frame of the first page in the list that is not pinned.  tm is tableMap *)
(* after the caller's own lookups.  The victim's entry stays in bufferMap  *)
(* unless the test of its use count (one reference is the local variable's *)
(* own) says that nobody else refers to it.                                *)
(***************************************************************************)
IsVictim(i) == lru[i] \notin pin /\ \A j \in 1 .. i - 1 : lru[j] \in pin

(* Mutant of VictimUseCount: the page's handles are not counted.           *)
VictimUseCountWithoutHandles(v) == IF v \in mapped THEN 1 ELSE 0

VictimUseCount(v) == 1 + (IF v \in mapped THEN 1 ELSE 0) + Cardinality(Refs(v))

(* Mutant of TakeFreshFrame: one frame too many is handed out.             *)
TakeFreshFrameOffByOne(k, tm) ==
    /\ currPage <= NumPages
    /\ currPage' = currPage + 1
    /\ memory' = [memory EXCEPT ![k] = currPage]
    /\ lru' = Append(lru, k)
    /\ mapped' = mapped \cup {k}
    /\ tableMap' = tm
    /\ UNCHANGED <<dirty, disk>>

TakeFreshFrame(k, tm) ==
    /\ currPage < NumPages
    /\ currPage' = currPage + 1
    /\ memory' = [memory EXCEPT ![k] = currPage]
    /\ lru' = Append(lru, k)
    /\ mapped' = mapped \cup {k}
    /\ tableMap' = tm
    /\ UNCHANGED <<dirty, disk>>

ReplaceVictim(k, tm) ==
    \E i \in 1 .. Len(lru) :
        LET v == lru[i] IN
        /\ IsVictim(i)
        /\ \/ /\ v \in dirty
              /\ tableMap' = Lookup(tm, v[1])
              /\ WritePage(tableMap', v)
           \/ /\ v \notin dirty
              /\ tableMap' = tm
              /\ disk' = disk
        /\ dirty' = dirty \ {v}
        /\ memory' = [memory EXCEPT ![k] = memory[v], ![v] = NoFrame]
        /\ lru' = Append(RemoveAt(lru, i), k)
        /\ mapped' = {k} \cup
              (IF VictimUseCount(v) > 1 THEN mapped ELSE mapped \ {v})
        /\ UNCHANGED currPage

BringIn(k, tm) ==
    \/ TakeFreshFrame(k, tm)
    \/ currPage = NumPages /\ ReplaceVictim(k, tm)

AllPinned == \A i \in 1 .. Len(lru) : lru[i] \in pin

(***************************************************************************)
(* getPage (whichTable, id) and getPinnedPage (whichTable, id), the latter *)
(* with pinned = TRUE.  Clients never ask for a table they have killed:    *)
(* the only caller of killTable discards intermediate tables.              *)
(***************************************************************************)
NewHandle(h, k, pinned) ==
    /\ handles[h] = NoPage
    /\ handles' = [handles EXCEPT ![h] = k]
    /\ pin' = IF pinned THEN pin \cup {k} ELSE pin

GetPageHit(k, h, pinned) ==
    /\ status = "running" /\ k[1] \notin killed
    /\ k \in mapped /\ memory[k] # NoFrame
    /\ \E i \in 1 .. Len(lru) : /\ lru[i] = k
                                /\ lru' = Append(RemoveAt(lru, i), k)
    /\ NewHandle(h, k, pinned)
    /\ UNCHANGED <<status, mapped, memory, dirty, pool, disk, tableMap,
                   currPage, anonymousID, killed>>

GetPageMiss(k, h, pinned) ==
    /\ status = "running" /\ k[1] \notin killed
    /\ k \notin mapped \/ memory[k] = NoFrame
    /\ LET tm == Opened(tableMap, k[1]) IN
       /\ BringIn(k, tm)
       /\ pool' = [pool EXCEPT ![memory'[k]] = ReadPage(tm, k)]
    /\ NewHandle(h, k, pinned)
    /\ UNCHANGED <<status, anonymousID, killed>>

(* getPage () and getPinnedPage (): the new page holds whatever its frame  *)
(* held.                                                                   *)
GetAnonymousPage(h, pinned) ==
    LET k == <<TempTable, anonymousID>> IN
    /\ status = "running"
    /\ anonymousID < MaxAnonymous
    /\ BringIn(k, tableMap)
    /\ anonymousID' = anonymousID + 1
    /\ NewHandle(h, k, pinned)
    /\ UNCHANGED <<status, pool, killed>>

(***************************************************************************)
(* The handle's methods.  getBytes on a page in the pool changes nothing;  *)
(* on an evicted page it is retrievePage, which always takes a victim.     *)
(* Write is what clients do with the bytes: getBytes, store, wroteBytes.   *)
(***************************************************************************)
GetBytes(h) ==
    LET k == handles[h] IN
    /\ status = "running" /\ k # NoPage
    /\ memory[k] = NoFrame
    /\ LET tm == Lookup(tableMap, k[1]) IN
       /\ ReplaceVictim(k, tm)
       /\ pool' = [pool EXCEPT ![memory'[k]] = ReadPage(tm, k)]
    /\ UNCHANGED <<status, pin, anonymousID, handles, killed>>

(* Mutant of Write: the client's wroteBytes sets no dirty bit.             *)
WriteUnmarked(h, v) ==
    LET k == handles[h] IN
    /\ status = "running" /\ k # NoPage
    /\ memory[k] # NoFrame
    /\ pool' = [pool EXCEPT ![memory[k]] = v]
    /\ UNCHANGED <<status, mapped, lru, memory, pin, dirty, disk, tableMap,
                   currPage, anonymousID, handles, killed>>

Write(h, v) ==
    LET k == handles[h] IN
    /\ status = "running" /\ k # NoPage
    /\ memory[k] # NoFrame
    /\ pool' = [pool EXCEPT ![memory[k]] = v]
    /\ dirty' = dirty \cup {k}
    /\ UNCHANGED <<status, mapped, lru, memory, pin, disk, tableMap, currPage,
                   anonymousID, handles, killed>>

Unpin(h) ==
    /\ status = "running" /\ handles[h] # NoPage
    /\ pin' = pin \ {handles[h]}
    /\ UNCHANGED <<status, mapped, lru, memory, dirty, pool, disk, tableMap,
                   currPage, anonymousID, handles, killed>>

(* The destructor of a handle looks at the number of shared pointers to    *)
(* the page: one in bufferMap, one in pageContainer, one in each handle.   *)
UseCount(k) == Cardinality(Refs(k)) + (IF k \in mapped THEN 1 ELSE 0)
                                    + (IF memory[k] # NoFrame THEN 1 ELSE 0)

(* Mutant of DropHandle: the last handle leaves the page pinned.           *)
DropHandleKeepingPin(h) ==
    LET k == handles[h] IN
    /\ status = "running" /\ k # NoPage
    /\ mapped' = IF UseCount(k) = 2 THEN mapped \ {k} ELSE mapped
    /\ handles' = [handles EXCEPT ![h] = NoPage]
    /\ UNCHANGED <<status, lru, memory, pin, dirty, pool, disk, tableMap,
                   currPage, anonymousID, killed>>

DropHandle(h) ==
    LET k == handles[h] IN
    /\ status = "running" /\ k # NoPage
    /\ pin' = IF UseCount(k) = 3 THEN pin \ {k} ELSE pin
    /\ mapped' = IF UseCount(k) = 2 THEN mapped \ {k} ELSE mapped
    /\ handles' = [handles EXCEPT ![h] = NoPage]
    /\ UNCHANGED <<status, lru, memory, dirty, pool, disk, tableMap, currPage,
                   anonymousID, killed>>

(***************************************************************************)
(* A call that needs a victim when every page is pinned dereferences an    *)
(* iterator that was never assigned: a null pointer, the program dies.     *)
(***************************************************************************)
NeedsFrame(k) == k \notin mapped \/ memory[k] = NoFrame

RunOutOfFrames ==
    /\ status = "running"
    /\ currPage = NumPages /\ AllPinned
    /\ \/ \E h \in Handles : handles[h] = NoPage
          /\ \/ anonymousID < MaxAnonymous
             \/ \E k \in Tables \X PageIds : NeedsFrame(k) /\ k[1] \notin killed
       \/ \E h \in Handles : handles[h] # NoPage /\ memory[handles[h]] = NoFrame
    /\ status' = "crashed"
    /\ UNCHANGED <<mapped, lru, memory, pin, dirty, pool, disk, tableMap,
                   currPage, anonymousID, handles, killed>>

(* killTable: nothing at all when tableMap has no entry for the table.     *)
KillTable(t) ==
    /\ status = "running" /\ t \notin killed
    /\ tableMap[t] # "none"
    /\ tableMap' = [tableMap EXCEPT ![t] = "none"]
    /\ disk' = [k \in Keys |-> IF k[1] = t THEN Junk ELSE disk[k]]
    /\ killed' = killed \cup {t}
    /\ UNCHANGED <<status, mapped, lru, memory, pin, dirty, pool, currPage,
                   anonymousID, handles>>

(***************************************************************************)
(* The destructor writes the dirty table pages in the list (a failed write *)
(* is not noticed), closes the files and deletes the temporary file; the   *)
(* clients have released their handles by then.  The constructor of the    *)
(* next session finds the table files as the last session left them, after *)
(* a crash too; what a crashed session left in the temporary file is junk. *)
(***************************************************************************)
Blank ==
    /\ mapped' = {}
    /\ lru' = << >>
    /\ memory' = [k \in Keys |-> NoFrame]
    /\ pin' = {}
    /\ dirty' = {}
    /\ pool' = [f \in Frames |-> Junk]
    /\ currPage' = 0
    /\ anonymousID' = 0
    /\ handles' = [h \in Handles |-> NoPage]
    /\ killed' = {}

Flushed(k) == k \in dirty /\ k[1] # TempTable /\ Lookup(tableMap, k[1])[k[1]] = "open"

Shutdown ==
    /\ status = "running"
    /\ \A h \in Handles : handles[h] = NoPage
    /\ status' = "down"
    /\ \E lost \in SUBSET (IF WriteFaults THEN dirty ELSE {}) :
        disk' = [k \in Keys |->
                   CASE k[1] = TempTable -> Junk
                     [] Flushed(k) /\ k \notin lost -> pool[memory[k]]
                     [] OTHER -> disk[k]]
    /\ tableMap' = [t \in Names |-> "none"]
    /\ Blank

Restart ==
    /\ status \in {"down", "crashed"}
    /\ status' = "running"
    /\ disk' = [k \in Keys |-> IF k[1] = TempTable THEN Junk ELSE disk[k]]
    /\ tableMap' = [t \in Names |-> IF t = TempTable THEN "open" ELSE "none"]
    /\ Blank

-----------------------------------------------------------------------------
Init ==
    /\ status = "running"
    /\ mapped = {}
    /\ lru = << >>
    /\ memory = [k \in Keys |-> NoFrame]
    /\ pin = {}
    /\ dirty = {}
    /\ pool = [f \in Frames |-> Junk]
    /\ disk = [k \in Keys |-> Junk]
    /\ tableMap = [t \in Names |-> IF t = TempTable THEN "open" ELSE "none"]
    /\ currPage = 0
    /\ anonymousID = 0
    /\ handles = [h \in Handles |-> NoPage]
    /\ killed = {}

GetPage == \E k \in Tables \X PageIds, h \in Handles, pinned \in BOOLEAN :
              GetPageHit(k, h, pinned) \/ GetPageMiss(k, h, pinned)

GetAnonymous == \E h \in Handles, pinned \in BOOLEAN : GetAnonymousPage(h, pinned)

UseHandle == \E h \in Handles : \/ GetBytes(h)
                                \/ \E v \in Values : Write(h, v)
                                \/ Unpin(h)
                                \/ DropHandle(h)

Next ==
    \/ GetPage
    \/ GetAnonymous
    \/ UseHandle
    \/ \E t \in Tables : KillTable(t)
    \/ RunOutOfFrames
    \/ Shutdown
    \/ Restart

Spec == Init /\ [][Next]_vars

-----------------------------------------------------------------------------
(* Every variable of the buffer manager keeps its type.                    *)
TypeOK ==
    /\ status \in {"running", "down", "crashed"}
    /\ mapped \subseteq Keys
    /\ lru \in Seq(Keys)
    /\ memory \in [Keys -> Frames \cup {NoFrame}]
    /\ pin \subseteq Keys
    /\ dirty \subseteq Keys
    /\ pool \in [Frames -> Bytes]
    /\ disk \in [Keys -> Bytes]
    /\ tableMap \in [Names -> {"none", "open", "stdin"}]
    /\ currPage \in 0 .. NumPages
    /\ anonymousID \in 0 .. MaxAnonymous
    /\ handles \in [Handles -> Keys \cup {NoPage}]
    /\ killed \subseteq Tables

(***************************************************************************)
(* The shape of the pool (MyDB_BufferManager.cc:43-116): the list holds    *)
(* each resident page once, as many pages as frames were handed out, no    *)
(* two in the same frame; bufferMap knows every page that is resident or   *)
(* that a handle refers to, so that a page never has two copies; the       *)
(* number of the next anonymous page is in no entry; an evicted page is    *)
(* neither pinned nor dirty; only the pages of a killed table are without  *)
(* their file's descriptor.                                                *)
(***************************************************************************)
ListHoldsResident ==
    /\ \A i \in 1 .. Len(lru) : lru[i] \in Resident
    /\ \A k \in Resident : \E i \in 1 .. Len(lru) : lru[i] = k
    /\ \A i, j \in 1 .. Len(lru) : lru[i] = lru[j] => i = j

FramesExclusive ==
    /\ \A k, l \in Resident : memory[k] = memory[l] => k = l
    /\ \A k \in Resident : memory[k] < currPage
    /\ Len(lru) = currPage

MapCoversUse == Resident \cup Referenced \subseteq mapped

NumbersFresh == \A k \in mapped : k[1] = TempTable => k[2] < anonymousID

EvictedIsIdle == pin \cup dirty \subseteq Resident

UsedTablesOpen ==
    /\ status = "running" => tableMap[TempTable] = "open"
    /\ \A k \in mapped : k[1] \notin killed => tableMap[k[1]] = "open"
    /\ \A t \in Names : tableMap[t] = "stdin" => t \in killed

Structure ==
    /\ ListHoldsResident
    /\ FramesExclusive
    /\ MapCoversUse
    /\ NumbersFresh
    /\ EvictedIsIdle
    /\ UsedTablesOpen

(* A page in the pool that is not marked dirty holds what its file holds   *)
(* (an anonymous page that never went to the temporary file may hold       *)
(* anything): evicting it without a write loses nothing, reloading it      *)
(* gives the last write.                                                   *)
CleanMatchesDisk ==
    \A k \in Resident \ dirty :
        \/ k[1] \in killed
        \/ pool[memory[k]] = disk[k]
        \/ k[1] = TempTable /\ disk[k] = Junk

(* A page that no handle refers to is not pinned (MyDB_PageHandle.h:34-38):*)
(* the use-count test of the handle's destructor counts right in every     *)
(* sequence of loads, evictions and shared handles.                        *)
PinnedIsReferenced == pin \subseteq Referenced

(* While a page stays pinned it stays in the frame it was pinned in, so    *)
(* the pointer a client got from getBytes stays good.                      *)
PinnedStaysPut == [][\A k \in pin \cap pin' : memory'[k] = memory[k]]_vars

=============================================================================
