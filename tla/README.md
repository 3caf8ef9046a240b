# A verification of MyDB in TLA+

MyDB (`src/`) is a relational database in C++: a buffer manager, record pages and
tables, a B+ tree, an external sort, relational operators, an optimizer, and an SQL
front end. This directory holds TLA+ models of it, TLC configurations that check
them on small instances, and TLAPS proofs about them. Line numbers refer to
`src/Main` unless a path says otherwise.

The program is **sequential**: there are no threads and no callbacks that run
between two statements. What makes it hard is what accumulates over a long
sequence of legal calls: shared pointers counted by hand, frames that change owner
under a client's handle, pages cached dirty, killed tables whose pages are still
around, trees that split again and again, and a process that may end at any point
between two calls.

## The system

| Part | State | Operations | What makes it correct |
|---|---|---|---|
| Buffer manager, page handles (`BufferMgr`) | frames (`bufferPool`), eviction list (`pageContainer`), `bufferMap`, descriptors (`tableMap`), counters, per page: frame, pin, dirty | `getPage`, `getPinnedPage` (table or anonymous), `getBytes`, `wroteBytes`, `unpin`, handle destructor, `killTable`, constructor, destructor | one copy of a page; a client sees the last bytes written through any handle; pinned pages stay; nothing dirty is lost |
| Pages of records (`MyDB_PageReaderWriter`, page iterators) | type, bytes used, records | `append`, `clear`, `setType`, `sort`, `sortInPlace`, iteration | no overflow, order after a sort, records kept |
| Tables (`MyDB_TableReaderWriter`, table iterators) | last page (in `MyDB_Table`), current page | `append`, `operator[]`, `loadFromTextFile`, iterators | each record once |
| B+ tree (`MyDB_BPlusTreeReaderWriter`) | pages, root location, `internalStack` | `append` (with splits), range and sorted range iterators | a search tree; range queries exact, complete, in order |
| External sort (`Sorting.cc`) | runs, a queue of lists, a priority queue of iterators | `sort`, `mergeIntoList`, `mergeIntoFile` | a sorted permutation of the input |
| Records (`Record`) | values and their cached binary form | `toBinary`, `fromBinary`, compiled expressions | what is written is what was set |
| Catalog (`Catalog`) | key/value map, table descriptors | `getX`, `putX`, `save`; written by its destructor; `CREATE TABLE` | a session finds what the last one left |
| Relational operators (`RelOps`) | hash tables, output tables | selection, B+ selection, aggregate, scan join, sort-merge join | the result the SQL asks for |
| Execution (`Execution`) | plans and their statistics | plan enumeration, cost, `execute`, temporary tables killed | the cheapest plan; tables killed once |
| SQL (`SQL`) | none | generated parser; expression trees | what an expression says it references |

Every operator reaches its tables through table and page reader/writers, and these
hold handles of the buffer manager; `getBytes` may evict any page that is not
pinned, so every call on a page is a call on the pool. The catalog is the only
other thing that outlives a session.

## What is modelled

### Buffer manager

* `BufferManager.tla`: the whole of `MyDB_BufferManager` and `MyDB_PageHandleBase`.
  One action is one call of the public interface. A page is named by its
  `bufferMap` key; because at most one `PageBase` exists per key (proved), its
  fields are functions or sets over keys:

  | variable | code |
  |---|---|
  | `mapped` | keys of `bufferMap` (`MyDB_BufferManager.h:92`) |
  | `lru` | `pageContainer` |
  | `memory`, `pin`, `dirty` | the fields of `PageBase` (`MyDB_Page.h:16-20`), a frame number for the pointer |
  | `pool`, `currPage` | `bufferPool`, frames handed out so far |
  | `tableMap` | for each name: no entry, the open file, or descriptor 0 that `operator[]` inserts on a missing name |
  | `disk` | contents of the table files and of the temporary file |
  | `handles` | the live `MyDB_PageHandleBase` objects and the page of each |
  | `status`, `killed` | running, shut down, crashed; history: tables killed in this session |

  `shared_ptr::use_count` is not a variable: it is computed from the places that
  hold a pointer (`UseCount`, `VictimUseCount`), as the tests of the code see it.
  The bytes of a page are one value. Reading a page past the end of its file gives
  `Junk`, the uninitialised buffer. A victim search that finds only pinned pages
  leaves its iterator unassigned; dereferencing it is a null access, and the
  process ends (`RunOutOfFrames`), the same as a crash between two calls with all
  frames in use. `Restart` is the next session. Clients do not ask again for a
  table they killed: `killTable` is called only for intermediate tables with fresh
  names (`Execution/source/MyDB_LogicalOps.cc:101-104`), and handles are gone when
  the manager is destroyed.
* `PageStore.tla`: what the headers promise, without frames, eviction or files: one
  content per page, which only a write changes and which survives an orderly
  shutdown; pins that end with `unpin` or with the last handle; failure only when
  as many pages are pinned as there are frames; after a crash, for each page some
  content it once had.
* `BufferManagerRefinement.tla`: the mapping. The content of a page is in its frame
  while the page is dirty and in its file otherwise. A killed table has no content.

### B+ tree

* `BPlusTree.tla`: `append` as the loop it is (`Begin`, `Descend`, `AppendToLeaf` or
  `SplitLeaf`, then `InsertEntry`, `SplitDirectory` or `GrowRoot` up
  `internalStack`), so that the invariants are also looked at in the middle of a
  split, where half a page of records hangs on `newKey` only. `Discovered`,
  `RangeResult` and `SortedRangeResult` compute `discoverPages` and the two range
  iterators; the sorted one sorts pages of the tree in place (`SortedScan`).
  `StableSort` is `std::stable_sort`, by `StableSorting.tla`: the place of a record is the number of
  records that are smaller, or equal and before it. `discoverPages` calls itself; its
  model has the depth of the calls as an argument, so that it is a function on
  numbers, and begins with as many calls as there are directory pages. Records have one size, so a capacity in records
  stands for the bytes of a page; the ordering attribute is the first one, the case
  in which the sorted iterator's internal records read the right attribute. A
  query on a tree to which nothing was appended reads bytes nobody wrote
  (`MyDB_BPlusTreeReaderWriter.cc:185-187`), and is left out. Keys may repeat in a table
  whose keys are all in `RepeatedKeys` (`Followed`, a bound): other tables have distinct keys.
  `append` has a branch that makes the root again when the table's last page is 0
  (`MyDB_BPlusTreeReaderWriter.cc:224-236`); it is left out, as the constructor leaves the last
  page at 1 and only `loadFromTextFile` sets it back: appending after such a load, which has
  already lost the tree (`tree_load`), is not modelled.
* `BPlusTreeLoad.tla`: `loadFromTextFile`, inherited from the base class.

### External sort

* `RecordIterators.tla`: `MyDB_PageListIteratorAlt` and the page iterator in it, as
  a record of a list of pages, a page and a slot. A page is the sequence of its
  records; the slot stands for `bytesConsumed`. `getCurrent` does not ask whether
  there is a record: where there is none the model reads `Junk`, and `advance` then
  moves by a size that may be zero. The recursion of `advance` over empty pages is the
  choice of the next page that is not empty.
* `ExternalSort.tla`: `sort`, with one action for a round of each loop. Pages are
  numbered from 1.

  | variable | code (`DatabaseTable/source/Sorting.cc`) |
  |---|---|
  | `sortMe`, `runSize`, `start`, `next` | the arguments, `start`, and `i` of the loop over a run |
  | `pageQueue`, `runIterList` | the variables of that name; `runIterList` is also the contents of `pq` |
  | `leftIter`, `rightIter`, `mergedList` | `mergeIntoList`; an iterator is `Ended` when `leftEmpty` or `rightEmpty` |
  | `sortIntoMe` | the records appended to the output |
  | `phase` | which loop runs |

  The priority queue is a set and its top any iterator with a smallest record: its
  comparator is `!comparator()`, which does not order equals. A page of the input may
  be less than full, as records of different sizes leave it.
* `SortSpec.tla`: what the header promises, in one action: the smallest record that
  is left comes out.

### Tables over sessions

* `Catalog.tla`: the catalog's map and the text it is saved as, and what descriptors,
  schemas and `CREATE TABLE` put in it. A text is a sequence of tokens; lists are joined
  and cut at `#`, lines at `|`, by the rules of `getStringList` and of the constructor.
  Names are identifiers (`SQL/source/Lexer.l:114`): they have neither. The tuple count is left out: nothing
  initialises it or computes it.
* `TableIterators.tla`: what loops over `MyDB_TableRecIteratorAlt` (all pages or some of
  them, directory pages passed over) and `MyDB_TableRecIterator` read.
* `TableSessions.tla`: a heap table, its descriptor and the catalog over several runs
  of the program. The pool below is reduced to what `PageStore` says of it: a changed
  page goes to its file when it is evicted, at any time, or with the manager.

  | variable | code |
  |---|---|
  | `catFile`, `myData` | the lines of the catalog file; the catalog's map |
  | `table`, `current` | the table's `MyDB_Table`, the page of `pageReaderWriter` |
  | `mem`, `disk` | the pages as `getBytes` shows them, and in the table file |
  | `status` | how far a session has come, to the two halves of `save` |

  `base`, `appended`, `loaded`, `put` and `described` are history. The manager is destroyed
  before the catalog, as in the tests. A crash is possible in every state of a session.
  Records have one size and are smaller than a page. A page number past the end of
  the table is used again after a crash; what is left on the page is the point of
  `ReadsBack`. A `CREATE TABLE` comes before the table is opened; it touches the catalog
  only, so that its place among the operations on pages makes no difference.

### Records

* `RecordBuffer.tla`: a record and the buffer its binary form is cached in. `value`,
  `myData` (a pointer into the buffer), `buffer` (`allocatedSize` is its length),
  `recSize` and `bufferOld` are the fields of `MyDB_AttVal` and `MyDB_Record`; `content`,
  `unmarked` and `moved` are history. The buffer is a sequence of cells, with one for
  each length, number and character. Bound: a record one of whose attributes was
  written away from the place it points to is followed until its next write
  (`Followed`).

### Computations

* `AttValues.tla`: the four types and their values, promotions, conversions, equality,
  order and hashes. A value is a pair of its type's name and its content. Doubles are
  multiples of 1/64, which the six decimals of `to_string` give exactly; a quotient that is no
  such double ends the behaviour (`inexact`), as a division by zero does (`trap`).
  Conversions that print and exit are a value of their own (`Oops`).
* `Expressions.tla`: one operator for each class of `SQL/headers/ExprTree.h`, with the text of
  `toString` as tokens.
* `Computations.tla`: that text compiled to lambdas and called.

  | variable | code |
  |---|---|
  | `memory`, `values` | every `MyDB_AttVal` there is; `values` of each `MyDB_Record`, as places in it |
  | `compiled` | the lambdas, each with the place of the scratch value it captured |
  | `result`, `projected` | what a call returned; what an output record was set to |
  | `content`, `expected` | history: what a record was read with, what the expression meant then |
  | `phase`, `jobs` | running, or how the process ended; the computations of the client |

  An attribute is read where the record has it now; every other lambda leaves its result
  in a value of its own. Operands of a C++ operator are evaluated in either order, so a
  call takes either, the same at every node of an expression. Both operands are compiled
  before their types are looked at, so an attribute that is not there (`Missing`) matters
  only then, and not at all where the first operand cannot be promoted (`LooksAtNull`). `Meaning` is the reference: an expression evaluated over the tree,
  without text, promotions or shared places.

### Aggregation

* `Aggregate.tla`: `Aggregate::run`, with a step for each record it groups and for each
  group it sums up, and `RegularSelection::run` as the projection at its beginning.
  `pagesByGroups` maps hash values to the records of their pages; the hash of a number
  is the number, so that XOR, the constant `HashXor`, gives (1, 2) and (2, 1) one value. Results are
  quotients: an average is its sum over the last aggregate, as in the code. The output table is empty before; the input has an accepted record.

### Queries

* `QueryOptimizer.tla`: `optimizeQueryPlan` and the statistics. An attribute is a pair of
  alias and name, an operand a sum of attributes and a number, a disjunction the
  sequence of its comparisons. Doubles are fractions; a fraction over zero stands for
  an infinity or NaN and compares as they do. `References` is `referencesAtt`, which a
  `<>` does not override.
* `QueryExecution.tla`: the optimizer as one step, then the operators of the plan in the
  order in which `execute` calls them. A scan is a step, a scan join one for its hash
  table, one for each record of the larger input, and one that kills its inputs'
  tables.

  | variable | code |
  |---|---|
  | `db`, `query` | the tables with their statistics as the catalog has them, and their rows; the query |
  | `best` | `bestLogicalOp`, `best` (`Execution/source/SFWQuery.cc:86-87`) |
  | `todo`, `temp` | the calls of `execute` that have not returned; the temporary tables |
  | `myHash`, `next` | `myHash` and `myIterAgain` of `RelOps/source/ScanJoin.cc` |
  | `phase` | where the query is, or how it ended: `none` is a null plan, `undefined` a null plan or a missing attribute that was used |

  Two inputs that are both larger than half the pool are joined by `SortMergeJoin`; here
  that is one step, and the order of its result is not followed.

### Sort-merge join

* `SortMergeJoin.tla`: `SortMergeJoin::run`, with a step for each round of its loops, over
  two `MyDB_RunQueueIteratorAlt`. `buildItertorOverSortedRuns`, which makes those, is
  declared in `Sorting.h` and defined nowhere; it is modelled as the header says. The
  variables have the names of the code (`ptrLeft`, `leftBuffers`, `bottomLeft` for
  `reachBottomLeft`, ...); an iterator is the run on top of its queue, the others, and
  `firstTime`. The queue's comparator does not order equals, so any least run may be on
  top. The equality check has one type on both sides (`JoinAssumption`); an empty input
  ends in `undefined`, the top of an empty queue.
* `JoinSpec.tla`: what the header promises: every accepted pair comes out once.

## What is checked

| run | what it shows |
|---|---|
| `buffer` | 1 table of 2 pages, 1 anonymous page, 2 frames, 3 handles, 2 values: `Structure`, `CleanMatchesDisk`, `PinnedIsReferenced`, `PinnedStaysPut`, and the refinement of `PageStore`. Three pages for two frames make every page leave and come back; three handles let a page have two handles while another is wanted; a third handle with two pinned pages runs out of frames |
| `tree` | all orders of 7 distinct keys and all sequences of 8 appends over 3 keys, 2 records to a leaf and 3 entries to a directory, with sorted scans between them: `RecordsKept`, `TreeShape`, `KeysBounded`, `ReadsStayOnPage`, `AppendEnds` for both; range queries complete for both, exact and sorted for distinct keys (`RangeExact`, `SortedInOrder`). Eight records split leaves, the root and a directory below the root |
| `tree_balance`, `tree_load` | statements of the README and a test that the code does not keep |
| `sort` | every table of 1 to 3 pages with 1 or 2 records each over 3 keys, run sizes 1 to 3: `EachInOnePlace` between any two rounds of any loop, `ListsInOrder`, the refinement of `SortSpec` with its liveness (`SortsTable`), `SortReturns`. Three pages give an odd queue, runs that end early and, with run size 2, a merged run beside a single one |
| `sessions` | 3 pages of 2 records, 3 records in all, a crash, a `CREATE TABLE` of a tree, of the table again with other attributes, or of a tree on an attribute it has not: `ReadsBack`, `OrderlyEndKeepsTable`, `CrashKeepsTable`. Three records fill a page and begin another, and three pages let `operator[]` add an empty one between; what a crash would leave is looked at in every state, also of sessions that found what an earlier crash left |
| `record` | a string, a number, a string, each with two values, the strings of two lengths, in a buffer that must grow once: `ReadsBack` and `WritesContent` for every mix of reading, setting and writing |
| `record_changed` | a statement of the header that the code does not keep |
| `aggregate` | all tables of 1 to 3 records over four groups and three arguments, one of them not accepted; sum, average and count: `GroupsExact`, `EachCountedOnce`. Two of the four groups have one hash value, and three records give both a group of two and a group beside it |
| `query` | 518 queries, with one or two predicates, over one, two or three tables, one of them twice, on three databases (matches, duplicates and collisions; all rows alike; an empty table): `PredicatesOnce`, `PlanIsCheapest` against every bushy plan, `Answered` against the meaning of the query, `TemporariesLive`, `OthersAnswered`. Pages of one row and a pool of four frames let either input of a join be the smaller one, and both be too large for a scan join |
| `computations` | every operator over two attributes or literals of the four types, nested expressions over two tables, records compared, computations that need an attribute of the other table, two computations on one record with another one read between their calls: `ResultsMean`, `OutputKept`, `EndsAsMeant`, `AttributesFound`, `HashesAgree`. Two contents of a record make a stale value visible; a comparison of numbers by their text would differ from theirs (10 and 2) |
| `merge_join` | tables of up to 3 and 4 records over 3 keys, in sorted runs of 2: `GroupsWhole`, the refinement of `JoinSpec` (`JoinsOnce`), `JoinReturns`. A group may lie in two runs, be the last one on either side or both, and have two records on both sides |

`TypeOK` is checked in `buffer`, `tree`, `computations` and `merge_join`.

Symmetry is used for handles, values and tables in the runs of safety properties:
nothing in the model orders them. Frames, page numbers and keys are numbers and
are not symmetric. Smaller bounds would not do: with two pages or one handle no
page is reloaded under a live handle, with fewer than six records no directory
page below the root is full.

**Fairness.** The buffer manager has none: its clients may stop at any time, and
what is promised is safety. The tree has weak fairness on the steps of an append
that has begun (`AppendEnds`): one thread runs the call to its end. `Begin` and
scans have none. `ExternalSort` has weak fairness on `Next`, for the same reason;
its bound `MaxAppended` is at least the number of records of the table, so only an
output with too many could meet it. So has `SortMergeJoin`, whose refinement of `JoinSpec`
includes that every pair comes out. `TableSessions` has no fairness: it is about what
is left whenever a session ends. `RecordBuffer`, `Aggregate`, `QueryExecution` and `Computations` state
safety only and have none. Deadlock is not checked in `sort`, `tree_load`, `aggregate`, `query`,
`computations` and `merge_join`: there the call returns, or the process ends, and nothing
follows.

`OrderlyEndKeepsTable` speaks of a table that was put in the catalog; without that
call a session leaves the table as it was last put there. `CrashKeepsTable` leaves
out two windows about which the repository promises nothing: a crash inside `save`,
between the truncation of the catalog and its writing, loses every table, and a crash
after `loadFromTextFile` over an old table leaves new pages among old ones.

### Where code and text disagree

Shown by a run:

* `split` calls itself with the page it has just split (it is still on top of
  `internalStack`): a full directory below the root becomes the parent of its own
  lower half. Searches stay right, balance is lost (`tree_balance`).
* `loadFromTextFile` on a tree runs `MyDB_TableReaderWriter::append` (`tree_load`).
* `recordContentHasChanged` "should be called whenever we want to write the record to a
  page, but the record may have had its contents changed since the last call to
  fromBinary". It is, and the record is written wrong all the same when an attribute
  in front of one that is still a pointer has become longer: its bytes run over those
  the pointer points to (`record_changed`).

Seen in the code, without a run:

* A temporary page should go with its last reference (`MyDB_BufferManager.h:44-46`).
  `victim.use_count() > 1` (`MyDB_BufferManager.cc:161`) counts the reference in `bufferMap`, so
  the entry of an evicted page is never erased.
* `killTable` "gets rid of the FD", but the pages of the table stay in the pool and
  their eviction enters descriptor 0 in `tableMap` and writes to it.
* With more equal keys than half a leaf holds, a lower half is entered behind its
  equals: the sorted iterator is out of order and the plain one returns keys below the
  range. No record in the range is missed (`RangeComplete`, checked with duplicates).
* `createAttMax` of a string is `"~~~~~~~~~"`, the key of the last entry of the root. A string
  above it has no entry, and the scan of a directory page runs past its end
  (`MyDB_BPlusTreeReaderWriter.cc:249`): keys are assumed to be at most `MaxKey`.
* `mergeIntoFile` reads the first record of a run before it asks for one: the sort of
  an empty table has a record. `Aggregate::run` does the same with an empty input.
* Groups with one hash value are aggregated together (`Aggregate.cc:45`).
* `Aggregate.h:22-31` has a sum and an average as its example. The code divides an average by the
  last aggregate (`Aggregate.cc:103`), which is a count in every test that has an average; in the
  example it is the average itself.
* The queries `OthersAnswered` excepts: `NeqOp` does not say what it references, so a
  `<>` in a join is evaluated where its attributes were dropped; `attInLeft` compares
  names without their alias, so `t2.x = t1.x` has its sides exchanged; an equality with
  a computed side leaves empty statistics, and a later division 0 / 0 leaves no plan.
* A number and a string are compared as texts and hashed by their types: equal ones
  have two hash values, and `ScanJoin` does not look for the match.
* `SortMergeJoin` collects a group by the text of its key while `==` compares numbers: with
  an int key on one side and a double on the other (5 and 5.000000) matches are lost.
* `sum(` compiles as a unary minus: the character after the `s` decides. `avg(` is skipped.
* A string literal that contains a `]` is cut there. A double literal has six decimals.
  The names `a_b`, `c` and `a`, `b_c` make one combined attribute.
* A table that is created again under its name keeps its old attributes: the list in the
  catalog is that of every schema put there (`MyDB_Schema.cc:24-40`).
* The catalog's constructor keeps lines without pipes, in spite of its comment "if there is
  an error, don't add anything": `find` gives -1 in an `int`, and -1 is less than any size
  (`MyDB_Catalog.cc:94-105`).
* `MyDB_TableRecIterator` does not look at the type of a page: on a tree it reads directory
  pages as records, and `writeIntoTextFile` with it.
* An eviction whose write fails clears the dirty mark and loses the page.
* "LRU": only `getPage` moves a page in the list. `getBytes` on a resident page does not.
* The constructor of the tree makes a new root over the last page, also when the
  table has a tree: a tree does not survive its session.

## What is proved

`BufferManagerProofs.tla`, for every number of frames, pages, tables and handles, with
and without failing writes, from `ConstantsAssumption` (finitely many handles, at
least one frame, distinct constants):

* `TypeCorrect`: `Spec => []TypeOK`.
* `StructureHolds`: `Spec => []Structure`.
* `CleanPagesMatchDisk`: `Spec => []CleanMatchesDisk`.
* `PinsAreReferenced`: `Spec => []PinnedIsReferenced`.
* `PinnedPagesStayPut`: `Spec => PinnedStaysPut`.

The argument. `TypeOK` is not inductive: what an eviction writes is `pool[memory[v]]`,
a value only if the victim has a frame, that is if the list holds resident pages
only. So types and shape are proved together: `Pool` is `TypeOK`, the list being an
enumeration of the resident pages, frames exclusive and all below `currPage`,
`bufferMap` covering what is resident or referenced, fresh anonymous numbers, and
evicted pages neither pinned nor dirty. `MoveToEnd` and `ShiftedList` say what erasing
from and appending to the list does to its positions. All calls that need a frame
go through `Placed`, which sums up `TakeFreshFrame` (`FreshFrame`) and `ReplaceVictim`
(`VictimsFrame`) as: at most one page, not pinned, loses its frame to the new page,
it is clean afterwards, and its bytes went to its file or nowhere. Each call is then
a short lemma (`GetPageMissKeeps`, ...). `Data` adds what relates frames and files:
open descriptors of tables in use, temporary pages not yet given out being unwritten
in the temporary file, and `CleanMatchesDisk`. `PinnedIsReferenced` is inductive
relative to `Pool`; its one interesting step is the handle's destructor, where
`UseCounts` turns the test for three pointers into "this was the only handle".

Its second part, that the buffer manager implements its promise:

* `ImplementsPageStore`: `~ WriteFaults => (Spec => PageStoreSpec)`, from `InitImplements` and
  `NextImplements`: every call is a step of `PageStore` or a stutter. The hypothesis
  is needed: an eviction whose write fails loses the page (see above).
* `ReadsShowContent`: with failing writes too, the frame a handle reads shows what the
  page store says the page has.

The invariant is `Consistent`: `Data`, `PinnedIsReferenced`, and `KilledGone`, by which a page of
a killed table that is still in the pool is written to no file that anybody reads.
Each call is compared with its step of `PageStore` through `ContentOf`, what the content of
a page is before and after; `RunOutOfFrames` needs that as many pages are pinned as
there are frames, from the list being an enumeration of the resident pages.

`BPlusTreeProofs.tla`, for all keys, capacities and numbers of records:

* `TypeCorrect`, `KeysStayBounded`, `TreeKeepsShape`, `ReadsStay`: the invariants of the names.
* `EachRecordKept`: `RecordsKept`, while the table has no page behind the last one that the
  iterator goes to (`lastPage <= HighPage`, 1999999999 at `DatabaseTable/source/MyDB_TableRecIteratorAlt.cc:53`).
* `RangesComplete`: `RangeComplete`, the first conjunct of `RangeExact`.

The inductive invariant `IInv` has a part for each thing the actions rely on: entries
point to pages of the table (`Pointing`), two of them never to one page (`OneEntry`), the
last key of a directory page is the key of its entry (`Topped`: this is why the way
down finds an entry, and why a split enters the lower half in front of the upper
one), no page is empty (`NotEmpty`), the pages on the stack are reached from the root
(`GoingDown`, `GoingUp`), each record is in one place (`Kept`). Bounds of keys are local to an
entry and its page. That the whole table is reached is not: `AllReached` says it as
"every set of pages that holds the root and the children of its pages is the whole
table", which a split keeps without a walk; `WholeTable` connects it with the walk of
`TreeShape`. `DiscoveredBy` and `LeafFound` follow `discoverPages` down the tree in the same way.

The second part of `BPlusTreeProofs.tla`, for the same constants:

* `RangesExact`: `RangeExact`. `RangesSorted`: `SortedInOrder`.

Both properties speak of tables in which no two records have one key, and the invariant
`Searched` that is added to `IInv` does too: with duplicates it is false, since a lower half may be
entered behind another entry with its key. It says that there is an assignment `span` of a
set of keys to each page: the root has all keys, and an entry passes to its page those keys of
its own page that it is `Leading` to, i.e. those up to its key and above the keys of the
entries before it (`Spans`); every record is on the page whose span has its key, and the record
that is appended goes to such a page (`Located`). The entry that is on its way counts as one
of the page it goes to (`Entries`), and therefore the step that inserts it changes nothing;
the splits are the steps that change spans (`EntryBefore` and `EntriesApart` say how), and only
the spans of the two halves change. `LastTarget`: the entry on its way goes to
the page whose entry led here. From the invariant, `DiscoveredInOrder` follows `discoverPages` upwards from
the leaves: what it finds below a page is in order and within the span of the page (`FoundWithin`,
`LeavesInOrder`). Hence a page between the first and the last one found has only records
in the range, and pages that are sorted one by one are sorted one after another.

`ExternalSortProofs.tla`, for every table, run size and page size:

* `NoRecordIsLost`: `EachInOnePlace`. `EachListInOrder`: `ListsInOrder`.
* `ImplementsSorting`: `Spec => Sorting!Steps`, where `Steps` is `SortSpec` without its fairness.

`IInv` is `Looping` (where the loops over pages stand), `Standing` (every iterator stands at a
record of a list in order; lists and runs share no record), `Merging` (what is merged
comes before what is still to be merged) and `EachSomewhere`: the table is the disjoint
union of the seven places a record passes, as sets. `MovesOn` says what an iterator
holds after `advance`. The number of records is no
part of the invariant: each record being in one place once, the sizes follow.

`SortMergeJoinProofs.tla`, for all tables, run sizes and final predicates:

* `TypeCorrect`, `GroupsAreWhole` (`GroupsWhole`).
* `NoPairTwice`: `Spec => Join!Steps`: only accepted matching pairs come out, each once.
* `NoPairIsLost`: when the join returns every one of them came out.

The invariant says of both sides: what was passed is smaller than what is to come,
so that a record without partner is passed for good; a group is all records with
its key; the output is the pairs of the keys before it.

`TableSessionsProofs.tla`, for any capacity of a page and any number of pages, records,
statements, sessions and crashes:

* `SessionsInvariant`: the inductive invariant `IInv` holds.
* `SessionsReadBack`: `ReadsBack`, while the table has no more pages than the iterator goes to
  (`MaxPages <= HighPage`, 1999999999 as above).
* `CrashKeepsPrefix`: `CrashKeepsTable`. `OrderlyEndKeeps`: `OrderlyEndKeepsTable`.

`IInv` has four parts. `CatalogInv`: the catalog's map describes the tables that were put in it, and so
does the map that is read from the file; the file is what `save` writes of that map.
`TableInv`: the current page is the last one; the catalog's last page is the table's if it was
put there since it grew, and not behind it otherwise. `PagesInv`: what was appended is
what the pages up to the last one show. `GrowthInv` is about the pages that the catalog file knows: all
before the last of them are the same in memory and in the file, the last one in the file is a prefix of that
in memory, and together, in the file, they begin with what was there when the session began
(`Begun`). So it does not matter which pages an eviction has written when the process
crashes. The other half of the work is the text of the catalog. `Describes` says of a map and a
set of descriptors that each key of a table has the text its field is put as, and that there
are no others; a list is cut at the places it was joined at because words have no `#`, and a line
at its three pipes because keys and values have none. Folds are followed place by place:
`FoldLeft` over the attributes of a schema in `TableInCatalog` goes along with the one in
`Merged`, and `FoldSet` over the lines of a file gives the map from which they were made,
in whatever order they are taken.

`RecordBufferProofs.tla`, for any number and types of attributes, any values and any size of the
first buffer:

* `RecordInvariant`: the inductive invariant. `RecordReadsBack`: `ReadsBack`. `RecordWritesContent`: `WritesContent`.

`IInv` is `TypesInv` (pointers are none, dangling or into the buffer), `AttsInv` (until an attribute is moved, each
has its value in itself or it lies where the pointer is) and `WritesContent`
itself. Writing the attributes back is a fold from left to right over one buffer that may grow in the
middle. `OneMoreWritten` is its step, `WrittenSoFar` its invariant: the attributes that were written are at the front, one
behind the other (`Laid`); each of the others has its value in itself, or lies where it was,
behind what was written, or has lost it, to what was written over it or with a buffer that was freed, and the
record counts as `moved` when it is its turn.
`LiesRead`: a value is read from where it lies, a string up to its first end.

`AggregateProofs.tla`, for all tables, aggregates and functions `HashXor`:

* `AggregateInvariant`: the inductive invariant.
* `AggregateGroupsExact`: `GroupsExact`, if there is no average among the aggregates or the last of them is a
  count.
* `AggregateCountsOnce`: `EachCountedOnce`, if the last aggregate is a count, the number the property adds up.

Both hypotheses are about the list of aggregates only; without the first the averages are wrong
(above). While records are read, `IInv` says that those already read are under their hash values in
the order of the table (`InBuckets`, kept by `BucketsGrow`). Afterwards (`Aggregated`) every hash value that
occurs either still has its records, or one result that was made of exactly these stands for it. What
a result holds is a fold over its records: `SelectedGrows`, `TotalsGrow` and `SumGrows` say what each fold
does with one element more, and `TotalsAre` then that the running totals are the sums and the
number. The hash function is used in one place: records of one group have one hash value (`HashOfGroup`). For a
group whose value no other has, the records under the value are therefore the group's members
(`AloneMembers`). The records of all groups are counted as places of the hash table (`GroupedCounts`), one
more with each record read (`WithRecordAdds`), a group less when it is aggregated (`GroupLeaves`).

`SequenceLemmas.tla` holds what several components rest on: what a sequence has after it is
appended to, taken from or flattened (`Flattened`, `OrderedFlat`), prefixes, `ScanReadsAll` (a scan reads the pages
it covers, each record once), and `ArrangedIsPermuted`: the stable sort is a permutation in the order of
the keys that keeps equals in place.

**Recursion.** The prover cannot use the library's induction theorems, which have
an operator as parameter. `SequenceLemmas` has what replaces them: `LeastNumber` from
`NatLessThanWellFounded`, `SetInduction` (a set with 0 that is closed under successor holds `Nat`) and
`PrimitiveRecursion` (the function a first value and a step define exists). A recursive
function of the model is shown to be the one that exists, and its values are then
computed by `SetInduction`. The folds of the community modules are recursive functions on the subsets of
a set: `FoldExists` and `SubsetInduction` do the same for those, `FoldOfSequences` for folds of sequences,
which it shows to go from left to right.

**Assumptions.** Each theorem rests on the `ASSUME` of its component and nothing else.
`SessionsAssumption`: the descriptor and the statements have the types of the code, and names in
them are SQL identifiers. `RecordAssumption`: a string has no end character in it.
`SortAssumption`: records are distinct, pages of the input are not empty (an empty table
is the divergence listed above). `JoinAssumption`: numbers have one text exactly when they
are equal, which the code breaks for an int beside a double (above).
`AggregateAssumption`: records are as long as the aggregates ask for, the values grouped by hash to
numbers, and the input has an accepted record.

Only model-checked:

* `QueryExecution` and `Computations`: they evaluate trees of expressions and plans with `RECURSIVE`
  operators, which the prover does not accept;
* liveness (`AppendEnds`, `SortReturns`, `JoinReturns`, the fairness parts of `SortsTable` and `JoinsOnce`), which
  is beyond the prover.

## The plan

Done: the buffer manager with its promises and proofs; the B+ tree; the external sort;
tables and the catalog over sessions; records and their computations; aggregation; both
joins; queries from the optimizer to the answer; proofs over the buffer manager and its
refinement, the tree and its range queries, the sort, the merge join, tables over sessions, records
and aggregation. Next, in this order:

1. `PageRuns`: `PageReaderWriter::sort` composed with `BufferManager`: pointers into
   pages that may be evicted while the result page is allocated.
2. The pins of `ScanJoin` over `BufferManager`: half the pool for the smaller input, and
   a frame for each of the other tables.
3. `PageSplit`: records of several sizes, split by number. `TreeReopen`: the tree's
   constructor on a table of an earlier session.
4. Proofs over `QueryExecution`, its trees as functions on places: `PredicatesOnce` and
   `TemporariesLive`.

## Not modelled

The SQL lexer and parser (generated, no state), printing, the QUnit framework and
the tests themselves, the build. `SumOp` and `AvgOp`, whose text no computation means (above);
`Aggregate` is given its computations by the tests. `BPlusSelection`, which no plan uses, is a
selection over the range iterator of the tree. `LogicalAggregate` is an empty class.
`SortMergeJoin.cc` reads the private `numPages` of the buffer manager and does not compile as it
is; the model takes the number. `buildItertorOverSortedRuns` is declared and defined nowhere.
`MyDB_TableRecIterator.h` is not in the repository: its constructor is taken to begin on page 0.
Byte layouts and integer widths of page numbers are not reached by instances of this
size. A record larger than a page is appended nowhere (`MyDB_TableReaderWriter.cc:53` ignores the
result); tables of such records are left out.
