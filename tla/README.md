# A verification development of odbcx

odbcx is a header-mostly C++ library over ODBC: a query returns a *cursor*, a
cursor's `fetch()` returns a range of iterators over rows, rows are read from
buffers the driver has filled, and changes are written back with bulk
operations or in a transaction. Nothing in it runs concurrently. What makes it
hard is that several owners (iterators, buffers, cursors, scopes, handles)
share **one hidden state that the library cannot see**: the driver's position,
its binding table, the attributes that hold addresses of the program, the mode
of the connection. Every component keeps a small copy of a part of that state
(`pos_`, `offsets_`, `fetched_`, `dbc_`), and is correct as long as the copy and
the driver agree, whatever the caller interleaves and wherever a driver call
fails with an exception.

The modules here model that, are checked with TLC on small instances, and the
central ones are proved correct for all instances with TLAPS.

## 1. Inventory

| component | source (`src/odbcx/`) | state | operations | correct when |
|---|---|---|---|---|
| ForwardOnlyCursor, ForwardIterator | `details/cursor.hpp` 127-308, `details/iterator.hpp` | weak `buffer_`; buffers with `low_`, rows, `next_`; iterators `i_`, `buffer_` | `fetch`, `increment`, copy and destruction of iterators, `~Buffer`, `fetch_one` | one chain from `buffer_`; memory owned exactly as long as reachable; every row delivered once and in order; loops end |
| ScrollableCursor | `details/cursor.hpp` 310-371 | `pos_`; buffers; cached values | `fetch`, `increment`, dereference, `fetch_buffer` (NEXT or ABSOLUTE), `fetch_one` | `pos_` is the driver's position; a buffer holds the rows its label says; a value belongs to one row; iterators are independent |
| ModifiableCursor | `details/cursor.hpp` 373-447 | `insert_`, `delete_`, the statement's bindings and row-count address | `remove`, `insert`, `emplace`, `apply_changes` | an insert is stored once; deletes before inserts; bulk operations find the right bindings; `pos_` survives them |
| DynamicBindings, DynamicLayout, flyweights, VarBookmark | `bindings/columns.hpp`, `bindings/flyweight.hpp`, `details/bookmark.hpp` | `offsets_`; the driver's binding table and row stride | `bind`, `rebind`, `bulk_fetch`, `construct`, `assign` | slots do not overlap; the reader looks where the driver writes; `rebind` restores `bind` |
| ScopedTransaction | `transaction.hpp`, `transaction.cpp` | `dbc_`; autocommit mode | constructor, `commit`, destructor, moves | all or nothing; autocommit comes back |
| StaticBindings | `bindings/columns.hpp` 182-274 | none (a struct) | `bind`, `rebind`, `emplace` | addresses of struct members |
| Surrogates | `bindings/surrogate.hpp` | a value and its indicator | constructors with `SQLGetData` | the value is complete, read in chunks or not |
| Handles, adapters | `handle.hpp`, `details/handle.hpp` | `unique_ptr`s of ODBC handles with attributes in their type; the driver's tree of handles | `allocate`, `make`, `adapt`, `set`, moves, deleters | nothing leaks, nothing is freed twice, children before parents |
| Attributes | `attribute.hpp`, `details/attribute.hpp`, `cursor.hpp` | a map in a type | merge, contains, subset, the class of cursor | the cursor is of a class the statement can serve |
| Queries | `query.hpp`, `details/query.hpp`, `UtilityCursor` in `details/cursor.hpp` | a statement, who holds it, and what the driver remembers of it | `query`, a cursor's construction, move, destruction and `handle() &&` | a query or cursor finds nothing left over from the one before it |
| `SelectQuery` | `query.hpp`, `details/query.hpp` | text and parameters | `select`, `from`, `where`, ... | the compiler lets clauses follow in order |
| Input parameters | `bindings/in.hpp` | addresses bound to the statement | `BindParam` | parameters are alive when the driver reads them |
| Diagnostics | `utility.cpp`, `utility.hpp` | the driver's records of a failed call | `call`, `if_failed_throw` | the exception tells everything, and the loop over the records ends |
| Conversions | `adapter.hpp`, `bindings/adapter.hpp`, `details/cast.hpp`, `type_info.hpp`, `bindings/ttraits.hpp` | none | casts | values |

How they interact: `query` executes a statement and moves it into a cursor; the
cursor binds its columns once (`DynamicBindings::bind`) and remembers offsets;
an iterator that runs past its buffer calls `Buffer::next`, which calls back
into the cursor, which makes the driver write rows into a new buffer at the
bound offsets; dereferencing reads the buffer, and calls `SQLGetData` on the
statement for what was not bound; `ModifiableCursor::apply_changes` takes the
bindings away and restores them; every call goes through `call`, which throws.

Hard behaviours: the order in which iterators are fetched, copied, advanced and
destroyed (interleaving without threads); exceptions between two driver calls;
the edges of rowsets (short, full, none); arithmetic on words, bytes and
alignments; recursive destruction of buffers; a statement used again with what
its last user left at the driver; handles freed in the wrong order. There is no persistence in the
library, so crashes matter only to the transaction (an abort on an assertion).
`PROJECT.json` lists each hazard at its line.

## 2. Plan

The order is by what would hurt most. All of it is done.

1. `ResultSet` (the driver's position, external), `ForwardOnlyCursor`.
2. `MultipassRange` (abstract range) and `ScrollableCursor`, which implements it.
3. `Transaction`.
4. `ColumnBindings`.
5. `ModifiableCursor` (its own lists and the statement's bindings).
6. `Surrogates`: the constructors over `SQLGetData` against drivers that report
   the rest, `SQL_NO_TOTAL` or what they wrote, with and without terminator.
7. `Diagnostics` (the loop of `if_failed_throw`) and `Attributes`, and `Handles`,
   which composes both with allocation, failing attributes and deleters.
8. `Statement`: queries and cursors that use one statement after another, with
   parameters bound to locals, the address of `fetched_`, moved cursors; composed
   with `ModifiableCursor`.
9. The driver's position after bulk operations and `fetch_one`, in
   `ScrollableCursor`; rows assigned and read back, in `ColumnBindings`.
10. Proofs for the two cursors, the refinement of `MultipassRange`,
    `Transaction`, `Statement`, `Handles`, `ColumnBindings`, `Surrogates`; then what
    each loop's end rests on, and the exact reach of the findings.

The runs are bounded so that every edge occurs at once (a short last rowset,
two buffers alive behind a third, every driver call failing once and the
operation repeated); see section 4.

## 3. The modules

### ResultSet (external)

The driver is not in the repository. `RowsetSize` and `PositionAfter` say what
`UtilityCursor::fetch` relies on: a rowset of at most the array size, none
(`SQL_NO_DATA`) behind the last row, and the position left behind the rowset or
after the end. Both cursors extend this module.

### ForwardOnlyCursor

`buffers` maps the live addresses to records with the label `low`, the first row
really held, the size and `next`; `head` is the weak `buffer_`, `bufferOf` and
`indexOf` are the iterators. Ownership is not a counter but derived (`Held`).
`fetch()` is `FetchAlive` (some buffer lives), `FetchNew` (a temporary buffer
fetches its successor, whose address the temporary's destructor leaves in
`buffer_`) or `FetchNothing`. `increment()` is `Step`, `StepToKnown` (memoised
`next_`), `StepToFetched`, `StepToEnd` or `StepFails` (the exception leaves `i_`
incremented). Assigning or destroying an iterator may leave a buffer without an
owner: it is `dying`, nothing but `Destroy` is enabled, and `Destroy` releases
`next_`, which may make the next buffer die: the recursion of `~Buffer`.
`std::size_t` counts modulo `SizeMod`, which matters for the wrapped index.

### ScrollableCursor and MultipassRange

Buffers are immutable values here. `From(wanted)` is the choice of
`fetch_buffer`: `SQL_FETCH_NEXT` when the wanted row is `pos_`, absolute
otherwise. Columns are bound up to the first that is too long (`numBound`); the
others are read with `SQLGetData` from `driverRow`, once, by `Dereference`, where
any call may fail (`DereferenceFails`). What the cursor goes by is not
`numBound` but the length of `offsets_` (`Offsets`), which counts the bookmark as
well. Hence with `bookmarks` the first column that is not bound is read through
`offsets_`, from behind the row (`Misread`), whatever the size of rowsets; and if
it is the last column, `BulkFetch` holds and rows are fetched in whole rowsets.
`MultipassRange` is what forward iterators promise: positions in one sequence,
independent of each other. The refinement maps an iterator to its row.

`pos_` does not hear of two things that move the driver: `fetch_one`
(`FetchOne`), and the `SQLBulkOperations` of a modifiable cursor
(`BulkOperation`), after which the driver may be anywhere. `strayed` says that
one of them has happened and no absolute fetch since has brought the driver
back, `astray` which iterators have buffers fetched in between with
`SQL_FETCH_NEXT`: those, and no others, may hold the wrong rows (`Stray`).

### Transaction

`state` is what `dbc_` of each scope refers to, `autocommit`, `pending` and
`durable` are the connection. Each driver call of `commit()` and of the
destructor may fail, alone or after the other has succeeded (`CommitHalf`,
`RollbackFails`). Builds with assertions abort where an assertion fails, builds
without go on (`asserts`). Moves are the defaulted ones: they copy `dbc_`.
`failed` has the scopes whose transaction the driver failed to end and
`unfinished` says that the last such failure, in a destructor, has not been made
good by another end; `scopeOf`, `moved` and `overwritten` are history for the
properties, too.

### ColumnBindings

One column sequence at a time is bound (`BindStart`, `BindColumn`, `BindDone`),
taken away by `apply_changes` (`BindBookmarkArray`) and bound again
(`RebindStart`, `RebindColumn`). `table` is the driver's binding table in bytes
relative to the row, `offsets` is `offsets_` in words. The binding offset of one
word, which the code adds to every address and subtracts again, is part of the
formulas (`ValueOffset`, `EndOfSlot`), because alignment sees it.

What is done with one row is a function of the binding and no step: `Assign`
gives the memory that `emplace` writes for a column (indicator and value, cut
off at the capacity), `DriverWrites` what `SQLFetchScroll` writes, which cuts a
text off that leaves no room for its terminator; `Construct` reads a row by
`offsets_`, and `DriverReads` by `table`, as `SQLBulkOperations` does. The row
lies at an even or an odd word, which matters where a type is aligned to more
than a word. Elements may be wider than a byte: of those `assign` copies as many
*bytes* as there are elements (`src/odbcx/bindings/flyweight.hpp:238`), which
stays inside the slot but loses most of the value. What the off-by-one of
`bulk_fetch()` and `construct` with bookmarks amounts to is stated by
`BulkFetchMeansBound`, of `ReadsRow` (which columns `construct` takes from the row) and
`BulkFetch`; what it does to a cursor is in `ScrollableCursor`.

### ModifiableCursor

`apply_changes` is a sequence of steps, each of which may fail and leave by an
exception (`Throw`); the caller may then fetch, queue changes or apply again.
`bound` is what the statement's columns are bound to, `countInto` where the
driver puts the number of fetched rows. The driver may take a bulk operation
"with info" and refuse some rows, which the library takes for success.

### Statement

One statement handle and everything that uses it. `holder` is who owns it, the
`lent` statement is one a cursor works on through an `Adapter`. `query` is
`Query`, then one `BindParam` per parameter, then `Execute` or
`ExecuteForCursor` and `Construct`; each of its driver calls may fail
(`QueryFails`, `ConstructFails`). The driver remembers parameters (`params`),
columns, an open result and where it counts rows to (`countInto`), all of which
outlive the query or cursor they were made for: the lengths of parameters are
local to `query`, so when it returns they are `dead` (`Dangling`). `Query(k, m)` has `k`
parameters for a text of `m` placeholders: nobody counts the placeholders of a
query without parameters (`src/odbcx/details/query.hpp:15`), and only an assertion
those of one with parameters (line 26). The driver executes only if every
placeholder has something bound to it (`CanExecute`), alive or not. `used` says
that a query with parameters has ended on the statement, and nobody has
reset them since. A cursor gives
its statement back by `handle() &&` (`Release`: `SQL_CLOSE`, `SQL_UNBIND`,
`SQL_RESET_PARAMS`), each step of which may fail; it may be moved
(`MoveCursor`) or destroyed. While there is a cursor it does what
`ModifiableCursor` does (`UseCursor`), whose actions are taken over unchanged;
`ColumnsFollow` relates its `bound` to the columns here.

### Attributes, Diagnostics and Handles

`Attributes` has the map in a handle's type as a set of records with one value
per id, `Merge` (what is set later replaces), and `CursorKind`, the class of
cursor a query returns. It has no variables.

`Diagnostics` is `if_failed_throw`: after a failed call, `Collect` reads one
record per round, of which the text may be unreadable or too long to be asked
for, `Throw` ends the loop when the driver says `SQL_NO_DATA`. The counter is an
`SQLSMALLINT` that wraps at `RecMax`. A handle that is none has no records:
`SQL_INVALID_HANDLE` is thrown at once (`CallInvalid`).

`Handles` composes both. `live`, `connected`, `inTransaction` and `driver` (what a
statement really is) are the driver's; `owners` are the `unique_ptr`s that are not
null, each with its handle and what its type claims. Setting up a handle is one
`SetAttribute` per attribute, any of which may fail and throw
(`SetAttributeFails`, then the loop over the records, then `ThrowFromCall`), or be
taken "with info" by a driver that sets something else
(`SetAttributeSubstituted`). A handle that has just been allocated is in no
`unique_ptr` while its attributes are set (`src/odbcx/handle.hpp:61`) and leaks
if that fails; one given to `set` keeps its owner and its old claims. The deleters
(`FreeStmt`, `FreeDbc`, `FreeEnv`, `FreeDead`) ignore what the driver answers; any
other call on a handle that the driver has freed is `UseFreed`, and throws.
`cutOff`, `disorder`, `misused` and `behind` record what has gone wrong so far, for
the properties.

### Surrogates

`column` is what one column of the current row holds, how the driver hands it
out and `sizeof(T)`: it may be null, terminated, and when a value does not fit
the driver reports the rest, nothing (`SQL_NO_TOTAL`) or what it wrote. A
construction is a sequence of `SQLGetData` calls: `VectorStart`, then by the
indicator `VectorNull`, `VectorShort`, `VectorRest` or the loop `NextChunk`,
`LastChunk`, `NoMoreChunks` (together `Proceed`); `ArrayRead` is the constructor
for fixed arrays. Each call may fail and throw (`Fails`), after which what the
driver has handed out is gone: `begun` is what earlier constructions had taken.
`Cast` and `CopyToArray` are what the caller gets. Assertions are recorded in
`asserted` and do not stop the program, as in a build without them.

A terminated text longer than a chunk from a driver that reports the rest is
not put together correctly: with a chunk of 3 and a text of 4, the first call
writes 2 characters and a terminator, the second begins behind the chunk, the
assertion of `src/odbcx/bindings/surrogate.hpp:108` fails, and without it the
terminator stays in the middle and the last place is lost. `Suitable` in
`ValueIsWhole` excludes such texts; `WritesInsideBuffer` holds for them too.

## 4. The runs

| run | bounds | shows |
|---|---|---|
| `forward_only` | 2 iterators, 5 rows in rowsets of 2, 4 addresses | type, one chain, ownership, no row twice, no row skipped, loops end |
| `forward_refetch` (finding) | the same | `fetch()` behind the first buffer: wrapped index |
| `scrollable_shared` | 2 iterators, 5 rows in rowsets of 2, 0 to 2 of 2 columns bound, bookmarks or not, failures, one `fetch_one` or bulk operation | `pos_`, labels, order of rows, and which of them the driver's straying spoils |
| `scrollable_one_pass` | 1 iterator, 30 rows in rowsets of 4, 0 to 2 of 2 columns bound, bookmarks or not | implements `MultipassRange` with fairness, values from one row |
| `scrollable_multipass` (finding) | 2 iterators, 5 rows | an iterator ends in the middle |
| `transaction` | 3 scopes, 2 statements | atomicity, durability, autocommit, whose work an end is about |
| `transaction_moved` (finding) | the same | a moved-from scope ends again |
| `column_bindings` | 3 columns of 13 kinds, bookmarks or not, 4 and 8-byte SQLLEN, values up to one element too long | layout, rebinding, fetched rows read back, assigned rows stored, assignments inside their slots, what `bulk_fetch()` means |
| `statement` | a row, 2 inserts, 1 delete, up to 2 parameters and 2 placeholders in any combination, 2 columns, rowsets of 1 | nobody else's parameter read, no foreign column written, right counts, inserts once, after deletes, with columns bound |
| `handles` | an environment, a connection and a statement, 5 requests, records of three kinds | leaks, use after free, the class of cursor, complete diagnostics, every call ends |
| `modifiable_stale_count` (finding) | 2 rows, 2 inserts, 2 deletes | the stale row count |
| `surrogates` | chunk of 3, array of 4, elements of 1 and 2 bytes, up to 10 bytes | whole values, writes inside the buffer, assertions, the loop ends |

Why the bounds suffice. Five rows in rowsets of two give a full rowset, another
full one and a short last one, so two iterators can be in different buffers with
one between them; four addresses are the three buffers that can live at once and
one for the dead buffer the weak reference may still name. The scrollable cursor
has no chain, and two iterators are enough for one to move the driver under the
other; of two columns none, the first or both are bound, so that with bookmarks
the column misread is the last one or not. Three scopes give a finished, a
current and a moved one. Three columns give a first, a middle and a last one,
and the sizes include none, one byte, a word, one more than a word, the greatest
bindable length and one more. Ten bytes are up to three chunks and a short one,
so the value ends within, at and behind each border of a chunk, and the offset
of a middle chunk differs from that of the second. Two inserts let the driver
store one and refuse the other, and one delete lets a delete fail before them;
with two parameters and two columns a query may fail half way, or be narrower
than the one before it. One handle of each type suffices for the tree, because
handles of one type do not meet: a name is allocated again when its handle is
freed, and an owner may outlive its handle. The requests name cursor types that
replace and contradict each other, in both orders.

Deadlock is checked except where the program may stop: in `transaction` each
scope is constructed once and an abort ends everything; in `column_bindings`
the binding is done once per behaviour; in `handles` leaked handles use up the
names there are.

Every property of a passing run has a mutant: an operator named as a slip next
to the definition it replaces (an iterator copy that does not share ownership,
`pos_` maintained for one orientation only, a rollback forgotten, an offset one
off), under which TLC finds the property violated.

### Fairness

`LoopsEnd` and the refinement assume weak fairness of `Increment` for each
iterator, and of `Destroy`. The first says that a caller who loops goes on
looping: it is the premise under which "the loop ends" means something, and the
library runs `increment` to its end whenever it is called. The second says that
a destructor that has begun runs to its end. Weak fairness is enough, because
nothing but the iterator's own steps disables its increment for good: a dying
buffer does so until it is destroyed, which happens once per buffer. `ConstructionEnds` assumes weak fairness of `Proceed`:
the constructor does not stop between two calls of the driver. `CallsEnd`
assumes weak fairness of `GoOn`, the next driver call of an `allocate` or `set`, or
of the loop over the records: straight-line code. No
fairness is assumed of failures, fetches or copies.

### Findings

- `forward_refetch`: `src/odbcx/details/iterator.hpp:63` computes `1 - low_`
  in `std::size_t`. With the first buffer gone and a later one alive, `fetch()`
  returns an iterator that stands on no row.
- `scrollable_multipass`: `src/odbcx/details/cursor.hpp:362` updates `pos_` only
  when rows came. One iterator runs off the end; another one that wants the row
  `pos_` gets `SQL_FETCH_NEXT` and hence the end, with rows left.
- `transaction_moved`: `src/odbcx/transaction.hpp:20` moves by copying.
- `modifiable_stale_count`: `src/odbcx/details/cursor.hpp:414` leaves the
  address of a dead local with the driver.

Others the passing properties state exactly, at the place where they bite:

- `BulkFetchMeansBound`: `src/odbcx/bindings/columns.hpp:429` compares a size that
  counts the bookmark with a number that does not, so with bookmarks `bulk_fetch()`
  is true although the last column is not bound; line 593 likewise takes the first
  column that is not bound from the row. `ValueFromOneRow` excepts this column.
- `NoStaleParameter`: on a statement its caller keeps, a text with more placeholders
  than parameters reads what an earlier query has bound, whose lengths are gone.
- `PendingIsOwned`: what a destructor has failed to roll back is committed by the
  next scope.
- `NothingElseLeaks`: a handle leaks when one of its attributes cannot be set.
- `OwnColumnsOnly`: the columns of a cursor made from an `Adapter` stay bound.
- `AssignStaysInSlot`, `RowRoundTrip`: see *ColumnBindings* on wide elements.

Where the code fails in some states, the passing run states the property outside
them and says so: one iterator, `Misread`, `strayed` and `astray` (scrollable), `moved`,
`overwritten`, `failed`, `unfinished` (transaction), `rebindFailed`, `leftBehind`,
`disturbed`, `used` (statement), `disorder`, `behind`, `cutOff` (handles), an alignment above a
word, a text as long as it was bound, elements wider than a byte (columns),
`Suitable` and `begun` (surrogates). These premises are not assumptions of the
models: the actions that break them fire.

## 5. What is proved

TLAPS checks these for every value of the constants: any number of rows, any
array size, any sets of iterators, addresses, scopes, statements and handles,
any numbers of parameters and columns, any lengths of columns and of values, any
sizes of elements, chunks and arrays, any lists of attributes and of records.

| module | theorem | says |
|---|---|---|
| `ResultSet_proofs` | `RowsetLaw` | a rowset lies in the result, and the driver's next position is its end |
| `ForwardOnlyCursor_proofs` | `TypeCorrect` | `TypeOK` |
| | `ChainStartsAtHead` | `OneChainFromHead` |
| | `BuffersAreOwned` | `OwnedExactlyWhileReachable` |
| | `NoRowTwice` | `RowsDeliveredOnce` |
| | `EveryRowReached` | `IncrementSkipsNoRow`, an action property |
| | `LoopsAdvance` | an increment from a row leads to a later row or to the end |
| | `RefetchNeedsFirstBuffer` | `fetch()` begins on a row exactly if `low_` is 1 in its buffer |
| `ScrollableCursor_proofs` | `TypeCorrect` | `TypeOK` |
| | `PosIsRight` | `PosTellsDriverPosition` |
| | `LabelsAreRight` | `BufferHoldsItsRows` |
| | `RowsInOrder` | `IncrementReachesNextRow`, an action property |
| | `LoopsAdvance` | an increment from a row leads to the next one or to the end |
| | `EndsEarlyOnlyByDriver` | an iterator ends exactly behind the last row, or where the driver is after the end and `pos_` is the row it wants |
| | `OnePassIsMultipass` | with one iterator at a time, `Multipass!Spec`: the refinement without its fairness |
| | `OnePassValues` | with one iterator at a time, `ValueFromOneRow`: for any numbers of columns and of bound ones, with bookmarks or not |
| `Transaction_proofs` | `TypeCorrect` | `TypeOK` |
| | `AllOrNothing` | `ScopeIsAtomic` |
| | `CommitIsKept` | `CommittedIsDurable` |
| | `AutocommitComesBack` | `AutocommitRestored` |
| | `PendingBelongs` | `PendingIsOwned` |
| | `EndsAnOpenTransaction` | `ScopeEndsOnce` |
| `Statement_proofs` | `TypeCorrect` | `StatementTypeOK` |
| | `ParametersAreLive` | `NoStaleParameter` |
| | `ColumnsAreOwn` | `OwnColumnsOnly` |
| | `CountsAreRight` | `FreshCursorCounts` |
| | `InsertsAreBound` | `InsertsUseColumns` |
| | `NoInsertTwice` | `EachInsertOnce` |
| | `DeletesComeFirst` | `InsertsWaitForDeletes`, an action property |
| `Handles_proofs` | `TypeCorrect` | `TypeOK` |
| | `LeaksHaveReasons` | `NothingElseLeaks` |
| | `FreedOnce` | `NoFreedHandleUsed` |
| | `KindFits` | `CursorKindFits` |
| | `RecordsAreTold` | `EveryRecordTold`, an action property |
| | `CallsAdvance` | no step of a call under way stands still or turns back |
| `ColumnBindings_proofs` | `NoOverlap` | `SlotsDisjoint` |
| | `BindingsComeBack` | `RebindRestores` |
| | `BulkFetchIsExact` | `BulkFetchMeansBound` |
| | `AssignmentsAreInside` | `AssignStaysInSlot` |
| | `AssignedIsRead` | `RowRoundTrip` |
| | `FetchedIsRead` | `ReadsWhatDriverWrote` |
| `Surrogates_proofs` | `ValuesAreWhole` | `ValueIsWhole` |
| | `NeverBehindBuffer` | `WritesInsideBuffer` |
| | `NoAssertionFails` | `AssertionsHold` |
| | `ChunksAdvance` | each turn of the loop is the last or takes at least a byte |

The assumptions are the named ones of the models: `NumRowsAssumption` (a result
has finitely many rows), `BufferAssumption` (a buffer holds at least one row, a
`std::size_t` counts beyond the rows of the result, and the null of the model is
no buffer), `ScrollableAssumption` and `TransactionAssumption` (the models' own null
values are not among the real ones), `ModifiableAssumption` and
`StatementAssumption` (numbers), `HandlesAssumption` (the tree of handles has
three levels, and a request names attributes of the handle's type, each id once,
as the types of the library enforce) and `DiagnosticsAssumption` (a driver has
fewer records than an `SQLSMALLINT` counts),
`LayoutAssumption` (an `SQLLEN` has 4 or 8 bytes, alignments are 1, 2, 4 or 8, and
a `static_assert` of `FlyweightArray` keeps the elements of an array from more
than a word's), and `SurrogatesAssumption` (an element has at least a byte, an array
at least one element, and a chunk two, so that a terminated piece of a value
is not empty). `OnePass`, the premise of two theorems, says that there is one
iterator and that neither `fetch_one` nor a bulk operation moves the driver.

Each proof goes by one inductive invariant, `IInv`:

- **Forward-only.** That no row comes twice is not inductive: a step could fetch
  behind a buffer that is not the last one. So `IInv` also says that the live
  buffers are one chain (`OneChainFromHead`), that each has an owner or is
  about to die (`OwnedExactlyWhileReachable`, `DyingIsHead`: only the first can),
  that rows go up along a link (`LinksGoForward`), that buffers are not empty
  and share no row (`NonEmptyBuffers`, `DistinctRows`), and that the rows
  `fetch_one` has taken lie behind the driver and in no live buffer (`TakenApart`).
  That none is skipped needs `GapsTaken` besides: what lies between a buffer and the
  next one, or the driver, has been taken; a new buffer closes the gap of
  the only buffer that had none behind it (`OneLastBuffer`).
- **Scrollable.** `pos_` and the labels depend on each other: the label of a
  new buffer is right because `pos_` was, and `pos_` stays right because the
  row asked for is the label the driver was sent to. Neither is inductive alone.
  In one pass the driver also stands right behind the only buffer (`OnePassInv`),
  so every increment is an `Advance` of the abstract range and the end comes
  behind the last row; with two iterators that is what `scrollable_multipass` refutes.
- **Transaction.** `ConnectionInv` ties autocommit to the open scope: while
  autocommit is on nothing is pending, there is one open scope unless scopes
  were moved, and it carries `ScopeEndsOnce`, `AutocommitRestored` and `PendingIsOwned`.
  `ScopeInv` says what a committed scope's handle is, and
  `WorkInv` where the statements of each scope are: pending with the open
  one, durable with the committed ones, nowhere with the others. Only together
  do they survive a commit, which makes *all* pending statements durable.
- **Statement.** `PhaseInv` says that a query in progress has the statement to
  itself and how far it has come, `ParamsInv` that the parameters it has bound so
  far are live, and that no others are bound unless the statement is `used`: a
  query that fails half way leaves some, but then its statement is, or is freed.
  `ColumnsInv` adds that a statement without a cursor has no columns bound,
  `CountInv` that an undisturbed cursor's counter is where the driver counts,
  and `ChangesInv` that columns are unbound only while there are deletes to be
  done or the columns to be bound again. `EachInsertOnce` is inductive with the
  type invariant; its steps go by lemmas on the number of places a row has in a
  list (what appending a row and emptying the list do to it).
- **Handles.** `OwnerInv`: a handle has one owner at most, and one that is being
  set up none, or the one it is moved out of. With that, `OrderInv` (in good
  order owners hold live handles) and `NothingElseLeaks` are inductive.
  `CursorKindFits` needs what is still to be set: `Fits` says of an owner's or a
  setup's claims that each is true of the statement or is in the rest of the
  list (`ClaimsInv`), where claims have one value per id (`ClaimsAreMaps`).
  `RecordsInv` is the loop invariant of the diagnostics.
- **Columns.** `OffsetsInv` says that each slot ends where the next one begins,
  as bind computes it, and that offsets grow; `PhaseInv` how far binding has come,
  `TableInv` that what the driver knows of each column is what bind or rebind
  computes from these offsets, and `FirstInv` the same of what is to be restored. That
  rounding up to an alignment grows with the address, by less than the alignment,
  and does nothing to a multiple of a word (`RoundUpLaw`, `RoundUpGrows`,
  `WordsAligned`) gives where slots lie (`ColumnLaw`) and where flyweights look in
  rows at odd words (`ValueLaw`), on which the six theorems rest.
- **Surrogates.** Neither that the value is whole at the end nor that the assertions
  hold is inductive. While a value is being read `FirstInv` and `ChunksInv` say
  that what the driver has handed out is the beginning of the buffer, byte by byte
  (`Prefix`), that it ends where the next chunk is written (`CollectedLaw`), and what
  the driver has reported of it; `EndInv` says the same of what the constructor
  returns. `LoopInv` keeps nulls and `SQL_NO_TOTAL` apart from lengths, and
  `NumbersInv` says that for single bytes the driver's numbers and the
  constructor's agree also when an earlier construction has taken a part. Sizes
  are products of variables, which the solver does not multiply: what is needed of
  them is proved once (`DivisionLaw`, `DivisionGrows`, `BytesLaw`, `ElementsLaw`), and
  then `GetDataTakes`, `GetDataTells` and `GetDataGoesOn` say what one call does.

Two kinds of theorems state no property of a run. The `...Advance` theorems are
what the liveness properties rest on: with the bounds in the same invariants
(the rows of the result, the bytes of the column, the attributes and records of a
call) the rows, bytes or records left bound the turns of each loop, unless a
fetch fails under an iterator of a `ForwardOnlyCursor` or a strayed one misleads
that of a `ScrollableCursor`. The others say how far a finding reaches:

- `RefetchNeedsFirstBuffer` needs that `low_`, which counts from 1 in the first
  buffer of a chain, is never ahead of the rows (`LabelsBehindRows`). So `1 - low_`,
  wrapped around, is never by chance an index of the buffer: `fetch()` goes wrong
  whenever the first buffer is gone and a later one is not, and only then.
- `EndsEarlyOnlyByDriver` follows from what `pos_` tells: only an iterator that wants
  the very row `pos_` names can end early, and it does whenever the driver is
  after the end.

Liveness, `ENABLED`, and what a recursive definition computes for every input
are out of the prover's reach and are left to TLC.

## 6. Only model-checked, and not modelled

Liveness is TLC's: `LoopsEnd`, `ConstructionEnds`, `CallsEnd`, and the fairness of
`MultipassRange`, which its implementation must bring along. What can be proved of
them, that each turn of their loops brings the end nearer, is (section 5).

Not modelled:

- Conversions of values (`adapter.hpp`, `details/cast.hpp`, `type_info.hpp`, ...),
  and what the driver makes of wide characters, all of which the library binds
  as `SQL_CHAR`.
- Static bindings: the compiler's layout of a struct.
- `SelectQuery`, which puts the text of a statement together; its order of
  clauses is checked by the compiler. A query of two parameters or more through
  it does not compile (`src/odbcx/details/query.hpp:26` counts the tuple as one
  parameter).
- As what type a parameter is bound (`bindings/in.hpp`): `Bind<char[N]>` is never
  chosen, as arrays decay before, and `Bind<std::vector<char>>` takes a
  `std::string`.
- The number of rows that a hint gives to a buffer, a constant here. For a hint in
  bytes `src/odbcx/details/cursor.hpp:49` divides the size of a row by the
  hint, not the other way round.
- What else a driver destroys that writes through a dangling
  `SQL_ATTR_ROWS_FETCHED_PTR` or through columns left bound.
- Moving or destroying a cursor while its iterators live: buffers hold a raw
  pointer to it (`src/odbcx/details/cursor.hpp:145`), nothing guards it, and that
  it outlives them is a premise of the models.
- Nested transactions in one connection: the constructor's assertion rules them
  out in a debug build, and the models follow programs that do not nest.
- `ModifiableCursor::cancel_changes`, which does not compile when instantiated (it
  swaps with a temporary).
