# Verification of queryCreator

queryCreator is a C++ library that builds SQL statements for five databases
(PostgreSQL, MySQL, SQLite, MSSQL, Oracle) and executes them through a thread
safe pool of native connections. This directory holds TLA+ models of the parts
whose correctness is hard to test, the TLC configurations that check them on
small instances, and proofs, checked by TLAPS, of what matters most.

Paths are relative to the repository; `P:n` is line n of file P.

## 1. Inventory

### How the parts interact

A caller fills a builder (`QcSqlQuery`, `QcSqlInsert`, `QcSqlUpdate`,
`QcSqlDelete`); builders own `QcSqlQueryElement`s (conditions) and
`QcSqlQueryValue`s (selected expressions) and deep copies of other builders.
`toSql(driver)` asks `validate()`, throws if there are problems, and otherwise
renders text, calling `QcSqlDialect` for everything that differs between
databases and appending each bind value to one list as its placeholder is
written. The statement - text, values, number and names of the columns to
return - goes to the `QueryCreator` facade, which leases a connection from
`QcConnectionPool` for each call, executes through `QcNativeConnection` and the
driver, and gives the lease back. There are no callbacks, no background threads
and no persisted state of the library's own; the shared state is the pool
(one mutex, one condition variable) and what the *server* keeps per connection
(an open transaction, `LAST_INSERT_ID()`), which outlives a lease.

### Components

| Component | State | Operations | What is hard | Correct when |
|---|---|---|---|---|
| `QcConnectionPool`, `Lease` | idle connections or count of permits; waiting threads; leases | constructor, `acquire`, `tryAcquire`, release by destruction, move, move assignment, destructor | waiting, timeouts and notification; `isAlive()` and reconnect outside the lock; exceptions halfway; moves | no slot lost or returned twice, no connection shared, leaked or used after close, no free slot left to a sleeper |
| `QueryCreator` | a pool | `execute`, `executeNamed`, `tryExecute` of each builder and of raw SQL | `INSERT ... RETURNING` on MySQL is five statements of which any may fail; the connection carries a transaction back into the pool | what the caller is told is what the table ends up with |
| Oracle driver | `inExplicitTransaction` per connection | `execute`, `executeReturning`, `isAlive` | autocommit simulated on a server that has none; a multi-row `RETURNING` is applied and then fails | nothing reported as failed is committed, and nothing reported as done is lost |
| all five drivers | the connection; during a call, statements, results and buffers | constructor, destructor, `isAlive`, `execute`, `executeReturning` | every call of the client library may fail, each failure has an exit of its own; buffers whose addresses a library keeps; values in five representations | nothing leaked or used after it is gone, no part of a result passed off as the whole, and a value fetched is the value bound |
| `QcNativeConnection` | the driver's connection | forwards; named results | column names to columns | calls reach the driver |
| `QcSqlQuery` | clauses, chains, depth of parentheses, fragments, CTEs, joins, set operations | one per clause | any order of calls; parentheses and connectors; values bound across nested queries | accepted text parses, means what was called, and binds each value to its placeholder |
| `QcSqlQueryElement` | comparator, operands, cast, JSON path | 40 comparators | the reference is kept and used again | the last comparator decides |
| `QcSqlInsert`, `QcSqlUpdate`, `QcSqlDelete` | assignments, returned columns, WHERE chain | `set`, `returning`, `where...` | order of binds, OUT placeholders after them | as above, and driver and text agree on the OUT placeholders |
| `QcSqlDialect`, `QcSqlQueryValue` | none, a selected expression | pure functions | each driver's text means something to its own engine: quoting, precedence, nulls, limits | the engine does what the calls ask for |
| `QcSqlBase`, `QcDeepPtr` | none, a copy | | | copies do not alias |

`PROJECT.json` lists every component with its status and, under `hazards`, each
place of the code that is hard to test with the properties that watch it. Not
modelled at all: the demo program, and the repository's tests, vendored SQLite,
build files and documentation.

## 2. The modules

```
PermitPool  <-- refined by -- ConnectionPool <-- PoolHandouts -- MCPool, ConnectionPoolProofs
                              ConnectionPool -- MCPoolLiveness
                                    |  (one thread per connection at a time)
                              QueryCreator -- MCQueryCreator, QueryCreatorProofs
AutocommitSession <-- refined by -- OracleSession -- OracleSessionProofs
SqlParentheses <-- WhereClause, SqlCondition <-- WhereConditions -- MCWhereClause, WhereClauseProofs
QueryElement <-- Builders;  QueryElement <-- QueryRendering
Builders, QueryRendering <-- BuilderStatements <-- BuilderStatementsProofs
SqlNames <-- SelectNames -- SelectNamesProofs
SelectNames, SqlFunctions, SqlRows, SqlSetOperations <-- SelectQuery -- MCSelectQuery
DriverCall <-- DriverPostgreSql, DriverSqlite, DriverMssql, DriverMySql, DriverOracle
       <-- Drivers -- DriversProofs
DriverValues -- MCDriverValues, DriverValuesProofs
```

The modules named Proofs extend the module they are about and hold its theorems.

Operators marked `\* Defect:` are faulty variants of the definition below them.
Nothing in a specification uses them: each is the form a plausible bug would
take, and putting it in the place of the right one makes the property named in
`PROJECT.json` fail.

### PermitPool, ConnectionPool and PoolHandouts (`qcconnectionpool.{h,cpp}`)

`PermitPool` is the promise: `Size` permits; a caller is granted one when one is
free, refused only while all are out.

`ConnectionPool` is the code. `idle` and `leased` are `m_idleConnections` and
`m_leasedCount`; `pc[t]` is the point of `acquireImpl()` thread t is at. What
runs under `m_mutex` is one step; between steps, where the code has let go of
it, other threads run: `TakeIdle` (the slot is taken), `FindAlive` /
`FindUnusable` (what `isAlive()` answers), `HandOut` (the return of the `Lease`: the
connection may have died since), `Connect` / `ConnectThrows`, `Adopt` (the old
connection is closed and the new one put into the lease), `GiveSlotBack` (the
`catch` block) and `Unwind` (what the exception destroys). `Wait`,
`SpuriousWakeup`, `Expire` and the choice in `NotifyOne` are the condition
variable; a thread woken or expired looks at the predicate again before it does
anything, so that a timeout can race a notification and a newcomer can take the
slot first. Each thread has two `Lease` objects, the temporary `acquire()`
returned and a variable; `DestroyLease`, `MoveLease` and `MoveAssign` are the
destructor, the move constructor and `operator=`. `Die` is the database.
A thread may ask for a second lease while it keeps one. `PoolHandouts` adds a history:
`spent` has the dead connections that a lease holder had or `isAlive()` was asked about
after they died.

### QueryCreator (`querycreator.{h,cpp}`)

Threads call the facade; every call leases (`Acquire`, one step: what the pool
guarantees is ConnectionPool's subject), executes statement by statement and
returns. `Begin`, `Insert`, `LastInsertId`, `Select`, `Commit` and `Rollback`
are the statements of `executeMysqlInsertReturning()`; `RawInsert` and
`RawControl` are calls that execute one statement. A statement succeeds, or is
refused, or the server rolls the transaction back, or the connection drops
before or after the server carried it out, a plain insert outside any transaction
included (`DropsAfterInsert`). `session` is the server's side of a
connection and stays with it when the lease ends. `told` and `unsettled` are history:
no action depends on them. `mode` is chosen at the start.

Raw `BEGIN`, inserts and `COMMIT` through the facade each lease a connection and are
not one transaction; `docs/usage.md:709` says that those need a lease, and no
property claims otherwise.

### AutocommitSession and OracleSession (`qcdriveroracle.cpp`)

`AutocommitSession` is what the other databases do by themselves: a write
outside `BEGIN ... COMMIT` is durable when it is reported. `OracleSession` is
what the driver does for it: the flag `inExplicitTransaction`, the commit mode of
`OCIStmtExecute`, `executeReturningCore()` that executes without commit and then
issues `COMMIT` or `ROLLBACK` itself (`settling` is the write in between), lost
connections and failing `COMMIT`s. Whether COMMIT can fail (`commitFails`) and
whether callers use multi-row `RETURNING` in transactions of their own
(`multiRowInTransaction`) is chosen at the start. Oracle's implicit commit around DDL is not
modelled: writes are `INSERT`, `UPDATE` and `DELETE`.

### SqlParentheses, SqlCondition, WhereClause and WhereConditions (`qcsqlquery.cpp`, `qcsqlqueryelement.cpp`)

`SqlCondition` says how a database reads a condition: what parses, and which
truth assignments satisfy it: OR binds loosest, AND next, both associate to the left,
and a text is read by reading what is on either side of the connective that is applied
last (`Pivot`). `SqlParentheses` has the part of it that `validate()` is about.
`WhereClause` has the chain of `{connector, element}` pairs with its parenthesis
markers, and `validate()`; `WhereConditions` has `renderChain()`, the free text that
follows, and what the text has to mean. `groups` records, apart from the
chain, what the calls mean; comparing the meaning of the text with it is the
point. `QcSqlUpdate` and `QcSqlDelete` have the same chain and call the same
`renderChain()`; HAVING has no parentheses. A fragment of free text is whatever the
caller writes, appended as it stands: in the model (`FreeTexts`) a predicate, two of them
with a connective between, or two with an OR in parentheses of their own. Text that is
no condition by itself is the caller's error and left out.

### QueryElement, Builders, QueryRendering and BuilderStatements (the four builders and their elements)

`QueryElement` is a condition and what each comparator makes of it. `QueryRendering`
holds the other pure part: what `toSql()` writes and binds, what `validate()` refuses. A text is reduced to
its placeholders, each with its position (for `$n` and `:n`) and, as a ghost, the
operand the caller meant there; SELECT list, GROUP BY, ORDER BY and LIMIT
bind nothing and are absent. `Builders` has two builders that are filled by any
sequence of calls, `outer` taking copies of `inner` in every place that takes a
query. `BuilderStatements` states what has to hold of the statement `outer` is
rendered as. A clause is a list of renderers, each of which gets the values bound so
far and hands on its own behind them, which is how the code passes one `params` from
function to function; a list is rendered from left to right by a recursive function.
A query is rendered two levels deep, no deeper: what `outer` embeds are copies of
`inner`, which embeds nothing (`TypeOK`).

### Drivers and DriverCall (`qcdriver*.cpp`, `qcnativeconnection.cpp`)

`DriverCall` has what the drivers share: the calls of `IQcDriverConnection`,
the statement to execute, and the memory a call works with. `live` holds the
library objects and the local storage whose address a library was told that exist now;
`Lib(from, to, args, new, gone)` is one call of the client library, that works with
`args`, allocates `new` and frees `gone`; `Register` is what a bind call makes a
statement remember. Each driver's module has one action per call of its
library, with an alternative per outcome and the exit the code takes; `Drivers`
puts them side by side. `applied` is the database's side of the outcome, `answer`
the caller's, and `ignored` the failures whose return codes the code does not look at.

A failure whose code is not looked at is an alternative as well: a value SQLite did not
bind, a column MSSQL could not describe, and in `OraSettle` a `COMMIT` or
`ROLLBACK` that failed, or was never sent because `runSimpleStatement()` got no
handle - the rows are then in the server's open transaction, for a later statement to
commit or a lost connection to undo.

`DriverValues` is a table of one column, inserted into row by row and selected from,
each time through the driver's conversions: `Stored(v, d)` is what the column keeps of a
`QcVariant` that `bindParam()` bound, `Fetched` what `fetchRows()` makes of it again -
UTF-8 to UTF-16 and back, `SQLGetData` in chunks and the terminator only texts have,
`bytea` in hex, C strings, six decimals, MySQL's `charsetnr`. PostgreSQL and
Oracle hand numbers back as text, a *numeral* in the model, which keeps the number and is
not spelled. Where the library copies into a buffer bound once for all rows
(texts and bytes on MySQL, texts on Oracle), `CopiedInto` overwrites as much of it as
the value has, and `ReadBuffer` is what the driver takes from it: what the row before
left is still there.

### SelectNames, SelectQuery and the modules of operators they use

`QcSqlDialect` and `QcSqlQueryValue` are case splits over drivers that write
text; what could be wrong is not the text but what an engine makes of it. Each of
four modules therefore has two halves: what the code writes, as a sequence of
items, and how the five engines read such a text - that half is external.

| Module | The code's half | The engine's half |
|---|---|---|
| `SqlNames` | `quoteIdentifier`, `quoteRef`, `quoteTableRef`, the alias in a value's name | quoted names and where they end |
| `SqlFunctions` | the chain of a `QcSqlQueryValue`: `concat`, `dateAdd`, `jsonExtract`, `cast`, calls | precedence of `+`, `||` and `::`, `INTERVAL`, JSON paths, what `CAST` keeps and `LENGTH` counts |
| `SqlRows` | `orderByEntry`, `limitOffsetClause`, `DISTINCT` | which clauses each engine accepts, its order of nulls, offset, limit and ties |
| `SqlSetOperations` | set operations, nested or flat | precedence and grouping, and where ORDER BY, LIMIT and WITH may stand |

`SelectNames` and `SelectQuery` are the builder the calls fill; their properties
compare the engine's reading with the meaning of the calls. `SelectNames` has
`m_values` and `m_fromTable`, filled by `addReturnValue()` and `fromTable()`, and the
SELECT list and FROM made of them; a name is a record of the parts a caller has
in mind (reference or expression, alias, blanks), written as one string for the
code to take apart again. The engine's half is an automaton that reads one
character at a time: outside names, within one, or behind a closing quote, which may
be half of a doubled one. Names in joins, ORDER BY and GROUP BY go
through the same three functions and are absent. `SelectQuery` adds the other parts
that bind nothing; one is filled at a time (names, functions, order and limit, set
operations), as `toSql()` writes each without looking at the others.

## 3. What the runs check

States are distinct states found.

| Run | States | Bounds | Shows |
|---|---|---|---|
| `pool` | 52,315 | 3 threads, 2 slots, 5 handles, both modes | type, slots conserved, one owner per connection, a lease always has a connection, no lost wakeup, bound on open connections, no connection handed out that was met dead before, refinement of `PermitPool` |
| `pool_liveness` | 83,356 | 3 threads, 1 slot, 1 call each, both modes | `tryAcquire()` returns; a free slot is not left to sleepers; `acquire()` returns if nobody holds and waits |
| `facade` | 458,888 | 2 threads, 2 connections, 2 rows, both modes | the MySQL emulation returns its own row, durably; a failed one leaves nothing but where its own COMMIT or ROLLBACK failed, or a plain insert lost its answer; no connection goes back with the emulation's transaction open for another reason |
| `oracle` | 78,203 | 4 writes, 2 of them multi-row | refinement of `AutocommitSession` while COMMIT does not fail; whatever fails, the exact set of excuses for an outcome that differs from what was reported |
| `oracle_multirow` | violation | the same | a multi-row `RETURNING` that returned nullopt is committed with the caller's transaction |
| `where_clause` | 683,779 | 4 conditions, 8 chain entries, of which fragments are some | accepted conditions parse and mean what was called; free text conjoins where neither the chain nor a fragment has an OR at its top |
| `where_free_text` | violation | 3 conditions, 4 entries | free text after an OR restricts only the last alternative, though it has no OR of its own |
| `builders` | 115,281 | 2 items in `outer` (and FROM, and returned columns), 1 in `inner`, 3 calls of `set()` | placeholders meet their operands on all drivers; all drivers bind the same values; none is lost; comparators start over; OUT placeholders are those the Oracle driver binds |
| `drivers` | 23,289 | results of up to 2 rows | on every path through a call everything is freed (but two losses, below), nothing freed is used, a result is whole, and what the caller is told of a write is so |
| `values` | 747,508 | 3 rows; texts of up to 2 characters, blobs of up to 3 bytes, chunks of 3 units and 2 bytes, a buffer of 8 bytes on Oracle | a value comes back in its own row as it was bound, whatever rows came before it |
| `select` | 98,690 | 2 names with aliases of 2 characters, 3 functions, 2 keys, 3 set operations | names are read as they were given, next to any other; functions apply in call order, ORDER BY and LIMIT answer the rows asked for, set operations combine in call order - with the exceptions below |
| `element_null` | violation | 1 element | `isEqualTo(QcVariant{})` reads as "no comparator set" |

The three violations are disagreements between the code and its own documentation,
quoted in `PROJECT.json` under `findings`.

### Why the bounds are enough

*Pool.* Losing a notification takes a sleeper, a releaser and a newcomer that
overtakes or a deadline that passes: three threads; two slots, so that one can
be taken while the other is in repair. Handles are reused once closed; two slots
need at most two connections, three threads replacing one each at most three
more: five never run out, so that `Connect` is never refused for want of a
handle. *Liveness* has one slot, where everybody else must sleep. The limit of
one call per thread (`MaxCalls`) is there for `acquire()`: without it a thread may
be overtaken for ever, which `std::condition_variable` allows.
*Facade.* Two rows and two threads are an insert in every gap of another; two
connections let a call meet a session another left behind. *Oracle.* One
connection is used by one thread at a time; a write of each kind (multi-row,
other) inside and outside a transaction, and one more to find what it left.
*WHERE.* Precedence shows with three conditions, one more nests a group; eight
entries are two groups with two conditions each and one entry between.
*Builders.* The hazard is an order between two neighbours in the shared list of
values: all pairs of places in one statement, each with up to two values, and
with a query of up to two values in every place that takes one. Comparators are
called again and again on the condition of a statement that has one, and once
on a condition next to something else. Three calls of `set()` are the shortest that tells the place of a column from the time of its
last value.

*Drivers.* Two rows are one that was read and one that fails; what the call does
is the same for any further row. The connection may drop at any call that talks to the
database. *Values.* The characters are the first and last of every length in UTF-8 and
on both sides of the surrogates; chunks of three units, one of them the terminator, make
texts end before, at and after the end of a chunk and put a UTF-16 pair across it, and
bytes as well. What a buffer keeps shows on a long value, a NULL and a short one: three
rows. *Select.* What a quote does to what follows
shows on the next name: two names, in every order; two characters make a closing
quote meet itself, a blank and the end of an alias. An expression of a third function
over two others shows what the precedence of the second is worth; the third is one
of those that are not always written as calls, the rest being closed
by their own parentheses. Two keys order rows that tie in the first. A third set
operation follows one that already has a predecessor, and has a simple operand;
operands with a limit, a CTE or set operations of their own come earlier.

`CHECK_DEADLOCK FALSE` is set where a bound ends the behaviours (`facade`,
`where_*`, `builders`, `element_null`, `select`); the pool, the Oracle session, the
drivers and the table of values never stop and are checked for deadlock.

### What the properties except

A property names the cases in which a driver cannot keep, or does not keep, what it
promises elsewhere; all of them were found by the runs and each occurs.

* `NothingLeft`: MySQL's handle when the port is not a number
  (`src/query/qcdrivermysql.cpp:252`), Oracle's LOB locators when a later column
  cannot be described (`src/query/qcdriveroracle.cpp:260`).
* `NoStaleHandout`: a connection that dies between the answer of `isAlive()` and the
  return of the lease is handed out, once (`src/query/qcconnectionpool.cpp:100` and 110).
* `FailedLeavesNothing`: the COMMIT or ROLLBACK of the call itself that failed, and a plain
  insert that was carried out before the connection dropped.
* `FreeTextConjoined`: an OR outside parentheses, in the chain or in a fragment:
  `toSql()` parenthesises neither (`src/query/qcsqlquery.cpp:391`).
* `AnswerIsWhole`: unchecked results of `SQLGetData`, `SQLNumResultCols`,
  `SQLDescribeCol`, `OCILobRead2` and `sqlite3_bind_*`
  (`src/query/qcdriversqlite.cpp:110`; the value is then NULL), and Oracle's `RETURNING`
  that touched no row, which answers with one row. `AnswerIsTrue`: the COMMIT or ROLLBACK
  of Oracle's `executeReturning()` that failed or was not even sent
  (`src/query/qcdriveroracle.cpp:67`), a value SQLite could not bind, and an MSSQL
  write whose `OUTPUT` rows could not be fetched.
* `ValuesSurvive`: on PostgreSQL and Oracle numbers come back as text with six decimals,
  and texts end at a NUL; on PostgreSQL bytes come back as the text of their hex;
  on Oracle empty texts and blobs, on SQLite empty blobs, are NULL.
* `NamesSurvive` (`Mistakable`): `<` in an expression that a `>` follows, a blank after the
  alias of a table, a quotation mark in Oracle's names.
* `ChainMeansCalls`: `LENGTH` counts bytes on MySQL and ignores trailing blanks on
  MSSQL, `DECIMAL` keeps no fraction on MySQL, `NUMBER` keeps it for an int on Oracle,
  Oracle's `INTERVAL` has two digits, PostgreSQL refuses `jsonb_extract_path()` for an
  empty path (`src/query/qcsqldialect.cpp:639`), and expressions without parentheses in
  `||` and before `::jsonb`.
* `RowsAsAsked`: ties without `WITH TIES`, ties without an order, MSSQL's limit without
  an order, and emulated nulls-first under `DISTINCT` (`Expressible`).
* `SetOperationsInCallOrder`: operands that are more than a SELECT on SQLite, MSSQL
  and Oracle, MSSQL's tighter `INTERSECT`, and on PostgreSQL and MySQL a member that
  reads the CTE of the query it was added to.

### Fairness

Only `pool_liveness` assumes any (`Fairness` in `ConnectionPool`): a thread
inside `acquireImpl()` is scheduled (the mutex is held only for the steps
modelled, opening a connection returns or throws), deadlines pass, the
constructor goes on, and a program that holds leases destroys one sooner or
later - a lease is a scoped object. Nothing is assumed of who wins the mutex, whom
`notify_one()` wakes, spurious wakeups, calls or the database. `AcquireReturns`
has `[]NoHoldAndWait` as its premise: a program that waits for a lease while
keeping one can deadlock on any bounded pool, and this one does nothing about
it; `tryAcquire()` needs no such premise.

## 4. What is proved

Every theorem is about the specification the runs check, for every value of its
constants; the bounds of section 3 are not assumed. An inductive invariant was
checked by TLC on the run's instance before it was proved where TLC can evaluate it, and is
written next to the properties it supports or, where only a proof has use for it, next to the proof.

### The pool

For every set of threads and handles, every size and mode (`ConnectionPoolProofs`;
assumptions: `Size` is a positive natural
number, which the constructor enforces, threads are finitely many, `Null` is not
a handle):

* `SlotInvariance`: `SlotInv` is inductive. It is type correctness and
  three facts `SlotConservation` needs: before the constructor has returned and
  after the destructor nothing moves (`Quiet`), a thread in `acquireImpl()` has no
  lease in its temporary (`CallerFree`, or adopting a connection would
  overwrite one), and each mode counts in its own way (`Counted`).
* `TypeCorrect`, and with it `m_leasedCount` stays between 0 and `m_size`.
* `SlotsConserved`: free slots and owners are `m_size` together.
* `WakeupsNotLost`: while a thread sleeps there are no more free slots than
  threads awake to take one. The step that matters is `release()`, which
  frees one slot and wakes one sleeper, and that a thread which gives up looks
  at the predicate first.
* `OwnInvariance`: `OwnInv` is inductive together with `SlotInv`. `OneOwner` says of an
  open connection that it has one place; to keep that through a step one has to know
  which of the three kinds of place - idle slot, lease, thread that has just opened
  it - can name it at all. `OwnInv` says so pair by pair, and that a thread has a
  connection without a lease at certain points of `acquireImpl()` only (`Settled`).
* `ConnectionsOwnedOnce` and `LeasesHaveConnections` follow, and `OpenConnectionsBounded` by
  counting: the places are the `m_size` slots and the threads of `Surplus`.
* `HandoutsFresh`: a connection that was met dead is not handed out again. It is true of
  the whole way such a connection takes - back from its lease to an idle slot, out of it
  to `isAlive()` - that it is dead and in `spent`, while what a thread has found alive or
  has just opened is not (`SpentInv`, together with `OwnInv`: another thread's lease of the
  same connection would make it `spent`).
* `PermitsKept`: the pool implements `PermitPool`. A step of `acquireImpl()` that takes
  a slot grants a permit, one that gives it back returns it, a timeout is a refusal
  only where no permit is free - for which `Counted` is needed - and everything else,
  moves and reconnects among them, stutters.

### The facade

For every set of threads, every finite set of connections, any number of rows, both modes
and with or without failures (`QueryCreatorProofs`; assumptions: the number of rows is
natural, `None` is no row or connection, the threads that use raw statements are
threads), from the inductive
`FacadeInv` (`FacadeInvariance`):

* `OwnRowReturned`, `ReturnedRowDurable`, `FailureLeavesNothing`, `TransactionsEnded`,
  and the action property `NothingResurrected`.
* `FacadeInv` relates the statement a call is at to the session of its connection: what
  the five statements have done so far (`CallProgress`), that the transaction is open
  from BEGIN to COMMIT unless the connection dropped it (`TransactionOpen`), and where
  the call's row can be - in its own session, in the table, or nowhere (`RowPlaced`).
  `SlotsApart` keeps two calls off one connection, and `RowsFresh` keeps one call's row
  from being another's. The last two conjuncts are about connections nobody leases:
  whose transaction they can still have open. An insert that loses its answer puts its
  row into the table and into `unsettled`, at once.

### The Oracle session

For every set of writes (`OracleSessionProofs`; assumption: multi-row writes are
writes):

* `FailuresExcused` and `ResultsExcused`, from the inductive `OutcomeInv`: what
  `executeReturningCore()` began it ends before its caller is told (`SettlesFirst`),
  what nobody was told of is nowhere else (`UntoldIsOpen`), and what failed is not
  held in the server's transaction either (`FailedIsGone`), or a later
  COMMIT would take it along.
* `TypeCorrect`: the flag agrees with the caller's own view of being in a transaction.
* `AutocommitKept`: where COMMIT does not fail and no multi-row `RETURNING` runs
  inside a caller's transaction, every step is a step of `AutocommitSession`.
  It rests on `NothingLeft`.

### The drivers

For results of any length (`DriversProofs`; assumption: `MaxRows` is a natural number),
from `DriverInv` (`DriverInvariance`):

* `NothingIsLeft`, `NothingDeadIsUsed`, `AnswersWhole`, `AnswersTrue`, `TypeCorrect`.
* `DriverInv` is one account per driver (`PostgreSqlInv` ... `OracleInv`), each of which
  says of every point of a call which objects exist, which addresses a statement
  remembers, whether the statement was executed and how many of its rows have been
  copied, and what of it rests on a code nobody looked at. A call of a library is used with objects its account lists, and every exit
  leads to a point whose account holds the connection alone. Oracle's has to list, at
  every point, what a statement may remember at all: without that, describing a
  column could be reached with an address that only a later step may register.

### The values

`EveryValueSurvives` (`DriverValuesProofs`; assumptions: a chunk of text has two units or
more, one of them its terminator, and a chunk of bytes one or more; texts are sequences of
characters, not halves of pairs): in a table of any length, with any values a program can
bind in any order - null, any integer, any number of the model's decimals, any sequence of
bytes, the UTF-8 of any sequence of characters - each row fetched is the value inserted
there, through each of the five drivers, however much `fetchWideText()` and
`fetchBinary()` ask for at a time and however large Oracle's buffer is, with the exceptions
`Survives` names and no others. This is the property of the run `values`.

* The invariant (`ValuesInv`) says what is stored for each row, and that the buffer
  has room for every row of the result: MySQL's because it is as long as the longest
  (`LongestExists`), Oracle's because no longer text could be inserted. What is read from
  it is then what was copied into it last, whatever was there (`BufferRead`).
* The loops of the conversions and of the fetches are *walks*: from each position they
  take a piece of the text and go on at a later position, to the end. A walk along given
  pieces exists and there is only one (`WalkExists`, `WalksAlike`), and it is what the
  recursive functions of `DriverValues` compute.
* `utf8ToUtf16()` and `utf16ToUtf8()` look at one character, whatever follows it, and each
  reads back what the other wrote; by induction over the text so do whole texts. A
  character outside the BMP is four bytes and two units: that two units are one
  character is where the arithmetic is.
* Chunks joined are the text, whatever their size, and a chunk that ends in the middle of a
  surrogate pair makes no difference, because nothing is converted before all
  chunks are there. A terminator is cut off by texts only.
* `bytea` in hex: digits are inverse for every byte, and a text of hex digits holds no NUL.

### The builders

For any number of calls in any order (`BuilderStatementsProofs`, no assumption), from
`BuilderInv` (`BuilderInvariance`), which is `TypeOK` and `SetKeepsPlace`:

* `TypeCorrect`: no sequence of calls leaves an element with `EXISTS` and no query, or
  `BETWEEN` and other than two values, which `toSql()` would dereference or index; nor a
  query with a comparator that reads none, which `toSql()` would not bind the values of.
  The same of the elements of embedded copies.
* `AssignmentsKeepPlace`: the list that `set()` maintains has the columns in the order of
  their first call with the value of their last. It is the relation between the list
  and the whole history of calls that is inductive; the list by itself says nothing.
* `ComparatorsReset`: a comparator makes of an element, whatever had been called on it,
  what it makes of a new one, but for a cast. It needs `TypeOK`: the elements
  replaced must have the fields that are reset.

### The builders' statements

What `toSql()` writes for builders filled by any calls, clauses of any length
(`BuilderStatementsProofs`, no assumption). Placeholders and values are both inductions over lists of renderers; induction is over a set of
numbers, by its least element (`WFMin`).

* `EveryPlaceholderMatches`: on every driver each placeholder of the text gets the operand
  the caller meant there, by its position or by its number. A renderer is *sound*
  (`Sound`, `Renders`) when, whatever was bound before, its text and its values fit each
  other and what came before; sound renderers in a row are sound (`Stages`), which is all
  that clauses, chains, CTEs, joins and set operations are. Two exceptions are in the
  property, and the proof shows that no third is needed: a free text with more `?` than
  values, and MSSQL's repeated subqueries.
* `OutPlaceholdersAreBound`: the placeholders of `RETURNING ... INTO` are numbered from
  where the values end, as many as columns are returned, which is what the Oracle driver binds.
* `SameValuesBound`: all five drivers bind the same values in the same order; on MSSQL
  `IS DISTINCT FROM` writes its operand three times and binds a value three times, on the
  spot (`Stutters`). The values do not depend on the text (`Binds`, `Own`), so that
  neither exception is needed here.
* `NoOperandLost`: what is bound is what the caller gave, all of it and nothing else; for
  `set()` the last value of each column, which is `SetKeepsPlace` again.

### The WHERE chain

For any conditions and any number of calls (`WhereClauseProofs`; assumption: a condition is
no punctuation), from `ChainInv` (`ChainInvariance`):

* `ParenthesesMatched`: `validate()` looks at `m_whereParenDepth` alone, which a sequence
  like `) (` would bring back to zero as well. `DepthCounts` rules that out: the
  counter is the depth at the end of the chain, and the depth is nowhere negative.
* `HollowSeen`: `hollow`, the premise that takes clauses out of the properties about
  meaning, is true of the chains that read `()` somewhere and of no others. It
  needs to know when the innermost open group has a member (`InnermostFilled`).

These two are about the chain, whatever it is rendered as. What its text means is proved
from `ClauseInv` (`ClauseInvariance`), which adds that the text `renderChain()` writes is
the texts of the open groups, one inside the other (`Nested`), and that each of them reads as
the calls since its parenthesis meant it (`GroupReads`). The text alone does not do: a
condition added with `and_()` changes what its left neighbour is part of. `GroupReads`
therefore relates two cuts: the last OR outside parentheses divides the text as the last
`or_()` divides the group, in what is settled and what a further AND still applies to.
Its quantifiers range over all texts, so that TLC does not evaluate it; the run checks the
properties that follow:

* `AcceptedClausesParse`: what `validate()` accepts, without empty groups, is a condition
  a database can parse.
* `ChainMeansCalls`: the text means what the calls say, whatever the nesting.
* `FragmentsConjoined`: where neither the chain nor a fragment has an OR outside
  parentheses, each free text fragment, however long, is one more condition. (Behind a
  chain with an OR it is not: `where_free_text` shows it. A fragment with one of
  its own takes the chain before it as the first alternative.)

Three facts carry them. `Reading` exists, as a recursive function: it asks about shorter
texts only, and a function on the texts up to each length exists and is unique
(`ReadingIs`). A connective and a *factor* - a predicate or a group, nothing
outside parentheses - behind a text adds that connective to its cuts and no other
(`JoinedSplits`), because the text ends where no parenthesis is open. And the text of a chain
with one more entry is the text before and that entry, with or without connective (`OneMoreWritten`).

### Names

For any set of characters that has the punctuation, any names callers make of
them, and any number of calls (`SelectNamesProofs`; assumption: what is given is a
reference of plain segments or an expression, with or without an alias, `IsGiven`):

* `NamesAllSurvive`: on every driver an engine reads in the SELECT list and FROM the
  names that were given, each for what it was given as and no others, if none of them
  is `Mistakable`. So the three exceptions of `NamesSurvive` are all there are,
  however long a name is.

The invariant of the builder is small (`Named`: the names in it are names somebody
gave); the proof is about texts. `State(text, d)` is where the engine's automaton
has come to behind a text; one character more is one step of it (`ReadsOn`). *Stands*
says that the text has been read as certain items and no name is open, which is what
makes texts that are read one by one be read one behind the other. By induction over
the name, what stands between quotes with each closing quote doubled is read as the
name (`QuotedReads`), for any name but on Oracle one with a quotation mark. On
the code's side `Split` undoes `JoinedBy` for segments without points
(`SplitJoined`), the first `<` and the last `>` of a value are those around its alias
(`ValueAliased`), and the first blank of a table is the one behind its reference
(`TableReads`) - each under the part of `~Mistakable` that it needs. `NameReads` and
`ListReads` put them together, behind any text read so far.

### What is only model-checked

* Liveness under fairness, which needs `ENABLED`: the run `pool_liveness`.
* The properties of `SelectQuery` other than `NamesSurvive`: they compare what is written with what recursive
  operators of an engine evaluate, and the provers cannot work with a module that
  declares one.
* The three runs that expect a violation, of course: `TouchedIsComplete` and its like
  do not hold.

## 5. What the models leave out

* The commit of DDL on Oracle, isolation between transactions, and a MySQL
  server that assigns `AUTO_INCREMENT` values other than in ascending order.
* `execute()` calls that insert rows whose key the caller sets himself.
* Empty groups: `openParenthesis()` and `closeParenthesis()` in a row render as
  `()`; `validate()` accepts it. `hollow` takes these out of the WHERE properties.
* Comparators on a reference an earlier `where()` returned: the next call may
  have moved the element (`src/query/qcsqlquery.cpp:148`, undefined behaviour);
  only the last is used.
* Free text with more `?` than values (a caller's error, documented), and on MSSQL
  `IS DISTINCT FROM` a subquery with parameters, whose placeholders are repeated and
  values are not (known to the comment at
  `src/query/qcsqlqueryelement.cpp:541`): `PlaceholdersMatch` excepts both.
* An `UPDATE` without `set()`: accepted, rendered as `UPDATE t SET `. Keywords are not modelled.
* Of the dialect: DISTINCT ON, GROUP BY, the types of CAST other than numbers, the components
  of dates, JSON value kinds, the numbers of `round()` and `substring()`, and functions
  whose names alone differ. NULL in `concat()`: PostgreSQL and MSSQL skip it, Oracle's
  `||` takes it for an empty text, on MySQL and SQLite the result is NULL.
* In names: a line break in an alias, and blanks other than the space.
* In values: how a numeral is spelled (the decimal point, `E` notation, Oracle's
  `NLS_NUMERIC_CHARACTERS`); on Oracle, text columns other than VARCHAR2 (a CLOB is read
  through its locator), and numbers beyond the width of what holds them.
* Free text that is not a condition by itself.
* The `*Named()` calls' maps from column names to values.
* Of the drivers: text of errors and connection strings; texts that are not
  UTF-8, of which `utf8ToUtf16()` makes characters unless the first byte tells
  (`src/query/qcdrivermssql.cpp:97`); columns of types other than integer,
  double, text and bytes, DECIMAL among them, which MSSQL and MySQL fetch as a
  double; a null bound as text for an MSSQL binary column.

What the models assume of code outside the repository: all five drivers are
compiled in; Oracle is 21c or later and MySQL 8.0.31 or later where EXCEPT and
INTERSECT are concerned; a client library's call that fails has allocated nothing
but what its documentation says it has. Whether MSSQL and Oracle would accept
parenthesised members, which the comment at `src/query/qcsqlquery.cpp:443` says
they do not, is not tested: the code does not write any for them.

## 6. What comes next

1. Proofs: invariants of the abstract specifications `PermitPool` and
   `AutocommitSession`; the engines' halves of `SelectQuery` as recursive functions, as
   `SqlCondition` has its parser and `SqlNames` its automaton, and what they make of the texts of the dialects.
2. `NamedResults`: column names to values, with duplicate names and fewer OUT binds
   than names.
3. A composition of `ConnectionPool` with sessions, so that the facade's `Acquire`
   is the pool's, and of `OracleSession` with `DriverOracle`.
