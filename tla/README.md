# mcp-airlock in TLA+

mcp-airlock is a proxy between an agent and an MCP server. A `tools/call` that
the policy calls dangerous is not forwarded: the proxy answers with a prompt
and a signed token, a human says yes (in the client, or on an approve page over
a link), and a retry that carries the token is forwarded, once, within the
limits of the principal's blast-radius window, and with a chained audit record
before and after. This directory holds models of that gate and of what it
stands on (the policy's decisions, the cached catalog, the window, the store's
connection pool, the audit trail), the checks TLC makes of them and the proofs
TLAPS checks.

## The system

| Component | State it keeps | Operations | What makes it correct |
|---|---|---|---|
| Confirmation gate, `app.py` `Airlock.handle`/`_call`, `verify_confirmation`, `approve_submit` | the signing secret, the engine (policy) of the process; per request only locals across awaits | receive, verify, catalog, evaluate, burn, charge, forward, reply, refund, notify, reload, restart; approve POST | a confirmation executes at most once, only what was shown and agreed to, never after a decline; where one side is `oob`, never without the link |
| Relay, `app.py` `handle`, `_passthrough`, `_filter_tools`, `_vet_tools`, `reload` | engine and pins of the process; per request what it took of them on arrival | arrive, reject, identify, decide, forward, answer, filter a listing, load | one load of policy and pins decides a request; one intent and one outcome per call, the intent before anything leaves |
| Catalog cache, `app.py` `_catalog_tools`, `_dry_run_property` | `tools/list` by protocol version, subject and groups, with an expiry | fetch page by page, merge, keep, prune, answer | nobody is told of a `dry_run` argument its own listing did not declare |
| Key table, `store.py` `consume_once`, `is_consumed`, `approve`, `is_approved` | `airlock_keys` rows (or two dicts) with an expiry | insert, upsert, read, purge of expired rows | a burn lasts as long as a token that carries the key verifies |
| Policy engine, `policy.py` | the policy file | tier, conditions on arguments, object count, `evaluate`, `reserve`, `refund` | what the upstream reads in the arguments is what was judged |
| Blast-radius window, `policy.py`, `store.py` `usage_*` | `airlock_usage` rows | check, charge under an advisory lock, refund as a negative row, purge | no `window_s` seconds hold more than `max_per_principal` objects; the sum is what the calls hold |
| `PostgresStore` pool | the pool, its connections, `_ready`, one timer per call, cancel requests | open, check, run, cut, DDL and second try, `aclose` | at most one effect per call; a cut connection is never used again; everything ends |
| Audit log, `audit.py` `AuditLog`; `audit_cli.py` `verify` | `audit.jsonl`, `.1`...`.keep`, `_last`, `_torn` | start, append, cut back, rotate, verify | the files up to `keep` are an append-only chain that forgets only its oldest end |
| Audit mirror, `audit.py` `PostgresAuditLog` | a queue, three counters, a connection, a table | `write_row`, the worker, `flush`, `close` | exact counters, bounded memory, order, a `close` that returns |
| Prompts, readiness, identity, guard, messages, policy CLI, telemetry, chart | a prompts table, a shared ping, or none | display, probes, pure functions | not modelled (last section) |

How they interact. One event loop per replica runs the requests; every `await`
(body, store, catalog, upstream) lets another request, or a SIGHUP, in.
Replicas share only the Postgres store and, when `AIRLOCK_SECRET` is set, the
signing secret. A request takes the engine and the pins when it arrives, calls
the store for the burn state and the approval, the cache or the upstream for
the catalog, the engine for the decision, the store for the burn and the
charge, the audit log for the intent, the upstream for the call, the audit log
for the outcome, in that order; the approve page is another request that writes
the row the retry reads. The audit log hands each row it wrote to the mirror,
whose worker is the only other thread besides the one that closes it.

What is hard: checks and uses separated by awaits (the expiry, the burn state,
the approval, the catalog); store calls cut at the deadline after the server
did the work; purges that delete the rows of every key; restarts that lose the
secret, the burns or both; replicas configured differently and reloaded while
requests are open; charges that reach the store out of the order of their
stamps; arguments that the upstream decodes once more; a log that can be cut at
any byte and between any two system calls; a shutdown against a database that
does not answer. `hazards` in `PROJECT.json` lists each at its line, with the
property that would catch it or the reason there is none.

## The modules

### The gate

`Gate` composes the gate, the decision of the engine, the key table and the
approve page, because the properties relate all four. A step is what runs
between two awaits. A request is one record `call[c]` that moves through `pc`:

| `Gate` | code |
|---|---|
| `Receive` (with `Entry`, `Verifies`, `Expired`, `Binding`, `Strict`) | `handle` up to the first await: the token's signature, expiry, binding and mode |
| `CheckConsumed`, `CheckApproved`, `ApprovalMode` | `verify_confirmation`'s two store reads and what follows from them |
| `Catalog`, `Evaluate` (with `Decide` of `TierRules`) | `_call`: the tool's catalog entry, `Engine.evaluate` |
| `Purge`/`Wins`/`Insert` | `consume_once`: DELETE of expired rows, then the atomic insert, two statements on an autocommit connection |
| `Reserve`, `Forward`, `Reply`, `Refund`, `Notify` | the rest of `_call`, each failure branch, the webhook |
| `Press`, `ClickConsumed`, `ClickApproved`, `ClickPurge`, `ClickApprove`, `ClickRecord` | `approve_submit` |
| `Reload`, `Restart`, `Tick` | SIGHUP, a crash or restart of a process, the clock |

A key is named by the request that issued it (the code draws a uuid4); a
principal, tool and arguments are one element of `Requests`; environment and
upstream are `Env`. `took`, `sent`, `charge` record what the store and the
upstream had from a request, whatever the request itself learned; `spent` is the
only history variable (the key was burned when the request came in).

* `TierRules` are the branches of `Engine.evaluate` that a tier selects, shared
  with `Relay`.
* `OneShot` is what a confirmation promises: offered, granted, claimed by one
  execution or declined, or over. `GateRefinement` maps `Gate` to it: a
  confirmation is claimed when a burn of it took, executed when the upstream
  was sent the call, over when the expiry passed or the secret is gone.
* `GateInvariant` has the two inductive invariants, `OnceInv` and `ConsentInv`;
  `GateProofs` proves, in three parts, type correctness, the first invariant with
  what follows from it, and the second with what follows from it and the
  refinement. `MCGate` gives `Gate` its instances.

### The relay

`Relay` (`MCRelay`, `RelayProofs`) is `handle` for every other request: what is
rejected at the door (`Arrive`, `Reject`, `Identify`), a call without a
confirmation (`Consult`, `Window`, `Reserve`, `ReplyCall`, `Notify`), a listing
with its allowlist and its pins (`ReplyList`, `Visible`, `Changed`, `Dropped`),
the failures of the upstream (`Unreachable`, `FailReply`) and `Reload`. A
request records the load it took on arrival, and (history) every load in effect
since. Writing the audit log may raise at any record, with different
consequences by place, so the operators of its second section (`Intent`,
`Ended`, `Denied`, `Refused`, `Raised`, `Bare`) return the set of states in
which the request may end up. `TierOf` is `Policy.tier`: a caller's own entry
before those of its groups, and none of a caller that is named like a group.

`Catalog` (`MCCatalog`, `CatalogProofs`) is where the `sup` of the other two
comes from: `Consult` looks for a fresh entry or starts a fetch, `ServePage` is
the upstream answering from what it declares at that moment, `NextPage`,
`LastPage` and `FailPage` are what the proxy makes of it, `Publish` a change of
the upstream's listing. Concurrent fetches of one key all write their result.

### The window and the arguments

`BlastWindow` (`MCBlastWindow`, `BlastProofs`): `Evaluate` (conditions, object
count, window check), `Stamp` (the clock read before the store is asked),
`Reserve` (one transaction), `Forward`, `Refund`. `Gate` and `Relay` know the
window only by its outcomes; this is where they come from. `PolicyRules` is
what `Evaluate` makes of the arguments: `args_violation`, `WhereRule.holds`,
`count_objects`, next to `Readings`, what the SDK of the upstream makes of the
same value. Data is typed and finite: a string is a word, one too long for the
patterns, the JSON of another value, or JSON that only a larger interpreter
decodes.

### The store's pool

`StorePool` (`PoolProofs`) is `PostgresStore._run` itself: `Start`/`Entered`
(`_conn` to its first await), `OpenPool`, `Opened`, `TakeConn`, `Checked`
(`_check`), `Ddl`, `DdlHeard`, `Op`, `Refused`, `Answer`, `Fail`, `Deadline`
(`_cut`), `Close` and `Drain` (`aclose`). The pool of psycopg_pool and the
server are external: `Offered`, `Discard`, `Break`, `DropTables`, `LateEffect`.
`StoreCall` is what it implements: a statement takes effect at most once, an
answer means it did, a refusal that it never will, a failure nothing. That is
where the `ok`, `down` and `lost` of `Gate` come from.

### The audit trail

* `AuditChain` (`ChainProofs`): a file is a sequence of pieces (record, fragment, newline), a
  hash names its record, so the chain is `prev` numbers. `Begin`, `EndTorn`,
  `Fits`/`Full`, `Rename`, `Unlink`, `Reopen`, `Write`, `CutBack` are the system
  calls of `_append` and `_rotate`, `Crash` happens between any two or inside
  the write, `Start` is `__init__`, possibly with a lower keep. `Verified` is
  `airlock-audit verify` over `default_files`, every file there is, whatever
  `keep` says: a line has a place, its file and its position there, `Before` is
  the order in which the walk meets places, and the k-th of `Records` is the
  line with k - 1 others before it. `Recent` are those of the files up to
  `keep`, `Surplus` those of the files that a larger keep has left above it;
  `split` (history) says that a rotation has dropped records below a file that
  is still there. `AuditLedger` is the abstract log: what is within the limit
  is append-only and forgets its oldest end, what a lowered limit cuts off is
  discarded from its newer end.
* `AuditMirror` (`MirrorProofs`): the event loop (`WriteRow`), the worker
  (`Get`, `Attempt`, `Retry`, `CaughtUp`, `Account`) and the closing thread
  (`Close`, `Flush`, `Drain`, `CutConn`, `PutStop`, `Join`); `DropTable` is the
  operator, and `Retry` makes the table again. A connection that is lost
  (`Lost`) leaves its INSERT undone, done, or under way at a backend that has
  not noticed (`store.py:118-120`): `adrift` holds the latter, by row and
  attempt, and `LateCommit` executes one, after whatever was written since. What
  happens under `self._lock` is one step.

Definitions marked *Variant* stand before the definition they vary: each is a
plausible mistake in that code, and the property it breaks is listed with it
under `mutants`. No specification uses them.

## The runs

| Run | Instance | Shows |
|---|---|---|
| `gate_race` | 3 requests, 1 click, `oob`, store `ok`/`down`/`lost`, clock 0..2 with a TTL of 1 | `TypeOK`, `ExecutedOnceWhileLive`, `DeclinedNeverRuns`, `PendingIsOpen`, `SpentIsNotApproved`, `NeverUnburned`, and `Gate` implements `OneShot` |
| `gate_deployments` | 3 replicas that differ in mode, environment and, by a reload, in policy; 2 requests of 2 kinds, 1 click, a store that may lose an answer, every outcome of catalog, window, upstream and audit | `StrictNeedsApproval`, `ConsentCoversExecution`, `ChargeCoversExecution`, and the invariant `ConsentInv` itself |
| `gate_restart` | memory store, random secret, 3 requests, 1 click, 1 restart at any moment | the invariant `OnceInv` itself, `EveryRequestAnswered` |
| `gate_once`, `gate_late_approval` | as `gate_race` | two sentences of the documentation the code does not keep (below) |
| `blast_window` | 3 calls, 2 principal/tool pairs, limits of 2, a window one short of the retention of 2 and one as long, clock 0..3, 24 sets of arguments, four `where` rules | `TypeOK`, `WindowHolds`, `WindowMatchesCharges`, `ReadAsJudged` |
| `catalog` | 2 calls, 2 callers that differ by a group, 2 listings, pages up to 2, TTL 1, fetches of up to 1, clock 0..3 | `TypeOK`, `DryRunWasDeclared` |
| `relay` | 2 requests, 2 callers (one named like a group), 3 loads of policy and pins, a store and an audit log that may fail | `TypeOK`, `OneLoad`, `OnePair`, `OnRecord` |
| `store_pool` | 2 calls, a pool of 2, the tables vanish once, any answer or none | `TypeOK`, `OnePool`, `CutIsOwn`, `Heals`, `EverythingEnds`, and `StorePool` implements `StoreCall` |
| `audit_chain` | 4 records, 2 crashes, a keep of 1 or 2, short writes, failing renames, unlinks and opens, files that cannot be cut | `TypeOK`, `VerifyPasses`, `RefusedNotRecorded`, `AuditChain` implements `AuditLedger` |
| `audit_keep` | 6 records, 1 crash, a keep of 3 lowered to 1 | a sentence of the documentation the code does not keep (below) |
| `audit_mirror` | 3 rows of size 1 or 4, a queue of 2 rows and 3 bytes, 2 INSERTs adrift at once | `TypeOK`, `CountersExact`, `MemoryBounded`, `LoneRowGetsIn`, `TableInOrder`, `NoRowForgotten`, `CloseReturns` |

Why the bounds are enough to be interesting. A confirmation needs one request to
issue it and two to compete for it, so 3 requests are the least with a race; the
clock must pass one expiry (`TTL` 1, `MaxTime` 2) for purges to delete a burn
and for slow requests to outlive their token. `gate_deployments` asks what one
retry may carry from one replica to another, for which 2 requests are enough,
and leaves the clock and the third request to `gate_race`. With 3 calls a window
of limit 2 is filled, refused and refunded, and clock values up to 3 let rows
leave the window and the retention. The arguments are those the proxy and the
upstream read differently (a list as a string, an undecodable string, `0`,
`False`, `"0"`, a missing value, a string too long for a pattern) and two that
pass, one of which carries `"0"` past a deny list of two kinds; that a charge of
nothing changes nothing is left to the proof. `catalog`
needs two callers that share a version and a subject, and two pages, for one
fetch to read two listings. Three loads let a request live through two reloads,
one of which takes the tool off the list and one of which changes its pin. Two
rotated files and 4 records give rotations that delete; two crashes let a
recovery be interrupted or be followed by another; `audit_keep` needs three
rotated files for a gap below an older one. In `audit_mirror` the size 4 is
over the cap of 3 bytes all by itself and the size 1 is not, so that the caps are
reached by bytes and by count; 3 rows fill the queue behind a record in flight;
with 2 INSERTs adrift one attempt can overtake another. Two store calls are
enough for the races of `store_pool` (two openers,
one call's connection in another's hands, one call's `_ready` under another's
retry), and a pool of two lets both work at once.

`CHECK_DEADLOCK FALSE` is set everywhere because the bounds end every
behaviour: requests, records and rows run out.

Symmetry is used on requests and calls, which no formula names, and only in
runs whose properties are invariants or step properties without fairness; so
not in `gate_restart`, `audit_mirror` and `store_pool`.

### Fairness

`gate_restart` (`LiveSpec`) assumes weak fairness of each request's and each
click's next step: a store call ends at its deadline, an upstream call at the
HTTP timeout, and everything else is the event loop. Nothing is assumed of
clients, the approver, the clock or restarts. `audit_mirror` assumes weak
fairness of the closing thread only: it waits with deadlines, except in
`put(None)`, which is guarded by room in the queue; the worker, which may wait
on a frozen database for ever, has none, and neither has the event loop.
`store_pool` assumes nothing of the server: only the loop's own steps, the
deadline of a call (weak) and the pool's timeout, which runs over the whole
wait and so is strong: a wait that is interrupted by checks that fail still
ends. The other specifications state none.

## What is proved

Every theorem is for any sets of requests, calls, clicks, replicas, callers,
connections and values, and any bounds, that the assumptions in the modules
admit. The assumptions on constants are read off the start-up code or the types
of the configuration: `oob` needs a webhook; the memory store belongs to one
process and goes with a random secret; a window is no longer than the retention.

| Module | Theorems |
|---|---|
| `GateProofs` | `TypeCorrect`; `OnceInvariant`, `OneExecution`, `DeclineHolds`, `PendingHolds`, `BurnsLast`; `ConsentInvariant`, `ApprovalNeeded`, `ConsentCovers`, `ChargeCovers`, `SpentStays`, `OneShotHolds` (the refinement) |
| `RelayProofs` | `TypeCorrect`, `LoadIsOne`, `PairIsOne`, `AllOnRecord`, `GroupNameIsNoGroup` |
| `CatalogProofs` | `TypeCorrect`, `DryRunDeclared` |
| `BlastProofs` | `TypeCorrect`, `JudgedAsRead`, `ReadAsWritten`, `CountOfReadings`, `ChargesMatch`, `WindowNeverExceeded` |
| `PoolProofs` | `TypeCorrect`, `OnlyPool`, `CutStaysOwn`, `TablesHeal`, `Implements` (the refinement) |
| `MirrorProofs` | `FileOrder`, `NoneForgotten`, `TypeCorrect`, `CountsAreExact`, `MemoryIsBounded`, `LoneRowsGetIn` |
| `ChainProofs` | `FormInvariant`, `TypeCorrect`, `Implements` (the refinement), `AlwaysVerifies`, `RefusedStaysOut` |
| `Sums` | lemmas only: the laws of sums that `BlastProofs` and `MirrorProofs` cite |

**One execution.** `ExecutedOnceWhileLive` is not inductive: it says nothing of
the requests that are between the burn and the send, or of how long a burn is
kept. `OnceInv` adds exactly that, in named parts. `RecordInv` orders the steps
of one request (nothing is sent before the burn; a decline is said after it).
`PromptLast` fixes the expiry of an issued token. `CarriesLive` says that a
request under way holds a token whose secret is alive, which is what makes a
restart harmless. `BurnKept` says that a burn that took is still in the table
unless its token expired or died: it is the part purges, crashes and lost
answers could break, and the reason the purge must compare the same expiry the
token carries. `BurnedOnce` then says that two requests can have won the burn of
one key only across its expiry, since the insert wins only where no row is.
`SpentKept` and `SpentSeen` carry the history of a burned key to the two store
reads. The restart is the case that needs the deployment assumption.

**Consent and charge.** `ConsentInv` follows one confirmation from the prompt to
the send. `Shown` and `Asked` say that the key of a retry is another request's,
whose prompt was answered to the client after a decision to ask; `Bound` that
retry and prompt agree in principal, tool, arguments, environment and upstream;
`Agreed` that an accepted retry has an approval over the link or, where neither
side is strict, the client's own yes; the fourth part that every approved row
was pressed by somebody. `Held` says that what counts leaves only while its charge is held,
and that a returned charge belongs to a request that never sent. `ClickLive` and
`ClickPast` are the same for the approve page, with the burn it must find.

**The refinements.** `OneShotHolds` does not map step by step. It names what of
the gate the map reads (`Issued`, `Over`, `Runs`, `Claims`, `Takes`), shows for
each action which of them it may change, and three lemmas (`NoMove`, `OneMove`,
`OneYes`) turn such a change into a step of `OneShot` or none: a prompt offers,
an accept or a POST grants, a burn claims or declines, a send executes, the
clock and a restart end. It rests on both invariants. `Implements` of
`PoolProofs` rests on `Progress`: how far a statement has come follows from the
`pc` of its call, so that only one try can ever take effect.

**The pool.** The invariant says who holds what: a working call has one busy
connection (`Holding`), nobody else's (`Exclusive`), a cut socket is in the
hands of the call whose deadline cut it (`CutHeld`), the pools that live are the
one in use and the one being opened (`PoolHeld`), and while nothing disturbs a
call, the tables it made are there in its second try (`Undisturbed`).

**The relay and the catalog.** Requests of `Relay` meet only in what they take
on arrival, so its invariant is about one request record: for each `pc` what its
log, its load and its answer are. `CatalogProofs`: what a fetch has read was
declared after it began (`FetchOK`), an entry is not older than a TTL and a
fetch (`EntryOK`), and a key identifies its caller.

**Arguments.** The two operator lemmas say that an argument a condition holds of
is read by the upstream as sent, and that a count is the count of every reading.
`JudgedAsRead` adds that what is sent was judged, for every condition that
`WhereRule` accepts. Of a deny list it says that no element sent is on it and,
where the list is of one kind (`OneKind`), that none is on it as a number
either; without that the second part is false (see the corners).

**The window.** `WindowMatchesCharges` speaks of a sum over rows, `WindowHolds`
of a sum over calls. `WInv` joins them: a call has written its charge and, once
refunded, the refund with the same stamp (`Written`), and those rows are in the
table all together unless they are older than the retention (`InTable`), where
lost answers make no difference since `charge` is what the store did. So the
row sum is that of the calls whose stamp is in the window (`UsageByCall`). A new
charge is then judged against every earlier one it shares a stretch of `Span`
with, whatever the order of stamps: none is stamped later than `now`, none of
them can have been purged by a commit with a later stamp (`Patience`, and `Span`
at most the retention less it), and the committed sum plus its own size is
within the limit. Every stretch whose charges do not include the new one is as
before, and a refund only takes away.

**The mirror.** Rows are queued in the order of their numbers with the sentinel
last (`Queued`), a row without an end is queued or in the worker's hand
(`Accounted`), and what is in the table or adrift came before both (`Ordered`),
so that an INSERT in its turn finds nothing later in the table and only one that
comes late may stand behind. The
counters are then those of the set of records queued or in hand (`Held`): a row
let in enlarges it by one, `Account` and the drain of `close` take one out, every
other step moves records within it (`Counters`), and no record is in two places
because the numbers are ascending. `LoneRowsGetIn` follows: with nothing in
`Held` the bytes are 0 and the queue is empty, whatever was drained or counted
on the way.

**Sums.** A sum is a fold, a function defined by recursion over subsets. `Sums`
proves that this recursion has a solution and the laws that follow: a term taken
out or put in, a set split in two, a grouping, a renaming of the terms. Where an
induction over finite sets is called for, the proof takes a smallest subset for
which the law fails and refutes it, so that no operator has to be passed to a
library theorem.

**The audit log.** The records of the log are read off several files, which are
renamed under the walk. Part one of `ChainProofs` orders any finite set of
places by the walk and shows that such an order has one enumeration by rank,
that dropping what comes first leaves a suffix, and that a place after all others
is one more at the end. `Form` describes the files: each is lines with their
newlines (`Shapes`); only the live one may lack its last newline, which `_torn`
says (`Tidy`); an open log has its live file, and a closed one, in a rotation or
after an open that failed, has none or one that is not empty (`Opened`); the
slot a rename fills is the last one or free (`Making`). With it each step does one of
three things to the records up to `keep`: it leaves them (a newline, a rename
that fills a free slot, a cut of what was no record yet), adds one at the end (a
write, whole or short of its newline only, that is kept), or leaves a suffix (a
rename onto the last slot, a start under a lower keep). Those above change in
two ways: a start moves records to them, an unlink takes their last ones. That
is `Implements`.
`Sealed` adds the content. `Numbered`: refused records are of the past, and a
short write is that of the record in hand. `Clean`: the only fragment is the one
about to be cut. `Counted`: a record in the log is neither refused nor the one
being appended. `Linked`: every `prev` up to `keep` is the record before, and the
process knows the last record. `Joined` is the same of all files while `split`
is false. Only a line that could not be cut (`uncut`) may break the
second and third, and only that or a start that saw no file (`astray`) the
last two; the theorems are about the other behaviours, as the properties are.

What is only model-checked: the liveness properties (`EveryRequestAnswered`,
`CloseReturns`, `EverythingEnds`), which need fairness and `ENABLED`, out of the
prover's reach; and the three sentences of the next section, which do not hold.
Every other property of the runs that TLC finds true is a theorem here.

## Where the code and its documentation differ

1. `gate_once`. The expiry of a token is looked at once (`app.py:327`), several
   awaits before the burn, and the burn first deletes expired rows
   (`store.py:265`). Two requests verified in time, one of which burns before
   and one after the expiry, both execute. What does hold is
   `ExecutedOnceWhileLive`.
2. `gate_late_approval`. An approve POST that looked at the state before a burn
   writes its approval after it (`app.py:921`); nothing executes, but the audit
   has a misleading approval. A POST that arrives after the burn is refused:
   `SpentIsNotApproved`.
3. `audit_keep`. The README says that lowering `--audit-keep` deletes the files
   above the limit at the next rotation. `_rotate` unlinks upward from the limit
   and stops at the first number that does not exist (`audit.py:289`): behind a
   gap, left by a crash between two unlinks or by a failed rename, older files
   stay for good, and `verify` then reports a mismatch in an intact log.
   The mismatch is there in every rotation under a lowered keep, for as long as
   it takes: the rename onto `.keep` drops records before the files above, which
   are older, are unlinked (`audit.py:285-292`), and a crash between the two
   leaves it until a later rotation deletes them. `VerifyPasses` says how far it
   goes: the files up to `keep` verify all the while, and all files do except
   from that rename to the last unlink (`split`).

Corners the models have met that no run reports as a violation:

* An approve POST may be answered 503 because the store's answer was lost, and
  the approval is recorded all the same (`app.py:923`). It is an outcome of
  `ClickApprove` in every run with `lost`.
* `window_s` may be as long as the retention of usage rows (`policy.py:60`). A
  charge that waits in the pool then sums rows that another call's purge, with
  a later stamp, has deleted. `WindowHolds` is therefore about `Span`, the
  window or the retention less that wait, whichever is shorter; a window as
  long as the retention holds for that much less.
* A deny list of mixed kinds lets more through than each of its values alone:
  `not_in` of `0` and `"x"` accepts the string `"0"`, which a numeric parameter
  reads as `0` (`policy.py:119`); the one matcher per rule of `policy.py:75-88`
  does not forbid such a list. `blast_window` has one, and `ReadAsJudged` says
  for which lists the reading as a number is covered.
* The age of a cached listing is counted from the arrival of its last page, with
  that page's TTL (`app.py:669-671`), so an entry may be older by the length of its
  fetch: `Slow` in `DeclaredLately`. Of two fetches at once the one that ends
  last stays, the older listing included.
* A tool hidden by its pin is hidden in the listing; a call to it is decided by
  the policy alone.
* A short write that left a whole record without its newline, in a file that
  would not shrink, is followed by a record whose `prev` is the one before
  (`audit.py:262-279`): verify reports `prev mismatch` there, and not the torn
  line. `VerifyPasses` is about files that can be cut (`~uncut`).
* A failing open after a rotation (`audit.py:294`) leaves the sink closed, and
  the next start, if it can read neither the live file nor `.1`, begins a new
  chain: `astray`.
* A row is written to the table twice when the connection drops after the
  commit and the retry succeeds (`audit.py:395-396`); and if the server commits
  it only after rows written over the next connection, one copy stands behind
  them. `TableInOrder` excepts exactly the rows that came that late.
* `verify` opens its files one after the other (`audit_cli.py:152`), and a
  rotation between two opens makes it skip a file and report a mismatch on an
  intact log. `VerifyPasses` looks at all files at one instant, which may be
  any instant of a rotation.
* A store call can answer that the tables are missing although they were made
  again: the call that made them sets `_ready` after another found them gone
  (`store.py:225`, `store.py:237`). `Heals` is about a call nothing disturbs.
* A retry is decided by the policy it came in under, and the prompt by that of
  its own arrival; a reload in between may give the tool another tier. The
  confirmation is used only where the retry's own policy asks for one.

## What is not modelled

* Prompts (`save_prompt`, `get_prompt`), the GET of the approve page and the
  wording of replies, messages and webhooks: they are shown to a human and
  change no state that a request reads. What the prompt of a key was issued for
  is the record of the request that issued it, to which `ConsentCoversExecution`
  holds the execution. The scan of results for
  suspicious text (guard) marks and never blocks. Identity: the principal, or
  the refusal of the token, is an input.
* Readiness: no other part reads what a probe learns, and its shared ping is one
  more call of `StorePool` (`store.py:254-261`), so that it ends is
  `EverythingEnds`. Postgres settings, policy CLI, telemetry, chart, e2e and
  examples: no state, or none the others read.
* In `Gate`: clock skew between replicas (one clock), tables that are recreated
  empty while the proxy runs, and a statement executed after the proxy gave it
  up (`LateEffect` of `StorePool`): its effect comes with the failure or not at
  all. The store of `gate_restart` may be `down`, which the memory store never
  is: the run is wider than the code.
* In `Relay`: one tool; a request shares engine and pins with the others and
  nothing else; a policy file that was half written when it was loaded, and is
  valid, is a load like any other.
* In `StorePool`: the pool's background workers (a new connection is configured
  by the call that takes it), a DDL executed after its cut, the size of the pool
  while connections close, the length of the deadlines.
* In `BlastWindow`: the tool's policy does not change while calls run; `Tick` is
  held back while a charge has waited `Patience`, the bound that the pool wait
  and the deadline of a call give.
* In `AuditChain`: a walk of `verify` that is spread over several instants, a
  second process on the same file (the deployment forbids it), a keep raised
  between starts, log lines from before the chain, records
  that hash to the same value.
* In `AuditMirror`: `flush` called by anyone but `close`, the time the
  deadlines take, and an INSERT adrift that meets a table dropped and made again
  is executed in the new one or never.

## Plan

Done: the gate with its one-shot refinement and both invariants, the relay, the
catalog, the window with the arguments it judges, the pool over `StoreCall`, the
chain over `AuditLedger`, the mirror. Left, in order:

1. `Gate` with late effects: a burn or an approval executed after its 503, and
   the proofs carried over (`BurnKept` and `OverLink` then speak of a statement
   that is still adrift, as `Progress` of `PoolProofs` does).
2. Prompts and the GET of the approve page: that the page shows the prompt of
   the key it approves, across replicas and expiries.
3. Readiness: the ping shared by probes that arrive at once, cut off by a
   shutdown.
4. Proofs: the step that `VerifyPasses` leaves out, a line that could not be
   cut (`uncut`), as a property of its own: that verify then stops at that line
   or the one after it, and that what comes later is chained again.
5. The functional half of liveness: for each `pc`, the state predicate under
   which the next step of `LiveSpec` is possible, as an invariant, so that what
   stays with TLC is only that fair steps are taken.
