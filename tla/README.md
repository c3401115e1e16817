# Verification of the ad server

TLA+ modules of the ad server and its clients, the TLC runs that check them on
small instances, and theorems about them with machine-checked proofs. Paths are
relative to the repository's `src/`. `PROJECT.json` lists components, runs,
mutants, the lines each definition stands for, findings, hazards and theorems.

## 1. The system

The server is one Go process. Each HTTP request runs in its own goroutine and
shares with the others the in-memory registry and budget tracker, each behind
its own lock, and one SQLite database (one statement at a time unless a
transaction is opened). A second process, the enclave, runs auctions on sealed
requests. Clients are publishers' pages, through an SDK that keeps a cache, a
key and timers of its own, and advertisers, publishers and administrators,
through the portal, a React application whose pages show what the last answer
said.

| component (code) | state | operations | interacts with |
|---|---|---|---|
| settlement (`handler/events.go`) | `settleMu`; tables `auctions`, `events` | click (POST, redirect) | tracker, registry |
| budget tracker (`platform/billing.go`) | budgets, spent by id; columns `budget_total`, `budget_spent` | Set, CanAfford, Charge, Delete, SetDB | settlement, auctions, advertiser API |
| auctions (`platform/engine.go`, `auction/`) | none between requests; writes `auctions` | RunORTBAuction and what it calls | registry, tracker |
| registry (`platform/registry.go`) | positions, next id, cached version; table `advertisers` | Register, group registration with rollback, Update, Delete, EmbeddingsVersion, SetDB | embedder, tracker, auctions |
| embedding sync (`handler/publisher.go`, `sdk-web/src/embedding-cache.ts`) | client: embeddings and ETag | GET /embeddings, `sync()` | registry |
| impressions (`handler/events.go`, `platform/db.go`) | table `frequency_caps` | check, log, increment | SDK event tracker |
| viewability (`sdk-web/src/viewability.ts`) | timer, observer | callback, timeout, cleanup | browser, event tracker |
| private auction (`tee/`, `enclave/`, `sdk-web/src/tee.ts`) | stores and key of the enclave, cached attestation, key of each page | push positions and budgets (5 s), refresh key (60 s), seal, open, auction | registry, tracker |
| demo page (`demo/src`) | messages, intent, brightness, ad, flags | send, load, reset, process, request, click, switch theme | SDK |
| portal (`portal/src`) | what each page shows, tokens in the browser's storage | save, edit, add, delete, filter, turn pages, log in and out | handlers of the portal |
| trust ledger (`trust/`) | attestations, edges, log | record, confirm, revoke | mail intake |
| accounts (`handler/publisher.go`) | publishers, credentials, tokens | create, log in | portal |

**Hard behaviours**

- *Two copies.* Tracker and registry decide in memory and persist one statement
  at a time; a statement may fail and the process may stop between any two. The
  enclave has a third copy, some seconds old; a page of the portal a fourth.
- *Several steps per request.* Only `settleClick` is one critical section. An
  update reads, embeds and stores under separate holds of a lock; a deletion
  leaves the memory at once and the table row by row; an impression is checked,
  logged and counted in three statements.
- *Decide now, act later.* Budgets are checked when an auction runs and charged
  when somebody clicks, hours and restarts later.
- *Answers out of order.* The cache, the demo and every page of the portal send
  requests that overlap, and show what arrives last.
- *Messages repeated and overtaking.* The trust ledger is written by mail, which
  comes late, twice or before what it answers, in transactions of several
  statements that read first and write by id.
- *Storage shared by tabs.* A publisher's token and the admin's password are read
  again at every render and every request.
- *Pricing.* Second prices with two kinds of positions, keyword groups that are
  one bidder, floors, ties, and several query points in one request.

**What makes each component correct** is stated as its properties: see the runs.

## 2. Modules

| module | models | composed in |
|---|---|---|
| `IdealBilling` | what billing promises: accounts, and a click that settles an auction in one step | refined by `Settlement` |
| `Settlement` | clicks, tracker and table, with registration, update, deletion, log reset and crash as far as they touch budgets | |
| `Auction` | one auction: floor, groups, ranking with ties, loop over query points, payment | |
| `Registry` | positions in memory and table, group registration with rollback, update, deletion, version, crash | `EmbeddingSync` |
| `EmbeddingSync` | `GET /embeddings` and the client cache | extends `Registry` |
| `Viewability`, `FrequencyCap` | the observer of one ad; impressions of one user and advertiser | `MCReports` |
| `TrustGraph` | what the trust exchange promises: attestations made, confirmed, revoked in one step, and the edges of those that stand | refined by `TrustLedger` |
| `TrustLedger` | the ledger's transactions statement by statement, with the mail and requests that start them | `MCReports` |
| `PrivateAd` | proxy, enclave, pages that seal | |
| `DemoPage` | the demo application | |
| `ProfilePage`, `CreativesPage`, `ConsoleList`, `PublisherSession`, `AdminSession` | a page of the portal each, with its handlers | `MCPortal` |
| `Accounts` | the creation of publishers, their tokens and credentials | `MCPortal` |
| `..._proofs` | theorems, by component (`Impressions`: `Viewability` and `FrequencyCap`; `Registry`: with `EmbeddingSync`; `Portal`: its pages and `Accounts`) | the modules they extend |
| `MC...` | constants, symmetry, composition for TLC | the modules they name |

**State and actions against the code.** A variable has the name of the field,
column, hook or local it stands for; locals of a request are functions of it
(`pc[h]`, `step[c]`, `call[f]` is where it is). An action is what one request
does under one hold of a lock, in one statement, or up to its next `await`; where
two actions follow each other, others may run in between.

- *Settlement.* `ClickArrives` is the handler up to `settleClick`; `LockSettle`,
  `CheckFirstClick`, `ReadPayment`, `ResolveKey`, `Charge`/`ChargeFails` and
  `LogClick` are `settleClick` line by line. `Charge` holds the tracker's lock
  over the row's statement in the code, so both are one action; it keeps the
  three ways the row may answer: debited, "cannot pay" (whose boolean is
  dropped), failed (rolled back). `RegisterRows` joins registry and row, since
  nobody can bill the new ids before `Budgets.Set`; the step by step version is
  in `Registry`. `WinAuction`/`RecordAuction` leave open who wins among those
  who can afford the payment: who does is the subject of `Auction`.
- *Auction.* Prices and scores are logarithms to base `LogBase`: the score
  `log_B(p) - d²/σ²` is a difference, the payment `B^(termW-termR)·p` a sum, and
  every comparison has the result it has in the code up to rounding. `AuctionAt`
  is one iteration of the loop of `RunORTBAuction`, whose call of `RunAuction`
  is `Eligible` (floor), `Collapsed` (one bid per bidder) and `Ranked` (ranking,
  shuffled ties). A currency or `tau` filter only makes `bids` smaller, and
  `bids` is any set.
- *Registry.* `Enter` is `Register` after the embedder has answered. `Keyword`,
  `Adopt`, `MemberRow`, `RollbackMemory`, `RollbackRow` follow
  `RegisterKeywordGroupWithBudget`; the price history's failure shows as a row
  that may or may not be there (`MemberRowFails`). A version is what it is the
  hash of.
- *EmbeddingSync.* `ServeVersion` and `ServeBody` are the two reads of
  `HandleEmbeddings`; `Send`, `Receive`, `Lose` one call of `sync()`.
- *Viewability.* `Callback` is the observer's callback, given a batch of entries
  by an external browser (`Scroll`, which may deliver an entry after
  `disconnect`); `Timeout` the one-second timer, `Tick` the clock, `Cleanup` the
  function that `observeViewability` returns.
- *FrequencyCap.* `Report` and `Answered` are `reportImpression`; `UnderCap`,
  `LogImpression`, `ReadWindow` and `WriteCount` the statements of
  `HandleImpression`, the first two answering 500 when they fail; `WindowEnds` the
  passing of the window. After the impression is logged errors are dropped: a read
  of the row that fails leaves a zero `windowStart`, so the row is replaced by a
  count of 1 and a new window (`ReadWindow`, `db.go:668-678`); a write that fails is
  one count less (`CountFails`).
- *PrivateAd.* `ReadPositions`/`SendPositions`, `ReadBudgets`/`SendBudgets` and
  `Refresh` are the two tickers of `TEEProxy`; `EnclaveStops` and `EnclaveStarts`
  lose stores and key, `HostRestarts` the cached attestation. A request seals in
  the page (`Seal`), is opened (`Open`), reads the stores one bidder at a time
  (`ReadBudget`) and is answered (`Decide`). `Change` is what the registry and
  the tracker may do to positions and budgets meanwhile. `ReadBudgets` is one read,
  where the code takes the tracker's lock once for each key: what is pushed was
  right at some moment since the push before in either case, which is what the
  properties ask of it. Who wins among the bidders is left open.
- *DemoPage.* One action per handler and per `await` of `App.tsx`, `useChat.ts`
  and `useProximity.ts`; up to `Slots` calls of `processMessages` are under way. An
  auction keeps the publisher whose SDK sent it from the click on the dot
  (`ClickDot`), and its answer shows an ad of that publisher (`Answered`), unless the
  theme was switched, which unmounts the page that would show it (`Remount`).
- *Portal.* `ProfilePage`: `PutName` and `PutBudget` are the two changes of
  `handlePortalMeUpdate` (registry, tracker), `GetName` and `GetInfo` the two reads of
  `handlePortalMeGet`; saves of one page overlap, and clicks are settled in between.
  `CreativesPage`: a request (`Begin`), its service (`Serve`), its answer, the read of
  the list and what is shown; the page's first reading of the list (`FirstLoad`) is
  under way from the start. `ConsoleList` stands for every filtered and paged list:
  `Logged` adds rows, `ResetStats` is `DELETE /stats`. `ShowsStoredProfile`,
  `ListIsTable` and `ShowsWhatIsSet` compare page and server. Two tabs share
  `localStorage` in `PublisherSession` and `AdminSession`.
- *TrustLedger.* `Receive` is a mail or a `POST /trust/attest`; `Load`, `Insert`,
  `Update`, `DeleteEdges`, `LogAction`, `InsertEdge`, `InsertEdgeBack` and `Commit`
  are the statements of `RecordAttestation`, `ConfirmAttestation` and
  `RevokeAttestation`, and `Fail` the deferred `Rollback` after any of them, which a
  crash amounts to as well. What a transaction writes is a draft until `Commit`.
  SQLite is external: a transaction reads a snapshot, and its first write needs
  the only write lock and a snapshot that is still current (`CanWrite`).
- *Accounts.* Each statement of `HandleRegisterPublisher` and
  `HandleCreatePublisherWithCredentials` is an action, and `CreationFails` may end
  a creation before any of them. `LoginAnswer` is what a login would be given.

A history variable is there for a property only, such as `billed`, `known`, `past`,
`seen`, `viewed`, `created`. In the pages histories say what may have gone wrong with
the order of answers, and no more: `overtaken` (an older call answered after the newest
was over), `late` (an older request answered after the newest, or the newest failed),
`behind` and `missed` (an older reading shown after a later one, or a request that
failed after it had changed something), `blurred` (a tab's token changed while it awaited
answers, or one of them failed). A mere overlap of requests is no exception to any
property.

## 3. Runs

| run | question | result |
|---|---|---|
| `settle_faults` | clicks while every statement may fail and the server may crash: does the cache stay the table, do charges survive, is there no charge after a logged click, is every request answered? | holds |
| `settle_lifecycle` | clicks with registrations, deletions, groups and log resets: is settlement `IdealBilling`, is each auction charged once and to its winner's budget, is no click refused or free without reason? | holds |
| `double_charge` | is an auction charged at most once if the click log may fail? | violated |
| `lost_charge` | is a charge the tracker accepts in the table after a budget update? | violated |
| `auction` | two points, a group and a rival, all prices, distances and floors: winner and price | holds |
| `registry_sync` | groups, deletions, a failing embedder, a cache that keeps syncing: whole groups, memory and table in agreement, the cache catches up | holds |
| `sync_races` | updates, deletions, failing statements, restarts, overlapping syncs: is the version current, are answered registrations durable, does a 304 confirm a stale cache? | holds, except when the registry returns to an earlier content |
| `reports` | an ad scrolls, its timer races with callback and cleanup; impressions of a user are reported two at a time; attestations are made, confirmed and revoked two messages at a time, in any order and again: is an ad reported truly and in time; by how much is the cap overshot, also when its statements fail; is the ledger `TrustGraph`, and does its log tell the status of each attestation? | holds |
| `private_ad` | pushes, changes, lost messages, restarts and a request: is a winner one that was good since the last push, when does a key fail, does the enclave converge? | holds |
| `demo_page` | chat, conversations, dot, auctions and themes with answers in any order: is the dot that of the conversation, is a click credited to the asker, is nothing disabled for ever? | holds |
| `plain_request` | does the server take the request that the SDK's `requestAd` sends? | violated |
| `portal` | each page with two requests, or two tabs, at a time: does it show what the server has, of one account, when nothing is awaited? Two accounts created at a time, any statement failing: do those answered for work? | holds, except when answers come in the wrong order or fail half way, which its histories tell |

**The violated runs** each start from a sentence of the code or its docs:

- `double_charge` (`handler/events.go:33`): charge, then log. A failed log answers
  500 and keeps the charge, and the next click charges again.
- `lost_charge` (`platform/billing.go:96`): `db.Charge` answers `(false, nil)`
  when the row cannot pay and `BudgetTracker.Charge` looks at the error only.
  `Budgets.Set` clears `spent` in memory and `UpdateBudget` keeps the column, so
  after any budget update the two may differ.
- `plain_request` (`handler/tee_handler.go:57`): `POST /ad-request` wants a sealed
  embedding; `requestAd`, documented as "intent + tau", gets 400. In `demo_page`
  the constant `PrivateOnly` is FALSE: the page against an exchange that takes
  its request.

**Known limits without a run**, each met while modelling:

- an id freed by a deletion is given out again after a restart
  (`platform/db.go:550`), and clicks on the old winner's auctions charge the new
  one. `ChargedToWinnersBudget` holds over restarts too, because it is about the
  budget an id spends from; nothing in the tables tells the two owners of the id apart;
- an error of a query in `settleClick` skips the charge but not the log
  (`handler/events.go:31`): `ClickedWasBilled` fails with fault `"read"`;
- an update stores a position without looking whether it is still there
  (`platform/registry.go:290`): `NoOrphans` fails with `"update"`;
- a client that names a keyword it listed before its group was answered
  (operation `"early"`): the member is put back without invalidating the version
  (`registry.go:202`), and `VersionCurrent` fails;
- a position whose row cannot be inserted stays in memory (`registry.go:139`), and a
  deletion cut off or failing half way comes back at the next start (`:350`):
  `MemoryMatchesTable` is checked without failing statements, `NoOrphans` without a
  crash;
- the rollback drops the error of its deletion (`registry.go:182`): `AllOrNothing`
  fails with fault `"persist"`;
- `FreshUnlessReverted` needs its last disjunct: the tag is read before the list
  (`handler/publisher.go:193`), so a cache may hold an old tag with a newer body,
  and if the registry returns to the content of that tag it gets 304;
- with several query points the winner pays its critical value at the point it
  won, not that of the request (`platform/engine.go:269`); with one point the two
  are the same (theorem `CriticalValueTheorem`);
- a callback given two entries believes the older (`viewability.ts:35`):
  `ReportedWasViewed` fails with `MaxBatch = 2`;
- with n impressions at a time the cap is overshot, `Overshoot` says by how much;
- a page keeps the enclave's key for its life (`client.ts:120`) and fails for ever
  after a restart;
- each failing read of the cap's row starts the count anew (`db.go:668`): `Overshoot`
  says what it lets through;
- a second prebuilt conversation of the demo is no longer than the first and is
  not processed (`App.tsx:24`): the dot of the first stays. `DotIsOfConversation` is
  about the conversation processed last;
- the pager goes by the total on the screen (`Pagination.tsx`): after `DELETE /stats`,
  or while an answer for another filter is awaited, Next and Prev may lead to a page
  without rows, which has no pager to leave it by;
- answers of the portal that come in the wrong order leave the older one on the
  screen (`AuctionLog.tsx:17`, `Dashboard.tsx:107` and `:258`);
- a save that tops up a budget replaces the total (`handler/portal.go:114`).

**Bounds.** Every bound is a CONSTANT named in its module.

- *Settlement*: two requests, because each race above is between two; two
  auctions, so that one budget can be asked for twice; three ids, so that a group
  of two and another advertiser exist together; one budget update; totals of 2
  with payments of 0 to 2, so that budgets are just enough, spent and exceeded.
- *Auction*: two keywords of one group and one intent position of another bidder
  over two points, prices 0..2, distances 0 and 1, floors 0 and 1: ties, a floor
  that excludes, a rival at another point and a group against itself all occur.
- *Registry*: two writers. `registry_sync` has groups of two with three writes,
  `sync_races` groups of one (the group protocol with its rollback, whose members
  are in the other run) with two writes and two syncs. With groups of two in
  `sync_races` as well, 2.8 million states, the properties hold too; that check
  takes more than five minutes and is not in the list.
- *Reports*: a second of three ticks and four scrolls, so that an ad leaves and
  returns at each moment of the timer; two callers, a cap of 2, one failing read and
  one failing write of a count in a window, so that both happen to one count. Two messages at a time, because each conflict in the ledger is
  between two; four attestations of two ids and three addresses, so that an id is
  claimed twice and one attestation is by a subject about itself. The number of
  messages is not bounded: an id can be revoked only once, and so the log is.
- *PrivateAd*: two positions that spend one budget, two
  lives of the enclave, two changes, one lost message, one request. With two
  requests (2.1 million states) the properties hold too.
- *Demo*: two topics, conversations of two messages, four messages, two calls of
  `processMessages` at a time. *Portal*: two requests or tabs, two publishers, two
  rows with pages of one, two password rotations, three changes of profile or
  creatives: enough for any two answers to come in either order, for two saves that
  each change name and budget to mix, and for a page to be left empty. *Accounts*: two creations
  at a time, two emails, three ids, so that one may fail half way and two succeed.

**Symmetry** permutes requests, writers or calls of `sync`, only in runs without
liveness properties.

**Deadlock.** `CHECK_DEADLOCK FALSE` is in configurations where a behaviour may
come to rest: an auction ends; registrations, updates and auctions are bounded,
and everything registered may have been deleted; a page awaits its reader.
`double_charge` and `lost_charge` check it.

**Fairness.**

- `FairSpec` of `Settlement`: a goroutine that can take its next step takes it
  (weak fairness of `Step(h)`: the Go scheduler, and statements that return or
  fail), and a `sync.Mutex` is not withheld from a waiter for ever (strong
  fairness of `LockSettle(h)`: the mutex' starvation mode). Arrivals, resets and
  crashes are not owed.
- `FairSyncSpec`: requests under way go on; the application calls `sync` again
  and again; answers may be lost, but not all of them (strong fairness of serving
  and receiving).
- `Viewability`: the browser delivers entries and fires timers that are due.
- `PrivateAd`: the proxy's loop goes on, and the enclave is started again.
  Changes, lost messages and restarts are bounded, so `Converges` is about what
  follows the last of them.
- `DemoPage`: every call is answered, by a value or an error.
- `AdminSession`: a console asks again (weak fairness of `Fetch`) and is answered
  (strong fairness of `FetchAnswered`: a request may fail, not all of them).

**Mutants.** For each property of a passing run `PROJECT.json` names a definition
and a changed form of it (marked `mutant` in the modules) under which TLC
finds the property violated: a dropped rollback, an id reused, a tag kept
without its body, a payment with its terms swapped, a timer that is not
cleared, a key kept over a restart, an effect that forgets a filter, a
revocation that keeps its edges, a transaction on an old snapshot.

## 4. Theorems

They hold for every value of the constants: any number of requests, ids,
auctions, positions, points, prices, pages, tabs. The assumptions are the named
ASSUMEs of the modules (bounds and amounts are numbers, distinguished values are
distinct), which TLC evaluates in the runs, and what a theorem states itself.

`Settlement_proofs`:

- `TypeCorrect`: `TypeInv` adds to `TypeOK` that a click under way has an auction
  and a busy request an id. No amount goes below zero, because `RowCanPay` and
  `CanAfford` guard the debits.
- `FirstClickTheorem` (`FirstClickOnly`): the invariant `SettleInv` says that the
  requests in the critical section are exactly the holder of `settleMu`, and that
  a request between the check and the charge works on an auction without a
  click. Steps of all other requests are summarised once (`QuietSteps`,
  `StepsSeenBySettlement`). No assumption on failures or crashes.
- `ChargedAtMostOnceTheorem`: with no failing log and no crash, `OnceInv` adds
  that a charged auction has its click or a request about to log it. The
  assumptions are exactly what `double_charge` violates.
- `CacheTheorem`, `DurableTheorem` (`CacheMatchesTable`, `ChargesAreDurable`): the
  invariant `Funds` holds until the first budget update. Besides the two
  properties it says that every id in tracker or table was given out, so that a
  registration takes fresh ones, and that between the row and `Budgets.Set` the
  id is not tracked, nobody else funds it, and its row has nothing spent. It is
  through the cache that `Charge` knows that the row can pay.
- `NoFreeClicks` (`ClickedWasBilled`), if the queries of `settleClick` do not
  fail: a request about to log a click of an auction that owes a payment has
  charged it or found its click (`Logging`), and clicks and requests know no
  auction beyond the last (`Handed`), so a new one is recorded without a click.
- `WinnersBudgetIsCharged` (`ChargedToWinnersBudget`), for every operation and every
  fault: what a click is about to charge is its winner's id or the key the winner
  spends from (`HeldInv`), and an id that is not its own key has no budget in tracker
  or table and nobody about to give it one (`KeysInv`), whatever is registered,
  deleted, updated or reloaded meanwhile.
- `RefusalIsHonest` (`NoFalseRefusal`), without a restart, a budget update or a
  failing charge: from the moment a click arrives it holds its auction's winner, and
  from `ResolveKey` on the key a registered winner spends from (`Resolved`). Ids of
  positions, winners and requests stay below the next one (`Below`), so a registration
  writes keys of new ids only: an auction on record keeps its winner and a registered
  winner its key (`WinnersKept`). After a restart the
  winner's id may name somebody else between the two reads; an update may store a
  keyword again that was deleted, after `budgetKey` had found neither position nor row:
  TLC finds `NoFalseRefusal` violated when `"crash"` or `"update"` is added to
  `settle_lifecycle`. Queries and logs may fail.
- `RefinementTheorem` (`ImplementsIdealBilling`), with no failing log, crash or
  budget update: `RefInv` joins `OnceInv`, `Funds`, "an id without a row has no
  balance" and "a charge is for more than nothing"; each step that changes what
  `IdealBilling` sees (`LedgerSteps`) is one of its steps.

`Auction_proofs`:

- `HighestScoreTheorem`, `BidAndFloorTheorem` from the invariant `IInv`: the result so
  far was elected at its point (`Elected`), and no eligible bid scored higher at a
  point already tried. `FiniteTermsTheorem`: winner and runner-up reach the point they
  are priced at, so that no term in the payment's exponent is infinite.
- `PricedAgainstRivalsTheorem`: a runner-up is the best bid of the other bidders,
  because a collapsed set has one bid per bidder (`Represented`, `RankingElects`).
- `CriticalAtPointTheorem`: a bid above the payment wins that point for the
  bidder (`BidAbove`) and one below it loses (`BidBelow`).
- `CriticalValueTheorem`: with one query point this is the critical value of the
  request.

`Registry_proofs` (clients name an id only once its registration was answered,
`"early" \notin Operations`): `AnsweredStays` and `VersionIsCurrent`. The invariant
`RegInv` says who owns what: an id under registration belongs to one request
(`OwnInv`) and is not known to clients; the ids a deletion is about to take from
the table are not known (`DoomedInv`); what a request holds is a position with
the right head (`HeldInv`, `HeadInv`); ids in use are below the next one
(`LowInv`); and the known ones are in the table (`Durable`). Lemma `Preserved`
states once what one request may change; each action is shown to be such a step.
`VersionIsCurrent` needs it for `Adopt`, which changes the map and keeps the
version: the member is still there, with the same embedding.
Three more theorems each leave out the operations and faults that break them,
with an invariant on top of `RegInv`:

- `MemoryIsTheTable` (`MemoryMatchesTable`; no updates, no failing statements):
  `AgreeInv` says that memory and table differ only in what a request is to
  insert, is rolling back or is to delete.
- `NothingIsLeft` (`AllOrNothing`; no failing statements, no crash): `FailedInv`
  says that an id of a failed group has left the memory, and the table too unless
  its request is about to delete the row.
- `HeadsOutlive` (`NoOrphans`; no updates, no crash): `HeadedInv` says that the
  head of a position in memory is there too, unless a rollback is about to take
  the position away.

About the client caches, at the end of the module: `NotModifiedIsFresh`. `TagInv`: the tag of the cache, and
of every answer under way, is the content of its body or one the registry has
left; a version computed now is that of the content (`VersionCurrent`).

`Impressions_proofs`: `ReportedOnce` (no more than one report of an ad) and
`SilentOnceCleaned` from an invariant on timer, observer and reports;
`ReportsAreTrue`, if a callback is given one entry, from `TimedInv`, which relates
the age of the timer to the time in view. `CapIsNearlyKept` counts shown impressions against the
count in the table, those that passed the check and those that will overwrite it,
because they found the window over or failed to read it: each of these lets through
what a new window does. `RefusalsAreDue` follows from the same invariant.

`PrivateAd_proofs`: `StaleKeysAreOld` from `KeyInv` (where a key may be, and how
old it is); `WinnersWereGood` from `StoreInv` and `BidInv` (what is in the stores
and what a request has read was good since the last acknowledged push).

`TrustLedger_proofs`: `GraphTheorem` (`ImplementsTrustGraph`) and `LogTheorem`
(`LogTellsStatus`) from `LedgerInv`: the writer is the one handler past its first
write (`At`); a handler whose snapshot is not outdated has read what the tables
say (`Read`), so what it decided on is still so when it writes; the draft is the
message's change of the attestation in the table, with the edges and the entry of
the statements done so far (`Drafted`, `DraftedEdges`); and the edges in the table
are those of the attestations that stand (`Standing`). `OthersUntouched` treats
once what a step leaves alone in all other handlers. A commit is then one step of
`TrustGraph` (`CommitMakes`), everything else a stutter (`OnlyCommitsTell`); the
entry it appends comes after those of the same attestation (`CommitIsNext`).

`DemoPage_proofs`: `DotFollowsConversation` from `DotInv`: the newest call of
`processMessages` is for the conversation processed last; unless an older one answered
after it, from its extraction on the intent is that conversation's, and once it is over
a lit dot is too. That it ends with the dot off when there is no intent or an error is
what makes the invariant inductive. `ClicksCreditAsker`: an auction whose answer can
still be shown was sent by the publisher of the page, as a switch of the theme unmounts
the page with everything its requests would set.

`Portal_proofs`, one invariant for each page:

- `StoredProfileIsShown` (`ShowsStoredProfile`): `ProfileInv`. Changes of name and
  budget are numbered. What was read after the last change, and what is shown of it, is
  what is stored (`ReadIsStored`, `ShownIsStored`); a change later than any that was
  shown is that of a save under way (`IsAwaited`), which shows it or fails.
- `ListFollowsTable` (`ListIsTable`): `CreativesInv`. What was read after the last change
  is the table (`ReadIsTable`); a change that no list shown was read after is that of a
  request under way (`ChangeAwaited`); otherwise the list has caught up (`CaughtUp`).
- `ListShowsWhatIsSet` (`ShowsWhatIsSet`): `ListInv`. The requests of the last change ask
  for what is set (`NewestAsSet`), and one of them is under way or what is set is shown
  (`NewestComes`), unless `late`. The assumption `ListBounds` says that there is a
  filter to start with.
- `EachShowsOne` (`OnePublisher`), for tabs whose token did not change while requests
  were under way and whose requests did not fail: `PublisherInv`. In a dashboard that shows no
  leftovers each part is of the publisher the last render saw, or an answer for that
  publisher is under way (`OfSeen`).
- `AnsweredAccountsWork` (`AccountsWork`): `AccountsInv`. The id of an inserted
  publisher belongs to one creation, which alone goes on to give it a token
  (`OwnId`, `OwnToken`); before its token it has none, and a login always has one
  (`Logins`). That the next id is free is a fact about the largest id in the table,
  which needs that natural numbers are well ordered (`Least`).

**Only model-checked.** Every safety property the runs check is stated by a theorem,
some under the hypotheses named above. Liveness under fairness (`EveryRequestAnswered`,
`EventuallyFresh`, `ViewedIsReported`, `Converges`, `NeverStuck`,
`RefusedConsoleEnds`) is out of the prover's reach, as are ENABLED, inductions
over data, and RECURSIVE operators, which no module uses.

## 5. Not modelled

- Rounding of `float64`; the in-memory mode without a database; the relocation
  fee, which `SetBudgetTracker` enables and tests alone call; currencies beyond
  their effect on who bids.
- The embedder (a vector or an error); cryptography and attestation formats;
  report verification; rendering and decoding of requests (OpenRTB, intake).
- The weights of trust edges, the queries over the graph and the publish
  preferences, which are stored and read by nothing; DKIM (the flag
  `dkim_verified` changes nothing) and the decoding of mails. `TRUST_EXCHANGE.md:112`
  lists `license` as unilateral; the code makes only `platform_rating` so
  (`trust/smtp.go:136`), and the model follows the code.
- A failed private auction log (`tee_handler.go:81`) and the mock proxy; the
  hashing of passwords.
- The Android and iOS observers, which poll, and the other SDKs' wrappers; the
  demo's statistics; charts, derived figures and downloads of the portal; the
  landing page, API documents and deployment.

## 6. Plan

Done, in the order of what a fault costs: money (`Settlement`, `Auction`), what
takes part (`Registry`, `EmbeddingSync`, `PrivateAd`), what is counted
(`FrequencyCap`, `Viewability`, `TrustLedger`), what people are shown (`DemoPage`,
portal).

What would come next:

1. Weaker hypotheses where the code allows them: `MemoryMatchesTable` leaves out
   updates, because two that overlap may reach the memory in one order and the table
   in the other (`registry.go:294`); updates made one at a time are not covered yet.
2. What a deletion by one request and a charge by another leave behind, beyond what
   `IdealBilling` says of balances.
