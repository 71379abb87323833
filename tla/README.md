# MAS_SONS: a TLA+ verification project

MAS_SONS exports used vehicles from Japan: a FastAPI/PostgreSQL/Redis backend
(`Backend/`), a Next.js storefront and account area (`Frontend/`), and a
systemd/nginx deployment (`deploy/`). The modules here model the parts where
several handlers, browser requests, sockets, background tasks and jobs meet, on
rows that nobody locks and across restarts that nobody announces. TLC checks each
model on a small instance; the `*Proofs` modules prove the main properties for every
value of the constants.

Run everything from this directory:

    tlc -workers 2 -config RefreshConcurrent.cfg MCRefreshTokens
    tlapm RefreshTokensProofs.tla

`PROJECT.json` lists the runs, the lines each definition translates, the hazards
that motivate the properties, and for every property a mutant of the model (an
operator of its own, directly above the definition it stands for) that breaks it.

## 1. Inventory

How the code executes decides what an action is:

* A backend handler is a synchronous function in a thread pool, with an SQLAlchemy
  session of its own. It SELECTs without a lock, at READ COMMITTED; what it writes
  becomes visible at `db.commit()`. So a handler is two actions (`...Read`,
  `...Commit`), one more for each further SELECT, commit, file or Redis command whose
  place in the order matters, and any other handler may run in between. The ORM
  writes only the attributes the handler changed relative to what it had read.
* A background task runs in the pool after the response went out. It lives in the
  memory of the process.
* The event loop of an instance runs from one `await` to the next.
* Redis commands are atomic one by one; Redis may be away, or answer too late.
* A restart ends handlers and background tasks and keeps committed rows, files and keys.
* The browser sends several requests at once, each with the cookies of the moment it
  was sent; a `Set-Cookie` takes effect when its answer arrives.

| Component | State | Operations | Hard behaviour | What makes it correct | Module |
|---|---|---|---|---|---|
| Refresh tokens (`AuthService`) | `refresh_tokens`, `users.status` | sign-in, rotate, reuse detection, logout | overlapping rotations, reuse while rotating, suspension mid-way | a session that is over stays over; reuse ends the family; one working token | `RefreshTokens` |
| Sign-in and registration (`AuthService`, `ensure_demo_admin`) | `users`, `auth_identities`, `magic_link_tokens` | register, password, request and verify a link, Google, administrator script | two first sign-ins of one address, spellings of an address, one link used twice at once | one live account per spelling of an address, every account has a way in, a link signs in once, a Google account always means the same account | `SignIn` |
| Browser session (`proxy.ts`, server actions) | cookie jar | refresh, sign-in, sign-out | parallel refreshes with one token, lost answers, late cookies | the jar holds the person's own session; nobody is signed out for no reason; requests end | `SessionRefresh` (partly: no CSRF cookie, no pages) |
| Quotes, sourcing, orders | requests, orders, fulfilment, audit rows | create, quote, status, convert, ship, pay, details | check-then-insert, stale ORM values, two transactions per action | one order per request; quote closed with its order; one audit row per action | `OrderFlow`, `OrderBook` |
| E-mail delivery | `email_logs`, Redis counter, background task | schedule, limit, attempt, log | lost answers, retries, crashes, INCR without EXPIRE | the log is evidence; the limit holds; tasks end | `EmailDelivery` |
| Request life, sessions, pool | threads, connections | guard, handler, error handlers, background task | everybody waits for a thread or a connection that somebody waiting has | connections come back; requests end | `Pool` (partly: not what is logged) |
| Partitions of log tables | PostgreSQL partitions, the calendar | boot, daily run, rotation | the month turns inside a run, overlapping jobs, kills | inserts always have a partition; nothing dropped early, nothing kept for ever | `Partitions` (partly: not the one-time conversion) |
| Notifications | dedup keys, inbox rows, queued e-mails, preferences | dispatch to staff or a buyer, read, purge | dedup races, failure half way, key before delivery, purge while reading | answered means served; nobody skipped for somebody else; purge takes only read, expired rows | `Notifications` |
| Real-time push (`app/WebSocket`) | registry, Redis channel, `websocket_connection_logs` | connect, publish, relay, push, time out | copies of a channel held across awaits, a dead listener, own echo | each socket is told once; everybody in reach is told; nothing stays behind | `Realtime` |
| Stock catalogue | `units`, audit rows | search, counts, facets, market position, price change | keyset cursors while prices change; several SELECTs for one answer | no unit skipped or repeated; a facet says how many units in stock choosing it finds; the trail ends with the price | `Stock` (partly: no keyword filter, statistics, detail page) |
| Uploads and storage | files, `unit_images`, `units.auction_sheet_url` | attach, restore, remove, set the sheet, detached upload | cap checked before the insert, file before row | every row has its file, once; the cap holds | `Gallery` |
| Seeding and start-up | units, features, images, links, destinations | seed at every start | a failure at any table, two starts at once, rows staff removed | everything there after a start; nothing comes back | `Gallery` (partly: not the spelling of makes) |
| Lists, reviews, buyback leads, moderation | keyset lists, audit rows | list, moderate, set a status | pages while rows come and go; two moderations of one row | no row skipped; the trail tells the decision | `Desk` (partly: not abuse reports) |
| Inbox listing, preferences | inbox rows, `notification_preferences` | list; read (which creates) and patch | as above; two first reads at once | as above; a row is what its last save asked for | `Desk`, `Upserts` |
| Destinations, fulfilment details | `destinations`, `order_fulfillment` | upsert, list, look up | check-then-insert, partial writes of the ORM, refused values | a row is what its last save asked for | `Upserts` |
| Favourites, saved searches, query cache | rows with soft delete; cached lists | optimistic and confirmed changes, fetch, retry, roll-back | overlapping toggles, lost answers, fetches that overtake, handlers that run on after their request was given up | the copy becomes the server's list; the last click stands; a change of a search is a save as above | `QueryCache`, `Upserts` |
| Audit rows | `audit_logs` | written by the controllers above | second transaction | see the properties of each | `OrderFlow`, `Stock`, `Desk`, `Gallery` |
| Deployment, user interface | - | - | - | - | not modelled |

How they interact: the proxy calls the refresh endpoint (`SessionRefresh` extends
`RefreshTokens`); the controllers of quotes, sourcing requests, leads and orders call
the notification service (`OrderFlow` sees the dispatcher only as the deduplicated
`Tell`; `Notifications` models it in full and leaves the orders out); a filed inbox row
is published (`Realtime` begins where `Notifications` files); the e-mail channel leaves
a background task (`Notifications` up to the queue, `EmailDelivery` from there on),
which shares the threads and connections of the requests (`Pool`, beside
`EmailDelivery` in one run); notifications, e-mail logs, connection logs and audit rows
are in the partitioned tables of `Partitions`, and the retention of notifications is
the purge of `Notifications`; `SignIn` says which account a session of `RefreshTokens`
is begun for; the copies of `QueryCache` are of rows that `Notifications` and the
services of favourites and searches keep.

## 2. The modules and the code

Each mapped definition names its lines in `PROJECT.json`. In short:

**`RefreshTokens`** (`Services/AuthService.py`, `Models/refresh_tokens.py`). The table
row by row (`family`, `owner`, `replacedBy`, `revoked`, `expired`) and the handlers
(`pc`, `held` = the ORM instance, `caller`). `PasswordLogin`/`MagicLinkLogin`/
`GoogleLogin` pick the user with the status check each of them makes, `IssueTokens`
commits the first token of a family. `RotateRead` is `rotate_refresh_token` up to its
decision, `RotateCommit` the successor and `replaced_by_id`, `RevokeFamily` the UPDATE
of a detected reuse, which sees only committed rows. `LogoutRead`/`LogoutCommit` revoke
the presented row only. `Expire`, `SetStatus` (no endpoint does it) and `Crash` are the
environment. Token ids and families are taken from finite sets: a table that is full
just issues no more tokens. **`SerialRotations`** adds the sessions on which two
rotations worked at once (`overlapped`) and says what reuse detection achieves for the
others.

**`SignIn`** (`Services/AuthService.py`, `ensure_demo_admin` in `scripts/seed_db.py`,
the models of users, identities and links). Every SELECT of a handler is a step
(`ReadUser`, `ReadIdentity`); all it writes, the new account included, becomes visible
in `Commit`, where the unique indexes (`Conflict`) decide. `Email` holds addresses as
they are spelt: the column is `Text`, so the handlers look up (`Holders`) and the index
refuses the same spelling only, while the script compares in lower case (`Matches`,
`Lower`). Hashes, JWTs and the check of a Google token are taken as given: a handler
begins with the link, the subject or the password it was rightly given.

**`SessionRefresh`** (`Frontend/src/proxy.ts`, `lib/session.ts`, the login and logout
actions). One browser: its jar, and where each of its requests is. Each browser request
runs one backend handler of `RefreshTokens`, so the composed steps move both.
`RoomForRow` is a bound: a request starts only if a row id and a family are left for
it, otherwise the bound and not the code would end a session. **`QuietBrowser`** adds
`disturbed`: requests overlapped, an answer was lost, a backend restarted or an account
was closed since somebody last signed in with the browser to itself.

**`OrderFlow`** (`QuoteRequestService`, `SourcingRequestService`, `OrderService`, their
controllers). Requests and orders with their statuses, `deleted`, the audit trail as
numbers (`acts`, `audited`, `lost`), the buyer's last message. `ConvertCommit` includes
the unique index (`ConvertConflict` is its other half) and the ORM's write of the
changed attributes only. Audit rows are the second transaction of the controller
(`Record`, `AuditFails`). **`OrderBook`** is what order conversion promises, and
`BookSpec` says that `OrderFlow` implements it.

**`EmailDelivery`** (`EmailService`, `EmailDispatcher`, `Utils/Retry.py`,
`Utils/RateLimiter.py`). A background task per message: `Increment` and `SetExpiry` are
the two Redis commands of the limiter, `LimiterFails` its fail-open; three commits of
the log row; `Attempt` is one round of the retry loop, in which the provider may take
the message and lose the answer. Templates, MIME and the waiting times are left out.

**`Pool`** (`config/database.py`, the guards of `AuthService`, the exception handlers).
A request is guarded, called, answered and has its task run; between two dependencies
it has no thread but keeps its connection. Who finds no connection waits in its thread,
for the timeout of the pool at most. Whether a session is closed before or after the
background task depends on the release of the web framework, which is not pinned to
one: `early` is either. **`SharedPool`** puts `Pool` beside `EmailDelivery`; no step
touches both.

**`Partitions`** (`Utils/partitioning.py`, `main.py`, `scripts/migrate_db.py`,
`routes/api/v0/internal/jobs.py`). Jobs (boot, timer, rotation) that read
`date.today()` per table and run one transaction per statement while `NextMonth` may
happen. `AddMonths` is the arithmetic of `_add_months`. Initially the tables are as
`ensure_partitioned_tables` leaves them: partitioned, without a partition.

**`Notifications`** (`Services/Notifications/`, the controllers that call it,
`NotificationPreferenceService`, `NotificationCleanupService`). One handler per call:
`Begin` (the confirmation is queued, the recipients are read), then for each recipient
`Mark` or `MarkUnanswered` (the key), `Choose` (the channels: only `notify_staff` passes
an account whose preferences count), `File` (the inbox row, a commit), `Post` (the
e-mail is queued); `Respond` or `Fail`, which drops the queued e-mails with the 500.
Afterwards `MarkRead`, `MarkAllRead`, `Expire`, and the purge in its two statements.
A contact has an e-mail address in this model (the schemas of quote and sourcing
requests require one).

**`Realtime`** (`app/WebSocket`, `WebSocketController`). Per connection `Admit`,
`Subscribe` (accept, all channels, the log row), `PeerGoes`, `Leave` (the idle timeout or
the receive loop ends; the log row is closed). Per inbox row: `Publish`, then `Proceed`
(the local delivery is handed to the loop) and `Relay` (Redis), or `Hear` by the
listener thread of another instance, which drops its own publications. A delivery takes
a copy of the channel (`Deliver`) and sends to one socket after the other (`Turn`,
`Push`, `PushFails`); meanwhile sockets come and go. `ListenerDies` and `Restart` are
the faults.

**`Stock`** (`StockService`, `StockController`, `AdminStockController`). A visitor
chooses an option of the facets (`FacetCount` is the figure beside it; `Scoped` says
which facets leave their own filter out: categories, makes and body types do, the others
keep it), begins a search (count and first page are two SELECTs), follows the cursors,
or opens a market position, whose scopes and comparables are SELECTs of their own; staff
read, price and audit. `After` compares the (key, id) of a row with the cursor,
`NoMileage` is the sentinel for unknown mileages, a page takes one row more than it
shows.

**`Gallery`** (`UploadService`, the storage provider, `Utils/db_initialization`), which
**`Photos`** puts beside `Stock` under names of its own.
Photos count, open the file, write it, look for the row of that file, insert or restore
it; sheets read, write and set; removals mark; a detached upload is a file whose address
is answered. `Start` to `SeedDestinations` are a run of the seeder, table by table,
each with its read, its commit and `SeedFail`. One unit, feature and destination stand
for all: the tables share nothing but their order and the live rows later ones look up.

**`Desk`** (`Utils/Query.py`, the controllers and services of every list,
`ReviewService`, `BuybackLeadService`). The `...Routes` tables say who may call what
(`Depends`), `...Lists` which rows a list has, `Page` and `IsLast` the keyset. A
behaviour is about one table. Moderation is `Read`, `ModerateCommit`, `Refresh`,
`Record`; `Written` is what the ORM writes. `Newest` is the ORDER BY of every list: the
one descending sequence of a set of ids.

**`Upserts`** (`DestinationService`, `NotificationPreferenceService`,
`SavedSearchService`, `OrderService.submit_fulfillment_details`). `Find`, then `Insert`,
`Create` or `Update`; two columns per table stand for all: NOT NULL, with a CHECK, of
JSON, or none of these. A body may leave a column out, which is NULL where the service
dumps the whole model and no change where it dumps what was set.

**`QueryCache`** (`Frontend/src/hooks/queries`, `lib/react-query`, `FavoriteService`,
`SavedSearchService`). A click sends a request; `Apply` is the optimistic change,
`Handle` the handlers of the backend, `Settle` and `Confirm` are the callbacks of the
mutation. A try ends without an answer after 15 s or when its connection is lost
(`lib/server-api.ts`), and its handler does not learn that. So `Retry` and `GiveUp` may
come whether the handler has not begun, has read or has committed, and leave what is
left of it behind as a request nobody waits for (`left`): it runs on at any later time,
beside the next try and beside later requests, or fails (`Vanish`). The library
(TanStack Query) is modelled as it documents itself: cancelling drops the answer of a
fetch, setting data clears the mark of invalidation, one retry.

**`Storefront`** puts `Desk`, `QueryCache` and `Upserts` side by side, with the
assumptions on their constants; they share no state.

The `MC...` modules give the constants their values and add bounds. Where a module puts
parts side by side, `scene` says which of them a behaviour is about: `MCStorefront` for
the three of `Storefront`, `MCEmailDelivery` for the two of `SharedPool`, `MCCatalogue`
for `Stock` and `Gallery`.

## 3. What the runs check

| Run | Instance | Properties | What it shows |
|---|---|---|---|
| `refresh_concurrent` | 3 tokens, 2 families, 2 users, 2 handlers; 277k states | `Lineage` `ReuseKillsSerialFamily` `OneUsableToken` `DeadFamilyStaysDead` `LockoutHolds` | Replacement pointers stay in one session; a session that is over stays over, and no rotation begun after an account was closed carries a session of it on, under every interleaving; reuse detection and "one working token" hold in families whose rotations did not overlap |
| `session` | 3 tokens, 2 families, 2 users, 2 requests, restarts, lost answers, fairness; 331k | `JarIsOwn` `StaysSignedIn` `OverUntilSignIn` `RequestsEnd` | While requests come one by one and are answered, the jar holds the session of the person who signed in and nobody is bounced; a session that is over stays over until a sign-in; every request ends |
| `session_tabs` | 4 tokens, 3 families, 1 user, 2 requests, no faults | `NeverBounced` (violated) | Two pages loaded at once sign the person out |
| `order_race` | 1 quote, 1 sourcing request, 2 orders, 2 handlers, 4 actions; 782k | `AuditBalances` `ConversionKept` | One order per request, conversion implements `OrderBook`, quotes close with their order, no audited action is unaccounted for |
| `email_faults` | 2 messages to one address, limit 1, 4 attempts, crash/Redis/database faults; or 3 requests, 1 thread, 2 connections; fairness; 208k | `LogIsEvidence` `LimitHolds` `ConnectionsComeBack` `EverythingEnds` | The log never claims what did not happen; the limiter holds; connections come back and nobody times out while the pool is large enough; requests and tasks end |
| `partition_year` | tables with retention 1 and 2, 2 jobs, November to February; 1.45M | `InsertsHaveRoom` `NothingLingers` `RetentionHolds` | Inserts find a partition in every month, including over the turn of the year; nothing is dropped early or kept for ever |
| `notify_fanout` | 2 handlers, 1 entity, 2 staff, 1 buyer, 1 guest, 2 types, 1 purge job of batch size 1; 421k | `AnsweredInFull` `OncePerWindow` `PurgedWasRead` | An answer means everybody was served in full; a key admits one handler; purge takes only read, expired rows |
| `realtime` | 2 instances, 2 sockets of the staff, 1 row, fairness; 142k | `PushedOnce` `EverybodyTold` `NothingLeft` `DeliveriesEnd` | One push per socket and row, echo or not; everybody in reach is told although peers fail meanwhile; an ended handler leaves nothing; a delivery stuck on a lost peer ends |
| `sign_in` | 3 requests, 2 users, 1 address in 2 spellings, 2 Google accounts, 1 link; 479k | `AccountsAreSound` `LinkOnce` `SubjectIsStable` | The unique indexes repair every check-then-insert: one live account per spelling, and no administrator beside an account that was there before; a link signs in twice only by overlapping requests; a Google account is one account |
| `sign_in_spelling` | the same | `OneAccountPerAddress` (violated) | Two spellings of one address get two live accounts |
| `catalogue` | 3 units, page of 1, 3 sorts, 2 price updates; or 1 photo, sheet and detached file, 1 seeded photo, cap 1, 2 handlers, 2 boots; 747k | `WalkIsWhole` `OptionKeepsItsPromise` `PositionIsFair` `TrailEndsWithPrice` `GalleryIntact` `SeededInFull` `CapHolds` `RemovedStaysRemoved` | Cursors survive ties, full last pages and unknown mileages; as many of the units a search shows are in stock as the chosen option promised, if the catalogue did not change; a position has peers enough; the trail ends with the price. What is shown is there, once; the cap holds and removed photos stay removed unless work overlapped; a start completes what failed ones began |
| `storefront` | 3 ids, page of 1, 1 walker, 2 handlers; 2 items, 3 clicks, 2 requests or tries at a time; 2 handlers of one key; 524k | `WalksAreWhole` `TrailTellsDecision` `CopyIsRight` `SavesStand` | Lists are walked whole; an undisturbed audit trail tells the decision; the browser's copy becomes the server's list and the last click stands, whatever is retried or given up, but for what is named below; a save stands |

**Why the bounds are enough.** The bad cases need two handlers of one row, and most
need one token, order, photo or message more than one handler makes:

* *Refresh tokens.* A rotation in flight, a replay and a successor are three tokens; a
  second family and user show that nothing leaks between sessions. `Closed` is
  `{"suspended"}` in two runs: the code treats a deleted user as a suspended one
  everywhere but in the magic-link sign-in, which refuses only the deleted; so
  suspension shows every behaviour of deletion.
* *Browser.* Two requests are two tabs; three is no different, the second already
  presents a token that is no longer current. `session` checks liveness and therefore
  has no symmetry; `FewRunOut` lets one token run out and one account be closed at a
  time.
* *Orders.* Two orders and two handlers make one duplicate conversion possible from
  either kind of request; four actions are convert, ship, pay and one more on the
  side. `Used` has one status an operator sets for a sourcing request, a shipment and a
  payment each.
* *E-mail.* Four attempts is the code's own number; limit 1 with two messages is the
  smallest instance in which the limiter refuses. *Pool.* One thread and two
  connections for three requests: two that hold connections and wait for the thread of
  the third, which waits for a connection.
* *Partitions.* Four months are the turn of the year and one retention of two months
  on either side of it. Two jobs overlap in every way two can.
* *Notifications.* Two handlers for the races, a batch of one so that a purge of two
  rows takes two rounds, one account whose preferences change and one whose rows age.
  The two types are the two ways the code has to file a row (staff and one buyer).
* *Real-time.* Two sockets on the same or on two instances: one that fails while the
  other waits for its turn. Rows do not touch one another: each has coroutines of its
  own. The log fails only once the deliveries are over, with which it shares nothing.
* *Sign-in.* Three requests: two that race and one that comes later and must agree; two
  spellings of one address, one of them in lower case.
* *Stock.* Three units and a page of one: a page before, at and after a change, with
  ties in every sort and an unknown mileage in two units. One price update once the
  visitor is there (`FewUpdates`); two overlapping ones before, and a market position, with
  one of the searches only. Once an option is chosen no price changes (units come and go).
* *Gallery.* A cap of one and one photo beside the seeded one reach the cap; two
  requests or runs at a time (`TwoAtOnce`); photos, sheets and detached files use
  different files and columns and are not mixed (`OneKind`).
* *Storefront.* A walk and a race of moderations are not in one behaviour
  (`WalkOrRace`): the walk looks at the rows, not at handlers. Two items and three
  clicks, two of them under way and the list opened between them (`FewClicks`), reach an
  overlap followed by a request that starts from its result. A try that was given up and
  may still be run takes one of the two places, so that it meets the next try of its
  request, a later request, or a fetch. Three rows of a page of one, as for stock. Of
  two saves one may have a value that a CHECK refuses (`GoodPairs`): both would only
  fail.

The proofs of section 6 do without these bounds.

`CHECK_DEADLOCK FALSE` stands in the configurations of models that use up something:
the bound on actions or clicks, the messages, the requests, the last month, the ids of
rows. The models of sessions and notifications must not stop.

**History.** Variables marked (history) are read by properties only. They say what
overlapped or was cut off, so that a property can be stated for everything else
(`overlapped`, `disturbed`, `stale`, `mixed`, `doubt`, `crowded`), or what was seen so far
(`shown`, `got`, `steady`).

**Type invariants** are proved for every module with a `*Proofs` module (section 6)
instead of being run; the other modules state theirs for the reader.

**Two disagreements** between the code and what it says of itself are runs with
`expect: violation`:

* `proxy.ts` refreshes once per request and shares nothing between requests, so two
  requests with one expired access cookie post one refresh token twice, which the backend
  takes for reuse; the person is bounced (`session_tabs`).
* `databaseschema.md:85` and the comment at `Models/users.py:15` call the address CITEXT;
  the column is `Text`, `create_all` builds it, and no handler changes the case of what it
  was sent. A@x and a@x become two live accounts (`sign_in_spelling`). The addresses of
  magic links (`magic_link_tokens.email`) are `Text` in the same way.

**What `CopyIsRight` leaves out.** The copy of a list may lack a change when a confirmed
change met the answer of a fetch, lost its own answer, came before the first fetch or was
overtaken by its undoing, and when a try that was given up commits after the answer of the
last fetch was read (`unsynced`, until a fetch that began later has come). The last click
on an item is not promised when it overlapped another request about the item, a try that
was given up included, or failed itself (`wish`).

### Other divergences the models contain

These are steps of the models. No passing property rules them out; each is where the code
and a document, or the code and what one would expect of it, part:

* `AuthService.rotate_refresh_token` neither locks nor re-checks: a rotation that read its
  token before a detected reuse revoked the family commits a working successor
  afterwards, although the docstring (`AuthService.py:122`) says reuse "revokes the whole
  family". Hence "serial" in `ReuseKillsSerialFamily`.
* The deduplication key of a shipment update does not hold the status: a second
  transition within 300 s is dropped (against `databaseschema.md:460`).
* `INCR` and `EXPIRE` are two commands and only the first `INCR` is followed by an
  `EXPIRE`: if that is lost, the address stays refused (against
  `sharedinfrastructure.md:38`).
* `NotificationDispatcher.dispatch` takes the key before it has delivered anything and
  never gives it back: a repetition after a failure is swallowed (against
  `notificationssubsystem.md:125`).
* Only `ValueError` is permanent for the e-mail dispatcher; refusals of an SMTP server are
  subclasses of `OSError` and are tried four times (against `emailsubsystem.md:58`).
* No caller of `notify_buyer` passes an account, so the preferences of buyers are never
  looked at (against `notificationssubsystem.md:104`); and a guest whose sourcing request
  was found has neither an inbox nor an e-mail of that type.
* A sourcing request that staff closed and reopened while it was being converted stays
  open beside its order; a quote that was converted can be quoted again.
* Two first submissions of fulfilment details: one gets an error page. PATCH of the
  preferences with null for a NOT NULL column is answered 500. PUT of a destination that
  was withdrawn answers 200 and the destination stays unlisted: the upsert neither filters
  on `deleted_at` nor clears it.
* PATCH of a saved search takes null for its filters: the ORM writes the JSON value null,
  which a NOT NULL column of JSON does not refuse (against `databaseschema.md:539`). The
  list of the owner, whose schema wants a dictionary of every row, is an error until that
  row is deleted or gets filters again.
* A request may be answered 500 after its commit, when the pool times out before the
  refresh that follows it.
* A restart leaves rows of the connection log open; a socket is authenticated when it
  connects and never again.
* A request that the browser gave up after 15 s (`server-api.ts:51`) may commit after the
  list was fetched for the last time; nothing fetches again, and the screen shows the list
  without it until it is opened anew. An addition that was given up may restore a
  favourite after a later removal was answered.
* A suspended account gets tokens by Google and by a magic link (`AuthService.py:211-224`,
  `:240-245`); only the password sign-in and the rotation refuse it.
* The search lists sold units too (`StockService.py:100`), while counts and facets are
  of those in stock (`StockService.py:181`), so "Show N units" (`FilterPanel.tsx:192`)
  announces fewer than the pages show.
* Nothing under `deploy/` or `scripts/` calls `rotate-partitions`; the documents leave
  that to a scheduler outside.

## 4. Fairness

* `SessionRefresh`: `WF(Progress(r))` for each request. An accepted handler is run by
  the thread pool, and an awaited `fetch` answers or throws; a person need not send
  anything, no fault need happen, and nothing has to be retried.
* `EmailDelivery`: `WF(Task(m))`. A background task that was scheduled is run by the
  pool for as long as the process lives; each wait of the retry loop is finite. A crash
  ends the task, which `TasksEnd` counts as an end: the code has no recovery for it.
* `Pool`: `WF(Step(r))`. A thread runs what it has; a wait for a connection ends with
  one or with `DB_POOL_TIMEOUT`, and which of the two it is, is not fair. A request that
  waits for a thread gets one when there is one.
* `Realtime`: weak fairness of `Subscribe`, of `Leave` only for a peer that is gone (its
  close arrives, or the idle timeout notices it), of the event loop's own steps
  (`Work`), and of a send only to a peer that is there. A send to a lost peer may hang:
  that such a delivery ends rests on the timeout of the handler of that socket.

No environment action (crash, expiry, suspension, month, fault, user, peer) is fair, so
no liveness property rests on one. The other models state safety only.

## 5. What is assumed of the environment

* *Partitions.* `NextMonth` is guarded: no job spans two turns of the month, and while
  the backend is up at least one boot or timer run a month begins and ends (the timer
  is daily, `deploy/`). A job may fail or be killed at any statement. `NothingLingers`
  speaks only of tables that a rotation finished last month.
* *Notifications.* A row expires only after its own handler has ended: retention is
  months and a handler takes seconds. A row is read or purged while other handlers run.
* *Statuses of accounts* change outside the API (`SetStatus`, `CloseAccount`): no
  endpoint does it, an operator with the database does. So are units, features and
  destinations withdrawn (`Withdraw`, `Retire`, `Retract`).
* *Sign-in.* Google's answer about a subject and its address is true; the address of a
  subject may change.
* *PostgreSQL* is READ COMMITTED with its unique indexes; a commit is atomic; a lost
  connection before it rolls back; ids of rows grow with their inserts. *Redis* commands
  are atomic; one that times out may or may not have been carried out. A file that is
  opened for writing is empty until it is written.
* *What several models share* is cut where it is one call: `OrderFlow` sees the
  dispatcher as `Tell`, `RefreshTokens` sees an account as its status.

## 6. Proofs

Each `*Proofs` module proves an inductive invariant `IInv` in three lemmas (the
initial states have it, every step keeps it, it implies the property) and the temporal
theorem from them. The only assumptions are the named `ASSUME`s of the modules: kinds
of identifiers are apart from each other and from `Nil`, bounds are numbers, sets of
threads, rows and units are finite.

* **`RefreshTokensProofs`**: `TypeCorrect`, `LineageCorrect`, `DeadFamiliesStayDead`,
  `ClosedAccountsStayLockedOut` (of rotation: sign-ins of a suspended account are not
  covered, nor are rotations in flight when it was closed), `ReuseEndsSerialSessions`,
  `SerialSessionsHaveOneToken`, `OverStaysOver`, `QuietJarIsOwn`, `QuietStaysSignedIn`.
  `IInv` adds to type and lineage that a handler holds a row that exists and that a row
  not yet inserted is blank: otherwise a commit could write into a row of another
  family. The two action properties follow because every step leaves the identity of
  existing rows alone, and the only step that makes a usable token of an old family is
  `RotateCommit`, which needs a rotation in flight. The serial properties need two more
  facts about a session whose rotations did not overlap: it has one row that nothing
  replaced, the last one, which is the only one that can work or that a rotation in
  flight can hold; and once a replaced row was presented the whole session is revoked,
  or about to be by the handler that found out. The properties of the browser need that
  each of its requests agrees with the backend handler that serves it (what the page is
  waiting for is what the handler holds), and in a browser that was left in peace, that
  the token in the jar or in the answer on its way is the last one of its session and
  belongs to who signed in.
* **`OrderFlowProofs`**: `TypeCorrect`, `OneOrderPerSourceHolds`, `ImplementsOrderBook`,
  `OrdersCloseTheirQuotes`, `ConversionAlwaysKept`, `AuditTrailBalances`. The check before
  the insert proves nothing, a second handler makes it stale; the argument rests on the
  unique index of `ConvertCommit`. The refinement maps the initial state, then every
  action, to an initial state and to a step or a stutter of `OrderBook`. The audit trail
  needs that the set of handlers that owe a row changes by one at a time (cardinality
  lemmas).
* **`EmailDeliveryProofs`**: `TypeCorrect`, `LogIsAlwaysEvidence`, `CopiesAreBounded`,
  `LimitAlwaysHolds`, `ConnectionsAlwaysComeBack`. `StageAgrees` ties the log row to the
  place of the task: it is why no row can say "sent" before an attempt was answered. For
  the pool (`PoolIInv`) the invariant says in which phases a request holds its connection,
  and that the requests under way take no more than `Need` connections each, so that a
  wait can only be in vain while there are more of them than the pool is good for.
* **`BrowserProofs`** (`Realtime` and `Storefront`): what reaches the browser.
  * `RowIsPushedOnce`, `RowReachesAll`, `HandlersLeaveNothing`. Each row comes to each
    instance once: its delivery is still to come, due, in hand or over, and the publishing
    instance drops its own echo (`OneWay`). `Untouched` and `GotOnce` say that a socket is
    in the copy a delivery holds, or was pushed to, but not both; `Served` that a socket
    which was there before the publication and stayed is in the copy, was pushed to, or
    gets a delivery that is still to come; `Placed` and `Logged` tie the registry and the
    connection log to the phase of the handler.
  * `SavesAlwaysStand` (`SavesIInv`). A handler that is alone with its row has read what is
    there (`AloneKnows`), and a row nobody is at is what its last save asked for.
  * `TrailsTellDecisions` (`DeskIInv`). `Undisturbed` says at each phase of a moderation
    that nothing overlapped what the row and the trail hold.
  * `ListsAreWalkedWhole` (`WalkIInv`). A page is the newest rows below its key
    (`PageIsNewest`), so rows that stay in the list have been shown or are below the key.
    That `Newest` finds a descending sequence of every finite set of ids is an induction,
    done by the least counterexample (`LeastNumber`, `DescentExists`).
  * `CopyEndsRight` (`CopyIInv`). `Accounted`: while no optimistic request is under way and
    the copy is not marked, it differs from the list of the server only in items with an
    answered change that is not yet in the copy. `WishesHeld`: what is under way about an
    item whose last click stood alone, tries that were given up included, asks for the same
    thing.
* **`PartitionsProofs`**: `AddMonthsExact`, `TypeCorrect`, `InsertsAlwaysHaveRoom`,
  `NothingEverLingers`, `RetentionAlwaysHolds`. `AddMonthsExact` is the arithmetic over
  all dates and distances. `JobInv` says what a job in each phase has already created
  or dropped, relative to the month it began in; `RoomInv` and `TidyInv` carry that
  over the end of the job and the turn of the month.
* **`NotificationsProofs`**: `TypeCorrect`, `AnsweredInFullHolds`, `OncePerWindowHolds`,
  `SkippedForAnotherHolds`, `PurgedWereRead`. `AnsweredInFull` speaks of the end of a
  handler, so `Books` follows the rows and the queue recipient by recipient. The two
  deduplication properties need the exact relation between keys and handlers that
  passed (`PassesHaveKeys`, `KeysHavePasses`); the purge needs `Batches`: what its SELECT
  chose stays read and expired until its DELETE.
* **`SignInProofs`**: `TypeCorrect`, `AccountsStaySound`, `LinkOnceHolds`,
  `SubjectIsAlwaysStable`. `Held` says what a handler knows about the account it has
  found, which is little: that the row exists and has the address it goes by, or is the
  one the subject names. Uniqueness of accounts, for each spelling, comes from
  `Conflict` alone. `Alone` says of a script that has found nobody that no request which
  was over before it began had come out at a live account of the address, in any
  spelling; `AdminIsFirst` follows. `Spent` says that a link used by a request that is
  done is consumed, so a later one cannot begin.
* **`CatalogueProofs`** (`Stock` and `Photos`): units and their photos.
  * `TypeCorrect`, `WalksAreAlwaysWhole`, `TrailsEndWithPrices`, `PromisesAreKept`,
    `PositionsAreFair`. The walk rests on the order of (key, id) being total and on what
    the invariant says of every cursor: steady units before it are shown once, those after
    it not at all. Together with the row a page looks ahead this gives the end of the walk;
    with finite sets and cardinalities, the total and the figure beside the option.
  * `PhotosTypeCorrect`, `GalleryAlwaysIntact`, `SeededAlwaysInFull`, `CapAlwaysHolds`,
    `RemovedStayRemoved` (`PhotoIInv`). Ids are given one after the other, for which the
    rows the seeder inserts at once take the next ids one each (`SeededRows`, a pigeonhole
    argument). `AsRead` says that a request or a run that is not stale has read what is
    there, so it inserts no second row and stays below the cap. `SeededSoFar` says of every
    run, table by table, that nothing is missing behind it and that it knows what is
    missing where it is. `FilesKept` says that a file which a row, the sheet or a request
    on its way to one of them leads to is whole, being written or was cut off, and
    `LastWriter` why a request that closes a file another one opened later may go on: that
    one is still at it. `Private` gives a detached file to one request.

Model-checked only: the liveness properties `RequestsEnd`, `EverythingEnds` and
`DeliveriesEnd` (the prover has no fairness or `ENABLED`) and the two violations. Every
safety property of a run is also a theorem.

## 7. Not modelled, and the plan

* *Data no property here tells apart*: passwords and hashes, JWT signatures, CSRF tokens,
  templates, wording, links, SQL of the keyword filter, medians and price bands of a
  market position, the spelling that the catalogue normalisation repairs. The modules
  assume what they replace: a token that was handed out is found by its hash, an access
  cookie is either valid or expired. The dictionaries of the seeder
  (`Utils/dictionaries`) are content; `Gallery` has one entry of each kind, which is mapped
  to the first one of the file.
* *Operations with nothing two actors could disturb*: reports of abuse (one insert), the
  detail page of a unit, lookups, rendering, logging, health.
* *`ensure_partitioned_tables`*, the one-time conversion of plain tables: a migration that
  runs once, before the service serves; its outcome is where `Partitions` begins.
* *Deployment scripts, user interface*: configuration and rendering; what they cause
  (restarts, timers, clicks) are actions of the models.

Order of the modules so far: `RefreshTokens`, `SessionRefresh` (composes it),
`OrderBook`/`OrderFlow`, `EmailDelivery`, `Partitions`, `Notifications`, each with its
proofs when TLC agreed; then `Realtime`, `SignIn`, `Stock`, `Gallery`, `Desk`,
`QueryCache`, `Upserts`, `Pool`. To come:

1. Refinements: what reuse detection promises for a session (`RefreshTokens`), and what a
   list on the screen promises (`QueryCache`), as abstract specifications that the detailed
   ones implement, as `OrderFlow` implements `OrderBook`.
2. A composition of `Notifications` with `Realtime`: an inbox row that was filed while the
   socket reconnects, and what the browser fetches then (`QueryCache`).
3. The conversion of unpartitioned tables in `Partitions`, if it is ever run beside a
   serving backend.
