# chatgpt-web-voice in TLA+

Specifications, model checks and proofs for the gateway in `src/`: a Go server
that lends the voice mode of a pool of chatgpt.com accounts to a web page and to
API-key clients. Paths below are relative to `src/internal/` unless they say
otherwise.

## The system

| component | state | operations | interacts with |
|---|---|---|---|
| Account pool (`accounts/`) | table `accounts`: token, status, disabled, invalid_at, last_used_at | create, update, delete, import (Upsert), Pick (by token or LRU), PickByID, MarkInvalid, sealing at startup | called by the voice service, the admin handlers and the migration command |
| Durable call sessions (`callsessions/`) | table `call_sessions`: owner, account, upstream ids, active/released | Upsert, UpdateUpstream, MarkReleased, MarkAllActiveReleased, Get, Delete | called by the voice service, by startup and by the admin |
| Voice gateway (`voice/`) | `Service.bindings`: session id → owner, account, token, upstream ids, time of last use | dial (CreateSession), context report, title, release, two upload calls, account probe, TTL cleanup | both tables above, chatgpt.com |
| HTTP handlers (`api/`) | none | decode, name the owner (`admin:<user>`, `api_key:<id>`), call a service | all services |
| Voice page (`src/static/voice.html`) | current conversation, its title and lock, captions, the call | dial, report, caption, rename, hang up, title | admin handlers |
| Administrator authentication (`auth/auth.go`, `sessionstore.go`) | cached and stored login sessions, attempts per address | login, logout, authenticate, lockout | handlers |
| API keys (`apikeys/`, `auth/apikey.go`) | table `api_keys` | create, edit, delete, authenticate | `/v1` handlers |
| Conversations (`conversations/`) | tables `conversations`, `conversation_messages`: title, lock, preview, upstream ids, texts | create, rename, lock, save ids, post a message, delete | voice page |
| Database (`store/`) | one connection, one mutex, the schema | open, migrate | all tables |
| Secret box (`secretbox/`) | one key | seal, open, digest | account pool |
| Import command (`src/cmd/migrate-accounts`) | `accounts.json` | migrate the schema, Upsert each account | the database, beside the server |
| HTTP client (`httpclient/`) | per call: a child process and its pipes | send, read, close, deadline | voice gateway |
| configuration, TLS, static pages, logging | – | – | – |

Every HTTP request runs in a goroutine of its own. Three mutexes order them:
`Service.mu` for the bindings, `auth.Manager.mu` for login sessions and counters, and
`store.DB.mu` for all tables. No mutex is held across a call to chatgpt.com, and no
handler holds one mutex while it uses what another guards (but for the reaping of
bindings), so a dial reads the binding, reads the row, picks an account, waits for the
upstream, marks a token, binds, reads back and persists in separate critical sections
with anything in between; a login fills a map and then a table; a PATCH reads a row
and writes it in two calls. The page sends its requests without waiting for one
another. That, together with the TTL of bindings, restarts that lose the maps,
statements that commit one by one, and administrator's edits while calls run, is what
makes this code hard.

What must be right, by component:

* **pool** – a token has one holder; the two columns that say "disabled" agree;
  the rotation is fair; a 401 disables the account whose token was rejected and no
  other, even when the answer is late;
* **gateway** – a session belongs to the caller it was made for; a conversation is
  only ever continued with an account of the user who owns it, and one whose user
  nobody recorded with one account only; a session a client was told of can be resumed
  after release, expiry and restart; the retry loop ends and never tries a token
  twice; every request whose upstream calls end is answered;
* **call sessions** – the admin listing agrees with what is in memory;
* **authentication** – a session ends when its login said, or at its logout, and not
  before; a lock is earned, stands, and lets few guesses past it;
* **API keys** – the sessions of a key fall to no other key;
* **conversations and page** – a title the user gave stays; a conversation that has
  words has a title; saved ids and captions are not lost or overtaken; a deleted
  conversation stays deleted;
* **database** – wherever a start died, the next one ends with the whole schema and
  every token sealed, once;
* **HTTP client** – a body that ends without an error is whole; the status is the
  upstream's; every call ends and leaves no process.

`PROJECT.json` lists the hazards of the code line by line with the properties
that would catch each.

## Modules

| module | models |
|---|---|
| `AccountTable` | `accounts/pool.go` as pure operators on the table: normalisation, the uniqueness check, the three selections, invalidation |
| `AccountPool` | the pool as a state machine with its one-second clock |
| `CallSessionTable` | `callsessions/store.go` as pure operators: upsert, continue, release, owned lookup |
| `VoiceService` | `voice/service.go` and `upload.go` over both tables: requests, bindings, TTL, restarts, edits |
| `VoiceServiceListed` | what the listing of call sessions says of the bindings, with the history of late reports, and the invariant of its proof |
| `VoiceServiceInv` | the inductive invariant `Safe` of `VoiceService` |
| `StickySession` | what the gateway promises of a session, abstractly |
| `VoiceServiceSticky` | the refinement mapping from `VoiceService` to `StickySession` |
| `AuthSessions` | `auth/auth.go`, `sessionstore.go`: login, logout, authenticate over map and table |
| `LoginLimiter` | the lockout counters of `auth/auth.go` |
| `ApiKeys` | `apikeys/store.go`, `auth/apikey.go` and the sessions keys own |
| `ConversationTable` | `conversations/store.go` as operators on a row |
| `Conversations` | the handlers of `api/conversations.go` over that table |
| `VoicePage` | titles, captions and hang-up of `src/static/voice.html` over the same table |
| `StoredTokens` | `store/schema.go`, `SealStoredTokens` and the import command: from opening the database until the server serves |
| `CurlTransport` | `httpclient/curl.go`: one upstream call over a child process |
| `MC*` | instances for TLC |
| `*Proofs` | theorems and proofs; those of `VoicePage` are in `ConversationsProofs`, those of `AccountTable` in `AccountPoolProofs`, and each proof module is named for what it extends |

`VoiceService` composes the two table modules; `AccountPool` and `VoiceService`
share `AccountTable`, `Conversations` and `VoicePage` share `ConversationTable`, so
what is said of a table operator serves both. `VoiceServiceSticky` puts the gateway
under its abstract specification. `VoicePage` calls its specification `PageSpec`, so
that one proof module can extend it and `Conversations` together.

### AccountPool

One action per method of `Pool`. A row keeps the token, the two disabled columns
and whether `invalid_at` is set; email and proxy decide nothing. A token stands for
its hash, which is what the SQL compares. `clock` counts seconds and `lastUsed` is
`last_used_at`; `usedSince` is history: which accounts were used since each
account's last use, the real order that `last_used_at` only approximates.

### VoiceService

`accounts`, `nextId`, `rows` are the tables and `bindings` is the map of the
service. A request in flight is a record in `reqs`; its `pc` names the critical
section it will execute next:

| pc | section | code |
|---|---|---|
| `bound` | `boundVoiceSession`: reap, look up, refresh | `voice/service.go:571` |
| `lookup` | `records.Get` of a dial or title | 963, 380 |
| `pick`, `pickid` | `Pick(token)` or `Pick("")`, `PickByID` | 924–940, 390 |
| `post` | the upstream answers: accepted, 401, anything else | 1075, 423, 759, `upload.go:90`, 184 |
| `mark` | `MarkInvalid`, and where a 401 leads | 1085–1111 |
| `bind`, `reread`, `persist` | `bindVoiceSession`, `boundVoiceSession`, `Upsert` and the reply | 1127–1156 |
| `ctx`, `sync`, `ctxget`, `ctxput` | `UpdateSessionContext`: with a binding, without | 268–332 |
| `drop`, `unlist` | `ReleaseSession` before and after its unlock | 555–567 |

Requests arrive with session ids some client was told of, with or without being
its owner; the voice page may send the account and the conversation it was told
with it, or a legacy conversation without an account, the public API cannot. `PassTTL`, `Restart`, `DeleteRow` and the three
account edits are the environment.

History variables: `minted` (whom an id was made for), `home` (the chatgpt.com
user a session first reached), `known` (answers given to clients), `erased`
(rows the administrator deleted), `rejected` (tokens answered with 401).

Abstractions, and what they assume:

* *Conversations are users.* A conversation is represented by the user who owns
  it (`UserOf` of the token that created it). Two conversations of one user are
  not told apart; two users' are, which is what the properties are about.
* *Legacy conversations.* The page's rows from before the column `account_id` have a
  conversation and account 0 (`store/schema.go:141-152`), and the page dials with both
  as they are (`src/static/voice.html:4702-4703`). Such a conversation is a member of
  `Legacy`, of which no user is known. The model allows more than the page does: any
  legacy conversation with any of its dials, reports and titles, with or without a
  session and an account.
* *One id for three.* Conversation, parent message and upstream voice session id
  are merged by the same rule at each place (`mergeUpstreamContext`,
  `callsessions/store.go:125-136`, 173–181); the row and the binding keep one. The
  upstream voice session id, which the code generates when it is empty, does not
  show in the model.
* *A fresh session id* is drawn when the dial begins, not when it is bound: nobody
  can see it before (`newVoiceSessionID` is a random UUID, assumed not to repeat).
* *Any pickable account.* `Pick("")` may return any available account not yet
  excluded; which one the ORDER BY gives is the subject of `AccountPool`.
* *Reaping and `MarkReleased` are one step.* The rows are written while
  `Service.mu` is held, and sections that hold only `store.DB.mu` never read
  bindings, so they can be moved before or after the whole.
* *An edit keeps the account's user.* The administrator replaces an account's token
  by one of the same chatgpt.com user. The code cannot check it, and without it
  no sticky session can be right. An account of another user is created as a new row,
  whose id was never handed out (AUTOINCREMENT).
* *The TTL is longer than local steps.* A binding does not expire between
  `bindVoiceSession` and the write of its row (milliseconds against 180 s by
  default); it may expire during an upstream call.
* *Statements succeed.* A failing SQLite statement is only logged by most callers
  (`voice/service.go:1207`, 295, 565); such failures are not modelled yet.
* The account read of a probe and the start of the request are one step; the
  parsing of bodies, SDP, options, proxies and headers is left out.
* `SessionContext` (`voice/service.go:335`) has no caller and is left out.

Bounds are constants: `MaxOps` requests, `MaxEdits` edits and restarts,
`MaxAccounts` ids, `MaxClock` seconds. Only guards of actions that bring something
new mention them, so a behaviour that has used its budget can still finish what is
in flight. `MaxAccountAttempts` is not a bound but the configured number. When the
budgets are used the system stops, so the gateway's runs do not check deadlock.

### StickySession and its refinement

`StickySession` knows five things: whom a session id belongs to, which chatgpt.com
user it is pinned to, what clients were told, which sessions can be resumed, and what
chatgpt.com is being asked to go on with. A session is opened for an owner, pinned
once, told to its owner, forgotten when the administrator deletes it; and at every
step a user's conversation is asked for only with an account of that user, and
anything for a pinned session only with an account of the session's user: legacy
conversations, too, once the session is pinned. `VoiceServiceSticky` maps `minted`, `home`, `known`, the rows and the
requests that wait at `post` to these. The picks, retries, bindings, expiries,
restarts and edits of the gateway are all stutters, or the coming and going of an
upstream request.

### AuthSessions and LoginLimiter

| pc | section | code |
|---|---|---|
| `put` | `SessionStore.Put` of a login, after the entry in the map | `auth/auth.go:229-253` |
| `get`, `fill` | the table is asked, what it said goes into the map | 326–337 |
| `in`, `denied` | behind `Require`; turned away | 129–163 |
| `logout`, `unstore` | the two sections of a logout | 267–275 |

Credentials, CSRF tokens and cookie attributes are left out. Time is a clock in ticks,
several to a second, because the map keeps a `time.Time` and the table RFC 3339 in
whole seconds. A cookie that is drawn does not repeat (32 random bytes). A browser
sends only a cookie it received, though it may go on to send it after its logout.
A statement on the table may fail where `StoreFaults` says so; each use is turned into
what its caller does: a failed `Put` answers 500 and leaves the entry in the map, a
failed `Get` turns the request away, a failed `Delete` is ignored.

`LoginLimiter` has the counters alone: the lock is looked at on arrival, the failure
is counted in another section, and every authenticated request sweeps. Its clock is
the one the windows are measured in.

### ApiKeys

Keys with their AUTOINCREMENT counter, and sessions whose owner is the id of a key.
A request is admitted in one section and served in another, in which it opens a
session or names one. The binding and the row of a session are one here: both keep the
same owner, as `SessionKeepsOwner` says of `VoiceService`. A secret stands for its
digest; a caller may make one up, and a new key's secret is one no other key had.

### Conversations and VoicePage

`Conversations` splits a PATCH into the calls it makes: `get`, `title`, `context`.
Each takes `store.DB.mu` once. UpsertMessage is one section of two statements, and the
second may fail or never run. The owner column is left out, all requests being of one
administrator; roles, positions and times of messages too. `named` is history: the
value each column was last asked to have.

`VoicePage` has one page with one conversation open. A PATCH that names it is a record
in `patches` with its sender; it is applied and answered in any order with the others,
or its sender is told of an error, after which it may still be applied. Its three
senders are the rename dialog, the first words of a call, and the hang-up. `chain` is
`conversationWriteChain`, in which POSTs of captions wait for one another. `call`
follows `stopCall` from await to await. The page's variables `titleLocked`,
`upstreamTitleAppliedFor` and its copy of the session are kept apart, because the code
keeps them apart and each is asked somewhere. A reload forgets all of the page and
reads the row. Text is abstracted to a prefix order: a caption grows, and its first
words make a title; that `clampText` keeps 42 runes and the server's `truncateText`
120 decides only which title, so the instances give both the same. The title of
chatgpt.com arrives at most once per hang-up and is one of a set.

### StoredTokens

The schema is the set of the parts the code looks at: two tables, a column of each
kind that is added, the two columns and the unique constraint that are removed, the
index. `Migration` lists them in the order of `migrate`; the other tables and
columns are created by the same kind of statement. The server and the import command
go through the same list, each check and each ALTER a step of its own; the rebuild of
`accounts` is one step because it is one transaction. An ALTER that finds its work done
by the other process is an error and ends the process, which compose restarts. Then
the server seals row by row, without a transaction, what it listed before, while the
command looks tokens up by digest and writes them. Both may die anywhere. Both have the
key of the environment; the rows an earlier version left are plain or, where the schema
has digests, sealed, perhaps with a key that is not the present one.

The administrator's edits and deletes after the start are left to `AccountPool`; only
adding an account matters here, as it can meet the import.

### CurlTransport

One call: the caller, the goroutine that writes stdin, the child, two pipes of
`PipeSize` items, the deadline. `curl` is external and modelled from the options it is
given; it may be silent, fail or end at any point. The binary is started directly or
through a script that waits for it (`launched`), which is how curl-impersonate is
packaged, with an HTTP proxy or not (`tunnelled`); both are settled before the call. A
script changes what a kill does: it ends the script and not curl, which dies of its own
when it writes to a pipe nobody reads, or has an end, or never. `Wait` of os/exec
returns when the child has ended and the copy of stderr has, which curl holds open.
`FairSpec` does not promise that time passes; `TimePasses` adds that, where a property
needs it.

## Runs

| run | instance | what it shows |
|---|---|---|
| `pool` | 3 tokens, 3 ids, 3 s, symmetric | `TokensUnique`, `DisabledConsistent`, `LastUsedOrdered`, `RotationUpToOneSecond` |
| `gateway` | the page and an API key, 1 session, a legacy conversation, dials, titles, releases and probes, 2 at a time, 3 in all, 1 edit | `SessionKeepsOwner`, `ConversationStaysHome`, `AttemptsCounted`, `OnlyRejectedDisabled`, the inductive `Safe`; `KeepsPromise`, the refinement |
| `gateway_edits` | 1 owner, 2 sessions, 3 requests of every kind but probes in turn, 2 edits | `SessionStaysHome`, `KnownResumable`, `BoundIsListed`, `ListedIsBound` |
| `gateway_live` | the page, 1 session, dials, reports, titles and uploads, 2 at a time, 3 in all, 1 edit, fairness | `RequestsAnswered` |
| `auth_sessions` | 2 cookies, 2 requests, term of 1.5 s, 2 restarts, failing statements | `TermsKept`, `DeniedForCause`, `LogoutOutlivesRestart` |
| `auth_logout` | the same without failures | violated: `LogoutRevokes` |
| `login_limiter` | 2 addresses, 3 logins at a time, 7 in all, limit 3, window 2, lock 4 | `FewLatePasswords`, `LockEarned`, `GuessesBounded`, `LockStands` |
| `conversations` | 1 conversation, 2 PATCHes, failures, 1 crash | `NamedOnceAnswered`, `NoUpdateLost`, `DeletedStaysGone` |
| `page` | 2 PATCHes, 2 captions, 1 reload, losses | `QuietRenameStays`, `CaptionsArrive` |
| `tokens` | 3 old schemas, 2 old tokens plain or sealed, 2 keys, a new token imported twice and added, 2 crashes, fairness | `ServesEveryToken`, `OncePerToken`, `StartsForGood` |
| `curl` | pipes of 2 items, requests of 0, 1, 3, responses of up to 7, with and without launcher and proxy, fairness | `WholeIsWhole`, `NothingLeft`, `StatusIsUpstreams`, `CloseEnds`, `CallEnds` |
| `api_keys` | 3 keys, 2 sessions, 2 requests at a time, 4 in all | `SessionStaysWithSecret` |

*Bounds.* The gateway's instances have two chatgpt.com users, the first with a second
token an edit may bring: enough for a rotated token under a running dial, for a
conversation that could go to the wrong user, and for a retry that uses up both
accounts. One legacy conversation is enough: the gateway compares conversations with
nothing but the empty one and the stored one. `gateway` leaves out reports and uploads:
the sections of a report are those a title goes through before it asks the upstream, an
upload's are `bound`, `post` and `mark`, as a title's. `gateway_live` has both, and
leaves out releases, whose sections a dial that gets 401 goes through. Two concurrent
requests are enough for every two-actor race listed as a hazard: a third adds only
another of the same kinds. Three requests are a dial, a release or report, and a
re-dial. Two cookies are the one that is watched and another whose requests sweep; the
term of three half-seconds makes the stored copy end before the cached one; the second
restart follows a session that came back from the table. The limiter's lock is longer
than its window, so that a sweep in between must keep a counter whose window is over,
and its time is long enough for a lock to end and another window to begin. One
conversation suffices since rows do not depend on each other; one message, because what
matters is whether it is new. Two PATCHes are those of any two of the page's senders.
Two old tokens give a table half sealed; two crashes, one of each process. Pipes of two
items and requests and responses longer than that let every side block on every pipe.

Each property is broken by a mutant of the code's definitions (the operators commented
"Mutant of", used by nothing else): a dropped guard, a lost owner check, an account
forgotten, a conversation that is not dropped, a swapped order.

`BoundIsListed` and `ListedIsBound` speak of a session nobody is asking for (`Idle`),
and of behaviours in which the requests for one session do not overlap
(`OneAtATime`); the instance has one request at a time. With overlapping ones for one
session they do not hold (TLC finds both broken with `Requests = {r1, r2}`):
`ReleaseSession` unlocks before it marks the row, and a re-dial may bind and persist in
between. Nothing in the code says they should. That requests for other sessions may
run meanwhile is what the proofs add. `ListedIsBound` excepts the sessions in `late`,
whose row a report made active after hang-up or expiry.

*Fairness.* `RequestsAnswered` is checked under weak fairness of `LocalStep(r)` for
each request: the Go scheduler runs every goroutine, and no mutex is held across a
call that blocks. Nothing is assumed of `UpstreamEnds`, since with the launcher script
of the Docker image (`src/Dockerfile:97-99`) a call may outlive its timeout, as said
under "The deadline and the launcher". The property has it as a hypothesis instead: a
request that is not left waiting at `post` for ever, `[]<>~At(r, "post")`, is answered,
whatever hangs beside it. Arrivals, expiry, edits and restarts have no fairness: nobody
owes them. `StartsForGood` assumes that a process that runs
takes its steps and that compose starts the server whenever it ended
(`src/docker-compose.yml:15`, `restart: unless-stopped`); the command is owed nothing,
and crashes are finitely many by `MaxCrashes`. `CloseEnds` assumes the caller's and
the writer's goroutines, and that a launcher ends when its curl has; `CallEnds` also
that the deadline comes. Nothing is assumed of curl.

### What does not hold

`auth_logout` is the run that shows a disagreement between a comment and the code. The
others came up while modelling; the property that states the promise, or the exception
the checked property makes, is in the module named.

* **Logout** (`auth/auth.go:266`): `authenticate` reads the stored session without a
  lock and then puts it into the map. A logout in between has deleted both already; the
  cookie is in the map again and good until its term ends or the process does. What does
  hold is `LogoutOutlivesRestart`.
* **Legacy conversations** (`Legacy` of `VoiceService`; `voice/service.go:993-996`): "the
  chatgpt.com conversation_id is only valid for the account that created it" has the
  exception of the line after it. A conversation the page kept without an account is
  asked for with whichever account the LRU gives, another user's or not. What does
  hold, `ConversationStaysHome`, is that one dial asks for it with one account only: a
  401 drops it. Once the session is bound it stays with that account's user.
* **The rotation** (`PicksLeastRecentlyUsed` of `AccountPool`; `accounts/pool.go:361`,
  "preferring the least recently used one"): `last_used_at` has a resolution of one
  second and ties go to the lower id. Two picks within one second take the same account
  while another has waited longer. What does hold, `RotationUpToOneSecond`, is that an
  account is passed over only by one used in the same second.
* **Late reports** (`late` in `VoiceServiceListed`; `voice/service.go:182-183`,
  `callsessions/store.go:211-212`): a context report after hang-up or expiry makes the
  row active again (`callsessions/store.go:182`), without a binding; no expiry will ever
  release it, only the next restart. The comments explain the care taken so that rows do
  not look live when they are not.
* **Locking a title** (`LockOnlyKeepsTitle` of `Conversations`;
  `api/conversations.go:115`): a PATCH that only locks reads the title in one section
  and writes it in another, over a rename in between.
* **The title at hang-up** (`HangupKeepsLockedTitle` of `VoicePage`;
  `conversations/store.go:30-31`, `src/static/voice.html:4999`): the page looks at the
  lock before it asks the gateway for chatgpt.com's title and not when the answer is
  there. A rename meanwhile loses its title and its lock. What does hold,
  `QuietRenameStays`, is that a rename stays when no such request overlaps it.
* **Import before sealing** (`OncePerToken` of `StoredTokens` when `Imports` has an old
  token; `accounts/pool.go:280`): Upsert finds accounts by digest, and rows in plain
  text have none. The token is stored twice, and sealing the older row then runs into
  the unique index at every start.
* **The status through a proxy** (`StatusIsUpstreams` of `CurlTransport` without
  `~tunnelled`; `httpclient/curl.go:356`): with `--proxy` and `--dump-header -`, curl
  prints the proxy's answer to CONNECT first. It is not 1xx, so it is taken for the
  response.
* **The deadline and the launcher** (`CallEnds` of `CurlTransport` without what it asks
  of a launched curl; `voice/service.go:32-33`): os/exec kills the script; its curl
  keeps stdout and stderr open, so reading the header, or `Wait`, goes on while the
  upstream is silent.

## Proofs

tlapm proves, for all values of the constants (any number of requests, sessions,
owners, accounts, retries and edits):

* `AccountPoolProofs`: `PoolSafe`, `PoolTypeOK`, `TokensStayUnique`,
  `DisabledStaysConsistent`, `UsesStayOrdered`, `RotationHolds`. The
  inductive invariant is the conjunction of the four state properties; the
  rotation follows because `LastUsedOrdered` bounds the waiting account's time from
  above and the ORDER BY bounds it from below.
* `VoiceServiceProofs`: `GatewaySafe`, `GatewayTypeOK`, `OwnersStay`,
  `ConversationsStayHome`, `SessionsStayHome`, `KnownStayResumable`,
  `AttemptsStayCounted`, `OthersStayAvailable`; `GatewayKeepsPromise`, the refinement of
  `StickySession`; and, for requests that follow one another at each session,
  `GatewayListing`, `GatewayBoundIsListed`, `GatewayListedIsBound`.
* `AuthSessionsProofs`: `TermsAreKept`, `DenialsHaveCause`, `LogoutIsFinal`.
* `LoginLimiterProofs`: `LimiterTypeCorrect`, `LimiterLatePasswords`,
  `LimiterLockEarned`, `LimiterGuessesBounded`, `LimiterLockStands`.
* `ConversationsProofs`: `ConversationsAreNamed`, `UpdatesAreKept`, `DeletionIsFinal` of
  the handlers; `PageTypesKept`, `RenamesStay`, `CaptionsReachTheServer` of the page.
* `StoredTokensProofs`: `StartTypeCorrect`, `StartServesEveryToken`, `StartOncePerToken`.
* `ApiKeysProofs`: `SessionsStayWithSecrets`.
* `CurlTransportProofs`: `WholeBodiesAreWhole`, `NoneLeft`, `StatusesAreUpstreams`.

With these every invariant and every action property of a passing run is a theorem.

*Gateway.* Its properties are not inductive. That a user's conversation is asked for
with his token (`ConversationStaysHome` at `post`)
depends on the account id a request read from a binding or a row several steps ago,
on that id still leading to the same user after edits and deletions, and on nobody
having bound the session elsewhere meanwhile. `Safe` (in `VoiceServiceInv`) says so:
`Leads(a, u)` – account id `a` was handed out, and while it exists its token is one of
user `u` – of each binding, row, answer and request, and for every `pc` what the
request knows by then. Beside an account of user `u` the conversation is his, none, or
a legacy one (`GoesWith(u)`). The proof splits `Safe` by variable (`WorldOK`, `BindingsOK`,
`RowsOK`, `KnownOK`, `RequestsOK`). `Grows` collects what each step leaves true of
the world: ids keep their caller, their user, and deleted account ids do not come
back. Under `Grows` what a binding, a row or a request knows survives the steps of
others (`BindingKept`, `RowKept`, `RequestKept`), so each action's lemma has to
establish only what the action itself writes.

*Refinement.* `Safe'` after a step gives `AsksItsUser`, since what a request asks is
determined by its record. The rest is one lemma per kind of step: it opens, pins,
tells, forgets, or leaves the four other variables alone.

*Listing.* `Listing` (in `VoiceServiceListed`) says what a request knows of the binding
and the row of its session at each `pc`: from `bind` to `persist`, or to `sync`, the
binding is its own and fresh, and the row has no conversation that the request would
leave out; a binding that does not match its row is one whose row a request is about to
write. `RowsBound` says the converse of an active row. Neither is inductive without
`Safe`, which gives the types and the owners. A step writes one session. What it does to
the others is to reap those that expired, with their rows: `Untouched` states that,
`TablesUntouched`, `ReapedUntouched` and `WritesUntouched` prove it of each kind of
step, and `ListedByOwn` and `BoundByOwn` reduce a step to the request that moves, its
binding and its row. That a reap cannot fall between a binding's write and its row's is
the assumption on the TTL above, and `OneAtATime` that no other request for the session
does. It is a hypothesis on the behaviour, `Spec /\ []OneAtATime`, which clients keep
that wait for each answer.

*Authentication.* `DeniedForCause` needs two more facts. `TableKept`: a cookie that was
given and is not being logged out has its row until its term, cut to whole seconds, is
over, and an erased one has none. `Held`: the cookie a login is about to store is its
own, so no other request and no logout is about it. Other requests can then only add
copies of an expiry or take away expired ones, and what was buried at the last start is
nowhere.

*Login limiter.* `Safe` has a part for each property. `FewPast`: beside a lock, the
passwords that were compared past it and those still to be compared are fewer than the
goroutines; it is inductive because the login that locks is itself no longer one of
them. `Earned` ties each counter, locked or not, to the wrong passwords since its first:
so many lie within one window, and a lock is the last of them plus `Lockout`. `Guesses`
says of each counter that the failures since its window began are at most its count, and
those in the window before it at most `MaxFailures - 1`; where there is no counter, a
window has passed since the last. `LockStands` follows action by action from these: a
sweep keeps what is locked (`CleanedKeeps`), and a failure that comes while a lock holds
does not move it.

*Conversations.* `NamedOnceAnswered` is inductive with the types once a title that was
read is known to be one; `NoUpdateLost` because `Contexted` reads and writes the row in
one section; `DeletedStaysGone` because every writer of messages needs the row.

*The page.* For `QuietRenameStays` the invariant follows one rename: there is one such
PATCH at a time and the dialog waits for it (`Dialog`); while nothing overlapped, it is
the only PATCH and no hang-up is asking for a title (`Undisturbed`); once it is
confirmed the page's variables and the row are locked and no PATCH is left
(`Confirmed`), so that none of the automatic senders gets past its look at the lock. A
caption's `Spoken` leaves a locked title alone, and a reload reads the lock back. For
`CaptionsArrive`, `Captions` says of each message that its last version in the chain is
the page's and, where none is in the chain, that the server has the page's.

*Start-up.* `Table`: a row is sealed with the key of the environment, or an older
version left it. `Ahead`: what a process has passed of the list of migrations is
settled, whatever the other process or an older schema did. `Sealing`: what the server
has still to seal is all that is out of order, because what the command writes meanwhile
is sealed when it is written. `Importing`: the row the command updates has the digest it
looked up. Together they give `ServesEveryToken` for a server that serves. For
`OncePerToken` the unique index meets a token that arrives twice, since equal tokens in
order have equal digests; `StartOncePerToken` therefore has the hypothesis
`NoneOldImported`, that the import file has no token an older version stored in the
clear or with another key. Without it the property fails, as said under "Import before
sealing".

*API keys.* The invariant says that a key's secret is the one issued under its id, that
an admitted request has the secret of the id it carries, and that the owner id of a
session is one whose secret opened it. It rests on ids not coming back.

*curl.* `WholeIsWhole` needs the count of items: what was read and what is in the pipe
are what curl wrote; and a caller that finds a body whole has seen both processes gone
and the pipe empty. `StatusIsUpstreams` needs that without a proxy no answer to CONNECT
is in the pipe.

Assumptions: `ServiceAssumption`, `PoolBounds`, `AuthAssumption`, `LimitsAssumption`
(goroutines are finitely many), `ConversationAssumption`, `RequestsAssumption`,
`PageAssumption`, `TokensAssumption`, `SchemasAssumption` (old schemas consist of the
parts the model knows), `KeysAssumption`, `CurlAssumption`, all evaluated by TLC in each
run. The gateway's proofs use that `UserOf` is kept by edits through the guard of
`UpdateAccount`, as said above.

Only model-checked is liveness (`RequestsAnswered`, `StartsForGood`, `CloseEnds`,
`CallEnds`), which is out of the prover's reach, and `LogoutRevokes`, which
the code does not keep. The inductive invariants were checked by TLC before they were
proved, `Safe` of the gateway in a run, the others on the instances of their components.

## Not modelled

* **Store failures in the gateway.** A failing SQLite statement there is only logged by
  most callers; with it `KnownResumable` fails by design of the code.
* **The rest of the call in the browser**: WebRTC, reconnects, the microphone, and a page
  that goes from one conversation to another, whose timer may write to the wrong one.
* **CSRF**: the token is compared with the cookie and no state is kept.
* **`SessionStore.DeleteExpired`** has no caller in the program.
* **The rebuild of `accounts` and ids**: that AUTOINCREMENT starts anew there. It can
  happen once in the life of a database, before the state the gateway's module begins
  with.
* **The tls-client and go transports**, proxy resolution, the order of headers.
* **Cryptography, certificates, static pages, logging, parsing of configuration**: I/O
  and pure conversions without state the rest depends on.
