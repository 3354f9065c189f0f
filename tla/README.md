# Verification of the LinkedIn profile service

This directory holds TLA+ models of the service in `src/`, the TLC
configurations that check them on small instances, and TLAPS proofs for every
value of the constants. `PROJECT.json` is the index: which part of the code each
definition stands for (`map`), what each run checks (`runs`), the change of the
code that each property would catch (`mutants`), where the code disagrees with
its own documentation (`findings`), and what is hard to test (`hazards`).

To use it, in this directory: `tlasany M.tla` parses, `tlc -config X.cfg MCX`
checks, `tlapm XProofs.tla` proves.

## The system

The service answers "give me this LinkedIn profile" over HTTP. It runs in one
process on one asyncio event loop: everything between two `await`s is atomic,
and every `await` lets other requests in. That is the grain of all models here.

| component | state | operations | interacts with |
|---|---|---|---|
| session (`linkedin/session.py`) | health, rest, consecutive errors, last use, recent requests, cookies | `is_available` (ends an expired rest as a side effect), `cool_down`, `mark_dead`, `record_*`, `absorb` | owned by the pool, written by the client |
| session pool (`linkedin/session_pool.py`) | the sessions | `acquire` (least recently used, budget preferred), `report_success`, `report_error`, health | called by the client and the health routes |
| client (`linkedin/client.py`) | bootstrap lock, semaphore, pacing lock, time of the last request | `request`: acquire, bootstrap, pace, send, classify, redirect or retry | pool, LinkedIn |
| query ids (`linkedin/query_ids.py`) | ids, their origin, time of discovery, a file | `ensure_fresh`, discovery, `invalidate`, load, write-back | client, GraphQL tier |
| fetcher (`linkedin/fetcher.py`) | section semaphore, shared by all fetches | tiers dash, graphql, rest, html in order; the cards of the graphql tier concurrently | client, query ids, parsers |
| profile service (`services/profile_service.py`) | in-flight fetches | `get_profile`: cache, coalesce, fetch, sample | fetcher, cache |
| cache (`services/cache.py`) | entries with TTL, LRU order | `get`, `set`, `delete`; in-process or Redis | profile service |
| API (`api/`, `main.py`) | sliding windows of the rate limiter | routes, API key, limiter, error rendering | profile service |
| profile URL (`linkedin/profile_url.py`) | none | a pasted link to a public identifier | profile service, whose cache key it becomes |
| parsers (`parsing/`, `linkedin/html_fallback.py`, `models/flat.py`) | none | a response of each tier to a profile, a profile to a row | fetcher, routes |

Hard about it are: calls that share a session and report on it after another
call's verdict; a nested request under a lock that needs a permit others hold;
retry and redirect counters that interact with a pool that runs dry; discovery
shared under a lock, written to a file, read after a restart; requests that join
another's fetch and may be cancelled at any time; sections that fail, are
rejected or are cancelled while others hold permits; time that passes in between;
and four tiers that read the same profile from four different shapes of data.

What makes each part correct:

- pool: rejected sessions stay out, rests run their length, the least recently
  used session is well defined and nobody starves;
- client: locks are returned on every path, no API request without a CSRF token,
  no retry of a rejection, every call ends;
- pacing: the minimum gap, and a turn for everyone;
- query ids: the operator's ids win, one scan at a time, outdated ids heal;
- service: one fetch per profile, nobody aborts another's fetch, the cache is
  used and bounded, every request is answered;
- GraphQL tier: permits come back whatever becomes of a card, sections degrade one
  by one as far as they are guarded, and what is missing is said to be;
- limiter: no window holds more than its share, and Retry-After is the truth;
- parsers: whatever the tier, the same items, days and person; nothing on a card
  that the reader can follow is lost or attributed to something else; one cache key
  for one profile.

## The modules

| module | models | variables and the code |
|---|---|---|
| `SessionPool` | pool and session health | `state`, `cooldown` (ticks left of `cooldown_until`), `consecutive`, `older` (order of `last_used_at`), `recent` (`_recent_requests` by age), `leases` (calls that hold a session) |
| `VoyagerClient` | `request`, `ensure_bootstrapped`, `_handle` | the pool's variables and `hasCsrf`, `bootLock`, `permits`, and per call `pc`, `kind`, `active`, `frame` (attempt, redirects, last error; one for the call, one for its nested bootstrap), `result` |
| `Pacer` | `_pace` | `lock`, `pc`, `sleep`, `elapsed` since `_last_request_at` |
| `QueryIds` | the resolver and its use by the GraphQL tier | `ids`, `pinned` (origin "override"), `file`, `age` of the discovery, `uptime` of the clock, `lock`, `pc`, and LinkedIn's `build` |
| `ProfileService` | service, cache, tier loop | `entries`, `left` (TTL), `inflight`, and per caller `pc`, `profile`, `refresh`, `cancelled`, `on`, and per fetch `fetch`, `tier` |
| `GraphqlTier` | `_fetch_graphql` and its cards | per fetch `phase`, `card` (what has become of each card), `about`, `profile` (the sections set), `warnings`; `free` permits of `_section_semaphore` |
| `RateLimiter` | `require_api_key`, `rate_limit`, `check`, the Retry-After header | `now`, `hits` and its keys `known`, and two histories: `log` of what was admitted, `due` of what refused callers were told |
| `SlidingWindow` | what the limiter promises, without buckets | `now`, `log` and `due` |
| `Dates` | `dates.py` | operators: `StructuredRange`, `CaptionRange`, `Finish` |
| `EntityGraph` | `collection.py`, `merge_payloads`, `urn.py` | operators over lists of entities |
| `Components` | `components.py` | trees of components as functions from paths to nodes, walks over them as recursive functions of the path, and what a reader of the page sees |
| `CardSections` | `sections/experience.py`, `education.py`, `simple.py` | a mapper for each section of a card |
| `TypedProfile` | `dash_profile.py`, `rest_profile.py` | a mapper for each section of each typed tier |
| `Identity` | `sections/basics.py`, `_subject` and `_basics`, the top card of `rsc_profile.py`, the URNs and payloads in `fetcher.py` | whose profile it is |
| `ProfileUrl` | `profile_url.py` | slugs as sequences of pieces, encoded or not |
| `FlatRow` | the position columns of `models/flat.py` | the promoted position |
| `Parsing` | all of these at work | `read`: what was there, and what each parser made of it |

Each state machine has an `MC...` module that gives the constants values for TLC,
and a `...Proofs` module that extends it with theorems. For `Parsing` these are
`MCParsing` and `ParsingProofs`, which hold for the modules beneath it too: these
write recursion as recursive functions and select from lists with `Keep`, a
function of places, so that they can be proved about. `ParsingTerms`, between the
two, has no part of the model and no theorem: it names what the proofs say of
intermediate results, such as what a walk reaches or what a card of families is.

How they compose. `VoyagerClient` instantiates `SessionPool` as `Pool`: the
pool's actions are the sub-steps of the client's, `leases` is computed from the
calls (`pc` and `active`), and `UsesThePool == Pool!Spec` states that the client
implements the pool's specification, so what holds of the pool alone holds under
the client. The state "pacing" of the client is the whole of `Pacer`; the pacing
clock is left out of the client, where it would only delay `Send`. In
`ProfileService` a tier is one step with any of its outcomes; that it ends is
`EveryCallReturns` of the client. `GraphqlTier` is one of those tiers opened up: a
card's request is one step with any of its outcomes, a rejected query id is what
`FetchCards` in `QueryIds` starts from. `Dates`, `EntityGraph`, `Components`,
`CardSections`, `TypedProfile` and `Identity` extend one another in that order, as
the Python modules import one another.

`Parsing` is a state machine only in form. Each step builds something that
LinkedIn or a caller may send, from the parts in `MCParsing`; hands it to the
parsers of every tier; and keeps the result beside the truth it was built from.
The operators named `As...` write an item the way the fixtures under `src/tests`
show LinkedIn to write it; they are the external half of the comparison.

`SessionPool` is the abstract specification of what the client may do with
sessions; `VoyagerClient` the detailed one. `SlidingWindow` is the abstract
specification of the limiter: it remembers every request ever admitted, and at each
request counts those within the window afresh. `RateLimiter` has only its buckets to
decide by, which are trimmed when their owner asks and, once empty, removed when others
ask; `KeepsThePromise` states that nobody can tell the two apart.

### Abstractions

- Time is a clock of ticks. A variable holds the ticks left, or the ticks passed
  up to the largest that any comparison can see, never a timestamp.
- LinkedIn's answers are the classes `_handle` distinguishes, each possible at
  any time. Redirect targets, bodies and headers are only their class.
- Cookies are "has a JSESSIONID" (`hasCsrf`). It only ever becomes true, because
  `adopt_jsessionid` ignores empty values.
- `last_used_at` is its order (`older`). Session numbers break the initial tie as
  `min()` does.
- `consecutive` and `recent` stop at the limits they are compared with.
- A query id is the number of the LinkedIn build it was taken from.
- In `ProfileService` an outcome "session" is `AuthenticationError` or
  `NoHealthySessionError`, "refused" is not found or private. A fetch is named by
  the caller that launched it; that name is not used again while others await
  the fetch.
- In `VoyagerClient` a redirect lets other calls step in before the next
  `acquire` although the code does not suspend there; that only adds behaviours,
  and `HopKeepsSession` fails with or without them.
- In `QueryIds` a write-back leaves the file as it was, whole, or torn (`Torn`): it
  is written in place. Failed discoveries write nothing.
- In `GraphqlTier` a request that fails with an error of LinkedIn's and a list
  section's parser that fails are both "the card is missing". Three things end the
  tier instead (`EndsTier`): a rejected id, which the loop over the tiers handles, a
  request that raises anything but a `LinkedInError` (`CardRaises`), and the parsing of
  the top card and of about, which no guard surrounds (`ParsingRaises`). The latter two
  end the fetch with it, "crashed" here and in `ProfileService`. The about text, which
  either the top card or a card of its own brings, is a flag. What `asyncio.gather` does
  is in `Cancelled` (a cancellation reaches every section) and in `EndsTier` (an error
  reaches none).
- `RateLimiter` counts time in ticks, several to a second, because the header is
  cut to whole seconds. The histories `log` and `due` are read by no action.
- In the parsers a text is a word, a slot the sequence of its words (the facets
  between middle dots, the dates of a caption), a type the sequence of the parts of
  its name, a URN a kind and an id. Whether a given string is a date, a place or an
  employment type is part of the input. Dates have a year and a month. A single date
  is either the words of the card ("date", such as "Jan 2023") or in ISO form ("iso"):
  the card's mappers hand on the former, the typed ones make the latter (`InIso`).
- In a component tree a node the reader does not know is "unknown" if its parts stand
  where the reader looks anyhow, "opaque" if they stand under another key. Within an
  entity the reader looks under every key; outside of one it does not.
- Left out of the parsers: images, links, contact details, counters, industry,
  `resolve` and `deref`, the depth limit of 18 nodes of the walk, the wording of
  dates, the search for a URN in nested data (`fetcher.py:326`).

### Bounds

| run | instance | why it is enough |
|---|---|---|
| `pool` | 3 sessions, budget 1 per tick, rest 1, 2 errors in a row | three sessions make the order of use more than a swap; the budget is reached and forgotten; the limit of errors is neither the first error nor unreachable |
| `client` | 2 calls, 1 session, 1 permit, 1 retry, 1 redirect | both calls contend for the lock, the permit and the session; every counter is reached and exceeded by one. `client_hop` takes 2 sessions |
| `pacer` | 3 callers, delay 2, jitter 1 | two queue while one sleeps; every remainder of the delay occurs |
| `query_ids` | 2 callers, 2 queries, 2 builds, ttl 2, back-off 1, 1 restart | one scans while one waits; ids of both builds, partial discoveries, pinned and free queries, deployment before, during and after a scan |
| `service` | 2 callers, 2 profiles, cache of 1, 2 tiers, ttl 1 | one leads while one joins; eviction and expiry; a tier to fall back on. Larger numbers of callers are covered by the proofs |
| `limiter` | 2 keys and a wrong one, 2 requests per window of 3 ticks, 2 ticks to a second, 8 ticks, cleanup above 1 caller | the window passes twice, hits fall on both of its edges, the truncated header differs from the wait, and the cleanup runs |
| `sections` | 2 fetches of 2 sections, 2 permits | permits are contended within a fetch and between fetches; a tier fails with a section waiting and one sending |
| `parsing` | up to 2 items per section, 3 roles at 2 employers over 4 dates, trees four deep of texts, containers, unknown and opaque nodes and entities in entities, blank ones too, read one entity deep so that the limit is reached, 2 responses of 2 entities, 2 other people, 2 lines around a top card, 2 odd pieces in a slug | two items or entities are what order and duplicates take; three roles make a group, a break and a return to an employer; the dates are a year, the first and another month, and the next year |

`MaxLeases`, `MaxBuilds`, `MaxRestarts`, `MaxTime`, `MaxRoles` and `MaxItems` are
bounds of the models, and the sets of `MCParsing` bound what is read; the other constants are
parameters of the code.

### Fairness

- The clock ticks in `pacer` and `query_ids` (`WF Tick`). `client` and `service`
  need no clock: nobody waits for a rest to expire.
- asyncio runs what is ready (`WF` on the steps of a call).
- Waiters of `asyncio.Lock` and `asyncio.Semaphore` are woken first come first
  served, so one that is offered the lock again and again gets it (`SF` on
  `EnterBootstrap`, `TakePermit`, `Enter`, `BeginScan`).
- A request is answered or times out: the HTTP client has a timeout
  (`WF` on `Answered \/ NotAnswered`; in `GraphqlTier` `WF` on `Progress`, which is
  enough because a fetch asks for each card once and so ends whichever goes first).
- Healing assumes that scans which are tried again and again find each id that
  LinkedIn publishes at some time (`SF` on `DiscoveredAll`). This is an
  assumption about LinkedIn, not about the code.
- New requests are never assumed, except in `query_ids`, where healing needs
  somebody to ask (`WF EnsureFresh`).
- `NoStarvation` of the pool is stated under the premise that sessions keep being
  handed out.

## The runs

`pool` checks that health bookkeeping is consistent whatever the order of
verdicts (`InService`), that the order of last uses remains a strict total order
(`LruOrder`), that sessions come back only from a rest that ran its length
(`ReentryAfterRest`), and that a usable idle session is not passed over for ever
(`NoStarvation`).

`client` checks that permits and the bootstrap lock are out exactly while they
are needed (`LockDiscipline`), that API requests carry a token whoever obtained
it (`ApiCarriesCsrf`), that attempts, redirects and the error kept for the end
stay consistent (`AttemptsAccountedFor`), that a rejection ends the call
(`RejectionEndsTheCall`), that the client implements the pool (`UsesThePool`), and
that every call returns (`EveryCallReturns`): the nested bootstrap does not
deadlock with the permits because a permit is only taken after the lock.

`pacer` checks the gap and that everyone sends. `query_ids` checks that an
operator's id stays in use until, if ever, a restart finds the file torn
(`OperatorWins`), that one scan runs at a time and none is repeated
(`NoRepeatedScan`), and healing as long as the service is not restarted. `service`
checks coalescing (`OneFetchPerProfile`), the cache's size (`CacheWithinLimit`)
and use (`NoWastedFetch`), that `shield` keeps the fetch from a waiter's
cancellation (`WaitersDoNotAbort`), and that every request is answered.

`sections` checks that a permit of the shared semaphore is out exactly while a
card is being sent, also for the cards a failed or cancelled tier leaves behind
(`PermitsAccounted`); that a returned profile has every section with content and a
warning for each that could not be read (`NothingSilentlyMissing`); that sections
degrade independently as far as they are guarded (`SectionsDegrade`): after resolution
the tier fails only with a rejected id, and crashes only with a request that raised no
error of LinkedIn's or with the unguarded parsing of the top card or of about; and that
everything comes to rest, so that no fetch waits for ever for a permit
(`EverythingSettles`).

`limiter` checks that the buckets serve every caller as the whole history of
admissions would (`KeepsThePromise`), so that a hit dropped too early, one kept too
long and a wait reckoned from the wrong hit would all show; and that a caller who waits as told is admitted
(`RetryAfterIsEnough`): a second more than the header, because it is truncated and
because at exactly the end of the window the hit still counts.

`parsing` checks that dash, REST and cards agree with the truth and so with each
other on the items, sources, ranges and days of every list section, each telling a
single date in its own form (`SectionsAgree`), and on work and school, months
counted one by one and the promoted position included (`HistoryAgrees`); that the
tree of a legible card, in a response or bare, is flattened to what the page shows,
without loss or misattribution, against a definition by paths that does not walk
(`NothingLost`; `Legible` says what the reader cannot follow: entities in blank ones or
too deep, and parts under an unknown key outside of entities); that merging keeps one entity per URN,
the same by URN and by type (`OneEntityPerUrn`); that name, headline, id and URN are
the subject's in every tier (`OnePerson`); that the top card of a rendered page is
found between navigation and what follows (`TopCardFound`); and that links to one
profile, and only those, share a cache key (`OneKeyPerProfile`).

Four runs expect a violation. Each states what a document or a comment says:

| run | what the code does |
|---|---|
| `client_resurrection` | a call still in flight puts a session that LinkedIn rejected back into rotation |
| `client_hop` | after a redirect the request goes out on another session, without the cookies just set |
| `query_ids_restart` | discovered ids are reloaded as the operator's and never refreshed again |
| `query_ids_rejection` | a rejected id is used again before any discovery |

`client_resurrection` does not contradict `ReentryAfterRest`: the session comes
back through a rest, which is what the verdict of the other call gave it.

Other places where code and documents are not one, without a run:

- the budget per minute is a preference, not a limit (`session_pool.py:69`;
  `src/README.md:586` speaks of a per-session request budget);
- a 403 or 404 on the bootstrap's page is reported as one about the profile
  (`client.py:351`), and "every tier uses the same" credential (`fetcher.py:185`) is
  not so with two sessions;
- no caller ever gets RATE_LIMITED (`src/README.md:215`): a throttled tier is one
  failed attempt among others (`fetcher.py:192`);
- a sample is also served when sessions work and all tiers failed
  (`profile_service.py:152` against `sample_store.py:20-21`);
- the limiter's cleanup, meant for idle callers (`deps.py:91`), removes only empty
  buckets, and a bucket is never empty after a check;
- "the richer result wins" (`fetcher.py:420`): the rendered page wins only if the
  inlined payloads have no name, whatever else they have;
- "current positions first" (`dash_profile.py:229`): the order is by start only;
- "an explicit operator override always wins" (`query_ids.py:197`), and the write-back
  is there "so a restart starts warm" (`query_ids.py:107`): it truncates and rewrites
  the operator's own file in place (`query_ids.py:112`), so an error or a crash in it
  leaves a file that the next start ignores, the override with it;
- sections are fetched "each degrading independently" (`fetcher.py:287`) and "a parser
  bug must not sink the whole profile" (`fetcher.py:363`): one in the reading of the
  top card or of about does (`fetcher.py:281`, `fetcher.py:374`), and so does an error
  of a section's request that is no `LinkedInError`;
- both forms of a date "collapse to the same `DateRange`" so that mappers "never have
  to care which tier produced their input" (`dates.py:10`): ranges do, but the single
  dates of certifications, publications, honors, patents and test scores are "Jan 2023"
  from a card (`simple.py:80`, `test_sections.py:182`) and "2023-01" from the typed
  tiers (`dash_profile.py:287`);
- "rather than dropping the branch" (`components.py:113`): a branch under a key that is
  neither `components` nor known is dropped outside of entities.

The premises of the parsing properties mark where tiers do differ. They are not
oversights of the model but the limits of what holds:

- REST takes an item or position without any dates for a current one, because the
  entity stands in for its missing range (`rest_profile.py:69`); a school with a
  start year only is current in the typed tiers and not on a card;
- a certification whose caption says only when it expires gives that caption as its
  date of issue (`simple.py:80`); a date alone in a paired subtitle becomes the
  source; a degree with commas but without a field of study is split at the last;
- the subject's entity must come before those of other people: a subject without
  headline and summary is passed over for a person who has one, whose headline is
  then shown with the subject's name from the top card, and the dash tier never
  compares the subject with the profile that was asked for; the URN of a tier may
  be another entity's, since `"fsd_profile" in urn` also holds of positions;
- an entity without a text of its own is dropped with its children
  (`components.py:177`, `components.py:255`), one nested too deep and whatever stands
  outside of entities under an unknown key are dropped too, which is what `Legible`
  excludes; a grouped employer none of whose roles has a date becomes a role;
- on a rendered page a company with a comma is taken for the place, and a name
  that occurs again below the contact line moves the whole block.

## The proofs

All theorems hold for every value of the constants allowed by the named
assumptions (`PoolConstants`, `ClientConstants`, `PacerConstants`,
`QueryIdConstants`, `ServiceConstants`, `TierConstants`, `LimiterConstants`, and for
the parsers those below), which TLC evaluates on each run. Every invariant and
every action property that a passing run checks is also proved.

- `SessionPoolProofs`: `TypeCorrect`, `InServiceHolds`, `LruOrderHolds`,
  `ReentryHolds`, `ChoiceIsUnique`, `AcquireSucceeds`, `TurnsComeRound`. `InService` needs the types only: each step
  that raises the count either stays below the limit or ends service. The order is
  inductive as it stands, because `Touch` moves one session behind all others. From it
  follow that `acquire` finds exactly one session whenever one is available, because
  sets of sessions are well-founded under inclusion (`SomeoneIsOldest`); and the safe
  half of `NoStarvation`: whoever is chosen before an idle session is one of those older
  than it, and afterwards is not, so their number falls with each hand-out.
- `VoyagerClientProofs`: `LocksAreReturned`, `CsrfIsCarried`,
  `RejectionsAreFinal`, `AttemptsAreCounted`, `TypeCorrect`, `ClientImplementsPool`,
  `CallsAreBounded`, `CallsDoNotDeadlock`.
  The strengthening says where a call may be at each place, which is what makes
  "the lock is held by a call on the way" survive the steps of the other calls;
  the count of permits rests on the cardinality of the set of sending calls. The
  counters of attempts and redirects are preserved by each way round the loop
  once it is known which frame, the call's or its bootstrap's, a step works on.
  The refinement is step by step: initial states are the pool's, and each action
  is an `Acquire`, a report or a `Return` of the pool, or leaves its variables
  alone; the number of leases, computed from the calls, changes by the one call
  that takes the step. The last two are the safe halves of `EveryCallReturns`.
  `StepsLeft` counts the turns of the loop a call has left, attempts and redirects
  weighed against each other, and within a turn the steps to the answer and the
  turns of a nested bootstrap; each step of a call lowers it, the steps of others
  do not touch it. `NoDeadlock` is that whoever waits for the bootstrap lock or a
  permit waits for a call that can move, or for one whose permit another has that can.
- `PacerProofs`: `TypeCorrect`, `GapIsCovered`, `GapIsKept`, `QueueIsNeverBlocked`. `MinimumGap` is about the moment
  a caller leaves; it follows from `GapCovered`, that what is left to sleep plus
  what has passed is at least the delay, which ticks preserve.
- `QueryIdsProofs`: `TypeCorrect`, `OverridesWin`, `ScansAreNotRepeated`,
  `LateScansDoNoHarm`. The id
  in use, its origin and the file must be stated together (`FileKeepsOverrides`:
  whatever override is in use, the file holds it unless it is torn): a discovery
  preserves the id because of the origin, a write-back the file because of the id, a
  restart origin and id because of the file. That one scan runs at a time follows from
  "whoever scans holds the lock". `LateScansDoNoHarm` is the safe half of healing: a
  scan adopts what a page said some time ago, but nothing in use is newer than the page
  (`Orderly`), because nobody else scanned since; so no id goes back before a restart.
- `ProfileServiceProofs`: `ProfilesFetchedOnce`, `WaitersAreShielded`,
  `CacheIsUsed`, `CacheStaysWithinLimit`, `TypeCorrect`, `NobodyWaitsInVain`,
  `FetchesEnd`. That the cache holds a
  profile once is what makes a removal by index a removal, and is needed for the
  limit. The strengthening of the others: a registered fetch has a leader that still
  leads and a leading caller is registered, a running fetch has a leading caller,
  and with the in-process cache only a refresh goes past it. For the safe half of
  `EveryRequestIsAnswered`, `Awaiting` adds that a fetch is there as long as somebody
  awaits it, also after its leader has left; then whoever waits, waits for a fetch that
  is over or that its leader still runs, and `FetchLeft` falls with each of its steps.
- `GraphqlTierProofs`: `TypeCorrect`, `PermitsAreReturned`,
  `NothingIsSilentlyMissing`, `SectionsDegradeAlone`, `FetchesGoForward`,
  `FetchesAreNeverStuck`. Types alone are not inductive
  (why is a returned permit not one too many?): the inductive invariant carries
  the count of permits, which is the cardinality of the set of cards being sent,
  and for each phase which cards may be under way in it; `SectionsDegrade`, inductive
  with these, is part of it. The last two are the safe half
  of `EverythingSettles`: phases and cards have an order in which no step goes back and
  every progress goes forward, and until all is done some fetch can begin, some answer
  can come or some card can take a permit, because a card that waits while none is free
  has one that is being sent before it. This needs that there are sections to load
  (`TierConstants`), which the table of parsers has.
- `RateLimiterProofs`: `TypeCorrect`, `WindowIsKept`, `RetryAfterSuffices`,
  `ImplementsPromise`. The
  inductive invariant relates the bucket to the history: it is the end of the log,
  everything before it is older than the window, and it is ordered in time.
  `CleanupIsHarmless` is the lemma that the cleanup forgets no hit. `ImplementsPromise`
  is the refinement of `SlidingWindow`, step by step: once trimmed, a bucket lists
  exactly the requests the promise counts (`BucketIsTheRecent`), so both admit and
  refuse alike, and its first is the one the wait is reckoned from. `WindowIsKept` says
  on its own what callers get from it: of requests admitted to one caller,
  `MaxRequests + 1` in a row span more than the window.
- `ParsingProofs`: `SectionsReadAlike`, `HistoryIsReadAlike`, `NothingIsLost`,
  `OnePersonIsRead`, `EachUrnNamesOneEntity`, `TopCardIsFound`,
  `EachProfileHasOneKey`, `MonthsAreCounted`; see the next section.

### The parsers

`Parsing` remembers only what was read last, so its invariants say what the
parsers compute, and a theorem `Spec => []Inv` says it of every input: lists of any
length (`MaxItems` is any bound), any component trees, days, employers, people,
responses and links.
What is assumed of the constants is what the code is given: days have a year, are
not in the future, and each is before the next (`DaysAssumption`); the entities of a response have
a type (`ResponsesAssumption`); nobody beside the subject is a card
(`PeopleAssumption`); a link is a name with stray punctuation or a separator behind
it (`LinksAssumption`); a card is a finite tree in which every node but the root
stands below another and nothing stands below a text (`RootsAssumption`); the depth
of nested entities has a limit, which admits the roles below an employer
(`DepthAssumption`).

The argument has six layers.

1. *Induction without a schema.* An induction theorem that takes a predicate cannot be
   used with the installed provers, so `LeastNumber` proves from the library's theorem on
   well-founded subsets that a nonempty set of numbers has a least element, and
   `InductiveSet` and `Recursion` follow: a recursive function over `0..n` exists and
   satisfies its equation. Each further induction is over a set of numbers defined on
   the spot.
2. *Lists.* `KeepProperties` describes what is selected from a list by an increasing
   enumeration of the places kept, `OneEnumeration` says that there is one only, and
   `FlattenProperties` describes the concatenation of lists by their offsets. From
   these follow `DistinctProperties`, `ByTypeProperties`, `GetProperties` and
   `EntitiesProperties`, what the lookups of `EntityIndex` return for any list of
   entities, and the variants about what stands first (`ByTypeFirst`) or behind
   (`ByTypeBehind`) something else.
3. *The property's own matter.* `EachUrnNamesOneEntity`: the merged response
   enumerates the first places of URNs, by_type enumerates it again, and the two have
   one size (`SameSize`). `OnePersonIsRead`: a response that begins with the subject
   has the subject first among all the types searched, whatever comes behind, and the
   card, flattened (`SubjectCardIsRead`), names the subject too. `TopCardIsFound`: the
   name occurs last at the head of the block, and the block ends at the first contact
   line. `EachProfileHasOneKey`: cutting at the first separator and stripping leave
   the name alone. `MonthsAreCounted`: calendar months are in bijection with an
   interval of month numbers.
4. *The list sections.* `SectionsReadAlike` has two halves. A card of items without
   children is flattened to them (`CardIsFlattened`) and each is read as it was written
   (`CardTellsTheTruth`); by_type finds in a typed response exactly the entities of the
   section in their order, because no other type of the response ends like the section's
   (`OthersAreOther`, `ItemsAreFound`), and each tells its name, source and dates
   (`TiersRead`), single ones in the form of its tier. Ranges meet in `PeriodIsRead`: a caption
   and a structured range of the same period are the same range, counted as in
   `MonthsAreCounted`.
5. *Trees.* `NothingIsLost` compares what the walks of `components.py` find with a
   definition over paths that walks nowhere. Document order is a strict order
   (`BeforeIsStrict`), and what stands below one node comes before what stands below a
   later one (`BeforeTheNext`), so lists of what is found below each child, put one
   after the other, are in order (`OrderedFlatten`). `BottomUp` is induction from the
   leaves to the root. With it `WalkMapped` says once, for all three walks, what a walk
   that ends at certain nodes returns: the values of the nodes it reaches, in document
   order; and `WalkExists` that its equation has a solution. Flattening is such a walk
   whose values contain its own results, which `TellingExists` and `OneTelling` settle:
   nested records are determined by which node contains which. On a legible card the
   search comes to the outermost entities that show something (`TopsAreOutermost`,
   `CardIsFound`), and what is told of each is what the page shows there
   (`RenderedIs`, `CardIsRendered`), in a response and bare (`PayloadIsFlattened`).
6. *Careers and schools.* `HistoryIsReadAlike` follows a career of any length along three
   ways. On a card its roles are grouped into runs at one employer (`RunsOfRoles`: the
   runs, one after the other, are the roles again), each run is an entity over leaves
   (`FamiliesAreRead`), and the mapper tells a run from a single role
   (`SingleIsParsed`, `GroupIsParsed`), so that nothing is lost or doubled
   (`CardTellsCareer`). In the typed tiers `HistoryIsFound` separates positions from what
   else a response holds, and `SortedByOrder` shows that the stable sort by recency
   undoes any shuffling of roles that start at different times: as many roles are ahead
   of one as its place in the order says (`PlaceInOrder`), and every place is taken
   (`OrderIsFull`). An older page falls back from its entities to its cards
   (`PageTellsCareer`), and the row promotes the newest role that is still held
   (`NewestIsPromoted`). A school is one entity over at most one labelled text, whose
   subtitle is split where it was joined (`DegreeIsSplit`).

Only model-checked: liveness (`NoStarvation`, `EveryCallReturns`, `EveryoneSends`,
`HealsUnlessRestarted`, `EveryRequestIsAnswered`, `EverythingSettles`), because
fairness and ENABLED are beyond the prover. What keeps each of them true without
fairness is proved, as told above: that steps are bounded or lead forward, or that
nobody is stuck or sent back; missing is the step from there to "eventually". That the parsers agree is proved for the
profiles that `Parsing` can write; the expected violations remain what they are, runs
that refute what a comment or a document says.

## Not modelled

- Cancellation of a call inside the client, and exceptions of the HTTP library
  that are neither timeouts nor transport errors.
- Bundle downloads of the discovery, which use neither session nor permit.
- Cookies beyond the JSESSIONID: their values are LinkedIn's, opaque to the
  service, and no decision depends on them.
- Recorded samples: which answer they replace changes no state.
- Reading single strings (regular expressions for dates, counts, markup), images,
  links and contact details: a test reaches them one by one.
- Settings, logging, metrics, routes, rendering, the console page, the scripts:
  no state a decision depends on, or outside the service.

## What could follow

- The query id a waiting card carries (`fetcher.py:339`): `GraphqlTier` over
  `QueryIds`, so that a rejection can meet an id that was replaced meanwhile.
- Cancellation in the client, with its permit and its bootstrap lock.
- The attempts' errors of a fetch, to state which of them a caller should see.
