# eifo, in TLA+

Eifo keeps one catalog of what the streaming services of a country carry. A
*fetcher* reads the services and offers what it finds to an *API*, which alone
writes the SQLite database; a web client, an MCP server and a desktop tray sit
around the two. This directory holds TLA+ models of the parts of it that are
hard to test, the TLC configurations that check them, and proofs of the theorems
that hold for every value of their parameters.

| module | what it is |
| --- | --- |
| `Sync` | one source's sync, from the fetcher that reads the service to the rows the API keeps |
| `TwoStrikes` | what `Sync` promises, without timestamps, chunks or transactions |
| `SyncProofs` | theorems about `Sync`, checked by TLAPS |
| `Match`, `MatchProofs` | which title a listing is filed under, and what a ruling means to the next sync; its theorems |
| `FoldCache` | the folded catalog that requests share while they match |
| `Prefetch`, `PrefetchProofs` | reading several services at once while writing one at a time; its theorems |
| `Politeness`, `Storefront`, `Scrapers` | the limiter and the retries of the fetcher's requests; a store read through TMDB; eight services read off their own pages |
| `Nightly`, `NightlyProofs` | the daemon's two jobs, the lock, run rows, attempt notes, backfill asks; their theorems |
| `Enrich`, `SeretIndex`, `Ratings` | the due queue; the crawl of Seret's pages; requests that write scores |
| `RatingsProofs` | theorems about `Ratings` |
| `Artwork` | posters: files written before the rows that name them |
| `Merge` | duplicate titles folded into one, and titles given another TMDB id |
| `Access`, `AccessProofs` | members, sessions, tokens and connected apps; their theorems |
| `RateLimit`, `RateLimitProofs` | token buckets, and that lazy ones are as right as eager ones |
| `Shelves` | list entries, profiles, additions |
| `Picks` | what is recommended to a member, and the answers kept of it |
| `Browse`, `BrowseProofs` | the grid of the catalog, its totals, suggestions, what is new; their theorems |
| `Home`, `Toggles`, `Suggest` | the web client's catalog page, its list buttons, its search box |
| `Notes` | a note in the editor, in the page's reader and in the server's |
| `Queue` | the review page and the requests it makes |
| `Sidecar` | the companion's worker thread and the processes it supervises |
| `MCSync`, `MCMatch`, `MCMerge` | one module each, with the values its runs use |
| `MCCatalog`, `MCMachine`, `MCUpkeep`, `MCApi` | several modules side by side in one run |

Operators whose name begins with `Slip` are deliberate mistakes, each beside the
definition it would replace: a property that holds of the model and fails once
the slip is put in has shown that it can tell the difference. Nothing else uses
them.

## 1. The system

### 1.1 Components

State in *italics* is persistent.

**Catalog sync of one source** (`eifo_fetcher/pipeline.py`, `ingest.py`;
`eifo_api/routers/syncing.py`; `eifo_core/catalog.py`, `offers.py`).
State: *availability rows* (last_seen, miss_count, is_current), *fetch_runs
rows*, *parks*. Operations: `begin`, `take_chunk` (in two passes: what cannot be
matched without TMDB is handed back, looked up by the fetcher and offered
again), `finish` (judge the run, sweep, expire parks, close), the abandoned-run
sweep of `routers/ingest.py`. Hard: a chunk takes seconds between what it reads
and what it writes; two fetchers on one source are supported; a client gives up
while the handler carries on; a run is taken for dead by its age. Correct when
an offer is retired only after two consecutive believed syncs without it, no
failed or implausible run costs anybody a strike, each listing is counted once,
and a run's row says how it ended.

**Matching and the review queue** (`eifo_core/match.py`, `reviews.py`;
`routers/reviews.py`; `web/js/views/review.js`). State: *titles*, *TMDB aliases*,
*the source's own id on an offer*, *match_reviews*, in memory the folded catalog,
and in the browser a page of cards. Operations: match a listing (by the source's
id, by TMDB id or alias, by search hit, by name, by an earlier ruling; else park
it or create a title), attach / create / dismiss, one row or many. Hard: sessions
do not autoflush, so a chunk's own writes are not all visible to its queries;
rulings and chunks interleave; two people drain one queue; what was decided must
stay decided although every sync asks again. Correct when nothing is dropped, a
binding stands, an alias never becomes a title again, and what a reviewer is told
of a ruling is so.

**Reading ahead** (`eifo_fetcher/prefetch.py`, `runner.py`). State: bounded
queues, a thread pool, flags. Hard: blocking on full queues in both directions,
errors that travel behind data, shutdown with a backlog. Correct when every
stream arrives whole, in order and with its own ending, and nobody waits for good.

**Fetching politely** (`http.py`, `robots.py`, `browser.py`). State: the time a
host may be asked again, shared by all threads. Hard: threads queue for one host,
sleep without the lock and wake late; retries and blocked pages come back through
the same limiter. Correct when a host is asked no more often than its rate allows,
whoever asks, and no sooner than it said.

**Source plugins** (`sources/`, `tmdb.py`). Eight know one service each;
those that read TMDB share a walk over listings that move while they are paged
through. Correct when what a reading leaves out is said: an offer that is missing
without a word costs a strike.

**The nightly chain** (`daemon.py`, `lock.py`, `runner.py`, `runs.py`,
`attempts.py`, `heartbeat.py`; `routers/ingest.py`; backfill asks in
`catalog.py`). State: *the lock file*, *the attempt note*, *fetch_runs of all
phases*, *backfill_requested_at*. Hard: two scheduler jobs and the operator's
command share one lock; a killed phase; asks made while one is answered. Correct
when an ask outlives a failure and is answered in the end, and a dead phase's row
is closed.

**Enrichment** (`enrich.py`, `enrichers/`; `eifo_core/enriching.py`, `seret.py`,
`scores.py`; `routers/enriching.py`). State: *ratings, aggregate scores,
enrich_attempts, Seret's pages*. Hard: a queue that does not move while it is read,
partly refused batches, back-off, several requests that rescore one title. Correct
when every title comes up, a score that can be read is not slept on, and scores
settle on what the ratings give.

**Artwork** (`images.py`; `eifo_core/ingest.py`; `routers/ingest.py`). State:
*poster files*, *poster_path*. Hard: files and rows are two stores, written in
that order by uploads that overlap. Correct when a row names files that are whole,
and a poster that can be had comes.

**Merging and re-matching** (`dedupe.py`, `rematch.py`). State: every table that
names a title. Hard: a merge moves or folds rows of eight tables under unique
constraints, while members write. Correct when nothing a member kept, a service
offers or a provider said is lost, and two remakes are not taken for one.

**Accounts** (`eifo_api/sessions.py`, `oauth.py`, `oauth_server.py`, `deps.py`;
`eifo_core/tokens.py`). State: *the allowlist, sessions, API tokens, OAuth
clients, codes and refresh tokens*. Hard: one-time codes, rotating refresh tokens
and their reuse, sliding expiry against logout. Correct when what was ended holds
nothing, and a code gives one pair. **Rate limiting** (`ratelimit.py`): buckets
drawn on all or none, and forgotten when there are too many; correct when a caller
has what the promise leaves it.

**Members, lists, notes, people** (`members.py`, `items.py`, `notes.py`,
`people.py`, `routers/me.py`; `web/js/note.js`, `noteeditor.js`) and **additions**
(`additions.py`). State: *user_items, users*. Hard: a request writes
the columns it changed against a row it read earlier; a note is normalised by two
programs that must agree. Correct when a request does what it was asked and no
more, and a note comes back as it was written.

**Recommendations and scores** (`taste.py`, `scores.py`, `routers/catalog.py`).
State: answers kept for a while under a fingerprint of the member's lists. Hard:
lists and catalog change while an answer is worked out. Correct when an answer is
of the lists as they are, and its pages belong together.

**Web client** (`web/js`). State: the address, the grid, the stores of the page.
Hard: callbacks and answers that come late and out of order. **Sidecar**
(`sidecar/src`, Rust): a tray that supervises a server and fetcher processes from
a worker thread. Hard: a night, a backfill, an update and a restart falling due
together; settings that two threads save.

**Catalog and search** (`routers/catalog.py`, `search.py`). State: totals kept for
a minute. Hard: rows change between two pages, and between a total and the page it
belongs to. Correct when pages of a catalog at rest add up, a total is what this
member's question had for an answer a minute ago at most, and grid, suggestions and
news tell the same story of one set of rows. **Statistics, admin** (`routers/`),
**schema and settings**
(`models.py`, `migrate.py`, `fts.py`, `settings.py`), **maintenance commands**
(`cli.py`, `review.py`), the **MCP server** (`eifo-mcp`).

### 1.2 How they interact

The fetcher and the API talk over HTTP only: the fetcher has no database. Within
the API, each request is a thread with its own SQLAlchemy session. SQLite (WAL)
lets one transaction write at a time; a session reads what is committed until
its first write, and from then on holds the write lock and reads its own writes,
except what it has not flushed: `make_session_factory` turns autoflush off. The
ORM writes the columns that changed against what it *loaded*. These four rules
are what every model of the API builds on: a request is a read, a wait during
which others commit, and the rest in one step. Requests of one process share
the folded catalog and the kept recommendations without a lock. Within the
fetcher, prefetch threads hand items to the main thread through queues and share
the limiter; between fetchers on one machine there is a lock file, between
machines nothing. The browser runs one callback at a time, so there an action is
what runs between two awaits.

## 2. The models and the code

### 2.1 Sync

| model | code |
| --- | --- |
| `offers[x]` | the `availability` row a listing implies: `last_seen`, `miss_count`, `is_current` |
| `parks[x]` | `match_reviews.created_at` of the unresolved park |
| `runs[r]` | a `fetch_runs` row; `items` is `stats.items_seen`, `errors` is `stats.errors` |
| `requests` | chunk requests being handled: what the handler read when it started |
| `fetch[f]` | where a fetcher is in `sync_source` |
| `Begin`, `OfferChunk`, `OfferResolved`, `Refused` | `begin_sync`; `_ship` and `_send`; a 409 |
| `Commit`, `Clash` | `_match_chunk` to its commit; the unique constraint refusing it |
| `GiveUp`, `Crash`, `FinishFails` | a lost answer, a lost process, a lost finish; the handler may live on |
| `Finish` | `finish`: `looks_truncated`, `sweep_source`, `expire_reviews`, closing |
| `CloseAbandoned`, `Rule` | `_sweep_abandoned`; a reviewer's ruling on a parked listing |

A chunk request is two steps, because the handler reads the run and the rows,
matches for seconds and only then writes. Which listing is placed, parked or
deferred is free choice here: that is `Match`'s business. `Update` writes the
columns that differ from what was loaded, as the ORM does. `read`, `sighted` and
`parked` are history and guide nothing.

`TwoStrikes` is the promise: one sync at a time sights listings; one that ends
believed strikes exactly the offers it did not sight; `MissLimit` strikes in a
row retire an offer; a sighting wipes them. `KeepsTwoStrikes` is the refinement,
under the mapping in the last lines of `Sync`.

### 2.2 Match, Queue and FoldCache

`Match`: a chunk is one transaction over `db`; `committed` is what everybody else
reads. Offers a chunk wrote wait in `written` until some other write of the chunk
flushes them, which is what turning autoflush off does and why two listings of
one chunk can take the same title. `Match(l)` is `TitleMatcher.match` with its
strategies as alternatives in the code's order; `Settle` is the claim check every
automatic match goes through. How alike two names are is a constant
(`Likeness`), with the grades the thresholds make: "same" (an alias may be
recorded), "alike" (a match), "near" (a question), "other". `OpenReview` and
`Rule` are the two ends of a reviewer's request: `_unresolved` and the commit.

`Queue` is the same queue from the reviewer's side: `tab` is a page of
`review.js` - its cards, which are done, pressed, ticked and selected, and the
bulk bar -, `call` a request of `routers/reviews.py`, which loads its rows
(`Reads`), writes them (`Writes`) and is answered (`Hears`), or is not (`Lost`).
`Mount` opens the page again, with another order or source, while requests of the
old one are under way. A sync's sweep of old parks is `Sweep`.

`FoldCache`: `fold` is `FoldedTitles.by_kind` for one kind, `stamp` its `_Stamp`;
every request uses whichever is there. A new fold is emptied and stamped in two
steps, a kind is read and kept in two steps, a write is flushed and then told to
the fold in two steps. Other writers date their write before SQLite lets it land.
A name is the moment it was given.

### 2.3 Reading the services: Prefetch, Politeness, Storefront, Scrapers

`Prefetch`: `worker` is a pool thread in `_run_group`, `_read`, `_put` or
`_finish`; `main` is the main thread in `items`, `done`, `_drain` and `__exit__`,
driven as `runner.sync_all` drives them. An item is its number in its catalog.
`_put` and `_finish` look at the flags and try the queue in separate steps, so
that a flag may change in between.

`Politeness`: `nextAllowed` and `overrides` are the limiter's dictionaries. `Get`
starts a request or a page load, `Wait` takes a slot under the lock, `Send` is
the sleep's end, at its time or late, `Done` and `TryAgain` are the answer with
tenacity's back-off, a `Retry-After` or a reload of a blocked page. `SetHostRate`
is a plugin's override, `Tick` the clock.

`Storefront`: `FindProvider`, `Turn`, `Read`, `PageEnds`, `NextListing`, `AllRead`
are the nested loops of `TmdbProvidersPlugin.fetch`, `_fetch_kind` and `discover_by_provider`;
`PageLost` is a page whose request failed for good, counted by
`FetchContext.record_error`; `Move` is TMDB reordering a listing between two
pages. `truncated` and `errors` are what the reading says of itself.

`Scrapers`: one plugin reads what its service publishes, documents (lobbies,
screens, sitemaps, pages of a listing) of entries. `Gathers` is the loop before
anything is offered, `Lists` the plugin's `parse_catalog` - Lev keeps a film as
it was sold last, the others as they found it -, `MakoTurns`, `DisneyTurns` and
`Pages` are the readers that offer as they go. `NextItem` is the body of the loop
in `fetch`, with the price or the record that cannot be had; `Settles` the errors
that are counted together after it. `IndexLost`, `SitemapLost`, `Fails` and
`Forbidden` are requests that failed for good, pages that are something else and
`robots.txt`; `KeptOut` is a sitemap of the archive it bars.

### 2.4 Nightly

`job[j]` is where the nightly run, the poll and a fetch by hand are; the two jobs
of the daemon share a process and die together. `rows` are the `fetch_runs` rows
left RUNNING, told apart by phase and by whether they are a day old; `note` is
`attempts.py`'s file; `on` and `asked` the source's switch and its backfill.
`NightlyStarts`, `PollAsks`/`PollTakes` and `ByHand` are the scheduler's jobs and
the shell; `JobStep` goes through a phase - report the note, begin, open a row per
unit, close it, clear the asks -; `Dies` kills a process anywhere, `Toggle` is an
operator, `LocalCommand` a command that opens
the database itself and closes what is a day old.

### 2.5 Enrichment, artwork, merging

`Enrich`: `attempt` is a title's `enrich_attempts` row (how long it still waits),
`page` the titles a stored page can score, `run` a pass of `enrich.py` between the
page of due titles it was given and what it reports. `Crawls` and `RunStep` are
its requests, some of which fail (`Breaks`); `Day` lets waits run down; `Listed`
and `Folds` are titles that come to be offered and titles merged away.
`SeretIndex`: a crawl takes a slice of the pages longest unread, reads them in
order, sends every `SendEvery`, and stops after a streak of errors.
`Ratings`: a request loads a title (`Reports`, `Bulks`, `Rescores`) and writes it
when its turn comes (`Serves`), committed over what others wrote meanwhile. A
score stands for the ratings it was worked out from.

`Artwork`: `walk[f]` is a fetcher in `fetch_missing`, `uploads` the requests that
file renditions and then write rows; an archive cut off is refused whole
(`Refuse`); ids come and go, and the highest is reused.
`Merge`: `Dedupes` and `Rematches` make the plan, `Reads` and `Writes` are the two
halves of a group's transaction, with `Adds` - a member's list entry - in
between; `Adopts` gives a title the id TMDB names for it.

### 2.6 The API's callers: Access, RateLimit, Shelves, Picks, Browse

`Access`: `rows` are sessions, personal and access tokens, codes and refresh
tokens, a secret each; `served[r]` is a request between the look-up and the write.
`connected` and `traded` are history: what was approved, and which secret was
traded for tokens. `RateLimit`: `held` are the buckets, `recent` their order;
`promised` works out the same at every tick, as if nothing were lazy.
`Shelves`: a request loads an entry, a profile or a film and writes what it
changed (`Serves`); `Crashes` ends them all half way. `Picks`: `AskRow` and
`Open` are the row and the list, worked out in the order of the code's queries
(`ReadSeeds`, `FindSimilar`, `Choose`), each of which reads what is committed by
then; `kept` are `_for_you` and
`_recommended`; `Write` has its time before `Written`
has the lock. `Browse`: `Matching` and `Ordered` are the grid's two queries,
`Suggested` and `Arrivals` those of the search box and of the page of new titles,
all four asked of the same rows, which `Sees`, `Loses`, `Ends`, `Switches` and
`Says` change; `counts` are the totals kept, and `walk` a reader who turns pages
(`Begins`, `GoesOn`) for as long as the total promises more. A name is the words it
has; for each word that is searched for, constants say which words begin with it,
have it further in, or after a letter Hebrew glues to it. Filters that compare one
column of a title are the set of titles they let through.

### 2.7 The browser: Home, Toggles, Suggest, Notes

`Home`: `views` are the pages ever rendered, each with the filters it reads from
the address, its token, its grid; `asks` the requests on their way. A page of
titles is the question it answers. `Toggles`: `calls` carry the presses of list
buttons and ticks to the server and back; `store` is the page's copy, `kept` the
rows. `Suggest`: two timers, one of the list and one of the search, one request,
and the blur's delay. `Notes`: HTML as a sequence of tokens; `ReadNote` is the
page's walk, `Read` the server's parser, `WriteNote` and `Render` their two
writers. The one property compares the two programs over every page of a bound.

### 2.8 Sidecar

`w` is the worker and its processes, `saved` the settings on disk and `copy` the
main thread's. `Tick` is a turn of the worker, whole, but for the wait before it
starts the server again (`Retries`); `Clicks` are the menu's commands, `Settles`,
`Binds`, `Dies` and `Jobs` what processes do between the turns.

## 3. The runs

Modules that share no state are checked side by side: a combined run declares the
variables of its parts, chooses one of them at the start and lets it take every
step. It is the union of its parts' behaviours, no product, and each property
is its part's own. One part of each - `Match`, `Nightly`, `Ratings`, `Access`,
`Prefetch` - is extended, so that its properties are the very definitions the
theorems state, and the others are instances.

| run | what it asks |
| --- | --- |
| `sync_strikes` | `StrikesMatchStanding`: strikes and standing agree, whatever mix of columns two transactions left; `KeepsTwoStrikes`: the sync implements `TwoStrikes`, through crashes, refusals, lost answers and rulings |
| `sync_handshake` | `EveryListingCountedOnce`: deferral and second passes lose and double nothing, so the guard judges the true total; `NothingLostWithoutBelief`, `ExpiredParksWereNotSeen`: only a believed run costs an offer or a park, with two fetchers that overlap |
| `catalog` | matching (`AliasesHold`, `NothingDropped`, `BindingsStick`), the limiter (`HostsAreSpared`), a store and eight services (`ReadingsAreHonest`: a reading that ends well says what it left out, nothing sold is shown as free, and a service that turns its reader away costs no half catalog), notes (`NotesComeBack`), the search box (`TypistIsAnswered`), the review page (`ToldIsSo`) |
| `nightly` | `AsksOutliveFailures`: an ask stands until a sync of that source has begun, or it is taken back; `AsksEnd`: and one or the other happens; `StaleRowsClose`: the rows of dead phases are closed |
| `upkeep` | enrichment (`NoScoreSleptOn`, `EveryTitleComesUp`), the index (`EveryPageRead`), scores (`EveryScoreSettles`, `UnracedReportsCount`), merges (`MergesKeepEverything`) |
| `api` | accounts (`RemovedHoldNothing`, `EndedConnectionsHoldNothing`, `GivesOnePair`), buckets (`BucketsAsPromised`), lists (`DoneAsAsked`), the fold (`NoTitleMissed`), picks (`PicksAreCurrent`, half of `AnswersAddUp`), the grid (`AnswersAddUp`: pages of one list repeat and skip nothing, totals are the asker's own and of the last minute, what is unknown comes last in either direction, a suggestion is a preview of the grid, a title is there, gone, or only where nobody looks, and what a service was found to carry is not news), the catalog page (`GridAnswersFilters`, `UnhurriedAddressMatches`) and its buttons (`UnracedPressesAgree`) |
| `machine` | reading ahead (`WholeAndInOrder`, `ReadingEnds`), the sidecar (`UpdateStandsAlone`, `ServerIsPutBackUnlessAsked`), posters (`NamedFilesAreWhole`, `EveryPosterComes`) |
| `sync_late_chunk` | *violated* `FailedRunsSayWhy`: a chunk nobody waits for wipes the reason a failed run recorded |
| `match_ruled_again` | *violated* `RulingsStand`: a listing ruled on, whose title another listing holds, returns to the queue |
| `sidecar_restarts` | *violated* `AttemptsAreCounted`: a turn while the server settles forgets the attempts, so a server that cannot start is started for ever |
| `merge_remakes` | *violated* `RemakesStand`: a title without a year groups two remakes, and they are folded |
| `toggles_lose` | *violated* `NothingElseTakenOff`: a press on and off before the entries are read deletes the whole row |

Every module has a type invariant; `sync_strikes` lists `Sync`'s, which is also
proved, the others hold too and are not repeated as properties of the combined
runs. `CHECK_DEADLOCK FALSE` is said where bounded counters make the model stop,
and in `Machine.cfg` because posters and the sidecar come to rest; that the
threads of `Prefetch` do not lock up is what `ReadingEnds` says.

### Bounds, and why they are enough

*Sync.* Strikes need `MissLimit + 1` runs to go wrong in more than one way, and a
run that is not believed among them: 4 runs of one listing, by one fetcher. Every
query filters on source and title, so listings interact only through counts: the
handshake needs a full chunk, another, and a deferral, so 2 listings in chunks of
one, and a baseline and a run judged by it, so 2 runs; 2 fetchers make them
overlap. `GuardMin = 2` puts counts on both sides of the floor and of the ratio.
`AbandonedAfter` is small enough for a live run to be taken for dead.

*Match.* Six listings were chosen so that every strategy, and every pair of
them that meets on one title, happens: a near miss, two listings of one name with
ids, one renamed, one with a TMDB id, one that TMDB finds. `MaxTitles` and
`MaxReviews` cap creation; a night repeats without limit.

*Queue.* Two rows that carry the TMDB id of one film, a page with both, two
requests and one reload: a row ruled on alone while a selection with it is under
way, and a page that has gone while its request has not, which acts as another
viewer does. Two pages open at once, of one row each, were checked outside the
runs.

*FoldCache.* Three titles (one at the start, one inserted by each side), ticks
beyond an age of two: enough to be edited, written over, handed over and grow old.

*Prefetch.* A plugin with two sources, the first longer than its queue with its
end marker, and a plugin beside it: a reader can be blocked on data, on the
marker, and on the way to its next source.

*Politeness.* Two threads and one host: hosts share nothing but the lock. Three
ticks and five requests hold a retry, a reload, an override and a `Retry-After`
within one interval of another thread's turn.

*Storefront.* Two years' worth of films and a series, pages of one, a listing
longer than the pages that are read, two moves, two failures of which
`MaxErrors` end the reading.

*Scrapers.* Up to three entries of three films over two documents, with
screenings and broken entries among them, a film listed twice, one given away;
three errors in a row end a reading; FreeTV's listing moves once.

*Nightly.* Two sources, of which one is another fetcher's, two faults, one fetch
by hand: a phase dies, and so does the process that would have cleaned up.

*Upkeep.* Two titles through batches of one, so that one waits for the other;
five pages of which one each is withdrawn, empty, barred, and batches of three; two
requests that race on one film and its two providers; three copies of a title, as
a fold that folds again needs.

*Api.* Two requests of one account and one app see every race of two; six secrets
are a session and two generations of a connection; four turns hold an invitation,
a sign-in, an approval and an end. Three buckets are fewer than the keys that are drawn on. Two
pages visited, two moves, three pages of titles. Four films that are like one
another in one way each; two writes and two asks within a change of day and a sync.
Two titles of like names, one added by a member and without a score, the other
without a year, on two services of which one both rents and sells; two members who
leave their own out; pages of one, totals that outlive two moments of which any may
bring a change.

*Machine.* Two clicks and a fault around the app, one wait before a restart. Three
films, two there at the start, in batches of two: one whose image does not decode,
one whose renditions the server will not have, one left to TMDB.

*Notes.* Every page of up to four nodes of the common elements, every page of up
to two of all of them, and plain texts of up to four characters: a rule of either
reader is about a node, its parent and its neighbours.

*Suggest.* Three keystrokes and two blurs: the box is changed under a request, and
under each of the two timers.

### Fairness

Fairness is stated where something must happen, and only of what the code
schedules. The threads of `Prefetch` run, and a fetch ends because every request
has a timeout (`http.py`). In `Nightly` the polls recur and a job's calls are
answered or refused; the nightly run is strongly fair, since the scheduler tries it
every night and the lock is free again and again. In `Enrich` and `SeretIndex` a
night comes and its steps go on; in `Ratings` a request that was begun is served
and passes over the catalog recur; in `Artwork` the nightly walk recurs and the
server answers; in `Sidecar` the worker's loop turns, a starting process settles,
and a job that runs ends. Nobody is made to fail, to click, to drop a stream, to
fetch by hand or to write: those are free. Failures are bounded (`MaxFaults`,
`MaxOutages`), since nothing comes of a system that fails for ever. The other
modules are about safety: a fetcher may die anywhere, and nothing in the code
promises that a member comes back.

### What the code does not do

Five disagreements between the code and what is said of it are the violated runs
above, listed as findings. Others turned up on the way. Some have a configuration
that reproduces them, kept beside the runs (`tlc -config <configuration>.cfg
<module>`); the property named is violated:

| configuration (module) | property | what happens |
| --- | --- | --- |
| `SyncOverlapRevives` (`MCSync`) | `SeenOffersStand` | a chunk that loaded a row before another run's sweep writes back only the columns it changed |
| `MatchAttachRebinds` (`MCMatch`) | `BindingsStick` | a listing attached by a reviewer writes its own id over the one the offer was bound to |
| `MatchAliasSearched` (`MCMatch`) | `AliasesHold` | TMDB's search answers with an aliased id, which that path does not know for one |
| `MatchRuledTwice` (`MCMatch`) | `RuledOnce` | two requests read a review unresolved and both rule |
| `MatchSameChunk` (`MCMatch`) | `FiledIsBound` | two listings of one name in one chunk are filed under one title |

These were met while modelling, and are described only:

* *Matching.* Of two chunks at once, one may keep a fold it read before the
  other's title was committed, under the stamp that counts it; a deletion and an
  insertion by others, in the time of one chunk, cancel out in that count; an
  edit that lands while a chunk is matched is hidden by the chunk's next write. A
  ruling is found again by name, and answers for another listing of that name
  (`RuledInPerson`). A reviewer's `create` takes the park's TMDB id as it is, and
  makes a title of an alias.
* *Lists.* Two requests at one entry: a field one of them set is lost with the
  row the other deletes (`FieldsStand`). An addition that fails between the film
  and the entry leaves a film nobody asked for (`NoStrays`). Clearing a field of an entry that is not there is a server error; two
  such requests at one entry can leave a row that says nothing.
* *Recommendations.* With two requests that write, an answer may be kept under the
  fingerprint of a list another write has changed since (`catalog.py`'s docstring
  says a fingerprint cannot be stale); two requests that drop the same old answer
  race in `_total_matching`; `foryou.js` skips a page when it is scrolled while
  one is loading.
* *Grid.* What is new is dated by `_ADDED_AT`, "the earliest offer of any kind it
  has there", of offers that are current and were not found by the first sweep: a
  film that was found to rent and is later sold too is news, and one whose rental
  has lapsed is dated by its sale (`ArrivedOnMonday`). A title whose offers are
  current on a service that is no longer tracked is neither available nor gone.
* *Catalog page.* Hurrying, a viewer can see filters in the address that the grid
  does not answer: why `UnhurriedAddressMatches` is about a viewer who waits.
* *Search box.* A list of suggestions may open again after a choice, Escape or a
  blur; a title chosen within the search's delay is left again for the catalog.
* *Review page.* Clearing a selection stops at a card that has settled meanwhile
  and leaves the bar and the later ticks; a tick made while a selection is being
  ruled on stays ticked and unselected; a selection with two rows of one TMDB id,
  or one that a sync has swept, is refused whole.
* *Notes.* An inline style is read by the page and not by the server; "Saved" is
  shown although more was typed; a note within the visible limit may be refused for
  its formatting.
* *Posters.* A poster can be filed for an id that has been given to another title
  meanwhile (`PostersAreTheirOwn` is violated, and not a run's property); a forced
  upload, or two at once, may truncate a file a row names.
* *Politeness.* One thread's `Retry-After` does not hold the others back;
  `robots.py` fetches past the client every request is said to go through, and
  keeps an unreadable file as leave to read everything.
* *Storefront.* A source configured to read more pages than TMDB gives
  (`MAX_PAGE`) stops there without a word, as the limit that is compared is the
  configured one.
* *Scrapers.* Three things left out are only logged: a sitemap of the archive
  that `robots.txt` bars, FreeTV's listing once the cap is reached, and its
  listing when a page comes back empty before `totalCount`. A film the archive
  holds without streaming it counts as a page that could not be read, so its
  reading always has an error.
* *Sidecar.* Choosing a folder saves the main thread's stale settings over the
  worker's; the night is noted before it has started.

## 4. Proofs

Each theorem holds for every value of the constants its module's assumption
allows: the assumptions say of what kind the constants are, and nothing of how
many there are. The theorems and where their properties are checked:

| theorem | states | run |
| --- | --- | --- |
| `SyncProofs!StrikesAgree`, `SyncKeepsTwoStrikes` | `StrikesMatchStanding`, `KeepsTwoStrikes`, with one fetcher at a time | `sync_strikes` |
| `SyncProofs!CountedOnce`, `BeliefOnlyCosts`, `OwnParksStay` | `EveryListingCountedOnce`, `NothingLostWithoutBelief`, `ExpiredParksWereNotSeen` | `sync_handshake` |
| `MatchProofs!NothingIsDropped`, `BindingsAreKept`, `AliasesAreHeld`, `ReviewsAreRuledOnce` | `NothingDropped`, `BindingsStick`, `AliasesHold`, `RuledOnce`, each with what it takes (4.7) | `catalog` (all but the last) |
| `PrefetchProofs!ReadsWholeAndInOrder` | `WholeAndInOrder` | `machine` |
| `NightlyProofs!OnlyOneFetches`, `AsksStand` | `OneFetcher`, `AsksOutliveFailures` | `nightly` (the second) |
| `AccessProofs!RemovedAreOut`, `EndedAreOut`, `OnePair` | `RemovedHoldNothing`, `EndedConnectionsHoldNothing`, `GivesOnePair` | `api` |
| `RatingsProofs!ReportsCount` | `UnracedReportsCount` | `upkeep` |
| `BrowseProofs!ReadersAreToldTheirTotals`, `FindingsAreNoNews`, `PlacesOfTitles` | `TotalsAreRecent`, `FoundIsNotNews`, `EveryTitleHasItsPlace` | `api` (parts of `AnswersAddUp`) |
| `RateLimitProofs!BucketsKeepThePromise` | `BucketsAsPromised` | `api` |

and in each module but `BrowseProofs` and `RateLimitProofs` a `TypeCorrect`.

### 4.1 Sync: `SyncProofs`

From `SyncAssumption`:

* `TypeCorrect`: `Spec => []TypeOK`. By itself `TypeOK` is not inductive: a chunk
  writes over rows it loaded earlier, so the invariant adds that availability rows
  are never deleted (`RowsKept`), that a fetcher at work drives a run (`Driven`),
  and that an answer finds its client waiting (`Awaited`).
* `StrikesAgree`: `OneAtATime => (Spec => []StrikesMatchStanding)`. The columns
  are written by two hands - a sighting clears strikes, a sweep adds one - and the
  ORM writes only those that changed. `SweepInv` says what makes mixed columns
  harmless, with one fetcher and no orphan: rows are sound (misses within
  `MissLimit`, current exactly while below it, `last` not after the clock); in
  the run under way `last` is at or after the run's start exactly when the run,
  or a ruling during it, filed the row; and a row a request has loaded is still
  the row that is there unless a ruling has cleared it since. `Awaited` adds that
  a client waits for one request at a time and that a request knows its run.
* `SyncKeepsTwoStrikes`: `OneAtATime => (Spec => KeepsTwoStrikes)`, step by step:
  a finish that is believed is `Believe`, because `last_seen` older than the
  run's start is the same as not sighted; a commit or a ruling is `Sight`; the
  ends of other runs are `Disbelieve`; the rest stutter.

`OneAtATime` - one fetcher, and no request that outlives its client - is what the
lock file gives on one machine as long as the API answers. Without it these two
are false, as `SyncOverlapRevives` shows.

The handshake needs no such assumption, and its theorems are about any number of
fetchers and of requests nobody waits for. `HandInv` accounts for every
listing a fetcher has read: for one that nothing went wrong for (`Trusted`) what
its run has counted is what it has read less what it still owes - to ship, or to
look up and offer again (`Accounted`); a chunk in flight was taken from its stream
and is not yet in the count its handler started from (`InFlight`); nobody but its
own fetcher counts for a run (`OnlyMine`, `OwnRun`); a run that was judged has
neither requests nor a fetcher left (`Over`). So `CountedOnce`. From it
`BeliefOnlyCosts`: the guard compared counts, and the counts are what was read.
`OwnParksStay` needs only that a park is dated no earlier than the run that wrote
it (`ParkTimes`).

### 4.2 Reading ahead: `PrefetchProofs`

For every number of sources, plugins and threads and every depth of the queues
(`PrefetchAssumption`). `InTransit` is the heart: of a source the main thread has
still to come to, what has been taken, what the queue holds and what the source's
thread is about to put there are together what has been read, in order, with the
end marker last. That nothing else touches the queue needs `Places`: a plugin
has one thread and it goes through its sources upwards (`Alone`, `Untouched`), a
stream is open until its end is put, and where it has been put its thread is gone
(`Open`, `Closed`); and `Unspoilt`: no flag is raised over a source that the main
thread still wants.

### 4.3 The nightly chain: `NightlyProofs`

From `NightlyAssumption`. `OneFetcher` is inductive with the types. `AsksStand`
adds `JobsSound`: what a sync means to fetch was begun or is still in its list,
and the unit in hand was begun. An ask is cleared at the end of a sync, for what it
meant to fetch when its list is empty; so each of these was begun. The lemmas
`HeadAndTail` and `SetMadeSequence` are about the lists.

### 4.4 Accounts: `AccessProofs`

From `AccessAssumption`, for every set of accounts, apps and requests. The
invariant says what a request relies on between its look-up and its write: its
address may sign in (`LetIn`), its connection is approved (`Approved`), its secret
has not been traded (`Unspent`) - or it has been overtaken, and is marked. A step
is described once: `Shape` says what may become of rows and requests (kept, deleted
or made by a request that may), `Heeded` that whatever is withdrawn takes its rows
with it and marks the requests that looked it up before. The theorems follow from
these two and not from the actions one by one.

### 4.5 Scores: `RatingsProofs`

From `RatingsAssumption`. `UnracedAreCurrent`: a request under which nobody
committed holds its title's ratings, and which ids are free, as the tables have
them. What it writes and what it works the score out from are then the same
ratings (`ScoresWhatItWrites`).

### 4.6 The grid: `BrowseProofs`

From `BrowseAssumption`, for every catalog, set of filters, size of the cache and
time a total is kept. `TotalsInv`: while a kept total is young, it is what every
question of its key had for an answer when it was counted (`Backed`), what was
counted and not yet forgotten is at most `Ttl` old (`CountedLately`), and each
question was counted at this moment too (`CountedNow`). That one entry may answer
several questions is `KeysTellQuestionsApart`: whose question it is can be left out
of the key exactly while nobody's own titles are left out of the answer. So
`ReadersAreToldTheirTotals`, whatever the cache drops and whatever commits between
two pages. `NewsInv`: there is one row of each kind, and a title came to a
service when the first of its rows did; a sighting keeps the date of a row it
finds. With one row, `FindingsAreNoNews` follows. `PlacesOfTitles` needs no
invariant.

### 4.7 Matching: `MatchProofs`

From `MatchAssumption`, for every catalog, way of liking names, order of offering
and number of reviewers. `TypeCorrect` needs that a ruling which files a listing
names a title (`Named`), that a bounded set of numbers has a least and a greatest
(`LeastExists`, `GreatestExists`: a fresh id, a park's row), and one lemma that says
what all eight branches of `Match` do to a listing (`Handled`: filed, handed back,
dismissed, or parked over the open parks of its name). The other theorems hold of a
part of the behaviours each, named by a state predicate that TLC finds true in
every state of the `catalog` run's matching, and false where the code breaks:

* `NothingIsDropped`, `ReviewsAreRuledOnce`: while no two reviewers hold one row
  (`ApartAtWork`; else `MatchRuledTwice`). `QueueInv`: until a chunk writes it
  reads what everybody reads (`Lock`), it leaves rows that were ruled on as they
  are (`Respects`), what a reviewer is about to rule on nobody has (`Held`), and
  every listing the chunk took is to do or dealt with (`Accounted`) - where the
  dismissal that dealt with it may be somebody's who is not in the chunk, and has
  to outlast the chunk.
* `BindingsAreKept`: while a ruling gives nobody a title another listing has
  claimed (`RulingsTakeNothing`; else `MatchAttachRebinds`). `BindInv`: what is
  bound for everybody is bound to the same id in the chunk's tables and in the
  offers waiting to be flushed (`Kept`), and offers, aliases and rulings are of
  titles there are (`Pointed`), without which a title just created might already
  have an offer to lose.
* `AliasesAreHeld`: while neither TMDB's search nor a reviewer's `create` names an
  alias (`AliasesUnsought`; else `MatchAliasSearched`). `MergeInv` says the same of
  the chunk's tables.

### 4.8 Rate limits: `RateLimitProofs`

From `RateLimitAssumption`. `DrawsCount`: no two draws of a call share a bucket, and
the buckets of a limit are drawn from by the calls the limit counts, no others.
`FillsTickByTick`: filling up later is filling up now and once more, with the cap in
between. With the types of what is held, `BucketsAsPromised` is then inductive: a
bucket is worked out, left alone or forgotten (`StoredBucket`), and each agrees with
the promise. Which bucket is forgotten does not matter.

### 4.9 What is only model-checked

Liveness under fairness (`AsksEnd`, `StaleRowsClose`, `EveryTitleComesUp`,
`EveryPageRead`, `EveryScoreSettles`, `ReadingEnds`, `EveryPosterComes`,
`ServerIsPutBackUnlessAsked`) is out of the prover's reach, and so is what the
readers of `Notes` compute by folding over a page. In the combined modules the
other parts are instances, and their properties only checked: those of
`Politeness`, `Storefront`, `Scrapers`, `Queue`, `Suggest`, `Enrich`, `Merge`,
`Shelves`, `FoldCache`, `Picks`, `Home`, `Toggles`, `Sidecar` and `Artwork`. Of
`Browse` the three properties about order are: what sorting a set gives would be
proved by induction on its size.

Worth proving next: `NoScoreSleptOn` of `Enrich`, with one fetcher;
`UpdateStandsAlone` of `Sidecar`. That the buckets held by
`RateLimit` are those in `recent`, no more than the cap, is in its `TypeOK` and not
proved: it is about `SelectSeq`, which the prover knows nothing of.

## 5. Not modelled

* **Parsing**: what is found on the pages of the plugins and Seret's, RTF,
  addresses. No state, no order; the tests have recorded pages. What is parsed is
  a free choice, or an entry that is an offer, broken or something else.
* **How alike two names are** (`match.py`'s scorer), the arithmetic of
  `scores.py`, the schedule's dates: constants or grades here. Their tests
  enumerate them.
* **Maintenance commands** (`cli.py`, `review.py`), **pages of one title or person,
  genres, statistics and admin reads**, the **MCP server**: they print or translate what other
  components keep. The commands that change state are in `Merge`, `Nightly` and
  `Queue`.
* **Schema, settings, search index**: declarations and one-off migrations. The
  rules of `db.py` are in every model of the API.
* **Other pages of the web client**, layout, languages, the service worker; a
  note's toolbar and emoji; the taste page; the countries, exclusions and other
  sorts of the recommendations; similar titles of one title.
* **Of modelled components**: item validation and log lines of `Sync`; IMDb ids and
  kinds of titles in `Match`; PKCE and redirect checks, cross-site tokens in
  `Access`; a member's own services and lists' pages in `Shelves`; a rate of zero,
  robots rules and the browser's own waits in `Politeness`; scaling of images and
  files nothing names in `Artwork`; a server that cannot be spawned, a folder that
  is no checkout, notifications and the Keychain in `Sidecar`.
