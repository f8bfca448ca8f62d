# A model of feedmerge

TLA+ modules for feedmerge, above all for the parts whose correctness depends on
order: fetching politely with many goroutines, keeping entries in a log that
crashes, refreshing a snapshot while readers use it and the process shuts down,
deduplicating what feeds copy from each other, telling caches the truth, and
reading back what was written: a query, a feed, a configuration. TLC checks the
modules on small instances (`tlc -config X.cfg M`), TLAPS proves the theorems of
the `_proofs` modules for every value of the constants (`tlapm M.tla`).
`PROJECT.json` lists the runs, the lines each definition stands for, the hazards
and the findings.

## The system

| Part | State it keeps | Operations | What makes it hard |
|---|---|---|---|
| Host limiter, `internal/fetch/ratelimit.go` | a one-place channel and a next time per host | `Acquire`, release | waits under no lock, cancellation while holding the token |
| Fetcher and pool, `internal/fetch/fetch.go` | cache of parsed feeds; per call: jobs, workers, results | `Fetch`, `FetchAll` | dispatcher and workers share the results, deadlines, hung upstreams |
| Entry log, `internal/store` | the file, its buffered writer, the index, two counters | `Open`, `Put`, `Purge`, `Compact`, `Close` | crashes between any two steps, short writes, a rename under an open handle |
| Merger, `internal/server/merge.go`, `health.go` | snapshot, last error, counters per source | `Refresh`, `Run`, `record` | the loop and the readers refresh, locks are taken one after the other |
| Handlers, `internal/server/http.go` and others | none | feeds, search, saved searches, `/healthz`, `/metrics` | several reads make one answer; the request's context drives a refresh; entity tags across refreshes and restarts |
| Merge pipeline, `internal/feed`, `internal/filter` | while `Dedup` runs: kept entries, two indexes | `Dedup`, `Apply`, `SortByDate` | what is compared changes with every merge; the order of the steps |
| `serve`, `cmd/feedmerge/main.go` | the select of main, a channel with the listener's error | start, listen, shut down | a signal, an error and readers in flight at once; the loop nobody waits for |
| Parser and encoders, `internal/feed/parse.go`, `encode.go` | none | `ParseBytes`, `WriteRSS`, `WriteAtom`, `WriteJSON` | fallbacks for id, link, body and date that must agree on the way out and in |
| Search, `internal/search` | an immutable index | `New`, `ParseQuery`, `SearchQuery` | phrases in joined tokens, bisection, half-typed queries, an echo that becomes a tag |
| Text, `internal/extract` | none | `Plain` | nested, unclosed and self-closing elements |
| Configuration, `internal/config` | none | `ParseYAML`, `finish` | a hand-written parser that stops where indentation falls back; uniqueness up to blanks |
| OPML, `internal/opml`, `cmd/feedmerge/opml.go` | none | `Parse`, `Write`, import, export | folders, duplicates, quoting |

`serve` loads the configuration and starts `Run` and the HTTP server. `Run`, and
any handler that finds no snapshot, call `Merger.Refresh`, which calls `FetchAll`,
whose workers call `Fetch`, which passes the limiter and uses the cache. Refresh
records the results in the health counters, merges, renders, and publishes one
immutable snapshot all handlers read. The entry log is a package of its own:
neither the server nor the commands import it.

What is correct, part by part:

- limiter: requests to a host are serial and an interval apart, no token is lost;
- pool: `FetchAll` fills every result once, in agreement with the cache, and returns;
- log: it can be opened after any crash, the index equals its replay, what was
  committed is never lost, and what was purged never returns;
- merger: no snapshot holds an older document than the one before, no reader
  sees one, the status endpoints tell one story, and everyone is answered;
- serve: a process that is told to stop ends, cuts off no reader and loses no error;
- pipeline: no two entries with one id, nothing kept that was met before, the
  first copy stands, filters see what is published, the newest are published;
- handlers: a 304 is sent only if a full answer would show what the reader's copy
  shows;
- formats: a published feed, read again, holds the same entries under the same ids;
- search: a query finds what it asks for, its echo means the same, and a
  half-typed phrase is a whole one; the index reads a body up to what is dropped;
- configuration: a file that loads was read to its last line; lists, titles and
  rules are read as they were written, and feeds survive export and import.

Where a text of the repository promises more than this, "Runs and bounds" says by
how much the code falls short.

## Modules

| Module | Models | Runs |
|---|---|---|
| `RateLimit` | the promise of the limiter: serial, an interval apart | as a property of `HostLimiter` and `FetchPool` |
| `HostLimiter` | `Acquire` and release, one action per step | `host_limiter` |
| `FetchAll` | the promise of the pool: every slot once, then handed over | as a property of the next one |
| `FetchPool` | one `FetchAll` with its workers, limiter and cache | `fetch_pool` |
| `DurableMap` | the promise of the store: a map that commits and survives | as a property of the next one |
| `Store` | the log, its writer, its index, the disk | `store_faults`, `store_broken`, `store_newline_corrupts`, `store_reopen_loses` |
| `Merger` | refreshes, health counters, handlers | `merger`, `merger_turned_away` |
| `Serve` | the process around `Merger`, from start to shutdown | `serve` |
| `Dedup` | deduplication, entry by entry | inside `Serving` |
| `Formats` | parser and encoders: from documents to entries and back | inside `Serving` |
| `Serving` | filters, order, cut, search, handlers, a caching reader | `serving` |
| `Extract` | the plain text of a body | inside the next one |
| `Search` | tokens, index, query language, the search box | `search` |
| `Yaml`, `Opml`, `Rules` | the YAML subset, subscription lists, filter rules | inside the next one |
| `Configuration` | config files, import and export | `configuration` |
| `HostLimiter_proofs`, `FetchPool_proofs`, `Store_proofs`, `Serve_proofs`, `Serving_proofs`, `Search_proofs` | the theorems | |
| `Store_lemmas`, `Serving_lemmas` | what they need to know of logs and of rankings | |

`FetchPool` uses `HostLimiter` as its limiter (INSTANCE), `Serve` extends
`Merger`, `Serving` extends `Formats` and that `Dedup`. `Merger` sees `FetchAll`
from outside, as the module of that name promises it and `FetchPool` implements it.

The `MC` modules give constants their values. In each module, a section of
plausible mistakes holds, for every property, one definition as a slip of the
hand would have left it; replacing the definition by it makes the property fail.

**HostLimiter.** `gate[h]` counts the tokens in the channel of a host, `next[h]`
is how far its next time lies ahead, `at[c]` where in `Acquire` a caller is, and
`wait[c]` its timer. `CheckNext` is the critical section between the two selects;
`StampNext` and `DrainGate` are the two halves of release. A context may end at
each select. `OneRequestPerHost` and `TimerCoversNext` are proved, not checked:
the refinement of `RateLimit` fails when either does. Fairness: time passes, a
goroutine that can run does, and a blocked sender is woken in the order of
arrival, hence strong fairness for `TakeGate`.

**FetchPool.** The sources have distinct URLs, as `config.finish` demands. The
channel is unbuffered, so `Dispatch` is the rendezvous of the dispatcher and a
worker. The cache is empty or left by an earlier call. A cached document is
current or outdated, and an upstream answers a conditional request by what the
cache holds. `left[w]` is the deadline of a Fetch, which runs from before the
limiter. All failures of a request are one outcome. `ImplementsFetchAll` is what
`Merger` takes for granted; a slot that is left empty, or written by both a worker
and the dispatcher, violates it. Fairness is that of goroutines and of the clock;
an upstream is never obliged to answer.

**Store.** An operation is a sequence of steps of the one holder of the mutex.
`file` is what the system shows, `synced` the prefix known to be on the medium,
`tail` what follows the last newline, `shadows` the older logs a power loss may
bring back under the name. Environment: fsync makes the file and its name
durable, as on journalling file systems; power loss keeps a prefix of the lines;
a rename is atomic. `Faults` selects what else may go wrong in a run. After a
compaction that could not reopen the log nothing is durable, but the next one that
succeeds makes file, handle and index agree again (`CompactionMends`). A batch
names no entry twice and none without an id, which `Put` skips; the buffered
writer writes whole records, and a short write stands for a flush within one.

**Merger.** A source contributes the version of its document, or 0 if it failed;
a snapshot is those versions, and all zeros is no snapshot, which is exact
because a merge without any document is never published. `FetchAll` is seen from
outside, as `FetchPool` shows it: it answers for each source, with nothing but
failures once its context is done. The three reads of `/metrics` and the two of
`/healthz` are steps.

**Serve.** Main, the listening goroutine, the refresh loop and the requests of
one process. `Running` guards every step of `Merger`, so that the process ends
where main returns. Of `http.Server` there is what main relies on: `Shutdown`
closes the listener and waits for the requests in flight. Signal and error of the
listener may both be there, and the select takes either. Fairness: `sync.Mutex`
hands itself to a waiter that has starved for a millisecond, hence strong
fairness for `Lock`; goroutines run, and a `FetchAll` that was started answers
(`FetchAllReturns`). The grace period is not obliged to run out, so that
`ProcessEnds` shows that a shutdown ends by itself. No fairness for `Run`'s loop
is needed, because nobody waits for it.

**Dedup.** `rest` is what the loop has not reached, `out` the kept entries,
`byID` and `byURL` the two maps. `Stages` gives for an entry the kept entries
each of the four stages would find, `Matches` picks the first of the first stage
that finds any, and `MergeInto` and `Keep` are the two ends of the loop's body.
Links stand for their normalized form; a text is the set of its words, a shingle
or a phrase being a word too; dates are small numbers, 0 if missing. `first` and
`seen` are history.

**Formats.** An item is a record of its elements; `Identified` is the chain guid,
link, hash, and a guid that is a URL is a member of `Link`. A date is its text and
what `ParseDate` makes of it. What the encoders write are such records again, so
`ReadAgain` is the parser on the encoders' output. `RelayKeepsEntries` chains
two of them, in either format: feedmerge reading feedmerge.

**Serving.** `Refresh` hands the entries of all feeds, as parsed, to `Dedup`;
`Publish` filters, sorts and cuts what it kept. `Ranked` is selection and stable
sort in one: an element's place is the number of those that come before it. Ids
are numbers, in the order of their strings, on which `search.go:97` falls back. A
snapshot's tag is its three rendered documents, of which the code takes the hash;
an answer (`Content`) is what is rendered or shown, too. What the documents leave
out (the origin of an id, a summary next to a body) no tag can see and no reader
misses. `Get` is a reader that sends the tag of its copy with every request and
stores a 200; `Restart` is the operator with an edited saved search: another
query and limit, or just another title. `Shown` is what a copy shows apart from
that title, which no tag covers. A score
counts matching words, three times in the title, in place of the weights of BM25,
which only change the order. Left out: author, categories and source as searched
fields, `*` and lists of tags in a request, revalidation by date, for which the
code gives no guarantee.

**Extract and Search.** A text is a sequence of characters, a tag one of them;
`Plain` folds over a body with the state of the scanner, and `Prose` says without
it, place by place, what the package's rules leave of a body. Two of these rules
are not a browser's: an embed is dropped with all that follows it, and an element
that closes itself is open at the top but not within another of its name. `Type`
adds a key to the box and every state of it is parsed and searched; `WriteBody`
adds a tag or a character to a body.
`HoldsTerm` bisects the postings as `sort.Search` does, `HasPhrase` looks for the
phrase in the joined tokens; `AsksFor` says what a query wants without either.

**Yaml, Opml, Rules and Configuration.** A file is a sequence of lines, a line a
sequence of characters, where names and `http://` are one each. `ParseBlock`,
`ParseMap` and `ParseSeq` are the functions of the same names, with the line they
stopped at. What `opml import` writes is cut into lines again (`TextLines`), since
it writes the URL of a feed that it skips as it is, with the line breaks in it.
`WriteLine` writes a file by hand, right or wrong; `AddOutline` grows
a subscription list at any depth; `TypeTitle` types a title, which is also tried
as the pattern of a filter rule, quoted and bare. `NothingIsLost` compares the
lines of a file that loads with the configuration it became. The parser is one
recursive function, which ends in an error as soon as a part of it does (`Then`).
`Opml` and `Configuration` use RECURSIVE operators and are only model-checked.

## Runs and bounds

| Run | Bounds | States | Why they are enough |
|---|---|---|---|
| `host_limiter` | three callers, two hosts, interval 2 | 5 856 | one holds, one sleeps, one cancels; a state strictly inside the wait |
| `fetch_pool` | three sources on two hosts, two workers, timeout 1, empty and filled cache | 109 100 | two fetches contend for one host, a source is left over when the dispatcher gives up, nobody owes an answer |
| `store_faults` | two entries, two times, four records, compaction from three on | 453 526 | an update, a purge and a compaction with operations before and after it, and every fault but the two of the next run |
| `store_broken` | the same, with a failing reopening and lost newlines | 57 796 | the states after which the log no longer follows the index |
| `merger` | two sources, two readers and the loop, three refreshes | 2 068 373 | one reader waits while another publishes; a snapshot, a failure, a recovery |
| `serve` | one source, two readers, the loop, main and the listener | 59 053 | a queue at the mutex when the signal comes, and an error next to it |
| `serving` | six items, up to three in a refresh, two refreshes, limit 2; three saved searches, two of them alike but for the title | 417 411 | every pair of stages competes for an entry, a chain of two merges, a cut, and a copy that outlives its snapshot and its configuration; ids of all three origins |
| `search` | two letters, a space, a quote and two signs, six keys; four documents; bodies of five parts | 289 129 | a signed phrase of two words, a stop word within a phrase, an element in a dropped element |
| `configuration` | 13 lines, five to a file; 15 outlines, three to a list; titles of four characters | 435 678 | two sections with items, a name under a feed that must be quoted, a folder in a folder, an escape next to a quote, tabs and line breaks in names |

Clocks, versions, refreshes and the length of the log are capped in the guards;
the caps are constants named `Max...`. Deadlock is checked except in `serve`,
where the process ends, and in `search` and `configuration`, where a text reaches
its bound; elsewhere the final states stutter by an action that says so, or do
not exist.

Three runs check a claim of the repository that the code does not keep, and fail;
`PROJECT.json` quotes each under findings.

| Run | What it shows | Said at |
|---|---|---|
| `store_newline_corrupts` | a lost newline corrupts the log | `store.go:148` |
| `store_reopen_loses` | a failed reopening loses what is put afterwards | `store.go:1` |
| `merger_turned_away` | a waiting reader is answered 503 although a snapshot exists | README.md:474 |

Other texts promise more than the code keeps, too. There the modules do what the
code does, and a property leaves out just the case in which the two differ:

| Property | Leaves out | Said at |
|---|---|---|
| `NotModifiedShowsTheSame` | the title of a saved search: the tag does not cover it, and after an edit of the title alone a 304 keeps the old one, although the edit is said to invalidate caches | `saved.go:137` |
| `FirstCopyStands` | an undated first copy that meets a dated one: it is said to be replaced, but only takes the date | `dedup.go:141` |
| `IndexReadsProse` | what follows an `embed`: it is dropped and void, nothing ends it, and the rest of the body is lost to the index (`Prose` has it so) | `extract.go:40`, `:57` |
| `ImportLoads` | lists with a line break in a URL: that of a skipped feed is written raw, ends the comment it should stand in, and the file does not load or says something else | `cmd/feedmerge/opml.go:87` |
| `NothingIsLost` | sections of the wrong kind (`Ignored`): `filters` as a mapping is read as no filters | `config.go:310` |

The instances of `serving`, `search` and `configuration` contain these cases: two
saved searches that differ in their title alone, copies with and without a date,
bodies with an `embed`, a skipped URL of two lines, filters without a list. TLC
refuted each of the claims there when it was stated as the text has it.

What else may surprise, without a run:

- two documents in one file are read as one, although README.md:87 says that they
  are reported;
- `/healthz` goes on answering ok after a refresh in which every source failed,
  although README.md:332 says that it describes the most recent fetch;
- a `Put` that fails in the middle and is retried skips the entries it has in
  memory and acknowledges them without a flush;
- the Atom document dates an entry without a date like the merge, so that who
  reads it sorts it first (README.md:430 has such entries last);
- a number or a duration given as a list is ignored like such filters;
- two URLs of a list that differ in a tab or a line break alone are written as one,
  twice, and the file is refused;
- a list item in quotes, with an escaped quote and a colon behind it, is taken for
  a key: such a rule can only be written bare;
- a snippet cuts the text at an offset that was found in its lowercased form.

`AcknowledgedSurvives` is stated of the log, and refuted by `store_reopen_loses`;
that what was *committed* survives holds with every fault of `store_faults`.

## Proofs

Every safety invariant, action property and refinement that a passing run of the
limiter, the pool, the store, the merger, the process, the merge pipeline and the
search checks is a theorem: for any number of callers, hosts, sources, entries,
readers and refreshes, any time, limit and word list, and texts of any length.

`HostLimiter_proofs`: the inductive invariant says who is inside a gate
(`GateHasOneOwner`), that a sleeper's timer covers the recorded time
(`TimerCoversNext`), and that whoever holds the gate holds it at a time that is due
(`HeldIsDue`); from it serial requests, conservation of the token, and the
refinement of `RateLimit`, step by step.

`FetchPool_proofs`: a step of the pool is a step of the limiter or leaves it
alone, so the limiter's invariant carries over with the workers as its callers.
`Placed` ties where a worker is in its Fetch to where it is in the limiter.
`SlotsOwed` says that no index is with two workers, and that a slot is empty
exactly while its index is with the dispatcher or a worker; from it every slot is
written once, and `FetchAll` is implemented. `CacheAgrees` follows a document from
the lookup through the conditional request to the result, and needs that only one
worker fetches a URL. Used of the constants: the sources are distinct
(`SourcesAssumption`), and as many workers as `FetchAll` starts.

`Store_proofs` has three inductive invariants, each on top of the one before.

| Invariant | Says | Faults excluded | Theorems |
|---|---|---|---|
| `IInv` | types and bounds; where an operation is; the log that compaction put in place holds what the index holds | none | `TypeCorrect`, `Mends` |
| `LogInv` | no line is glued to another; while the handle is good, the index is a replay of file and buffer, and each record changes what those before it left | `noeol` | `StaysReadable`, `Matches`, `Changes` |
| `CrashInv` | every prefix of the log that a crash may leave, and every older log, replays to values the map may be put back to | `noeol`, `reopen` | `Implements` |

That the index equals the replay is not inductive by itself: it must hold of the
buffer as well, it fails while the handle is stale, and a purge keeps it only
because its list names stored entries and none twice (`PurgesOnce`). The bound on
the log needs that the index never stores more entries than lines were counted.
The excluded faults are not for convenience: with a newline that a crash may take
alone, `store_newline_corrupts` refutes readability, and with a reopening that may
fail, `store_reopen_loses` refutes survival. `Store_lemmas` has what replaying a
log, one of its prefixes, an extension, or a compacted log yields. `Replay` gives
for each id the time of its last record, so that these lemmas need no induction.

`Serve_proofs`, merger: `IInv` adds to the types that the holder of `refreshM` is exactly
who is inside Refresh (`Exclusive`), that recording precedes counting (`Ahead`),
that what is being gathered lies between what is published and what the upstreams
serve (`Fresh`, `Bounded`), and how the streaks of failures relate to the last
error (`StreaksTell`); without `Bounded`, a published version says nothing of the
next. From it: types, the sum of `/metrics`, the agreement of `/healthz` with
`/metrics` between two refreshes, and that neither the snapshot nor any reader goes
back.

`Serve_proofs`, process: every step of it is one of `Merger` or leaves that alone,
so `ServeSpec` implies `Spec` and each theorem of the merger holds of the
process up to its end (`ServedReadersMonotone` cites one). `Orderly` adds that a
signal is never taken back, that main drains only after one, and that the
listener reports all well only when it was shut down; from it, a clean exit.

`Serving_proofs`, deduplication: uniqueness of ids is not inductive, because a
merge may rename a kept entry. `Resolved` says that the index of ids leads every
kept entry to itself, which implies uniqueness; `Met` that both indexes know
whatever was looked at. A renamed entry could break `Resolved` only by taking the
id of another kept one, but then the first stage would have matched that one. That
the first copy stands (`FirstStand`, here of every entry, also of those without a
date) is not inductive either: `Stands` adds that the source of an
id stays unless it was a hash, and then takes the id with it. The proofs use only
that the stages are tried in order.

`Serving_proofs`, publication: `Published` says of a snapshot that the filters
allow all of it and that it is in order; `Current` that it is the ranking of what
was kept, cut, whenever no refresh is under way, for an idle server has no entry
left to look at. From them what is published, and that nothing newer was cut.
`RelayIsFaithful` reads a snapshot back: `ReadRss` and `ReadAtom` say what becomes
of one entry, and a feed that is read again as RSS is still sorted. `CopyOK` says
that a reader's copy is an answer from some published snapshot under some
configured search, however old; `TagTells` then compares two answers with one tag,
whose rendered documents agree in all that an answer depends on (`Alike`). The
theorem is `NotModifiedMeansSame`, for any saved searches an operator may
configure one after the other; it leaves open under which title a copy is kept.

`Serving_lemmas` shows once, for dates and for scores, that `Ranked` lists what it
is given, each element once and in order: the places of two elements differ and
none is beyond their number, so every place is taken. Used of the constants: ids
are ordered (`IdAssumption`), a text has finitely many words (`WordAssumption`),
the absent id and link are not ids and links, and an entry whose id is its link
has one, as `assignID` makes it.

`Search_proofs`: the invariant of the box is small (`IInv`: documents, index and
texts have their types; `ModeRuns`: the mode is where the keys led), what the
theorems need is what the operators yield on texts of any length. The library's
induction takes an operator, so `Inductive` states induction of a set of numbers
and is proved by a least counterexample. `FoldExists` shows that the recursive
function behind `FoldLeft` exists and `FoldRuns` that it goes place by place;
`Tokenize`, `Join`, `New` and `Plain` are instances. `ParseQuery` looks ahead, to
where the next piece begins, and is shown to exist from the end of the text.

- `SearchFinds`: the postings of a word are the documents with it, in order, so
  bisection (`Cut`) finds the one it looks for. `Laid` says where each word of a
  joined text lies and that spaces are nowhere else; a phrase occurs between spaces
  exactly where its words follow each other.
- `IndexReads` relates the one-pass reader to `Prose`: its depth is the balance of
  the open tags of the element it skips (`Position`), and a blank it still defers
  ends a word as one already written does.
- `TypingOn`: a text with one key more is read piece by piece as before. If the mode
  is `phrase`, the last piece is an open phrase and every piece begins before it
  (`PieceInPhrase`), so the new quote closes it.
- `EchoReadsBack`: the texts of the echo lie one behind the other (`Placed`), each of
  them is one piece of it, and reading from the k-th on yields the query from its
  k-th text on (`Rest`), from the last to the first. Needed is what `ParseTyped` says
  of a parsed query: a word is letters, none is a stop word, no phrase is empty,
  and no term is required and excluded at once.

Used of the constants: no letter is a space, a sign or a quote, and collections are
sequences of documents.

Only model-checked: all of `Configuration`, because `Yaml`, `Opml` and it recurse
with RECURSIVE operators over nested lines, which the provers cannot reach; and
liveness (`AcquireReturns`, `FetchAllReturns`, `ProcessEnds`, `FeedRequestsEnd`),
for which they have no ENABLED.

## Not modelled, and the plan

Left out of the modelled parts: the weights of BM25 and snippets; XML, character
references, date formats, relative URLs, hubs, authors and categories in feeds;
JSON configurations, durations and most settings; home pages and dates in OPML;
revalidation by date and the listing of saved searches; the flags and the output
of `fetch` and `search`. They are conversions without state, whose cases a table
of examples tests as well. `internal/store` is not used by the commands, so its
model meets no other.

What could still be proved: that rules, groups and feeds survive being written and
read back, with the recursion of `Yaml` and `Opml` written as functions of the lines
and shown to exist as that of `ParseQuery` is.
