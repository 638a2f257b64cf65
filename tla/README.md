# A verification project for micaps-web

micaps-web shows MICAPS weather data in a browser.  A Go server (`src/server`)
reads blobs (grids, images, soundings) from a Cassandra cluster and serves them
over HTTP; a Svelte client (`src/client`) lays them out in tabs and windows,
animates them and prefetches what the user is likely to want next.  This
directory holds TLA+ models of the parts in which several actors share state
and of the pure functions they rely on, the TLC configurations that check them,
and proofs checked by TLAPS.

1. The system · 2. The modules · 3. The runs · 4. Disagreements found ·
5. What is proved · 6. What is only model-checked, what is not modelled ·
7. What the models say of each part · 8. Plan

## 1. The system

Paths in `server/` and `client/src/` are below `src/`.

### The server

| part | source | state it keeps | operations | what makes it correct |
|---|---|---|---|---|
| Singleflight | `server/filecache/cache.go` 52-88 | map key -> call (WaitGroup, value, error) under a mutex | `Do` | one execution per key; no lost wakeup; a joiner gets the result of the flight it joined; every call returns |
| File cache | `server/filecache/cache.go`, `evict.go` | files `<key>.bin`, `.meta`, `.tmp`; atomic counters of bytes, entries and prefetched entries; a mutex | `Put`, `PutPrefetched`, `Has`, `Get`, `Touch`, `sweep`, `evictUnderLock`, `New`/`rebuildIndex` | entries are whole blobs; counters agree with the directory; the cap holds; a restart after a crash rebuilds all this |
| Blob source | `server/handler/blobref.go`, copies in `profile_handler.go`, `lineprofile_common.go`, a bypass in `derived_handler.go` | none of its own: cache + singleflight | `GetOrFetch`, `Warm`, `fetchGridLevel` | a caller gets its blob or an error; one Cassandra fetch per blob; nothing is fetched twice |
| Prefetch handler | `server/handler/prefetch_handler.go` | bounded channel of jobs; generation per scope; negative cache with a 30 s life; worker pool; stop channel | `Handler`, `processJob`, `Close` | superseded jobs do not start; failures are remembered; a full queue blocks nobody; `Close` returns; the cache and the client outlive the workers |
| CQL client | `server/db/cql_client.go` | one TCP connection, a mutex | `Query`, `reconnect`, `Close` | a query gets its own answer; every query ends |
| Queries, data handlers, derived fields, profile streams, parsers, start-up (but the order in which `cmd/main.go` closes its parts) | `server/db/*_queries.go`, `server/handler/*`, `server/cmd` | none shared, or a task channel per request | HTTP | not modelled (section 6) |

HTTP handlers and prefetch workers are goroutines; both ask the blob source,
which looks at the file cache, and on a miss runs a function in a flight of the
cache's singleflight: it looks again, queries Cassandra through the one CQL
connection, puts the blob and returns it.  The sweeper and every expired look
remove entries beside them.  The browser posts prefetch requests whose scope
and generation supersede one another.

### The browser

One thread runs everything, so there are no data races; but every `await`,
timer and callback lets any other handler run, and the state read before it
may be stale after it.

| part | source | state it keeps | operations | what makes it correct |
|---|---|---|---|---|
| Window loads | `App.svelte`, `services/presetLoader.js`, `weatherLoader.js`, `levelController.js` | per window: period, level, model, initialisation, `loadSeq`; per application `_sweepGen`, `_allocSeq`, `_forecastRefreshSeq` | time, level, model, preset, reload, focus and allocation handlers | rapid stepping converges on the last intent; the windows of a split keep step |
| Tabs and windows | `lib/stores/tabsCore.js`, `App.svelte`, `components/TabsBar.svelte` | the tab's windows with ids, presets, pins, marks of the split | add, close, reorder, split, deal out, pin, collapse, prune | ids are unique for ever; nothing leaks; what the operator loaded is not clobbered |
| Map cameras | `ui/tabs/windowMaps.js`, `actions/mapViewport.js` | camera of every map, a pending frame per map | move, mount, align, focus, change the view | maps follow without chasing each other, and agree at rest |
| API client | `api/apiClient.js`, `catalogApi.js` | TTL/LRU map of answers, map of requests in flight, map of keys the server has warmed | `fetchJson`, `fetchBinary`, prune, `warmServerCache` | an answer is that of its URL and fresh; the cap; one fetch per URL |
| Prefetch service | `services/prefetchService.js` | a timer, a hint and a generation per window | schedule, fire, cancel | what is warmed at rest is around where the window is |
| Profile and sounding panels | `layers/timeheight`, `lineprofile`, `tlogp`; `lib/stores/profilesCore.js` | state, cache and panel per window; one sounding panel for all | init, load, pick, hide, focus, close | a panel shows what its header tells; one panel is on the screen |
| Layers | `ui/layers/*`, `services/contourReRender.js`, `overlayTriggers.js` | the layer store and the panel's copy of it | eye, boxes, palette, bin, re-render | the map shows what the boxes say |
| Derived contours, legends, station filter | `services/derivedContours.js`, `lib/stores/legendCore.js`, `layers/station/*` | three lists of contours; map id -> legend; four copies of the filter rules | add, hide, remove, step, recolour | the copies agree; nothing starves, nothing that is gone comes back |
| Timeline | `components/TimeSlider.svelte`, `timeline/*`, `utils/timeResolver.js` | chips, index, loop, interval | step, play, scrub, change the step length | the highlighted chip is what was asked for; one interval fires |
| Observation windows | `presetLoader.js`, `levelController.js` | time, cursor, files of the timeline, files of the station layer | load, reload, step, history | the map shows the file of the window's time |
| Configuration editor | `components/ConfigEditor.svelte`, `ui/config/*` | the draft, the running configuration, the server's | edit, save, load, close | no edit is lost; a valid draft stays one |
| Keyboard and menus | `App.svelte`, `NavBar.svelte`, `PresetMenu.svelte`, `CommandPalette.svelte` | focus, highlight, query | keys and clicks | a key does one thing; what is highlighted is picked; what is picked is loaded |
| Pure functions | `appWorkflow.js`, `timelineSync.js`, `colormaps.js`, `paletteLoader.js` and others | none | allocation, offers, choice of files, colours | total, ordered, consistent with each other |

The parts of the browser interact by calls and by the stores.  The loads of
`WindowLoads` end in what `Layers`, `DerivedLayers`, `Legends` and the panels
draw, in the timeline's chips (`Timeline` takes a load as an external action)
and in a call of `schedulePrefetch` (`ClientPrefetch`); every request passes
`ApiCache`; the windows loads act on are those `Windows` adds and removes, and
what a split deals them is `Allocation`.

### What is hard about it

`PROJECT.json` lists the hazards line by line.  On the server the cache's looks
and the writing of temporary files happen outside its mutex, so they interleave
with everything; expiry is decided before the mutex is taken; a crash may fall
between any two file operations of a Put; two kinds of callers share a flight
whose value only one of them uses; the connection has one stream number, so a
late answer could be taken for another query's; the negative cache decides
under one lock and deletes under another; a shutdown meets workers in mid job.
In the browser a sweep loads the windows of a split one after the other while
newer sweeps, level steps, focus changes and allocations begin; sequence
numbers guard most awaits, not all; the same fact is kept in several copies
(layer and panel, preset and saved preset, draft and running configuration).

## 2. The modules

| module | models | how |
|---|---|---|
| `KeyedMutex` | (abstract) a mutual exclusion for each key | `holder[k]` |
| `Singleflight` | `Do` | `flight` is the map, `call[t]` the position of goroutine t in `Do`; `Lead`/`Join` are the critical section of the lookup, `Finish` the end of the function with `wg.Done`, `Unregister` the deletion, `Panic` a function that does not return |
| `BlobStore` | (abstract) what the cache promises: a lossy map with Puts and looks that take time | `store`, `put`, `look` |
| `FileCache` | the file cache | the directory (`tmp`, `bin`, `meta`), the counters, the mutex, and per goroutine the call in progress; one action per point where another goroutine or a crash can intervene |
| `BlobSource` | `GetOrFetch`, `Warm`, `fetchGridLevel` | extends `Singleflight`, uses the abstract `BlobStore` for the cache; `req[t]` is the request of goroutine t; a direct read fetches a cached blob that is no grid again, and then tries the other path of its level (`FetchAlt`) |
| `Prefetch` | the prefetch handler and the end of `main` | `handler[c]` an HTTP request at its current item, `worker[w]` a worker with its job, the queue, the generations, the negative cache; `unwound` counts main's deferred calls that have returned; `abandoned` the flights a panic left behind |
| `CQLClient` | `Query` and the connection | `wire` holds the queries and answers under way on the current connection, named by who asked |
| `WindowLoads` | the handlers that load windows | a run is an asynchronous function under way, its stage the await it is suspended at; `ldWin` what windows are set to, `ldShown` what they show |
| `Windows` | adding, closing, splitting, dealing out, pruning | the tab is one record, every operation a function of it |
| `Cameras` | the maps that follow each other | `cmFrames` the animation frames requested, `cmDark` the maps without a style |
| `Sublists` | what is left of a list when only some of its places stay (`OnlyAt`) | an operator of `Windows` and `ApiCache` |
| `ApiCache` | the data cache and the warmed keys | a sequence of entries in order of use, the register `acFlight`, the fetches, who joined which |
| `ClientPrefetch` | timers, hints and generations | a load ends and schedules; a timer fires and reads the place the window is at |
| `Profiles` | the three profile controllers | one program, `panelKind` says which runs; `pnCalls` the awaits |
| `Soundings` | the T-lnP panel | owner, station and sounding of the one panel |
| `Layers` | one gridded layer from the store to the map | the store, the drawn picture, jobs that carry the copy they began with |
| `DerivedLayers` | contours derived from soundings | the three lists that have to agree, and the loads that draw one contour after another |
| `Legends` | the legends of a window | id or element -> scale, under every caller |
| `StationFilter` | the filter of station plots | the rules in the store, the panel, the snapshots and the canvas; what the canvas draws |
| `Timeline` | slider, ruler, playback, loop | every action ends with the Svelte effects it invalidates (`Settle`) |
| `Observations` | a window of observations | time, cursor, files and samples against directories files arrive in |
| `ConfigEditor`, `ConfigDraft` | saving and loading the configuration; what the forms do to a draft | a copy of the configuration is the set of edits it holds; ids as sequences |
| `Keyboard` | keys, menus, palette, dialogs | a key goes from the focused element outwards, then to the window's handler |
| `TimelineMath`, `TimelineCases`, `Allocation`, `Offers`, `FileChoice`, `Colours` | pure functions | operators, tried on every input from small sets: a case is an initial state (`case`) and the properties compare results with what callers need |
| `MC*` | TLC instances | symmetry sets, sets of results, the tables of names and products |
| `*Proofs` | proofs | section 5 |

`FileCache` implements `BlobStore` (`ImplementsStore`), `BlobSource` is built
on `BlobStore` and establishes the assumption `BlobStore` and `FileCache` make
about their callers (`PutsKeptApart`: two Puts of one key are never in progress
together, for the `SharedKeys`, those `fetchGridLevel` does not read).  `FileCache`
implements the `BlobStore` whose every key is lossy, since entries expire; that
a key which fits and is not expired stays is `KeepsWhatFits`, and it stands
behind the keys of `BlobSource` that are not lossy.  The flights of
`BlobSource` are taken step by step from `Singleflight`, so a run of it shows of
`Do` as it is used that it implements `KeyedMutex` (`ImplementsMutex`).

`MCBrowser` puts the browser's modules side by side.  They share no variables:
`part` says which one a behaviour is of, the variables of the others hold
`Unused`, and `BrowserNext` is the next-state relation of that part, so that one
run adds the state spaces of the parts and never multiplies them.  Its
properties are guarded conjunctions: `LoadsSound` says `part = "loads" =>
IntentShown /\ SweepsCover`, and so on; a violation names the part.

The definitions named `Bug...` are single deliberate faults, each with a
property that notices it (`PROJECT.json`, "mutants"); no specification uses
them.

### Abstractions

* A blob is named by its length in `FileCache` (the counters count lengths) and
  by its key in `BlobSource` (so that a blob delivered to the wrong key shows).
  Names, JSON and SHA-1 keys are not represented; a sidecar is its size, time
  and prefetched flag, or `Garbled` while it does not parse.  Its field `left`
  is not on the disk and no step reads it: it marks a sidecar that is older
  than its blob, because the write of the new one (`cache.go:455`) failed when
  the file was opened, an error the code drops.  A write that fails later leaves
  a garbled one.  Removals do not fail.
* A file carries the set of goroutines that have it open: a rename moves the
  inode, and a writer that still holds it writes into the renamed file.
* `Bytes` counts the pairs of a file and a place in it, so that sums of sizes
  are cardinalities; `OnlyAt` keeps places of a list by their rank, of the
  client's cache as of a tab's windows.  Neither needs recursion, so theorems
  about them need no induction.
* Time is a tick counter bounded by `MaxTime`; `TTL` is in ticks.  Expiry of
  the negative cache is an action without a clock.
* `Get` reads the sidecar, makes its Stat and sets the mtime in one step, after
  the step that read the `.bin`.  The removals and the counter updates of a
  sweep, an eviction or a restart are one step: they are under the mutex, and
  nothing that runs without it can tell (a reader sees the file or not).
* A query in `CQLClient` that Cassandra answers with an ERROR frame counts as a
  fault of the network, because the code treats it alike.
* A panic of a fetch is recovered by net/http in a handler's goroutine.  In a
  prefetch worker nobody recovers it and the process ends, so `FetchPanics`
  does not apply to warmings.  What the handler's panic does to the workers is in
  `Prefetch`: one that joins the flight it left is `asleep` for good.
* The items of a prefetch request are those that pass the validation.  An empty
  blob is never stored: `GetBlob` returns an error for it.
* What a window shows is its initialisation, lead time, level and model
  (`WindowLoads`) or the preset it holds (`Windows`).
* Some variables record that the code took a path on which a promise does not
  hold; the property excepts exactly those states, and section 7 says which
  lines they come from: `ldHole`, `ldMixed`, `wnLate`, `cmMissed`, `pfLate`,
  `snGhost`, `behind`/`crossed`/`strayed`/`hollow` of a profile, `lyOdd`, `dcOdd`,
  `dcGhost`, `lgOdd`, `ftOdd`, `obOdd`, `ceOdd`, `cdOdd`.  They are set by the action in
  which the code leaves its promise, never by the property's failure.

## 3. The runs

| run | instance | shows |
|---|---|---|
| `src` | 2 goroutines, each request after request, over 4 blobs: `steady` is read and warmed in a cache that keeps it, `lossy` may get lost, `mixed` is read by `GetOrFetch` and `fetchGridLevel` and its fetch may panic, `spare` is the other path of it and no grid | types; one runner per key, no lost wakeup, entries belong to leaders (inside the composed system, with panics); one fetch and one Put per blob; nothing is fetched twice; a warmed blob is stored; a reader gets the blob it asked for, `fetchGridLevel` that or the one of its other path; every request is answered unless the fetch of its own blob may panic; the flights refine `KeyedMutex` |
| `fc_cap` | 2 goroutines, 2 keys, blobs of 1 and 2, cap 3, 3 Puts, 1 crash, one tick within the TTL | exact counters, the cap, nothing is evicted that fits, the restart |
| `fc_expiry` | 2 goroutines, 1 key, TTL 0, cap 2, 2 Puts, disk faults, 1 crash | no torn read, entries that are whole or have the sidecar a failed write left behind, refinement of the lossy `BlobStore`, every call ends |
| `pf` | 2 requests of one item, 2 workers, 2 generations of one scope, queue of 1, one key whose fetch may panic, the end of `main` | queue bound, no superseded job starts, the cache and the client are closed after the last worker; `Close` returns and the queue drains, unless workers sleep in a flight that a panic left behind |
| `cql` | 3 goroutines, 2 dials per reconnect, 4 faults | own answers, clean connection, every query ends |
| `browser` | the seventeen parts of `MCBrowser`, one after the other | types and the properties of section 7; what a tick of the playback and a change of the windows may never do (`StepsSound`) |
| `src_nil`, `fc_torn`, `fc_overcap`, `pf_negative`, `shading`, `clobbered` | the smallest instance that shows it; `clobbered` (`MCWindows`) searches the behaviours without pins, removals and previews (`Plain`) | section 4 |

Bounds on the server.  The properties of a key concern the calls of that key
and the counters it shares with others, so two keys and two or three goroutines
contain every conflict; a third goroutine is there where a conflict needs a
pair and a witness (two that share the connection and one that finds it broken).
In `src` two are enough: a goroutine asks again once it is answered, so the leader
of one flight is the latecomer of the next, and all of its properties but the
liveness are theorems for any number of goroutines.  What a key goes
through is configured per key (`Kinds`, `LossyKeys`, `PanicKeys`), which puts
the three situations into one run: a request for one blob runs beside requests
for the others, and a property that cannot hold of a key exempts that key by
its configuration, not by leaving the situation out.  Cap 3 with blobs of 1 and
2 makes an eviction of no, one or two entries possible; the third Put is the
first that can evict two.  TTL 0 with one tick makes a fresh, an expired and a
renewed entry possible.  In `Prefetch` two requests are the least that
supersede one another, and with a queue of one the second is dropped if no
worker took the first.  Four faults allow a timeout, a lost connection and a
reconnect whose dials all fail.

Bounds in the browser.  Every part bounds the number of the operator's actions
in a behaviour (`MaxCalls`, `MaxOps`, `...MaxOps`), never what the program does
about them: awaits, timers and callbacks run out by themselves.  The counts are
two where a property is about two handlers across each other (`WindowLoads`:
two handlers over two windows, of which a sweep makes several loads; the
prefetches: two steps over two windows; the editor: two edits, a change of the panel and
three clicks, the least with which a save and a load cross an edit), three to six where the state itself has
a history (windows are split, dealt out, dragged and pruned: four operations on
five windows; a filter is loaded, changed and loaded again: three).  Two windows
are the least with a neighbour, three maps the least of which one follows one
that follows; two levels, models, stations, palettes and views are the least
that differ; the cache has one entry of room, two urls of its field and a
listing, so that an alias copies, a cap evicts and a bypass crosses a fetch.
The pure functions run on every input from the sets `MCBrowser` gives: a day's
listings of every subset of six times for the timeline, the kinds of product
the configuration ships for the offers, names with every fragment the palettes
test for.  The parts of `DisplaySound` have also been run with more operations
than the configuration gives them (the layers with six, the legends with eight,
the derived contours with five).  Two promises held at four only because of the
bound: a fill computed for a view the ledger does not note (`Layers`, at six) and
two legends of removed layers that both stand for the next one (`Legends`, at
eight, each told by a late fetch).  `Strayed` and `LegendsUnique` now say what
holds at those bounds as well.  `CHECK_DEADLOCK FALSE` stands where a bound (clock, Puts, requests,
operations) or a deliberate stop (`Close`, a panic) ends the behaviour.

Fairness.  `SrcFairSpec` and the `FairSpec` of the other modules of the server
assume that a goroutine that can run is scheduled (weak fairness per
goroutine).  Where a step takes a `sync.Mutex` it is strongly fair: after a
millisecond's wait the mutex is handed to its waiter.  A function in a flight
ends because the CQL client sets a deadline on its socket.  One that panics does
not end its flight: `cache.go:81` skips `wg.Done` and the deletion, so who joins it
later sleeps for ever.  Nothing makes such a worker move (`WarmSleeps` leads to
`asleep`, which no step leaves), and `CloseReturns` and `QueueDrains` say that they
then do not hold: `wg.Wait`, and with it the shutdown, hangs.  Nothing is assumed
of requests, crashes, `Close`, the clock, the sweeper or the network.  The
browser's properties are safety properties: "at rest" is a state in which
nothing is under way, and no fairness is needed to say what holds there.

## 4. Disagreements found

Six runs end in a violation, on purpose; `PROJECT.json` "findings" quotes the
line each one contradicts.

* `src_nil`: a read joins the flight of a warming.  The warming's second look
  finds the blob another request has just stored and the flight returns
  `(nil, nil)`; the reader gets no blob and no error and fails to decompress it.
* `fc_torn`: two Puts of one key share `<key>.tmp`; the second truncates and
  rewrites the file the first renames.  Two such Puts exist because the derived
  fields (`derived_handler.go:153`) fetch and put beside the flight of the same
  key, although `Architecture.md:1948` promises one fetch per blob;
  `OneFetchPerBlob`, `PutsKeptApart` and `NoRefetch` therefore speak of the
  keys that `fetchGridLevel` does not read, neither first nor as the other path.
* `fc_overcap`: two looks at one expired entry subtract its size twice, so the
  counter is low and later Puts exceed the cap.  `CountersExact` and
  `CapRespected` are therefore checked within the TTL (`fc_cap`), and expiry is
  checked for everything else (`fc_expiry`).
* `pf_negative`: a stale failure is deleted after a worker renewed it.
* `shading`: ticking one of the exclusive boxes "fill" and "raster" writes the
  other to the panel's copy only; the next load computes the fill again and both
  are on the map, although `Architecture.md:1218` calls them exclusive.
* `clobbered`: in a split of two with a third window in front, the second is not
  visible; when the split grows to four, `prepareSplitWindows` keeps the first two
  places of the list and the second window, loaded by the operator, is dealt over,
  although `tabsCore.js:1388` says that no window outside the visible split is.

Others were met and are kept as definitions no run checks, or as exceptions of
a property: `CacheServesItsKey` (`Profiles`; `lineHeightController.js` 372-383: a
section from the cache leaves the load under way alone, which caches its
section under another key), `LevelsConverge` (`WindowLoads`;
`progress/ui-review2.md:113`: level sweeps have no generation, and two of them can
leave the windows of a split at different levels), and those of section 7.

## 5. What is proved

Eight modules hold the proofs.  Each theorem is for every value of the
constants that satisfies the named assumption of its module.  The assumptions
say what kind of thing a constant is (sets of goroutines and keys, naturals,
`None` not among the values) and that the sets whose sizes are counted are
finite.

| module | theorem | says |
|---|---|---|
| `BlobSourceProofs` | `TypeCorrect` | `SFSpec => []SFTypeOK` |
| | `DoIsExclusive` | `SFSpec => []OneRunnerPerKey` |
| | `DoIsMutex` | `SFSpec => ImplementsMutex`, the refinement of `KeyedMutex` |
| | `EntriesAreTended`, `NoLostWakeup` | `SFSpec => []FlightHasLeader`, `SFSpec => []WaiterHasRunner` |
| | `FetchesAreShared`, `PutsAreKeptApart` | `SrcSpec => []OneFetchPerBlob`, `SrcSpec => []PutsKeptApart` |
| | `SourceTypeCorrect`, `AnswersAreOwnBlobs`, `WarmStores`, `FetchedOnce` | `SrcTypeOK`, `GetYieldsOwnBlob`, `WarmedIsStored`, `NoRefetch` |
| | `UnwarmedIsFound` | where nobody warms, a read never answers "no blob, no error" |
| | `QueryTypeCorrect`, `AnswersAreOwn`, `ConnectionIsClean` | `TypeOK`, `OwnAnswer`, `WireIsClean` |
| `FileCacheProofs` | `TypeCorrect` | `Spec => []TypeOK` |
| | `ReadsAreWhole`, `EntriesAreWhole`, `CacheImplementsStore` | with `PutsSerialised`: `NoTornRead`, `EntriesWhole`, the refinement of `BlobStore` |
| | `RebuildIsExact` | `Spec => RebuildExact`, with no condition |
| | `CapHolds`, `CountersAreExact`, `NothingElseIsLost` | with `PutsSerialised`, of `TidySpec`: `CapRespected`, `CountersExact`, `KeepsWhatFits` |
| | `YoungIsExact` | with `PutsSerialised` and `MaxTime <= TTL`: the cap and the counters of `Spec` itself |
| `PrefetchProofs` | `TypeCorrect`, `PartsOutlive`, `NoOlderJobStarts` | `TypeOK`, `PartsOutliveWorkers`, `NoOlderStarts` |
| `ViewProofs` | `WindowsAreSound` | `WindowsSound` |
| | `WindowsStay` | `WnSpec => [][BusyStays]_wnVars`, the windows' half of `StepsSound` |
| | `CamerasTypeCorrect`, `CamerasFollow` | `CmTypeOK`, `CamerasSound` |
| | `SoundingsAreSound` | `SoundingsSound` |
| | `ProfilesTypeCorrect`, `ProfilesAreSound` | `PnTypeOK`, `ProfilesSound` |
| `LoadsProofs` | `LoadsTypeCorrect`, `IntentIsShown`, `SweepsAreCovered` | `LdTypeOK`, `IntentShown`, `SweepsCover` |
| | `PrefetchTypeCorrect`, `SettledIsWarmed` | `PfTypeOK`, `PrefetchSound` |
| | `CacheTypeCorrect`, `CacheIsSound` | `AcTypeOK`, `ClientCacheSound` |
| `TimelineProofs` | `TimelineTypeCorrect`, `SliderIsHonest` | `TlTypeOK`, `AskedIsShown` and `OneTicker` |
| | `PlaybackMovesOn` | `TlSpec => [][TicksMoveOn]_tlVars`, the slider's half of `StepsSound` |
| | `MapOfObservations` | `ObservationsSound` |
| `ConfigProofs` | `EditorIsSound` | `CeTypeOK`, `ConfigEditorSound` |
| `BrowserProofs` | `LoadsAreSound`, `TabsAreSound`, `FetchesAreSound`, `PanelsAreSound`, `TimelineIsSound`, `EditorOfBrowserIsSound` | `BrowserSpec => []LoadsSound`, `[]TabsSound`, `[]FetchesSound`, `[]PanelsSound`, `[]TimelineSound`, `[]EditorSound`: the properties as the run checks them |
| | `StepsAreSound` | `BrowserSpec => StepsSound`, the run's action property |

Every safety property of the server's passing runs is stated by a theorem.

### Do, and the blob source

`OneRunnerPerKey` is not inductive: nothing in it prevents a `Lead` while a
function runs, unless the map has an entry for the key.  `IInv` adds
`LeaderHasFlight` (a goroutine in the function has an unfinished entry in the
map, one between `wg.Done` and the deletion has a finished one with its result)
and `OneLeaderPerKey`, which includes the second phase: were it left out, the
deletion by a finished leader could remove the entry of a running one.  For the
refinement, `Lead` is the abstract acquisition, `Finish` and `Panic` the
release, and every other step leaves all holders alone.  `NoLostWakeup` follows
from `FlightHasLeader` once it is known that a sleeper sleeps on an unfinished
entry of the map (`WaiterJoined`).  A panic is the one step that removes a
leader and leaves its entry, which is why both theorems speak of the keys
outside `PanicKeys`.

Each step of a request to the blob source is a step of `Do` or leaves it alone
(`DoAct`), so the invariant of `Do` is inherited without being proved again.
`Link` ties the two levels: a request between its second look and the end of its
Put runs the flight of its key, unless it came by `fetchGridLevel`, and only
such a request has a Put in progress; exclusion of the fetches then is
exclusion of the flights.  `Values` adds what every store, Put, look, flight and
answer holds; a direct read fetches, puts and answers the blob of `req[t].from`, the
path it is at, which is the one asked for or the other.

### The file cache

`TInv` ties the mutex to the call inside a critical section.  `WInv` says whose a
temporary file is (`TmpOwned`, `TmpUsed`), that a renamed file is whole
(`BlobsWhole`, `RenamedIsBin`) and that sidecars fit their files unless a
failed write left them behind (`SidecarsFit`).
It needs `PutsSerialised`: that the callers keep the Puts of a key apart, which
is what `PutsAreKeptApart` proves of the blob source for the keys
`fetchGridLevel` does not read (and `fc_torn` shows what happens to the others).
`CInv` says that the counters agree with the directory outside the critical
sections and by how much they are off inside.  It is not preserved by a reader
that drops an expired entry it no longer finds as it saw it; `TidySpec` is the
specification without such a step (`DropsItsEntry`).  Since these are safety
properties, they hold of every behaviour of the code up to its first untidy
drop, and without the condition `fc_overcap` refutes them.  `YoungIsExact` has
the condition out of the way: no run shorter than the time to live has a drop
at all.

### The CQL client and the prefetch handler

An answer is the caller's own because the connection carried nothing when its
statement was sent, and that holds because only the holder of the mutex is
inside `Query` (`MutexHeld`) and a query that gives up closes the connection
(`WireOwned`: the connection carries the holder's one statement while it waits
for it, and else nothing).  `PartsOutliveWorkers`
speaks of the shutdown's order: main's deferred calls run last to first, the first
of them is the one that waits (`ShutdownInv`: once any has returned every worker
has stopped), and a stopped worker stays so (`StoppedStays`); while none has
returned the cache and the client are open.  `NoOlderStarts` needs that every generation in the
queue or with a worker is registered, or was overtaken by the one registered
(`GensRegistered`).

### The browser's fetches

`PrefetchSound` says something only of windows at rest, so nothing of it is
inductive.  `PInv` says what a window that is not at rest still has to come
(`StillToCome`): its newest generation is that of its timer or of its last
prefetch (`NewestGen`); it is at a place it was warmed for, or a load or a timer
is under way (`Placed`); and a hint waits for a load that uses it up, one that
the last step did not leave waiting for two, so that the last prefetch is not
restricted to the side of an earlier step (`Directed`).

`ACInv` counts what the cache's promises leave open.  A hit by an alias leaves a
copy behind, so the length is bounded by the fields there are entries of (`Few`),
two urls each, and only a fetch brings a new field in: the length is at most
twice the cap, not the cap.  Any fetch that ends unregisters whatever is
registered for its url, so a second one may begin while the first runs; each
such is owed to a fetch past the cache (`Owed`), and without those the registered
fetch is the only one.

### The windows

`OwnIds` and `NothingLeaks` are not inductive.  That a new id is not one of a
window that is gone needs that every id a window has or had lies below
`wnTab.next` (`Below`, `GoneOK`); and a window that shows something keeps its
entries only if no operation brings in a window it did not find, under an old
id, or gives one a picture nobody holds.  `Kin` says that of two lists of
windows and `Follows` of two tabs.  Both are transitive, so `prepareSplitWindows`,
a deal, the return to 1x1 and a drag are proved link by link: what is picked
from a list, put behind another and renamed stays kin of what was found
(`PrunedFollows`, `PreparedFollows`, `DealtFollows`, `ResplitFollows`).
`TurnsKeep`, `BecomesKeeps` and `RewrittenKeeps` carry that to the steps, and
there is one lemma for each action.

`BusyStays` is a property of one step, but a step is a chain of those links.
`Spares` says what a link leaves alone: a pinned window stays, and one that the
operator loaded keeps what it shows, but for a set of ids.  It is transitive
(`SparesTwice`) and no link but a deal and an adoption has such a set: a split is
filled up with windows that show nothing or belong to a group (`FillersFree`), and
only those are pruned (`SurvivorsSpare`).  A deal spares what is not visible and
the initiator (`DealtSpares`), so what remains to be shown is that a window visible
in a new split was part of the old one, or is the initiator (`PreparedStay`).  The
attempt to prove it of the windows that were visible failed, for the reason the
run `clobbered` shows; `InSplit` is what the code keeps: the first places of
the list and the active window.

The lead of a split is found by climbing up the parents with the windows already
seen.  That the climb ends at a window of the tab is an induction over its
length; the library's induction theorems take an operator, so `SetInduction` is
proved for sets of numbers, from the least member of a set that is not empty.
`WindowsAssumption` says no more of the layouts than that each shows a window
and that those and the mode the code names by a literal ("1x1", "2x2", "model")
are among them.

### The cameras

`NoPingPong` is not inductive: a map that is being mounted will ask for a frame
of its own, so the maps still dark are counted with the frames (`Counted`).  Nor
is `CamerasAgree`, which says nothing while a visible map is dark: the others
have to agree already then (`BrightAgree`).

### The panels

`SoundingIsStation` speaks of a panel nothing is on its way to.  `SInv` says what
holds on the way: unless loads have overlapped (`lapped`) there is at most one,
and it is for the station the active panel names (`OneLoad`); a panel that is
shown stands, and stands exactly while it is active (`PanelIsWhole`).

`HeaderIsSection` too is about rest, and a profile panel has three kinds of work
under way.  `NInv` says of every window's state: its loads are no newer than
its sequence number, nor of a later instance (`Sequenced`), so that a new load
is the only one awaited; every awaited load wants the section the header tells
of, and if there is none, nor an init or a change of model to come, that section
is shown already (`HeaderTold`); the cache is honest in the same sense
(`Honest`), without which a section taken from it would not be the header's.
A load need not want that section as the header stands now: a time-height
profile takes its point along when the load arrives and marks a mode that
differs (`behind`), so `FitsHeader` names the parts of the header, by the kind of
panel, that the load has to fit.  The
registry and the screen (`Registered`, `OneShown`) need no more than
themselves, because every action that shows a panel hides all others first.

### The windows' loads

`IntentShown` too is about rest.  `LInv` says of every window outside `ldHole`
that it is Safe: a run is on its way that will start a load of it anew (`Coming`:
the newest sweep has it still before it, or an allocation waits), or it is Right:
every load of it that no newer number has overtaken wants the picture the
window is set to, and there is one or the picture is shown already.  A step
either leaves a window's number, picture and loads alone, or starts a load with
a new number, or leaves a run that comes for it (`Moved`); a lemma per stage of a
run says which.  `SweepsCover` rests on one sweep being the newest: each window
is still before it or has its period (`Sweeping`), unless an allocation disturbed
it (`ldMixed`) or waits to deal all windows out.

Two paths of the code came to light because the invariant would not go
through, and TLC confirmed them: `refreshForecastTimeline` sets the
initialisation of a window that has lost the focus in the meantime without
loading it (`ldHole`), and a preset that finishes loading into a window of a
split deals the windows out again under a sweep (`ldMixed`).

### The slider and the windows of observations

`AskedIsShown` and `OneTicker` need to know that the highlighted chip exists, and
that is a matter of what the filters return: the first part of `TimelineProofs`
says of every operator of `TimelineMath` the slider uses that its result is a
part of the list it is given, in order (`FilterInOrder`, `ChipsInOrder`), or a place
in it.  `TInv` then says that the lists are in order and the places exist
(`LineOK`), and that the disabled periods of a forecast are those its
accumulation does not reach (`Steady`); a period without accumulation is then
shown only for want of another (`ShowsGood`).  `PlaybackMovesOn` follows: the next place of a loop with two
places is another one of it, the scan past the disabled periods finds another
one if there are two, and of a forecast a tick to a period without accumulation
is followed by the jump of the rain effect.  `TimelineAssumption` says that a
listing names each file once, in order, which is how the server sends it, that
the horizon is the day a window starts with or more, and that there is a product
without accumulation.

`ObservationsSound` speaks of a window that is at rest; `ObInv` says what a load
finds and leaves: what the window's timeline and its layer were given were
listed in its directory (`FilesOK`, `SamplesOK`), the layer has every file of the
timeline unless the operator did one of the odd things, a load that begins anew
finds the window bare (`AnewOK`), and its time is a file of the line and, if
there are chips, one of them.  What arrives is appended to a directory, so a
listing kept longer is an initial part of it.

### The configuration editor

There are up to five copies of a configuration at once: the draft, what runs, the
bodies of two saves, the server's.  `ConfigEditorSound` speaks of rest; `CeInv`
says which copies agree on the way there, each part under the orders it needs
not to have happened.  A save sends what its object holds when the half is sent,
so that what the server has stored of a draft still is what the draft holds
unless an edit slipped in (`CeSentIsKept`), and of what runs unless the panel's
timer waits again (`CeRuns`, `CeAutos`).  Only a save that has not been loaded
again yet makes the draft run (`CeApart`); an edit then would reach the program
unsaved ("leaked").  A copy is the set of edits it holds: every edit is in the draft
and in every save of it (`CeEdits`).  TLC checked `CeInv` before it was proved.  The proof showed two
exceptions of the properties to be needless: what runs is the server's at rest
also when a change of the panel was dropped, and an edit is never to be
found with the server alone.

### The browser

`PartsInv` is the conjunction of the parts' invariants, each under its `part`;
a step of the browser is a step of its part or a stutter (`PartStays`).
The theorems of `BrowserProofs` but `PartsInvHolds` state the
very formulas the run `browser` checks on a small instance.

## 6. What is only model-checked, and what is not modelled

Out of the prover's reach: liveness under fairness (`EveryRequestAnswered`,
`EveryCallEnds`, `CloseReturns`, `QueueDrains`, `EveryQueryReturns`) and `ENABLED`;
the step parts of the refinements are proved, the fairness of the refined
specifications is not stated.  Not proved yet: `BrowserTypeOK` as a whole (the
parts `loads`, `cache`, `prefetch`, `cameras`, `profiles`, `timeline` and `editor` are; of `windows` the
bound on the ids is one of the model checker's), `DisplaySound`, and
`ConfigDraftSound`, which sorts the stops of a colormap.
What the pure functions over lists return on every input would need an
induction for each; they are compared with reference definitions on every input from small sets
(`ChoicesSound`, over `Allocation`, `Offers`, `FileChoice`, `TimelineCases`,
`Colours`).  Recursive
operators do not occur.

Not modelled: the selection in Cassandra queries, the data handlers (request to
response over the blob source), the derived fields and parsers (floating-point
computations without a protocol), `runLinePool` and the profile streams, start-up
(a cap of 0 means the default cap, `cache.go:113`, while `README.md` says cacheless),
rendering.  Hazards seen there and left for later: `cache.go:194`, `:289`, `:347`,
`prefetch_handler.go:272` (scope generations are never pruned), `cql_client.go:103`,
`:206`; scopes and generations restart with each page, so that the server drops
the jobs of a reloaded page until it catches up (`prefetch_handler.go:271`);
`playbackController.js` (legacy schedule).

## 7. What the models say of each part of the browser

For each part: what holds, and the paths of the code its exceptions stand for
(the variable in parentheses).  File names are below `src/client/src`.

### Window loads (`LoadsSound`)

At rest every window shows the lead time, level, model and initialisation it is
set to, and after the newest sweep the windows of a split keep step.

* (`ldHole`) the palette is awaited after the check for staleness
  (`weatherLoader.js:455`); an overtaken `handleLoadData` wipes the map and then
  discards its data; a reload is not sequenced; a load whose own fetch fails
  leaves the window set to what it does not show; the base window's reload is
  skipped on values captured before the preload was awaited (`App.svelte:863`);
  `refreshForecastTimeline` can roll a sweep's initialisation back, and sets a
  window that lost the focus to another initialisation without loading it.
* (`ldMixed`) an allocation is changed during a sweep, which does not bump
  `_sweepGen`; a preset load into a split deals its windows out again;
  overlapping allocations check `_allocSeq` only at their end (`App.svelte:1119`).
* Not stated because it does not hold: `LevelsConverge`, level sweeps have no
  generation.  `handleModelSelect` clears `forecastCycle`; followers are skipped if
  the focus changed; `auto-allocation.md` says ←/→ in time mode moves the active
  window only, the code sweeps.  A window in the model holds a preset; the
  branches of `changeVerticalLevel` without one return early when overtaken.

### Tabs and windows, cameras (`TabsSound`, `StepsSound`); allocation, offers (`ChoicesSound`)

Ids are never given twice; what a window held is released with it; a window the
operator loaded outside the split is neither clobbered nor removed, where the split
is the first places of the list (`InSplit`), not what is visible (run `clobbered`).

* (`wnLate`) a load that resolves after its window closed re-creates entries.
  A pinned window inside the split is dealt over; a window of the operator's own
  with the same preset is annexed by `prepareSplitWindows` and pruned on return to
  1x1; closing the initiator orphans its children; the await of model mode
  resurrects the allocation after a collapse.
* Dealing (`Allocation`): past the end of the list of periods a multi-step
  contrast counts from the base by the step, so lead times repeat or fall
  (228, 240, 240, 246), and irregular runs or files repeat likewise
  (`RunsOut`); level mode without a list takes `DEFAULT_LEVELS[i]` and overwrites the
  base's own; renaming within a family replaces its word again ("ECMWF_HR_HR");
  a satellite layer in a contrast of models gets a model's name and path
  (`ForeignSources`); a failed query of an element's levels caches the model's
  under the element's key; level mode never sets the followers' sliders; a
  window without `activeGroup` is not loaded in level, step and time mode.
* Offers: the rule of what can be contrasted stands four times (NavBar, TabsBar,
  appWorkflow and App).  The layout menu offers contrasts for profile presets that
  are refused; names that hold a word for an observation in one language
  (composite-200hpa, preset-ecmwf_hr_sst, derived-ecmwf-sfc-t-var-*) make the
  application refuse what is offered; TabsBar enables levels for products
  without any, and step/model for satellite and SWAN, which its handler drops.
* (`cmMissed`) `jumpTo` is skipped while a neighbour's style is not loaded
  (`windowMaps.js:125`); a hidden window that gets the focus is not aligned; a map
  that loads while it is the active one aligns with nobody.

### Fetches (`FetchesSound`)

An answer is that of its field and fresh; what is warmed at rest is around
where the window is, unrestricted or to the side of the last step.

* A lookup by the alias drops the date parameter (`apiClient.js:126`); a failed POST
  leaves items marked warmed for five minutes (`catalogApi.js:93`); `/api/status` is
  polled through the cache; the end of any fetch past the cache unregisters
  whatever is registered for its url.
* (`pfLate`) a load that ends after its window closed arms a timer.  A level step
  right after a time step whose own load failed takes that step's hint; the
  hint of a window without `activeGroup` stays; the hint is consumed by the first
  layer's schedule, whose timer the next layer's replaces.

### Timeline, observations (`TimelineSound`, `StepsSound`); files (`ChoicesSound`)

The highlighted chip is the one whose data was asked for; one interval fires; a
tick moves on and stays in the loop; chips and samples are files there are.

* The loop's bounds are an index, a lead time or a time by their size
  (`appWorkflow.js:255`); `buildLeads` may exceed 240 h when start ≥ end; a change of
  the step length may leave soundings at 02/14 without chips.
* Files (`FileChoice`): runs guessed while nothing answered are kept five minutes;
  a live list is ten 12-hourly runs counted back from the newest; a run without
  files is stood in for by another's, chosen by lead time; a layer's own period is
  ignored when it has a policy or offset; the `hold`/`latest-at` branch of
  weatherLoader 258-272 is dead; an empty observation listing is replaced by 55
  made-up files; a path that spells a level out wins over the level asked for
  (presets derived-ecmwf-850-t-var-24h/48h and derived-diag-sounding-850-t-var
  say 700 while 850 is drawn); the tolerance of PLOT_GLOBAL_3H is unreachable; the
  offset box reads "T - 1h 30m" back as one minute.
* (`obOdd`) the station layer is given its files once: after a reload newly
  arrived files are chips while the map shows the nearest of the old list (the
  comment presetLoader 131-138 says fresh loads land on the latest); history
  mode keeps the live list on the map; at a level step the old level's files
  serve the new one; reloading the same preset keeps the old cursor; sweeps set
  the time and not the cursor; a forced sync does not refresh the kept listing.

### Panels (`PanelsSound`); keyboard (`ChoicesSound`)

* (`crossed`) a section from the cache leaves the load under way alone;
  (`behind`) a load failed or was cancelled; (`strayed`) eye or focus changed while
  an init was awaited; (`hollow`) continuations after a destroy create state and a
  registry entry.  Arming a pick in point mode switches to line mode without a
  load.
* (`snGhost`) soundings are loaded without a sequence number; a failed revert
  overwrites a newer station; the close button is bound to the first window;
  the owner's removal destroys the panel though others show the layer;
  `handleAddWindow` clears the registry's entry.
* Keys: App's window handler asks for no `defaultPrevented`, so arrows in a menu
  also step the map, Space on a category also plays, Alt+Enter also adopts, and
  Escape in a menu also closes the editor; a preset picked in the command palette
  is not loaded (`App.svelte:2567`); the palette's "Open Keyboard Shortcuts Help" sets
  a flag nobody reads; a checkbox is no text field; Enter on a star picks its row;
  items of the application's menu move by two per key (thirteen items, so all
  are reached).

### Layers, contours, legends, filter (`DisplaySound`); colours (`ChoicesSound`)

* (`lyOdd`) "overtaken": work begun before the change draws after it (a palette, a
  field, an overlay); "both": the boxes of `ShadingExclusive`; "strayed": the map
  moved while the fill was off or being computed; "reused": raster off, time
  stepped, raster on shows the old image (`configActions.js` 212-216); "older": the load
  the eye starts passes no `expectedSeq` (`visibilityActions.js:282`), so
  `weatherLoader.js:455` does not discard it and it draws the older field over that
  of a later time step, until the next load; so do an overlay or a palette asked for
  before the step.
* (`dcOdd`, `dcGhost`) the loops check `loadSeq` once and await afterwards, so an older load
  may draw over a newer one; a level step rewrites id and name of a derived
  entry but not its `path`; a saved preset keeps the id of the level a contour was
  added at, so that removing it at another level does not remove it; a removed
  core contour returns by backfill; removing in one window deletes from the
  preset of all.
* (`lgOdd`) legends removed by element take a sibling's with them
  (`soundingAnalysis.js:165`, `surfaceAnalysis.js:81`, `kinematicContours.js:86`); overlays that
  await an image set the legend looking at the eye only; adding a contour as
  lines over a shaded one leaves its legend.
* (`ftOdd`) "unseen": the base configuration drops saved rules when a layer is
  first added, so the map is filtered and the panel shows none; "leaked": the
  canvas' fallback gives one layer's rules to another; "unstated": without
  `filterLogic` the map ANDs and the panel says View; "sibling": a change is written
  into the first layer of its kind; "reused": the panel's row is keyed by an id
  windows share; "unticked": a rule about what no box shows.  An old single rule
  counts again after Clear All.
* Colours are an order of the values but for heights on both sides of 2500 and
  values outside a stretched palette; legend ticks tell the drawn colour but for
  stretched fields, two units, rain below 0.1, fractions of albedo and a palette
  whose last value comes twice.  SNOW24 and HEAVY_RAINFALL lead to the palette of
  rain, AMV/IR1 to that of infrared temperatures; TDMOSAIC is taken for a dew point
  by the picker; a comment says 8 to 12 levels, the code makes up to 18.  Picking a
  palette and resetting it before its file arrives restores the pick.

### Configuration (`EditorSound`, `ChoicesSound`)

* (`ceOdd`) after a save the draft is the running configuration; edits made during
  a save are marked saved and then lost by the reload; the two POSTs of a save
  read the object at different times; automatic saves and the editor's overwrite
  each other.  `EditsKept` says that every edit is in the draft until the operator
  gives it up ("discarded"): by a reload, or by the close button, which asks
  "Discard and close editor?" (`ConfigEditor.svelte:108`).  The code discards nothing
  then: draft and dirty flag stay, and the editor opens again with the edits.
  Nothing is claimed of edits after that answer; a close by Escape asks nothing
  and keeps them.
* (`cdOdd`) `handleStopColorChange` reads `rgb.r` of an array; unchecking "has levels"
  leaves the default level, an error whose field is disabled; added layers may
  get an id twice; deleting a colormap in use is not seen by `validateConfig`.

## 8. Plan

1. `BrowserTypeOK` part by part, in the proof modules there are.
2. `DerivedLayers`, `Legends` and `Layers` of `DisplaySound`; of `ConfigDraftSound` what
   does not depend on the order of the stops.
3. the selection of the latest file and level in `catalog_queries.go`; `runLinePool`:
   task distribution, cancellation, streaming.
4. start-up and configuration (cap 0, unwritable directory).
