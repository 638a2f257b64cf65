------------------------------- MODULE ApiCache -------------------------------
(* The data cache of the browser (api/apiClient.js, api/catalogApi.js): every *)
(* request goes through fetchJson or fetchBinary, which answer from a cache   *)
(* with a time to live and a size cap, join a request that is under way, or   *)
(* fetch; a listing may be asked for past the cache (bypassCache).            *)
(*                                                                            *)
(* An url is what buildUrl makes of a request.  A field at a level has two of *)
(* them, as the level is in its path already: with a level parameter and      *)
(* without; getCachedEntry looks for the one when the other is not there.     *)
EXTENDS Sublists

CONSTANTS
    Fields,       \* fields at a level, two urls each
    ListingUrls,     \* listings, one url each; they may be bypassed
    TimeToLive,   \* DEFAULT_CACHE_TTL_MS
    MaxEntries,   \* MAX_DATA_CACHE_ENTRIES
    WarmedFor,    \* SERVER_WARMED_TTL_MS
    MaxTime,      \* bound: the clock
    MaxRequests,  \* bound: requests
    MaxWarms      \* bound: prefetches posted to the server

ASSUME ApiCacheAssumption ==
    /\ TimeToLive \in Nat /\ MaxEntries \in Nat /\ WarmedFor \in Nat \ {0}
    /\ MaxTime \in Nat /\ MaxRequests \in Nat /\ MaxWarms \in Nat

Urls == (Fields \X {"bare", "level"}) \cup (ListingUrls \X {"bare"})
Alias(url) == <<url[1], IF url[2] = "bare" THEN "level" ELSE "bare">>
NoFetch == 0

VARIABLES
    acCache,    \* dataCache, oldest first: [url, of, got, until, copy]
    acFlight,   \* inflightRequests: the fetch registered for an url
    acFetches,  \* fetches under way: [id, url, bypass]
    acJoined,   \* requests awaiting the fetch of another: [url, on]
    acWarm,     \* serverWarmed: until when a field counts as warmed
    acNow,      \* the clock
    acAnswer,   \* the last answer: [url, of, got]
    acBypassed, \* how often an url was fetched past the cache
    acTwice,    \* a field was posted to the server again while it was warmed
    acRequests, acWarms  \* requests and prefetches so far
acVars == <<acCache, acFlight, acFetches, acJoined, acWarm, acNow, acAnswer, acBypassed, acTwice,
            acRequests, acWarms>>

NoAnswer == [url |-> <<>>, of |-> <<>>, got |-> 0]

AcInit ==
    /\ acCache = <<>>
    /\ acFlight = [u \in Urls |-> NoFetch]
    /\ acFetches = {} /\ acJoined = {}
    /\ acWarm = [f \in Fields |-> -1]
    /\ acNow = 0
    /\ acAnswer = NoAnswer
    /\ acBypassed = [u \in Urls |-> 0]
    /\ acTwice = FALSE
    /\ acRequests = 0 /\ acWarms = 0

-----------------------------------------------------------------------------
(* The cache *)

Keys(cache) == {cache[i].url : i \in DOMAIN cache}
EntryOf(cache, url) == cache[CHOOSE i \in DOMAIN cache : cache[i].url = url]

Deleted(cache, url) == OnlyAt(cache, {i \in DOMAIN cache : cache[i].url # url})

\* The key getCachedEntry finds for url: its own or its alias.
CacheHit(cache, url) ==
    IF url \in Keys(cache) THEN {url}
    ELSE {Alias(url)} \cap Urls \cap Keys(cache)

\* dataCache.set of a fetched url, then enforceDataCacheCap.
Stored(cache, url, now) ==
    LET entry == [url |-> url, of |-> url[1], got |-> now, until |-> now + TimeToLive, copy |-> FALSE]
        all == IF url \in Keys(cache)
               THEN [i \in DOMAIN cache |-> IF cache[i].url = url THEN entry ELSE cache[i]]
               ELSE Append(cache, entry)
    IN  IF Len(all) <= MaxEntries THEN all ELSE SubSeq(all, Len(all) - MaxEntries + 1, Len(all))

\* A hit moves the entry to the end; under the url that was asked for, so that
\* an alias is left behind as well.
Touched(cache, url, key) ==
    Append(Deleted(cache, url), [EntryOf(cache, key) EXCEPT !.url = url, !.copy = @ \/ key # url])

-----------------------------------------------------------------------------
(* A request: fetchJson, fetchBinary *)

NewRequest == acRequests < MaxRequests /\ acRequests' = acRequests + 1
WarmStays == UNCHANGED <<acWarm, acTwice, acWarms, acNow>>

\* There is an entry: it is the answer, unless it has expired; then it goes,
\* when it is the url's own.
AnswerCached(url, key) ==
    /\ NewRequest
    /\ key \in CacheHit(acCache, url)
    /\ acNow <= EntryOf(acCache, key).until
    /\ acCache' = Touched(acCache, url, key)
    /\ acAnswer' = [url |-> url, of |-> EntryOf(acCache, key).of, got |-> EntryOf(acCache, key).got]
    /\ UNCHANGED <<acFlight, acFetches, acJoined, acBypassed>> /\ WarmStays

Misses(url) == \A key \in CacheHit(acCache, url) : acNow > EntryOf(acCache, key).until

\* A fetch of the url is registered: the request awaits it.
Join(url) ==
    /\ NewRequest
    /\ Misses(url)
    /\ acFlight[url] # NoFetch
    /\ acCache' = Deleted(acCache, url)
    /\ acJoined' = acJoined \cup {[url |-> url, on |-> acFlight[url]]}
    /\ UNCHANGED <<acFlight, acFetches, acAnswer, acBypassed>> /\ WarmStays

\* The request fetches; one past the cache is neither looked up nor registered.
Fetch(url, bypass) ==
    LET id == acRequests + 1
    IN  /\ NewRequest
        /\ ~bypass => Misses(url) /\ acFlight[url] = NoFetch
        /\ bypass => url[1] \in ListingUrls
        /\ acCache' = IF bypass THEN acCache ELSE Deleted(acCache, url)
        /\ acFetches' = acFetches \cup {[id |-> id, url |-> url, bypass |-> bypass]}
        /\ acFlight' = IF bypass THEN acFlight ELSE [acFlight EXCEPT ![url] = id]
        /\ acBypassed' = IF bypass THEN [acBypassed EXCEPT ![url] = @ + 1] ELSE acBypassed
        /\ UNCHANGED <<acJoined, acAnswer>> /\ WarmStays

\* Mutant: a fetch that ended stays registered.
BugUnregistered(flight, f) == flight

\* The finally of a fetch: whatever is registered for its url goes.
Unregistered(flight, f) == [flight EXCEPT ![f.url] = NoFetch]

\* The response: cached unless bypassed, and the answer of the requests that
\* joined too.
FetchDone(f) ==
    /\ f \in acFetches
    /\ acFetches' = acFetches \ {f}
    /\ acFlight' = Unregistered(acFlight, f)
    /\ acCache' = IF f.bypass THEN acCache ELSE Stored(acCache, f.url, acNow)
    /\ acAnswer' = [url |-> f.url, of |-> f.url[1], got |-> acNow]
    /\ acJoined' = {j \in acJoined : j.on # f.id}
    /\ UNCHANGED <<acBypassed, acRequests>> /\ WarmStays

\* It fails: so do the requests that joined.
RequestFails(f) ==
    /\ f \in acFetches
    /\ acFetches' = acFetches \ {f}
    /\ acFlight' = Unregistered(acFlight, f)
    /\ acJoined' = {j \in acJoined : j.on # f.id}
    /\ UNCHANGED <<acCache, acAnswer, acBypassed, acRequests>> /\ WarmStays

-----------------------------------------------------------------------------
(* warmServerCache and the clock *)

IsServerWarmed(field) == acWarm[field] > 0 /\ acNow <= acWarm[field]

\* The fields that do not count as warmed are marked and posted; whether the
\* server gets them is not looked at.
WarmServer(fields) ==
    LET toWarm == {f \in fields : ~IsServerWarmed(f)}
    IN  /\ acWarms < MaxWarms
        /\ acWarms' = acWarms + 1
        /\ toWarm # {}
        /\ acWarm' = [f \in Fields |-> IF f \in toWarm THEN acNow + WarmedFor ELSE acWarm[f]]
        /\ acTwice' = (acTwice \/ \E f \in toWarm : acWarm[f] >= acNow)
        /\ UNCHANGED <<acCache, acFlight, acFetches, acJoined, acNow, acAnswer, acBypassed, acRequests>>

\* pruneExpiredCache, by interval and when the page comes back into view.
Prune ==
    /\ acCache' = OnlyAt(acCache, {i \in DOMAIN acCache : acNow <= acCache[i].until})
    /\ acCache' # acCache
    /\ acWarm' = [f \in Fields |-> IF acNow > acWarm[f] THEN -1 ELSE acWarm[f]]
    /\ UNCHANGED <<acFlight, acFetches, acJoined, acNow, acAnswer, acBypassed, acTwice, acRequests, acWarms>>

\* The last answer is given: it is looked at no more.
ClockTick ==
    /\ acNow < MaxTime
    /\ acNow' = acNow + 1
    /\ acAnswer' = NoAnswer
    /\ UNCHANGED <<acCache, acFlight, acFetches, acJoined, acWarm, acBypassed, acTwice, acRequests, acWarms>>

AcNext ==
    \/ \E url \in Urls : \/ \E key \in Urls : AnswerCached(url, key)
                         \/ Join(url)
                         \/ \E bypass \in BOOLEAN : Fetch(url, bypass)
    \/ \E f \in acFetches : FetchDone(f) \/ RequestFails(f)
    \/ \E fields \in SUBSET Fields : WarmServer(fields)
    \/ Prune \/ ClockTick

AcSpec == AcInit /\ [][AcNext]_acVars

-----------------------------------------------------------------------------
AcTypeOK ==
    /\ Keys(acCache) \subseteq Urls
    /\ acFlight \in [Urls -> 0 .. MaxRequests]
    /\ acNow \in 0 .. MaxTime
    /\ acWarm \in [Fields -> -1 .. MaxTime + WarmedFor]

\* An answer is about the field that was asked for and, alias or not, no older
\* than the time to live.
AnswersFresh ==
    acAnswer.url # <<>> => acAnswer.of = acAnswer.url[1] /\ acNow - acAnswer.got <= TimeToLive

\* An url has one entry, the fetched entries keep to the cap, and the copies
\* aliases leave behind at most double it.
CapKept ==
    /\ \A i, j \in DOMAIN acCache : i # j => acCache[i].url # acCache[j].url
    /\ Cardinality({i \in DOMAIN acCache : ~acCache[i].copy}) <= MaxEntries
    /\ Len(acCache) <= 2 * MaxEntries

\* An url is fetched once at a time, as a request joins the fetch under way;
\* a fetch past the cache, whose end unregisters whatever is registered, lets
\* one more in.
FetchedOnce ==
    \A url \in Urls :
        LET plain == {f \in acFetches : f.url = url /\ ~f.bypass}
        IN  /\ Cardinality(plain) <= 1 + acBypassed[url]
            /\ acBypassed[url] = 0 => \A f \in plain : acFlight[url] = f.id

\* A request that joined has a fetch under way to wait for: it is answered or
\* fails with it.
NobodyForgotten == \A j \in acJoined : \E f \in acFetches : f.id = j.on /\ f.url = j.url

ClientCacheSound == AnswersFresh /\ CapKept /\ FetchedOnce /\ NobodyForgotten /\ ~acTwice

=============================================================================
