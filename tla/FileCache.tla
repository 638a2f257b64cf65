----------------------------- MODULE FileCache ------------------------------
(***************************************************************************)
(* The on-disk blob cache (server/filecache).  An entry is a file <key>.bin *)
(* and a sidecar <key>.meta.  Has and Get look at the files without the    *)
(* mutex and Put writes <key>.tmp without it; the rename, the removals and *)
(* the counters are under it.                                              *)
(*                                                                         *)
(* A blob is named by its length.  A file is [data, size, mtime, writers]: *)
(* data is Torn while the content is not one whole blob, writers are the   *)
(* goroutines that have the inode open.  A sidecar is [size, storedAt, pre, *)
(* left]: left, which no step reads, marks a sidecar whose own blob a Put  *)
(* has replaced without writing a new one.  op[t] is the call goroutine t  *)
(* makes; op[t].seen is the .bin file as the call last saw it.  Each value *)
(* of op[t].pc is a point where other goroutines or a crash can intervene. *)
(***************************************************************************)
EXTENDS Integers, FiniteSets

CONSTANTS Threads, Keys,
          Blobs,            \* lengths of the blobs that are put
          Cap,              \* capBytes
          TTL,              \* ttl, in ticks of the clock
          MaxTime,          \* bound on the clock
          MaxCrashes,       \* bound on the number of crashes
          MaxPuts,          \* bound on the number of Puts
          DiskFaults,       \* whether a write to the disk may fail
          PutsSerialised,   \* whether the callers keep two Puts of one key apart
          None, Garbled     \* no file; a sidecar that does not parse

Torn == 0

Files == [data : Blobs \cup {Torn}, size : Nat, mtime : Nat, writers : SUBSET Threads]
Metas == [size : Blobs, storedAt : Nat, pre : BOOLEAN, left : BOOLEAN]

ASSUME FileCacheAssumption ==
    /\ IsFiniteSet(Keys) /\ Blobs \subseteq Nat \ {Torn}
    /\ Cap \in Nat \ {0} /\ TTL \in Nat /\ MaxTime \in Nat
    /\ MaxCrashes \in Nat /\ MaxPuts \in Nat
    /\ DiskFaults \in BOOLEAN /\ PutsSerialised \in BOOLEAN
    /\ None \notin Threads \cup Blobs \cup {Torn} \cup Files \cup Metas
    /\ Garbled \notin Metas \cup {None}

VARIABLES now, crashes, puts,           \* the clock; crashes and Puts so far
          up,                           \* the process runs
          tmp, bin, meta,               \* the directory
          bytes, entries, prefetched,   \* currentBytes, entries, prefetchedEntries
          lock,                         \* the holder of c.mu, or None
          op                            \* the calls

disk == <<tmp, bin, meta>>
counters == <<bytes, entries, prefetched>>
env == <<now, crashes, puts, up>>
vars == <<env, disk, counters, lock, op>>

Idle == [pc |-> "idle", kind |-> "none", key |-> None, blob |-> Torn,
         pre |-> FALSE, seen |-> None, oldPre |-> FALSE]

PutPCs == {"opened", "written", "renamed", "garbled"}
LookPCs == {"viewed", "dropping", "dropped", "hit", "miss"}

IsMeta(m) == m # None /\ m # Garbled
IsPre(m) == IsMeta(m) /\ m.pre

(* Mutant of Old: an entry expires a tick early.                           *)
BugOld(time) == now - time >= TTL

Old(time) == now - time > TTL
OldMeta(m) == IsMeta(m) /\ Old(m.storedAt)

AtLeast0(n) == IF n < 0 THEN 0 ELSE n
Bit(b) == IF b THEN 1 ELSE 0

Present(b) == {k \in Keys : b[k] # None}
Bytes(b, S) == Cardinality(UNION {{k} \X (1..b[k].size) : k \in S})
PreCount(m, S) == Cardinality({k \in S : IsPre(m[k])})
Without(f, S) == [k \in Keys |-> IF k \in S THEN None ELSE f[k]]

(* Mutant of Evictions: stops while the counter is one above the cap.      *)
BugEvictions(b, c) ==
    {V \in SUBSET Present(b) :
        /\ \A v \in V, k \in Present(b) \ V : b[v].mtime <= b[k].mtime
        /\ V = Present(b) \/ c - Bytes(b, V) <= Cap + 1
        /\ V # {} => \E v \in V :
              /\ \A w \in V : b[w].mtime <= b[v].mtime
              /\ c - Bytes(b, V \ {v}) > Cap + 1}

(* What evictUnderLock may remove when the counter stands at c: a shortest *)
(* prefix of the files in mtime order whose removal brings the counter to  *)
(* the cap.  Files of equal mtime are in no particular order.              *)
Evictions(b, c) ==
    {V \in SUBSET Present(b) :
        /\ \A v \in V, k \in Present(b) \ V : b[v].mtime <= b[k].mtime
        /\ V = Present(b) \/ c - Bytes(b, V) <= Cap
        /\ V # {} => \E v \in V :
              /\ \A w \in V : b[w].mtime <= b[v].mtime
              /\ c - Bytes(b, V \ {v}) > Cap}

(* The directory and the counters after evictUnderLock, from the files b,  *)
(* the sidecars m and the counters c, e, p.  At or below the cap it removes *)
(* nothing.                                                                *)
EvictFrom(b, m, c, e, p) ==
    \E V \in Evictions(b, c) :
        /\ bin' = Without(b, V)
        /\ meta' = Without(m, V)
        /\ bytes' = AtLeast0(c - Bytes(b, V))
        /\ entries' = AtLeast0(e - Cardinality(V))
        /\ prefetched' = AtLeast0(p - PreCount(m, V))

Init ==
    /\ now = 0 /\ crashes = 0 /\ puts = 0 /\ up = TRUE
    /\ tmp = [k \in Keys |-> None] /\ bin = [k \in Keys |-> None]
    /\ meta = [k \in Keys |-> None]
    /\ bytes = 0 /\ entries = 0 /\ prefetched = 0
    /\ lock = None
    /\ op = [t \in Threads |-> Idle]
-----------------------------------------------------------------------------
(* putInternal                                                             *)

PutsOn(k) == {t \in Threads : op[t].pc \in PutPCs /\ op[t].key = k}

(* OpenFile with O_CREATE|O_TRUNC: all Puts of k use the one name.         *)
PutOpen(t, k, b, pre) ==
    /\ up /\ op[t].pc = "idle"
    /\ puts < MaxPuts /\ puts' = puts + 1
    /\ PutsSerialised => PutsOn(k) = {}
    /\ tmp' = [tmp EXCEPT ![k] =
                 [data |-> Torn, size |-> 0, mtime |-> now,
                  writers |-> {t} \cup (IF @ = None THEN {} ELSE @.writers)]]
    /\ op' = [op EXCEPT ![t] = [Idle EXCEPT !.pc = "opened", !.kind = "put", !.key = k,
                                            !.blob = b, !.pre = pre]]
    /\ UNCHANGED <<now, crashes, up, bin, meta, counters, lock>>

(* The blob is written over what the inode holds, if t has that inode      *)
(* open: a longer old tail stays.                                          *)
WrittenBy(t, f, b) ==
    IF f # None /\ t \in f.writers
    THEN [data |-> IF f.size > b THEN Torn ELSE b,
          size |-> IF f.size > b THEN f.size ELSE b,
          mtime |-> now,
          writers |-> f.writers \ {t}]
    ELSE f

(* Write, Sync and Close.                                                  *)
PutWrite(t) ==
    LET k == op[t].key IN
    /\ op[t].pc = "opened"
    /\ tmp' = [tmp EXCEPT ![k] = WrittenBy(t, @, op[t].blob)]
    /\ bin' = [bin EXCEPT ![k] = WrittenBy(t, @, op[t].blob)]
    /\ op' = [op EXCEPT ![t].pc = "written"]
    /\ UNCHANGED <<env, meta, counters, lock>>

ClosedBy(t, f) == IF f = None THEN None ELSE [f EXCEPT !.writers = f.writers \ {t}]

(* Write or Sync fails: the temporary file is removed and Put gives up.    *)
PutWriteFails(t) ==
    LET k == op[t].key IN
    /\ DiskFaults
    /\ op[t].pc = "opened"
    /\ tmp' = [tmp EXCEPT ![k] = None]
    /\ bin' = [bin EXCEPT ![k] = ClosedBy(t, @)]
    /\ op' = [op EXCEPT ![t] = Idle]
    /\ UNCHANGED <<env, meta, counters, lock>>

(* Rename fails or finds no temporary file, which another Put of the key   *)
(* has renamed or removed.                                                 *)
PutRenameFails(t) ==
    LET k == op[t].key IN
    /\ op[t].pc = "written" /\ lock = None
    /\ DiskFaults \/ tmp[k] = None
    /\ tmp' = [tmp EXCEPT ![k] = None]
    /\ op' = [op EXCEPT ![t] = Idle]
    /\ UNCHANGED <<env, bin, meta, counters, lock>>

(* Mutants of PutRename: before the file is written; without the lock.     *)
BugPutRename(t) ==
    LET k == op[t].key IN
    /\ op[t].pc = "opened" /\ lock = None
    /\ tmp[k] # None
    /\ lock' = t
    /\ bin' = [bin EXCEPT ![k] = tmp[k]]
    /\ tmp' = [tmp EXCEPT ![k] = None]
    /\ op' = [op EXCEPT ![t].pc = "renamed", ![t].seen = bin[k],
                        ![t].oldPre = bin[k] # None /\ IsPre(meta[k])]
    /\ UNCHANGED <<env, meta, counters>>

BugPutRenameUnlocked(t) ==
    LET k == op[t].key IN
    /\ op[t].pc = "written"
    /\ tmp[k] # None
    /\ bin' = [bin EXCEPT ![k] = tmp[k]]
    /\ tmp' = [tmp EXCEPT ![k] = None]
    /\ op' = [op EXCEPT ![t].pc = "renamed", ![t].seen = bin[k],
                        ![t].oldPre = bin[k] # None /\ IsPre(meta[k])]
    /\ UNCHANGED <<env, meta, counters, lock>>

(* Lock, Stat the old entry, rename.                                       *)
PutRename(t) ==
    LET k == op[t].key IN
    /\ op[t].pc = "written" /\ lock = None
    /\ tmp[k] # None
    /\ lock' = t
    /\ bin' = [bin EXCEPT ![k] = tmp[k]]
    /\ tmp' = [tmp EXCEPT ![k] = None]
    /\ op' = [op EXCEPT ![t].pc = "renamed", ![t].seen = bin[k],
                        ![t].oldPre = bin[k] # None /\ IsPre(meta[k])]
    /\ UNCHANGED <<env, meta, counters>>

(* os.WriteFile opens the sidecar, which truncates it, and then writes it. *)
PutMetaOpen(t) ==
    /\ op[t].pc = "renamed"
    /\ meta' = [meta EXCEPT ![op[t].key] = Garbled]
    /\ op' = [op EXCEPT ![t].pc = "garbled"]
    /\ UNCHANGED <<env, tmp, bin, counters, lock>>

(* Mutant of OldSize: the replaced file stays in the counter.              *)
BugOldSize(t) == 0

(* The bytes that the file replaced by this Put had.                       *)
OldSize(t) == IF op[t].seen = None THEN 0 ELSE op[t].seen.size

LeftBehind(m) == IF IsMeta(m) THEN [m EXCEPT !.left = TRUE] ELSE m

(* What os.WriteFile leaves: the new sidecar; a part of it, if the write   *)
(* failed; the sidecar of the blob before, or none, if the open failed.    *)
(* The error is ignored.                                                   *)
Sidecars(t) ==
    IF op[t].pc = "garbled"
    THEN {[size |-> op[t].blob, storedAt |-> now, pre |-> op[t].pre, left |-> FALSE]}
         \cup (IF DiskFaults THEN {Garbled} ELSE {})
    ELSE IF DiskFaults THEN {LeftBehind(meta[op[t].key])} ELSE {}

(* After the sidecar the counters follow, entries are evicted down to the  *)
(* cap, Put unlocks.                                                       *)
PutFinish(t) ==
    LET k == op[t].key
        b == op[t].blob
        isNew == op[t].seen = None
    IN
    /\ op[t].pc \in {"renamed", "garbled"}
    /\ \E m \in Sidecars(t) :
          EvictFrom(bin, [meta EXCEPT ![k] = m],
                    AtLeast0(bytes + b - OldSize(t)),
                    entries + Bit(isNew),
                    AtLeast0(prefetched + Bit(op[t].pre) - Bit(op[t].oldPre)))
    /\ lock' = None
    /\ op' = [op EXCEPT ![t] = Idle]
    /\ UNCHANGED <<env, tmp>>
-----------------------------------------------------------------------------
(* Has, Get and Touch                                                      *)

Miss(t) ==
    /\ op' = [op EXCEPT ![t].pc = "miss", ![t].seen = None]
    /\ UNCHANGED <<env, disk, counters, lock>>

(* Stat (Has) or ReadFile (Get) of the .bin.                               *)
Look(t, kind, k) ==
    /\ up /\ op[t].pc = "idle"
    /\ op' = [op EXCEPT ![t] = [Idle EXCEPT !.pc = IF bin[k] = None THEN "miss" ELSE "viewed",
                                            !.kind = kind, !.key = k, !.seen = bin[k]]]
    /\ UNCHANGED <<env, disk, counters, lock>>

(* The sidecar cannot be read.                                             *)
LookNoMeta(t) ==
    /\ op[t].pc = "viewed"
    /\ ~ IsMeta(meta[op[t].key])
    /\ Miss(t)

(* The file whose mtime the expiry test uses: Has has it from its Stat,    *)
(* Get makes a Stat of its own now.                                        *)
ExpiryFile(t) == IF op[t].kind = "has" THEN op[t].seen ELSE bin[op[t].key]

Expired(t) ==
    LET f == ExpiryFile(t) IN
    OldMeta(meta[op[t].key]) \/ (f # None /\ Old(f.mtime))

(* The entry looks expired: the call goes on to take the mutex.            *)
LookExpired(t) ==
    /\ op[t].pc = "viewed"
    /\ IsMeta(meta[op[t].key])
    /\ Expired(t)
    /\ op' = [op EXCEPT ![t].pc = "dropping", ![t].pre = meta[op[t].key].pre]
    /\ UNCHANGED <<env, disk, counters, lock>>

Touched(k) == [bin EXCEPT ![k] = IF @ = None THEN None ELSE [@ EXCEPT !.mtime = now]]

(* A hit.  Get refreshes the mtime itself.                                 *)
LookHit(t) ==
    /\ op[t].pc = "viewed"
    /\ IsMeta(meta[op[t].key])
    /\ ~ Expired(t)
    /\ op' = [op EXCEPT ![t].pc = "hit"]
    /\ bin' = IF op[t].kind = "get" THEN Touched(op[t].key) ELSE bin
    /\ UNCHANGED <<env, tmp, meta, counters, lock>>

(* Lock and remove the .bin, whatever file that is by now.                 *)
DropBin(t) ==
    /\ op[t].pc = "dropping" /\ lock = None
    /\ lock' = t
    /\ bin' = [bin EXCEPT ![op[t].key] = None]
    /\ op' = [op EXCEPT ![t].pc = "dropped"]
    /\ UNCHANGED <<env, tmp, meta, counters>>

(* Mutant of DropMeta: returns with the mutex held.                        *)
BugDropMeta(t) ==
    /\ op[t].pc = "dropped"
    /\ meta' = [meta EXCEPT ![op[t].key] = None]
    /\ bytes' = AtLeast0(bytes - op[t].seen.size)
    /\ entries' = AtLeast0(entries - 1)
    /\ prefetched' = AtLeast0(prefetched - Bit(op[t].pre))
    /\ op' = [op EXCEPT ![t].pc = "miss", ![t].seen = None]
    /\ UNCHANGED <<env, tmp, bin, lock>>

(* Remove the sidecar, take the size seen earlier off the counters, unlock. *)
DropMeta(t) ==
    /\ op[t].pc = "dropped"
    /\ meta' = [meta EXCEPT ![op[t].key] = None]
    /\ bytes' = AtLeast0(bytes - op[t].seen.size)
    /\ entries' = AtLeast0(entries - 1)
    /\ prefetched' = AtLeast0(prefetched - Bit(op[t].pre))
    /\ lock' = None
    /\ op' = [op EXCEPT ![t].pc = "miss", ![t].seen = None]
    /\ UNCHANGED <<env, tmp, bin>>

(* The call is over; after a Has that found the entry the callers Touch it. *)
LookReturn(t) ==
    /\ op[t].pc \in {"hit", "miss"}
    /\ bin' = IF op[t].pc = "hit" /\ op[t].kind = "has" THEN Touched(op[t].key) ELSE bin
    /\ op' = [op EXCEPT ![t] = Idle]
    /\ UNCHANGED <<env, tmp, meta, counters, lock>>
-----------------------------------------------------------------------------
(* The sweeper, the clock, crashes and restarts                            *)

ExpiredKeys == {k \in Present(bin) : OldMeta(meta[k]) \/ Old(bin[k].mtime)}

Sweep ==
    LET gone == ExpiredKeys IN
    /\ up /\ lock = None
    /\ EvictFrom(Without(bin, gone), Without(meta, gone),
                 AtLeast0(bytes - Bytes(bin, gone)),
                 AtLeast0(entries - Cardinality(gone)),
                 AtLeast0(prefetched - PreCount(meta, gone)))
    /\ UNCHANGED <<env, tmp, lock, op>>

Tick ==
    /\ now < MaxTime
    /\ now' = now + 1
    /\ UNCHANGED <<crashes, puts, up, disk, counters, lock, op>>

Closed(f) == [k \in Keys |-> IF f[k] = None THEN None ELSE [f[k] EXCEPT !.writers = {}]]

(* The process dies; the files stay as they are.                           *)
Crash ==
    /\ up /\ crashes < MaxCrashes
    /\ up' = FALSE /\ crashes' = crashes + 1
    /\ op' = [t \in Threads |-> Idle]
    /\ lock' = None
    /\ bytes' = 0 /\ entries' = 0 /\ prefetched' = 0
    /\ tmp' = Closed(tmp) /\ bin' = Closed(bin)
    /\ UNCHANGED <<now, puts, meta>>

(* Mutants of Kept: sidecars of any size; files without a sidecar.         *)
BugKept == {k \in Present(bin) \ ExpiredKeys : IsMeta(meta[k])}
BugKeptOrphans == Present(bin) \ ExpiredKeys

(* New: rebuildIndex keeps the entries whose sidecar fits the file and is  *)
(* not expired, counts them, and evicts down to the cap.  A sidecar        *)
(* without a .bin is left alone.                                           *)
Kept == {k \in Present(bin) \ ExpiredKeys :
            IsMeta(meta[k]) /\ meta[k].size = bin[k].size}

Recover ==
    LET gone == Present(bin) \ Kept IN
    /\ ~ up
    /\ up' = TRUE
    /\ tmp' = [k \in Keys |-> None]
    /\ EvictFrom(Without(bin, gone), Without(meta, gone),
                 Bytes(bin, Kept), Cardinality(Kept), PreCount(meta, Kept))
    /\ UNCHANGED <<now, crashes, puts, lock, op>>
-----------------------------------------------------------------------------
PutStep(t) ==
    \/ PutWrite(t) \/ PutWriteFails(t)
    \/ PutRename(t) \/ PutRenameFails(t)
    \/ PutMetaOpen(t) \/ PutFinish(t)

LookStep(t) ==
    \/ LookNoMeta(t) \/ LookExpired(t) \/ LookHit(t)
    \/ DropBin(t) \/ DropMeta(t)
    \/ LookReturn(t)

Next ==
    \/ \E t \in Threads, k \in Keys :
          \/ \E b \in Blobs, pre \in BOOLEAN : PutOpen(t, k, b, pre)
          \/ \E kind \in {"has", "get"} : Look(t, kind, k)
    \/ \E t \in Threads : PutStep(t) \/ LookStep(t)
    \/ Sweep \/ Tick \/ Crash \/ Recover

Spec == Init /\ [][Next]_vars

(* A call that has begun is scheduled; sync.Mutex hands the lock to a      *)
(* waiter that starves, so a step that needs the lock is strongly fair.    *)
Fairness ==
    /\ WF_vars(Recover)
    /\ \A t \in Threads :
          /\ WF_vars(PutWrite(t) \/ PutWriteFails(t))
          /\ SF_vars(PutRename(t) \/ PutRenameFails(t))
          /\ WF_vars(PutMetaOpen(t)) /\ WF_vars(PutFinish(t))
          /\ WF_vars(LookNoMeta(t) \/ LookExpired(t) \/ LookHit(t))
          /\ SF_vars(DropBin(t))
          /\ WF_vars(DropMeta(t)) /\ WF_vars(LookReturn(t))

FairSpec == Spec /\ Fairness
-----------------------------------------------------------------------------
(* Types of the state; the lock is free or held by a goroutine inside one  *)
(* of the two critical sections.                                           *)
TypeOK ==
    /\ now \in 0..MaxTime /\ crashes \in 0..MaxCrashes /\ puts \in 0..MaxPuts /\ up \in BOOLEAN
    /\ tmp \in [Keys -> Files \cup {None}]
    /\ bin \in [Keys -> Files \cup {None}]
    /\ meta \in [Keys -> Metas \cup {None, Garbled}]
    /\ bytes \in Nat /\ entries \in Nat /\ prefetched \in Nat
    /\ lock \in Threads \cup {None}
    /\ op \in [Threads -> [pc : {"idle"} \cup PutPCs \cup LookPCs,
                           kind : {"none", "put", "has", "get"},
                           key : Keys \cup {None}, blob : Blobs \cup {Torn},
                           pre : BOOLEAN, seen : Files \cup {None}, oldPre : BOOLEAN]]
    /\ \A t \in Threads : op[t].pc \in {"renamed", "garbled", "dropped"} <=> lock = t

(* Get never hands out the content of a half-written file ("Atomic .tmp    *)
(* writes", Architecture.md 13.2.3).                                       *)
NoTornRead ==
    \A t \in Threads : op[t].kind = "get" /\ op[t].pc = "hit" => op[t].seen.data # Torn

(* Outside the critical sections a readable entry is one whole blob, of    *)
(* the length its sidecar declares unless the disk refused the sidecar of  *)
(* the last Put; so too after a crash at any point of a Put and a restart. *)
EntriesWhole ==
    up /\ lock = None =>
        \A k \in Keys : bin[k] # None /\ IsMeta(meta[k]) =>
            bin[k].data # Torn /\ (bin[k].size = meta[k].size \/ meta[k].left)

(* The three counters agree with the directory whenever the mutex is free. *)
CountersExact ==
    up /\ lock = None =>
        /\ bytes = Bytes(bin, Present(bin))
        /\ entries = Cardinality(Present(bin))
        /\ prefetched = PreCount(meta, Present(bin))

(* The files never take more than the cap when no Put is in its critical   *)
(* section ("bounded, on-disk LRU", cache.go:36; "strict byte cap",        *)
(* Architecture.md 13.2.3).                                                *)
CapRespected == up /\ lock = None => Bytes(bin, Present(bin)) <= Cap

(* While the server runs, an entry that is not expired leaves the cache    *)
(* only when the files are over the cap ("LRU eviction and TTL",           *)
(* Architecture.md 13.2.3).                                                *)
KeepsWhatFits ==
    [][up /\ up' /\ Bytes(bin, Present(bin)) <= Cap =>
          \A k \in Present(bin) : bin'[k] = None => k \in ExpiredKeys]_vars

(* A restart after a crash at any point rebuilds counters that agree with  *)
(* the directory, and leaves no temporary file, no entry without a sidecar *)
(* of its length and no excess over the cap.                               *)
RebuildExact ==
    [][~ up /\ up' =>
        /\ bytes' = Bytes(bin', Present(bin'))
        /\ entries' = Cardinality(Present(bin'))
        /\ prefetched' = PreCount(meta', Present(bin'))
        /\ bytes' <= Cap
        /\ \A k \in Keys :
              /\ tmp'[k] = None
              /\ bin'[k] # None => IsMeta(meta'[k]) /\ meta'[k].size = bin'[k].size]_vars

(* Every call of Put, Has or Get comes to an end (or the process does).    *)
EveryCallEnds == \A t \in Threads : op[t].pc # "idle" ~> op[t].pc = "idle"
-----------------------------------------------------------------------------
(* The cache implements BlobStore: the content of <key>.bin is the stored  *)
(* blob, the rename makes a Put visible, reading the .bin is the look.     *)

StoredBlob(k) == IF bin[k] = None THEN None ELSE bin[k].data

PutOf(t) ==
    CASE op[t].pc \in {"opened", "written"} ->
            [pc |-> "begun", key |-> op[t].key, blob |-> op[t].blob]
      [] op[t].pc \in {"renamed", "garbled"} ->
            [pc |-> "visible", key |-> op[t].key, blob |-> op[t].blob]
      [] OTHER -> [pc |-> "idle", key |-> None, blob |-> None]

LookOf(t) ==
    CASE op[t].pc \in {"viewed", "dropping", "dropped"} ->
            [pc |-> "looked", key |-> op[t].key, blob |-> op[t].seen.data]
      [] op[t].pc = "hit" ->
            [pc |-> "hit", key |-> op[t].key, blob |-> op[t].seen.data]
      [] op[t].pc = "miss" ->
            [pc |-> "miss", key |-> op[t].key, blob |-> None]
      [] OTHER -> [pc |-> "idle", key |-> None, blob |-> None]

Store == INSTANCE BlobStore
            WITH store <- [k \in Keys |-> StoredBlob(k)],
                 put <- [t \in Threads |-> PutOf(t)],
                 look <- [t \in Threads |-> LookOf(t)],
                 LossyKeys <- Keys

(* Every hit returns the whole of a blob that a Put wrote under that key   *)
(* and that was there when the call looked.                                *)
ImplementsStore == Store!StoreSpec
=============================================================================
