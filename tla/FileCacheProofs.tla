-------------------------- MODULE FileCacheProofs ---------------------------
(***************************************************************************)
(* Proofs about the file cache for any goroutines, keys, blobs, cap and    *)
(* time to live, with crashes at every step and failing writes: its state  *)
(* keeps its types and the mutex its holder; where the callers keep the    *)
(* Puts of a key apart no reader has a half-written file, an entry outside *)
(* the critical sections is whole, and the cache implements BlobStore.     *)
(*                                                                         *)
(* The counters agree with the directory, and the cap holds, as long as a  *)
(* Has or Get that removes an expired entry removes the entry it found     *)
(* expired: it decides before it has the mutex and subtracts what it saw   *)
(* then, so an entry that was swept, removed by another reader or replaced *)
(* in between is counted off a second time.  The rebuild after a crash is  *)
(* exact without a condition.                                              *)
(***************************************************************************)
EXTENDS FileCache, FiniteSetTheorems, TLAPS

Ops == [pc : {"idle"} \cup PutPCs \cup LookPCs, kind : {"none", "put", "has", "get"},
        key : Keys \cup {None}, blob : Blobs \cup {Torn},
        pre : BOOLEAN, seen : Files \cup {None}, oldPre : BOOLEAN]

(* The fields of a call are there when its steps use them.                 *)
OpSound(t) ==
    /\ op[t].pc # "idle" => op[t].key \in Keys
    /\ op[t].pc \in PutPCs => op[t].blob \in Blobs /\ op[t].kind = "put"
    /\ op[t].pc \in LookPCs => op[t].kind \in {"has", "get"}
    /\ op[t].pc \in LookPCs \ {"miss"} => op[t].seen \in Files

CallsEnd == ~ up => lock = None /\ \A t \in Threads : op[t] = Idle

TInv == TypeOK /\ (\A t \in Threads : OpSound(t)) /\ CallsEnd
-----------------------------------------------------------------------------
(* The bytes of files                                                      *)

Sized(b) == b \in [Keys -> Files \cup {None}]

BytesOf(b, S) == UNION {{k} \X (1..b[k].size) : k \in S}

LEMMA FirstN ==
    ASSUME NEW n \in Nat
    PROVE  IsFiniteSet(1..n) /\ Cardinality(1..n) = n
<1>1. 1 \in Int /\ n \in Int
  OBVIOUS
<1>2. IsFiniteSet(1..n) /\ Cardinality(1..n) = IF 1 > n THEN 0 ELSE n - 1 + 1
  BY ONLY <1>1, FS_Interval
<1> QED BY <1>2

LEMMA BytesOfFile ==
    ASSUME NEW k, NEW n \in Nat
    PROVE  IsFiniteSet({k} \X (1..n)) /\ Cardinality({k} \X (1..n)) = n
<1>1. IsFiniteSet({k}) /\ Cardinality({k}) = 1
  BY FS_Singleton
<1>2. IsFiniteSet(1..n) /\ Cardinality(1..n) = n
  BY FirstN
<1>3. IsFiniteSet({k} \X (1..n)) /\ Cardinality({k} \X (1..n)) = Cardinality({k}) * Cardinality(1..n)
  BY <1>1, <1>2, FS_Product
<1> QED BY <1>1, <1>2, <1>3

LEMMA BytesFinite ==
    ASSUME NEW b, Sized(b), NEW S \in SUBSET Present(b)
    PROVE  IsFiniteSet(S) /\ IsFiniteSet(BytesOf(b, S))
<1>1. IsFiniteSet(S)
  BY FileCacheAssumption, FS_Subset DEF Present
<1> DEFINE f == [k \in S |-> {k} \X (1..b[k].size)]
           T == {{k} \X (1..b[k].size) : k \in S}
<1>2. f \in Surjection(S, T)
  <2>1. f \in [S -> T]
    OBVIOUS
  <2>2. ASSUME NEW U \in T PROVE \E k \in S : f[k] = U
    OBVIOUS
  <2> QED BY <2>1, <2>2 DEF Surjection
<1>3. IsFiniteSet(T)
  BY <1>1, <1>2, FS_Surjection
<1>4. ASSUME NEW k \in S PROVE IsFiniteSet({k} \X (1..b[k].size))
  <2>1. b[k].size \in Nat
    BY DEF Sized, Present, Files
  <2> QED BY <2>1, BytesOfFile
<1>5. \A U \in T : IsFiniteSet(U)
  BY <1>4
<1> QED BY <1>1, <1>3, <1>5, FS_UNION DEF BytesOf

LEMMA BytesNat ==
    ASSUME NEW b, Sized(b), NEW S \in SUBSET Present(b)
    PROVE  Bytes(b, S) \in Nat
<1>1. Cardinality(BytesOf(b, S)) \in Nat
  BY BytesFinite, FS_CardinalityType
<1> QED BY <1>1 DEF Bytes, BytesOf

LEMMA BytesOfNone == ASSUME NEW b PROVE Bytes(b, {}) = 0
<1>1. {{k} \X (1..b[k].size) : k \in {}} = {}
  OBVIOUS
<1>2. UNION {} = {}
  OBVIOUS
<1> QED BY <1>1, <1>2, FS_EmptySet DEF Bytes

LEMMA BytesOfOne ==
    ASSUME NEW b, Sized(b), NEW k \in Present(b)
    PROVE  Bytes(b, {k}) = b[k].size
<1>1. b[k].size \in Nat
  BY DEF Sized, Present, Files
<1>2. Cardinality({k} \X (1..b[k].size)) = b[k].size
  BY <1>1, BytesOfFile
<1>3. UNION {{j} \X (1..b[j].size) : j \in {k}} = {k} \X (1..b[k].size)
  OBVIOUS
<1> QED BY <1>2, <1>3 DEF Bytes

(* The bytes of two sets of files add up.                                  *)
LEMMA BytesAdd ==
    ASSUME NEW b, Sized(b), NEW S \in SUBSET Present(b), NEW T \in SUBSET Present(b), S \cap T = {}
    PROVE  Bytes(b, S \cup T) = Bytes(b, S) + Bytes(b, T)
<1>1. IsFiniteSet(BytesOf(b, S)) /\ IsFiniteSet(BytesOf(b, T))
  BY BytesFinite
<1>2. BytesOf(b, S \cup T) = BytesOf(b, S) \cup BytesOf(b, T)
  BY DEF BytesOf
<1>3. BytesOf(b, S) \cap BytesOf(b, T) = {}
  BY DEF BytesOf
<1>4. Cardinality(BytesOf(b, S) \cap BytesOf(b, T)) = 0
  BY <1>3, FS_EmptySet
<1>5. /\ Cardinality(BytesOf(b, S)) \in Nat /\ Cardinality(BytesOf(b, T)) \in Nat
      /\ Cardinality(BytesOf(b, S \cup T))
           = Cardinality(BytesOf(b, S)) + Cardinality(BytesOf(b, T)) - Cardinality(BytesOf(b, S) \cap BytesOf(b, T))
  BY <1>1, <1>2, FS_Union, FS_CardinalityType
<1> QED BY <1>4, <1>5 DEF Bytes, BytesOf

(* They depend on the lengths of the files only.                           *)
LEMMA BytesSame ==
    ASSUME NEW b, NEW c, NEW S, \A k \in S : b[k].size = c[k].size
    PROVE  Bytes(b, S) = Bytes(c, S)
<1>1. {{k} \X (1..b[k].size) : k \in S} = {{k} \X (1..c[k].size) : k \in S}
  OBVIOUS
<1> QED BY <1>1 DEF Bytes
-----------------------------------------------------------------------------
(* Types                                                                   *)

LEMMA InitTyped == Init => TInv
  BY FileCacheAssumption DEF Init, TInv, TypeOK, OpSound, CallsEnd, Idle, PutPCs, LookPCs

(* What eviction leaves, from any files, sidecars and counters.            *)
LEMMA EvictTyped ==
    ASSUME NEW b, Sized(b), NEW m \in [Keys -> Metas \cup {None, Garbled}],
           NEW c \in Int, NEW e \in Int, NEW p \in Int, EvictFrom(b, m, c, e, p)
    PROVE  /\ Sized(bin') /\ meta' \in [Keys -> Metas \cup {None, Garbled}]
           /\ bytes' \in Nat /\ entries' \in Nat /\ prefetched' \in Nat
<1> PICK V \in Evictions(b, c) :
        /\ bin' = Without(b, V) /\ meta' = Without(m, V)
        /\ bytes' = AtLeast0(c - Bytes(b, V))
        /\ entries' = AtLeast0(e - Cardinality(V))
        /\ prefetched' = AtLeast0(p - PreCount(m, V))
  BY DEF EvictFrom
<1>1. V \in SUBSET Present(b)
  BY DEF Evictions
<1>2. IsFiniteSet(V) /\ Bytes(b, V) \in Nat /\ Cardinality(V) \in Nat
  BY <1>1, BytesFinite, BytesNat, FS_CardinalityType
<1>3. IsFiniteSet({k \in V : IsPre(m[k])})
  BY <1>2, FS_Subset
<1>4. PreCount(m, V) \in Nat
  BY <1>3, FS_CardinalityType DEF PreCount
<1>5. Sized(bin') /\ meta' \in [Keys -> Metas \cup {None, Garbled}]
  BY DEF Sized, Without
<1> QED BY <1>2, <1>4, <1>5 DEF AtLeast0

LEMMA WrittenTyped ==
    ASSUME NEW t \in Threads, NEW f \in Files \cup {None}, NEW b \in Blobs, now \in Nat
    PROVE  /\ WrittenBy(t, f, b) \in Files \cup {None}
           /\ WrittenBy(t, f, b) # None <=> f # None
<1>1. CASE f # None /\ t \in f.writers
  <2>1. WrittenBy(t, f, b) = [data |-> IF f.size > b THEN Torn ELSE b, size |-> IF f.size > b THEN f.size ELSE b,
                              mtime |-> now, writers |-> f.writers \ {t}]
    BY <1>1 DEF WrittenBy
  <2>2. f \in Files /\ b \in Nat
    BY <1>1, FileCacheAssumption
  <2>3. WrittenBy(t, f, b) \in Files
    BY <2>1, <2>2 DEF Files
  <2> QED BY <1>1, <2>3, FileCacheAssumption
<1>2. CASE ~ (f # None /\ t \in f.writers)
  BY <1>2 DEF WrittenBy
<1> QED BY <1>1, <1>2

DirTyped == /\ tmp \in [Keys -> Files \cup {None}] /\ Sized(bin)
            /\ meta \in [Keys -> Metas \cup {None, Garbled}]
CountTyped == bytes \in Nat /\ entries \in Nat /\ prefetched \in Nat
EnvTyped == now \in 0..MaxTime /\ crashes \in 0..MaxCrashes /\ puts \in 0..MaxPuts /\ up \in BOOLEAN

Held == {"renamed", "garbled", "dropped"}

Sound(r) ==
    /\ r \in Ops
    /\ r.pc # "idle" => r.key \in Keys
    /\ r.pc \in PutPCs => r.blob \in Blobs /\ r.kind = "put"
    /\ r.pc \in LookPCs => r.kind \in {"has", "get"}
    /\ r.pc \in LookPCs \ {"miss"} => r.seen \in Files

LEMMA TInvIs ==
    TInv <=> /\ DirTyped /\ CountTyped /\ EnvTyped
             /\ op = [t \in Threads |-> op[t]] /\ \A t \in Threads : Sound(op[t])
             /\ lock \in Threads \cup {None}
             /\ \A t \in Threads : op[t].pc \in Held <=> lock = t
             /\ CallsEnd
  BY DEF TInv, TypeOK, DirTyped, Sized, CountTyped, EnvTyped, Held, OpSound, Sound, Ops

(* A call moves, and takes, keeps or gives back the mutex.                 *)
LEMMA CallMoves ==
    ASSUME TInv, NEW t \in Threads, NEW r, op' = [op EXCEPT ![t] = r], Sound(r),
           DirTyped', CountTyped', EnvTyped', up, up' = up,
           \/ lock' = lock /\ (r.pc \in Held <=> op[t].pc \in Held)
           \/ lock = None /\ lock' = t /\ r.pc \in Held
           \/ op[t].pc \in Held /\ lock' = None /\ r.pc \notin Held
    PROVE  TInv'
<1>0. /\ op = [u \in Threads |-> op[u]] /\ \A u \in Threads : Sound(op[u])
      /\ lock \in Threads \cup {None}
      /\ \A u \in Threads : op[u].pc \in Held <=> lock = u
  BY TInvIs
<1>1. op'[t] = r /\ \A u \in Threads \ {t} : op'[u] = op[u]
  BY <1>0
<1>2. op' = [u \in Threads |-> op'[u]] /\ \A u \in Threads : Sound(op'[u])
  BY <1>0, <1>1
<1>3. lock' \in Threads \cup {None} /\ \A u \in Threads : op'[u].pc \in Held <=> lock' = u
  BY <1>0, <1>1, FileCacheAssumption
<1>4. CallsEnd'
  BY DEF CallsEnd
<1> QED
  BY <1>2, <1>3, <1>4
     DEF TInv, TypeOK, DirTyped, Sized, CountTyped, EnvTyped, Held, OpSound, Sound, Ops

(* A call goes on to pc, with the same fields.                             *)
LEMMA GoesOn ==
    ASSUME NEW o, Sound(o), NEW pc \in PutPCs \cup LookPCs, NEW r, r = [o EXCEPT !.pc = pc]
    PROVE  /\ r \in Ops /\ r.pc = pc /\ r.kind = o.kind /\ r.key = o.key /\ r.blob = o.blob
           /\ r.pre = o.pre /\ r.seen = o.seen /\ r.oldPre = o.oldPre
  BY DEF Sound, Ops

LEMMA IdleSound == Sound(Idle) /\ Idle.pc = "idle" /\ Idle.seen = None
  BY DEF Sound, Ops, PutPCs, LookPCs, Idle

(* The steps that make no call move.                                       *)
LEMMA CallsStay ==
    ASSUME TInv, op' = op, lock' = lock, DirTyped', CountTyped', EnvTyped', up' \/ up' = up
    PROVE  TInv'
  BY DEF TInv, TypeOK, DirTyped, Sized, CountTyped, EnvTyped, OpSound, CallsEnd

(* The sidecar that a Put leaves is its own, cannot be parsed, or is       *)
(* marked as the one of the blob before.                                   *)
LEMMA SidecarsAre ==
    ASSUME NEW t \in Threads, NEW m \in Sidecars(t), now \in Nat,
           op[t].blob \in Blobs, op[t].pre \in BOOLEAN, op[t].key \in Keys,
           meta \in [Keys -> Metas \cup {None, Garbled}]
    PROVE  /\ m \in Metas \cup {None, Garbled}
           /\ IsMeta(m) => m.size = op[t].blob \/ m.left
           /\ ~ DiskFaults => IsPre(m) = op[t].pre
<1> DEFINE new == [size |-> op[t].blob, storedAt |-> now, pre |-> op[t].pre, left |-> FALSE]
<1>1. new \in Metas /\ new.size = op[t].blob /\ new.pre = op[t].pre
  BY DEF Metas
<1>2. IsMeta(new) /\ IsPre(new) = op[t].pre
  BY <1>1, FileCacheAssumption DEF IsMeta, IsPre
<1>3. LeftBehind(meta[op[t].key]) \in Metas \cup {None, Garbled}
  BY DEF LeftBehind, Metas, IsMeta
<1>4. IsMeta(LeftBehind(meta[op[t].key])) => LeftBehind(meta[op[t].key]).left
  BY DEF LeftBehind, Metas, IsMeta
<1>5. /\ m \in {new, Garbled, LeftBehind(meta[op[t].key])}
      /\ ~ DiskFaults => m = new
  BY DEF Sidecars
<1>6. ~ IsMeta(Garbled)
  BY DEF IsMeta
<1> HIDE DEF new
<1> QED BY <1>1, <1>2, <1>3, <1>4, <1>5, <1>6


LEMMA PutTyped ==
    ASSUME TInv, NEW t \in Threads,
           PutStep(t) \/ \E k \in Keys, b \in Blobs, pre \in BOOLEAN : PutOpen(t, k, b, pre)
    PROVE  TInv'
<1>0. /\ DirTyped /\ CountTyped /\ EnvTyped /\ Sound(op[t]) /\ op = [u \in Threads |-> op[u]]
      /\ op[t].pc \in Held <=> lock = t
      /\ op[t].pc # "idle" => up
      /\ now \in Nat
  BY FileCacheAssumption, TInvIs DEF CallsEnd, EnvTyped, Idle
<1> DEFINE k == op[t].key
<1>1. ASSUME NEW j \in Keys, NEW b \in Blobs, NEW pre \in BOOLEAN, PutOpen(t, j, b, pre) PROVE TInv'
  <2> DEFINE r == [Idle EXCEPT !.pc = "opened", !.kind = "put", !.key = j, !.blob = b, !.pre = pre]
  <2>1. op' = [op EXCEPT ![t] = r] /\ lock' = lock /\ up /\ up' = up /\ op[t].pc = "idle"
    BY <1>1 DEF PutOpen
  <2>2. /\ r \in Ops /\ r.pc = "opened" /\ r.kind = "put" /\ r.key = j /\ r.blob = b
    BY DEF Idle, Ops, PutPCs
  <2>3. Sound(r) /\ r.pc \notin Held
    BY <2>2 DEF Sound, PutPCs, LookPCs, Held
  <2>4. DirTyped'
    <3>1. tmp[j] # None => tmp[j].writers \in SUBSET Threads
      BY <1>0 DEF DirTyped, Files
    <3>2. tmp' = [tmp EXCEPT ![j] = [data |-> Torn, size |-> 0, mtime |-> now,
                    writers |-> {t} \cup (IF tmp[j] = None THEN {} ELSE tmp[j].writers)]]
      BY <1>1 DEF PutOpen
    <3>3. [data |-> Torn, size |-> 0, mtime |-> now,
           writers |-> {t} \cup (IF tmp[j] = None THEN {} ELSE tmp[j].writers)] \in Files
      BY <1>0, <3>1 DEF Files
    <3>4. tmp' \in [Keys -> Files \cup {None}]
      BY <1>0, <3>2, <3>3 DEF DirTyped
    <3>5. bin' = bin /\ meta' = meta
      BY <1>1 DEF PutOpen
    <3> QED BY <1>0, <3>4, <3>5 DEF DirTyped, Sized
  <2>5. CountTyped'
    BY <1>0, <1>1 DEF CountTyped, PutOpen, counters
  <2>6. EnvTyped'
    <3>1. /\ now' = now /\ crashes' = crashes /\ up' = up
          /\ puts < MaxPuts /\ puts' = puts + 1 /\ puts \in 0..MaxPuts /\ MaxPuts \in Nat
      BY <1>0, <1>1, FileCacheAssumption DEF EnvTyped, PutOpen
    <3>2. puts' \in 0..MaxPuts
      BY ONLY <3>1
    <3> QED BY <1>0, <3>1, <3>2 DEF EnvTyped
  <2> QED BY <2>1, <2>3, <2>4, <2>5, <2>6, CallMoves DEF Held
<1>2. ASSUME PutWrite(t) PROVE TInv'
  <2> DEFINE r == [op[t] EXCEPT !.pc = "written"]
  <2>1. op' = [op EXCEPT ![t] = r] /\ lock' = lock /\ UNCHANGED env /\ op[t].pc = "opened"
    BY <1>2 DEF PutWrite
  <2>2. Sound(r) /\ r.pc \notin Held /\ up
    BY <1>0, <2>1, GoesOn DEF Sound, PutPCs, LookPCs, Held
  <2>3. WrittenBy(t, tmp[k], op[t].blob) \in Files \cup {None} /\ WrittenBy(t, bin[k], op[t].blob) \in Files \cup {None}
    <3>1. k \in Keys /\ op[t].blob \in Blobs
      BY <1>0, <2>1 DEF Sound, PutPCs
    <3>2. tmp[k] \in Files \cup {None} /\ bin[k] \in Files \cup {None}
      BY <1>0, <3>1 DEF DirTyped, Sized
    <3> QED BY <1>0, <3>1, <3>2, WrittenTyped
  <2>4. DirTyped'
    BY <1>0, <1>2, <2>3 DEF DirTyped, PutWrite, Sized
  <2>5. CountTyped' /\ EnvTyped' /\ up' = up
    BY <1>0, <1>2, <2>1 DEF CountTyped, EnvTyped, PutWrite, counters, env
  <2> QED BY <2>1, <2>2, <2>4, <2>5, CallMoves DEF Held
<1>3. ASSUME PutWriteFails(t) PROVE TInv'
  <2>1. op' = [op EXCEPT ![t] = Idle] /\ lock' = lock /\ UNCHANGED env /\ op[t].pc = "opened"
    BY <1>3 DEF PutWriteFails
  <2>2. Sound(Idle) /\ Idle.pc \notin Held /\ up
    BY <1>0, <2>1, IdleSound DEF Held
  <2>3. bin[k] # None => ClosedBy(t, bin[k]) \in Files
    BY <1>0, <2>1 DEF DirTyped, Sized, Sound, PutPCs, Files, ClosedBy
  <2>4. DirTyped'
    <3>1. tmp' \in [Keys -> Files \cup {None}] /\ meta' = meta
      BY <1>0, <1>3 DEF DirTyped, PutWriteFails
    <3>2. Sized(bin')
      BY <1>0, <1>3, <2>3 DEF DirTyped, Sized, PutWriteFails, ClosedBy
    <3> QED BY <1>0, <3>1, <3>2 DEF DirTyped, Sized
  <2>5. CountTyped' /\ EnvTyped' /\ up' = up
    BY <1>0, <1>3, <2>1 DEF CountTyped, EnvTyped, PutWriteFails, counters, env
  <2> QED BY <2>1, <2>2, <2>4, <2>5, CallMoves DEF Held
<1>4. ASSUME PutRename(t) PROVE TInv'
  <2> DEFINE r == [op[t] EXCEPT !.pc = "renamed", !.seen = bin[k], !.oldPre = bin[k] # None /\ IsPre(meta[k])]
  <2>1. op' = [op EXCEPT ![t] = r] /\ lock = None /\ lock' = t /\ UNCHANGED env /\ op[t].pc = "written"
    BY <1>4 DEF PutRename
  <2>2. k \in Keys /\ bin[k] \in Files \cup {None}
    BY <1>0, <2>1 DEF Sound, PutPCs, DirTyped, Sized
  <2>3. Sound(r) /\ r.pc \in Held /\ up
    <3>1. /\ r \in Ops /\ r.pc = "renamed" /\ r.kind = op[t].kind /\ r.key = k /\ r.blob = op[t].blob
      BY <1>0, <2>2 DEF Sound, Ops, PutPCs
    <3> QED BY <1>0, <2>1, <3>1 DEF Sound, PutPCs, LookPCs, Held
  <2>4. DirTyped'
    BY <1>0, <1>4, <2>2 DEF DirTyped, PutRename, Sized
  <2>5. CountTyped' /\ EnvTyped' /\ up' = up
    BY <1>0, <1>4, <2>1 DEF CountTyped, EnvTyped, PutRename, counters, env
  <2> QED BY <2>1, <2>3, <2>4, <2>5, CallMoves
<1>5. ASSUME PutRenameFails(t) PROVE TInv'
  <2>1. op' = [op EXCEPT ![t] = Idle] /\ lock' = lock /\ UNCHANGED env /\ op[t].pc = "written"
    BY <1>5 DEF PutRenameFails
  <2>2. Sound(Idle) /\ Idle.pc \notin Held /\ up
    BY <1>0, <2>1, IdleSound DEF Held
  <2>3. DirTyped'
    BY <1>0, <1>5 DEF DirTyped, PutRenameFails, Sized
  <2>4. CountTyped' /\ EnvTyped' /\ up' = up
    BY <1>0, <1>5, <2>1 DEF CountTyped, EnvTyped, PutRenameFails, counters, env
  <2> QED BY <2>1, <2>2, <2>3, <2>4, CallMoves DEF Held
<1>6. ASSUME PutMetaOpen(t) PROVE TInv'
  <2> DEFINE r == [op[t] EXCEPT !.pc = "garbled"]
  <2>1. op' = [op EXCEPT ![t] = r] /\ lock' = lock /\ UNCHANGED env /\ op[t].pc = "renamed"
    BY <1>6 DEF PutMetaOpen
  <2>2. Sound(r) /\ r.pc \in Held /\ up
    BY <1>0, <2>1, GoesOn DEF Sound, PutPCs, LookPCs, Held
  <2>3. DirTyped'
    BY <1>0, <1>6 DEF DirTyped, PutMetaOpen, Sized
  <2>4. CountTyped' /\ EnvTyped' /\ up' = up
    BY <1>0, <1>6, <2>1 DEF CountTyped, EnvTyped, PutMetaOpen, counters, env
  <2> QED BY <2>1, <2>2, <2>3, <2>4, CallMoves DEF Held
<1>7. ASSUME PutFinish(t) PROVE TInv'
  <2>1. op' = [op EXCEPT ![t] = Idle] /\ lock' = None /\ UNCHANGED <<env, tmp>> /\ op[t].pc \in {"renamed", "garbled"}
    BY <1>7 DEF PutFinish
  <2>2. Sound(Idle) /\ Idle.pc \notin Held /\ up
    BY <1>0, <2>1, IdleSound DEF Held
  <2>3. PICK m \in Sidecars(t) :
           EvictFrom(bin, [meta EXCEPT ![k] = m], AtLeast0(bytes + op[t].blob - OldSize(t)),
                     entries + Bit(op[t].seen = None), AtLeast0(prefetched + Bit(op[t].pre) - Bit(op[t].oldPre)))
    BY <1>7 DEF PutFinish
  <2>4. op[t].blob \in Blobs /\ op[t].blob \in Nat /\ op[t].pre \in BOOLEAN /\ OldSize(t) \in Nat
    BY <1>0, <2>1, FileCacheAssumption DEF Sound, Ops, PutPCs, OldSize, Files
  <2>5. m \in Metas \cup {None, Garbled}
    <3>1. op[t].key \in Keys /\ meta \in [Keys -> Metas \cup {None, Garbled}] /\ now \in Nat
      BY <1>0, <2>1 DEF Sound, DirTyped
    <3>2. op[t].blob \in Blobs /\ op[t].pre \in BOOLEAN
      BY <2>4
    <3>3. m \in Sidecars(t)
      OBVIOUS
    <3> QED BY ONLY <3>1, <3>2, <3>3, SidecarsAre
  <2>6. /\ Sized(bin) /\ [meta EXCEPT ![k] = m] \in [Keys -> Metas \cup {None, Garbled}]
        /\ AtLeast0(bytes + op[t].blob - OldSize(t)) \in Int /\ entries + Bit(op[t].seen = None) \in Int
        /\ AtLeast0(prefetched + Bit(op[t].pre) - Bit(op[t].oldPre)) \in Int
    <3>1. Sized(bin) /\ [meta EXCEPT ![k] = m] \in [Keys -> Metas \cup {None, Garbled}]
      BY <1>0, <2>5 DEF DirTyped
    <3>2. bytes \in Nat /\ entries \in Nat /\ prefetched \in Nat
      BY <1>0 DEF CountTyped
    <3> HIDE DEF k
    <3> QED BY <2>4, <3>1, <3>2 DEF AtLeast0, Bit
  <2>7. /\ Sized(bin') /\ meta' \in [Keys -> Metas \cup {None, Garbled}]
        /\ bytes' \in Nat /\ entries' \in Nat /\ prefetched' \in Nat
    BY <2>3, <2>6, EvictTyped
  <2>8. DirTyped' /\ CountTyped' /\ EnvTyped' /\ up' = up
    BY <1>0, <2>1, <2>7 DEF DirTyped, CountTyped, EnvTyped, env
  <2> QED BY <2>1, <2>2, <2>8, CallMoves DEF Held
<1> QED BY <1>1, <1>2, <1>3, <1>4, <1>5, <1>6, <1>7 DEF PutStep

LEMMA TouchedTyped ==
    ASSUME Sized(bin), now \in Nat, NEW j \in Keys
    PROVE  Sized(Touched(j))
<1>1. bin[j] # None => [bin[j] EXCEPT !.mtime = now] \in Files
  BY DEF Sized, Files
<1> QED BY <1>1 DEF Sized, Touched

LEMMA LookTyped ==
    ASSUME TInv, NEW t \in Threads,
           LookStep(t) \/ \E k \in Keys, kind \in {"has", "get"} : Look(t, kind, k)
    PROVE  TInv'
<1>0. /\ DirTyped /\ CountTyped /\ EnvTyped /\ Sound(op[t]) /\ op = [u \in Threads |-> op[u]]
      /\ op[t].pc \in Held <=> lock = t
      /\ op[t].pc # "idle" => up
      /\ now \in Nat
  BY FileCacheAssumption, TInvIs DEF CallsEnd, EnvTyped, Idle
<1> DEFINE k == op[t].key
           missed == [op[t] EXCEPT !.pc = "miss", !.seen = None]
<1>m. ASSUME op[t].pc \in LookPCs PROVE Sound(missed) /\ missed.pc \notin Held
  <2>1. /\ missed \in Ops /\ missed.pc = "miss" /\ missed.kind = op[t].kind /\ missed.key = k
    BY <1>0 DEF Sound, Ops, LookPCs
  <2> QED BY <1>0, <1>m, <2>1 DEF Sound, PutPCs, LookPCs, Held
<1>1. ASSUME NEW j \in Keys, NEW kind \in {"has", "get"}, Look(t, kind, j) PROVE TInv'
  <2> DEFINE r == [Idle EXCEPT !.pc = IF bin[j] = None THEN "miss" ELSE "viewed",
                               !.kind = kind, !.key = j, !.seen = bin[j]]
  <2>1. op' = [op EXCEPT ![t] = r] /\ UNCHANGED <<env, disk, counters, lock>> /\ up /\ op[t].pc = "idle"
    BY <1>1 DEF Look
  <2>2. bin[j] \in Files \cup {None}
    BY <1>0 DEF DirTyped, Sized
  <2>3. /\ r \in Ops /\ r.kind = kind /\ r.key = j /\ r.seen = bin[j]
        /\ r.pc = IF bin[j] = None THEN "miss" ELSE "viewed"
    BY <2>2 DEF Idle, Ops, LookPCs
  <2>4. Sound(r) /\ r.pc \notin Held
    BY <2>2, <2>3 DEF Sound, PutPCs, LookPCs, Held
  <2>5. DirTyped' /\ CountTyped' /\ EnvTyped' /\ up' = up /\ lock' = lock
    BY <1>0, <2>1 DEF DirTyped, Sized, CountTyped, EnvTyped, counters, disk, env
  <2> QED BY <2>1, <2>4, <2>5, CallMoves DEF Held
<1>2. ASSUME LookNoMeta(t) PROVE TInv'
  <2>1. op' = [op EXCEPT ![t] = missed] /\ UNCHANGED <<env, disk, counters, lock>> /\ op[t].pc = "viewed"
    BY <1>2 DEF LookNoMeta, Miss
  <2>2. Sound(missed) /\ missed.pc \notin Held /\ up
    BY <1>0, <1>m, <2>1 DEF LookPCs
  <2>3. DirTyped' /\ CountTyped' /\ EnvTyped' /\ up' = up /\ lock' = lock
    BY <1>0, <2>1 DEF DirTyped, Sized, CountTyped, EnvTyped, counters, disk, env
  <2> QED BY <2>1, <2>2, <2>3, CallMoves DEF Held
<1>3. ASSUME LookExpired(t) PROVE TInv'
  <2> DEFINE r == [op[t] EXCEPT !.pc = "dropping", !.pre = meta[k].pre]
  <2>1. /\ op' = [op EXCEPT ![t] = r] /\ UNCHANGED <<env, disk, counters, lock>>
        /\ op[t].pc = "viewed" /\ IsMeta(meta[k])
    BY <1>3 DEF LookExpired
  <2>2. meta[k].pre \in BOOLEAN
    BY <1>0, <2>1 DEF DirTyped, Sound, LookPCs, IsMeta, Metas
  <2>3. Sound(r) /\ r.pc \notin Held /\ up
    <3>1. r \in Ops /\ r.pc = "dropping" /\ r.kind = op[t].kind /\ r.key = k /\ r.seen = op[t].seen
      BY <1>0, <2>2 DEF Sound, Ops, LookPCs
    <3> QED BY <1>0, <2>1, <3>1 DEF Sound, PutPCs, LookPCs, Held
  <2>4. DirTyped' /\ CountTyped' /\ EnvTyped' /\ up' = up /\ lock' = lock
    BY <1>0, <2>1 DEF DirTyped, Sized, CountTyped, EnvTyped, counters, disk, env
  <2> QED BY <2>1, <2>3, <2>4, CallMoves DEF Held
<1>4. ASSUME LookHit(t) PROVE TInv'
  <2> DEFINE r == [op[t] EXCEPT !.pc = "hit"]
  <2>1. /\ op' = [op EXCEPT ![t] = r] /\ UNCHANGED <<env, tmp, meta, counters, lock>> /\ op[t].pc = "viewed"
        /\ bin' = IF op[t].kind = "get" THEN Touched(k) ELSE bin
    BY <1>4 DEF LookHit
  <2>2. Sound(r) /\ r.pc \notin Held /\ up /\ k \in Keys
    BY <1>0, <2>1, GoesOn DEF Sound, PutPCs, LookPCs, Held
  <2>3. Sized(bin')
    BY <1>0, <2>1, <2>2, TouchedTyped DEF DirTyped
  <2>4. DirTyped' /\ CountTyped' /\ EnvTyped' /\ up' = up /\ lock' = lock
    BY <1>0, <2>1, <2>3 DEF DirTyped, CountTyped, EnvTyped, counters, env
  <2> QED BY <2>1, <2>2, <2>4, CallMoves DEF Held
<1>5. ASSUME DropBin(t) PROVE TInv'
  <2> DEFINE r == [op[t] EXCEPT !.pc = "dropped"]
  <2>1. op' = [op EXCEPT ![t] = r] /\ lock = None /\ lock' = t /\ UNCHANGED <<env, tmp, meta, counters>> /\ op[t].pc = "dropping"
    BY <1>5 DEF DropBin
  <2>2. Sound(r) /\ r.pc \in Held /\ up
    BY <1>0, <2>1, GoesOn DEF Sound, PutPCs, LookPCs, Held
  <2>3. DirTyped' /\ CountTyped' /\ EnvTyped' /\ up' = up
    BY <1>0, <1>5, <2>1 DEF DirTyped, Sized, DropBin, CountTyped, EnvTyped, counters, env
  <2> QED BY <2>1, <2>2, <2>3, CallMoves
<1>6. ASSUME DropMeta(t) PROVE TInv'
  <2>1. op' = [op EXCEPT ![t] = missed] /\ lock' = None /\ UNCHANGED <<env, tmp, bin>> /\ op[t].pc = "dropped"
    BY <1>6 DEF DropMeta
  <2>2. Sound(missed) /\ missed.pc \notin Held /\ up
    BY <1>0, <1>m, <2>1 DEF LookPCs
  <2>3. DirTyped' /\ EnvTyped' /\ up' = up
    BY <1>0, <1>6, <2>1 DEF DirTyped, Sized, DropMeta, EnvTyped, env
  <2>4. CountTyped'
    <3>1. op[t].seen.size \in Nat
      BY <1>0, <2>1 DEF Sound, LookPCs, Files
    <3>2. /\ bytes' = AtLeast0(bytes - op[t].seen.size) /\ entries' = AtLeast0(entries - 1)
          /\ prefetched' = AtLeast0(prefetched - Bit(op[t].pre))
      BY <1>6 DEF DropMeta
    <3> QED BY <1>0, <3>1, <3>2 DEF CountTyped, AtLeast0, Bit
  <2> QED BY <2>1, <2>2, <2>3, <2>4, CallMoves DEF Held
<1>7. ASSUME LookReturn(t) PROVE TInv'
  <2>1. /\ op' = [op EXCEPT ![t] = Idle] /\ UNCHANGED <<env, tmp, meta, counters, lock>>
        /\ op[t].pc \in {"hit", "miss"} /\ bin' \in {Touched(k), bin}
    BY <1>7 DEF LookReturn
  <2>2. Sound(Idle) /\ Idle.pc \notin Held /\ up /\ k \in Keys
    BY <1>0, <2>1, IdleSound DEF Held, Sound
  <2>3. Sized(bin')
    BY <1>0, <2>1, <2>2, TouchedTyped DEF DirTyped
  <2>4. DirTyped' /\ CountTyped' /\ EnvTyped' /\ up' = up /\ lock' = lock
    BY <1>0, <2>1, <2>3 DEF DirTyped, CountTyped, EnvTyped, counters, env
  <2> QED BY <2>1, <2>2, <2>4, CallMoves DEF Held
<1> QED BY <1>1, <1>2, <1>3, <1>4, <1>5, <1>6, <1>7 DEF LookStep

(* What is left of the directory when some entries are removed.            *)
LEMMA LessTyped ==
    ASSUME DirTyped, NEW S
    PROVE  Sized(Without(bin, S)) /\ Without(meta, S) \in [Keys -> Metas \cup {None, Garbled}]
  BY DEF DirTyped, Sized, Without

LEMMA CountsTyped ==
    ASSUME NEW S \in SUBSET Present(bin)
    PROVE  Cardinality(S) \in Nat /\ PreCount(meta, S) \in Nat
<1>1. IsFiniteSet(S) /\ IsFiniteSet({k \in S : IsPre(meta[k])})
  BY FileCacheAssumption, FS_Subset DEF Present
<1> QED BY <1>1, FS_CardinalityType DEF PreCount

LEMMA NextTyped == ASSUME TInv, [Next]_vars PROVE TInv'
<1>0. DirTyped /\ CountTyped /\ EnvTyped
  BY TInvIs
<1>1. CASE \E t \in Threads, k \in Keys :
              \/ \E b \in Blobs, pre \in BOOLEAN : PutOpen(t, k, b, pre)
              \/ \E kind \in {"has", "get"} : Look(t, kind, k)
  BY <1>1, PutTyped, LookTyped
<1>2. CASE \E t \in Threads : PutStep(t) \/ LookStep(t)
  BY <1>2, PutTyped, LookTyped
<1>3. CASE Sweep
  <2>1. PICK gone \in SUBSET Present(bin) :
           EvictFrom(Without(bin, gone), Without(meta, gone), AtLeast0(bytes - Bytes(bin, gone)),
                     AtLeast0(entries - Cardinality(gone)), AtLeast0(prefetched - PreCount(meta, gone)))
    BY <1>3 DEF Sweep, ExpiredKeys
  <2>2. /\ bytes \in Nat /\ entries \in Nat /\ prefetched \in Nat
        /\ Bytes(bin, gone) \in Nat /\ Cardinality(gone) \in Nat /\ PreCount(meta, gone) \in Nat
    BY <1>0, BytesNat, CountsTyped DEF DirTyped, CountTyped
  <2>3. /\ AtLeast0(bytes - Bytes(bin, gone)) \in Int /\ AtLeast0(entries - Cardinality(gone)) \in Int
        /\ AtLeast0(prefetched - PreCount(meta, gone)) \in Int
    BY <2>2 DEF AtLeast0
  <2>4. /\ Sized(bin') /\ meta' \in [Keys -> Metas \cup {None, Garbled}]
        /\ bytes' \in Nat /\ entries' \in Nat /\ prefetched' \in Nat
    BY <1>0, <2>1, <2>3, LessTyped, EvictTyped
  <2>5. UNCHANGED <<env, tmp, lock, op>>
    BY <1>3 DEF Sweep
  <2>6. DirTyped' /\ CountTyped' /\ EnvTyped' /\ up' = up
    BY <1>0, <2>4, <2>5 DEF DirTyped, CountTyped, EnvTyped, env
  <2> QED BY <2>5, <2>6, CallsStay
<1>4. CASE Tick
  <2>1. UNCHANGED <<crashes, puts, up, disk, counters, lock, op>>
    BY <1>4 DEF Tick
  <2>2. now' \in 0..MaxTime
    <3>1. now \in 0..MaxTime /\ now < MaxTime /\ now' = now + 1 /\ MaxTime \in Nat
      BY <1>0, <1>4, FileCacheAssumption DEF EnvTyped, Tick
    <3> QED BY ONLY <3>1
  <2>3. DirTyped' /\ CountTyped' /\ EnvTyped' /\ up' = up
    BY <1>0, <2>1, <2>2 DEF DirTyped, Sized, CountTyped, EnvTyped, disk, counters
  <2> QED BY <2>1, <2>3, CallsStay
<1>5. CASE Crash
  <2>1. crashes' \in 0..MaxCrashes
    <3>1. crashes \in 0..MaxCrashes /\ crashes < MaxCrashes /\ crashes' = crashes + 1 /\ MaxCrashes \in Nat
      BY <1>0, <1>5, FileCacheAssumption DEF EnvTyped, Crash
    <3> QED BY ONLY <3>1
  <2>2. Sized(Closed(bin)) /\ Sized(Closed(tmp))
    <3>1. ASSUME NEW f \in Files PROVE [f EXCEPT !.writers = {}] \in Files
      BY DEF Files
    <3> QED BY <1>0, <3>1 DEF DirTyped, Sized, Closed
  <2>3. DirTyped' /\ CountTyped' /\ EnvTyped'
    BY <1>0, <1>5, <2>1, <2>2 DEF DirTyped, Sized, CountTyped, EnvTyped, Crash
  <2>4. op' = [t \in Threads |-> Idle] /\ lock' = None
    BY <1>5 DEF Crash
  <2>5. \A t \in Threads : Sound(op'[t]) /\ op'[t] = Idle /\ op'[t].pc \notin Held
    BY <2>4, IdleSound DEF Held
  <2> QED
    BY <2>3, <2>4, <2>5, FileCacheAssumption
       DEF TInv, TypeOK, DirTyped, Sized, CountTyped, EnvTyped, Held, OpSound, Sound, Ops, CallsEnd
<1>6. CASE Recover
  <2>1. PICK gone \in SUBSET Present(bin), kept \in SUBSET Present(bin) :
           EvictFrom(Without(bin, gone), Without(meta, gone), Bytes(bin, kept), Cardinality(kept), PreCount(meta, kept))
    BY <1>6 DEF Recover, Kept
  <2>2. Bytes(bin, kept) \in Int /\ Cardinality(kept) \in Int /\ PreCount(meta, kept) \in Int
    BY <1>0, BytesNat, CountsTyped DEF DirTyped
  <2>3. /\ Sized(bin') /\ meta' \in [Keys -> Metas \cup {None, Garbled}]
        /\ bytes' \in Nat /\ entries' \in Nat /\ prefetched' \in Nat
    BY <1>0, <2>1, <2>2, LessTyped, EvictTyped
  <2>4. UNCHANGED <<now, crashes, puts, lock, op>> /\ up' = TRUE /\ tmp' = [k \in Keys |-> None]
    BY <1>6 DEF Recover
  <2>5. DirTyped' /\ CountTyped' /\ EnvTyped'
    BY <1>0, <2>3, <2>4 DEF DirTyped, CountTyped, EnvTyped
  <2> QED BY <2>4, <2>5, CallsStay
<1>7. CASE UNCHANGED vars
  <2>1. DirTyped' /\ CountTyped' /\ EnvTyped' /\ UNCHANGED <<op, lock, up>>
    BY <1>0, <1>7 DEF DirTyped, Sized, CountTyped, EnvTyped, vars, env, disk, counters
  <2> QED BY <2>1, CallsStay
<1> QED BY <1>1, <1>2, <1>3, <1>4, <1>5, <1>6, <1>7 DEF Next

(* The types, the fields each step of a call relies on, and that a crash   *)
(* ends every call, hold in every state.                                   *)
THEOREM AlwaysTyped == Spec => []TInv
  BY InitTyped, NextTyped, PTL DEF Spec

(* In every state of every run the clock and the counters are natural      *)
(* numbers, the directory holds files and sidecars, and the mutex is held  *)
(* by the one goroutine that is inside a critical section, or by nobody.   *)
THEOREM TypeCorrect == Spec => []TypeOK
<1>1. TInv => TypeOK
  BY DEF TInv
<1> QED BY <1>1, AlwaysTyped, PTL
-----------------------------------------------------------------------------
(* With the Puts of a key apart: a temporary file is written by the one    *)
(* Put that has it open, and what is renamed, and read, is a whole blob.   *)
Whole(f) == f.data \in Blobs /\ f.size = f.data /\ f.writers = {}

PutsApart ==
    \A t, u \in Threads :
        op[t].pc \in PutPCs /\ op[u].pc \in PutPCs /\ op[t].key = op[u].key => t = u

TmpOwned ==
    \A t \in Threads :
        LET f == tmp[op[t].key] IN
        /\ op[t].pc = "opened" => f # None /\ f.size = 0 /\ f.writers = {t}
        /\ op[t].pc = "written" /\ f # None => Whole(f) /\ f.data = op[t].blob

(* A temporary file is there for a Put that is not through with it.        *)
TmpUsed ==
    up => \A k \in Keys : tmp[k] # None =>
        \E t \in Threads : op[t].pc \in {"opened", "written"} /\ op[t].key = k

BlobsWhole ==
    /\ \A k \in Keys : bin[k] # None => Whole(bin[k])
    /\ \A t \in Threads : op[t].seen # None => Whole(op[t].seen)

(* A sidecar declares the length of its file, but for the file that a Put  *)
(* has just renamed and for a sidecar that the disk did not let it write.  *)
SidecarsFit ==
    up => \A k \in Keys :
        bin[k] # None /\ IsMeta(meta[k]) =>
            \/ bin[k].size = meta[k].size \/ meta[k].left
            \/ \E t \in Threads : op[t].pc = "renamed" /\ op[t].key = k

(* What a Put has renamed is its blob.                                     *)
RenamedIsBin ==
    \A t \in Threads : op[t].pc \in {"renamed", "garbled"} =>
        /\ bin[op[t].key] # None /\ bin[op[t].key].data = op[t].blob
        /\ op[t].pc = "garbled" => meta[op[t].key] = Garbled

WInv == PutsApart /\ TmpOwned /\ TmpUsed /\ BlobsWhole /\ RenamedIsBin /\ SidecarsFit

-----------------------------------------------------------------------------
LEMMA InitWhole == Init => WInv
  BY FileCacheAssumption
     DEF Init, WInv, PutsApart, TmpOwned, TmpUsed, BlobsWhole, RenamedIsBin, SidecarsFit, Idle, PutPCs

(* A step that leaves the Puts where they are, and the temporary files and *)
(* the contents of the files alone; while a Put is inside its critical     *)
(* section nothing is removed.                                             *)
LEMMA PutsStay ==
    ASSUME WInv, tmp' = tmp, up' = up,
           \A u \in Threads :
               \/ op'[u] = op[u]
               \/ /\ op[u].pc \notin PutPCs /\ op'[u].pc \notin PutPCs
                  /\ op'[u].seen # None => Whole(op'[u].seen),
           \A k \in Keys :
               /\ bin'[k] # None => /\ bin[k] # None /\ bin'[k].data = bin[k].data
                                    /\ bin'[k].size = bin[k].size /\ bin'[k].writers = bin[k].writers
               /\ meta'[k] \in {meta[k], None},
           \/ \A u \in Threads : op[u].pc \notin {"renamed", "garbled"}
           \/ meta' = meta /\ \A k \in Keys : bin[k] # None => bin'[k] # None,
           \A u \in Threads : op[u].pc # "idle" => op[u].key \in Keys
    PROVE  WInv'
<1>1. PutsApart'
  BY DEF WInv, PutsApart
<1>2. TmpOwned'
  BY DEF WInv, TmpOwned, PutPCs
<1>2a. TmpUsed'
  BY DEF WInv, TmpUsed, PutPCs
<1>3. BlobsWhole'
  BY DEF WInv, BlobsWhole, Whole
<1>4. RenamedIsBin'
  BY DEF WInv, RenamedIsBin, PutPCs
<1>5. SidecarsFit'
  BY DEF WInv, SidecarsFit, IsMeta, PutPCs
<1> QED BY <1>1, <1>2, <1>2a, <1>3, <1>4, <1>5 DEF WInv

LEMMA LookKeepsWhole ==
    ASSUME TInv, WInv, NEW t \in Threads,
           LookStep(t) \/ \E k \in Keys, kind \in {"has", "get"} : Look(t, kind, k)
    PROVE  WInv'
<1>0. /\ Sized(bin) /\ Sound(op[t]) /\ op = [u \in Threads |-> op[u]] /\ meta \in [Keys -> Metas \cup {None, Garbled}]
      /\ lock \in Threads \cup {None}
      /\ \A u \in Threads : op[u].pc \in Held <=> lock = u
      /\ \A u \in Threads : op[u].pc # "idle" => op[u].key \in Keys
      /\ \A k \in Keys : bin[k] # None => Whole(bin[k])
      /\ \A u \in Threads : op[u].seen # None => Whole(op[u].seen)
      /\ None \notin Threads /\ now \in Nat
  BY FileCacheAssumption, TInvIs DEF DirTyped, WInv, BlobsWhole, Sound, EnvTyped
<1>f. lock \in {None, t} /\ op[t].pc \notin {"renamed", "garbled"} =>
        \A u \in Threads : op[u].pc \notin {"renamed", "garbled"}
  BY <1>0 DEF Held
<1> DEFINE k == op[t].key
<1>t. ASSUME NEW j \in Keys, bin' = Touched(j)
      PROVE  \A i \in Keys :
               /\ bin[i] # None => bin'[i] # None
               /\ bin'[i] # None => /\ bin[i] # None /\ bin'[i].data = bin[i].data
                                    /\ bin'[i].size = bin[i].size /\ bin'[i].writers = bin[i].writers
  <2> SUFFICES ASSUME NEW i \in Keys
               PROVE  /\ bin[i] # None => bin'[i] # None
                      /\ bin'[i] # None => /\ bin[i] # None /\ bin'[i].data = bin[i].data
                                           /\ bin'[i].size = bin[i].size /\ bin'[i].writers = bin[i].writers
    OBVIOUS
  <2>1. bin'[i] = IF i = j /\ bin[i] # None THEN [bin[i] EXCEPT !.mtime = now] ELSE bin[i]
    BY <1>0, <1>t DEF Touched, Sized
  <2>2. bin[i] # None => bin[i] \in Files
    BY <1>0 DEF Sized
  <2>3. bin[i] # None => [bin[i] EXCEPT !.mtime = now] # None
    <3>1. bin[i] # None => [bin[i] EXCEPT !.mtime = now] \in Files
      BY <1>0, <2>2 DEF Files
    <3> QED BY <3>1, FileCacheAssumption
  <2> QED BY <2>1, <2>2, <2>3 DEF Files
<1>1. ASSUME NEW j \in Keys, NEW kind \in {"has", "get"}, Look(t, kind, j) PROVE WInv'
  <2> DEFINE r == [Idle EXCEPT !.pc = IF bin[j] = None THEN "miss" ELSE "viewed",
                               !.kind = kind, !.key = j, !.seen = bin[j]]
  <2>1. op' = [op EXCEPT ![t] = r] /\ UNCHANGED <<env, disk, counters, lock>> /\ op[t].pc = "idle"
    BY <1>1 DEF Look
  <2>2. op'[t].pc \notin PutPCs /\ op'[t].seen = bin[j]
    BY <1>0, <2>1 DEF Idle, PutPCs
  <2>3. \A u \in Threads \ {t} : op'[u] = op[u]
    BY <1>0, <2>1
  <2> QED BY <1>0, <2>1, <2>2, <2>3, PutsStay DEF PutPCs, disk, env
<1>2. ASSUME LookNoMeta(t) PROVE WInv'
  <2>1. /\ op' = [op EXCEPT ![t].pc = "miss", ![t].seen = None] /\ UNCHANGED <<env, disk, counters, lock>>
        /\ op[t].pc = "viewed"
    BY <1>2 DEF LookNoMeta, Miss
  <2>2. op'[t].pc \notin PutPCs /\ op'[t].seen = None /\ \A u \in Threads \ {t} : op'[u] = op[u]
    BY <1>0, <2>1 DEF PutPCs, Sound, Ops
  <2> QED BY <1>0, <2>1, <2>2, PutsStay DEF PutPCs, disk, env
<1>3. ASSUME LookExpired(t) PROVE WInv'
  <2>1. /\ op' = [op EXCEPT ![t].pc = "dropping", ![t].pre = meta[k].pre] /\ UNCHANGED <<env, disk, counters, lock>>
        /\ op[t].pc = "viewed"
    BY <1>3 DEF LookExpired
  <2>2. op'[t].pc \notin PutPCs /\ op'[t].seen = op[t].seen /\ \A u \in Threads \ {t} : op'[u] = op[u]
    BY <1>0, <2>1 DEF PutPCs, Sound, Ops
  <2> QED BY <1>0, <2>1, <2>2, PutsStay DEF PutPCs, disk, env
<1>4. ASSUME LookHit(t) PROVE WInv'
  <2>1. /\ op' = [op EXCEPT ![t].pc = "hit"] /\ UNCHANGED <<env, tmp, meta, counters, lock>> /\ op[t].pc = "viewed"
        /\ bin' \in {Touched(k), bin}
    BY <1>4 DEF LookHit
  <2>2. op'[t].pc \notin PutPCs /\ op'[t].seen = op[t].seen /\ \A u \in Threads \ {t} : op'[u] = op[u]
    BY <1>0, <2>1 DEF PutPCs, Sound, Ops
  <2>3. \A i \in Keys :
            /\ bin[i] # None => bin'[i] # None
            /\ bin'[i] # None => /\ bin[i] # None /\ bin'[i].data = bin[i].data
                                 /\ bin'[i].size = bin[i].size /\ bin'[i].writers = bin[i].writers
    BY <1>0, <1>t, <2>1
  <2> QED BY <1>0, <2>1, <2>2, <2>3, PutsStay DEF PutPCs, env
<1>5. ASSUME DropBin(t) PROVE WInv'
  <2>1. /\ op' = [op EXCEPT ![t].pc = "dropped"] /\ lock = None /\ UNCHANGED <<env, tmp, meta, counters>>
        /\ op[t].pc = "dropping" /\ bin' = [bin EXCEPT ![k] = None]
    BY <1>5 DEF DropBin
  <2>2. op'[t].pc \notin PutPCs /\ op'[t].seen = op[t].seen /\ \A u \in Threads \ {t} : op'[u] = op[u]
    BY <1>0, <2>1 DEF PutPCs, Sound, Ops
  <2>3. \A i \in Keys : bin'[i] \in {bin[i], None}
    BY <1>0, <2>1 DEF Sized
  <2> QED BY <1>0, <1>f, <2>1, <2>2, <2>3, PutsStay DEF PutPCs, env
<1>6. ASSUME DropMeta(t) PROVE WInv'
  <2>1. /\ op' = [op EXCEPT ![t].pc = "miss", ![t].seen = None] /\ UNCHANGED <<env, tmp, bin>>
        /\ op[t].pc = "dropped" /\ meta' = [meta EXCEPT ![k] = None]
    BY <1>6 DEF DropMeta
  <2>2. op'[t].pc \notin PutPCs /\ op'[t].seen = None /\ \A u \in Threads \ {t} : op'[u] = op[u]
    BY <1>0, <2>1 DEF PutPCs, Sound, Ops
  <2>3. \A i \in Keys : meta'[i] \in {meta[i], None}
    BY <1>0, <2>1
  <2>4. lock = t
    BY <1>0, <2>1 DEF Held
  <2> QED BY <1>0, <1>f, <2>1, <2>2, <2>3, <2>4, PutsStay DEF PutPCs, env
<1>7. ASSUME LookReturn(t) PROVE WInv'
  <2>1. /\ op' = [op EXCEPT ![t] = Idle] /\ UNCHANGED <<env, tmp, meta, counters, lock>>
        /\ op[t].pc \in {"hit", "miss"} /\ bin' \in {Touched(k), bin}
    BY <1>7 DEF LookReturn
  <2>2. op'[t].pc \notin PutPCs /\ op'[t].seen = None /\ \A u \in Threads \ {t} : op'[u] = op[u]
    BY <1>0, <2>1, IdleSound DEF PutPCs
  <2>3. \A i \in Keys :
            /\ bin[i] # None => bin'[i] # None
            /\ bin'[i] # None => /\ bin[i] # None /\ bin'[i].data = bin[i].data
                                 /\ bin'[i].size = bin[i].size /\ bin'[i].writers = bin[i].writers
    BY <1>0, <1>t, <2>1
  <2> QED BY <1>0, <2>1, <2>2, <2>3, PutsStay DEF PutPCs, env
<1> QED BY <1>1, <1>2, <1>3, <1>4, <1>5, <1>6, <1>7 DEF LookStep

LEMMA PutKeepsWhole ==
    ASSUME PutsSerialised, TInv, WInv, NEW t \in Threads,
           PutStep(t) \/ \E k \in Keys, b \in Blobs, pre \in BOOLEAN : PutOpen(t, k, b, pre)
    PROVE  WInv'
<1>0. /\ DirTyped /\ Sized(bin) /\ Sound(op[t]) /\ op = [u \in Threads |-> op[u]]
      /\ lock \in Threads \cup {None}
      /\ \A u \in Threads : op[u].pc \in Held <=> lock = u
      /\ \A u \in Threads : op[u].pc # "idle" => op[u].key \in Keys
      /\ None \notin Threads /\ now \in Nat /\ Blobs \subseteq Nat \ {Torn}
      /\ op[t].pc # "idle" => up
  BY FileCacheAssumption, TInvIs DEF DirTyped, Sound, EnvTyped, CallsEnd, Idle
<1>w. PutsApart /\ TmpOwned /\ TmpUsed /\ BlobsWhole /\ RenamedIsBin /\ SidecarsFit
  BY DEF WInv
<1> DEFINE k == op[t].key
<1>f. lock \in {None, t} => \A u \in Threads \ {t} : op[u].pc \notin {"renamed", "garbled"}
  BY <1>0 DEF Held
<1>1. ASSUME NEW j \in Keys, NEW b \in Blobs, NEW pre \in BOOLEAN, PutOpen(t, j, b, pre) PROVE WInv'
  <2> DEFINE r == [Idle EXCEPT !.pc = "opened", !.kind = "put", !.key = j, !.blob = b, !.pre = pre]
             f == [data |-> Torn, size |-> 0, mtime |-> now,
                   writers |-> {t} \cup (IF tmp[j] = None THEN {} ELSE tmp[j].writers)]
  <2>1. /\ op' = [op EXCEPT ![t] = r] /\ UNCHANGED <<bin, meta, up>> /\ op[t].pc = "idle" /\ PutsOn(j) = {}
        /\ tmp' = [tmp EXCEPT ![j] = f]
    BY <1>1 DEF PutOpen
  <2>2. /\ op'[t].pc = "opened" /\ op'[t].key = j /\ op'[t].blob = b /\ op'[t].seen = None
        /\ \A u \in Threads \ {t} : op'[u] = op[u]
    BY <1>0, <2>1 DEF Idle
  <2>3. \A u \in Threads : op[u].pc \in PutPCs => op[u].key # j
    BY <2>1 DEF PutsOn
  <2>4. tmp[j] = None
    BY <1>w, <1>1, <2>3 DEF TmpUsed, PutPCs, PutOpen
  <2>5. tmp'[j] # None /\ tmp'[j].size = 0 /\ tmp'[j].writers = {t}
    <3>1. tmp'[j] = [data |-> Torn, size |-> 0, mtime |-> now, writers |-> {t}]
      BY <1>0, <2>1, <2>4 DEF DirTyped
    <3>2. [data |-> Torn, size |-> 0, mtime |-> now, writers |-> {t}] \in Files
      BY <1>0 DEF Files
    <3>3. [data |-> Torn, size |-> 0, mtime |-> now, writers |-> {t}] # None
      BY ONLY <3>2, FileCacheAssumption
    <3> QED BY ONLY <3>1, <3>3
  <2>6. \A i \in Keys \ {j} : tmp'[i] = tmp[i]
    BY <1>0, <2>1 DEF DirTyped
  <2> HIDE DEF r, f
  <2>a. PutsApart'
    BY <1>w, <2>2, <2>3 DEF PutsApart
  <2>b. TmpOwned'
    BY <1>0, <1>w, <2>2, <2>3, <2>5, <2>6 DEF TmpOwned, PutPCs
  <2>c. TmpUsed'
    BY <1>w, <2>1, <2>2, <2>6 DEF TmpUsed
  <2>d. BlobsWhole'
    BY <1>w, <2>1, <2>2 DEF BlobsWhole, Whole
  <2>e. RenamedIsBin'
    BY <1>w, <2>1, <2>2 DEF RenamedIsBin
  <2>g. SidecarsFit'
    BY <1>w, <2>1, <2>2 DEF SidecarsFit
  <2> QED BY <2>a, <2>b, <2>c, <2>d, <2>e, <2>g DEF WInv
<1>s. ASSUME op[t].pc \in PutPCs
      PROVE  /\ k \in Keys /\ op[t].blob \in Blobs
             /\ \A u \in Threads \ {t} : op[u].pc \in PutPCs => op[u].key # k
             /\ bin[k] # None => bin[k] \in Files /\ Whole(bin[k])
             /\ tmp[k] # None => tmp[k] \in Files
  BY <1>0, <1>w, <1>s DEF Sound, PutPCs, PutsApart, DirTyped, Sized, BlobsWhole
<1>2. ASSUME PutWrite(t) PROVE WInv'
  <2>1. /\ op' = [op EXCEPT ![t].pc = "written"] /\ UNCHANGED <<env, meta>> /\ op[t].pc = "opened"
        /\ tmp' = [tmp EXCEPT ![k] = WrittenBy(t, tmp[k], op[t].blob)]
        /\ bin' = [bin EXCEPT ![k] = WrittenBy(t, bin[k], op[t].blob)]
    BY <1>2 DEF PutWrite
  <2>2. /\ k \in Keys /\ op[t].blob \in Blobs
        /\ \A u \in Threads \ {t} : op[u].pc \in PutPCs => op[u].key # k
        /\ bin[k] # None => bin[k] \in Files /\ Whole(bin[k])
        /\ tmp[k] # None => tmp[k] \in Files
    BY <1>s, <2>1 DEF PutPCs
  <2>3. /\ op'[t].pc = "written" /\ op'[t].key = k /\ op'[t].blob = op[t].blob /\ op'[t].seen = op[t].seen
        /\ \A u \in Threads \ {t} : op'[u] = op[u]
    BY <1>0, <2>1 DEF Sound, Ops
  <2>4. bin' = bin
    <3>1. WrittenBy(t, bin[k], op[t].blob) = bin[k]
      BY <2>2 DEF WrittenBy, Whole
    <3> QED BY <1>0, <2>1, <3>1 DEF Sized
  <2>5. tmp'[k] # None /\ Whole(tmp'[k]) /\ tmp'[k].data = op[t].blob
    <3>1. tmp[k] # None /\ tmp[k].size = 0 /\ tmp[k].writers = {t}
      BY <1>w, <2>1 DEF TmpOwned
    <3>2. op[t].blob \in Nat /\ op[t].blob > 0
      BY <1>0, <2>2 DEF Torn
    <3>3. tmp'[k] = WrittenBy(t, tmp[k], op[t].blob)
      BY <1>0, <2>1, <2>2 DEF DirTyped
    <3>4. WrittenBy(t, tmp[k], op[t].blob) # None
      BY <1>0, <2>2, <3>1, WrittenTyped
    <3>5. ~ (tmp[k].size > op[t].blob) /\ tmp[k].writers \ {t} = {} /\ t \in tmp[k].writers
      BY <3>1, <3>2
    <3> HIDE DEF k
    <3>6. LET f == WrittenBy(t, tmp[k], op[t].blob) IN
          f.data = op[t].blob /\ f.size = op[t].blob /\ f.writers = {}
      <4>1. WrittenBy(t, tmp[k], op[t].blob)
              = [data |-> IF tmp[k].size > op[t].blob THEN Torn ELSE op[t].blob,
                 size |-> IF tmp[k].size > op[t].blob THEN tmp[k].size ELSE op[t].blob,
                 mtime |-> now, writers |-> tmp[k].writers \ {t}]
        BY <3>1, <3>5, Zenon DEF WrittenBy
      <4> QED BY <3>5, <4>1
    <3> QED BY <2>2, <3>3, <3>4, <3>6 DEF Whole
  <2>6. \A i \in Keys \ {k} : tmp'[i] = tmp[i]
    BY <1>0, <2>1 DEF DirTyped
  <2>7. up' = up /\ meta' = meta
    BY <2>1 DEF env
  <2> HIDE DEF k
  <2>a. PutsApart'
    BY <1>w, <2>1, <2>2, <2>3 DEF PutsApart, PutPCs
  <2>b. TmpOwned'
    BY <1>0, <1>w, <2>2, <2>3, <2>5, <2>6 DEF TmpOwned, PutPCs
  <2>c. TmpUsed'
    <3> SUFFICES ASSUME up', NEW i \in Keys, tmp'[i] # None
                 PROVE  \E u \in Threads : op'[u].pc \in {"opened", "written"} /\ op'[u].key = i
      BY DEF TmpUsed
    <3>1. CASE i = k
      BY <2>3, <3>1
    <3>2. CASE i # k
      <4>1. PICK u \in Threads : op[u].pc \in {"opened", "written"} /\ op[u].key = i
        BY <1>w, <2>6, <2>7, <3>2 DEF TmpUsed
      <4> QED BY <2>3, <3>2, <4>1 DEF k
    <3> QED BY <3>1, <3>2
  <2>d. BlobsWhole'
    BY <1>w, <2>3, <2>4 DEF BlobsWhole, Whole
  <2>e. RenamedIsBin'
    BY <1>w, <2>3, <2>4, <2>7 DEF RenamedIsBin
  <2>g. SidecarsFit'
    BY <1>w, <2>1, <2>3, <2>4, <2>7 DEF SidecarsFit
  <2> QED BY <2>a, <2>b, <2>c, <2>d, <2>e, <2>g DEF WInv
<1>i. ASSUME op[t].pc \in {"opened", "written"}, op' = [op EXCEPT ![t] = Idle], tmp' = [tmp EXCEPT ![k] = None],
             up' = up, meta' = meta,
             \A i \in Keys : bin'[i] # None <=> bin[i] # None,
             \A i \in Keys : bin[i] # None =>
                bin'[i].data = bin[i].data /\ bin'[i].size = bin[i].size /\ bin'[i].writers = bin[i].writers
      PROVE  WInv'
  <2>1. op'[t].pc = "idle" /\ op'[t].seen = None /\ \A u \in Threads \ {t} : op'[u] = op[u]
    BY <1>0, <1>i, IdleSound
  <2>2. /\ k \in Keys /\ \A u \in Threads \ {t} : op[u].pc \in PutPCs => op[u].key # k
    BY <1>s, <1>i DEF PutPCs
  <2>3. tmp'[k] = None /\ \A i \in Keys \ {k} : tmp'[i] = tmp[i]
    BY <1>0, <1>i, <2>2 DEF DirTyped
  <2> HIDE DEF k
  <2>a. PutsApart'
    BY <1>w, <2>1 DEF PutsApart, PutPCs
  <2>b. TmpOwned'
    BY <1>0, <1>w, <2>1, <2>2, <2>3 DEF TmpOwned, PutPCs
  <2>c. TmpUsed'
    <3> SUFFICES ASSUME up', NEW i \in Keys, tmp'[i] # None
                 PROVE  \E u \in Threads : op'[u].pc \in {"opened", "written"} /\ op'[u].key = i
      BY DEF TmpUsed
    <3>1. i # k /\ tmp[i] # None /\ up
      BY <1>i, <2>3
    <3>2. PICK u \in Threads : op[u].pc \in {"opened", "written"} /\ op[u].key = i
      BY <1>w, <3>1 DEF TmpUsed
    <3>3. u # t
      BY <3>1, <3>2 DEF k
    <3> QED BY <2>1, <3>2, <3>3
  <2>d. BlobsWhole'
    BY <1>w, <1>i, <2>1 DEF BlobsWhole, Whole
  <2>e. RenamedIsBin'
    BY <1>0, <1>w, <1>i, <2>1 DEF RenamedIsBin
  <2>g. SidecarsFit'
    BY <1>w, <1>i, <2>1 DEF SidecarsFit
  <2> QED BY <2>a, <2>b, <2>c, <2>d, <2>e, <2>g DEF WInv
<1>3. ASSUME PutWriteFails(t) PROVE WInv'
  <2>1. /\ op' = [op EXCEPT ![t] = Idle] /\ UNCHANGED <<env, meta>> /\ op[t].pc = "opened"
        /\ tmp' = [tmp EXCEPT ![k] = None] /\ bin' = [bin EXCEPT ![k] = ClosedBy(t, bin[k])]
    BY <1>3 DEF PutWriteFails
  <2>2. k \in Keys /\ (bin[k] # None => bin[k] \in Files /\ bin[k].writers = {})
    BY <1>s, <2>1 DEF PutPCs, Whole
  <2>3. bin[k] # None =>
          /\ ClosedBy(t, bin[k]) # None /\ ClosedBy(t, bin[k]).data = bin[k].data
          /\ ClosedBy(t, bin[k]).size = bin[k].size /\ ClosedBy(t, bin[k]).writers = bin[k].writers
    <3>1. ASSUME bin[k] # None PROVE [bin[k] EXCEPT !.writers = bin[k].writers \ {t}] \in Files
      BY <2>2, <3>1 DEF Files
    <3> QED BY <2>2, <3>1, FileCacheAssumption DEF ClosedBy, Files
  <2>4. \A i \in Keys : bin'[i] = IF i = k THEN ClosedBy(t, bin[k]) ELSE bin[i]
    BY <1>0, <2>1 DEF Sized
  <2>5. ClosedBy(t, None) = None
    BY DEF ClosedBy
  <2>6. up' = up /\ meta' = meta
    BY <2>1 DEF env
  <2> QED BY <1>i, <2>1, <2>3, <2>4, <2>5, <2>6
<1>4. ASSUME PutRenameFails(t) PROVE WInv'
  <2>1. /\ op' = [op EXCEPT ![t] = Idle] /\ UNCHANGED <<env, bin, meta>> /\ op[t].pc = "written"
        /\ tmp' = [tmp EXCEPT ![k] = None]
    BY <1>4 DEF PutRenameFails
  <2> QED BY <1>i, <2>1 DEF env
<1>5. ASSUME PutRename(t) PROVE WInv'
  <2>1. /\ op' = [op EXCEPT ![t].pc = "renamed", ![t].seen = bin[k], ![t].oldPre = bin[k] # None /\ IsPre(meta[k])]
        /\ UNCHANGED <<env, meta>> /\ op[t].pc = "written" /\ lock = None /\ tmp[k] # None
        /\ bin' = [bin EXCEPT ![k] = tmp[k]] /\ tmp' = [tmp EXCEPT ![k] = None]
    BY <1>5 DEF PutRename
  <2>2. /\ k \in Keys /\ op[t].blob \in Blobs
        /\ \A u \in Threads \ {t} : op[u].pc \in PutPCs => op[u].key # k
        /\ bin[k] # None => bin[k] \in Files /\ Whole(bin[k])
    BY <1>s, <2>1 DEF PutPCs
  <2>3. /\ op'[t].pc = "renamed" /\ op'[t].key = k /\ op'[t].blob = op[t].blob /\ op'[t].seen = bin[k]
        /\ \A u \in Threads \ {t} : op'[u] = op[u]
    BY <1>0, <2>1 DEF Sound, Ops
  <2>4. /\ bin'[k] = tmp[k] /\ tmp'[k] = None
        /\ \A i \in Keys \ {k} : tmp'[i] = tmp[i] /\ bin'[i] = bin[i]
    BY <1>0, <2>1, <2>2 DEF DirTyped, Sized
  <2>5. bin'[k] # None /\ Whole(bin'[k]) /\ bin'[k].data = op[t].blob
    BY <1>w, <2>1, <2>4 DEF TmpOwned
  <2>6. up' = up /\ meta' = meta
    BY <2>1 DEF env
  <2>k. k = op[t].key
    OBVIOUS
  <2> HIDE DEF k
  <2>a. PutsApart'
    BY <1>w, <2>2, <2>3 DEF PutsApart
  <2>b. TmpOwned'
    BY <1>0, <1>w, <2>2, <2>3, <2>4 DEF TmpOwned, PutPCs
  <2>c. TmpUsed'
    <3> SUFFICES ASSUME up', NEW i \in Keys, tmp'[i] # None
                 PROVE  \E u \in Threads : op'[u].pc \in {"opened", "written"} /\ op'[u].key = i
      BY DEF TmpUsed
    <3>1. i # k /\ tmp[i] # None /\ up
      BY <2>4, <2>6
    <3>2. PICK u \in Threads : op[u].pc \in {"opened", "written"} /\ op[u].key = i
      BY <1>w, <3>1 DEF TmpUsed
    <3> QED BY <2>3, <2>k, <3>1, <3>2
  <2>d. BlobsWhole'
    <3>1. \A i \in Keys : bin'[i] # None => Whole(bin'[i])
      BY <1>w, <2>4, <2>5 DEF BlobsWhole
    <3>2. \A u \in Threads : op'[u].seen # None => Whole(op'[u].seen)
      BY <1>w, <2>2, <2>3 DEF BlobsWhole
    <3> QED BY <3>1, <3>2 DEF BlobsWhole, Whole
  <2>e. RenamedIsBin'
    <3> SUFFICES ASSUME NEW u \in Threads, op'[u].pc \in {"renamed", "garbled"}
                 PROVE  /\ bin'[op'[u].key] # None /\ bin'[op'[u].key].data = op'[u].blob
                        /\ op'[u].pc = "garbled" => meta'[op'[u].key] = Garbled
      BY DEF RenamedIsBin
    <3>1. CASE u = t
      BY <2>3, <2>5, <3>1
    <3>2. CASE u # t
      <4>1. op'[u] = op[u] /\ op[u].key # k /\ op[u].key \in Keys
        BY <1>0, <2>2, <2>3, <3>2 DEF PutPCs, Sound, Ops
      <4>2. bin'[op[u].key] = bin[op[u].key]
        BY <2>4, <4>1
      <4> QED BY <1>w, <2>6, <4>1, <4>2 DEF RenamedIsBin
    <3> QED BY <3>1, <3>2
  <2>g. SidecarsFit'
    <3> SUFFICES ASSUME up', NEW i \in Keys, bin'[i] # None, IsMeta(meta'[i])
                 PROVE  \/ bin'[i].size = meta'[i].size \/ meta'[i].left
                        \/ \E u \in Threads : op'[u].pc = "renamed" /\ op'[u].key = i
      BY DEF SidecarsFit, IsMeta
    <3>1. CASE i = k
      BY <2>3, <3>1
    <3>2. CASE i # k
      <4>1. up /\ bin'[i] = bin[i] /\ meta'[i] = meta[i] /\ bin[i] # None /\ IsMeta(meta[i])
        BY <2>4, <2>6, <3>2
      <4>2. \/ bin[i].size = meta[i].size \/ meta[i].left
            \/ \E u \in Threads : op[u].pc = "renamed" /\ op[u].key = i
        BY <1>w, <4>1 DEF SidecarsFit
      <4>3. ASSUME NEW u \in Threads, op[u].pc = "renamed", op[u].key = i
            PROVE  op'[u].pc = "renamed" /\ op'[u].key = i
        BY <2>1, <2>3, <4>3
      <4> QED BY <4>1, <4>2, <4>3
    <3> QED BY <3>1, <3>2
  <2> QED BY <2>a, <2>b, <2>c, <2>d, <2>e, <2>g DEF WInv
<1>6. ASSUME PutMetaOpen(t) PROVE WInv'
  <2>1. /\ op' = [op EXCEPT ![t].pc = "garbled"] /\ UNCHANGED <<env, tmp, bin>> /\ op[t].pc = "renamed"
        /\ meta' = [meta EXCEPT ![k] = Garbled]
    BY <1>6 DEF PutMetaOpen
  <2>2. /\ k \in Keys /\ op[t].blob \in Blobs
        /\ \A u \in Threads \ {t} : op[u].pc \in PutPCs => op[u].key # k
        /\ lock = t
    BY <1>0, <1>s, <2>1 DEF PutPCs, Held
  <2>3. /\ op'[t].pc = "garbled" /\ op'[t].key = k /\ op'[t].blob = op[t].blob /\ op'[t].seen = op[t].seen
        /\ \A u \in Threads \ {t} : op'[u] = op[u]
    BY <1>0, <2>1 DEF Sound, Ops
  <2>4. meta'[k] = Garbled /\ \A i \in Keys \ {k} : meta'[i] = meta[i]
    BY <1>0, <2>1, <2>2 DEF DirTyped
  <2>5. up' = up
    BY <2>1 DEF env
  <2>k. k = op[t].key
    OBVIOUS
  <2> HIDE DEF k
  <2>a. PutsApart'
    BY <1>w, <2>2, <2>3 DEF PutsApart
  <2>b. TmpOwned'
    BY <1>w, <2>1, <2>3 DEF TmpOwned
  <2>c. TmpUsed'
    BY <1>w, <2>1, <2>3, <2>5 DEF TmpUsed
  <2>d. BlobsWhole'
    BY <1>w, <2>1, <2>3 DEF BlobsWhole, Whole
  <2>e. RenamedIsBin'
    BY <1>f, <1>w, <2>1, <2>2, <2>3, <2>4, <2>k DEF RenamedIsBin
  <2>g. SidecarsFit'
    BY <1>f, <1>w, <2>1, <2>2, <2>3, <2>4, <2>5, <2>k DEF SidecarsFit, IsMeta
  <2> QED BY <2>a, <2>b, <2>c, <2>d, <2>e, <2>g DEF WInv
<1>7. ASSUME PutFinish(t) PROVE WInv'
  <2>1. op' = [op EXCEPT ![t] = Idle] /\ UNCHANGED <<env, tmp>> /\ op[t].pc \in {"renamed", "garbled"}
    BY <1>7 DEF PutFinish
  <2>2. PICK m \in Sidecars(t), V \in SUBSET Present(bin) :
           bin' = Without(bin, V) /\ meta' = Without([meta EXCEPT ![k] = m], V)
    BY <1>7 DEF PutFinish, EvictFrom, Evictions
  <2>3. /\ op'[t].pc = "idle" /\ op'[t].seen = None
        /\ \A u \in Threads \ {t} : op'[u] = op[u]
    BY <1>0, <2>1, IdleSound
  <2>4. /\ k \in Keys /\ lock = t /\ bin[k] # None /\ bin[k].size = op[t].blob /\ Garbled # None
        /\ \A u \in Threads \ {t} : op[u].pc \in PutPCs => op[u].key # k
    BY <1>0, <1>s, <1>w, <2>1, FileCacheAssumption DEF RenamedIsBin, Whole, PutPCs, Held
  <2>5. \A i \in Keys : bin'[i] \in {bin[i], None}
    BY <2>2 DEF Without
  <2>6. \A i \in Keys : meta'[i] = IF i \in V THEN None ELSE IF i = k THEN m ELSE meta[i]
    BY <1>0, <2>2, <2>4 DEF Without, DirTyped
  <2>7. up' = up /\ tmp' = tmp
    BY <2>1 DEF env
  <2>8. IsMeta(m) => m.size = bin[k].size \/ m.left
    <3>1. op[t].blob \in Blobs /\ op[t].pre \in BOOLEAN /\ op[t].key \in Keys /\ now \in Nat
      BY <1>0, <2>1, TInvIs DEF Sound, Ops, PutPCs, EnvTyped
    <3> QED BY <1>0, <2>2, <2>4, <3>1, SidecarsAre DEF DirTyped
  <2>a. PutsApart'
    BY <1>w, <2>3 DEF PutsApart, PutPCs
  <2>b. TmpOwned'
    BY <1>w, <2>3, <2>7 DEF TmpOwned
  <2>c. TmpUsed'
    BY <1>w, <2>1, <2>3, <2>7 DEF TmpUsed
  <2>d. BlobsWhole'
    BY <1>w, <2>3, <2>5 DEF BlobsWhole, Whole
  <2>e. RenamedIsBin'
    BY <1>f, <2>3, <2>4 DEF RenamedIsBin
  <2>g. SidecarsFit'
    <3>1. k = op[t].key
      OBVIOUS
    <3> HIDE DEF k
    <3> QED BY <1>f, <1>w, <2>1, <3>1, <2>3, <2>4, <2>5, <2>6, <2>7, <2>8 DEF SidecarsFit, IsMeta
  <2> QED BY <2>a, <2>b, <2>c, <2>d, <2>e, <2>g DEF WInv
<1> QED BY <1>1, <1>2, <1>3, <1>4, <1>5, <1>6, <1>7 DEF PutStep

LEMMA EvictLess ==
    ASSUME NEW b, NEW m, NEW c, NEW e, NEW p, EvictFrom(b, m, c, e, p)
    PROVE  \A k \in Keys : /\ bin'[k] \in {b[k], None} /\ meta'[k] \in {m[k], None}
                           /\ bin'[k] # None => meta'[k] = m[k]
<1> PICK V \in Evictions(b, c) : bin' = Without(b, V) /\ meta' = Without(m, V)
  BY DEF EvictFrom
<1> QED BY DEF Without

LEMMA NextWhole == ASSUME PutsSerialised, TInv, WInv, [Next]_vars PROVE WInv'
<1>0. /\ Sized(bin) /\ DirTyped /\ CallsEnd
      /\ \A u \in Threads : op[u].pc \in Held <=> lock = u
      /\ \A u \in Threads : op[u].pc # "idle" => op[u].key \in Keys
      /\ \A k \in Keys : bin[k] # None => Whole(bin[k])
      /\ None \notin Threads
  BY FileCacheAssumption, TInvIs DEF DirTyped, WInv, BlobsWhole, Sound
<1>1. CASE \E t \in Threads, k \in Keys :
              \/ \E b \in Blobs, pre \in BOOLEAN : PutOpen(t, k, b, pre)
              \/ \E kind \in {"has", "get"} : Look(t, kind, k)
  BY <1>1, PutKeepsWhole, LookKeepsWhole
<1>2. CASE \E t \in Threads : PutStep(t) \/ LookStep(t)
  BY <1>2, PutKeepsWhole, LookKeepsWhole
<1>3. CASE Sweep
  <2>1. PICK gone : \E c, e, p : EvictFrom(Without(bin, gone), Without(meta, gone), c, e, p)
    BY <1>3 DEF Sweep
  <2>2. \A k \in Keys : bin'[k] \in {bin[k], None} /\ meta'[k] \in {meta[k], None}
    BY <2>1, EvictLess DEF Without
  <2>3. UNCHANGED <<env, tmp, lock, op>> /\ \A u \in Threads : op[u].pc \notin {"renamed", "garbled"}
    BY <1>0, <1>3 DEF Sweep, Held
  <2> QED BY <1>0, <2>2, <2>3, PutsStay DEF env
<1>4. CASE Tick
  <2>1. UNCHANGED <<up, tmp, bin, meta, op>>
    BY <1>4 DEF Tick, disk
  <2> QED BY <1>0, <2>1, PutsStay
<1>5. CASE Crash
  <2>1. up' = FALSE /\ \A t \in Threads : op'[t] = Idle
    BY <1>5 DEF Crash
  <2>2. \A k \in Keys : bin'[k] # None => Whole(bin'[k])
    <3> SUFFICES ASSUME NEW k \in Keys, bin'[k] # None PROVE Whole(bin'[k])
      OBVIOUS
    <3>1. bin[k] # None /\ bin'[k] = [bin[k] EXCEPT !.writers = {}]
      BY <1>5 DEF Crash, Closed
    <3>2. bin[k] \in Files /\ Whole(bin[k])
      BY <1>0, <3>1 DEF Sized
    <3> QED BY <3>1, <3>2 DEF Whole, Files
  <2> QED BY <2>1, <2>2, IdleSound DEF WInv, PutsApart, TmpOwned, TmpUsed, BlobsWhole, RenamedIsBin, SidecarsFit, PutPCs
<1>6. CASE Recover
  <2>1. \E c, e, p : EvictFrom(Without(bin, Present(bin) \ Kept), Without(meta, Present(bin) \ Kept), c, e, p)
    BY <1>6 DEF Recover
  <2>2. \A k \in Keys :
           /\ bin'[k] \in {Without(bin, Present(bin) \ Kept)[k], None}
           /\ bin'[k] # None => meta'[k] = Without(meta, Present(bin) \ Kept)[k]
    BY <2>1, EvictLess
  <2>3. \A k \in Keys : bin'[k] # None => bin'[k] = bin[k] /\ meta'[k] = meta[k] /\ meta[k].size = bin[k].size
    BY <2>2 DEF Without, Present, Kept
  <2>4. op' = op /\ tmp' = [k \in Keys |-> None] /\ \A t \in Threads : op[t] = Idle
    BY <1>0, <1>6 DEF Recover, CallsEnd
  <2> QED
    BY <1>0, <2>3, <2>4, IdleSound
       DEF WInv, PutsApart, TmpOwned, TmpUsed, BlobsWhole, RenamedIsBin, SidecarsFit, PutPCs
<1>7. CASE UNCHANGED vars
  <2>1. UNCHANGED <<up, tmp, bin, meta, op>>
    BY <1>7 DEF vars, env, disk
  <2> QED BY <1>0, <2>1, PutsStay
<1> QED BY <1>1, <1>2, <1>3, <1>4, <1>5, <1>6, <1>7 DEF Next

(* Where the callers keep the Puts of a key apart, every open temporary    *)
(* file has one writer, and what is renamed and read is a whole blob.      *)
THEOREM AlwaysWhole == ASSUME PutsSerialised PROVE Spec => [](TInv /\ WInv)
  BY InitTyped, NextTyped, InitWhole, NextWhole, PTL DEF Spec

(* Where the callers keep the Puts of a key apart, no Get of any run hands *)
(* out the content of a half-written file, whatever the disk and the       *)
(* crashes do.                                                             *)
THEOREM ReadsAreWhole == ASSUME PutsSerialised PROVE Spec => []NoTornRead
<1>1. TInv /\ WInv => NoTornRead
  <2> SUFFICES ASSUME TInv, WInv, NEW t \in Threads, op[t].kind = "get", op[t].pc = "hit"
               PROVE  op[t].seen.data # Torn
    BY DEF NoTornRead
  <2>1. op[t].seen \in Files
    BY DEF TInv, OpSound, LookPCs
  <2> QED BY <2>1, FileCacheAssumption DEF WInv, BlobsWhole, Whole
<1> QED BY <1>1, AlwaysWhole, PTL

(* There too an entry that can be read outside the critical sections is    *)
(* one whole blob, of the length its sidecar declares unless the disk did  *)
(* not let the last Put open the sidecar, also after crashes between any   *)
(* two steps of a Put.                                                     *)
THEOREM EntriesAreWhole == ASSUME PutsSerialised PROVE Spec => []EntriesWhole
<1>1. TInv /\ WInv => EntriesWhole
  <2> SUFFICES ASSUME TInv, WInv, up, lock = None, NEW k \in Keys, bin[k] # None, IsMeta(meta[k])
               PROVE  bin[k].data # Torn /\ (bin[k].size = meta[k].size \/ meta[k].left)
    BY DEF EntriesWhole
  <2>1. \A t \in Threads : op[t].pc # "renamed"
    BY FileCacheAssumption, TInvIs DEF Held
  <2> QED BY <2>1, FileCacheAssumption DEF WInv, BlobsWhole, Whole, SidecarsFit
<1> QED BY <1>1, AlwaysWhole, PTL
-----------------------------------------------------------------------------
(* The cache implements BlobStore                                          *)

AbsStore == [k \in Keys |-> StoredBlob(k)]
AbsPuts == [t \in Threads |-> PutOf(t)]
AbsLooks == [t \in Threads |-> LookOf(t)]

(* PutOf and LookOf, of a call rather than of the goroutine that makes it. *)
PutAs(o) ==
    CASE o.pc \in {"opened", "written"} -> [pc |-> "begun", key |-> o.key, blob |-> o.blob]
      [] o.pc \in {"renamed", "garbled"} -> [pc |-> "visible", key |-> o.key, blob |-> o.blob]
      [] OTHER -> [pc |-> "idle", key |-> None, blob |-> None]

LookAs(o) ==
    CASE o.pc \in {"viewed", "dropping", "dropped"} ->
            [pc |-> "looked", key |-> o.key, blob |-> o.seen.data]
      [] o.pc = "hit" -> [pc |-> "hit", key |-> o.key, blob |-> o.seen.data]
      [] o.pc = "miss" -> [pc |-> "miss", key |-> o.key, blob |-> None]
      [] OTHER -> [pc |-> "idle", key |-> None, blob |-> None]

StoreStep == [Store!StoreNext]_(Store!storeVars)

LEMMA AbsNow ==
    /\ AbsPuts = [t \in Threads |-> PutAs(op[t])] /\ AbsLooks = [t \in Threads |-> LookAs(op[t])]
    /\ AbsStore = [k \in Keys |-> IF bin[k] = None THEN None ELSE bin[k].data]
  BY DEF AbsPuts, AbsLooks, AbsStore, PutOf, LookOf, PutAs, LookAs, StoredBlob

LEMMA AbsNext ==
    /\ AbsPuts' = [t \in Threads |-> PutAs(op'[t])] /\ AbsLooks' = [t \in Threads |-> LookAs(op'[t])]
    /\ AbsStore' = [k \in Keys |-> IF bin'[k] = None THEN None ELSE bin'[k].data]
  BY DEF AbsPuts, AbsLooks, AbsStore, PutOf, LookOf, PutAs, LookAs, StoredBlob

LEMMA CallMaps ==
    ASSUME NEW t \in Threads, NEW r, op = [u \in Threads |-> op[u]], op' = [op EXCEPT ![t] = r]
    PROVE  /\ AbsPuts' = [AbsPuts EXCEPT ![t] = PutAs(r)] /\ AbsPuts[t] = PutAs(op[t])
           /\ AbsLooks' = [AbsLooks EXCEPT ![t] = LookAs(r)] /\ AbsLooks[t] = LookAs(op[t])
           /\ AbsPuts = [u \in Threads |-> AbsPuts[u]] /\ AbsLooks = [u \in Threads |-> AbsLooks[u]]
<1>1. op'[t] = r /\ \A u \in Threads \ {t} : op'[u] = op[u]
  OBVIOUS
<1> QED BY <1>1, AbsNow, AbsNext

(* Files that are removed are lost, those that keep their content are the  *)
(* same blobs.                                                             *)
Gone == {k \in Keys : bin'[k] = None}

LEMMA StoreLess ==
    ASSUME \A k \in Keys : bin'[k] # None => bin[k] # None /\ bin'[k].data = bin[k].data
    PROVE  AbsStore' = Store!Without(Gone)
<1>1. Store!Without(Gone) = [k \in Keys |-> IF k \in Gone THEN None ELSE AbsStore[k]]
  BY DEF Store!Without, AbsStore
<1> QED BY <1>1, AbsNow, AbsNext DEF Gone

LEMMA StoreSame ==
    ASSUME \A k \in Keys : /\ bin'[k] = None <=> bin[k] = None
                           /\ bin'[k] # None => bin'[k].data = bin[k].data
    PROVE  AbsStore' = AbsStore
  BY AbsNow, AbsNext

LEMMA InitMaps == Init => Store!StoreInit
  BY DEF Init, Store!StoreInit, Store!NoPut, Store!NoLook, StoredBlob, PutOf, LookOf, Idle

LEMMA MissRecord ==
    ASSUME NEW a, NEW b
    PROVE [[pc |-> "looked", key |-> a, blob |-> b] EXCEPT !.pc = "miss", !.blob = None]
            = [pc |-> "miss", key |-> a, blob |-> None]
<1> DEFINE r == [pc |-> "looked", key |-> a, blob |-> b]
<1>1. [r EXCEPT !.pc = "miss", !.blob = None] = [[r EXCEPT !.pc = "miss"] EXCEPT !.blob = None]
  OBVIOUS
<1>2. [r EXCEPT !.pc = "miss"] = [pc |-> "miss", key |-> a, blob |-> b]
  OBVIOUS
<1>3. [[pc |-> "miss", key |-> a, blob |-> b] EXCEPT !.blob = None] = [pc |-> "miss", key |-> a, blob |-> None]
  OBVIOUS
<1> HIDE DEF r
<1>4. [r EXCEPT !.pc = "miss", !.blob = None] = [pc |-> "miss", key |-> a, blob |-> None]
  BY <1>1, <1>2, <1>3, Zenon
<1> QED BY <1>4 DEF r

LEMMA LookMaps ==
    ASSUME TInv, NEW t \in Threads,
           LookStep(t) \/ \E k \in Keys, kind \in {"has", "get"} : Look(t, kind, k)
    PROVE  StoreStep
<1>0. /\ Sized(bin) /\ Sound(op[t]) /\ op = [u \in Threads |-> op[u]]
      /\ None \notin Blobs \cup {Torn}
  BY FileCacheAssumption, TInvIs DEF DirTyped, Torn
<1> DEFINE k == op[t].key
           missed == [op[t] EXCEPT !.pc = "miss", !.seen = None]
<1>m. ASSUME op[t].pc \in {"viewed", "dropping", "dropped"}, op' = [op EXCEPT ![t] = missed], AbsStore' = AbsStore
      PROVE  StoreStep
  <2>1. missed.pc = "miss" /\ missed.key = k
    BY <1>0 DEF Sound, Ops
  <2>2. /\ PutAs(missed) = PutAs(op[t]) /\ k \in Keys
        /\ LookAs(op[t]) = [pc |-> "looked", key |-> k, blob |-> op[t].seen.data]
        /\ LookAs(missed) = [pc |-> "miss", key |-> k, blob |-> None]
    BY <1>0, <1>m, <2>1 DEF PutAs, LookAs, Sound
  <2>c. /\ AbsPuts' = [AbsPuts EXCEPT ![t] = PutAs(missed)] /\ AbsPuts[t] = PutAs(op[t])
        /\ AbsLooks' = [AbsLooks EXCEPT ![t] = LookAs(missed)] /\ AbsLooks[t] = LookAs(op[t])
        /\ AbsPuts = [u \in Threads |-> AbsPuts[u]] /\ AbsLooks = [u \in Threads |-> AbsLooks[u]]
    BY <1>0, <1>m, CallMaps
  <2> HIDE DEF missed
  <2>d. AbsLooks[t] = [pc |-> "looked", key |-> k, blob |-> op[t].seen.data]
    BY <2>2, <2>c
  <2>e. AbsPuts' = AbsPuts
    BY <2>2, <2>c
  <2> HIDE DEF k
  <2>3. AbsPuts' = AbsPuts /\ AbsLooks[t].pc = "looked" /\ AbsLooks[t].key \in Keys
    BY <2>2, <2>d, <2>e
  <2>5. LookAs(missed) = [AbsLooks[t] EXCEPT !.pc = "miss", !.blob = None]
    <3>1. [[pc |-> "looked", key |-> k, blob |-> op[t].seen.data] EXCEPT !.pc = "miss", !.blob = None]
            = [pc |-> "miss", key |-> k, blob |-> None]
      BY MissRecord
    <3>2. LookAs(missed) = [pc |-> "miss", key |-> k, blob |-> None]
      BY <2>2
    <3> QED BY ONLY <2>d, <3>1, <3>2, Zenon
  <2>6. AbsLooks' = [AbsLooks EXCEPT ![t].pc = "miss", ![t].blob = None]
    BY <2>5, <2>c
  <2>4. Store!Miss(t)
    BY <1>m, <2>3, <2>6 DEF Store!Miss, AbsStore, AbsPuts, AbsLooks
  <2> QED BY <2>4 DEF Store!StoreNext, StoreStep
<1>t. ASSUME NEW j \in Keys, bin' = Touched(j) PROVE AbsStore' = AbsStore
  <2> SUFFICES ASSUME NEW i \in Keys
               PROVE  (bin'[i] = None <=> bin[i] = None) /\ (bin'[i] # None => bin'[i].data = bin[i].data)
    BY StoreSame
  <2>1. bin'[i] = IF i = j /\ bin[i] # None THEN [bin[i] EXCEPT !.mtime = now] ELSE bin[i]
    BY <1>0, <1>t DEF Touched, Sized
  <2>2. bin[i] # None => bin[i] \in Files /\ [bin[i] EXCEPT !.mtime = now] \in Files
    BY <1>0, FileCacheAssumption, TInvIs DEF Sized, Files, EnvTyped
  <2> QED BY <2>1, <2>2, FileCacheAssumption DEF Files
<1>1. ASSUME NEW j \in Keys, NEW kind \in {"has", "get"}, Look(t, kind, j) PROVE StoreStep
  <2> DEFINE r == [Idle EXCEPT !.pc = IF bin[j] = None THEN "miss" ELSE "viewed",
                               !.kind = kind, !.key = j, !.seen = bin[j]]
  <2>1. op' = [op EXCEPT ![t] = r] /\ bin' = bin /\ op[t].pc = "idle"
    BY <1>1 DEF Look, disk
  <2>2. r.pc = (IF bin[j] = None THEN "miss" ELSE "viewed") /\ r.key = j /\ r.seen = bin[j]
    BY DEF Idle
  <2> HIDE DEF r
  <2>3. AbsStore[j] = IF bin[j] = None THEN None ELSE bin[j].data
    BY AbsNow
  <2>4. bin[j] # None => AbsStore[j] # None
    BY <1>0, <2>3 DEF Sized, Files
  <2>5. /\ PutAs(r) = PutAs(op[t]) /\ LookAs(op[t]).pc = "idle"
        /\ LookAs(r) = [pc |-> IF AbsStore[j] = None THEN "miss" ELSE "looked", key |-> j, blob |-> AbsStore[j]]
    BY <2>1, <2>2, <2>3, <2>4 DEF PutAs, LookAs
  <2>6. /\ AbsPuts' = AbsPuts /\ AbsLooks[t].pc = "idle" /\ AbsStore' = AbsStore
        /\ AbsLooks' = [AbsLooks EXCEPT ![t] = [pc |-> IF AbsStore[j] = None THEN "miss" ELSE "looked",
                                                key |-> j, blob |-> AbsStore[j]]]
    BY <1>0, <2>1, <2>5, CallMaps, StoreSame
  <2>7. Store!BeginLook(t, j)
    BY <2>6 DEF Store!BeginLook, AbsStore, AbsPuts, AbsLooks
  <2> QED BY <2>7 DEF Store!StoreNext, StoreStep
<1>2. ASSUME LookNoMeta(t) PROVE StoreStep
  BY <1>2, <1>m, StoreSame DEF LookNoMeta, Miss, disk
<1>3. ASSUME LookExpired(t) PROVE StoreStep
  <2> DEFINE r == [op[t] EXCEPT !.pc = "dropping", !.pre = meta[k].pre]
  <2>1. op' = [op EXCEPT ![t] = r] /\ bin' = bin /\ op[t].pc = "viewed"
    BY <1>3 DEF LookExpired, disk
  <2>2. r.pc = "dropping" /\ r.key = k /\ r.seen = op[t].seen
    BY <1>0 DEF Sound, Ops
  <2>3. PutAs(r) = PutAs(op[t]) /\ LookAs(r) = LookAs(op[t])
    BY <2>1, <2>2 DEF PutAs, LookAs
  <2> HIDE DEF r
  <2>4. AbsPuts' = AbsPuts /\ AbsLooks' = AbsLooks
    BY <1>0, <2>1, <2>3, CallMaps
  <2>5. AbsStore' = AbsStore
    BY <2>1, StoreSame
  <2> QED BY <2>4, <2>5 DEF Store!storeVars, StoreStep, AbsStore, AbsPuts, AbsLooks
<1>4. ASSUME LookHit(t) PROVE StoreStep
  <2> DEFINE r == [op[t] EXCEPT !.pc = "hit"]
  <2>1. op' = [op EXCEPT ![t] = r] /\ bin' \in {Touched(k), bin} /\ op[t].pc = "viewed"
    BY <1>4 DEF LookHit
  <2>2. r.pc = "hit" /\ r.key = k /\ r.seen = op[t].seen /\ k \in Keys
    BY <1>0, <2>1 DEF Sound, Ops
  <2>3. /\ PutAs(r) = PutAs(op[t])
        /\ LookAs(op[t]) = [pc |-> "looked", key |-> k, blob |-> op[t].seen.data]
        /\ LookAs(r) = [pc |-> "hit", key |-> k, blob |-> op[t].seen.data]
    BY <2>1, <2>2 DEF PutAs, LookAs
  <2>4. /\ AbsPuts' = AbsPuts /\ AbsLooks[t].pc = "looked" /\ AbsLooks' = [AbsLooks EXCEPT ![t].pc = "hit"]
    BY <1>0, <2>1, <2>3, CallMaps
  <2>5. AbsStore' = AbsStore
    BY <1>t, <2>1, <2>2, StoreSame
  <2>6. Store!Hit(t)
    BY <2>4, <2>5 DEF Store!Hit, AbsStore, AbsPuts, AbsLooks
  <2> QED BY <2>6 DEF Store!StoreNext, StoreStep
<1>5. ASSUME DropBin(t) PROVE StoreStep
  <2> DEFINE r == [op[t] EXCEPT !.pc = "dropped"]
  <2>1. op' = [op EXCEPT ![t] = r] /\ bin' = [bin EXCEPT ![k] = None] /\ op[t].pc = "dropping"
    BY <1>5 DEF DropBin
  <2>2. r.pc = "dropped" /\ r.key = k /\ r.seen = op[t].seen
    BY <1>0 DEF Sound, Ops
  <2>3. PutAs(r) = PutAs(op[t]) /\ LookAs(r) = LookAs(op[t])
    BY <2>1, <2>2 DEF PutAs, LookAs
  <2>4. AbsPuts' = AbsPuts /\ AbsLooks' = AbsLooks
    BY <1>0, <2>1, <2>3, CallMaps
  <2>5. AbsStore' = Store!Without(Gone)
    BY <1>0, <2>1, StoreLess DEF Sized
  <2>6. Gone \in SUBSET Keys /\ Store!Lose(Gone)
    BY <2>4, <2>5 DEF Store!Lose, AbsStore, AbsPuts, AbsLooks, Gone
  <2> QED BY <2>6 DEF Store!StoreNext, StoreStep
<1>6. ASSUME DropMeta(t) PROVE StoreStep
  BY <1>6, <1>m, StoreSame DEF DropMeta
<1>7. ASSUME LookReturn(t) PROVE StoreStep
  <2>1. op' = [op EXCEPT ![t] = Idle] /\ bin' \in {Touched(k), bin} /\ op[t].pc \in {"hit", "miss"} /\ k \in Keys
    BY <1>0, <1>7 DEF LookReturn, Sound
  <2>2. /\ PutAs(Idle) = PutAs(op[t]) /\ LookAs(op[t]).pc \in {"hit", "miss"} /\ LookAs(Idle) = Store!NoLook
    BY <2>1, IdleSound DEF PutAs, LookAs, Store!NoLook
  <2>3. AbsPuts' = AbsPuts /\ AbsLooks[t].pc \in {"hit", "miss"} /\ AbsLooks' = [AbsLooks EXCEPT ![t] = Store!NoLook]
    BY <1>0, <2>1, <2>2, CallMaps
  <2>4. AbsStore' = AbsStore
    BY <1>t, <2>1, StoreSame
  <2>5. Store!EndLook(t)
    BY <2>3, <2>4 DEF Store!EndLook, AbsStore, AbsPuts, AbsLooks
  <2> QED BY <2>5 DEF Store!StoreNext, StoreStep
<1> QED BY <1>1, <1>2, <1>3, <1>4, <1>5, <1>6, <1>7 DEF LookStep

LEMMA PutMaps ==
    ASSUME PutsSerialised, TInv, WInv, NEW t \in Threads,
           PutStep(t) \/ \E k \in Keys, b \in Blobs, pre \in BOOLEAN : PutOpen(t, k, b, pre)
    PROVE  StoreStep
<1>0. /\ Sized(bin) /\ Sized(tmp) /\ Sound(op[t]) /\ op = [u \in Threads |-> op[u]]
      /\ None \notin Blobs \cup {Torn}
      /\ \A k \in Keys : bin[k] # None => bin[k] \in Files /\ Whole(bin[k])
  BY FileCacheAssumption, TInvIs DEF DirTyped, Torn, WInv, BlobsWhole, Sized
<1> DEFINE k == op[t].key
<1>1. ASSUME NEW j \in Keys, NEW b \in Blobs, NEW pre \in BOOLEAN, PutOpen(t, j, b, pre) PROVE StoreStep
  <2> DEFINE r == [Idle EXCEPT !.pc = "opened", !.kind = "put", !.key = j, !.blob = b, !.pre = pre]
  <2>1. op' = [op EXCEPT ![t] = r] /\ bin' = bin /\ op[t].pc = "idle" /\ PutsOn(j) = {}
    BY <1>1 DEF PutOpen
  <2>2. r.pc = "opened" /\ r.key = j /\ r.blob = b
    BY DEF Idle
  <2> HIDE DEF r
  <2>3. /\ PutAs(r) = [pc |-> "begun", key |-> j, blob |-> b] /\ PutAs(op[t]).pc = "idle"
        /\ LookAs(r) = LookAs(op[t])
    BY <2>1, <2>2 DEF PutAs, LookAs
  <2>4. /\ AbsPuts' = [AbsPuts EXCEPT ![t] = [pc |-> "begun", key |-> j, blob |-> b]]
        /\ AbsPuts[t].pc = "idle" /\ AbsLooks' = AbsLooks
    BY <1>0, <2>1, <2>3, CallMaps
  <2>5. AbsStore' = AbsStore
    BY <2>1, StoreSame
  <2>6. \A u \in Threads : AbsPuts[u].pc # "idle" => AbsPuts[u].key # j
    <3> SUFFICES ASSUME NEW u \in Threads, PutAs(op[u]).pc # "idle" PROVE PutAs(op[u]).key # j
      BY AbsNow
    <3>1. op[u].pc \in PutPCs => op[u].key # j
      BY <2>1 DEF PutsOn
    <3> QED BY <3>1 DEF PutAs, PutPCs
  <2>7. Store!Putting(j) = {}
    BY <2>6 DEF Store!Putting, AbsPuts
  <2>8. Store!BeginPut(t, j, b)
    BY <2>4, <2>5 DEF Store!BeginPut, AbsStore, AbsPuts, AbsLooks
  <2> QED BY <2>7, <2>8 DEF Store!StoreNext, StoreStep
<1>g. ASSUME op[t].pc \in PutPCs, op' = [op EXCEPT ![t] = Idle],
             \A i \in Keys : bin'[i] # None => bin[i] # None /\ bin'[i].data = bin[i].data
      PROVE  StoreStep
  <2>1. /\ PutAs(Idle) = Store!NoPut /\ k \in Keys /\ LookAs(Idle) = LookAs(op[t])
        /\ \/ PutAs(op[t]) = [pc |-> "begun", key |-> k, blob |-> op[t].blob]
           \/ PutAs(op[t]) = [pc |-> "visible", key |-> k, blob |-> op[t].blob]
    BY <1>0, <1>g, IdleSound DEF PutAs, LookAs, Store!NoPut, PutPCs, Sound
  <2>2. /\ AbsPuts' = [AbsPuts EXCEPT ![t] = Store!NoPut] /\ AbsPuts[t] = PutAs(op[t]) /\ AbsLooks' = AbsLooks
    BY <1>0, <1>g, <2>1, CallMaps
  <2>3. AbsPuts[t].pc = "visible" \/ (AbsPuts[t].pc = "begun" /\ AbsPuts[t].key \in Keys)
    BY <2>1, <2>2
  <2>4. AbsStore' = Store!Without(Gone)
    BY <1>g, StoreLess
  <2>5. Gone \in SUBSET Keys /\ Store!EndPut(t, Gone)
    BY <2>2, <2>3, <2>4 DEF Store!EndPut, AbsStore, AbsPuts, AbsLooks, Gone
  <2> QED BY <2>5 DEF Store!StoreNext, StoreStep
<1>2. ASSUME PutWrite(t) PROVE StoreStep
  <2> DEFINE r == [op[t] EXCEPT !.pc = "written"]
  <2>1. op' = [op EXCEPT ![t] = r] /\ op[t].pc = "opened" /\ bin' = [bin EXCEPT ![k] = WrittenBy(t, bin[k], op[t].blob)]
    BY <1>2 DEF PutWrite
  <2>2. r.pc = "written" /\ r.key = k /\ r.blob = op[t].blob
    BY <1>0 DEF Sound, Ops
  <2>3. bin' = bin
    <3>1. k \in Keys
      BY <1>0, <2>1 DEF Sound
    <3>2. WrittenBy(t, bin[k], op[t].blob) = bin[k]
      BY <1>0, <3>1 DEF WrittenBy, Whole
    <3> QED BY <1>0, <2>1, <3>2 DEF Sized
  <2> HIDE DEF r
  <2>4. PutAs(r) = PutAs(op[t]) /\ LookAs(r) = LookAs(op[t])
    BY <2>1, <2>2 DEF PutAs, LookAs
  <2>5. AbsPuts' = AbsPuts /\ AbsLooks' = AbsLooks
    BY <1>0, <2>1, <2>4, CallMaps
  <2>6. AbsStore' = AbsStore
    BY <2>3, StoreSame
  <2> QED BY <2>5, <2>6 DEF Store!storeVars, StoreStep, AbsStore, AbsPuts, AbsLooks
<1>3. ASSUME PutWriteFails(t) PROVE StoreStep
  <2>1. op' = [op EXCEPT ![t] = Idle] /\ op[t].pc = "opened" /\ bin' = [bin EXCEPT ![k] = ClosedBy(t, bin[k])]
    BY <1>3 DEF PutWriteFails
  <2>2. \A i \in Keys : bin'[i] # None => bin[i] # None /\ bin'[i].data = bin[i].data
    <3> SUFFICES ASSUME NEW i \in Keys, bin'[i] # None PROVE bin[i] # None /\ bin'[i].data = bin[i].data
      OBVIOUS
    <3>1. bin'[i] \in {ClosedBy(t, bin[i]), bin[i]}
      BY <1>0, <2>1 DEF Sized
    <3> QED BY <1>0, <3>1 DEF ClosedBy, Files
  <2> QED BY <1>g, <2>1, <2>2 DEF PutPCs
<1>4. ASSUME PutRenameFails(t) PROVE StoreStep
  BY <1>4, <1>g DEF PutRenameFails, PutPCs
<1>5. ASSUME PutRename(t) PROVE StoreStep
  <2> DEFINE r == [op[t] EXCEPT !.pc = "renamed", !.seen = bin[k], !.oldPre = bin[k] # None /\ IsPre(meta[k])]
  <2>1. /\ op' = [op EXCEPT ![t] = r] /\ op[t].pc = "written" /\ tmp[k] # None /\ bin' = [bin EXCEPT ![k] = tmp[k]]
    BY <1>5 DEF PutRename
  <2>2. r.pc = "renamed" /\ r.key = k /\ r.blob = op[t].blob
    BY <1>0 DEF Sound, Ops
  <2> HIDE DEF r
  <2>3. /\ PutAs(op[t]) = [pc |-> "begun", key |-> k, blob |-> op[t].blob]
        /\ PutAs(r) = [pc |-> "visible", key |-> k, blob |-> op[t].blob]
        /\ LookAs(r) = LookAs(op[t])
    BY <2>1, <2>2 DEF PutAs, LookAs
  <2>4. /\ AbsPuts[t] = [pc |-> "begun", key |-> k, blob |-> op[t].blob] /\ AbsLooks' = AbsLooks
        /\ AbsPuts' = [AbsPuts EXCEPT ![t].pc = "visible"]
    BY <1>0, <2>1, <2>3, CallMaps
  <2>5. AbsStore' = [AbsStore EXCEPT ![k] = op[t].blob]
    <3>1. k \in Keys /\ tmp[k].data = op[t].blob
      BY <1>0, <2>1 DEF Sound, WInv, TmpOwned
    <3>2. \A i \in Keys : bin'[i] = IF i = k THEN tmp[k] ELSE bin[i]
      BY <1>0, <2>1, <3>1 DEF Sized
    <3> HIDE DEF k
    <3> QED BY <2>1, <3>1, <3>2, AbsNow, AbsNext
  <2>6. AbsPuts[t].pc = "begun" /\ AbsPuts[t].key = k /\ AbsPuts[t].blob = op[t].blob
    BY <2>4
  <2> HIDE DEF k
  <2>7. AbsStore' = [AbsStore EXCEPT ![AbsPuts[t].key] = AbsPuts[t].blob]
    BY <2>5, <2>6
  <2>8. AbsPuts[t].pc = "begun" /\ AbsPuts' = [AbsPuts EXCEPT ![t].pc = "visible"] /\ AbsLooks' = AbsLooks
    BY <2>4, <2>6
  <2>9. Store!CommitPut(t)
    BY <2>7, <2>8 DEF Store!CommitPut, AbsStore, AbsPuts, AbsLooks
  <2> QED BY <2>9 DEF Store!StoreNext, StoreStep
<1>6. ASSUME PutMetaOpen(t) PROVE StoreStep
  <2> DEFINE r == [op[t] EXCEPT !.pc = "garbled"]
  <2>1. op' = [op EXCEPT ![t] = r] /\ op[t].pc = "renamed" /\ bin' = bin
    BY <1>6 DEF PutMetaOpen
  <2>2. r.pc = "garbled" /\ r.key = k /\ r.blob = op[t].blob
    BY <1>0 DEF Sound, Ops
  <2> HIDE DEF r
  <2>3. PutAs(r) = PutAs(op[t]) /\ LookAs(r) = LookAs(op[t])
    BY <2>1, <2>2 DEF PutAs, LookAs
  <2>4. AbsPuts' = AbsPuts /\ AbsLooks' = AbsLooks
    BY <1>0, <2>1, <2>3, CallMaps
  <2>5. AbsStore' = AbsStore
    BY <2>1, StoreSame
  <2> QED BY <2>4, <2>5 DEF Store!storeVars, StoreStep, AbsStore, AbsPuts, AbsLooks
<1>7. ASSUME PutFinish(t) PROVE StoreStep
  <2>1. op' = [op EXCEPT ![t] = Idle] /\ op[t].pc \in {"renamed", "garbled"}
    BY <1>7 DEF PutFinish
  <2>2. \E m, c, e, p : EvictFrom(bin, m, c, e, p)
    BY <1>7 DEF PutFinish
  <2>3. \A i \in Keys : bin'[i] \in {bin[i], None}
    BY <2>2, EvictLess
  <2> QED BY <1>g, <2>1, <2>3 DEF PutPCs
<1> QED BY <1>1, <1>2, <1>3, <1>4, <1>5, <1>6, <1>7 DEF PutStep

LEMMA NextMaps == ASSUME PutsSerialised, TInv, WInv, [Next]_vars PROVE StoreStep
<1>l. ASSUME op' = op, \A k \in Keys : bin'[k] # None => bin[k] # None /\ bin'[k].data = bin[k].data
      PROVE  StoreStep
  <2>1. AbsPuts' = AbsPuts /\ AbsLooks' = AbsLooks
    BY <1>l, AbsNow, AbsNext
  <2>2. AbsStore' = Store!Without(Gone)
    BY <1>l, StoreLess
  <2>3. Gone \in SUBSET Keys /\ Store!Lose(Gone)
    BY <2>1, <2>2 DEF Store!Lose, AbsStore, AbsPuts, AbsLooks, Gone
  <2> QED BY <2>3 DEF Store!StoreNext, StoreStep
<1>1. CASE \E t \in Threads, k \in Keys :
              \/ \E b \in Blobs, pre \in BOOLEAN : PutOpen(t, k, b, pre)
              \/ \E kind \in {"has", "get"} : Look(t, kind, k)
  BY <1>1, PutMaps, LookMaps
<1>2. CASE \E t \in Threads : PutStep(t) \/ LookStep(t)
  BY <1>2, PutMaps, LookMaps
<1>3. CASE Sweep \/ Recover
  <2>1. PICK gone : \E c, e, p : EvictFrom(Without(bin, gone), Without(meta, gone), c, e, p)
    BY <1>3 DEF Sweep, Recover
  <2>2. \A k \in Keys : bin'[k] \in {bin[k], None}
    BY <2>1, EvictLess DEF Without
  <2> QED BY <1>l, <1>3, <2>2 DEF Sweep, Recover
<1>4. CASE Tick \/ UNCHANGED vars
  BY <1>l, <1>4 DEF Tick, disk, vars
<1>5. CASE Crash
  <2>1. op' = [t \in Threads |-> Idle] /\ bin' = Closed(bin)
    BY <1>5 DEF Crash
  <2>2. /\ AbsPuts' = [t \in Threads |-> Store!NoPut]
        /\ AbsLooks' = [t \in Threads |-> Store!NoLook]
    <3>1. PutAs(Idle) = Store!NoPut /\ LookAs(Idle) = Store!NoLook
      BY IdleSound DEF PutAs, LookAs, Store!NoPut, Store!NoLook
    <3> QED BY <2>1, <3>1, AbsNext
  <2>3. AbsStore' = AbsStore
    <3> SUFFICES ASSUME NEW k \in Keys
                 PROVE  (bin'[k] = None <=> bin[k] = None) /\ (bin'[k] # None => bin'[k].data = bin[k].data)
      BY StoreSame
    <3>1. bin'[k] = IF bin[k] = None THEN None ELSE [bin[k] EXCEPT !.writers = {}]
      BY <2>1 DEF Closed
    <3>2. bin[k] # None => bin[k] \in Files
      BY TInvIs DEF DirTyped, Sized
    <3>3. bin[k] # None => [bin[k] EXCEPT !.writers = {}] \in Files
      BY <3>2 DEF Files
    <3> QED BY <3>1, <3>2, <3>3, FileCacheAssumption DEF Files
  <2>4. Store!Reset
    BY <2>2, <2>3 DEF Store!Reset, AbsStore, AbsPuts, AbsLooks
  <2> QED BY <2>4 DEF Store!StoreNext, StoreStep
<1> QED BY <1>1, <1>2, <1>3, <1>4, <1>5 DEF Next

(* There too the cache implements BlobStore: a hit answers with the whole  *)
(* of a blob that a Put wrote under that key and that was there when the   *)
(* call looked, and a Put becomes visible in one step, its rename.         *)
THEOREM CacheImplementsStore == ASSUME PutsSerialised PROVE Spec => ImplementsStore
<1>1. TInv /\ WInv /\ [Next]_vars => [Store!StoreNext]_(Store!storeVars)
  BY NextMaps DEF StoreStep
<1> QED BY <1>1, AlwaysWhole, InitMaps, PTL DEF Spec, ImplementsStore, Store!StoreSpec
-----------------------------------------------------------------------------
(* The counters                                                            *)

DropsItsEntry ==
    \A t \in Threads : DropBin(t) =>
        /\ op[t].key \in ExpiredKeys
        /\ bin[op[t].key].size = op[t].seen.size
        /\ IsPre(meta[op[t].key]) <=> op[t].pre

(* The directory's own totals, and the counters against them.              *)
Agree(by, en, pf, b, m) ==
    /\ by = Bytes(b, Present(b)) /\ by <= Cap
    /\ en = Cardinality(Present(b))
    /\ ~ DiskFaults => pf = PreCount(m, Present(b))

(* Between the rename and the end of a Put the counters stand for the      *)
(* other files and the one replaced; between the removals of a reader for  *)
(* the file removed as well.                                               *)
PutCounts(t) ==
    LET others == Present(bin) \ {op[t].key} IN
    /\ bytes = Bytes(bin, others) + OldSize(t)
    /\ entries = Cardinality(others) + Bit(op[t].seen # None)
    /\ ~ DiskFaults => prefetched = PreCount(meta, others) + Bit(op[t].oldPre)

DropCounts(t) ==
    /\ bin[op[t].key] = None
    /\ Agree(bytes - op[t].seen.size, entries - 1, prefetched - Bit(op[t].pre), bin, meta)

CInv ==
    up => /\ lock = None => Agree(bytes, entries, prefetched, bin, meta)
          /\ \A t \in Threads : op[t].pc \in {"renamed", "garbled"} => PutCounts(t)
          /\ \A t \in Threads : op[t].pc = "dropped" => DropCounts(t)
-----------------------------------------------------------------------------
LEMMA TotalsNat ==
    ASSUME NEW b, Sized(b), NEW m, NEW S \in SUBSET Present(b)
    PROVE  Bytes(b, S) \in Nat /\ Cardinality(S) \in Nat /\ PreCount(m, S) \in Nat
<1>1. IsFiniteSet(S) /\ Bytes(b, S) \in Nat
  BY BytesFinite, BytesNat
<1>2. IsFiniteSet({k \in S : IsPre(m[k])})
  BY <1>1, FS_Subset
<1> QED BY <1>1, <1>2, FS_CardinalityType DEF PreCount

(* The files of S are taken away: what is left adds up to the rest.        *)
LEMMA TakenAway ==
    ASSUME NEW b, Sized(b), NEW m, NEW S \in SUBSET Present(b)
    PROVE  /\ Present(Without(b, S)) = Present(b) \ S
           /\ Bytes(Without(b, S), Present(b) \ S) = Bytes(b, Present(b)) - Bytes(b, S)
           /\ Cardinality(Present(b) \ S) = Cardinality(Present(b)) - Cardinality(S)
           /\ PreCount(Without(m, S), Present(b) \ S) = PreCount(m, Present(b)) - PreCount(m, S)
<1> DEFINE R == Present(b) \ S
<1>1. S \cup R = Present(b) /\ S \cap R = {} /\ R \in SUBSET Present(b) /\ Present(b) \in SUBSET Present(b)
  OBVIOUS
<1>2. Present(Without(b, S)) = R
  BY DEF Present, Without
<1>3. \A k \in R : Without(b, S)[k].size = b[k].size
  BY DEF Present, Without
<1>4. Bytes(Without(b, S), R) = Bytes(b, R)
  BY <1>3, BytesSame
<1>5. Bytes(b, S) \in Nat /\ Bytes(b, R) \in Nat /\ Bytes(b, Present(b)) \in Nat
  BY <1>1, BytesNat
<1>6. Bytes(b, Present(b)) = Bytes(b, S) + Bytes(b, R)
  BY <1>1, BytesAdd
<1>7. IsFiniteSet(S) /\ IsFiniteSet(R) /\ IsFiniteSet(Present(b))
  BY <1>1, BytesFinite
<1>8. /\ Cardinality(S) \in Nat /\ Cardinality(R) \in Nat
      /\ Cardinality(Present(b)) = Cardinality(S) + Cardinality(R)
  <2>1. Cardinality(S \cap R) = 0
    BY <1>1, FS_EmptySet
  <2>2. Cardinality(S \cup R) = Cardinality(S) + Cardinality(R) - Cardinality(S \cap R)
    BY <1>7, FS_Union
  <2>3. Cardinality(S) \in Nat /\ Cardinality(R) \in Nat
    BY <1>7, FS_CardinalityType
  <2>4. Cardinality(S \cup R) = Cardinality(Present(b))
    BY <1>1
  <2> HIDE DEF R
  <2> QED BY ONLY <2>1, <2>2, <2>3, <2>4
<1>9. /\ PreCount(m, S) \in Nat /\ PreCount(m, R) \in Nat
      /\ PreCount(m, Present(b)) = PreCount(m, S) + PreCount(m, R)
  <2> DEFINE P(T) == {k \in T : IsPre(m[k])}
  <2>1. P(S) \cup P(R) = P(Present(b)) /\ P(S) \cap P(R) = {}
    BY <1>1
  <2>2. IsFiniteSet(P(S)) /\ IsFiniteSet(P(R))
    BY <1>7, FS_Subset
  <2>3. Cardinality(P(S) \cap P(R)) = 0
    BY <2>1, FS_EmptySet
  <2>4. Cardinality(P(S) \cup P(R)) = Cardinality(P(S)) + Cardinality(P(R)) - Cardinality(P(S) \cap P(R))
    BY <2>2, FS_Union
  <2>5. Cardinality(P(S)) \in Nat /\ Cardinality(P(R)) \in Nat
    BY <2>2, FS_CardinalityType
  <2>6. Cardinality(P(S) \cup P(R)) = Cardinality(P(Present(b)))
    BY <2>1
  <2>7. /\ PreCount(m, S) = Cardinality(P(S)) /\ PreCount(m, R) = Cardinality(P(R))
        /\ PreCount(m, Present(b)) = Cardinality(P(Present(b)))
    BY DEF PreCount
  <2> HIDE DEF P, R
  <2> QED BY ONLY <2>3, <2>4, <2>5, <2>6, <2>7
<1>10. PreCount(Without(m, S), R) = PreCount(m, R)
  <2>1. {k \in R : IsPre(Without(m, S)[k])} = {k \in R : IsPre(m[k])}
    BY DEF Without, Present
  <2> QED BY <2>1 DEF PreCount
<1> HIDE DEF R
<1>11. /\ Bytes(Without(b, S), R) = Bytes(b, Present(b)) - Bytes(b, S)
       /\ Cardinality(R) = Cardinality(Present(b)) - Cardinality(S)
       /\ PreCount(Without(m, S), R) = PreCount(m, Present(b)) - PreCount(m, S)
  BY <1>4, <1>5, <1>6, <1>8, <1>9, <1>10
<1> QED BY <1>2, <1>11 DEF R

(* One file more than the others.                                          *)
LEMMA OneTaken ==
    ASSUME NEW b, Sized(b), NEW m, NEW k \in Present(b)
    PROVE  /\ Bytes(b, Present(b)) = Bytes(b, Present(b) \ {k}) + b[k].size
           /\ Cardinality(Present(b)) = Cardinality(Present(b) \ {k}) + 1
           /\ PreCount(m, Present(b)) = PreCount(m, Present(b) \ {k}) + Bit(IsPre(m[k]))
           /\ Bytes(b, Present(b) \ {k}) \in Nat /\ Cardinality(Present(b) \ {k}) \in Nat
           /\ PreCount(m, Present(b) \ {k}) \in Nat /\ b[k].size \in Nat
<1> DEFINE S == {k}
           R == Present(b) \ S
<1>1. S \in SUBSET Present(b)
  OBVIOUS
<1>2. Bytes(b, S) = b[k].size
  BY BytesOfOne
<1>3. Cardinality(S) = 1 /\ Cardinality({}) = 0
  BY FS_Singleton, FS_EmptySet
<1>4. PreCount(m, S) = Bit(IsPre(m[k]))
  <2>1. {i \in S : IsPre(m[i])} = IF IsPre(m[k]) THEN S ELSE {}
    OBVIOUS
  <2> QED BY <1>3, <2>1 DEF PreCount, Bit
<1>5. Bytes(Without(b, S), R) = Bytes(b, R) /\ PreCount(Without(m, S), R) = PreCount(m, R)
  <2>1. \A i \in R : Without(b, S)[i].size = b[i].size
    BY DEF Without, Present
  <2>2. {i \in R : IsPre(Without(m, S)[i])} = {i \in R : IsPre(m[i])}
    BY DEF Without, Present
  <2>3. PreCount(Without(m, S), R) = PreCount(m, R)
    BY <2>2 DEF PreCount
  <2>4. Bytes(Without(b, S), R) = Bytes(b, R)
    BY <2>1, BytesSame
  <2> QED BY <2>3, <2>4
<1> HIDE DEF S
<1>6. /\ Bytes(Without(b, S), R) = Bytes(b, Present(b)) - Bytes(b, S)
      /\ Cardinality(R) = Cardinality(Present(b)) - Cardinality(S)
      /\ PreCount(Without(m, S), R) = PreCount(m, Present(b)) - PreCount(m, S)
  BY <1>1, TakenAway
<1>n. /\ Bytes(b, S) \in Nat /\ Bytes(b, Present(b)) \in Nat /\ Bytes(b, R) \in Nat
      /\ Cardinality(Present(b)) \in Nat /\ Cardinality(R) \in Nat
      /\ PreCount(m, S) \in Nat /\ PreCount(m, Present(b)) \in Nat /\ PreCount(m, R) \in Nat
  BY <1>1, TotalsNat
<1> HIDE DEF R
<1>7. /\ Bytes(b, Present(b)) = Bytes(b, R) + b[k].size
      /\ Cardinality(Present(b)) = Cardinality(R) + 1
      /\ PreCount(m, Present(b)) = PreCount(m, R) + Bit(IsPre(m[k]))
      /\ Bytes(b, R) \in Nat /\ Cardinality(R) \in Nat /\ PreCount(m, R) \in Nat /\ b[k].size \in Nat
  BY <1>2, <1>3, <1>4, <1>5, <1>6, <1>n
<1> QED BY <1>7 DEF R, S

(* evictUnderLock keeps exact counters exact and brings them to the cap;   *)
(* at or below the cap it removes nothing.                                 *)
LEMMA EvictAgrees ==
    ASSUME NEW b, Sized(b), NEW m, NEW p, p \in Nat,
           EvictFrom(b, m, Bytes(b, Present(b)), Cardinality(Present(b)), p)
    PROVE  /\ bytes' = Bytes(bin', Present(bin')) /\ bytes' <= Cap
           /\ entries' = Cardinality(Present(bin'))
           /\ p = PreCount(m, Present(b)) => prefetched' = PreCount(meta', Present(bin'))
           /\ Bytes(b, Present(b)) <= Cap => Present(bin') = Present(b)
<1> DEFINE c == Bytes(b, Present(b))
           e == Cardinality(Present(b))
<1> PICK V \in Evictions(b, c) :
        /\ bin' = Without(b, V) /\ meta' = Without(m, V)
        /\ bytes' = AtLeast0(c - Bytes(b, V))
        /\ entries' = AtLeast0(e - Cardinality(V))
        /\ prefetched' = AtLeast0(p - PreCount(m, V))
  BY DEF EvictFrom
<1>1. /\ V \in SUBSET Present(b)
      /\ V = Present(b) \/ c - Bytes(b, V) <= Cap
      /\ V # {} => \E v \in V : c - Bytes(b, V \ {v}) > Cap
  BY DEF Evictions
<1>2. /\ Present(Without(b, V)) = Present(b) \ V
      /\ Bytes(Without(b, V), Present(b) \ V) = c - Bytes(b, V)
      /\ Cardinality(Present(b) \ V) = e - Cardinality(V)
      /\ PreCount(Without(m, V), Present(b) \ V) = PreCount(m, Present(b)) - PreCount(m, V)
  BY <1>1, TakenAway
<1>n. /\ Bytes(b, V) \in Nat /\ Cardinality(V) \in Nat /\ PreCount(m, V) \in Nat
      /\ c \in Nat /\ e \in Nat /\ PreCount(m, Present(b)) \in Nat
      /\ Bytes(b, Present(b) \ V) \in Nat /\ Cardinality(Present(b) \ V) \in Nat
  BY <1>1, TotalsNat
<1>3. c - Bytes(b, V) >= 0 /\ e - Cardinality(V) >= 0 /\ PreCount(m, Present(b)) - PreCount(m, V) >= 0
  <2>1. Present(b) \ V \in SUBSET Present(b) /\ V \cup (Present(b) \ V) = Present(b) /\ V \cap (Present(b) \ V) = {}
    BY <1>1
  <2>2. c = Bytes(b, V) + Bytes(b, Present(b) \ V)
    BY <1>1, <2>1, BytesAdd
  <2>3. PreCount(Without(m, V), Present(b) \ V) \in Nat
    <3>1. IsFiniteSet(Present(b) \ V)
      BY <2>1, BytesFinite
    <3>2. IsFiniteSet({k \in Present(b) \ V : IsPre(Without(m, V)[k])})
      BY <3>1, FS_Subset
    <3> QED BY <3>2, FS_CardinalityType DEF PreCount
  <2> QED BY <1>2, <1>n, <2>2, <2>3
<1>4. /\ bytes' = Bytes(bin', Present(bin')) /\ entries' = Cardinality(Present(bin'))
      /\ p = PreCount(m, Present(b)) => prefetched' = PreCount(meta', Present(bin'))
  BY <1>2, <1>n, <1>3 DEF AtLeast0
<1>5. bytes' <= Cap
  BY <1>1, <1>2, <1>n, <1>3, FileCacheAssumption DEF AtLeast0
<1>6. c <= Cap => V = {}
  <2> SUFFICES ASSUME c <= Cap, NEW v \in V, c - Bytes(b, V \ {v}) > Cap PROVE FALSE
    BY <1>1
  <2>1. Bytes(b, V \ {v}) \in Nat
    BY <1>1, BytesNat
  <2> QED BY <1>2, <1>n, <2>1, FileCacheAssumption
<1>7. V = {} => Present(bin') = Present(b)
  BY <1>2
<1> QED BY <1>4, <1>5, <1>6, <1>7

(* rebuildIndex counts what it keeps and evicts from there.                *)
LEMMA RecoverAgrees ==
    ASSUME TInv, Recover
    PROVE  /\ bytes' = Bytes(bin', Present(bin')) /\ bytes' <= Cap
           /\ entries' = Cardinality(Present(bin'))
           /\ prefetched' = PreCount(meta', Present(bin'))
           /\ \A k \in Keys :
                 /\ tmp'[k] = None
                 /\ bin'[k] # None => IsMeta(meta'[k]) /\ meta'[k].size = bin'[k].size
<1> DEFINE gone == Present(bin) \ Kept
           b == Without(bin, gone)
           m == Without(meta, gone)
<1>1. /\ EvictFrom(b, m, Bytes(bin, Kept), Cardinality(Kept), PreCount(meta, Kept))
      /\ tmp' = [k \in Keys |-> None]
  BY DEF Recover
<1>2. Sized(bin) /\ Sized(b) /\ gone \in SUBSET Present(bin) /\ Kept \in SUBSET Present(bin)
  BY TInvIs, LessTyped DEF DirTyped, Kept
<1>3. Present(b) = Kept
  BY <1>2 DEF Present, Without
<1>4. Bytes(b, Kept) = Bytes(bin, Kept)
  <2>1. \A k \in Kept : b[k].size = bin[k].size
    BY <1>2 DEF Without, Present
  <2> QED BY <2>1, BytesSame
<1>5. PreCount(m, Kept) = PreCount(meta, Kept)
  <2>1. {k \in Kept : IsPre(m[k])} = {k \in Kept : IsPre(meta[k])}
    BY <1>2 DEF Without, Present
  <2> QED BY <2>1 DEF PreCount
<1>6. PreCount(meta, Kept) \in Nat
  BY <1>2, CountsTyped
<1>7. \A k \in Keys : bin'[k] # None => IsMeta(meta'[k]) /\ meta'[k].size = bin'[k].size
  <2>1. \A k \in Keys : /\ bin'[k] \in {b[k], None}
                        /\ bin'[k] # None => meta'[k] = m[k]
    BY <1>1, EvictLess
  <2> QED BY <2>1 DEF Without, Kept, Present
<1> HIDE DEF b, m
<1>8. /\ bytes' = Bytes(bin', Present(bin')) /\ bytes' <= Cap
      /\ entries' = Cardinality(Present(bin')) /\ prefetched' = PreCount(meta', Present(bin'))
  BY <1>1, <1>2, <1>3, <1>4, <1>5, <1>6, EvictAgrees
<1> QED BY <1>1, <1>7, <1>8

(* A restart after a crash at any step of any call rebuilds counters that  *)
(* agree with the directory, respects the cap, and leaves no temporary     *)
(* file and no entry without a sidecar of its length; no assumption on the *)
(* callers.                                                                *)
THEOREM RebuildIsExact == Spec => RebuildExact
<1>1. ASSUME TInv, [Next]_vars, ~ up, up' PROVE Recover
  <2>1. lock = None /\ \A t \in Threads : op[t].pc = "idle"
    BY <1>1, IdleSound DEF TInv, CallsEnd
  <2> QED
    BY <1>1, <2>1
       DEF Next, PutStep, LookStep, PutOpen, PutWrite, PutWriteFails, PutRename, PutRenameFails, PutMetaOpen, PutFinish,
           Look, LookNoMeta, LookExpired, LookHit, DropBin, DropMeta, LookReturn, Sweep, Tick, Crash, vars, env
<1>2. TInv /\ [Next]_vars =>
        [~ up /\ up' =>
            /\ bytes' = Bytes(bin', Present(bin')) /\ entries' = Cardinality(Present(bin'))
            /\ prefetched' = PreCount(meta', Present(bin')) /\ bytes' <= Cap
            /\ \A k \in Keys :
                  /\ tmp'[k] = None
                  /\ bin'[k] # None => IsMeta(meta'[k]) /\ meta'[k].size = bin'[k].size]_vars
  BY <1>1, RecoverAgrees
<1> QED BY <1>2, AlwaysTyped, PTL DEF Spec, RebuildExact
-----------------------------------------------------------------------------
KeepsStep ==
    up /\ up' /\ Bytes(bin, Present(bin)) <= Cap =>
        \A k \in Present(bin) : bin'[k] = None => k \in ExpiredKeys

Counted == CInv' /\ KeepsStep

(* A step that leaves the counters, the critical sections and the lengths  *)
(* of the files alone.                                                     *)
LEMMA CountersStay ==
    ASSUME CInv, UNCHANGED <<counters, lock, up, meta>>,
           \A k \in Keys : /\ bin'[k] = None <=> bin[k] = None
                           /\ bin'[k] # None => bin'[k].size = bin[k].size,
           \A u \in Threads : op[u].pc \in Held \/ op'[u].pc \in Held => op'[u] = op[u],
           \A u \in Threads : op[u].pc # "idle" => op[u].key \in Keys
    PROVE  Counted
<1>1. Present(bin') = Present(bin)
  BY DEF Present
<1>2. \A S \in SUBSET Present(bin) : Bytes(bin', S) = Bytes(bin, S)
  <2> SUFFICES ASSUME NEW S \in SUBSET Present(bin) PROVE Bytes(bin', S) = Bytes(bin, S)
    OBVIOUS
  <2>1. \A k \in S : bin'[k].size = bin[k].size
    BY DEF Present
  <2> QED BY <2>1, BytesSame
<1>3. UNCHANGED <<bytes, entries, prefetched, lock, up, meta>>
  BY DEF counters
<1>4. up /\ lock = None => Agree(bytes', entries', prefetched', bin', meta')
  BY <1>1, <1>2, <1>3 DEF CInv, Agree
<1>5. ASSUME up, NEW t \in Threads, op'[t].pc \in {"renamed", "garbled"} PROVE PutCounts(t)'
  <2>1. op'[t] = op[t]
    BY <1>5 DEF Held
  <2>2. PutCounts(t)
    BY <1>5, <2>1 DEF CInv
  <2>3. Bytes(bin', Present(bin) \ {op[t].key}) = Bytes(bin, Present(bin) \ {op[t].key})
    BY <1>2
  <2> QED BY <1>1, <1>3, <2>1, <2>2, <2>3 DEF PutCounts, OldSize
<1>6. ASSUME up, NEW t \in Threads, op'[t].pc = "dropped" PROVE DropCounts(t)'
  <2>1. op'[t] = op[t] /\ op[t].key \in Keys
    BY <1>6 DEF Held
  <2>2. DropCounts(t)
    BY <1>6, <2>1 DEF CInv
  <2>3. Bytes(bin', Present(bin)) = Bytes(bin, Present(bin))
    BY <1>2
  <2> QED BY <1>1, <1>3, <2>1, <2>2, <2>3 DEF DropCounts, Agree
<1>7. CInv'
  BY <1>3, <1>4, <1>5, <1>6 DEF CInv
<1>8. KeepsStep
  BY DEF KeepsStep, Present
<1> QED BY <1>7, <1>8 DEF Counted

LEMMA PutCounted ==
    ASSUME PutsSerialised, TInv, WInv, CInv, NEW t \in Threads,
           PutStep(t) \/ \E k \in Keys, b \in Blobs, pre \in BOOLEAN : PutOpen(t, k, b, pre)
    PROVE  Counted
<1>0. /\ Sized(bin) /\ Sound(op[t]) /\ op = [u \in Threads |-> op[u]]
      /\ lock \in Threads \cup {None} /\ None \notin Threads
      /\ meta \in [Keys -> Metas \cup {None, Garbled}]
      /\ \A u \in Threads : op[u].pc \in Held <=> lock = u
      /\ \A u \in Threads : op[u].pc # "idle" => op[u].key \in Keys
      /\ op[t].pc # "idle" => up
      /\ bytes \in Nat /\ entries \in Nat /\ prefetched \in Nat
      /\ \A k \in Keys : bin[k] # None => bin[k] \in Files /\ Whole(bin[k])
  BY FileCacheAssumption, TInvIs DEF DirTyped, Sized, Sound, CountTyped, CallsEnd, Idle, WInv, BlobsWhole
<1> DEFINE k == op[t].key
<1>a. ASSUME NEW r, op' = [op EXCEPT ![t] = r], op[t].pc \notin Held, r.pc \notin Held
      PROVE  \A u \in Threads : op[u].pc \in Held \/ op'[u].pc \in Held => op'[u] = op[u]
  BY <1>0, <1>a
<1>1. ASSUME NEW j \in Keys, NEW b \in Blobs, NEW pre \in BOOLEAN, PutOpen(t, j, b, pre) PROVE Counted
  <2> DEFINE r == [Idle EXCEPT !.pc = "opened", !.kind = "put", !.key = j, !.blob = b, !.pre = pre]
  <2>1. op' = [op EXCEPT ![t] = r] /\ op[t].pc \notin Held /\ UNCHANGED <<counters, lock, up, meta, bin>>
    BY <1>1 DEF PutOpen, Held
  <2>2. r.pc \notin Held
    BY DEF Idle, Held
  <2> HIDE DEF r
  <2> QED BY <1>0, <1>a, <2>1, <2>2, CountersStay
<1>2. ASSUME PutWrite(t) PROVE Counted
  <2> DEFINE r == [op[t] EXCEPT !.pc = "written"]
  <2>1. /\ op' = [op EXCEPT ![t] = r] /\ op[t].pc \notin Held /\ UNCHANGED <<counters, lock, up, meta>>
        /\ bin' = [bin EXCEPT ![k] = WrittenBy(t, bin[k], op[t].blob)] /\ k \in Keys
    BY <1>0, <1>2 DEF PutWrite, Held, env
  <2>2. r.pc \notin Held
    BY <1>0 DEF Held, Sound, Ops
  <2>3. bin' = bin
    <3>1. WrittenBy(t, bin[k], op[t].blob) = bin[k]
      BY <1>0, <2>1 DEF WrittenBy, Whole
    <3> QED BY <1>0, <2>1, <3>1 DEF Sized
  <2> HIDE DEF r
  <2> QED BY <1>0, <1>a, <2>1, <2>2, <2>3, CountersStay
<1>3. ASSUME PutWriteFails(t) PROVE Counted
  <2>1. /\ op' = [op EXCEPT ![t] = Idle] /\ op[t].pc \notin Held /\ UNCHANGED <<counters, lock, up, meta>>
        /\ bin' = [bin EXCEPT ![k] = ClosedBy(t, bin[k])]
    BY <1>3 DEF PutWriteFails, Held, env
  <2>2. \A i \in Keys : (bin'[i] = None <=> bin[i] = None) /\ (bin'[i] # None => bin'[i].size = bin[i].size)
    <3> SUFFICES ASSUME NEW i \in Keys
                 PROVE  (bin'[i] = None <=> bin[i] = None) /\ (bin'[i] # None => bin'[i].size = bin[i].size)
      OBVIOUS
    <3>1. bin'[i] \in {ClosedBy(t, bin[i]), bin[i]}
      BY <1>0, <2>1 DEF Sized
    <3>2. bin[i] # None => bin[i] \in Files /\ [bin[i] EXCEPT !.writers = bin[i].writers \ {t}] \in Files
      BY <1>0 DEF Files
    <3> QED BY <3>1, <3>2, FileCacheAssumption DEF ClosedBy, Files
  <2>3. Idle.pc \notin Held
    BY IdleSound DEF Held
  <2> QED BY <1>0, <1>a, <2>1, <2>2, <2>3, CountersStay
<1>4. ASSUME PutRenameFails(t) PROVE Counted
  <2>1. /\ op' = [op EXCEPT ![t] = Idle] /\ op[t].pc \notin Held /\ UNCHANGED <<counters, lock, up, meta, bin>>
    BY <1>4 DEF PutRenameFails, Held, env
  <2>2. Idle.pc \notin Held
    BY IdleSound DEF Held
  <2> QED BY <1>0, <1>a, <2>1, <2>2, CountersStay
<1>5. ASSUME PutRename(t) PROVE Counted
  <2> DEFINE r == [op[t] EXCEPT !.pc = "renamed", !.seen = bin[k], !.oldPre = bin[k] # None /\ IsPre(meta[k])]
             others == Present(bin) \ {k}
  <2>1. /\ op' = [op EXCEPT ![t] = r] /\ op[t].pc = "written" /\ lock = None /\ lock' = t
        /\ UNCHANGED <<counters, up, meta>> /\ tmp[k] # None /\ bin' = [bin EXCEPT ![k] = tmp[k]] /\ k \in Keys
    BY <1>0, <1>5 DEF PutRename, env
  <2>2. r.pc = "renamed" /\ r.key = k /\ r.seen = bin[k] /\ r.oldPre = (bin[k] # None /\ IsPre(meta[k]))
    BY <1>0 DEF Sound, Ops
  <2> HIDE DEF r
  <2>3. op'[t] = r /\ \A u \in Threads \ {t} : op'[u].pc \notin Held
    BY <1>0, <2>1
  <2>4. bin'[k] = tmp[k] /\ \A i \in Keys \ {k} : bin'[i] = bin[i]
    BY <1>0, <2>1 DEF Sized
  <2>5. Present(bin') \ {k} = others
    BY <2>4 DEF Present
  <2>6. Bytes(bin', others) = Bytes(bin, others)
    <3>1. \A i \in others : bin'[i].size = bin[i].size
      BY <2>4 DEF Present
    <3> QED BY <3>1, BytesSame
  <2>7. Agree(bytes, entries, prefetched, bin, meta)
    BY <1>0, <1>5, <2>1 DEF CInv
  <2>8. PutCounts(t)'
    <3>1. CASE bin[k] = None
      <4>1. others = Present(bin) /\ OldSize(t)' = 0
        BY <2>2, <2>3, <3>1 DEF Present, OldSize
      <4>2. op'[t].seen = None /\ op'[t].oldPre = FALSE /\ op'[t].key = k
        BY <2>2, <2>3, <3>1
      <4>3. Bytes(bin, Present(bin)) \in Nat /\ Cardinality(Present(bin)) \in Nat /\ PreCount(meta, Present(bin)) \in Nat
        BY <1>0, BytesNat, CountsTyped
      <4>4. /\ bytes = Bytes(bin', others) + 0 /\ entries = Cardinality(others) + 0
            /\ ~ DiskFaults => prefetched = PreCount(meta, others) + 0
        BY <2>6, <2>7, <4>1, <4>3 DEF Agree
      <4> HIDE DEF k, others
      <4> QED BY <2>1, <2>5, <4>1, <4>2, <4>4 DEF PutCounts, Bit, counters
    <3>2. CASE bin[k] # None
      <4>1. k \in Present(bin)
        BY <2>1, <3>2 DEF Present
      <4>2. /\ Bytes(bin, Present(bin)) = Bytes(bin, others) + bin[k].size
            /\ Cardinality(Present(bin)) = Cardinality(others) + 1
            /\ PreCount(meta, Present(bin)) = PreCount(meta, others) + Bit(IsPre(meta[k]))
        <5>1. Sized(bin)
          BY <1>0
        <5> QED BY ONLY <4>1, <5>1, OneTaken
      <4>3. OldSize(t)' = bin[k].size /\ op'[t].seen # None /\ op'[t].key = k
        BY <2>2, <2>3, <3>2 DEF OldSize
      <4>4. Bit(op'[t].oldPre) = Bit(IsPre(meta[k]))
        <5>1. op'[t].oldPre = (bin[k] # None /\ IsPre(meta[k]))
          BY <2>2, <2>3
        <5> QED BY <3>2, <5>1 DEF Bit
      <4> HIDE DEF k, others
      <4>5. /\ bytes = Bytes(bin', others) + bin[k].size /\ entries = Cardinality(others) + 1
            /\ ~ DiskFaults => prefetched = PreCount(meta, others) + Bit(op'[t].oldPre)
        BY <2>6, <2>7, <4>2, <4>4 DEF Agree
      <4>6. Bit(op'[t].seen # None) = 1
        BY <4>3 DEF Bit
      <4> QED BY <2>1, <2>5, <4>3, <4>5, <4>6 DEF PutCounts, counters
    <3> QED BY <3>1, <3>2
  <2>9. CInv'
    BY <1>0, <2>1, <2>2, <2>3, <2>8 DEF CInv, Held
  <2>10. KeepsStep
    BY <2>1, <2>4 DEF KeepsStep, Present
  <2> QED BY <2>9, <2>10 DEF Counted
<1>6. ASSUME PutMetaOpen(t) PROVE Counted
  <2> DEFINE r == [op[t] EXCEPT !.pc = "garbled"]
             others == Present(bin) \ {k}
  <2>1. /\ op' = [op EXCEPT ![t] = r] /\ op[t].pc = "renamed" /\ UNCHANGED <<counters, up, lock, bin>>
        /\ meta' = [meta EXCEPT ![k] = Garbled] /\ k \in Keys /\ up
    BY <1>0, <1>6 DEF PutMetaOpen, env
  <2>2. r.pc = "garbled" /\ r.key = k /\ r.seen = op[t].seen /\ r.oldPre = op[t].oldPre
    BY <1>0 DEF Sound, Ops
  <2> HIDE DEF r
  <2>3. op'[t] = r /\ lock = t /\ lock' # None /\ \A u \in Threads \ {t} : op'[u].pc \notin Held
    BY <1>0, <2>1 DEF Held
  <2>4. PutCounts(t)
    BY <2>1 DEF CInv
  <2>5. PreCount(meta', others) = PreCount(meta, others)
    <3>1. {i \in others : IsPre(meta'[i])} = {i \in others : IsPre(meta[i])}
      BY <1>0, <2>1 DEF Present
    <3> QED BY <3>1 DEF PreCount
  <2>6. PutCounts(t)'
    BY <2>1, <2>2, <2>3, <2>4, <2>5 DEF PutCounts, OldSize, counters
  <2>7. CInv'
    BY <1>0, <2>1, <2>2, <2>3, <2>6 DEF CInv, Held
  <2>8. KeepsStep
    BY <2>1 DEF KeepsStep, Present
  <2> QED BY <2>7, <2>8 DEF Counted
<1>7. ASSUME PutFinish(t) PROVE Counted
  <2> DEFINE b == op[t].blob
             others == Present(bin) \ {k}
             c == AtLeast0(bytes + b - OldSize(t))
             e == entries + Bit(op[t].seen = None)
             p == AtLeast0(prefetched + Bit(op[t].pre) - Bit(op[t].oldPre))
  <2>1. /\ op' = [op EXCEPT ![t] = Idle] /\ op[t].pc \in {"renamed", "garbled"} /\ up' = up /\ lock' = None /\ k \in Keys /\ up
    BY <1>0, <1>7 DEF PutFinish, env
  <2>2. PICK m \in Sidecars(t) :
           EvictFrom(bin, [meta EXCEPT ![k] = m], c, e, p)
    BY <1>7 DEF PutFinish
  <2>3. /\ PutCounts(t) /\ bin[k] # None /\ bin[k].size = b /\ b \in Nat /\ op[t].pre \in BOOLEAN /\ op[t].oldPre \in BOOLEAN
        /\ OldSize(t) \in Nat
    BY <1>0, <2>1, FileCacheAssumption DEF CInv, WInv, RenamedIsBin, Whole, Sound, Ops, PutPCs, OldSize, Files
  <2> DEFINE m2 == [meta EXCEPT ![k] = m]
  <2>4. k \in Present(bin) /\ m2[k] = m
    BY <1>0, <2>1, <2>3 DEF Present
  <2>5. PreCount(m2, others) = PreCount(meta, others)
    <3>1. {i \in others : IsPre(m2[i])} = {i \in others : IsPre(meta[i])}
      BY <1>0, <2>1 DEF Present
    <3> QED BY <3>1 DEF PreCount
  <2>6. ~ DiskFaults => (IsPre(m2[k]) <=> op[t].pre)
    <3>1. op[t].blob \in Blobs /\ now \in Nat
      BY <1>0, <2>1, TInvIs DEF Sound, PutPCs, EnvTyped
    <3>2. ~ DiskFaults => IsPre(m) = op[t].pre
      BY <1>0, <2>1, <2>2, <2>3, <3>1, SidecarsAre DEF DirTyped
    <3> HIDE DEF m2, k
    <3> QED BY <2>4, <3>2
  <2> HIDE DEF m2, k
  <2>7. /\ Bytes(bin, Present(bin)) = Bytes(bin, others) + bin[k].size
        /\ Cardinality(Present(bin)) = Cardinality(others) + 1
        /\ PreCount(m2, Present(bin)) = PreCount(m2, others) + Bit(IsPre(m2[k]))
        /\ Bytes(bin, others) \in Nat /\ Cardinality(others) \in Nat /\ PreCount(m2, others) \in Nat
    <3>1. Sized(bin) /\ k \in Present(bin)
      BY <1>0, <2>4
    <3> QED BY ONLY <3>1, OneTaken
  <2>8. /\ bytes = Bytes(bin, others) + OldSize(t) /\ entries = Cardinality(others) + Bit(op[t].seen # None)
        /\ ~ DiskFaults => prefetched = PreCount(meta, others) + Bit(op[t].oldPre)
    BY <2>3 DEF PutCounts, k
  <2> HIDE DEF others
  <2>9. c = Bytes(bin, Present(bin)) /\ e = Cardinality(Present(bin)) /\ p \in Nat
    BY <1>0, <2>3, <2>7, <2>8 DEF AtLeast0, Bit
  <2>10. ~ DiskFaults => p = PreCount(m2, Present(bin))
    <3>1. ~ DiskFaults => Bit(IsPre(m2[k])) = Bit(op[t].pre)
      BY <2>6 DEF Bit
    <3>2. Bit(op[t].pre) \in Nat /\ Bit(op[t].oldPre) \in Nat
      BY DEF Bit
    <3> QED BY <2>5, <2>7, <2>8, <3>1, <3>2 DEF AtLeast0
  <2> HIDE DEF c, e, p
  <2>11. EvictFrom(bin, m2, Bytes(bin, Present(bin)), Cardinality(Present(bin)), p)
    BY <2>2, <2>9 DEF m2
  <2>12. /\ bytes' = Bytes(bin', Present(bin')) /\ bytes' <= Cap /\ entries' = Cardinality(Present(bin'))
         /\ p = PreCount(m2, Present(bin)) => prefetched' = PreCount(meta', Present(bin'))
         /\ Bytes(bin, Present(bin)) <= Cap => Present(bin') = Present(bin)
    BY <1>0, <2>9, <2>11, EvictAgrees
  <2>13. Agree(bytes', entries', prefetched', bin', meta')
    BY <2>10, <2>12 DEF Agree
  <2>14. \A u \in Threads : op'[u].pc \notin Held
    BY <1>0, <2>1, IdleSound DEF Held
  <2>15. CInv'
    BY <2>1, <2>13, <2>14 DEF CInv, Held
  <2>16. KeepsStep
    BY <2>12 DEF KeepsStep, Present
  <2> QED BY <2>15, <2>16 DEF Counted
<1> QED BY <1>1, <1>2, <1>3, <1>4, <1>5, <1>6, <1>7 DEF PutStep

LEMMA LookCounted ==
    ASSUME TInv, CInv, DropsItsEntry, NEW t \in Threads,
           LookStep(t) \/ \E k \in Keys, kind \in {"has", "get"} : Look(t, kind, k)
    PROVE  Counted
<1>0. /\ Sized(bin) /\ Sound(op[t]) /\ op = [u \in Threads |-> op[u]]
      /\ lock \in Threads \cup {None} /\ None \notin Threads
      /\ meta \in [Keys -> Metas \cup {None, Garbled}] /\ now \in Nat
      /\ \A u \in Threads : op[u].pc \in Held <=> lock = u
      /\ \A u \in Threads : op[u].pc # "idle" => op[u].key \in Keys
      /\ op[t].pc # "idle" => up
      /\ bytes \in Nat /\ entries \in Nat /\ prefetched \in Nat
  BY FileCacheAssumption, TInvIs DEF DirTyped, Sound, CountTyped, CallsEnd, Idle, EnvTyped
<1> DEFINE k == op[t].key
           missed == [op[t] EXCEPT !.pc = "miss", !.seen = None]
<1>a. ASSUME NEW r, op' = [op EXCEPT ![t] = r], op[t].pc \notin Held, r.pc \notin Held
      PROVE  \A u \in Threads : op[u].pc \in Held \/ op'[u].pc \in Held => op'[u] = op[u]
  BY <1>0, <1>a
<1>m. missed.pc = "miss"
  BY <1>0 DEF Sound, Ops
<1>t. ASSUME NEW j \in Keys, bin' = Touched(j)
      PROVE  \A i \in Keys : (bin'[i] = None <=> bin[i] = None) /\ (bin'[i] # None => bin'[i].size = bin[i].size)
  <2> SUFFICES ASSUME NEW i \in Keys
               PROVE  (bin'[i] = None <=> bin[i] = None) /\ (bin'[i] # None => bin'[i].size = bin[i].size)
    OBVIOUS
  <2>1. bin'[i] = IF i = j /\ bin[i] # None THEN [bin[i] EXCEPT !.mtime = now] ELSE bin[i]
    BY <1>0, <1>t DEF Touched, Sized
  <2>2. bin[i] # None => bin[i] \in Files /\ [bin[i] EXCEPT !.mtime = now] \in Files
    BY <1>0 DEF Sized, Files
  <2> QED BY <2>1, <2>2, FileCacheAssumption DEF Files
<1>1. ASSUME NEW j \in Keys, NEW kind \in {"has", "get"}, Look(t, kind, j) PROVE Counted
  <2> DEFINE r == [Idle EXCEPT !.pc = IF bin[j] = None THEN "miss" ELSE "viewed",
                               !.kind = kind, !.key = j, !.seen = bin[j]]
  <2>1. op' = [op EXCEPT ![t] = r] /\ op[t].pc \notin Held /\ UNCHANGED <<counters, lock, up, meta, bin>>
    BY <1>1 DEF Look, Held, env, disk
  <2>2. r.pc \notin Held
    BY DEF Idle, Held
  <2> HIDE DEF r
  <2> QED BY <1>0, <1>a, <2>1, <2>2, CountersStay
<1>2. ASSUME LookNoMeta(t) PROVE Counted
  <2>1. op' = [op EXCEPT ![t] = missed] /\ op[t].pc \notin Held /\ UNCHANGED <<counters, lock, up, meta, bin>>
    BY <1>2 DEF LookNoMeta, Miss, Held, env, disk
  <2>2. missed.pc \notin Held
    BY <1>m DEF Held
  <2> HIDE DEF missed
  <2> QED BY <1>0, <1>a, <2>1, <2>2, CountersStay
<1>3. ASSUME LookExpired(t) PROVE Counted
  <2> DEFINE r == [op[t] EXCEPT !.pc = "dropping", !.pre = meta[k].pre]
  <2>1. op' = [op EXCEPT ![t] = r] /\ op[t].pc \notin Held /\ UNCHANGED <<counters, lock, up, meta, bin>>
    BY <1>3 DEF LookExpired, Held, env, disk
  <2>2. r.pc \notin Held
    BY <1>0 DEF Held, Sound, Ops
  <2> HIDE DEF r
  <2> QED BY <1>0, <1>a, <2>1, <2>2, CountersStay
<1>4. ASSUME LookHit(t) PROVE Counted
  <2> DEFINE r == [op[t] EXCEPT !.pc = "hit"]
  <2>1. /\ op' = [op EXCEPT ![t] = r] /\ op[t].pc \notin Held /\ UNCHANGED <<counters, lock, up, meta>>
        /\ bin' \in {Touched(k), bin} /\ k \in Keys
    BY <1>0, <1>4 DEF LookHit, Held, env
  <2>2. r.pc \notin Held
    BY <1>0 DEF Held, Sound, Ops
  <2>3. \A i \in Keys : (bin'[i] = None <=> bin[i] = None) /\ (bin'[i] # None => bin'[i].size = bin[i].size)
    BY <1>t, <2>1
  <2> HIDE DEF r
  <2> QED BY <1>0, <1>a, <2>1, <2>2, <2>3, CountersStay
<1>5. ASSUME DropBin(t) PROVE Counted
  <2> DEFINE r == [op[t] EXCEPT !.pc = "dropped"]
             others == Present(bin) \ {k}
  <2>1. /\ op' = [op EXCEPT ![t] = r] /\ op[t].pc = "dropping" /\ lock = None /\ lock' = t /\ UNCHANGED <<counters, up, meta>>
        /\ bin' = [bin EXCEPT ![k] = None] /\ k \in Keys /\ up
    BY <1>0, <1>5 DEF DropBin, env
  <2>2. r.pc = "dropped" /\ r.key = k /\ r.seen = op[t].seen /\ r.pre = op[t].pre
    BY <1>0 DEF Sound, Ops
  <2> HIDE DEF r
  <2>3. op'[t] = r /\ \A u \in Threads \ {t} : op'[u].pc \notin Held
    BY <1>0, <2>1
  <2>4. k \in ExpiredKeys /\ bin[k].size = op[t].seen.size /\ (IsPre(meta[k]) <=> op[t].pre)
    BY <1>5 DEF DropsItsEntry
  <2>5. k \in Present(bin) /\ Bit(IsPre(meta[k])) = Bit(op[t].pre)
    BY <2>4 DEF ExpiredKeys, Bit
  <2>6. bin'[k] = None /\ \A i \in Keys \ {k} : bin'[i] = bin[i]
    BY <1>0, <2>1 DEF Sized
  <2>7. Present(bin') = others
    BY <2>6 DEF Present
  <2>8. Bytes(bin', others) = Bytes(bin, others)
    <3>1. \A i \in others : bin'[i].size = bin[i].size
      BY <2>6 DEF Present
    <3> QED BY <3>1, BytesSame
  <2>9. Agree(bytes, entries, prefetched, bin, meta)
    BY <2>1 DEF CInv
  <2>10. KeepsStep
    BY <2>4, <2>6 DEF KeepsStep, Present
  <2> HIDE DEF k
  <2>11. /\ Bytes(bin, Present(bin)) = Bytes(bin, others) + bin[k].size
         /\ Cardinality(Present(bin)) = Cardinality(others) + 1
         /\ PreCount(meta, Present(bin)) = PreCount(meta, others) + Bit(IsPre(meta[k]))
         /\ Bytes(bin, others) \in Nat /\ Cardinality(others) \in Nat /\ PreCount(meta, others) \in Nat /\ bin[k].size \in Nat
    <3>1. Sized(bin) /\ k \in Present(bin)
      BY <1>0, <2>5
    <3> QED BY ONLY <3>1, OneTaken
  <2>12. Bit(op[t].pre) \in Nat
    BY DEF Bit
  <2> HIDE DEF others
  <2>13. /\ bytes - op[t].seen.size = Bytes(bin', others) /\ bytes - op[t].seen.size <= Cap
         /\ entries - 1 = Cardinality(others)
         /\ ~ DiskFaults => prefetched - Bit(op[t].pre) = PreCount(meta, others)
    BY <2>4, <2>5, <2>8, <2>9, <2>11, <2>12, FileCacheAssumption DEF Agree
  <2>14. DropCounts(t)'
    BY <2>1, <2>2, <2>3, <2>6, <2>7, <2>13 DEF DropCounts, Agree, counters
  <2>15. CInv'
    BY <1>0, <2>1, <2>2, <2>3, <2>14 DEF CInv, Held
  <2> QED BY <2>10, <2>15 DEF Counted
<1>6. ASSUME DropMeta(t) PROVE Counted
  <2>1. /\ op' = [op EXCEPT ![t] = missed] /\ op[t].pc = "dropped" /\ UNCHANGED <<up, bin>> /\ lock' = None
        /\ meta' = [meta EXCEPT ![k] = None] /\ k \in Keys /\ up
        /\ bytes' = AtLeast0(bytes - op[t].seen.size) /\ entries' = AtLeast0(entries - 1)
        /\ prefetched' = AtLeast0(prefetched - Bit(op[t].pre))
    BY <1>0, <1>6 DEF DropMeta, env
  <2>2. \A u \in Threads : op'[u].pc \notin Held
    BY <1>0, <1>m, <2>1 DEF Held
  <2>3. bin[k] = None /\ Agree(bytes - op[t].seen.size, entries - 1, prefetched - Bit(op[t].pre), bin, meta)
    BY <2>1 DEF CInv, DropCounts
  <2>4. PreCount(meta', Present(bin)) = PreCount(meta, Present(bin))
    <3>1. {i \in Present(bin) : IsPre(meta'[i])} = {i \in Present(bin) : IsPre(meta[i])}
      BY <1>0, <2>1, <2>3 DEF Present
    <3> QED BY <3>1 DEF PreCount
  <2>5. Bytes(bin, Present(bin)) \in Nat /\ Cardinality(Present(bin)) \in Nat /\ PreCount(meta, Present(bin)) \in Nat
    BY <1>0, TotalsNat
  <2>6. /\ bytes' = Bytes(bin, Present(bin)) /\ bytes' <= Cap /\ entries' = Cardinality(Present(bin))
        /\ ~ DiskFaults => prefetched' = PreCount(meta', Present(bin))
    BY <2>1, <2>3, <2>4, <2>5 DEF Agree, AtLeast0
  <2>7. CInv'
    BY <2>1, <2>2, <2>6 DEF CInv, Agree, Held
  <2>8. KeepsStep
    BY <2>1 DEF KeepsStep, Present
  <2> QED BY <2>7, <2>8 DEF Counted
<1>7. ASSUME LookReturn(t) PROVE Counted
  <2>1. /\ op' = [op EXCEPT ![t] = Idle] /\ op[t].pc \notin Held /\ UNCHANGED <<counters, lock, up, meta>>
        /\ bin' \in {Touched(k), bin} /\ k \in Keys
    BY <1>0, <1>7 DEF LookReturn, Held, env
  <2>2. Idle.pc \notin Held
    BY IdleSound DEF Held
  <2>3. \A i \in Keys : (bin'[i] = None <=> bin[i] = None) /\ (bin'[i] # None => bin'[i].size = bin[i].size)
    BY <1>t, <2>1
  <2> QED BY <1>0, <1>a, <2>1, <2>2, <2>3, CountersStay
<1> QED BY <1>1, <1>2, <1>3, <1>4, <1>5, <1>6, <1>7 DEF LookStep

LEMMA SweepCounted ==
    ASSUME TInv, CInv, Sweep
    PROVE  Counted
<1> DEFINE gone == ExpiredKeys
           b == Without(bin, gone)
           m == Without(meta, gone)
           left == Present(bin) \ gone
<1>1. /\ EvictFrom(b, m, AtLeast0(bytes - Bytes(bin, gone)), AtLeast0(entries - Cardinality(gone)),
                   AtLeast0(prefetched - PreCount(meta, gone)))
      /\ up /\ lock = None /\ UNCHANGED <<up, lock, op>>
  BY DEF Sweep, env
<1>2. Sized(bin) /\ Sized(b) /\ gone \in SUBSET Present(bin) /\ left \in SUBSET Present(bin)
  BY TInvIs, LessTyped DEF DirTyped, ExpiredKeys
<1>3. Agree(bytes, entries, prefetched, bin, meta)
  BY <1>1 DEF CInv
<1>4. /\ Present(b) = left
      /\ Bytes(b, left) = Bytes(bin, Present(bin)) - Bytes(bin, gone)
      /\ Cardinality(left) = Cardinality(Present(bin)) - Cardinality(gone)
      /\ PreCount(m, left) = PreCount(meta, Present(bin)) - PreCount(meta, gone)
  BY <1>2, TakenAway
<1>5. Bytes(bin, gone) \in Nat /\ Cardinality(gone) \in Nat /\ PreCount(meta, gone) \in Nat
  BY <1>2, TotalsNat
<1>6. Bytes(b, left) \in Nat /\ Cardinality(left) \in Nat /\ PreCount(m, left) \in Nat
  BY <1>2, <1>4, TotalsNat
<1> DEFINE p == AtLeast0(prefetched - PreCount(meta, gone))
<1>7. \A k \in Keys : bin'[k] \in {b[k], None}
  BY <1>1, EvictLess
<1>8. ~ (\E u \in Threads : op'[u].pc \in Held)
  BY <1>1, FileCacheAssumption, TInvIs
<1>9. \A k \in Present(bin) \ gone : b[k] = bin[k] /\ k \in Keys
  BY DEF Without, Present
<1>p. prefetched \in Nat
  BY TInvIs DEF CountTyped
<1> HIDE DEF b, m, gone, left
<1>10. /\ AtLeast0(bytes - Bytes(bin, gone)) = Bytes(b, Present(b)) /\ Bytes(b, Present(b)) <= Cap
       /\ AtLeast0(entries - Cardinality(gone)) = Cardinality(Present(b))
       /\ ~ DiskFaults => p = PreCount(m, Present(b))
  <2>1. /\ bytes = Bytes(bin, Present(bin)) /\ entries = Cardinality(Present(bin)) /\ bytes <= Cap /\ Cap \in Nat
        /\ ~ DiskFaults => prefetched = PreCount(meta, Present(bin))
    BY <1>3, FileCacheAssumption DEF Agree
  <2>2. bytes \in Nat
    BY TInvIs DEF CountTyped
  <2>3. Bytes(b, left) = bytes - Bytes(bin, gone) /\ Cardinality(left) = entries - Cardinality(gone)
    BY <1>4, <2>1
  <2>4. ~ DiskFaults => PreCount(m, left) = prefetched - PreCount(meta, gone)
    BY <1>4, <2>1
  <2>5. AtLeast0(bytes - Bytes(bin, gone)) = Bytes(b, left) /\ Bytes(b, left) <= Cap
    BY <1>5, <1>6, <2>1, <2>2, <2>3 DEF AtLeast0
  <2>6. AtLeast0(entries - Cardinality(gone)) = Cardinality(left)
    BY <1>6, <2>3 DEF AtLeast0
  <2>7. ~ DiskFaults => AtLeast0(prefetched - PreCount(meta, gone)) = PreCount(m, left)
    BY <1>6, <2>4 DEF AtLeast0
  <2>8. Present(b) = left
    BY <1>4
  <2> QED BY ONLY <2>5, <2>6, <2>7, <2>8 DEF p
<1>11. p \in Nat
  BY <1>5, <1>p DEF AtLeast0
<1> HIDE DEF p
<1>12. EvictFrom(b, m, Bytes(b, Present(b)), Cardinality(Present(b)), p)
  BY <1>1, <1>10 DEF p
<1>13. /\ bytes' = Bytes(bin', Present(bin')) /\ bytes' <= Cap /\ entries' = Cardinality(Present(bin'))
       /\ p = PreCount(m, Present(b)) => prefetched' = PreCount(meta', Present(bin'))
       /\ Bytes(b, Present(b)) <= Cap => Present(bin') = Present(b)
  BY <1>2, <1>11, <1>12, EvictAgrees
<1>14. CInv'
  BY <1>1, <1>8, <1>10, <1>13 DEF CInv, Agree, Held
<1>15. KeepsStep
  <2> SUFFICES ASSUME NEW k \in Present(bin), k \notin gone PROVE bin'[k] # None
    BY DEF KeepsStep, gone
  <2>1. k \in Present(bin')
    BY <1>4, <1>10, <1>13 DEF left
  <2> QED BY <2>1 DEF Present
<1> QED BY <1>14, <1>15 DEF Counted

LEMMA InitCounted == Init => CInv
<1> SUFFICES ASSUME Init PROVE CInv
  OBVIOUS
<1>1. Present(bin) = {} /\ \A t \in Threads : op[t] = Idle
  BY DEF Init, Present
<1>2. Bytes(bin, {}) = 0 /\ Cardinality({}) = 0
  BY BytesOfNone, FS_EmptySet
<1>3. PreCount(meta, {}) = 0
  <2>1. {k \in {} : IsPre(meta[k])} = {}
    OBVIOUS
  <2> QED BY <1>2, <2>1 DEF PreCount
<1>4. bytes = 0 /\ entries = 0 /\ prefetched = 0 /\ 0 <= Cap
  BY FileCacheAssumption DEF Init
<1> QED BY <1>1, <1>2, <1>3, <1>4, IdleSound DEF CInv, Agree

LEMMA NextCounted ==
    ASSUME PutsSerialised, TInv, WInv, CInv, [Next]_vars, [DropsItsEntry]_vars
    PROVE  Counted
<1>s. ASSUME bin' = bin, UNCHANGED <<counters, lock, up, meta, op>> PROVE Counted
  <2>1. \A u \in Threads : op[u].pc # "idle" => op[u].key \in Keys
    BY TInvIs DEF Sound
  <2> QED BY <1>s, <2>1, CountersStay
<1>1. CASE UNCHANGED vars
  BY <1>1, <1>s DEF vars, env, disk
<1>2. CASE DropsItsEntry /\ Next
  <2>1. CASE \E t \in Threads, k \in Keys :
                \/ \E b \in Blobs, pre \in BOOLEAN : PutOpen(t, k, b, pre)
                \/ \E kind \in {"has", "get"} : Look(t, kind, k)
    BY <1>2, <2>1, PutCounted, LookCounted
  <2>2. CASE \E t \in Threads : PutStep(t) \/ LookStep(t)
    BY <1>2, <2>2, PutCounted, LookCounted
  <2>3. CASE Sweep
    BY <2>3, SweepCounted
  <2>4. CASE Tick
    BY <1>s, <2>4 DEF Tick, disk
  <2>5. CASE Crash
    BY <2>5 DEF Crash, Counted, CInv, KeepsStep
  <2>6. CASE Recover
    <3>1. ~ up /\ lock' = lock /\ op' = op
      BY <2>6 DEF Recover
    <3>2. lock = None /\ \A t \in Threads : op[t] = Idle
      BY <3>1 DEF TInv, CallsEnd
    <3>3. Agree(bytes', entries', prefetched', bin', meta')
      BY <2>6, RecoverAgrees DEF Agree
    <3> QED BY <3>1, <3>2, <3>3, IdleSound DEF Counted, CInv, KeepsStep
  <2> QED BY <1>2, <2>1, <2>2, <2>3, <2>4, <2>5, <2>6 DEF Next
<1> QED BY <1>1, <1>2

(* The behaviours in which a reader removes what it found expired.  What   *)
(* follows are safety properties: a run has them at least up to its first  *)
(* step in which a reader removes another entry.                           *)
TidySpec == Spec /\ [][DropsItsEntry]_vars

(* In them the counters agree with the directory, or differ from it by     *)
(* what the call inside its critical section has yet to count.             *)
THEOREM AlwaysCounted == ASSUME PutsSerialised PROVE TidySpec => [](TInv /\ WInv /\ CInv)
<1>1. TInv /\ WInv /\ CInv /\ [Next]_vars /\ [DropsItsEntry]_vars => CInv'
  BY NextCounted DEF Counted
<1> QED BY <1>1, InitCounted, AlwaysWhole, PTL DEF Spec, TidySpec

(* Where the callers keep the Puts of a key apart and every reader removes *)
(* the entry it found expired, the files never take more than the cap when *)
(* the mutex is free.                                                      *)
THEOREM CapHolds == ASSUME PutsSerialised PROVE TidySpec => []CapRespected
<1>1. CInv => CapRespected
  BY DEF CInv, Agree, CapRespected
<1> QED BY <1>1, AlwaysCounted, PTL

(* There, if no write of a sidecar fails, the three counters agree with    *)
(* the directory whenever the mutex is free.                               *)
THEOREM CountersAreExact == ASSUME PutsSerialised, ~ DiskFaults PROVE TidySpec => []CountersExact
<1>1. CInv => CountersExact
  BY DEF CInv, Agree, CountersExact
<1> QED BY <1>1, AlwaysCounted, PTL

(* There an entry that is not expired leaves the cache only when the files *)
(* are over the cap: in no step of a Put, a reader or the sweeper.         *)
THEOREM NothingElseIsLost == ASSUME PutsSerialised PROVE TidySpec => KeepsWhatFits
<1>1. TInv /\ WInv /\ CInv /\ [Next]_vars /\ [DropsItsEntry]_vars =>
        [up /\ up' /\ Bytes(bin, Present(bin)) <= Cap =>
            \A k \in Present(bin) : bin'[k] = None => k \in ExpiredKeys]_vars
  BY NextCounted DEF Counted, KeepsStep
<1> QED BY <1>1, AlwaysCounted, PTL DEF Spec, TidySpec, KeepsWhatFits
-----------------------------------------------------------------------------
(* In a run shorter than the time to live nothing expires, no reader drops *)
(* an entry, and the three theorems hold without a condition on readers.   *)

NoneDrops == \A t \in Threads : op[t].pc # "dropping"

LEMMA NothingIsOld ==
    ASSUME MaxTime <= TTL, TInv
    PROVE  \A time \in Nat : ~ Old(time)
<1>1. now \in Nat /\ now <= MaxTime /\ MaxTime \in Nat /\ TTL \in Nat
  BY FileCacheAssumption, TInvIs DEF EnvTyped
<1> QED BY <1>1 DEF Old

LEMMA NobodyFindsOld ==
    ASSUME MaxTime <= TTL, TInv, NEW t \in Threads
    PROVE  ~ LookExpired(t)
<1> SUFFICES ASSUME LookExpired(t) PROVE FALSE
  OBVIOUS
<1>1. op[t].pc = "viewed" /\ Expired(t)
  BY DEF LookExpired
<1>2. op[t].key \in Keys /\ op[t].seen \in Files
  BY <1>1, TInvIs DEF Sound, LookPCs
<1>3. IsMeta(meta[op[t].key]) => meta[op[t].key].storedAt \in Nat
  BY <1>2, TInvIs DEF DirTyped, IsMeta, Metas
<1>4. ExpiryFile(t) # None => ExpiryFile(t).mtime \in Nat
  BY <1>2, TInvIs DEF DirTyped, Sized, ExpiryFile, Files
<1> QED BY <1>1, <1>3, <1>4, NothingIsOld DEF Expired, OldMeta

LEMMA NobodyDrops ==
    ASSUME MaxTime <= TTL, TInv, NoneDrops, [Next]_vars
    PROVE  NoneDrops'
<1>0. /\ op = [t \in Threads |-> op[t]]
      /\ \A t \in Threads : op[t].pc # "dropping" /\ op[t] \in Ops
  BY TInvIs DEF NoneDrops, Sound
<1>1. ASSUME NEW t \in Threads, NEW k \in Keys, NEW b \in Blobs, NEW pre \in BOOLEAN, PutOpen(t, k, b, pre)
      PROVE  NoneDrops'
  BY <1>0, <1>1 DEF PutOpen, NoneDrops, Idle
<1>2. ASSUME NEW t \in Threads, NEW k \in Keys, NEW kind \in {"has", "get"}, Look(t, kind, k)
      PROVE  NoneDrops'
  BY <1>0, <1>2 DEF Look, NoneDrops, Idle
<1>3. ASSUME NEW t \in Threads, PutStep(t) PROVE NoneDrops'
  BY <1>0, <1>3 DEF PutStep, PutWrite, PutWriteFails, PutRename, PutRenameFails, PutMetaOpen, PutFinish,
                    NoneDrops, Idle, Ops
<1>4. ASSUME NEW t \in Threads, LookStep(t) PROVE NoneDrops'
  <2>1. ~ LookExpired(t)
    BY NobodyFindsOld
  <2> QED
    BY <1>0, <1>4, <2>1 DEF LookStep, LookNoMeta, LookHit, DropBin, DropMeta, LookReturn, Miss, NoneDrops, Idle, Ops
<1>5. ASSUME Sweep \/ Tick \/ Crash \/ Recover \/ UNCHANGED vars PROVE NoneDrops'
  BY <1>0, <1>5 DEF Sweep, Tick, Crash, Recover, vars, NoneDrops, Idle
<1> QED BY <1>1, <1>2, <1>3, <1>4, <1>5 DEF Next

LEMMA YoungIsTidy == ASSUME MaxTime <= TTL PROVE Spec => TidySpec
<1>1. Init => NoneDrops
  BY DEF Init, NoneDrops, Idle
<1>2. TInv /\ NoneDrops /\ [Next]_vars => NoneDrops'
  BY NobodyDrops
<1>3. NoneDrops => [DropsItsEntry]_vars
  BY DEF NoneDrops, DropsItsEntry, DropBin
<1> QED BY <1>1, <1>2, <1>3, AlwaysTyped, PTL DEF Spec, TidySpec

(* In a run no longer than the time to live the cap is respected and, if   *)
(* no write of a sidecar fails, the counters agree with the directory, for *)
(* any goroutines, keys and blobs, with no condition on the readers.       *)
THEOREM YoungIsExact ==
    ASSUME PutsSerialised, MaxTime <= TTL
    PROVE  Spec => [](CapRespected /\ (~ DiskFaults => CountersExact))
<1>1. CInv => CapRespected /\ (~ DiskFaults => CountersExact)
  BY DEF CInv, Agree, CapRespected, CountersExact
<1> QED BY <1>1, AlwaysCounted, YoungIsTidy, PTL
=============================================================================
