------------------------------ MODULE Ingestion ------------------------------
(***************************************************************************)
(* From an uploaded image to the evidence of a case.  Three processes      *)
(* share the object store: an uploader copies originals into it            *)
(* (put_original_immutable), the routes of the API register them as assets *)
(* and pairs (ingest_asset, create_image_pair, over the PostgreSQL         *)
(* repository), and a job's thread reads them again (_process_job).        *)
(*                                                                         *)
(* A hash is the bytes it was taken of.  While a copy is in progress, and  *)
(* for ever after a copy that failed, the object holds a part of its       *)
(* content, which has a hash of its own and cannot be decoded.             *)
(***************************************************************************)
EXTENDS Naturals

CONSTANTS
  Keys,             \* object keys
  Contents,         \* images
  RejectedContents, \* those of rejected metadata or quality
  Municipalities,
  Captures,         \* capture times the client may state
  Nothing,          \* no object, no asset, no upload
  MaxCalls,         \* bound: calls of the two routes
  MaxFaults,        \* bound: transactions that raise
  MaxCrashes        \* bound: stops of the API process

VARIABLES
  objects,   \* the original root, by key
  upload,    \* the key the uploader is copying to
  rows,      \* tables imagery_assets and image_pairs
  mem,       \* repository.assets and repository.pairs
  route,     \* the route in progress
  job,       \* the pair that a thread has analysed, and what it read
  cases,     \* published: pair, images analysed, hash in the source evidence
  acked,     \* history: assets and pairs returned to clients
  calls, faults, crashes

vars == <<objects, upload, rows, mem, route, job, cases, acked, calls, faults, crashes>>
bounds == <<calls, faults, crashes>>

Bytes(c, whole) == [content |-> c, whole |-> whole]
Hashes == [content : Contents, whole : BOOLEAN]

\* deterministic_id("asset", municipality, hash)
AssetIds == Municipalities \X Hashes
HashOf(id) == id[2]

\* The stamp stands for ingested_at or created_at: no two calls share it.
Asset(id, k, t, stamp) == [id |-> id, key |-> k, captured |-> t, stamp |-> stamp]
Pair(old, new, stamp) == [old |-> old, new |-> new, stamp |-> stamp]

AssetRecord == [id : AssetIds, key : Keys, captured : Captures, stamp : Nat]
PairRecord == [old : AssetIds, new : AssetIds, stamp : Nat]

ASSUME IngestionAssumption ==
  /\ Captures \subseteq Nat
  /\ RejectedContents \subseteq Contents
  /\ Nothing \notin AssetRecord \cup Hashes

PairsOf(store, old, new) == {p \in store.pairs : p.old = old /\ p.new = new}

Idle == [pc |-> "idle", what |-> Nothing]
At(pc, what) == [pc |-> pc, what |-> what]
NoJob == [pair |-> Nothing, old |-> Nothing, new |-> Nothing]

Empty == [assets |-> [id \in AssetIds |-> Nothing], pairs |-> {}]

Stores == [assets : [AssetIds -> AssetRecord \cup {Nothing}], pairs : SUBSET PairRecord]
OpenRoute == [pc : {"read", "store_asset", "index_asset"}, what : AssetRecord]
             \cup [pc : {"store_pair", "index_pair"}, what : PairRecord]

TypeOK ==
  /\ objects \in [Keys -> Hashes \cup {Nothing}]
  /\ upload \in Keys \cup {Nothing}
  /\ upload # Nothing => objects[upload] \in Hashes
  /\ rows \in Stores /\ mem \in Stores
  /\ \A id \in AssetIds : mem.assets[id] # Nothing => mem.assets[id].id = id
  /\ route \in OpenRoute \cup {Idle}
  /\ acked \in [assets : SUBSET AssetRecord, pairs : SUBSET PairRecord]
  /\ job = NoJob \/ job.pair \in mem.pairs
  /\ calls \in Nat

Init ==
  /\ objects = [k \in Keys |-> Nothing]
  /\ upload = Nothing
  /\ rows = Empty /\ mem = Empty
  /\ route = Idle
  /\ job = NoJob
  /\ cases = {}
  /\ acked = [assets |-> {}, pairs |-> {}]
  /\ calls = 0 /\ faults = 0 /\ crashes = 0

-----------------------------------------------------------------------------
(* put_original_immutable.  An object that exists is compared, and never   *)
(* written.                                                                *)

Put(k, c) ==
  /\ upload = Nothing
  /\ objects[k] = Nothing
  /\ objects' = [objects EXCEPT ![k] = Bytes(c, FALSE)]
  /\ upload' = k
  /\ UNCHANGED <<rows, mem, route, job, cases, acked, bounds>>

\* copyfile ends, or raises and leaves what it has written.
CopyEnds ==
  /\ upload # Nothing
  /\ objects' = [objects EXCEPT ![upload].whole = TRUE] \/ UNCHANGED objects
  /\ upload' = Nothing
  /\ UNCHANGED <<rows, mem, route, job, cases, acked, bounds>>

-----------------------------------------------------------------------------
(* The durable repository: immutable rows, then memory.                    *)

Transaction(after, conflict, next) ==
  \/ /\ ~conflict
     /\ rows' = after
     /\ route' = next
     /\ UNCHANGED faults
  \/ /\ conflict
     /\ route' = Idle
     /\ UNCHANGED <<rows, faults>>
  \/ /\ faults < MaxFaults
     /\ faults' = faults + 1
     /\ route' = Idle
     /\ rows' \in {rows} \cup (IF conflict THEN {} ELSE {after})

Begin ==
  /\ route = Idle
  /\ calls < MaxCalls
  /\ calls' = calls + 1
  /\ UNCHANGED <<objects, upload, rows, mem, job, cases, faults, crashes>>

\* ingest_asset: the ingestor takes the hash of the file ...
IngestHash(k, m, t) ==
  /\ Begin
  /\ objects[k] # Nothing
  /\ route' = At("read", Asset(<<m, objects[k]>>, k, t, calls'))
  /\ UNCHANGED acked

\* ... and then decodes it.  An asset of that hash in that municipality is
\* returned if the key and the metadata are the same, and is an error if not.
IngestRead ==
  LET r == route.what
      known == mem.assets[r.id] IN
  /\ route.pc = "read"
  /\ IF ~objects[r.key].whole \/ objects[r.key].content \in RejectedContents
     THEN route' = Idle /\ UNCHANGED acked
     ELSE IF known = Nothing
     THEN route' = At("store_asset", r) /\ UNCHANGED acked
     ELSE /\ route' = Idle
          /\ acked' = IF known = [r EXCEPT !.stamp = known.stamp]
                      THEN [acked EXCEPT !.assets = @ \cup {known}] ELSE acked
  /\ UNCHANGED <<objects, upload, rows, mem, job, cases, bounds>>

\* Fault: the row is replaced.
StoreAssetReplacing ==
  /\ route.pc = "store_asset"
  /\ Transaction([rows EXCEPT !.assets[route.what.id] = route.what], FALSE,
                 At("index_asset", route.what))
  /\ UNCHANGED <<objects, upload, mem, job, cases, acked, calls, crashes>>

\* Fault: an exception of the transaction is ignored.
StoreAssetSwallowing ==
  /\ route.pc = "store_asset"
  /\ route' = At("index_asset", route.what)
  /\ rows.assets[route.what.id] = Nothing
  /\ \/ rows' = [rows EXCEPT !.assets[route.what.id] = route.what] /\ UNCHANGED faults
     \/ faults < MaxFaults /\ faults' = faults + 1 /\ UNCHANGED rows
  /\ UNCHANGED <<objects, upload, mem, job, cases, acked, calls, crashes>>

\* save_asset
StoreAsset ==
  /\ route.pc = "store_asset"
  /\ Transaction([rows EXCEPT !.assets[route.what.id] = route.what],
                 rows.assets[route.what.id] # Nothing,
                 At("index_asset", route.what))
  /\ UNCHANGED <<objects, upload, mem, job, cases, acked, calls, crashes>>

\* Fault: the asset is indexed by its hash alone.
IndexAssetByHash ==
  /\ route.pc = "index_asset"
  /\ mem' = [mem EXCEPT !.assets =
       [id \in AssetIds |-> IF HashOf(id) = HashOf(route.what.id) THEN route.what ELSE @[id]]]
  /\ acked' = [acked EXCEPT !.assets = @ \cup {route.what}]
  /\ route' = Idle
  /\ UNCHANGED <<objects, upload, rows, job, cases, bounds>>

IndexAsset ==
  /\ route.pc = "index_asset"
  /\ mem' = [mem EXCEPT !.assets[route.what.id] = route.what]
  /\ acked' = [acked EXCEPT !.assets = @ \cup {route.what}]
  /\ route' = Idle
  /\ UNCHANGED <<objects, upload, rows, job, cases, bounds>>

\* Fault: the captures may be in any order.
PairableInAnyOrder(old, new) ==
  /\ mem.assets[old] # Nothing /\ mem.assets[new] # Nothing
  /\ old[1] = new[1]

\* The guards of create_image_pair.
Pairable(old, new) ==
  /\ mem.assets[old] # Nothing /\ mem.assets[new] # Nothing
  /\ old[1] = new[1]
  /\ mem.assets[old].captured < mem.assets[new].captured

CreatePair(old, new) ==
  LET known == PairsOf(mem, old, new) IN
  /\ Begin
  /\ Pairable(old, new)
  /\ IF known # {}
     THEN acked' = [acked EXCEPT !.pairs = @ \cup known] /\ UNCHANGED route
     ELSE route' = At("store_pair", Pair(old, new, calls')) /\ UNCHANGED acked

\* save_pair
StorePair ==
  /\ route.pc = "store_pair"
  /\ Transaction([rows EXCEPT !.pairs = @ \cup {route.what}],
                 PairsOf(rows, route.what.old, route.what.new) # {},
                 At("index_pair", route.what))
  /\ UNCHANGED <<objects, upload, mem, job, cases, acked, calls, crashes>>

IndexPair ==
  /\ route.pc = "index_pair"
  /\ mem' = [mem EXCEPT !.pairs = @ \cup {route.what}]
  /\ acked' = [acked EXCEPT !.pairs = @ \cup {route.what}]
  /\ route' = Idle
  /\ UNCHANGED <<objects, upload, rows, job, cases, bounds>>

-----------------------------------------------------------------------------
(* _process_job: the backend decodes both images; then the newer one is    *)
(* read again as evidence and compared with the hash of its asset.         *)

Stored(id) == objects[mem.assets[id].key]

Analyse(p) ==
  /\ job = NoJob
  /\ Stored(p.old).whole /\ Stored(p.new).whole
  /\ job' = [pair |-> p, old |-> Stored(p.old), new |-> Stored(p.new)]
  /\ UNCHANGED <<objects, upload, rows, mem, route, cases, acked, bounds>>

Case(j) == [pair |-> j.pair, new |-> j.new, evidence |-> HashOf(j.pair.new)]

\* Fault: the content of the evidence is not compared.
PublishUnverified ==
  /\ job # NoJob
  /\ cases' = cases \cup {Case(job)}
  /\ job' = NoJob
  /\ UNCHANGED <<objects, upload, rows, mem, route, acked, bounds>>

Publish ==
  /\ job # NoJob
  /\ cases' = IF Stored(job.pair.new) = HashOf(job.pair.new)
              THEN cases \cup {Case(job)} ELSE cases
  /\ job' = NoJob
  /\ UNCHANGED <<objects, upload, rows, mem, route, acked, bounds>>

-----------------------------------------------------------------------------
\* The API process stops; the next one loads the rows.
Crash ==
  /\ crashes < MaxCrashes
  /\ crashes' = crashes + 1
  /\ mem' = rows
  /\ route' = Idle
  /\ job' = NoJob
  /\ UNCHANGED <<objects, upload, rows, cases, acked, calls, faults>>

Next ==
  \/ \E k \in Keys, c \in Contents : Put(k, c)
  \/ CopyEnds
  \/ \E k \in Keys, m \in Municipalities, t \in Captures : IngestHash(k, m, t)
  \/ IngestRead \/ StoreAsset \/ IndexAsset
  \/ \E old, new \in AssetIds : CreatePair(old, new)
  \/ StorePair \/ IndexPair
  \/ \E p \in mem.pairs : Analyse(p)
  \/ Publish
  \/ Crash

Spec == Init /\ [][Next]_vars

-----------------------------------------------------------------------------
(* Properties.                                                             *)

Assets(store) == {store.assets[id] : id \in AssetIds} \ {Nothing}

(***************************************************************************)
(* The source evidence of a case is the stored object, whole, and the very *)
(* image that was analysed, although an asset may carry the hash of a copy *)
(* in progress and analysis checks no hash (_process_job).                 *)
(***************************************************************************)
EvidenceIsTheObject ==
  \A c \in cases :
    LET object == objects[rows.assets[c.pair.new].key] IN
    object = c.evidence /\ object = c.new /\ object.whole

(***************************************************************************)
(* An asset or a pair that was returned to a client keeps its record: it   *)
(* is in the tables and in memory at every moment after, over ambiguous    *)
(* commits, retries and restarts (ingest_asset, create_image_pair).        *)
(***************************************************************************)
ReturnedRecordsKept ==
  /\ acked.assets \subseteq Assets(rows) \cap Assets(mem)
  /\ acked.pairs \subseteq rows.pairs \cap mem.pairs

(***************************************************************************)
(* Memory serves nothing that the tables do not hold, a pair has both its  *)
(* assets in the tables, and these, as stored, are of one municipality and *)
(* in the order of their captures: what was checked in memory before the   *)
(* transaction is true of the rows after it.                               *)
(***************************************************************************)
PairsStandOnRows ==
  /\ Assets(mem) \subseteq Assets(rows) /\ mem.pairs \subseteq rows.pairs
  /\ \A p \in rows.pairs :
       /\ {rows.assets[p.old], rows.assets[p.new]} \subseteq Assets(rows)
       /\ p.old[1] = p.new[1]
       /\ rows.assets[p.old].captured < rows.assets[p.new].captured

(***************************************************************************)
(* A stored asset or pair is never changed, and there is one pair row for  *)
(* two assets, although a retry after an ambiguous commit builds a record  *)
(* with another time stamp (_insert_immutable).                            *)
(***************************************************************************)
RowsAreWriteOnce ==
  [][/\ Assets(rows) \subseteq Assets(rows')
     /\ rows.pairs \subseteq rows'.pairs
     /\ \A p, q \in rows'.pairs : p.old = q.old /\ p.new = q.new => p = q]_vars
=============================================================================
