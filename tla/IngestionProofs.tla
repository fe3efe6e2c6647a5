--------------------------- MODULE IngestionProofs ---------------------------
(***************************************************************************)
(* Proofs about Ingestion, for any number of keys, images, municipalities  *)
(* and capture times, and any number of calls, faults and crashes.         *)
(***************************************************************************)
EXTENDS Ingestion, TLAPS

(***************************************************************************)
(* The inductive invariant.  A client has only seen what memory holds, and *)
(* memory only holds what the tables hold; the tables never change what    *)
(* they hold.  Between its transaction and its write to memory a route     *)
(* carries a record that is in the tables already.                         *)
(***************************************************************************)

MemoryInv ==
  /\ \A id \in AssetIds : mem.assets[id] # Nothing => mem.assets[id] = rows.assets[id]
  /\ mem.pairs \subseteq rows.pairs

AckInv ==
  /\ \A r \in acked.assets : mem.assets[r.id] = r
  /\ acked.pairs \subseteq mem.pairs

\* What create_image_pair asks of a pair, said of the tables.
Sound(p) ==
  /\ rows.assets[p.old] # Nothing /\ rows.assets[p.new] # Nothing
  /\ p.old[1] = p.new[1]
  /\ rows.assets[p.old].captured < rows.assets[p.new].captured

RowInv ==
  /\ \A id \in AssetIds : rows.assets[id] # Nothing => rows.assets[id].id = id
  /\ \A p \in rows.pairs : Sound(p)
  /\ \A p, q \in rows.pairs : p.old = q.old /\ p.new = q.new => p = q

RouteInv ==
  /\ route.pc = "index_asset" => rows.assets[route.what.id] = route.what
  /\ route.pc = "index_pair" => route.what \in rows.pairs
  /\ route.pc \in {"store_pair", "index_pair"} => Sound(route.what)

IInv == TypeOK /\ MemoryInv /\ AckInv /\ RowInv /\ RouteInv

-----------------------------------------------------------------------------
(* What the steps have in common.                                          *)

\* A transaction is done, with its caller going on or not, or not done.
LEMMA TransactionOutcomes ==
  ASSUME NEW after, NEW conflict, NEW next, Transaction(after, conflict, next)
  PROVE  \/ ~conflict /\ rows' = after /\ route' \in {next, Idle}
         \/ rows' = rows /\ route' = Idle
  BY DEF Transaction

\* The record an open route carries.
LEMMA RouteTyped ==
  ASSUME TypeOK
  PROVE  /\ route.pc \in {"read", "store_asset", "index_asset"} =>
              route.what \in AssetRecord /\ route.what.id \in AssetIds
         /\ route.pc \in {"store_pair", "index_pair"} =>
              /\ route.what \in PairRecord
              /\ route.what.old \in AssetIds /\ route.what.new \in AssetIds
<1>1. Idle.pc = "idle"
  BY DEF Idle
<1>2. route = Idle \/ route \in OpenRoute
  BY DEF TypeOK
<1> QED
  BY <1>1, <1>2 DEF OpenRoute, AssetRecord, PairRecord

\* A record and the place of a route make an open route.
LEMMA AtTyped ==
  /\ \A r \in AssetRecord : \A pc \in {"read", "store_asset", "index_asset"} :
       At(pc, r) \in OpenRoute
  /\ \A p \in PairRecord : \A pc \in {"store_pair", "index_pair"} : At(pc, p) \in OpenRoute
  BY DEF At, OpenRoute

\* The tables change by one new row at most.
RowStep ==
  \/ UNCHANGED rows
  \/ /\ route.pc = "store_asset" /\ rows.assets[route.what.id] = Nothing
     /\ rows' = [rows EXCEPT !.assets[route.what.id] = route.what]
     /\ route' \in {At("index_asset", route.what), Idle}
  \/ /\ route.pc = "store_pair" /\ PairsOf(rows, route.what.old, route.what.new) = {}
     /\ rows' = [rows EXCEPT !.pairs = @ \cup {route.what}]
     /\ route' \in {At("index_pair", route.what), Idle}

LEMMA NextRowStep == [Next]_vars => RowStep
<1>1. ASSUME StoreAsset PROVE RowStep
  BY <1>1, TransactionOutcomes DEF StoreAsset, RowStep
<1>2. ASSUME StorePair PROVE RowStep
  BY <1>2, TransactionOutcomes DEF StorePair, RowStep
<1>3. ASSUME [Next]_vars, ~StoreAsset, ~StorePair PROVE UNCHANGED rows
  BY <1>3 DEF Next, vars, Put, CopyEnds, IngestHash, IngestRead, IndexAsset, CreatePair,
     IndexPair, Analyse, Publish, Crash, Begin
<1> QED
  BY <1>1, <1>2, <1>3 DEF RowStep

\* What the tables hold stays as it is.
RowsGrow ==
  /\ \A id \in AssetIds : rows.assets[id] # Nothing => rows'.assets[id] = rows.assets[id]
  /\ rows.pairs \subseteq rows'.pairs

LEMMA GrowStep ==
  ASSUME TypeOK, RowStep
  PROVE  RowsGrow /\ rows' \in Stores
<1>1. CASE UNCHANGED rows
  BY <1>1 DEF RowsGrow, TypeOK
<1>2. CASE /\ route.pc = "store_asset" /\ rows.assets[route.what.id] = Nothing
           /\ rows' = [rows EXCEPT !.assets[route.what.id] = route.what]
  <2>1. route.what \in AssetRecord /\ route.what.id \in AssetIds
    BY <1>2, RouteTyped
  <2> QED
    BY <1>2, <2>1 DEF RowsGrow, TypeOK, Stores
<1>3. CASE /\ route.pc = "store_pair"
           /\ rows' = [rows EXCEPT !.pairs = @ \cup {route.what}]
  <2>1. route.what \in PairRecord
    BY <1>3, RouteTyped
  <2> QED
    BY <1>3, <2>1 DEF RowsGrow, TypeOK, Stores
<1> QED
  BY <1>1, <1>2, <1>3 DEF RowStep

\* A pair that is sound stays sound.
LEMMA SoundStays ==
  ASSUME RowsGrow, NEW p, p.old \in AssetIds, p.new \in AssetIds, Sound(p)
  PROVE  Sound(p)'
  BY DEF RowsGrow, Sound

-----------------------------------------------------------------------------
(* The tables.                                                             *)

LEMMA InitIInv == Init => IInv
<1> SUFFICES ASSUME Init PROVE IInv
  OBVIOUS
<1>1. Empty \in Stores
  BY DEF Empty, Stores
<1>2. TypeOK
  BY <1>1 DEF Init, TypeOK, Empty
<1>3. MemoryInv /\ AckInv /\ RowInv
  BY DEF Init, MemoryInv, AckInv, RowInv, Empty
<1>4. RouteInv
  BY DEF Init, RouteInv, Idle
<1> QED
  BY <1>2, <1>3, <1>4 DEF IInv

LEMMA RowInvStep == IInv /\ [Next]_vars => RowInv'
<1> SUFFICES ASSUME IInv, [Next]_vars PROVE RowInv'
  OBVIOUS
<1>1. RowStep
  BY NextRowStep
<1>2. TypeOK /\ RowInv /\ RouteInv /\ RowsGrow
  BY <1>1, GrowStep DEF IInv
<1>3. \A p \in rows.pairs : Sound(p)'
  <2> TAKE p \in rows.pairs
  <2>1. p.old \in AssetIds /\ p.new \in AssetIds
    BY <1>2 DEF TypeOK, Stores, PairRecord
  <2> QED
    BY <1>2, <2>1, SoundStays DEF RowInv
<1>4. CASE UNCHANGED rows
  BY <1>2, <1>4 DEF RowInv, Sound
<1>5. CASE /\ route.pc = "store_asset"
           /\ rows' = [rows EXCEPT !.assets[route.what.id] = route.what]
  <2>1. rows'.pairs = rows.pairs
    BY <1>2, <1>5 DEF TypeOK, Stores
  <2>2. \A id \in AssetIds :
          rows'.assets[id] = IF id = route.what.id THEN route.what ELSE rows.assets[id]
    BY <1>2, <1>5 DEF TypeOK, Stores
  <2> QED
    BY <1>2, <1>3, <2>1, <2>2 DEF RowInv
<1>6. CASE /\ route.pc = "store_pair" /\ PairsOf(rows, route.what.old, route.what.new) = {}
           /\ rows' = [rows EXCEPT !.pairs = @ \cup {route.what}]
  <2>1. rows'.pairs = rows.pairs \cup {route.what} /\ rows'.assets = rows.assets
    BY <1>2, <1>6 DEF TypeOK, Stores
  <2>2. ASSUME NEW p, p = route.what PROVE Sound(p)'
    <3>1. Sound(p)
      BY <1>2, <1>6, <2>2 DEF RouteInv
    <3> QED
      BY <2>1, <3>1 DEF Sound
  <2> QED
    BY <1>2, <1>3, <1>6, <2>1, <2>2 DEF RowInv, PairsOf
<1> QED
  BY <1>1, <1>4, <1>5, <1>6 DEF RowStep

-----------------------------------------------------------------------------
(* Memory, and what clients have seen of it.                               *)

MemStep ==
  \/ UNCHANGED mem
  \/ /\ route.pc = "index_asset" /\ UNCHANGED rows
     /\ mem' = [mem EXCEPT !.assets[route.what.id] = route.what]
  \/ /\ route.pc = "index_pair" /\ UNCHANGED rows
     /\ mem' = [mem EXCEPT !.pairs = @ \cup {route.what}]
  \/ UNCHANGED rows /\ mem' = rows

LEMMA NextMemStep == [Next]_vars => MemStep
<1>1. ASSUME IndexAsset \/ IndexPair \/ Crash PROVE MemStep
  BY <1>1 DEF IndexAsset, IndexPair, Crash, MemStep
<1>2. ASSUME [Next]_vars, ~IndexAsset, ~IndexPair, ~Crash PROVE UNCHANGED mem
  BY <1>2 DEF Next, vars, Put, CopyEnds, IngestHash, IngestRead, StoreAsset, CreatePair,
     StorePair, Analyse, Publish, Begin
<1> QED
  BY <1>1, <1>2 DEF MemStep

MemGrows ==
  /\ \A id \in AssetIds : mem.assets[id] # Nothing => mem'.assets[id] = mem.assets[id]
  /\ mem.pairs \subseteq mem'.pairs

LEMMA MemoryStep ==
  ASSUME IInv, [Next]_vars
  PROVE  /\ MemoryInv' /\ MemGrows
         /\ mem' \in Stores
         /\ \A id \in AssetIds : mem'.assets[id] # Nothing => mem'.assets[id].id = id
<1>1. MemStep /\ RowStep
  BY NextMemStep, NextRowStep
<1>2. TypeOK /\ MemoryInv /\ RowInv /\ RouteInv /\ RowsGrow
  BY <1>1, GrowStep DEF IInv
<1>3. CASE UNCHANGED mem
  BY <1>2, <1>3 DEF MemoryInv, MemGrows, RowsGrow, TypeOK
<1>4. CASE /\ route.pc = "index_asset" /\ UNCHANGED rows
           /\ mem' = [mem EXCEPT !.assets[route.what.id] = route.what]
  <2>1. /\ route.what \in AssetRecord /\ route.what.id \in AssetIds
        /\ rows.assets[route.what.id] = route.what
    BY <1>2, <1>4, RouteTyped DEF RouteInv
  <2>2. mem' \in Stores
    BY <1>2, <1>4, <2>1 DEF TypeOK, Stores
  <2>3. /\ mem'.pairs = mem.pairs
        /\ \A id \in AssetIds :
             mem'.assets[id] = IF id = route.what.id THEN route.what ELSE mem.assets[id]
    BY <1>2, <1>4 DEF TypeOK, Stores
  <2>4. /\ \A id \in AssetIds : mem'.assets[id] # Nothing => mem'.assets[id] = rows.assets[id]
        /\ MemGrows
    BY <1>2, <2>1, <2>3 DEF MemoryInv, MemGrows
  <2> QED
    BY <1>2, <1>4, <2>1, <2>2, <2>3, <2>4 DEF MemoryInv, TypeOK
<1>5. CASE /\ route.pc = "index_pair" /\ UNCHANGED rows
           /\ mem' = [mem EXCEPT !.pairs = @ \cup {route.what}]
  <2>1. route.what \in PairRecord /\ route.what \in rows.pairs
    BY <1>2, <1>5, RouteTyped DEF RouteInv
  <2>2. mem' \in Stores /\ mem'.assets = mem.assets /\ mem'.pairs = mem.pairs \cup {route.what}
    BY <1>2, <1>5, <2>1 DEF TypeOK, Stores
  <2> QED
    BY <1>2, <1>5, <2>1, <2>2 DEF MemoryInv, MemGrows, TypeOK
<1>6. CASE UNCHANGED rows /\ mem' = rows
  BY <1>2, <1>6 DEF MemoryInv, MemGrows, RowInv, TypeOK
<1> QED
  BY <1>1, <1>3, <1>4, <1>5, <1>6 DEF MemStep

\* What is returned to a client is in memory when it is returned.
AckStep ==
  \/ UNCHANGED acked
  \/ \E r \in AssetRecord :
       /\ acked' = [acked EXCEPT !.assets = @ \cup {r}] /\ mem'.assets[r.id] = r
  \/ \E new \in SUBSET PairRecord :
       /\ acked' = [acked EXCEPT !.pairs = @ \cup new] /\ new \subseteq mem'.pairs

LEMMA NextAckStep == ASSUME TypeOK, [Next]_vars PROVE AckStep
<1>1. ASSUME IngestRead PROVE AckStep
  <2> DEFINE r == route.what
             known == mem.assets[r.id]
  <2>1. r \in AssetRecord /\ r.id \in AssetIds
    BY <1>1, RouteTyped DEF IngestRead
  <2>2. CASE UNCHANGED acked
    BY <2>2 DEF AckStep
  <2>3. CASE known # Nothing /\ acked' = [acked EXCEPT !.assets = @ \cup {known}]
    <3>1. known \in AssetRecord /\ known.id = r.id
      BY <2>1, <2>3 DEF TypeOK, Stores
    <3>2. mem'.assets[known.id] = known
      BY <1>1, <3>1 DEF IngestRead
    <3> QED
      BY <2>3, <3>1, <3>2 DEF AckStep
  <2> QED
    BY <1>1, <2>2, <2>3 DEF IngestRead
<1>2. ASSUME IndexAsset PROVE AckStep
  <2>1. route.what \in AssetRecord /\ route.what.id \in AssetIds
    BY <1>2, RouteTyped DEF IndexAsset
  <2>2. mem'.assets[route.what.id] = route.what
    BY <1>2, <2>1 DEF IndexAsset, TypeOK, Stores
  <2> QED
    BY <1>2, <2>1, <2>2 DEF IndexAsset, AckStep
<1>3. ASSUME NEW old \in AssetIds, NEW new \in AssetIds, CreatePair(old, new) PROVE AckStep
  <2>1. /\ PairsOf(mem, old, new) \in SUBSET PairRecord
        /\ PairsOf(mem, old, new) \subseteq mem.pairs
    BY DEF PairsOf, TypeOK, Stores
  <2>2. mem' = mem
    BY <1>3 DEF CreatePair, Begin
  <2> QED
    BY <1>3, <2>1, <2>2 DEF CreatePair, AckStep
<1>4. ASSUME IndexPair PROVE AckStep
  <2>1. route.what \in PairRecord
    BY <1>4, RouteTyped DEF IndexPair
  <2>2. {route.what} \in SUBSET PairRecord /\ {route.what} \subseteq mem'.pairs
    BY <1>4, <2>1 DEF IndexPair, TypeOK, Stores
  <2> QED
    BY <1>4, <2>2 DEF IndexPair, AckStep
<1>5. ASSUME ~IngestRead, ~IndexAsset, ~IndexPair,
             ~(\E old, new \in AssetIds : CreatePair(old, new))
      PROVE UNCHANGED acked
  BY <1>5 DEF Next, vars, Put, CopyEnds, IngestHash, StoreAsset, StorePair, Analyse,
     Publish, Crash
<1> QED
  BY <1>1, <1>2, <1>3, <1>4, <1>5 DEF AckStep

LEMMA AckInvStep ==
  ASSUME IInv, [Next]_vars
  PROVE  AckInv' /\ acked' \in [assets : SUBSET AssetRecord, pairs : SUBSET PairRecord]
<1>1. AckStep /\ MemGrows /\ TypeOK /\ AckInv
  BY NextAckStep, MemoryStep DEF IInv
<1>2. \A r \in acked.assets : mem'.assets[r.id] = r
  <2> TAKE r \in acked.assets
  <2>1. r.id \in AssetIds /\ r # Nothing
    BY <1>1, IngestionAssumption DEF TypeOK, AssetRecord
  <2> QED
    BY <1>1, <2>1 DEF AckInv, MemGrows
<1>3. acked.pairs \subseteq mem'.pairs
  BY <1>1 DEF AckInv, MemGrows
<1>4. CASE UNCHANGED acked
  BY <1>1, <1>2, <1>3, <1>4 DEF AckInv, TypeOK
<1>5. ASSUME NEW r \in AssetRecord, mem'.assets[r.id] = r,
             acked' = [acked EXCEPT !.assets = @ \cup {r}]
      PROVE  AckInv' /\ acked' \in [assets : SUBSET AssetRecord, pairs : SUBSET PairRecord]
  <2>1. acked'.assets = acked.assets \cup {r} /\ acked'.pairs = acked.pairs
    BY <1>1, <1>5 DEF TypeOK
  <2>2. acked' \in [assets : SUBSET AssetRecord, pairs : SUBSET PairRecord]
    BY <1>1, <1>5 DEF TypeOK
  <2> QED
    BY <1>2, <1>3, <1>5, <2>1, <2>2 DEF AckInv
<1>6. ASSUME NEW new \in SUBSET PairRecord, new \subseteq mem'.pairs,
             acked' = [acked EXCEPT !.pairs = @ \cup new]
      PROVE  AckInv' /\ acked' \in [assets : SUBSET AssetRecord, pairs : SUBSET PairRecord]
  <2>1. acked'.assets = acked.assets /\ acked'.pairs = acked.pairs \cup new
    BY <1>1, <1>6 DEF TypeOK
  <2>2. acked' \in [assets : SUBSET AssetRecord, pairs : SUBSET PairRecord]
    BY <1>1, <1>6 DEF TypeOK
  <2> QED
    BY <1>2, <1>3, <1>6, <2>1, <2>2 DEF AckInv
<1> QED
  BY <1>1, <1>4, <1>5, <1>6 DEF AckStep

-----------------------------------------------------------------------------
(* The route, and the remaining variables.                                 *)

RouteGood == RouteInv' /\ route' \in OpenRoute \cup {Idle}

LEMMA IdleGood == ASSUME route' = Idle PROVE RouteGood
  BY DEF RouteGood, RouteInv, Idle

\* A route that still has its record to store owes nothing for an asset.
LEMMA BeforeStoreGood ==
  ASSUME NEW r \in AssetRecord, NEW pc \in {"read", "store_asset"}, route' = At(pc, r)
  PROVE  RouteGood
<1>1. route' \in OpenRoute
  BY AtTyped
<1> QED
  BY <1>1 DEF RouteGood, RouteInv, At

LEMMA RouteStep == ASSUME IInv, [Next]_vars PROVE RouteGood
<1>0. TypeOK /\ MemoryInv /\ RouteInv /\ RowsGrow /\ RowStep
  BY NextRowStep, GrowStep DEF IInv
<1>1. CASE UNCHANGED route
  <2>1. ASSUME route.pc = "index_asset" PROVE rows'.assets[route.what.id] = route.what
    <3>1. route.what \in AssetRecord /\ route.what.id \in AssetIds
      BY <1>0, <2>1, RouteTyped
    <3>2. route.what # Nothing
      BY <3>1, IngestionAssumption
    <3> QED
      BY <1>0, <2>1, <3>1, <3>2 DEF RouteInv, RowsGrow
  <2>2. ASSUME NEW p, p = route.what, route.pc \in {"store_pair", "index_pair"} PROVE Sound(p)'
    BY <1>0, <2>2, RouteTyped, SoundStays DEF RouteInv
  <2>3. route.pc = "index_pair" => route.what \in rows'.pairs
    BY <1>0 DEF RouteInv, RowsGrow
  <2> QED
    BY <1>0, <1>1, <2>1, <2>2, <2>3 DEF RouteGood, RouteInv, TypeOK
<1>2. ASSUME NEW k \in Keys, NEW m \in Municipalities, NEW t \in Captures, IngestHash(k, m, t)
      PROVE  RouteGood
  <2>1. objects[k] \in Hashes /\ calls' \in Nat
    BY <1>0, <1>2 DEF IngestHash, Begin, TypeOK
  <2>2. Asset(<<m, objects[k]>>, k, t, calls') \in AssetRecord
    BY <2>1 DEF Asset, AssetRecord, AssetIds
  <2> QED
    BY <1>2, <2>2, BeforeStoreGood DEF IngestHash
<1>3. ASSUME IngestRead PROVE RouteGood
  <2>1. route.what \in AssetRecord
    BY <1>0, <1>3, RouteTyped DEF IngestRead
  <2> QED
    BY <1>3, <2>1, BeforeStoreGood, IdleGood DEF IngestRead
<1>4. ASSUME StoreAsset, route' # Idle PROVE RouteGood
  <2>1. route.what \in AssetRecord /\ route.what.id \in AssetIds
    BY <1>0, <1>4, RouteTyped DEF StoreAsset
  <2>2. /\ rows' = [rows EXCEPT !.assets[route.what.id] = route.what]
        /\ route' = At("index_asset", route.what)
    BY <1>4, TransactionOutcomes DEF StoreAsset
  <2>3. rows'.assets[route.what.id] = route.what
    BY <1>0, <2>1, <2>2 DEF TypeOK, Stores
  <2>4. route' \in OpenRoute
    BY <2>1, <2>2, AtTyped
  <2> QED
    BY <2>2, <2>3, <2>4 DEF RouteGood, RouteInv, At
<1>5. ASSUME NEW old \in AssetIds, NEW new \in AssetIds, CreatePair(old, new), ~UNCHANGED route
      PROVE  RouteGood
  <2> DEFINE p == Pair(old, new, calls')
  <2>1. p \in PairRecord
    BY <1>0, <1>5 DEF CreatePair, Begin, Pair, PairRecord, TypeOK
  <2>2. route' = At("store_pair", p) /\ UNCHANGED rows
    BY <1>5 DEF CreatePair, Begin
  <2>3. /\ rows.assets[old] # Nothing /\ rows.assets[new] # Nothing
        /\ old[1] = new[1]
        /\ rows.assets[old].captured < rows.assets[new].captured
    BY <1>0, <1>5 DEF CreatePair, Pairable, MemoryInv
  <2>4. p.old = old /\ p.new = new
    BY DEF Pair
  <2>5. route'.pc = "store_pair" /\ route'.what = p
    BY <2>2 DEF At
  <2>6. Sound(route'.what)
    BY <2>3, <2>4, <2>5 DEF Sound
  <2>7. Sound(route.what)'
    BY <2>2, <2>6 DEF Sound
  <2>8. route' \in OpenRoute
    BY <2>1, <2>2, AtTyped
  <2> QED
    BY <2>5, <2>7, <2>8 DEF RouteGood, RouteInv
<1>6. ASSUME StorePair, route' # Idle PROVE RouteGood
  <2>1. route.what \in PairRecord /\ route.what.old \in AssetIds /\ route.what.new \in AssetIds
    BY <1>0, <1>6, RouteTyped DEF StorePair
  <2>2. /\ rows' = [rows EXCEPT !.pairs = @ \cup {route.what}]
        /\ route' = At("index_pair", route.what)
    BY <1>6, TransactionOutcomes DEF StorePair
  <2>3. route'.pc = "index_pair" /\ route'.what = route.what
    BY <2>2 DEF At
  <2>4. ASSUME NEW p, p = route.what PROVE Sound(p)'
    BY <1>0, <1>6, <2>1, <2>4, SoundStays DEF RouteInv, StorePair
  <2>5. Sound(route.what)'
    BY <2>3, <2>4
  <2>6. route.what \in rows'.pairs
    BY <1>0, <2>2 DEF TypeOK, Stores
  <2>7. route' \in OpenRoute
    BY <2>1, <2>2, AtTyped
  <2> QED
    BY <2>3, <2>5, <2>6, <2>7 DEF RouteGood, RouteInv
<1>7. ASSUME IndexAsset \/ IndexPair \/ Crash PROVE RouteGood
  BY <1>7, IdleGood DEF IndexAsset, IndexPair, Crash
<1>8. ASSUME NEW k \in Keys, NEW c \in Contents, Put(k, c) PROVE UNCHANGED route
  BY <1>8 DEF Put
<1>9. ASSUME CopyEnds \/ (\E p \in mem.pairs : Analyse(p)) \/ Publish \/ UNCHANGED vars
      PROVE  UNCHANGED route
  BY <1>9 DEF CopyEnds, Analyse, Publish, vars
<1> QED
  BY <1>1, <1>2, <1>3, <1>4, <1>5, <1>6, <1>7, <1>8, <1>9, IdleGood DEF Next

\* The job keeps a pair that memory serves.
LEMMA JobStep ==
  ASSUME IInv, [Next]_vars
  PROVE  job' = NoJob \/ job'.pair \in mem'.pairs
<1>1. TypeOK /\ MemGrows
  BY MemoryStep DEF IInv
<1>2. ASSUME NEW p \in mem.pairs, Analyse(p) PROVE job'.pair \in mem'.pairs
  BY <1>1, <1>2 DEF Analyse, MemGrows
<1>3. ASSUME Publish \/ Crash PROVE job' = NoJob
  BY <1>3 DEF Publish, Crash
<1>4. ASSUME ~Publish, ~Crash, ~(\E p \in mem.pairs : Analyse(p)) PROVE UNCHANGED job
  BY <1>4 DEF Next, vars, Put, CopyEnds, IngestHash, IngestRead, StoreAsset, IndexAsset,
     CreatePair, StorePair, IndexPair, Begin
<1>5. CASE UNCHANGED job
  BY <1>1, <1>5 DEF TypeOK, MemGrows
<1> QED
  BY <1>2, <1>3, <1>4, <1>5

\* The object store and the counter of calls.
LEMMA StorageStep ==
  ASSUME TypeOK, [Next]_vars
  PROVE  /\ objects' \in [Keys -> Hashes \cup {Nothing}]
         /\ upload' \in Keys \cup {Nothing}
         /\ upload' # Nothing => objects'[upload'] \in Hashes
         /\ calls' \in Nat
<1>1. ASSUME NEW k \in Keys, NEW c \in Contents, Put(k, c)
      PROVE  /\ objects' \in [Keys -> Hashes \cup {Nothing}] /\ calls' = calls
             /\ upload' \in Keys /\ objects'[upload'] \in Hashes
  <2>1. Bytes(c, FALSE) \in Hashes
    BY DEF Bytes, Hashes
  <2> QED
    BY <1>1, <2>1 DEF Put, TypeOK, bounds
<1>2. ASSUME CopyEnds
      PROVE  objects' \in [Keys -> Hashes \cup {Nothing}] /\ upload' = Nothing /\ calls' = calls
  <2>1. UNCHANGED objects \/ objects' = [objects EXCEPT ![upload].whole = TRUE]
    BY <1>2 DEF CopyEnds
  <2>2. upload \in Keys /\ objects[upload] \in Hashes
    BY <1>2 DEF CopyEnds, TypeOK
  <2>3. [objects[upload] EXCEPT !.whole = TRUE] \in Hashes
    BY <2>2 DEF Hashes
  <2>4. objects' \in [Keys -> Hashes \cup {Nothing}]
    BY <2>1, <2>2, <2>3 DEF TypeOK
  <2> QED
    BY <1>2, <2>4 DEF CopyEnds, bounds
<1>3. ASSUME ~(\E k \in Keys, c \in Contents : Put(k, c)), ~CopyEnds
      PROVE  UNCHANGED <<objects, upload>> /\ calls' \in {calls, calls + 1}
  BY <1>3 DEF Next, vars, bounds, IngestHash, IngestRead, StoreAsset, IndexAsset,
     CreatePair, StorePair, IndexPair, Analyse, Publish, Crash, Begin
<1> QED
  BY <1>1, <1>2, <1>3 DEF TypeOK

-----------------------------------------------------------------------------
(* The theorems.                                                           *)

LEMMA NextIInv == IInv /\ [Next]_vars => IInv'
<1> SUFFICES ASSUME IInv, [Next]_vars PROVE IInv'
  OBVIOUS
<1>1. RowStep /\ TypeOK
  BY NextRowStep DEF IInv
<1>2. rows' \in Stores
  BY <1>1, GrowStep
<1>3. TypeOK'
  BY <1>1, <1>2, MemoryStep, AckInvStep, RouteStep, JobStep, StorageStep DEF TypeOK, RouteGood
<1> QED
  BY <1>3, RowInvStep, MemoryStep, AckInvStep, RouteStep DEF IInv, RouteGood

LEMMA Inductive == Spec => []IInv
  BY InitIInv, NextIInv, PTL DEF Spec

(***************************************************************************)
(* Evidence.  The path of an image from its object to a case: an asset's   *)
(* object exists, a pair that memory serves has both its assets there, the *)
(* job has analysed a whole object, and whole objects never change.        *)
(***************************************************************************)
Object(id) == objects[rows.assets[id].key]

ObjectInv ==
  /\ \A id \in AssetIds : rows.assets[id] # Nothing => Object(id) # Nothing
  /\ route.pc \in {"read", "store_asset"} => objects[route.what.key] # Nothing

Served(p) == mem.assets[p.old] # Nothing /\ mem.assets[p.new] # Nothing

ServedInv ==
  /\ \A p \in mem.pairs : Served(p)
  /\ route.pc \in {"store_pair", "index_pair"} => Served(route.what)

\* An image that was analysed and the asset it was found by.
Analysed(id, image) ==
  /\ id \in AssetIds /\ rows.assets[id] # Nothing
  /\ image = Object(id) /\ image # Nothing /\ image.whole = TRUE

JobInv == job # NoJob => Analysed(job.pair.new, job.new)

CaseInv == \A c \in cases : Analysed(c.pair.new, c.new) /\ c.evidence = c.new

EInv == IInv /\ ObjectInv /\ ServedInv /\ JobInv /\ CaseInv

\* put_original_immutable never writes an object that exists; what a copy
\* leaves behind is an object too.
LEMMA ObjectsStay ==
  ASSUME TypeOK, [Next]_vars, NEW k \in Keys, objects[k] # Nothing
  PROVE  objects'[k] # Nothing /\ (objects[k].whole = TRUE => objects'[k] = objects[k])
<1>1. ASSUME NEW key \in Keys, NEW c \in Contents, Put(key, c) PROVE objects'[k] = objects[k]
  BY <1>1 DEF Put, TypeOK
<1>2. ASSUME CopyEnds
      PROVE  objects'[k] # Nothing /\ (objects[k].whole = TRUE => objects'[k] = objects[k])
  <2>1. UNCHANGED objects \/ objects' = [objects EXCEPT ![upload].whole = TRUE]
    BY <1>2 DEF CopyEnds
  <2>2. upload \in Keys /\ objects[upload] \in Hashes
    BY <1>2 DEF CopyEnds, TypeOK
  <2>3. /\ [objects[upload] EXCEPT !.whole = TRUE] \in Hashes
        /\ objects[upload].whole = TRUE => [objects[upload] EXCEPT !.whole = TRUE] = objects[upload]
    BY <2>2 DEF Hashes
  <2>4. Nothing \notin Hashes
    BY IngestionAssumption
  <2>5. CASE objects' = [objects EXCEPT ![upload].whole = TRUE]
    <3>1. CASE k = upload
      <4>1. objects'[k] = [objects[upload] EXCEPT !.whole = TRUE]
        BY <2>2, <2>5, <3>1 DEF TypeOK
      <4> QED
        BY <2>3, <2>4, <3>1, <4>1
    <3>2. CASE k # upload
      BY <2>5, <3>2 DEF TypeOK
    <3> QED
      BY <3>1, <3>2
  <2> QED
    BY <2>1, <2>5
<1>3. ASSUME ~(\E key \in Keys, c \in Contents : Put(key, c)), ~CopyEnds PROVE UNCHANGED objects
  BY <1>3 DEF Next, vars, IngestHash, IngestRead, StoreAsset, IndexAsset,
     CreatePair, StorePair, IndexPair, Analyse, Publish, Crash, Begin
<1> QED
  BY <1>1, <1>2, <1>3

\* The key of a stored asset.
LEMMA StoredKey ==
  ASSUME TypeOK, NEW id \in AssetIds, rows.assets[id] # Nothing
  PROVE  rows.assets[id] \in AssetRecord /\ rows.assets[id].key \in Keys
  BY DEF TypeOK, Stores, AssetRecord

\* What was analysed stays what it was.
LEMMA AnalysedStays ==
  ASSUME IInv, [Next]_vars, NEW id, NEW image, Analysed(id, image)
  PROVE  id \in AssetIds /\ rows'.assets[id] = rows.assets[id]
         /\ rows'.assets[id] # Nothing /\ objects'[rows'.assets[id].key] = image
<1>1. RowsGrow /\ TypeOK
  BY NextRowStep, GrowStep DEF IInv
<1>2. rows'.assets[id] = rows.assets[id] /\ rows.assets[id].key \in Keys
  BY <1>1, StoredKey DEF Analysed, RowsGrow
<1>3. objects'[rows.assets[id].key] = objects[rows.assets[id].key]
  BY <1>1, <1>2, ObjectsStay DEF Analysed, Object
<1> QED
  BY <1>2, <1>3 DEF Analysed, Object

\* What an asset's route does, for the objects.
LEMMA ObjectInvStep == IInv /\ ObjectInv /\ [Next]_vars => ObjectInv'
<1> SUFFICES ASSUME IInv, ObjectInv, [Next]_vars PROVE ObjectInv'
  OBVIOUS
<1>1. TypeOK /\ RowStep /\ RowsGrow
  BY NextRowStep, GrowStep DEF IInv
<1>2. ASSUME NEW id \in AssetIds, rows'.assets[id] # Nothing
      PROVE  objects'[rows'.assets[id].key] # Nothing
  <2>1. CASE rows.assets[id] # Nothing
    <3>1. rows'.assets[id] = rows.assets[id] /\ rows.assets[id].key \in Keys
      BY <1>1, <2>1, StoredKey DEF RowsGrow
    <3>2. objects[rows.assets[id].key] # Nothing
      BY <2>1 DEF ObjectInv, Object
    <3> QED
      BY <1>1, <3>1, <3>2, ObjectsStay
  <2>2. CASE rows.assets[id] = Nothing
    <3>1. route.pc = "store_asset" /\ rows'.assets[id] = route.what
      BY <1>1, <1>2, <2>2 DEF RowStep, TypeOK, Stores
    <3>2. route.what.key \in Keys
      BY <1>1, <3>1, RouteTyped DEF AssetRecord
    <3>3. objects[route.what.key] # Nothing
      BY <3>1 DEF ObjectInv
    <3> QED
      BY <1>1, <3>1, <3>2, <3>3, ObjectsStay
  <2> QED
    BY <2>1, <2>2
<1>3. ASSUME route'.pc \in {"read", "store_asset"} PROVE objects'[route'.what.key] # Nothing
  <2>1. CASE UNCHANGED route
    <3>1. route.what.key \in Keys /\ objects[route.what.key] # Nothing
      BY <1>1, <1>3, <2>1, RouteTyped DEF ObjectInv, AssetRecord
    <3> QED
      BY <1>1, <2>1, <3>1, ObjectsStay
  <2>2. ASSUME NEW k \in Keys, NEW m \in Municipalities, NEW t \in Captures, IngestHash(k, m, t)
        PROVE  objects'[route'.what.key] # Nothing
    <3>1. route'.what.key = k /\ UNCHANGED objects /\ objects[k] # Nothing
      BY <2>2 DEF IngestHash, Begin, At, Asset
    <3> QED
      BY <3>1
  <2>3. ASSUME IngestRead PROVE objects'[route'.what.key] # Nothing
    <3>1. route'.what = route.what /\ UNCHANGED objects
      BY <1>3, <2>3 DEF IngestRead, At, Idle
    <3> QED
      BY <2>3, <3>1 DEF IngestRead, ObjectInv
  <2>4. ASSUME StoreAsset \/ StorePair PROVE FALSE
    BY <1>3, <2>4, TransactionOutcomes DEF StoreAsset, StorePair, At, Idle
  <2>5. ASSUME IndexAsset \/ IndexPair \/ Crash PROVE FALSE
    BY <1>3, <2>5 DEF IndexAsset, IndexPair, Crash, Idle
  <2>6. ASSUME NEW old \in AssetIds, NEW new \in AssetIds, CreatePair(old, new), ~UNCHANGED route
        PROVE  FALSE
    BY <1>3, <2>6 DEF CreatePair, At
  <2>7. ASSUME NEW k \in Keys, NEW c \in Contents, Put(k, c) PROVE UNCHANGED route
    BY <2>7 DEF Put
  <2>8. ASSUME CopyEnds \/ (\E p \in mem.pairs : Analyse(p)) \/ Publish \/ UNCHANGED vars
        PROVE  UNCHANGED route
    BY <2>8 DEF CopyEnds, Analyse, Publish, vars
  <2> QED
    BY <2>1, <2>2, <2>3, <2>4, <2>5, <2>6, <2>7, <2>8 DEF Next
<1> QED
  BY <1>2, <1>3 DEF ObjectInv, Object

\* Memory only grows, until it is the tables, whose pairs are sound.
LEMMA ServedInvStep == IInv /\ ServedInv /\ [Next]_vars => ServedInv'
<1> SUFFICES ASSUME IInv, ServedInv, [Next]_vars PROVE ServedInv'
  OBVIOUS
<1>1. TypeOK /\ RowInv /\ MemStep /\ MemGrows
  BY NextMemStep, MemoryStep DEF IInv
<1>2. ASSUME NEW p, p.old \in AssetIds, p.new \in AssetIds, Served(p) PROVE Served(p)'
  BY <1>1, <1>2 DEF MemGrows, Served
<1>3. ASSUME NEW p \in mem'.pairs PROVE Served(p)'
  <2>1. CASE p \in mem.pairs
    <3>1. p.old \in AssetIds /\ p.new \in AssetIds /\ Served(p)
      BY <1>1, <2>1 DEF TypeOK, Stores, PairRecord, ServedInv
    <3> QED
      BY <1>2, <3>1
  <2>2. CASE route.pc = "index_pair" /\ p = route.what
    BY <1>1, <1>2, <2>2, RouteTyped DEF ServedInv
  <2>3. CASE mem' = rows /\ p \in rows.pairs
    BY <1>1, <2>3 DEF RowInv, Sound, Served
  <2> QED
    BY <1>1, <1>3, <2>1, <2>2, <2>3 DEF MemStep, TypeOK, Stores
<1>4. ASSUME route'.pc \in {"store_pair", "index_pair"} PROVE Served(route.what)'
  <2>1. CASE route' = route
    BY <1>1, <1>2, <1>4, <2>1, RouteTyped DEF ServedInv, Served
  <2>2. ASSUME NEW k \in Keys, NEW m \in Municipalities, NEW t \in Captures, IngestHash(k, m, t)
        PROVE  FALSE
    BY <1>4, <2>2 DEF IngestHash, At
  <2>3. ASSUME IngestRead \/ StoreAsset PROVE FALSE
    BY <1>4, <2>3, TransactionOutcomes DEF IngestRead, StoreAsset, At, Idle
  <2>4. ASSUME NEW old \in AssetIds, NEW new \in AssetIds, CreatePair(old, new), ~UNCHANGED route
        PROVE  Served(route.what)'
    BY <2>4 DEF CreatePair, Begin, Pairable, At, Pair, Served
  <2>5. ASSUME StorePair PROVE Served(route.what)'
    <3>1. route'.what = route.what /\ UNCHANGED mem
      BY <1>4, <2>5, TransactionOutcomes DEF StorePair, At, Idle
    <3> QED
      BY <2>5, <3>1 DEF StorePair, ServedInv, Served
  <2>6. ASSUME IndexAsset \/ IndexPair \/ Crash PROVE FALSE
    BY <1>4, <2>6 DEF IndexAsset, IndexPair, Crash, Idle
  <2>7. ASSUME NEW k \in Keys, NEW c \in Contents, Put(k, c) PROVE UNCHANGED route
    BY <2>7 DEF Put
  <2>8. ASSUME CopyEnds \/ (\E p \in mem.pairs : Analyse(p)) \/ Publish \/ UNCHANGED vars
        PROVE  UNCHANGED route
    BY <2>8 DEF CopyEnds, Analyse, Publish, vars
  <2> QED
    BY <2>1, <2>2, <2>3, <2>4, <2>5, <2>6, <2>7, <2>8 DEF Next
<1> QED
  BY <1>3, <1>4 DEF ServedInv

\* The object that memory finds for an asset is the one of the tables.
LEMMA StoredIsObject ==
  ASSUME IInv, ServedInv, NEW p \in mem.pairs
  PROVE  /\ p.new \in AssetIds /\ rows.assets[p.new] # Nothing
         /\ Stored(p.new) = Object(p.new)
<1>1. p.new \in AssetIds /\ mem.assets[p.new] # Nothing
  BY DEF IInv, TypeOK, Stores, PairRecord, ServedInv, Served
<1> QED
  BY <1>1 DEF IInv, MemoryInv, Stored, Object

LEMMA EvidenceStep == EInv /\ [Next]_vars => JobInv' /\ CaseInv'
<1> SUFFICES ASSUME EInv, [Next]_vars PROVE JobInv' /\ CaseInv'
  OBVIOUS
<1>1. ASSUME NEW id, NEW image, Analysed(id, image)
      PROVE  /\ id \in AssetIds /\ rows'.assets[id] # Nothing
             /\ image = objects'[rows'.assets[id].key] /\ image # Nothing /\ image.whole = TRUE
  BY <1>1, AnalysedStays DEF EInv, Analysed
<1>2. ASSUME UNCHANGED job \/ job' = NoJob PROVE JobInv'
  BY <1>1, <1>2 DEF EInv, JobInv, Analysed, Object
<1>3. ASSUME UNCHANGED cases PROVE CaseInv'
  BY <1>1, <1>3 DEF EInv, CaseInv, Analysed, Object
<1>4. ASSUME NEW p \in mem.pairs, Analyse(p) PROVE JobInv' /\ CaseInv'
  <2>1. /\ p.new \in AssetIds /\ rows.assets[p.new] # Nothing /\ Stored(p.new) = Object(p.new)
    BY StoredIsObject DEF EInv
  <2>2. Stored(p.new) \in Hashes /\ Stored(p.new).whole = TRUE
    <3>1. rows.assets[p.new].key \in Keys
      BY <2>1, StoredKey DEF EInv, IInv
    <3>2. Object(p.new) \in Hashes
      BY <2>1, <3>1 DEF EInv, IInv, ObjectInv, TypeOK, Object
    <3> QED
      BY <1>4, <2>1, <3>2 DEF Analyse, Hashes
  <2>3. job'.pair = p /\ job'.new = Stored(p.new) /\ UNCHANGED <<objects, rows, cases>>
    BY <1>4 DEF Analyse
  <2>4. Analysed(p.new, Stored(p.new))
    BY <2>1, <2>2, IngestionAssumption DEF Analysed
  <2> QED
    BY <1>3, <2>3, <2>4 DEF JobInv, Analysed, Object
<1>5. CASE Publish
  <2>1. /\ job # NoJob /\ job' = NoJob /\ UNCHANGED <<objects, rows, mem>>
        /\ \/ UNCHANGED cases
           \/ /\ Stored(job.pair.new) = HashOf(job.pair.new)
              /\ cases' = cases \cup {Case(job)}
    BY <1>5 DEF Publish
  <2>2. Analysed(job.pair.new, job.new)
    BY <2>1 DEF EInv, JobInv
  <2>3. Stored(job.pair.new) = job.new
    BY <2>1, <2>2, StoredIsObject DEF EInv, IInv, TypeOK, Analysed
  <2>4. CASE /\ Stored(job.pair.new) = HashOf(job.pair.new)
             /\ cases' = cases \cup {Case(job)}
    <3>1. /\ Case(job).pair = job.pair /\ Case(job).new = job.new
          /\ Case(job).evidence = job.new
      BY <2>3, <2>4 DEF Case
    <3>2. ASSUME NEW c \in cases' PROVE Analysed(c.pair.new, c.new) /\ c.evidence = c.new
      BY <2>2, <2>4, <3>1 DEF EInv, CaseInv
    <3> QED
      BY <1>2, <2>1, <3>2 DEF CaseInv, Analysed, Object
  <2> QED
    BY <1>2, <1>3, <2>1, <2>4
<1>6. CASE Crash
  BY <1>2, <1>3, <1>6 DEF Crash
<1>7. ASSUME ~Publish, ~Crash, ~(\E p \in mem.pairs : Analyse(p)) PROVE UNCHANGED <<job, cases>>
  BY <1>7 DEF Next, vars, Put, CopyEnds, IngestHash, IngestRead, StoreAsset, IndexAsset,
     CreatePair, StorePair, IndexPair, Begin
<1> QED
  BY <1>2, <1>3, <1>4, <1>5, <1>6, <1>7

LEMMA EvidenceInductive == Spec => []EInv
<1>1. Init => EInv
  <2>1. Init => ObjectInv /\ ServedInv /\ JobInv /\ CaseInv
    BY DEF Init, ObjectInv, ServedInv, JobInv, CaseInv, Empty, Idle
  <2> QED
    BY <2>1, InitIInv DEF EInv
<1>2. EInv /\ [Next]_vars => EInv'
  BY NextIInv, ObjectInvStep, ServedInvStep, EvidenceStep DEF EInv
<1> QED
  BY <1>1, <1>2, PTL DEF Spec

(***************************************************************************)
(* Every variable keeps its type; a route past its first step carries a    *)
(* whole record, and the job a pair that memory still serves.              *)
(***************************************************************************)
THEOREM TypeCorrect == Spec => []TypeOK
<1>1. IInv => TypeOK
  BY DEF IInv
<1> QED
  BY <1>1, Inductive, PTL

(***************************************************************************)
(* EvidenceIsTheObject: whatever copies, retries and restarts interleave   *)
(* with a job, the evidence of its case is the stored object, whole, and   *)
(* the image that was analysed (_process_job).                             *)
(***************************************************************************)
THEOREM Evidence == Spec => []EvidenceIsTheObject
<1>1. EInv => EvidenceIsTheObject
  BY DEF EInv, CaseInv, Analysed, Object, EvidenceIsTheObject
<1> QED
  BY <1>1, EvidenceInductive, PTL

(***************************************************************************)
(* An asset or pair that a client was given stays in the tables and in     *)
(* memory: for any interleaving of uploads, routes, ambiguous commits and  *)
(* restarts (ingest_asset, create_image_pair).                             *)
(***************************************************************************)
THEOREM RecordsKept == Spec => []ReturnedRecordsKept
<1>1. IInv => ReturnedRecordsKept
  <2> SUFFICES ASSUME IInv PROVE ReturnedRecordsKept
    OBVIOUS
  <2>1. ASSUME NEW r \in acked.assets PROVE r \in Assets(rows) /\ r \in Assets(mem)
    <3>1. r \in AssetRecord /\ r.id \in AssetIds /\ r # Nothing
      BY IngestionAssumption DEF IInv, TypeOK, AssetRecord
    <3>2. mem.assets[r.id] = r /\ rows.assets[r.id] = r
      BY <3>1 DEF IInv, AckInv, MemoryInv
    <3> QED
      BY <3>1, <3>2 DEF Assets
  <2>2. acked.pairs \subseteq mem.pairs /\ acked.pairs \subseteq rows.pairs
    BY DEF IInv, AckInv, MemoryInv
  <2> QED
    BY <2>1, <2>2 DEF ReturnedRecordsKept
<1> QED
  BY <1>1, Inductive, PTL

(***************************************************************************)
(* Memory is backed by the tables, and every stored pair has both its      *)
(* assets there, of one municipality and in capture order                  *)
(* (create_image_pair checks memory, before the transaction).              *)
(***************************************************************************)
THEOREM PairsSound == Spec => []PairsStandOnRows
<1>1. IInv => PairsStandOnRows
  <2> SUFFICES ASSUME IInv PROVE PairsStandOnRows
    OBVIOUS
  <2>1. Assets(mem) \subseteq Assets(rows) /\ mem.pairs \subseteq rows.pairs
    BY DEF IInv, MemoryInv, Assets
  <2>2. ASSUME NEW p \in rows.pairs
        PROVE  /\ {rows.assets[p.old], rows.assets[p.new]} \subseteq Assets(rows)
               /\ Sound(p)
    <3>1. p.old \in AssetIds /\ p.new \in AssetIds
      BY DEF IInv, TypeOK, Stores, PairRecord
    <3> QED
      BY <3>1 DEF IInv, RowInv, Sound, Assets
  <2> QED
    BY <2>1, <2>2 DEF PairsStandOnRows, Sound
<1> QED
  BY <1>1, Inductive, PTL

(***************************************************************************)
(* A stored asset or pair is never changed, and two assets never get a     *)
(* second pair row (_insert_immutable).                                    *)
(***************************************************************************)
THEOREM WriteOnce == Spec => RowsAreWriteOnce
<1> DEFINE Step == /\ Assets(rows) \subseteq Assets(rows')
                   /\ rows.pairs \subseteq rows'.pairs
                   /\ \A p, q \in rows'.pairs : p.old = q.old /\ p.new = q.new => p = q
<1>1. IInv /\ [Next]_vars => [Step]_vars
  <2> SUFFICES ASSUME IInv, [Next]_vars PROVE Step
    OBVIOUS
  <2>1. RowsGrow /\ RowInv'
    BY NextRowStep, GrowStep, RowInvStep DEF IInv
  <2>2. Assets(rows) \subseteq Assets(rows')
    BY <2>1 DEF RowsGrow, Assets
  <2> QED
    BY <2>1, <2>2 DEF RowsGrow, RowInv
<1> QED
  BY <1>1, Inductive, PTL DEF Spec, RowsAreWriteOnce
=============================================================================
