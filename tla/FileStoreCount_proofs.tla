-------------------------- MODULE FileStoreCount_proofs ------------------------
(***************************************************************************)
(* Theorems about what FileStore counts: #usedBytes is what the disk       *)
(* holds, and what the disk holds of tested bytes stays within the limit,  *)
(* for any number of files, sizes, failures, restarts and growing sources. *)
(*                                                                         *)
(* An operation moves bytes, manifests and the count at different durable  *)
(* calls.  The invariant says, for each place between two of them, by how  *)
(* much the count and the disk differ.                                     *)
(***************************************************************************)
EXTENDS FileStore_proofs, FiniteSetTheorems

\* The operations that make a new file: commit before its manifest, publish.
Committing == op.at \in {"chmod", "row", "unlink"} /\ op.kind # "publish"
Publishing == op.at \in {"row", "unlink"} /\ op.kind = "publish"

\* On the disk and not counted yet: a copy, until its manifest stands.
Uncounted ==
  IF op.at \in {"place", "scrap"} THEN temp[op.id]
  ELSE IF Publishing THEN final[op.id] ELSE 0

\* Counted and on the disk no more: an upload that is discarded after its bytes.
Vanished == IF op.at = "discard" THEN up[op.id].written - part[op.id] ELSE 0

Counting ==
  phase = "open" /\ ~slip => used + Uncounted = Occupied + Vanished

\* The uploads that an operation is about to move or to discard are there.
Attending ==
  phase = "open" =>
    /\ op.at \in {"rename", "discard"} \/ Committing => up[op.id].state = "open"
    /\ op.at \in {"look", "discard", "delete", "note"} =>
         \A f \in op.todo : row[f] = "none" => up[f].state = "open"
    /\ op.at = "discard" => op.id \notin op.todo
    /\ Committing => part[op.id] = 0 /\ final[op.id] = up[op.id].written

\* Nothing stands yet under the final name of a file that is still to come.
Fresh ==
  /\ \A u \in Uploads : up[u].state = "open" =>
       final[u] = 0 \/ (op.at \in {"chmod", "row", "unlink", "discard"} /\ op.id = u)
  /\ op.at = "copy" => temp[op.id] = 0
  /\ op.at \in {"copy", "place"} => final[op.id] = 0

\* A manifest's bytes are all there or none is.
Whole == \A f \in Files : row[f] # "none" => final[f] \in {0, size[f]}

\* While open() runs: the manifests it has not come to the end of.
Unloaded(f) ==
  phase = "opening" /\ (op.at = "clear" \/ f \in op.todo \/ (op.at = "delete" /\ op.id = f))

\* The cache is what the manifests say, and what it calls ready is there.
Cached ==
  /\ phase \in {"opening", "open"} /\ ~slip =>
       \A f \in Files : row[f] # "none" /\ ~Unloaded(f) =>
         /\ cache[f] = row[f] \/ (op.at = "note" /\ op.id = f)
         /\ final[f] = IF cache[f] = "ready" THEN size[f] ELSE 0
  /\ op.at = "delete" /\ op.kind = "open" => cache[op.id] # "ready"

\* open() has counted what it has loaded.
Loaded == [f \in Files |-> IF row[f] = "none" \/ Unloaded(f) THEN 0 ELSE final[f]]
Recounting ==
  /\ phase = "down" => op.at = "idle" /\ used = 0
  /\ phase = "opening" =>
       op.at \in {"clear", "look", "delete", "note", "orphans"} /\ op.kind = "open"
  /\ op.at = "orphans" => op.todo = {}
  /\ phase = "opening" /\ ~slip =>
       /\ used = Held(Loaded)
       /\ op.at = "clear" \/ (part = Zero(Uploads) /\ temp = Zero(Artifacts))

\* A count that went wrong is one that ever did.
Marked == slip => loose

CInv == Counting /\ Attending /\ Fresh /\ Whole /\ Cached /\ Recounting /\ Marked

-----------------------------------------------------------------------------
(***************************************************************************)
(* Counting chunks.                                                        *)
(***************************************************************************)
LEMMA ChunksFinite ==
  ASSUME NEW S, IsFiniteSet(S), NEW h \in [S -> 0..MaxSource]
  PROVE  IsFiniteSet(Chunks(h)) /\ Held(h) \in Nat
<1>1. IsFiniteSet(1..MaxSource)
  BY StoreAssumption, FS_Interval
<1>2. IsFiniteSet(S \X (1..MaxSource))
  BY <1>1, FS_Product
<1>3. Chunks(h) \in SUBSET (S \X (1..MaxSource))
  BY DEF Chunks
<1>4. IsFiniteSet(Chunks(h))
  BY <1>2, <1>3, FS_Subset
<1> QED BY <1>4, FS_CardinalityType DEF Held

\* The chunks of one file are as many as its size.
LEMMA ColumnCount ==
  ASSUME NEW f, NEW n \in Nat
  PROVE  IsFiniteSet({f} \X (1..n)) /\ Cardinality({f} \X (1..n)) = n
<1>1. IsFiniteSet({f}) /\ Cardinality({f}) = 1
  BY FS_Singleton
<1>2. IsFiniteSet(1..n) /\ Cardinality(1..n) = n
  BY FS_Interval
<1>3. /\ IsFiniteSet({f} \X (1..n))
      /\ Cardinality({f} \X (1..n)) = Cardinality({f}) * Cardinality(1..n)
  BY <1>1, <1>2, FS_Product
<1>4. 1 * n = n
  OBVIOUS
<1> QED BY <1>1, <1>2, <1>3, <1>4

\* The chunks of all files but one, and those of that one.
LEMMA HeldSplit ==
  ASSUME NEW S, IsFiniteSet(S), NEW h \in [S -> 0..MaxSource], NEW f \in S
  PROVE  LET rest == {c \in S \X (1..MaxSource) : c[1] # f /\ c[2] <= h[c[1]]}
         IN  Cardinality(rest) \in Nat /\ Held(h) = Cardinality(rest) + h[f]
<1> DEFINE rest == {c \in S \X (1..MaxSource) : c[1] # f /\ c[2] <= h[c[1]]}
           column == {f} \X (1..h[f])
<1>1. h[f] \in Nat /\ h[f] <= MaxSource
  BY StoreAssumption
<1>2. Chunks(h) = rest \cup column
  <2>1. ASSUME NEW c \in Chunks(h) PROVE c \in rest \cup column
    <3>1. c \in S \X (1..MaxSource) /\ c[2] <= h[c[1]] /\ c = <<c[1], c[2]>>
      BY DEF Chunks
    <3>2. CASE c[1] = f
      BY <1>1, <3>1, <3>2
    <3> QED BY <3>1, <3>2
  <2>2. ASSUME NEW c \in column PROVE c \in Chunks(h)
    BY <1>1, StoreAssumption DEF Chunks
  <2> QED BY <2>1, <2>2 DEF Chunks
<1>3. rest \cap column = {}
  OBVIOUS
<1>4. IsFiniteSet(rest) /\ Cardinality(rest) \in Nat
  <2>1. rest \in SUBSET Chunks(h)
    BY <1>2
  <2>2. IsFiniteSet(rest)
    BY <2>1, ChunksFinite, FS_Subset
  <2> QED BY <2>2, FS_CardinalityType
<1>5. IsFiniteSet(column) /\ Cardinality(column) = h[f]
  BY <1>1, ColumnCount
<1>6. Cardinality(rest \cup column) = Cardinality(rest) + h[f] - Cardinality({})
  BY <1>3, <1>4, <1>5, FS_Union
<1> QED BY <1>1, <1>2, <1>4, <1>6, FS_EmptySet DEF Held

(***************************************************************************)
(* Replacing the bytes of one file moves the count by the difference.      *)
(***************************************************************************)
LEMMA HeldExcept ==
  ASSUME NEW S, IsFiniteSet(S), NEW h \in [S -> 0..MaxSource], NEW f \in S,
         NEW n \in 0..MaxSource
  PROVE  Held([h EXCEPT ![f] = n]) = Held(h) - h[f] + n
<1> DEFINE g == [h EXCEPT ![f] = n]
           rest(k) == {c \in S \X (1..MaxSource) : c[1] # f /\ c[2] <= k[c[1]]}
<1>1. g \in [S -> 0..MaxSource] /\ g[f] = n /\ \A x \in S : x # f => g[x] = h[x]
  OBVIOUS
<1>2. rest(g) = rest(h)
  BY <1>1
<1>3. Cardinality(rest(h)) \in Nat /\ Held(h) = Cardinality(rest(h)) + h[f]
  BY HeldSplit
<1>4. Held(g) = Cardinality(rest(g)) + g[f]
  BY <1>1, HeldSplit
<1>5. h[f] \in Nat /\ n \in Nat
  BY StoreAssumption
<1> HIDE DEF g, rest
<1>6. Held(g) = Held(h) - h[f] + n
  BY <1>1, <1>2, <1>3, <1>4, <1>5
<1> QED BY <1>6 DEF g

LEMMA HeldAtLeast ==
  ASSUME NEW S, IsFiniteSet(S), NEW h \in [S -> 0..MaxSource], NEW f \in S
  PROVE  h[f] <= Held(h)
<1> DEFINE rest == {c \in S \X (1..MaxSource) : c[1] # f /\ c[2] <= h[c[1]]}
<1>1. Cardinality(rest) \in Nat /\ Held(h) = Cardinality(rest) + h[f]
  BY HeldSplit
<1>2. h[f] \in Nat
  BY StoreAssumption
<1> HIDE DEF rest
<1> QED BY <1>1, <1>2

LEMMA HeldZero == ASSUME NEW S PROVE Held(Zero(S)) = 0
<1>1. Chunks(Zero(S)) = {}
  BY StoreAssumption DEF Chunks, Zero
<1> QED BY <1>1, FS_EmptySet DEF Held

\* Fewer bytes under each name are fewer bytes.
LEMMA HeldLess ==
  ASSUME NEW S, IsFiniteSet(S), NEW h \in [S -> 0..MaxSource], NEW g \in [S -> 0..MaxSource],
         \A f \in S : g[f] <= h[f]
  PROVE  Held(g) <= Held(h)
<1>1. Chunks(g) \in SUBSET Chunks(h)
  <2> SUFFICES ASSUME NEW c \in Chunks(g) PROVE c \in Chunks(h)
    OBVIOUS
  <2>1. c \in S \X (1..MaxSource) /\ c[1] \in S /\ c[2] \in Nat /\ c[2] <= g[c[1]]
    BY StoreAssumption DEF Chunks
  <2>2. g[c[1]] \in Nat /\ h[c[1]] \in Nat /\ g[c[1]] <= h[c[1]]
    BY <2>1, StoreAssumption
  <2>3. c[2] <= h[c[1]]
    BY <2>1, <2>2
  <2> QED BY <2>1, <2>3 DEF Chunks
<1> QED BY <1>1, ChunksFinite, FS_Subset DEF Held

LEMMA FilesFinite == IsFiniteSet(Uploads) /\ IsFiniteSet(Artifacts) /\ IsFiniteSet(Files)
BY StoreAssumption, FS_Union DEF Files

\* A file that is not a copy is within what a copy may grow to.
LEMMA StagedSizes ==
  ASSUME NEW S, NEW h \in [S -> 0..MaxFile]
  PROVE  h \in [S -> 0..MaxSource]
BY StoreAssumption

\* The three counts of the disk.
LEMMA DiskCounts ==
  ASSUME TypeOK
  PROVE  /\ Held(part) \in Nat /\ Held(temp) \in Nat /\ Held(final) \in Nat
         /\ Occupied \in Nat
<1>1. Held(part) \in Nat /\ Held(temp) \in Nat /\ Held(final) \in Nat
  BY FilesFinite, ChunksFinite, StagedSizes DEF TypeOK
<1> QED BY <1>1 DEF Occupied

\* What moving the bytes of one file does to them.
LEMMA DiskMoves ==
  ASSUME TypeOK
  PROVE  /\ \A f \in Uploads, n \in 0..MaxSource :
              Held([part EXCEPT ![f] = n]) = Held(part) - part[f] + n
         /\ \A f \in Artifacts, n \in 0..MaxSource :
              Held([temp EXCEPT ![f] = n]) = Held(temp) - temp[f] + n
         /\ \A f \in Files, n \in 0..MaxSource :
              Held([final EXCEPT ![f] = n]) = Held(final) - final[f] + n
         /\ \A f \in Uploads : part[f] \in Nat /\ part[f] <= Held(part)
         /\ \A f \in Artifacts : temp[f] \in Nat /\ temp[f] <= Held(temp)
         /\ \A f \in Files : final[f] \in Nat /\ final[f] <= Held(final)
<1>1. /\ part \in [Uploads -> 0..MaxSource] /\ temp \in [Artifacts -> 0..MaxSource]
      /\ final \in [Files -> 0..MaxSource]
  BY StagedSizes DEF TypeOK
<1> QED BY <1>1, FilesFinite, HeldExcept, HeldAtLeast, StoreAssumption

LEMMA InitCInv == Init => CInv
<1> SUFFICES ASSUME Init PROVE CInv
  OBVIOUS
<1>1. op.at = "idle" /\ phase = "down"
  BY DEF Init, Idle
<1>2. Occupied = 0
  BY HeldZero DEF Init, Occupied
<1>3. \A u \in Uploads : up[u].state = "none"
  BY DEF Init, NoUploads, NoRecord
<1>4. Counting /\ Attending /\ Fresh
  BY <1>1, <1>3 DEF Counting, Attending, Fresh
<1>5. Whole /\ Cached
  BY <1>1 DEF Init, Whole, Cached, NoManifests
<1>6. Recounting /\ Marked
  BY <1>1, <1>2, StoreAssumption DEF Init, Recounting, Marked
<1> QED BY <1>4, <1>5, <1>6 DEF CInv

-----------------------------------------------------------------------------
(***************************************************************************)
(* Uploads.                                                                *)
(***************************************************************************)
LEMMA BeginCounts ==
  ASSUME IInv, CInv, NEW k \in Keys, NEW u \in Uploads, NEW n \in Sizes, Begin(k, u, n)
  PROVE  CInv'
<1> USE DEF IInv, CInv, Begin, clock, errors
<1>1. op.at = "idle" /\ u \in Files /\ phase = "open"
  BY DEF Ready, Idle, Files
<1>2. part[u] = 0 /\ final[u] = 0 /\ size[u] = 0 /\ row[u] = "none"
  BY <1>1, StoreAssumption DEF Unused, Bytes, TypeOK, Rows
<1>3. Counting' /\ Marked'
  BY <1>1 DEF Counting, Marked, Uncounted, Vanished, Publishing, Occupied
<1>4. Attending'
  BY <1>1 DEF Attending, Committing
<1>5. Fresh'
  BY <1>1, <1>2 DEF Fresh, TypeOK
<1>6. Whole' /\ Cached'
  BY <1>1, <1>2 DEF Whole, Cached, Unloaded, TypeOK
<1>7. Recounting'
  BY <1>1 DEF Recounting
<1> QED BY <1>3, <1>4, <1>5, <1>6, <1>7

LEMMA ChunkCounts ==
  ASSUME IInv, CInv, NEW u \in Uploads, Chunk(u)
  PROVE  CInv'
<1> USE DEF IInv, CInv, Chunk, clock
<1>1. op.at = "idle" /\ u \in Files /\ phase = "open"
  BY DEF Ready, Idle, Files
<1>2. /\ up[u] \in Records /\ up[u].written < size[u] /\ size[u] \in 0..MaxFile
      /\ part[u] = up[u].written
  BY <1>1 DEF TypeOK, Staged, NoRecord
<1>3. Whole' /\ Cached' /\ Recounting'
  BY <1>1, JobFields DEF Whole, Cached, Recounting, Unloaded, Works, Fails, errors, Job
<1>4. CASE UNCHANGED op /\ Works /\ used' = used + 1
           /\ part' = [part EXCEPT ![u] = @ + 1] /\ up' = [up EXCEPT ![u].written = @ + 1]
  <2>1. part[u] \in Nat /\ part[u] + 1 \in 0..MaxSource
    BY <1>2, StoreAssumption DEF Records
  <2>2. Occupied' = Occupied + 1 /\ Occupied \in Nat
    <3>1. Held(part') = Held(part) - part[u] + (part[u] + 1)
      BY <1>4, <2>1, DiskMoves
    <3> QED BY <2>1, <3>1, DiskCounts DEF Occupied
  <2>3. Counting'
    BY <1>1, <1>4, <2>2 DEF Counting, Uncounted, Vanished, Publishing, Works, errors, TypeOK
  <2>4. Marked'
    BY <1>4 DEF Marked, Works, errors
  <2>5. Attending' /\ Fresh'
    BY <1>1, <1>2, <1>4 DEF Attending, Fresh, Committing, TypeOK, Records
  <2> QED BY <1>3, <2>3, <2>4, <2>5
<1>5. CASE Fails /\ op' = Job("chunk", "discard", u, {}) /\ UNCHANGED <<part, up, used>>
  <2>1. op'.at = "discard" /\ op'.kind = "chunk" /\ op'.id = u /\ op'.todo = {}
    BY <1>1, <1>5, JobFields DEF Ops, JobPlaces
  <2>2. Counting' /\ Marked'
    BY <1>1, <1>2, <1>5, <2>1, DiskCounts
    DEF Counting, Marked, Uncounted, Vanished, Publishing, Occupied, Fails, Records, TypeOK
  <2>3. Attending' /\ Fresh'
    BY <1>1, <1>5, <2>1 DEF Attending, Fresh, Committing
  <2> QED BY <1>3, <2>2, <2>3
<1> QED BY <1>4, <1>5

LEMMA AbortCounts ==
  ASSUME IInv, CInv, NEW u \in Uploads, Abort(u)
  PROVE  CInv'
<1> USE DEF IInv, CInv, Abort, disk, tables, clock, errors
<1>1. op.at = "idle" /\ u \in Files /\ phase = "open"
  BY DEF Ready, Idle, Files
<1>2. op'.at = "discard" /\ op'.kind = "abort" /\ op'.id = u /\ op'.todo = {}
  BY <1>1, JobFields DEF Ops, JobPlaces
<1>3. up[u] \in Records /\ part[u] = up[u].written
  BY <1>1 DEF TypeOK, Staged, NoRecord
<1>4. Counting' /\ Marked'
  BY <1>1, <1>2, <1>3, DiskCounts
  DEF Counting, Marked, Uncounted, Vanished, Publishing, Occupied, Records, TypeOK
<1>5. Attending' /\ Fresh'
  BY <1>1, <1>2 DEF Attending, Fresh, Committing
<1>6. Whole' /\ Cached' /\ Recounting'
  BY <1>1, <1>2 DEF Whole, Cached, Recounting, Unloaded
<1> QED BY <1>4, <1>5, <1>6

LEMMA CommitCounts ==
  ASSUME IInv, CInv, NEW u \in Uploads, Commit(u)
  PROVE  CInv'
<1> USE DEF IInv, CInv, Commit, disk, tables, clock, errors
<1>1. op.at = "idle" /\ u \in Files /\ phase = "open"
  BY DEF Ready, Idle, Files
<1>2. op'.at = "rename" /\ op'.kind = "commit" /\ op'.id = u /\ op'.todo = {}
  BY <1>1, JobFields DEF Ops, JobPlaces
<1>3. Counting' /\ Marked'
  BY <1>1, <1>2
  DEF Counting, Marked, Uncounted, Vanished, Publishing, Occupied
<1>4. Attending' /\ Fresh'
  BY <1>1, <1>2 DEF Attending, Fresh, Committing
<1>5. Whole' /\ Cached' /\ Recounting'
  BY <1>1, <1>2 DEF Whole, Cached, Recounting, Unloaded
<1> QED BY <1>3, <1>4, <1>5

LEMMA RenameCounts ==
  ASSUME IInv, CInv, Rename
  PROVE  CInv'
<1> USE DEF IInv, CInv, Rename, At, tables, clock
<1>1. /\ op \in Jobs /\ op.id \in Uploads /\ op.id \in Files /\ op.kind # "publish"
      /\ row[op.id] = "none" /\ op.todo = {}
  BY JobShape DEF JobPlaces, Making, Walking, Files
<1>2. phase = "open" =>
        /\ up[op.id].state = "open" /\ final[op.id] = 0 /\ part[op.id] = up[op.id].written
  BY <1>1 DEF Attending, Fresh, Staged
<1>3. CASE /\ Works /\ Go("chmod")
           /\ final' = [final EXCEPT ![op.id] = part[op.id]]
           /\ part' = [part EXCEPT ![op.id] = 0]
  <2>1. op'.at = "chmod" /\ op'.kind = op.kind /\ op'.id = op.id /\ op'.todo = {}
    BY <1>1, <1>3, GoShape DEF JobPlaces
  <2>2. /\ part[op.id] \in 0..MaxFile /\ 0 \in 0..MaxSource /\ part[op.id] \in 0..MaxSource
        /\ part[op.id] \in Nat /\ final[op.id] \in Nat
    BY <1>1, StoreAssumption DEF TypeOK
  <2>3. Occupied' = Occupied - final[op.id] /\ Occupied \in Nat
    <3>1. /\ Held(part') = Held(part) - part[op.id] + 0
          /\ Held(final') = Held(final) - final[op.id] + part[op.id]
      BY <1>1, <1>3, <2>2, DiskMoves
    <3> QED BY <2>2, <3>1, DiskCounts DEF Occupied
  <2>4. Counting'
    BY <1>1, <1>2, <1>3, <2>1, <2>2, <2>3
    DEF Counting, Uncounted, Vanished, Publishing, Works, errors, TypeOK
  <2>5. Marked'
    BY <1>3 DEF Marked, Works, errors
  <2>6. Attending' /\ Fresh'
    BY <1>1, <1>2, <1>3, <2>1 DEF Attending, Fresh, Committing, TypeOK
  <2>7. Whole' /\ Cached' /\ Recounting'
    BY <1>1, <1>3, <2>1 DEF Whole, Cached, Recounting, Unloaded, TypeOK, Works, errors
  <2> QED BY <2>4, <2>5, <2>6, <2>7
<1>4. CASE Fails /\ Go("discard") /\ UNCHANGED <<final, part>>
  <2>1. op'.at = "discard" /\ op'.kind = op.kind /\ op'.id = op.id /\ op'.todo = {}
    BY <1>1, <1>4, GoShape DEF JobPlaces
  <2>2. Counting' /\ Marked'
    BY <1>1, <1>2, <1>4, <2>1, DiskCounts
    DEF Counting, Marked, Uncounted, Vanished, Publishing, Occupied, Fails, Records, TypeOK
  <2>3. Attending' /\ Fresh'
    BY <1>1, <1>2, <1>4, <2>1 DEF Attending, Fresh, Committing
  <2>4. Whole' /\ Cached' /\ Recounting'
    BY <1>1, <1>4, <2>1 DEF Whole, Cached, Recounting, Unloaded, Fails
  <2> QED BY <2>2, <2>3, <2>4
<1> QED BY <1>3, <1>4

LEMMA ChmodCounts ==
  ASSUME IInv, CInv, Chmod
  PROVE  CInv'
<1> USE DEF IInv, CInv, Chmod, At, disk, tables, clock
<1>1. op \in Jobs /\ op.id \in Uploads /\ op.kind # "publish" /\ op.todo = {}
  BY JobShape DEF JobPlaces, Making, Walking
<1>2. PICK at \in {"row", "discard"} : Go(at) /\ ((at = "row" /\ Works) \/ Slips)
  OBVIOUS
<1>3. op'.at = at /\ op'.kind = op.kind /\ op'.id = op.id /\ op'.todo = {}
  BY <1>1, <1>2, GoShape DEF JobPlaces
<1>4. (at = "row" /\ Works) \/ (slip' /\ loose')
  BY <1>2 DEF Slips
<1>5. Counting' /\ Marked'
  <2>1. CASE slip' /\ loose'
    BY <2>1 DEF Counting, Marked
  <2>2. CASE at = "row" /\ Works
    BY <1>1, <1>2, <1>3, <2>2
    DEF Counting, Marked, Uncounted, Vanished, Publishing, Occupied, Works, errors
  <2> QED BY <1>4, <2>1, <2>2
<1>6. Attending' /\ Fresh'
  BY <1>1, <1>2, <1>3 DEF Attending, Fresh, Committing
<1>7. Whole' /\ Cached' /\ Recounting'
  BY <1>1, <1>2, <1>3 DEF Whole, Cached, Recounting, Unloaded, Works, errors, Slips
<1> QED BY <1>5, <1>6, <1>7

LEMMA RowCounts ==
  ASSUME IInv, CInv, Row
  PROVE  CInv'
<1> USE DEF IInv, CInv, Row, At, clock
<1>1. /\ op \in Jobs /\ op.id \in Files /\ op.todo = {} /\ row[op.id] = "none"
      /\ final[op.id] = size[op.id] /\ size[op.id] \in Nat /\ used \in Nat
      /\ op.id \in (IF op.kind = "publish" THEN Artifacts ELSE Uploads)
  BY JobShape, StoreAssumption DEF JobPlaces, Making, Walking, TypeOK
<1>2. CASE Works /\ op' = Idle /\ row' = [row EXCEPT ![op.id] = "ready"] /\ Recorded(op.id)
  <2>1. op'.at = "idle"
    BY <1>2, IdleFields
  <2>2. used' + 0 = used + Uncounted
    BY <1>1, <1>2 DEF Recorded, Uncounted, Publishing
  <2>3. Counting' /\ Marked'
    BY <1>1, <1>2, <2>1, <2>2
    DEF Counting, Marked, Uncounted, Vanished, Publishing, Occupied, Works, errors
  <2>4. \A u \in Uploads :
          up'[u].state = "open" =>
            up[u].state = "open" /\ (u # op.id \/ op.kind = "publish")
    BY <1>1, <1>2, StoreAssumption DEF Recorded, TypeOK, NoRecord, Records
  <2>5. Attending' /\ Fresh'
    <3>1. op.kind = "publish" => op.id \notin Uploads
      BY <1>1, StoreAssumption
    <3> QED BY <1>1, <1>2, <2>1, <2>4, <3>1 DEF Attending, Fresh, Committing
  <2>6. Whole' /\ Cached'
    BY <1>1, <1>2, <2>1 DEF Whole, Cached, Unloaded, Works, errors, TypeOK, Recorded
  <2>7. Recounting'
    BY <1>1, <1>2, <2>1 DEF Recounting, Works, errors, Recorded, Opening
  <2> QED BY <2>3, <2>5, <2>6, <2>7
<1>3. CASE Fails /\ Go("unlink") /\ UNCHANGED <<row, cache, up, used>>
  <2>1. op'.at = "unlink" /\ op'.kind = op.kind /\ op'.id = op.id /\ op'.todo = {}
    BY <1>1, <1>3, GoShape DEF JobPlaces
  <2>2. Counting' /\ Marked'
    BY <1>1, <1>3, <2>1
    DEF Counting, Marked, Uncounted, Vanished, Publishing, Occupied, Fails
  <2>3. Attending' /\ Fresh'
    BY <1>1, <1>3, <2>1 DEF Attending, Fresh, Committing
  <2>4. Whole' /\ Cached' /\ Recounting'
    BY <1>1, <1>3, <2>1 DEF Whole, Cached, Recounting, Unloaded, Fails
  <2> QED BY <2>2, <2>3, <2>4
<1> QED BY <1>2, <1>3

LEMMA UnlinkCounts ==
  ASSUME IInv, CInv, Unlink
  PROVE  CInv'
<1> USE DEF IInv, CInv, Unlink, At, tables, clock
<1>1. /\ op \in Jobs /\ op.id \in Files /\ op.todo = {} /\ row[op.id] = "none"
      /\ op.id \in (IF op.kind = "publish" THEN Artifacts ELSE Uploads)
      /\ final[op.id] \in Nat
  BY JobShape, StoreAssumption DEF JobPlaces, Making, Walking, TypeOK
<1>2. \/ op.kind = "publish" /\ op'.at = "idle"
      \/ /\ op.kind # "publish" /\ op'.at = "discard"
         /\ op'.kind = op.kind /\ op'.id = op.id /\ op'.todo = {}
  BY <1>1, GoShape, IdleFields DEF JobPlaces
<1>3. /\ final'[op.id] \in {0, final[op.id]}
      /\ \A f \in Files : f # op.id => final'[f] = final[f] /\ size'[f] = size[f]
  BY <1>1 DEF TypeOK
<1>4. Counting' /\ Marked'
  <2>1. CASE Works /\ final' = [final EXCEPT ![op.id] = 0]
    <3>1. Held(final') = Held(final) - final[op.id] + 0
      <4>1. 0 \in 0..MaxSource
        BY StoreAssumption
      <4> QED BY <1>1, <2>1, <4>1, DiskMoves
    <3>2. Occupied' = Occupied - final[op.id] /\ Occupied \in Nat
      BY <1>1, <3>1, DiskCounts DEF Occupied
    <3>3. op.kind # "publish" /\ phase = "open" =>
            part[op.id] = 0 /\ up[op.id].written = final[op.id]
      BY <1>1 DEF Attending, Committing
    <3>4. Counting'
      BY <1>1, <1>2, <2>1, <3>2, <3>3
      DEF Counting, Uncounted, Vanished, Publishing, Works, errors, TypeOK
    <3>5. Marked'
      BY <2>1 DEF Marked, Works, errors
    <3> QED BY <3>4, <3>5
  <2>2. CASE Slips
    BY <2>2 DEF Counting, Marked, Slips
  <2> QED BY <2>1, <2>2
<1>5. Attending'
  BY <1>1, <1>2 DEF Attending, Committing
<1>6. Fresh'
  <2>1. op.kind = "publish" => op.id \notin Uploads
    BY <1>1, StoreAssumption
  <2> QED BY <1>1, <1>2, <1>3, <2>1 DEF Fresh, Files
<1>7. Whole' /\ Recounting'
  BY <1>1, <1>2, <1>3 DEF Whole, Recounting
<1>8. Cached'
  BY <1>1, <1>2, <1>3 DEF Cached, Unloaded, Recounting, Works, Slips, errors
<1> QED BY <1>4, <1>5, <1>6, <1>7, <1>8

LEMMA DiscardCounts ==
  ASSUME IInv, CInv, Discard
  PROVE  CInv'
<1> USE DEF IInv, CInv, Discard, At, clock
<1>1. /\ op \in Jobs /\ op.id \in Files /\ op.id \in Uploads /\ op.todo \in SUBSET Files
      /\ row[op.id] = "none" /\ part[op.id] \in Nat
  BY JobShape, StoreAssumption DEF JobPlaces, Making, TypeOK
<1>2. \/ op'.at = "idle"
      \/ op'.at = "look" /\ op'.kind = "sweep" /\ op'.todo = op.todo
  BY <1>1, WalkFields, IdleFields DEF Ops
<1>3. /\ up'[op.id].state = "none"
      /\ \A u \in Uploads : u # op.id => up'[u] = up[u]
      /\ \A f \in Files : f # op.id => size'[f] = size[f]
  BY <1>1 DEF TypeOK, NoRecord
<1>4. Counting' /\ Marked'
  <2>1. CASE Works /\ part' = [part EXCEPT ![op.id] = 0]
    <3>1. Held(part') = Held(part) - part[op.id] + 0 /\ part[op.id] <= Held(part)
      <4>1. 0 \in 0..MaxSource
        BY StoreAssumption
      <4> QED BY <1>1, <2>1, <4>1, DiskMoves
    <3>2. /\ Occupied' = Occupied - part[op.id] /\ Occupied \in Nat
          /\ part[op.id] <= Occupied
      BY <1>1, <3>1, DiskCounts DEF Occupied
    <3>3. ASSUME phase = "open", ~slip
          PROVE  used' = Occupied'
      <4>1. /\ up[op.id].state = "open" /\ up[op.id].written \in Nat
        BY <1>1, <3>3, StoreAssumption DEF Attending, TypeOK, Records, NoRecord
      <4>2. used = Occupied + (up[op.id].written - part[op.id]) /\ used \in Nat
        BY <1>1, <3>3 DEF Counting, Uncounted, Vanished, Publishing, TypeOK
      <4>3. used' = used - up[op.id].written
        BY <1>1, <3>2, <4>1, <4>2 DEF Less
      <4> QED BY <1>1, <3>2, <4>1, <4>2, <4>3
    <3>4. Counting'
      BY <1>2, <2>1, <3>2, <3>3
      DEF Counting, Uncounted, Vanished, Publishing, Works, errors, TypeOK
    <3>5. Marked'
      BY <2>1 DEF Marked, Works, errors
    <3> QED BY <3>4, <3>5
  <2>2. CASE Slips
    BY <2>2 DEF Counting, Marked, Slips
  <2> QED BY <2>1, <2>2
<1>5. Attending'
  BY <1>1, <1>2, <1>3 DEF Attending, Committing
<1>6. Fresh'
  BY <1>1, <1>2, <1>3 DEF Fresh
<1>7. Whole' /\ Recounting'
  BY <1>1, <1>2, <1>3 DEF Whole, Recounting
<1>8. Cached'
  BY <1>1, <1>2, <1>3 DEF Cached, Unloaded, Recounting, Works, Slips, errors
<1> QED BY <1>4, <1>5, <1>6, <1>7, <1>8

-----------------------------------------------------------------------------
(***************************************************************************)
(* Artifacts.                                                              *)
(***************************************************************************)
LEMMA PublishCounts ==
  ASSUME IInv, CInv, NEW a \in Artifacts, NEW n \in Sizes, NEW m \in Sizes, Publish(a, n, m)
  PROVE  CInv'
<1> USE DEF IInv, CInv, Publish, tables, clock
<1>1. op.at = "idle" /\ a \in Files /\ phase = "open"
  BY DEF Ready, Idle, Files
<1>2. temp[a] = 0 /\ final[a] = 0 /\ size[a] = 0 /\ row[a] = "none"
  <2>1. a \notin Uploads
    BY StoreAssumption
  <2> QED BY <1>1, <2>1, StoreAssumption DEF Unused, Bytes, TypeOK, Rows
<1>3. op'.at = "copy" /\ op'.kind = "publish" /\ op'.id = a /\ op'.todo = {}
  BY <1>1, JobFields DEF Ops, JobPlaces
<1>4. size'[a] = n /\ n \in Nat /\ m \in Nat /\ \A f \in Files : f # a => size'[f] = size[f]
  BY <1>1, StoreAssumption DEF TypeOK, Sizes
<1>5. Counting'
  BY <1>1, <1>3 DEF Counting, Uncounted, Vanished, Publishing, Occupied
<1>6. Marked'
  BY DEF Marked
<1>7. Attending' /\ Fresh'
  BY <1>1, <1>2, <1>3 DEF Attending, Fresh, Committing
<1>8. Whole' /\ Cached' /\ Recounting'
  BY <1>1, <1>2, <1>3, <1>4 DEF Whole, Cached, Recounting, Unloaded
<1> QED BY <1>5, <1>6, <1>7, <1>8

LEMMA CopyCounts ==
  ASSUME IInv, CInv, Copy
  PROVE  CInv'
<1> USE DEF IInv, CInv, Copy, At, tables, clock, errors
<1>1. /\ op \in Jobs /\ op.id \in Artifacts /\ op.kind = "publish" /\ op.todo = {}
      /\ temp[op.id] = 0 /\ final[op.id] = 0
  BY JobShape DEF JobPlaces, Making, Walking, Fresh
<1>2. PICK n \in 0..MaxSource, at \in {"place", "scrap"} :
        temp' = [temp EXCEPT ![op.id] = n] /\ Go(at)
  OBVIOUS
<1>3. op'.at = at /\ op'.kind = op.kind /\ op'.id = op.id /\ op'.todo = {}
  BY <1>1, <1>2, GoShape DEF JobPlaces
<1>4. temp'[op.id] = n /\ n \in Nat
  BY <1>1, <1>2, StoreAssumption DEF TypeOK
<1>5. Occupied' = Occupied + n /\ Occupied \in Nat
  <2>1. Held(temp') = Held(temp) - 0 + n
    BY <1>1, <1>2, DiskMoves
  <2> QED BY <1>4, <2>1, DiskCounts DEF Occupied
<1>6. Counting'
  BY <1>1, <1>3, <1>4, <1>5 DEF Counting, Uncounted, Vanished, Publishing, TypeOK
<1>7. Marked'
  BY DEF Marked
<1>8. Attending' /\ Fresh'
  BY <1>1, <1>2, <1>3 DEF Attending, Fresh, Committing
<1>9. Whole' /\ Cached' /\ Recounting'
  BY <1>1, <1>2, <1>3 DEF Whole, Cached, Recounting, Unloaded
<1> QED BY <1>6, <1>7, <1>8, <1>9

LEMMA PlaceCounts ==
  ASSUME IInv, CInv, Place
  PROVE  CInv'
<1> USE DEF IInv, CInv, Place, At, tables, clock
<1>1. /\ op \in Jobs /\ op.id \in Artifacts /\ op.id \in Files /\ op.kind = "publish"
      /\ op.todo = {} /\ final[op.id] = 0 /\ row[op.id] = "none" /\ op.id \notin Uploads
      /\ temp[op.id] \in 0..MaxSource /\ temp[op.id] \in Nat
  BY JobShape, StoreAssumption DEF JobPlaces, Making, Walking, Fresh, TypeOK, Files
<1>2. CASE /\ Works /\ Go("row")
           /\ final' = [final EXCEPT ![op.id] = temp[op.id]]
           /\ temp' = [temp EXCEPT ![op.id] = 0]
  <2>1. op'.at = "row" /\ op'.kind = op.kind /\ op'.id = op.id /\ op'.todo = {}
    BY <1>1, <1>2, GoShape DEF JobPlaces
  <2>2. Occupied' = Occupied
    <3>1. Held(final') = Held(final) - 0 + temp[op.id]
      BY <1>1, <1>2, DiskMoves
    <3>2. Held(temp') = Held(temp) - temp[op.id] + 0
      <4>1. 0 \in 0..MaxSource
        BY StoreAssumption
      <4> QED BY <1>1, <1>2, <4>1, DiskMoves
    <3> QED BY <1>1, <3>1, <3>2, DiskCounts DEF Occupied
  <2>3. /\ final'[op.id] = temp[op.id]
        /\ \A f \in Files : f # op.id => final'[f] = final[f]
    BY <1>1, <1>2 DEF TypeOK
  <2>4. Counting' /\ Marked'
    BY <1>1, <1>2, <2>1, <2>2, <2>3
    DEF Counting, Marked, Uncounted, Vanished, Publishing, Works, errors
  <2>5. Attending' /\ Fresh'
    BY <1>1, <1>2, <2>1, <2>3 DEF Attending, Fresh, Committing, Files
  <2>6. Whole' /\ Cached' /\ Recounting'
    BY <1>1, <1>2, <2>1, <2>3 DEF Whole, Cached, Recounting, Unloaded, Works, errors
  <2> QED BY <2>4, <2>5, <2>6
<1>3. CASE Fails /\ Go("scrap") /\ UNCHANGED <<final, temp>>
  <2>1. op'.at = "scrap" /\ op'.kind = op.kind /\ op'.id = op.id /\ op'.todo = {}
    BY <1>1, <1>3, GoShape DEF JobPlaces
  <2>2. Counting' /\ Marked'
    BY <1>1, <1>3, <2>1
    DEF Counting, Marked, Uncounted, Vanished, Publishing, Occupied, Fails
  <2>3. Attending' /\ Fresh'
    BY <1>1, <1>3, <2>1 DEF Attending, Fresh, Committing
  <2>4. Whole' /\ Cached' /\ Recounting'
    BY <1>1, <1>3, <2>1 DEF Whole, Cached, Recounting, Unloaded, Fails
  <2> QED BY <2>2, <2>3, <2>4
<1> QED BY <1>2, <1>3

LEMMA ScrapCounts ==
  ASSUME IInv, CInv, Scrap
  PROVE  CInv'
<1> USE DEF IInv, CInv, Scrap, At, tables, clock
<1>1. /\ op.id \in Artifacts /\ op.id \in Files /\ row[op.id] = "none"
      /\ op.id \notin Uploads /\ temp[op.id] \in Nat
  BY StoreAssumption DEF Making, TypeOK, Files
<1>2. op'.at = "idle"
  BY IdleFields
<1>3. \A f \in Files : f # op.id => size'[f] = size[f]
  BY <1>1 DEF TypeOK
<1>4. Counting' /\ Marked'
  <2>1. CASE Works /\ temp' = [temp EXCEPT ![op.id] = 0]
    <3>1. Held(temp') = Held(temp) - temp[op.id] + 0
      <4>1. 0 \in 0..MaxSource
        BY StoreAssumption
      <4> QED BY <1>1, <2>1, <4>1, DiskMoves
    <3>2. Occupied' = Occupied - temp[op.id] /\ Occupied \in Nat
      BY <1>1, <3>1, DiskCounts DEF Occupied
    <3>3. Counting'
      BY <1>1, <1>2, <2>1, <3>2
      DEF Counting, Uncounted, Vanished, Publishing, Works, errors, TypeOK
    <3>4. Marked'
      BY <2>1 DEF Marked, Works, errors
    <3> QED BY <3>3, <3>4
  <2>2. CASE Slips
    BY <2>2 DEF Counting, Marked, Slips
  <2> QED BY <2>1, <2>2
<1>5. Attending' /\ Fresh'
  BY <1>1, <1>2 DEF Attending, Fresh, Committing
<1>6. Whole' /\ Recounting'
  BY <1>1, <1>2, <1>3 DEF Whole, Recounting
<1>7. Cached'
  BY <1>1, <1>2, <1>3 DEF Cached, Unloaded, Recounting, Works, Slips, errors
<1> QED BY <1>4, <1>5, <1>6, <1>7

-----------------------------------------------------------------------------
(***************************************************************************)
(* Walks.                                                                  *)
(***************************************************************************)
LEMMA WalksCount ==
  ASSUME IInv, CInv, Resolve \/ Read \/ List \/ Cleanup
  PROVE  CInv'
<1> USE DEF IInv, CInv, Begun, disk, tables, clock, errors
<1>1. PICK kind \in Ops, todo \in SUBSET Files :
        /\ Begun(Walk(kind, todo))
        /\ \A f \in todo : row[f] = "none" => up[f].state = "open"
  <2>1. \A f \in Known(Files) : row[f] # "none"
    BY DEF Known, Manifest, Rows
  <2>2. CASE Resolve
    <3>1. PICK S \in SUBSET Known(Uploads) : Begun(Walk("strict", S))
      BY <2>2 DEF Resolve
    <3>2. S \in SUBSET Known(Files) /\ S \in SUBSET Files
      BY DEF Known, Files
    <3> QED BY <2>1, <3>1, <3>2 DEF Ops
  <2>3. CASE Read
    <3>1. PICK a \in Known(Artifacts) : Begun(Walk("strict", {a}))
      BY <2>3 DEF Read
    <3>2. a \in Known(Files) /\ {a} \in SUBSET Files
      BY DEF Known, Files
    <3> QED BY <2>1, <3>1, <3>2 DEF Ops
  <2>4. CASE List
    <3>1. {a \in Artifacts : row[a] # "none"} \in SUBSET Files
      BY DEF Files
    <3> QED BY <2>4, <3>1 DEF List, Ops
  <2>5. CASE Cleanup
    <3>1. PICK idle \in SUBSET Active : Begun(Walk("sweep", idle \cup Visited))
      BY <2>5 DEF Cleanup
    <3>2. idle \cup Visited \in SUBSET Files
      BY DEF Active, Visited, Files
    <3>3. \A f \in idle \cup Visited : row[f] = "none" => up[f].state = "open"
      BY DEF Active, Visited
    <3> QED BY <3>1, <3>2, <3>3 DEF Ops
  <2> QED BY <2>2, <2>3, <2>4, <2>5
<1>2. op.at = "idle" /\ phase = "open"
  BY <1>1 DEF Ready, Idle
<1>3. op'.at = "look" /\ op'.kind = kind /\ op'.todo = todo
  BY <1>1, WalkFields
<1>4. /\ UNCHANGED <<part, temp, final, row, size, phase, up, index, cache, used, aged,
                     harmed, slip, loose, faults, crashes>>
  BY <1>1
<1>5. Counting' /\ Marked'
  BY <1>2, <1>3, <1>4
  DEF Counting, Marked, Uncounted, Vanished, Publishing, Occupied
<1>6. Attending' /\ Fresh'
  BY <1>1, <1>2, <1>3, <1>4 DEF Attending, Fresh, Committing
<1>7. Whole' /\ Cached' /\ Recounting'
  BY <1>2, <1>3, <1>4 DEF Whole, Cached, Recounting, Unloaded
<1> QED BY <1>5, <1>6, <1>7

\* While the cache is right, a manifest that a walk finds ready has its bytes.
LEMMA WasCached ==
  ASSUME IInv, CInv, NEW f \in Files, row[f] # "none", phase = "open", ~slip,
         op.at \in {"look", "delete"}
  PROVE  /\ cache[f] = row[f] /\ Was(f) = cache[f]
         /\ final[f] = IF Was(f) = "ready" THEN size[f] ELSE 0
<1>1. cache[f] = row[f] /\ final[f] = IF cache[f] = "ready" THEN size[f] ELSE 0
  BY DEF CInv, Cached, Unloaded
<1> QED BY <1>1 DEF Was, Manifest

LEMMA LookCounts ==
  ASSUME IInv, CInv, NEW f \in Files, Look(f)
  PROVE  CInv'
<1> USE DEF IInv, CInv, Look, At, disk, tables
<1>1. /\ op \in Walks /\ op.at = "look" /\ op.kind \in Ops /\ op.kind # "open"
      /\ op.todo \in SUBSET Files /\ row[f] # "none" /\ size[f] \in Nat /\ size[f] > 0
  BY WalkShape, StoreAssumption DEF WalkPlaces, TypeOK, Rows
<1>2. phase \notin {"opening", "down"} /\ phase' = phase
  BY <1>1 DEF Recounting
<1>3. PICK state \in States : Look(f)!2!(state)
  OBVIOUS
<1>4. \/ /\ state = "ready"
         /\ op'.at = "look" /\ op'.kind = op.kind /\ op'.todo = op.todo \ {f}
      \/ /\ state \in {"expired", "missing"}
         /\ op'.at = (IF state = "expired" THEN "delete" ELSE "note")
         /\ op'.kind = op.kind /\ op'.id = f /\ op'.todo = op.todo \ {f}
  <2>1. CASE state = "ready"
    BY <1>1, <1>3, <2>1 DEF Walks
  <2>2. CASE state # "ready"
    BY <1>1, <1>3, <2>2, JobFields DEF JobPlaces
  <2> QED BY <2>1, <2>2
<1>5. (slip' /\ loose') \/ (Works /\ state = StateOf(f))
  BY <1>3 DEF Sees, Slips
<1>6. ASSUME phase = "open", ~slip'
      PROVE  /\ ~slip /\ used' = used /\ \A g \in Files : g # f => cache'[g] = cache[g]
             /\ state # "missing" => cache'[f] = cache[f]
             /\ state = "missing" => cache'[f] = "missing" /\ final[f] = 0
  <2>1. ~slip /\ state = StateOf(f)
    BY <1>5, <1>6 DEF Works, errors
  <2>2. /\ cache[f] = row[f] /\ Was(f) = cache[f]
        /\ final[f] = IF Was(f) = "ready" THEN size[f] ELSE 0
    BY <1>1, <1>6, <2>1, WasCached
  <2>3. state = "missing" => final[f] = 0 /\ Was(f) # "ready"
    <3>1. final[f] \in Nat
      BY StoreAssumption DEF TypeOK
    <3> QED BY <1>1, <2>1, <2>2, <3>1 DEF StateOf
  <2> QED BY <1>3, <2>1, <2>2, <2>3 DEF Retired, TypeOK
<1>7. Counting' /\ Marked'
  <2>1. /\ Uncounted = 0 /\ Uncounted' = 0 /\ Vanished = 0 /\ Vanished' = 0
        /\ Occupied' = Occupied
    BY <1>1, <1>4 DEF Uncounted, Vanished, Publishing, Occupied
  <2>2. Counting'
    BY <1>2, <1>6, <2>1 DEF Counting
  <2>3. Marked'
    BY <1>5, <2>1 DEF Marked, Works, errors
  <2> QED BY <2>2, <2>3
<1>8. Attending' /\ Fresh'
  BY <1>1, <1>4 DEF Attending, Fresh, Committing
<1>9. Whole' /\ Recounting'
  BY <1>1, <1>2, <1>4 DEF Whole, Recounting
<1>10. Cached'
  BY <1>1, <1>2, <1>4, <1>6 DEF Cached, Unloaded
<1> QED BY <1>7, <1>8, <1>9, <1>10

LEMMA ExpelCounts ==
  ASSUME IInv, CInv, NEW u \in Uploads, Expel(u)
  PROVE  CInv'
<1> USE DEF IInv, CInv, Expel, At, disk, tables, clock, errors
<1>1. op.at = "look" /\ op.todo \in SUBSET Files /\ u \in op.todo /\ u \in Files
  BY WalkShape DEF WalkPlaces, Files
<1>2. op.kind = "sweep"
  BY <1>1 DEF Walking
<1>3. /\ op'.at = "discard" /\ op'.kind = "sweep" /\ op'.id = u /\ op'.todo = op.todo \ {u}
  <2>1. op.todo \ {u} \in SUBSET Files /\ u \in Files
    BY <1>1
  <2>2. "sweep" \in Ops /\ "discard" \in JobPlaces
    BY DEF Ops, JobPlaces
  <2>3. op' = Job("sweep", "discard", u, op.todo \ {u})
    OBVIOUS
  <2> HIDE DEF IInv, CInv, Expel
  <2> QED BY <2>1, <2>2, <2>3, JobFields
<1>4. phase = "open" =>
        up[u].state = "open" /\ up[u] \in Records /\ part[u] = up[u].written
  BY <1>1 DEF Attending, Staged, TypeOK, NoRecord
<1>5. Counting' /\ Marked'
  BY <1>1, <1>3, <1>4, DiskCounts
  DEF Counting, Marked, Uncounted, Vanished, Publishing, Occupied, Records, TypeOK
<1>6. Attending' /\ Fresh'
  BY <1>1, <1>3, <1>4 DEF Attending, Fresh, Committing
<1>7. Whole' /\ Recounting'
  BY <1>1, <1>2, <1>3 DEF Whole, Recounting
<1>8. Cached'
  BY <1>1, <1>2, <1>3 DEF Cached, Unloaded, Recounting
<1> QED BY <1>5, <1>6, <1>7, <1>8

LEMMA LoadedShape ==
  ASSUME TypeOK
  PROVE  Loaded \in [Files -> 0..MaxSource]
BY StoreAssumption DEF TypeOK, Loaded

LEMMA DeleteCounts ==
  ASSUME IInv, CInv, Delete
  PROVE  CInv'
<1> USE DEF IInv, CInv, Delete, At, tables, clock
<1>1. /\ op \in Jobs /\ op.id \in Files /\ op.kind \in Ops /\ op.todo \in SUBSET Files
      /\ row[op.id] # "none" /\ final[op.id] \in Nat
  BY JobShape, StoreAssumption DEF JobPlaces, Walking, TypeOK
<1>2. phase # "down" /\ (phase = "opening" <=> op.kind = "open")
  BY DEF Recounting, Opening
<1>3. \/ /\ op'.at = "note" /\ op'.kind = op.kind /\ op'.id = op.id /\ op'.todo = op.todo
      \/ /\ op.kind = "open" /\ row[op.id] = cache[op.id]
         /\ op'.at = "look" /\ op'.kind = op.kind /\ op'.todo = op.todo
  <2>1. CASE Go("note")
    BY <1>1, <2>1, GoShape DEF JobPlaces
  <2>2. CASE op.kind = "open" /\ row[op.id] = cache[op.id] /\ op' = Walk("open", op.todo)
    BY <1>1, <2>2, WalkFields
  <2> QED BY <2>1, <2>2 DEF Go
<1>4. /\ final'[op.id] \in {0, final[op.id]}
      /\ \A f \in Files : f # op.id => final'[f] = final[f]
  BY <1>1 DEF TypeOK
<1>5. (slip' /\ loose') \/ (Works /\ final' = [final EXCEPT ![op.id] = 0])
  BY DEF Slips
<1>6. ASSUME Works, final' = [final EXCEPT ![op.id] = 0]
      PROVE  Occupied' = Occupied - final[op.id] /\ Occupied \in Nat /\ final[op.id] <= Occupied
  <2>1. Held(final') = Held(final) - final[op.id] + 0 /\ final[op.id] <= Held(final)
    <3>1. 0 \in 0..MaxSource
      BY StoreAssumption
    <3> QED BY <1>1, <1>6, <3>1, DiskMoves
  <2> QED BY <1>1, <2>1, DiskCounts DEF Occupied
<1>7. Counting'
  <2>1. ASSUME phase = "open", ~slip'
        PROVE  used' = Occupied' /\ Occupied' \in Nat
    <3>1. ~slip /\ op.kind # "open" /\ Works /\ final' = [final EXCEPT ![op.id] = 0]
      BY <1>2, <1>5, <2>1 DEF Works, errors
    <3>2. used = Occupied
      BY <2>1, <3>1, DiskCounts DEF Counting, Uncounted, Vanished, Publishing, TypeOK
    <3>3. final[op.id] = IF Was(op.id) = "ready" THEN size[op.id] ELSE 0
      BY <1>1, <2>1, <3>1, WasCached
    <3> QED BY <1>1, <1>6, <3>1, <3>2, <3>3 DEF Retired, Less
  <2>2. Uncounted' = 0 /\ Vanished' = 0
    BY <1>3 DEF Uncounted, Vanished, Publishing
  <2> QED BY <2>1, <2>2 DEF Counting
<1>8. Marked'
  BY <1>5 DEF Marked, Works, errors
<1>9. Attending' /\ Fresh'
  <2>1. \A u \in Uploads : up[u].state = "open" => u # op.id /\ u \in Files
    BY <1>1 DEF Staged, Files
  <2> QED BY <1>1, <1>3, <1>4, <2>1 DEF Attending, Fresh, Committing
<1>10. Whole'
  BY <1>1, <1>4 DEF Whole
<1>11. Recounting'
  <2>1. ASSUME phase = "opening", ~slip'
        PROVE  /\ used' = Held(Loaded')
               /\ part' = Zero(Uploads) /\ temp' = Zero(Artifacts)
    <3>1. ~slip /\ used' = used /\ final' = [final EXCEPT ![op.id] = 0]
      BY <1>2, <1>5, <2>1 DEF Works, errors
    <3>2. Loaded' = Loaded
      <4>1. \A f \in Files : f # op.id => (Unloaded(f)' <=> Unloaded(f))
        BY <1>3, <2>1 DEF Unloaded
      <4>2. Unloaded(op.id)
        BY <2>1 DEF Unloaded
      <4>3. final'[op.id] = 0
        BY <1>1, <3>1 DEF TypeOK
      <4> QED BY <1>1, <1>4, <4>1, <4>2, <4>3 DEF Loaded
    <3> QED BY <2>1, <3>1, <3>2 DEF Recounting
  <2> QED BY <1>2, <1>3, <2>1 DEF Recounting
<1>12. Cached'
  <2>1. ASSUME phase \in {"opening", "open"}, ~slip', NEW f \in Files, row[f] # "none",
               ~Unloaded(f)'
        PROVE  /\ cache'[f] = row[f] \/ (op'.at = "note" /\ op'.id = f)
               /\ final'[f] = IF cache'[f] = "ready" THEN size[f] ELSE 0
    <3>1. ~slip /\ final' = [final EXCEPT ![op.id] = 0]
      BY <1>5, <2>1 DEF Works, errors
    <3>2. CASE f = op.id
      <4>1. final'[f] = 0
        BY <1>1, <3>1, <3>2 DEF TypeOK
      <4>2. cache'[f] # "ready"
        BY <1>1, <3>2 DEF Cached, Retired, TypeOK
      <4>3. cache'[f] = row[f] \/ (op'.at = "note" /\ op'.id = f)
        BY <1>3, <3>2
      <4> QED BY <4>1, <4>2, <4>3
    <3>3. CASE f # op.id
      <4>1. ~Unloaded(f)
        BY <1>3, <2>1, <3>3 DEF Unloaded
      <4>2. cache'[f] = cache[f] /\ final'[f] = final[f]
        BY <1>4, <3>3 DEF Retired, TypeOK
      <4> QED BY <2>1, <3>1, <4>1, <4>2 DEF Cached
    <3> QED BY <3>2, <3>3
  <2> QED BY <1>3, <2>1 DEF Cached
<1> QED BY <1>7, <1>8, <1>9, <1>10, <1>11, <1>12

LEMMA NoteCounts ==
  ASSUME IInv, CInv, Note
  PROVE  CInv'
<1> USE DEF IInv, CInv, Note, At, tables, clock
<1>1. /\ op \in Jobs /\ op.id \in Files /\ op.kind \in Ops /\ op.todo \in SUBSET Files
      /\ row[op.id] # "none" /\ cache[op.id] # "none"
  BY JobShape DEF JobPlaces, Walking
<1>2. phase # "down" /\ (phase = "opening" <=> op.kind = "open")
  BY DEF Recounting, Opening
<1>3. /\ \A f \in Files : row'[f] = "none" <=> row[f] = "none"
      /\ row'[op.id] \in {row[op.id], cache[op.id]}
      /\ \A f \in Files : f # op.id => row'[f] = row[f]
  BY <1>1 DEF TypeOK
<1>4. \/ op'.at = "idle" /\ phase' # "opening"
      \/ /\ op'.at = "look" /\ op'.kind = op.kind /\ op'.todo = op.todo
         /\ phase' = phase
  BY <1>1, <1>2, WalkFields, IdleFields
<1>5. (slip' /\ loose') \/ phase' = "broken" \/ (Works /\ row'[op.id] = cache[op.id])
  BY <1>1 DEF Slips, TypeOK
<1>6. phase' = phase \/ phase' = "broken"
  OBVIOUS
<1>7. Counting' /\ Marked'
  <2>1. /\ Uncounted = 0 /\ Uncounted' = 0 /\ Vanished = 0 /\ Vanished' = 0
        /\ Occupied' = Occupied
    BY <1>4 DEF Uncounted, Vanished, Publishing, Occupied
  <2>2. (slip' /\ loose') \/ (slip' = slip /\ loose' = loose)
    BY DEF Slips, Works, Fails, errors
  <2> QED BY <1>6, <2>1, <2>2 DEF Counting, Marked
<1>8. Attending' /\ Fresh'
  BY <1>1, <1>3, <1>4, <1>6 DEF Attending, Fresh, Committing
<1>9. Whole'
  BY <1>3 DEF Whole
<1>10. Recounting'
  <2>1. ASSUME phase' = "opening" PROVE Loaded' = Loaded
    <3>1. \A f \in Files : Unloaded(f)' <=> Unloaded(f)
      BY <1>4, <1>6, <2>1 DEF Unloaded
    <3> QED BY <1>3, <3>1 DEF Loaded
  <2>2. ASSUME phase' = "opening", ~slip'
        PROVE  /\ used' = Held(Loaded')
               /\ part' = Zero(Uploads) /\ temp' = Zero(Artifacts)
    BY <1>5, <1>6, <2>1, <2>2 DEF Recounting, Works, errors
  <2> QED BY <1>2, <1>4, <1>6, <2>2 DEF Recounting
<1>11. Cached'
  <2>1. ASSUME phase' \in {"opening", "open"}, ~slip', NEW f \in Files, row'[f] # "none",
               ~Unloaded(f)'
        PROVE  cache[f] = row'[f] /\ final[f] = IF cache[f] = "ready" THEN size[f] ELSE 0
    <3>1. ~slip /\ row'[op.id] = cache[op.id]
      BY <1>5, <2>1 DEF Works, errors
    <3>2. ~Unloaded(f) /\ row[f] # "none" /\ phase' = phase
      BY <1>3, <1>4, <1>6, <2>1 DEF Unloaded
    <3> QED BY <1>3, <2>1, <3>1, <3>2 DEF Cached
  <2> QED BY <1>4, <2>1 DEF Cached
<1> QED BY <1>7, <1>8, <1>9, <1>10, <1>11

LEMMA DoneCounts ==
  ASSUME IInv, CInv, Done
  PROVE  CInv'
<1> USE DEF IInv, CInv, Done, At, disk, tables, clock, errors
<1>1. op \in Walks /\ op.kind \in Ops
  BY WalkShape DEF WalkPlaces
<1>2. \/ op.kind # "open" /\ op'.at = "idle"
      \/ /\ op.kind = "open" /\ op'.at = "orphans" /\ op'.kind = "open" /\ op'.todo = {}
  BY <1>1, IdleFields DEF Walks
<1>3. phase = "opening" <=> op.kind = "open"
  BY DEF Recounting, Opening
<1>4. \A f \in Files : ~Unloaded(f) /\ ~Unloaded(f)'
  BY <1>2, <1>3 DEF Unloaded
<1>5. Counting' /\ Marked'
  BY <1>2
  DEF Counting, Marked, Uncounted, Vanished, Publishing, Occupied
<1>6. Attending' /\ Fresh'
  BY <1>2 DEF Attending, Fresh, Committing
<1>7. Whole' /\ Cached'
  BY <1>2, <1>4 DEF Whole, Cached
<1>8. Recounting'
  <2>1. Loaded' = Loaded
    BY <1>4 DEF Loaded
  <2> QED BY <1>2, <1>3, <2>1 DEF Recounting
<1> QED BY <1>5, <1>6, <1>7, <1>8

-----------------------------------------------------------------------------
(***************************************************************************)
(* open(), the process and the world.                                      *)
(***************************************************************************)
LEMMA OpenCounts ==
  ASSUME IInv, CInv, Open
  PROVE  CInv'
<1> USE DEF IInv, CInv, Open, disk, tables, clock, errors
<1>1. op.at = "idle" /\ used = 0
  BY DEF Recounting
<1>2. op'.at = "clear" /\ op'.kind = "open" /\ op'.todo = {}
  OBVIOUS
<1>3. \A f \in Files : Unloaded(f)'
  BY <1>2 DEF Unloaded
<1>4. Counting' /\ Marked'
  BY <1>1, <1>2
  DEF Counting, Marked, Uncounted, Vanished, Publishing, Occupied
<1>5. Attending' /\ Fresh'
  BY <1>1, <1>2 DEF Attending, Fresh, Committing
<1>6. Whole' /\ Cached'
  BY <1>2, <1>3 DEF Whole, Cached
<1>7. Recounting'
  <2>1. Loaded' = Zero(Files)
    BY <1>3 DEF Loaded, Zero
  <2>2. used' = Held(Loaded')
    BY <1>1, <2>1, HeldZero
  <2> QED BY <1>2, <2>2 DEF Recounting
<1> QED BY <1>4, <1>5, <1>6, <1>7

LEMMA ClearCounts ==
  ASSUME IInv, CInv, Clear
  PROVE  CInv'
<1> USE DEF IInv, CInv, Clear, At, tables, clock
<1>1. op.kind = "open" /\ phase = "opening"
  BY DEF Opening
<1>2. op'.at = "look" /\ op'.kind = "open" /\ op'.todo = {f \in Files : row[f] # "none"}
  BY DEF Walk
<1>3. /\ \A f \in Files : Unloaded(f)
      /\ \A f \in Files : row[f] # "none" => Unloaded(f)'
  BY <1>1, <1>2 DEF Unloaded
<1>4. \A u \in Uploads : up[u].state = "none"
  BY <1>1 DEF Opening, NoUploads, NoRecord
<1>5. Counting' /\ Attending'
  BY <1>1 DEF Counting, Attending
<1>6. Fresh' /\ Whole' /\ Cached'
  BY <1>2, <1>3, <1>4 DEF Fresh, Whole, Cached
<1>7. Recounting'
  <2>1. Loaded' = Loaded
    BY <1>3 DEF Loaded
  <2>2. slip' \/ (slip' = slip /\ part' = Zero(Uploads) /\ temp' = Zero(Artifacts))
    BY DEF Slips, Works, errors
  <2> QED BY <1>1, <1>2, <2>1, <2>2 DEF Recounting
<1>8. Marked'
  BY DEF Marked, Slips, Works, errors
<1> QED BY <1>5, <1>6, <1>7, <1>8

LEMMA LoadCounts ==
  ASSUME IInv, CInv, NEW f \in Files, Load(f)
  PROVE  CInv'
<1> USE DEF IInv, CInv, Load, At, disk, tables
<1>1. /\ op.todo \in SUBSET Files /\ phase = "opening" /\ phase' = phase
      /\ row[f] # "none" /\ Unloaded(f)
      /\ size[f] \in Nat /\ size[f] > 0 /\ final[f] \in 0..MaxSource /\ final[f] \in Nat
  BY WalkShape, StoreAssumption DEF WalkPlaces, Opening, Walking, Unloaded, TypeOK, Rows
<1>2. PICK state \in States : Load(f)!2!(state)
  OBVIOUS
<1>3. /\ op'.at \in {"look", "note", "delete"} /\ op'.kind = "open"
      /\ op'.todo = op.todo \ {f}
      /\ op'.at = "delete" <=> state # "ready"
      /\ op'.at \in {"note", "delete"} => op'.id = f
      /\ op'.at = "look" => row[f] = "ready"
  <2>1. /\ Walk("open", op.todo \ {f}).at = "look" /\ Walk("open", op.todo \ {f}).kind = "open"
        /\ Walk("open", op.todo \ {f}).todo = op.todo \ {f}
    BY DEF Walk
  <2>2. ASSUME NEW at \in JobPlaces
        PROVE  LET job == Job("open", at, f, op.todo \ {f})
               IN  job.at = at /\ job.kind = "open" /\ job.id = f /\ job.todo = op.todo \ {f}
    BY DEF Job
  <2> QED BY <1>2, <2>1, <2>2 DEF JobPlaces
<1>4. (slip' /\ loose') \/ (Works /\ state = StateOf(f))
  BY <1>2 DEF Sees, Slips
<1>5. /\ \A g \in Files : g # f => (Unloaded(g)' <=> Unloaded(g)) /\ cache'[g] = cache[g]
      /\ Unloaded(f)' <=> state # "ready"
      /\ cache'[f] = state
  BY <1>1, <1>2, <1>3 DEF Unloaded, TypeOK
<1>6. ~slip' /\ state = "ready" => final[f] = size[f]
  BY <1>1, <1>4 DEF Whole, StateOf
<1>7. Counting' /\ Attending'
  BY <1>1 DEF Counting, Attending
<1>8. Fresh'
  <2>1. \A u \in Uploads : up[u].state = "none"
    BY <1>1 DEF Opening, NoUploads, NoRecord
  <2> QED BY <1>3, <2>1 DEF Fresh
<1>9. Whole'
  BY DEF Whole
<1>10. Cached'
  <2>1. ASSUME ~slip', NEW g \in Files, row[g] # "none", ~Unloaded(g)'
        PROVE  /\ cache'[g] = row[g] \/ (op'.at = "note" /\ op'.id = g)
               /\ final[g] = IF cache'[g] = "ready" THEN size[g] ELSE 0
    <3>1. CASE g = f
      BY <1>3, <1>5, <1>6, <2>1, <3>1
    <3>2. CASE g # f
      <4>1. ~slip /\ ~Unloaded(g)
        BY <1>4, <1>5, <2>1, <3>2 DEF Works, errors
      <4> QED BY <1>1, <1>5, <2>1, <3>2, <4>1 DEF Cached
    <3> QED BY <3>1, <3>2
  <2> QED BY <1>3, <1>5, <2>1 DEF Cached
<1>11. Recounting'
  <2>1. ASSUME ~slip'
        PROVE  used' = Held(Loaded') /\ part' = Zero(Uploads) /\ temp' = Zero(Artifacts)
    <3>1. ~slip
      BY <1>4, <2>1 DEF Works, errors
    <3>2. used = Held(Loaded) /\ part = Zero(Uploads) /\ temp = Zero(Artifacts)
      BY <1>1, <3>1 DEF Recounting
    <3>3. Loaded[f] = 0
      BY <1>1 DEF Loaded
    <3>4. CASE state = "ready"
      <4>1. Loaded' = [Loaded EXCEPT ![f] = final[f]]
        BY <1>1, <1>5, <3>4 DEF Loaded
      <4>2. Held([Loaded EXCEPT ![f] = final[f]]) = Held(Loaded) - Loaded[f] + final[f]
        <5>1. Loaded \in [Files -> 0..MaxSource] /\ IsFiniteSet(Files)
          BY LoadedShape, FilesFinite
        <5> HIDE DEF IInv, CInv, Load
        <5> QED BY <1>1, <5>1, HeldExcept
      <4>3. Held(Loaded) \in Nat
        BY LoadedShape, FilesFinite, ChunksFinite
      <4>4. used' = used + size[f]
        BY <1>2, <3>4
      <4> QED BY <1>1, <1>6, <2>1, <3>2, <3>3, <3>4, <4>1, <4>2, <4>3, <4>4
    <3>5. CASE state # "ready"
      <4>1. Loaded' = Loaded
        BY <1>1, <1>5, <3>5 DEF Loaded
      <4> QED BY <1>2, <3>2, <3>5, <4>1
    <3> QED BY <3>2, <3>4, <3>5
  <2> QED BY <1>1, <1>3, <2>1 DEF Recounting
<1>12. Marked'
  BY <1>4 DEF Marked, Works, errors
<1> QED BY <1>7, <1>8, <1>9, <1>10, <1>11, <1>12

LEMMA OrphansCount ==
  ASSUME IInv, CInv, Orphans
  PROVE  CInv'
<1> USE DEF IInv, CInv, Orphans, At, tables, clock
<1>1. op.kind = "open" /\ phase = "opening" /\ op.todo = {} /\ op'.at = "idle"
  BY IdleFields DEF Opening, Recounting
<1>2. /\ \A f \in Files : ~Unloaded(f) /\ ~Unloaded(f)'
      /\ \A u \in Uploads : up[u].state = "none"
  BY <1>1 DEF Unloaded, Opening, NoUploads, NoRecord
<1>3. /\ final' \in [Files -> 0..MaxSource]
      /\ \A f \in Files : row[f] # "none" => final'[f] = final[f] /\ size'[f] = size[f]
      /\ \A f \in Files : final'[f] <= final[f]
  BY StoreAssumption DEF TypeOK, Orphan
<1>4. Counting'
  <2>1. ASSUME ~slip' PROVE used' = Occupied' /\ Occupied' \in Nat
    <3>1. ~slip /\ final' = [f \in Files |-> IF Orphan(f) THEN 0 ELSE final[f]]
      BY <2>1 DEF Slips, Works, errors
    <3>2. used = Held(Loaded) /\ part = Zero(Uploads) /\ temp = Zero(Artifacts)
      BY <1>1, <3>1 DEF Recounting
    <3>3. final' = Loaded
      BY <1>2, <3>1 DEF Loaded, Orphan
    <3>4. Held(final') \in Nat
      BY <1>3, FilesFinite, ChunksFinite
    <3> QED BY <3>2, <3>3, <3>4, HeldZero DEF Occupied
  <2> QED BY <1>1, <2>1 DEF Counting, Uncounted, Vanished, Publishing
<1>5. Attending' /\ Fresh'
  BY <1>1, <1>2 DEF Attending, Fresh, Committing
<1>6. Whole'
  BY <1>3 DEF Whole
<1>7. Cached'
  <2>1. slip' \/ slip' = slip
    BY DEF Slips, Works, errors
  <2> QED BY <1>1, <1>2, <1>3, <2>1 DEF Cached
<1>8. Recounting'
  BY <1>1 DEF Recounting
<1>9. Marked'
  BY DEF Marked, Slips, Works, errors
<1> QED BY <1>4, <1>5, <1>6, <1>7, <1>8, <1>9

LEMMA CloseCounts ==
  ASSUME IInv, CInv, Close
  PROVE  CInv'
<1> USE DEF IInv, CInv, Close, disk, clock, errors
<1>1. \A u \in Uploads : up'[u].state = "none"
  BY DEF NoUploads, NoRecord
<1>2. Counting' /\ Attending' /\ Recounting'
  BY DEF Counting, Attending, Recounting, Opening
<1>3. Fresh' /\ Whole' /\ Cached'
  BY <1>1 DEF Fresh, Whole, Cached
<1>4. Marked'
  BY DEF Marked, Occupied
<1> QED BY <1>2, <1>3, <1>4

LEMMA DownCounts ==
  ASSUME IInv, CInv, Down
  PROVE  CInv'
<1> USE DEF IInv, CInv, Down, disk, clock
<1>1. \A u \in Uploads : up'[u].state = "none"
  BY DEF NoUploads, NoRecord
<1>2. op'.at = "idle"
  BY IdleFields
<1>3. Counting' /\ Attending' /\ Recounting'
  BY <1>2 DEF Counting, Attending, Recounting
<1>4. Fresh' /\ Whole' /\ Cached'
  BY <1>1, <1>2 DEF Fresh, Whole, Cached
<1>5. Marked'
  BY DEF Marked
<1> QED BY <1>3, <1>4, <1>5

LEMMA AgeCounts ==
  ASSUME IInv, CInv, NEW f \in Files, Age(f)
  PROVE  CInv'
<1> USE DEF IInv, CInv, Age, disk, memory, errors
<1>1. Counting' /\ Attending' /\ Fresh' /\ Whole'
  BY DEF Counting, Attending, Fresh, Whole, Uncounted, Vanished, Publishing, Committing, Occupied
<1>2. Cached' /\ Marked'
  BY DEF Cached, Unloaded, Marked, Occupied
<1>3. Recounting'
  BY DEF Recounting, Loaded, Unloaded
<1> QED BY <1>1, <1>2, <1>3

LEMMA VanishCounts ==
  ASSUME IInv, CInv, NEW f \in Files, Vanish(f)
  PROVE  CInv'
<1> USE DEF IInv, CInv, Vanish, memory
<1>1. op.at = "idle" /\ slip' /\ loose'
  BY DEF Idle, Slips
<1>2. /\ final'[f] = 0 /\ \A g \in Files : g # f => final'[g] = final[g]
  BY DEF TypeOK
<1>3. Counting' /\ Marked'
  BY <1>1 DEF Counting, Marked
<1>4. Attending' /\ Fresh'
  BY <1>1, <1>2 DEF Attending, Fresh, Committing, Files
<1>5. Whole' /\ Cached' /\ Recounting'
  BY <1>1, <1>2 DEF Whole, Cached, Recounting
<1> QED BY <1>3, <1>4, <1>5

-----------------------------------------------------------------------------
(***************************************************************************)
(* The inductive invariant and what follows from it.                       *)
(***************************************************************************)
LEMMA CallCounts == ASSUME IInv, CInv, Call \/ Cleanup PROVE CInv'
<1>1. CASE \E k \in Any({x \in Keys : Free(x)}), u \in Any(Uploads \cap Unused),
              n \in Sizes : Begin(k, u, n)
  <2>1. PICK k \in Any({x \in Keys : Free(x)}), u \in Any(Uploads \cap Unused),
             n \in Sizes : Begin(k, u, n)
    BY <1>1
  <2>2. k \in Keys /\ u \in Uploads
    BY AnyIn
  <2> QED BY <2>1, <2>2, BeginCounts
<1>2. CASE \E u \in Uploads : Chunk(u) \/ Abort(u) \/ Commit(u)
  BY <1>2, ChunkCounts, AbortCounts, CommitCounts
<1>3. CASE \E a \in Any(Artifacts \cap Unused), n, m \in Sizes : Publish(a, n, m)
  <2>1. PICK a \in Any(Artifacts \cap Unused), n \in Sizes, m \in Sizes : Publish(a, n, m)
    BY <1>3
  <2>2. a \in Artifacts
    BY AnyIn
  <2> QED BY <2>1, <2>2, PublishCounts
<1>4. CASE Resolve \/ Read \/ List \/ Cleanup
  BY <1>4, WalksCount
<1> QED BY <1>1, <1>2, <1>3, <1>4 DEF Call, Served, Deliver

LEMMA CNextKeeps == ASSUME IInv, CInv, [Next]_vars PROVE CInv'
<1>1. CASE Call \/ Cleanup
  BY <1>1, CallCounts
<1>2. CASE Step
  BY <1>2, RenameCounts, ChmodCounts, RowCounts, UnlinkCounts, DiscardCounts, CopyCounts,
     PlaceCounts, ScrapCounts, LookCounts, LoadCounts, ExpelCounts, DeleteCounts,
     NoteCounts, DoneCounts, ClearCounts, OrphansCount DEF Step
<1>3. CASE Open \/ World
  BY <1>3, OpenCounts, CloseCounts, DownCounts, AgeCounts, VanishCounts DEF World
<1>4. CASE UNCHANGED vars
  <2>1. UNCHANGED <<part, temp, final, row, size, phase, op, up, index, cache, used,
                    aged, harmed, slip, loose, faults, crashes>>
    BY <1>4 DEF vars, disk, memory, clock, errors
  <2>2. Counting' /\ Attending' /\ Fresh' /\ Whole'
    BY <2>1 DEF CInv, Counting, Attending, Fresh, Whole, Uncounted, Vanished, Publishing,
       Committing, Occupied
  <2>3. Cached' /\ Recounting' /\ Marked'
    BY <2>1 DEF CInv, Cached, Recounting, Loaded, Unloaded, Marked, Occupied
  <2> QED BY <2>2, <2>3 DEF CInv
<1> QED BY <1>1, <1>2, <1>3, <1>4 DEF Next

THEOREM CountInvariance == Spec => []CInv
<1>1. IInv /\ CInv /\ [Next]_vars => CInv'
  BY CNextKeeps
<1> QED BY InitCInv, <1>1, Invariance, PTL DEF Spec

(***************************************************************************)
(* Accounting: between operations #usedBytes is what the disk holds, after *)
(* any crash and any failure that the code undoes, for any number of files *)
(* of any sizes.                                                           *)
(***************************************************************************)
THEOREM Bookkeeping == Spec => []Accounting
<1>1. ASSUME IInv, CInv, Ready, ~slip PROVE used = Occupied
  <2>1. op.at = "idle" /\ phase = "open"
    BY <1>1 DEF Ready, Idle
  <2>2. used \in Nat
    BY <1>1 DEF IInv, TypeOK
  <2> QED
    BY <1>1, <2>1, <2>2, DiskCounts
    DEF IInv, CInv, Counting, Uncounted, Vanished, Publishing
<1>2. IInv /\ CInv => Accounting
  BY <1>1 DEF Accounting
<1> QED BY <1>2, Invariance, CountInvariance, PTL

-----------------------------------------------------------------------------
(***************************************************************************)
(* The limit.  What the quota is tested with is what the disk holds; the   *)
(* copy under way has its room before it has any bytes.                    *)
(***************************************************************************)

\* The bytes whose room was tested, and those still to come.
Within == Held(part) + Held(Tested) + Held(final)
Coming == IF op.at = "copy" THEN size[op.id] ELSE 0

\* A copy has grown past its test only until it is given up or cleared.
Grown ==
  \A a \in Artifacts :
    temp[a] > size[a] =>
      phase = "down" \/ op.at = "clear" \/ (op.at = "scrap" /\ op.id = a)

\* A copy that has its final name has no temporary file.
Placed == Publishing => temp[op.id] = 0

LInv == loose \/ (Within + Coming <= Limit /\ Grown /\ Placed)

LEMMA TestedShape ==
  ASSUME TypeOK
  PROVE  /\ Tested \in [Artifacts -> 0..MaxSource]
         /\ \A a \in Artifacts : Tested[a] <= temp[a] /\ Tested[a] <= size[a]
<1>1. \A a \in Artifacts : size[a] \in 0..MaxSource /\ temp[a] \in 0..MaxSource
  BY StoreAssumption DEF TypeOK, Files
<1> QED BY <1>1, StoreAssumption DEF Tested

LEMMA WithinCounts ==
  ASSUME TypeOK
  PROVE  /\ Held(Tested) \in Nat /\ Within \in Nat
         /\ Within <= Occupied
<1>1. Held(Tested) \in Nat
  BY TestedShape, FilesFinite, ChunksFinite
<1>2. Held(Tested) <= Held(temp)
  BY TestedShape, FilesFinite, HeldLess DEF TypeOK
<1> QED BY <1>1, <1>2, DiskCounts DEF Within, Occupied

LEMMA CopyExcept ==
  \A h \in [Artifacts -> 0..MaxSource], a \in Artifacts, n \in 0..MaxSource :
    Held([h EXCEPT ![a] = n]) = Held(h) - h[a] + n
BY FilesFinite, HeldExcept

\* After a step too.
LEMMA TestedPrimed ==
  ASSUME TypeOK'
  PROVE  /\ part' \in [Uploads -> 0..MaxSource] /\ final' \in [Files -> 0..MaxSource]
         /\ Tested' \in [Artifacts -> 0..MaxSource]
         /\ Held(part') \in Nat /\ Held(Tested') \in Nat /\ Held(final') \in Nat
<1>1. \A a \in Artifacts : size'[a] \in 0..MaxSource /\ temp'[a] \in 0..MaxSource
  BY StoreAssumption DEF TypeOK, Files
<1>2. Tested' \in [Artifacts -> 0..MaxSource]
  BY <1>1, StoreAssumption DEF Tested
<1>3. part' \in [Uploads -> 0..MaxSource] /\ final' \in [Files -> 0..MaxSource]
  BY StagedSizes DEF TypeOK
<1> QED BY <1>2, <1>3, FilesFinite, ChunksFinite

(***************************************************************************)
(* A step that adds no bytes, and no size to a file that has some.         *)
(***************************************************************************)
LEMMA Shrinks ==
  ASSUME TypeOK, TypeOK',
         \A u \in Uploads : part'[u] <= part[u],
         \A a \in Artifacts : temp'[a] <= temp[a] /\ (size'[a] <= size[a] \/ temp[a] = 0),
         \A f \in Files : final'[f] <= final[f]
  PROVE  Within' \in Nat /\ Within' <= Within
<1>1. \A a \in Artifacts : Tested'[a] <= Tested[a]
  <2>1. ASSUME NEW a \in Artifacts
        PROVE  /\ size[a] \in Nat /\ temp[a] \in Nat /\ size'[a] \in Nat /\ temp'[a] \in Nat
    BY StoreAssumption DEF TypeOK, Files
  <2> QED BY <2>1 DEF Tested
<1>2. /\ part \in [Uploads -> 0..MaxSource] /\ final \in [Files -> 0..MaxSource]
      /\ Tested \in [Artifacts -> 0..MaxSource]
  BY TestedShape, StagedSizes DEF TypeOK
<1>3. Held(part') <= Held(part)
  BY <1>2, TestedPrimed, FilesFinite, HeldLess
<1>4. Held(Tested') <= Held(Tested)
  BY <1>1, <1>2, TestedPrimed, FilesFinite, HeldLess
<1>5. Held(final') <= Held(final)
  BY <1>2, TestedPrimed, FilesFinite, HeldLess
<1> QED BY <1>3, <1>4, <1>5, TestedPrimed, WithinCounts, DiskCounts DEF Within

(***************************************************************************)
(* Such a step keeps the limit, if it starts no copy and leaves none that  *)
(* has grown past its test.                                                *)
(***************************************************************************)
LEMMA LimitKept ==
  ASSUME IInv, LInv, TypeOK', ~loose, Within' \in Nat, Within' <= Within,
         op'.at # "copy" \/ UNCHANGED <<op, size>>, Grown', Placed'
  PROVE  LInv'
<1>1. Coming \in Nat
  BY StoreAssumption DEF Coming, IInv, TypeOK, Making, Files
<1>2. Coming' \in Nat /\ Coming' <= Coming
  BY <1>1 DEF Coming
<1>3. Within \in Nat
  BY WithinCounts DEF IInv
<1>4. Within + Coming <= Limit
  BY DEF LInv
<1>5. \A v, w, c, d \in Nat : w <= v /\ d <= c /\ v + c <= Limit => w + d <= Limit
  BY StoreAssumption
<1>6. Within' + Coming' <= Limit
  BY <1>1, <1>2, <1>3, <1>4, <1>5
<1> QED BY <1>6 DEF LInv

\* A copy within its test stays so.
LEMMA LimitStays ==
  ASSUME IInv, LInv, TypeOK', ~loose, phase # "down", op.at \notin {"clear", "scrap"},
         \A u \in Uploads : part'[u] <= part[u],
         \A a \in Artifacts : temp'[a] = temp[a] /\ size'[a] = size[a],
         \A f \in Files : final'[f] <= final[f],
         op'.at # "copy", Placed'
  PROVE  LInv'
<1>1. \A a \in Artifacts : size[a] \in Nat /\ temp[a] \in Nat
  BY StoreAssumption DEF IInv, TypeOK, Files
<1>2. \A a \in Artifacts : temp[a] <= size[a]
  BY <1>1 DEF LInv, Grown
<1>3. Grown'
  BY <1>1, <1>2 DEF Grown
<1>4. Within' \in Nat /\ Within' <= Within
  BY <1>1, Shrinks DEF IInv
<1> QED BY <1>3, <1>4, LimitKept

\* The steps that move no bytes and start no copy.
LEMMA LimitUnmoved ==
  ASSUME IInv, LInv, TypeOK', ~loose, phase # "down", op.at \notin {"clear", "scrap"},
         UNCHANGED <<part, temp, final>>, \A a \in Artifacts : size'[a] = size[a],
         op'.at # "copy", Publishing' => Publishing /\ op'.id = op.id
  PROVE  LInv'
<1>1. Placed'
  BY DEF LInv, Placed
<1>2. /\ \A u \in Uploads : part'[u] <= part[u]
      /\ \A f \in Files : final'[f] <= final[f]
  BY StoreAssumption DEF IInv, TypeOK
<1> QED BY <1>1, <1>2, LimitStays

LEMMA LimitUploads ==
  ASSUME IInv, CInv, LInv, TypeOK', ~loose,
         \/ \E k \in Keys, u \in Uploads, n \in Sizes : Begin(k, u, n)
         \/ \E u \in Uploads : Abort(u) \/ Commit(u) \/ Expel(u)
         \/ Chmod \/ Row
  PROVE  LInv'
<1>1. phase # "down"
  BY DEF CInv, Recounting, Begin, Abort, Commit, Expel, Chmod, Row, Ready, At
<1>2. CASE \E k \in Keys, u \in Uploads, n \in Sizes : Begin(k, u, n)
  <2>1. PICK k \in Keys, u \in Uploads, n \in Sizes : Begin(k, u, n)
    BY <1>2
  <2>2. op.at = "idle" /\ op' = op
    BY <2>1 DEF Begin, Ready, Idle
  <2>3. \A a \in Artifacts : size'[a] = size[a]
    BY <2>1, StoreAssumption DEF Begin, IInv, TypeOK, Files
  <2>4. UNCHANGED <<part, temp, final>>
    BY <2>1 DEF Begin
  <2> QED BY <1>1, <2>2, <2>3, <2>4, LimitUnmoved DEF Publishing
<1>3. CASE \E u \in Uploads : Abort(u) \/ Commit(u) \/ Expel(u)
  <2>1. PICK u \in Uploads : Abort(u) \/ Commit(u) \/ Expel(u)
    BY <1>3
  <2>2. op.at \in {"idle", "look"} /\ op'.at \in {"discard", "rename"}
    BY <2>1 DEF Abort, Commit, Expel, Ready, Idle, At, Job
  <2>3. UNCHANGED <<part, temp, final, size>>
    BY <2>1 DEF Abort, Commit, Expel, disk
  <2> QED BY <1>1, <2>2, <2>3, LimitUnmoved DEF Publishing
<1>4. CASE Chmod
  <2>1. op \in Jobs /\ op.kind # "publish" /\ op.at = "chmod"
    BY <1>4, JobShape DEF Chmod, At, JobPlaces, IInv, Making
  <2>2. op'.at \in {"row", "discard"} /\ op'.kind = op.kind
    BY <1>4, <2>1 DEF Chmod, Go, Jobs
  <2>3. UNCHANGED <<part, temp, final, size>>
    BY <1>4 DEF Chmod, disk
  <2> QED BY <1>1, <2>1, <2>2, <2>3, LimitUnmoved DEF Publishing
<1>5. CASE Row
  <2>1. op \in Jobs /\ op.at = "row"
    BY <1>5, JobShape DEF Row, At, JobPlaces, IInv
  <2>2. op'.at = "idle" \/ (op'.at = "unlink" /\ op'.kind = op.kind /\ op'.id = op.id)
    BY <1>5, <2>1 DEF Row, Go, Jobs, Idle
  <2>3. UNCHANGED <<part, temp, final, size>>
    BY <1>5 DEF Row
  <2> QED BY <1>1, <2>1, <2>2, <2>3, LimitUnmoved DEF Publishing
<1> QED BY <1>2, <1>3, <1>4, <1>5

LEMMA LimitChunk ==
  ASSUME IInv, CInv, LInv, TypeOK', ~loose, NEW u \in Uploads, Chunk(u)
  PROVE  LInv'
<1>1. op.at = "idle" /\ phase = "open"
  BY DEF Chunk, Ready, Idle
<1>2. CASE UNCHANGED op /\ part' = [part EXCEPT ![u] = @ + 1]
  <2>1. used = Occupied
    <3>1. ~slip
      BY DEF CInv, Marked
    <3>2. used \in Nat /\ Occupied \in Nat
      BY DiskCounts DEF IInv, TypeOK
    <3> QED BY <1>1, <3>1, <3>2 DEF CInv, Counting, Uncounted, Vanished, Publishing
  <2>2. UNCHANGED <<temp, final, size>> /\ used + 1 <= Limit
    BY DEF Chunk, Room
  <2>3. part[u] \in Nat /\ part[u] + 1 \in 0..MaxSource
    <3>1. up[u] \in Records /\ up[u].written < size[u] /\ part[u] = up[u].written
      BY <1>1 DEF Chunk, IInv, TypeOK, Staged, NoRecord
    <3>2. up[u].written \in Nat /\ size[u] \in Nat /\ size[u] <= MaxSource
      BY <3>1, StoreAssumption DEF Records, IInv, TypeOK, Files
    <3> QED BY <3>1, <3>2, StoreAssumption
  <2>4. Held(part') = Held(part) + 1
    <3>1. Held(part') = Held(part) - part[u] + (part[u] + 1)
      BY <1>2, <2>3, DiskMoves DEF IInv
    <3> QED BY <2>3, <3>1, DiskCounts DEF IInv
  <2>5. Tested' = Tested
    BY <2>2 DEF Tested
  <2>6. Within' = Within + 1
    BY <2>2, <2>4, <2>5, WithinCounts, DiskCounts DEF Within, IInv
  <2>7. Within \in Nat /\ Within <= used
    BY <2>1, WithinCounts DEF IInv
  <2>8. used \in Nat
    BY DEF IInv, TypeOK
  <2>9. Within' + Coming' <= Limit
    <3>1. Coming' = 0
      BY <1>1, <1>2 DEF Coming
    <3> QED BY <2>2, <2>6, <2>7, <2>8, <3>1, StoreAssumption
  <2>10. Grown' /\ Placed'
    BY <1>1, <1>2, <2>2 DEF LInv, Grown, Placed, Publishing
  <2> QED BY <2>9, <2>10 DEF LInv
<1>3. CASE op' = Job("chunk", "discard", u, {}) /\ UNCHANGED part
  <2>1. op'.at = "discard" /\ UNCHANGED <<temp, final, size>>
    BY <1>3 DEF Job, Chunk
  <2> QED BY <1>1, <1>3, <2>1, LimitUnmoved DEF Publishing
<1> QED BY <1>2, <1>3 DEF Chunk

\* An upload takes its final name, where nothing stands.
LEMMA LimitRename ==
  ASSUME IInv, CInv, LInv, TypeOK', ~loose, Rename
  PROVE  LInv'
<1>1. op \in Jobs /\ op.at = "rename" /\ op.id \in Uploads /\ op.id \in Files
  BY JobShape DEF Rename, At, JobPlaces, IInv, Making, Files
<1>2. phase # "down" /\ UNCHANGED <<temp, size>>
  BY <1>1 DEF CInv, Recounting, Rename
<1>3. op'.at \in {"chmod", "discard"}
  BY <1>1 DEF Rename, Go, Jobs
<1>4. CASE /\ final' = [final EXCEPT ![op.id] = part[op.id]]
           /\ part' = [part EXCEPT ![op.id] = 0]
  <2>1. /\ part[op.id] \in 0..MaxSource /\ 0 \in 0..MaxSource /\ part[op.id] \in 0..MaxFile
        /\ part[op.id] \in Nat /\ final[op.id] \in Nat
    BY <1>1, StoreAssumption DEF IInv, TypeOK
  <2>2. /\ Held(part') = Held(part) - part[op.id] + 0
        /\ Held(final') = Held(final) - final[op.id] + part[op.id]
    BY <1>1, <1>4, <2>1, DiskMoves DEF IInv
  <2>3. Tested' = Tested
    BY <1>2 DEF Tested
  <2>4. Within' = Within - final[op.id]
    BY <2>1, <2>2, <2>3, WithinCounts, DiskCounts DEF Within, IInv
  <2>5. Within' \in Nat
    BY <2>3, TestedPrimed DEF Within
  <2>6. Within' <= Within
    BY <2>1, <2>4, WithinCounts DEF IInv
  <2>7. Grown' /\ Placed'
    BY <1>1, <1>2, <1>3 DEF LInv, Grown, Placed, Publishing
  <2> QED BY <1>3, <2>5, <2>6, <2>7, LimitKept
<1>5. CASE UNCHANGED <<final, part>>
  BY <1>1, <1>2, <1>3, <1>5, LimitUnmoved DEF Publishing
<1> QED BY <1>4, <1>5 DEF Rename

\* Bytes that go, and the id with them.
LEMMA LimitGone ==
  ASSUME IInv, CInv, LInv, TypeOK', ~loose, ~loose', Unlink \/ Discard \/ Delete
  PROVE  LInv'
<1>1. /\ op \in Jobs /\ op.at \in {"unlink", "discard", "delete"} /\ op.id \in Files
      /\ op.at = "discard" => op.id \in Uploads
      /\ op.at = "unlink" => op.id \in (IF op.kind = "publish" THEN Artifacts ELSE Uploads)
  BY JobShape DEF Unlink, Discard, Delete, At, JobPlaces, IInv, Making
<1>2. phase # "down"
  BY <1>1 DEF CInv, Recounting
<1>3. op'.at \in {"idle", "look", "discard", "note"}
  BY <1>1 DEF Unlink, Discard, Delete, Go, Jobs, Idle, Walk
<1>4. /\ \A u \in Uploads : part'[u] <= part[u]
      /\ \A f \in Files : final'[f] <= final[f]
  BY <1>1, StoreAssumption DEF Unlink, Discard, Delete, IInv, TypeOK
<1>5. /\ UNCHANGED temp
      /\ \A a \in Artifacts : size'[a] = size[a] \/ (size'[a] = 0 /\ temp[a] = 0)
  <2>1. op.at = "unlink" /\ op.kind = "publish" => temp[op.id] = 0
    BY DEF LInv, Placed, Publishing
  <2> QED BY <1>1, <2>1, StoreAssumption DEF Unlink, Discard, Delete, At, IInv, TypeOK, Files
<1>6. \A a \in Artifacts : size[a] \in Nat /\ temp[a] \in Nat
  BY StoreAssumption DEF IInv, TypeOK, Files
<1>7. Within' \in Nat /\ Within' <= Within
  BY <1>4, <1>5, <1>6, Shrinks DEF IInv
<1>8. Grown'
  BY <1>1, <1>2, <1>5, <1>6 DEF LInv, Grown
<1>9. Placed'
  BY <1>3 DEF Placed, Publishing
<1> QED BY <1>3, <1>7, <1>8, <1>9, LimitKept

LEMMA LimitPublish ==
  ASSUME IInv, CInv, LInv, TypeOK', ~loose, ~loose',
         NEW a \in Artifacts, NEW n \in Sizes, NEW m \in Sizes, Publish(a, n, m)
  PROVE  LInv'
<1>1. op.at = "idle" /\ phase = "open" /\ a \in Files /\ a \notin Uploads
  BY StoreAssumption DEF Publish, Ready, Idle, Files
<1>2. /\ temp[a] = 0 /\ size[a] = 0
      /\ UNCHANGED <<part, temp, final>> /\ used + m <= Limit
  BY <1>1, StoreAssumption DEF Publish, Unused, Bytes, IInv, TypeOK, Room
<1>3. n \in Nat /\ m \in Nat /\ n <= m
  <2>1. loose' = (loose \/ n > m)
    BY DEF Publish
  <2>2. ~(n > m)
    BY <2>1, Zenon
  <2>3. n \in Nat /\ m \in Nat
    BY StoreAssumption DEF Sizes
  <2> QED BY <2>2, <2>3
<1>4. /\ size' = [size EXCEPT ![a] = n] /\ op' = Job("publish", "copy", a, {})
  BY DEF Publish
<1>5. Tested' = Tested
  <2>1. \A b \in Artifacts : size[b] \in Nat /\ b \in Files
    BY StoreAssumption DEF IInv, TypeOK, Files
  <2> QED BY <1>2, <1>3, <1>4, <2>1 DEF Tested, IInv, TypeOK
<1>6. used = Occupied
  <2>1. ~slip
    BY DEF CInv, Marked
  <2>2. used \in Nat /\ Occupied \in Nat
    BY DiskCounts DEF IInv, TypeOK
  <2> QED BY <1>1, <2>1, <2>2 DEF CInv, Counting, Uncounted, Vanished, Publishing
<1>7. Within' = Within /\ Within \in Nat /\ Within <= used /\ used \in Nat
  BY <1>2, <1>5, <1>6, WithinCounts DEF Within, IInv, TypeOK
<1>8. Coming' = n
  BY <1>1, <1>4 DEF Coming, Job, IInv, TypeOK
<1>9. Within' + Coming' <= Limit
  BY <1>2, <1>3, <1>7, <1>8, StoreAssumption
<1>10. Grown' /\ Placed'
  BY <1>1, <1>2, <1>3, <1>4 DEF LInv, Grown, Placed, Publishing, Job, IInv, TypeOK
<1> QED BY <1>9, <1>10 DEF LInv

\* A copy may be of any length; what counts of it is what was tested.
LEMMA LimitCopy ==
  ASSUME IInv, CInv, LInv, TypeOK', ~loose, Copy
  PROVE  LInv'
<1>1. /\ op \in Jobs /\ op.at = "copy" /\ op.id \in Artifacts /\ op.id \in Files
      /\ temp[op.id] = 0 /\ phase # "down"
  BY JobShape DEF Copy, At, JobPlaces, IInv, Making, CInv, Fresh, Recounting
<1>2. PICK n \in 0..MaxSource, at \in {"place", "scrap"} :
        /\ temp' = [temp EXCEPT ![op.id] = n] /\ Go(at)
        /\ at = "place" => n = size[op.id]
  BY DEF Copy
<1>3. op'.at = at /\ op'.id = op.id
  BY <1>1, <1>2 DEF Go, Jobs
<1>4. UNCHANGED <<part, final, size>>
  BY DEF Copy
<1>5. /\ n \in Nat /\ size[op.id] \in Nat
      /\ \A b \in Artifacts : size[b] \in Nat /\ temp[b] \in Nat
  BY <1>1, StoreAssumption DEF IInv, TypeOK, Files
<1>6. PICK k \in 0..MaxSource : k <= size[op.id] /\ Tested' = [Tested EXCEPT ![op.id] = k]
  <2> DEFINE k == IF n <= size[op.id] THEN n ELSE size[op.id]
  <2>1. k \in 0..MaxSource /\ k <= size[op.id]
    <3>1. size[op.id] <= MaxSource
      BY <1>1, StoreAssumption DEF IInv, TypeOK
    <3> QED BY <1>5, <3>1, StoreAssumption
  <2>2. Tested' = [Tested EXCEPT ![op.id] = k]
    BY <1>1, <1>2, <1>4 DEF Tested, IInv, TypeOK
  <2> QED BY <2>1, <2>2
<1>7. Tested[op.id] = 0
  BY <1>1, <1>5 DEF Tested
<1>8. Held(Tested') = Held(Tested) + k
  <2>1. Held([Tested EXCEPT ![op.id] = k]) = Held(Tested) - Tested[op.id] + k
    <3>1. Tested \in [Artifacts -> 0..MaxSource]
      BY TestedShape DEF IInv
    <3> QED BY <1>1, <1>6, <3>1, CopyExcept
  <2> QED BY <1>6, <1>7, <2>1, WithinCounts DEF IInv
<1>9. Within' = Within + k /\ Within \in Nat
  BY <1>4, <1>8, WithinCounts, DiskCounts DEF Within, IInv
<1>10. Coming = size[op.id] /\ Coming' = 0
  BY <1>1, <1>3 DEF Coming
<1>11. Within' + Coming' <= Limit
  <2>1. Within + size[op.id] <= Limit
    BY <1>10 DEF LInv
  <2>2. k \in Nat /\ k <= size[op.id]
    BY <1>6
  <2> QED BY <1>5, <1>9, <1>10, <2>1, <2>2, StoreAssumption
<1>12. Grown'
  BY <1>1, <1>2, <1>3, <1>4, <1>5 DEF LInv, Grown, IInv, TypeOK
<1>13. Placed'
  BY <1>3 DEF Placed, Publishing
<1> QED BY <1>11, <1>12, <1>13 DEF LInv

\* It takes its final name only at the length that was tested.
LEMMA LimitPlace ==
  ASSUME IInv, CInv, LInv, TypeOK', ~loose, Place
  PROVE  LInv'
<1>1. /\ op \in Jobs /\ op.at = "place" /\ op.id \in Artifacts /\ op.id \in Files
      /\ temp[op.id] = size[op.id] /\ final[op.id] = 0
  BY JobShape DEF Place, At, JobPlaces, IInv, Making, CInv, Fresh
<1>2. phase # "down" /\ UNCHANGED <<part, size>>
  BY <1>1 DEF CInv, Recounting, Place
<1>3. CASE /\ Go("row") /\ final' = [final EXCEPT ![op.id] = temp[op.id]]
           /\ temp' = [temp EXCEPT ![op.id] = 0]
  <2>1. op'.at = "row" /\ op'.id = op.id
    BY <1>1, <1>3 DEF Go, Jobs
  <2>2. temp[op.id] \in 0..MaxSource /\ temp[op.id] \in 0..MaxFile /\ temp[op.id] \in Nat
    BY <1>1, StoreAssumption DEF IInv, TypeOK
  <2>3. Tested[op.id] = temp[op.id] /\ Tested' = [Tested EXCEPT ![op.id] = 0]
    <3>1. size[op.id] \in Nat /\ 0 <= size[op.id]
      BY <1>1, <2>2
    <3> QED BY <1>1, <1>2, <1>3, <2>2, <3>1 DEF Tested, IInv, TypeOK
  <2>4. Held(Tested') = Held(Tested) - temp[op.id] + 0
    <3>1. 0 \in 0..MaxSource
      BY StoreAssumption
    <3>2. Tested \in [Artifacts -> 0..MaxSource]
      BY TestedShape DEF IInv
    <3>3. Held([Tested EXCEPT ![op.id] = 0]) = Held(Tested) - Tested[op.id] + 0
      BY <1>1, <3>1, <3>2, CopyExcept
    <3> QED BY <2>3, <3>3
  <2>5. Held(final') = Held(final) - 0 + temp[op.id]
    BY <1>1, <1>3, <2>2, DiskMoves DEF IInv
  <2>6. Within' = Within /\ Within \in Nat
    BY <1>2, <2>2, <2>4, <2>5, WithinCounts, DiskCounts DEF Within, IInv
  <2>7. \A b \in Artifacts : size[b] \in Nat /\ temp[b] \in Nat
    BY StoreAssumption DEF IInv, TypeOK, Files
  <2>8. Grown' /\ Placed'
    BY <1>1, <1>2, <1>3, <2>1, <2>7 DEF LInv, Grown, Placed, IInv, TypeOK
  <2> QED BY <2>1, <2>6, <2>8, LimitKept
<1>4. CASE Go("scrap") /\ UNCHANGED <<final, temp>>
  <2>1. op'.at = "scrap"
    BY <1>1, <1>4 DEF Go, Jobs
  <2> QED BY <1>1, <1>2, <1>4, <2>1, LimitUnmoved DEF Publishing
<1> QED BY <1>3, <1>4 DEF Place

\* Given up, it leaves nothing, or bytes that nobody counts.
LEMMA LimitScrap ==
  ASSUME IInv, CInv, LInv, TypeOK', ~loose, ~loose', Scrap
  PROVE  LInv'
<1>1. /\ op.at = "scrap" /\ op.id \in Artifacts /\ phase # "down" /\ op'.at = "idle"
      /\ temp' = [temp EXCEPT ![op.id] = 0] /\ size' = [size EXCEPT ![op.id] = 0]
      /\ UNCHANGED <<part, final>>
  BY DEF Scrap, At, IInv, Making, CInv, Recounting, Slips, Idle
<1>2. \A a \in Artifacts : size[a] \in Nat /\ temp[a] \in Nat /\ a \in Files
  BY StoreAssumption DEF IInv, TypeOK, Files
<1>3. \A a \in Artifacts : a # op.id => temp'[a] = temp[a] /\ size'[a] = size[a]
  BY <1>1, <1>2 DEF IInv, TypeOK
<1>4. temp'[op.id] = 0 /\ size'[op.id] = 0
  BY <1>1, <1>2 DEF IInv, TypeOK
<1>5. /\ \A u \in Uploads : part'[u] <= part[u]
      /\ \A a \in Artifacts : temp'[a] <= temp[a] /\ size'[a] <= size[a]
      /\ \A f \in Files : final'[f] <= final[f]
  BY <1>1, <1>2, <1>3, <1>4, StoreAssumption DEF IInv, TypeOK
<1>6. Within' \in Nat /\ Within' <= Within
  BY <1>5, Shrinks DEF IInv
<1>7. Grown' /\ Placed'
  BY <1>1, <1>3, <1>4 DEF LInv, Grown, Placed, Publishing
<1> QED BY <1>1, <1>6, <1>7, LimitKept

\* The walks, and open() at one manifest.
LEMMA LimitWalks ==
  ASSUME IInv, CInv, LInv, TypeOK', ~loose,
         \/ Resolve \/ Read \/ List \/ Cleanup \/ Note \/ Done
         \/ \E f \in Files : Look(f) \/ Load(f)
  PROVE  LInv'
<1>1. UNCHANGED <<part, temp, final, size>>
  BY DEF Resolve, Read, List, Cleanup, Begun, Look, Load, Note, Done, disk
<1>2. op.at \in {"idle", "look", "note"} /\ phase # "down"
  <2>1. CASE Resolve \/ Read \/ List \/ Cleanup
    <3>1. Ready
      BY <2>1 DEF Resolve, Read, List, Cleanup, Begun
    <3> QED BY <3>1 DEF Ready, Idle
  <2>2. CASE Note \/ Done \/ \E f \in Files : Look(f) \/ Load(f)
    BY <2>2 DEF Look, Load, Note, Done, At, CInv, Recounting
  <2> QED BY <2>1, <2>2
<1>3. op'.at \notin {"copy", "row", "unlink"}
  <2>1. CASE Resolve \/ Read \/ List \/ Cleanup
    BY <2>1 DEF Resolve, Read, List, Cleanup, Begun, Walk
  <2>2. CASE Note
    BY <2>2 DEF Note, Idle, Walk
  <2>3. CASE Done
    <3>1. op \in Walks
      BY <2>3, WalkShape DEF Done, At, WalkPlaces, IInv
    <3> QED BY <2>3, <3>1 DEF Done, Idle, Walks
  <2>4. CASE \E f \in Files : Look(f)
    <3>1. op \in Walks
      BY <2>4, WalkShape DEF Look, At, WalkPlaces, IInv
    <3>2. op' = [op EXCEPT !.todo = op'.todo] \/ op'.at \in {"delete", "note"}
      BY <2>4, <3>1 DEF Look, Job, Walks
    <3> QED BY <1>2, <2>4, <3>1, <3>2 DEF Look, At, Walks
  <2>5. CASE \E f \in Files : Load(f)
    BY <2>5 DEF Load, Job, Walk
  <2> QED BY <2>1, <2>2, <2>3, <2>4, <2>5
<1> QED BY <1>1, <1>2, <1>3, LimitUnmoved DEF Publishing

\* open(): what a crash left is cleared before anything else is done.
LEMMA LimitOpen ==
  ASSUME IInv, CInv, LInv, TypeOK', ~loose, ~loose', Open \/ Clear \/ Orphans
  PROVE  LInv'
<1>1. \A f \in Files : size[f] \in Nat /\ final[f] \in Nat
  BY StoreAssumption DEF IInv, TypeOK
<1>2. /\ \A a \in Artifacts : temp[a] \in Nat /\ a \in Files
      /\ \A u \in Uploads : part[u] \in Nat
  BY StoreAssumption DEF IInv, TypeOK, Files
<1>3. op'.at \in {"clear", "look", "idle"}
  BY DEF Open, Clear, Orphans, Walk, Idle
<1>4. Placed'
  BY <1>3 DEF Placed, Publishing
<1>5. CASE Open
  <2>1. op'.at = "clear" /\ UNCHANGED <<part, temp, final, size>>
    BY <1>5 DEF Open, disk
  <2>2. Grown'
    BY <2>1 DEF Grown
  <2>3. Within' \in Nat /\ Within' <= Within
    BY <1>1, <1>2, <2>1, Shrinks DEF IInv
  <2> QED BY <1>3, <1>4, <2>2, <2>3, LimitKept
<1>6. CASE Clear
  <2>1. part' = Zero(Uploads) /\ temp' = Zero(Artifacts) /\ UNCHANGED <<final, size>>
    BY <1>6 DEF Clear, Slips
  <2>2. Grown'
    BY <1>1, <1>2, <2>1 DEF Grown, Zero
  <2>3. Within' \in Nat /\ Within' <= Within
    <3>1. /\ \A u \in Uploads : part'[u] <= part[u]
          /\ \A a \in Artifacts : temp'[a] <= temp[a] /\ size'[a] <= size[a]
          /\ \A f \in Files : final'[f] <= final[f]
      BY <1>1, <1>2, <2>1 DEF Zero
    <3> QED BY <3>1, Shrinks DEF IInv
  <2> QED BY <1>3, <1>4, <2>2, <2>3, LimitKept
<1>7. CASE Orphans
  <2>1. phase = "opening" /\ ~slip /\ op.at = "orphans"
    BY <1>7 DEF Orphans, At, IInv, Opening, CInv, Marked
  <2>2. temp = Zero(Artifacts) /\ UNCHANGED <<part, temp>>
    BY <1>7, <2>1 DEF Orphans, CInv, Recounting
  <2>3. \A f \in Files : size'[f] \in {0, size[f]} /\ final'[f] \in {0, final[f]}
    BY <1>7 DEF Orphans
  <2>4. Grown'
    BY <1>1, <1>2, <2>2, <2>3 DEF Grown, Zero
  <2>5. Within' \in Nat /\ Within' <= Within
    <3>1. /\ \A u \in Uploads : part'[u] <= part[u]
          /\ \A a \in Artifacts : temp'[a] <= temp[a] /\ size'[a] <= size[a]
          /\ \A f \in Files : final'[f] <= final[f]
      BY <1>1, <1>2, <2>2, <2>3
    <3> QED BY <3>1, Shrinks DEF IInv
  <2> QED BY <1>3, <1>4, <2>4, <2>5, LimitKept
<1> QED BY <1>5, <1>6, <1>7

\* The process ends, or time passes.
LEMMA LimitWorld ==
  ASSUME IInv, CInv, LInv, TypeOK', ~loose, Close \/ Down \/ \E f \in Files : Age(f)
  PROVE  LInv'
<1>1. UNCHANGED <<part, temp, final, size>>
  BY DEF Close, Down, Age, disk
<1>2. \/ phase' = "down" /\ op'.at = "idle"
      \/ UNCHANGED op /\ (phase' = phase \/ phase = "open")
  BY DEF Close, Down, Age, Idle, memory
<1>3. /\ \A f \in Files : final[f] \in Nat /\ size[f] \in Nat
      /\ \A u \in Uploads : part[u] \in Nat
      /\ \A a \in Artifacts : temp[a] \in Nat /\ a \in Files
  BY StoreAssumption DEF IInv, TypeOK, Files
<1>4. Within' \in Nat /\ Within' <= Within
  BY <1>1, <1>3, Shrinks DEF IInv
<1>5. Grown'
  BY <1>1, <1>2 DEF LInv, Grown
<1>6. Placed'
  BY <1>1, <1>2 DEF LInv, Placed, Publishing
<1>7. op'.at # "copy" \/ UNCHANGED <<op, size>>
  BY <1>1, <1>2
<1> QED BY <1>4, <1>5, <1>6, <1>7, LimitKept

LEMMA LNextKeeps == ASSUME IInv, CInv, LInv, [Next]_vars PROVE LInv'
<1>1. TypeOK'
  BY NextKeeps DEF IInv
<1>2. loose => loose'
  <2>1. CASE Next
    BY <2>1 DEF Next, Call, Served, Deliver, Begin, Chunk, Abort, Commit, Publish, Resolve,
       Read, List, Cleanup, Begun, Step, Rename, Chmod, Row, Unlink, Discard, Copy, Place,
       Scrap, Look, Load, Sees, Expel, Delete, Note, Done, Clear, Orphans, Open, World,
       Close, Down, Age, Vanish, Works, Fails, Slips, errors
  <2> QED BY <2>1 DEF vars, errors
<1> SUFFICES ASSUME ~loose' PROVE LInv'
  BY DEF LInv
<1>3. ~loose
  BY <1>2
<1>4. CASE Call \/ Cleanup
  <2>1. CASE \E k \in Any({x \in Keys : Free(x)}), u \in Any(Uploads \cap Unused),
                n \in Sizes : Begin(k, u, n)
    BY <1>1, <1>3, <2>1, AnyIn, LimitUploads
  <2>2. CASE \E u \in Uploads : Chunk(u) \/ Abort(u) \/ Commit(u)
    BY <1>1, <1>3, <2>2, LimitUploads, LimitChunk
  <2>3. CASE \E a \in Any(Artifacts \cap Unused), n, m \in Sizes : Publish(a, n, m)
    <3>1. PICK a \in Any(Artifacts \cap Unused), n \in Sizes, m \in Sizes : Publish(a, n, m)
      BY <2>3
    <3>2. a \in Artifacts
      BY AnyIn
    <3> QED BY <1>1, <1>3, <3>1, <3>2, LimitPublish
  <2>4. CASE Resolve \/ Read \/ List \/ Cleanup
    BY <1>1, <1>3, <2>4, LimitWalks
  <2> QED BY <1>4, <2>1, <2>2, <2>3, <2>4 DEF Call, Served, Deliver
<1>5. CASE Step
  BY <1>1, <1>3, <1>5, LimitUploads, LimitRename, LimitGone, LimitCopy, LimitPlace,
     LimitScrap, LimitWalks, LimitOpen DEF Step
<1>6. CASE Open \/ World
  <2>1. CASE \E f \in Files : Vanish(f)
    BY <2>1 DEF Vanish, Slips
  <2> QED BY <1>1, <1>3, <1>6, <2>1, LimitOpen, LimitWorld DEF World
<1>7. CASE UNCHANGED vars
  <2>1. UNCHANGED <<part, temp, final, size, op, phase>>
    BY <1>7 DEF vars, disk, memory
  <2>2. Within' = Within
    BY <2>1 DEF Within, Tested
  <2>3. Coming' = Coming /\ Placed' /\ Grown'
    BY <1>3, <2>1 DEF LInv, Coming, Grown, Placed, Publishing
  <2> QED BY <1>3, <2>2, <2>3 DEF LInv
<1> QED BY <1>4, <1>5, <1>6, <1>7 DEF Next

THEOREM LimitInvariance == Spec => []LInv
<1>1. Init => LInv
  <2> SUFFICES ASSUME Init PROVE LInv
    OBVIOUS
  <2>1. op.at = "idle" /\ phase = "down"
    BY DEF Init, Idle
  <2>2. Tested = Zero(Artifacts)
    BY StoreAssumption DEF Init, Tested, Zero, Files
  <2>3. Within = 0
    BY <2>2, HeldZero DEF Init, Within
  <2> QED BY <2>1, <2>3, StoreAssumption DEF LInv, Coming, Grown, Placed, Publishing
<1>2. IInv /\ CInv /\ LInv /\ [Next]_vars => LInv'
  BY LNextKeeps
<1> QED BY <1>1, <1>2, Invariance, CountInvariance, PTL DEF Spec

(***************************************************************************)
(* QuotaHeld: the disk stays within storageLimitBytes although nothing is  *)
(* reserved, staged and temporary bytes and those that a crash left        *)
(* included, but for what the source of a copy grows by; that excess ends  *)
(* with the copy or with the next open().                                  *)
(***************************************************************************)
THEOREM WithinLimit == Spec => []QuotaHeld
<1>1. IInv /\ LInv => QuotaHeld
  <2> SUFFICES ASSUME IInv, LInv, ~loose PROVE QuotaHeld
    BY DEF QuotaHeld
  <2>1. Coming \in Nat
    BY StoreAssumption DEF Coming, IInv, TypeOK, Making, Files
  <2>2. Within <= Limit
    BY <2>1, WithinCounts, StoreAssumption DEF IInv, LInv
  <2> QED BY <2>2 DEF QuotaHeld, Within, LInv, Grown, At
<1> QED BY <1>1, Invariance, LimitInvariance, PTL

=============================================================================
