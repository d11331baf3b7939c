---------------------------- MODULE FileStore_proofs ---------------------------
(***************************************************************************)
(* Theorems about FileStore, for any number of files, sizes and failures.  *)
(*                                                                         *)
(* They rest on where an operation stands: each durable call leaves a file *)
(* in a known state between its staged bytes, its final bytes and its      *)
(* manifest.  What is counted is the subject of FileStoreCount_proofs.     *)
(***************************************************************************)
EXTENDS FileStore, TLAPS

JobPlaces == {"rename", "chmod", "copy", "place", "scrap", "row", "unlink",
              "discard", "delete", "note"}
WalkPlaces == {"clear", "look", "orphans"}

\* An open upload has its bytes staged and no manifest, until its commit moves
\* them.
Staged ==
  \A u \in Uploads : up[u].state = "open" =>
    /\ row[u] = "none" /\ size[u] > 0 /\ up[u].written <= size[u]
    /\ \/ part[u] = up[u].written
       \/ op.at \in {"chmod", "row", "unlink", "discard"} /\ op.id = u

\* Manifests, cached and stored.
Rows ==
  \A f \in Files :
    /\ row[f] = "none" => cache[f] = "none"
    /\ row[f] # "none" =>
         size[f] > 0 /\ (f \in aged \cup harmed \/ final[f] = size[f])

\* The file of a commit or a copy, at each of its places.
Making ==
  /\ op.at \in {"rename", "chmod", "row", "unlink", "discard", "copy", "place",
                "scrap"} => row[op.id] = "none"
  /\ op.at \in {"rename", "chmod", "row", "copy", "place"} => size[op.id] > 0
  /\ op.at \in {"rename", "chmod"} => op.kind # "publish"
  /\ op.at \in {"copy", "place", "scrap"} => op.kind = "publish"
  /\ op.at \in {"rename", "chmod", "discard"} => op.id \in Uploads
  /\ op.at \in {"copy", "place", "scrap"} => op.id \in Artifacts
  /\ op.at \in {"row", "unlink"} =>
       op.id \in (IF op.kind = "publish" THEN Artifacts ELSE Uploads)
  /\ op.at = "rename" => part[op.id] = size[op.id]
  /\ op.at = "place" => temp[op.id] = size[op.id]
  /\ op.at \in {"chmod", "row"} => final[op.id] = size[op.id]

\* The file of a walk.
Walking ==
  /\ op.at \in {"delete", "note"} => row[op.id] # "none"
  /\ op.at = "delete" => op.id \in aged \cup harmed
  /\ op.at = "note" \/ (op.at = "delete" /\ op.kind = "open") => cache[op.id] # "none"
  /\ op.at \in {"rename", "chmod", "row", "unlink", "copy", "place"} => op.todo = {}
  /\ op.at \in {"look", "discard", "delete", "note"} =>
       \A f \in op.todo : row[f] # "none" \/ (op.kind = "sweep" /\ f \in Uploads)

\* While open() runs there is no upload.
Opening ==
  /\ op.at # "idle" /\ op.kind = "open" => phase = "opening"
  /\ op.at \in {"clear", "orphans"} => op.kind = "open"
  /\ phase \in {"down", "opening", "broken"} => up = NoUploads

IInv == /\ TypeOK /\ Staged /\ Rows /\ Making /\ Walking /\ Opening
        /\ OneUploadPerKey

LEMMA JobShape ==
  ASSUME TypeOK, op.at \in JobPlaces
  PROVE  /\ op \in Jobs /\ op.kind \in Ops /\ op.id \in Files
         /\ op.todo \in SUBSET Files
BY DEF TypeOK, JobPlaces, Jobs, Walks, Idle

LEMMA WalkShape ==
  ASSUME TypeOK, op.at \in WalkPlaces
  PROVE  op \in Walks /\ op.kind \in Ops /\ op.todo \in SUBSET Files
BY DEF TypeOK, WalkPlaces, Jobs, Walks, Idle

LEMMA GoShape ==
  ASSUME op \in Jobs, NEW at \in JobPlaces, Go(at)
  PROVE  /\ op' \in Jobs /\ op'.at = at /\ op'.kind = op.kind
         /\ op'.id = op.id /\ op'.todo = op.todo
BY DEF Jobs, JobPlaces, Go

LEMMA JobFields ==
  ASSUME NEW kind \in Ops, NEW at \in JobPlaces, NEW f \in Files, NEW todo \in SUBSET Files,
         op' = Job(kind, at, f, todo)
  PROVE  /\ op' \in Jobs /\ op'.at = at /\ op'.kind = kind
         /\ op'.id = f /\ op'.todo = todo
BY DEF Jobs, JobPlaces, Job

LEMMA WalkFields ==
  ASSUME NEW kind \in Ops, NEW todo \in SUBSET Files, op' = Walk(kind, todo)
  PROVE  /\ op' \in Walks /\ op'.at = "look" /\ op'.kind = kind /\ op'.todo = todo
BY DEF Walks, Walk

LEMMA IdleFields ==
  ASSUME op' = Idle
  PROVE  op'.at = "idle"
BY DEF Idle

LEMMA ErrorsShape ==
  ASSUME TypeOK, Works \/ Fails \/ Slips
  PROVE  faults' \in 0..MaxFaults /\ slip' \in BOOLEAN /\ loose' \in BOOLEAN
<1>1. faults' \in 0..MaxFaults
  BY StoreAssumption DEF TypeOK, Works, Fails, Slips, errors
<1>2. slip' \in BOOLEAN
  BY DEF TypeOK, Works, Fails, Slips, errors
<1>3. loose' \in BOOLEAN
  BY DEF TypeOK, Works, Fails, Slips, errors
<1>4. QED
  BY <1>1, <1>2, <1>3

LEMMA InitIInv == Init => IInv
<1> SUFFICES ASSUME Init PROVE IInv
  OBVIOUS
<1>1. op.at = "idle"
  BY DEF Init, Idle
<1>2. TypeOK
  <2>1. /\ part \in [Uploads -> 0..MaxFile] /\ temp \in [Artifacts -> 0..MaxSource]
        /\ final \in [Files -> 0..MaxFile] /\ size \in [Files -> 0..MaxFile]
    BY StoreAssumption DEF Init, Zero
  <2>2. row \in [Files -> States] /\ cache \in [Files -> States]
    BY DEF Init, NoManifests, States
  <2>3. /\ up \in [Uploads -> {NoRecord} \cup Records]
        /\ index \in [Keys -> Uploads \cup {NoUpload}]
    BY DEF Init, NoUploads, NoIndex
  <2>4. /\ phase = "down" /\ op = Idle /\ used = 0 /\ aged = {} /\ harmed = {}
        /\ slip = FALSE /\ loose = FALSE /\ faults = 0 /\ crashes = 0
    BY DEF Init
  <2>5. slip \in BOOLEAN /\ loose \in BOOLEAN
    BY <2>4
  <2>6. faults \in 0..MaxFaults /\ crashes \in 0..MaxCrashes /\ used \in Nat
    BY <2>4, StoreAssumption
  <2>7. QED
    BY <2>1, <2>2, <2>3, <2>4, <2>5, <2>6 DEF TypeOK
<1>3. Staged /\ OneUploadPerKey
  BY DEF Init, Staged, OneUploadPerKey, NoUploads, NoRecord
<1>6. Rows
  BY DEF Init, Rows, NoManifests
<1>4. Making /\ Walking /\ Opening
  BY <1>1 DEF Init, Making, Walking, Opening
<1>5. QED
  BY <1>2, <1>3, <1>4, <1>6 DEF IInv

-----------------------------------------------------------------------------
(***************************************************************************)
(* Uploads.                                                                *)
(***************************************************************************)
LEMMA BeginKeeps ==
  ASSUME IInv, NEW k \in Keys, NEW u \in Uploads, NEW n \in Sizes, Begin(k, u, n)
  PROVE  IInv'
<1> USE DEF IInv, Begin, disk, clock, errors
<1>1. op = Idle /\ op' = Idle /\ op.at = "idle" /\ op'.at = "idle" /\ u \in Files
  BY DEF Ready, Idle, Files
<1>2. part[u] = 0 /\ size[u] = 0 /\ row[u] = "none"
  BY <1>1, StoreAssumption DEF Unused, Bytes, TypeOK, Rows
<1>3. n \in 0..MaxFile /\ n > 0
  BY StoreAssumption DEF Sizes
<1>4. TypeOK'
  BY <1>1, <1>3, StoreAssumption DEF TypeOK, Records
<1>5. Staged'
  BY <1>1, <1>2, <1>3, StoreAssumption DEF Staged, TypeOK, Records
<1>6. Rows'
  BY <1>1, <1>2, <1>3 DEF Rows, TypeOK
<1>7. Making' /\ Walking'
  BY <1>1 DEF Making, Walking
<1>8. Opening'
  BY <1>1 DEF Opening, Ready
<1>9. OneUploadPerKey'
  BY StoreAssumption DEF OneUploadPerKey, TypeOK, Free, Records, NoRecord
<1>10. QED
  BY <1>4, <1>5, <1>6, <1>7, <1>8, <1>9

LEMMA ChunkKeeps ==
  ASSUME IInv, NEW u \in Uploads, Chunk(u)
  PROVE  IInv'
<1> USE DEF IInv, Chunk
<1>1. op = Idle /\ op.at = "idle" /\ u \in Files /\ phase = "open"
  BY DEF Ready, Idle, Files
<1>2. /\ up[u] \in Records /\ up[u].written < size[u] /\ size[u] \in 0..MaxFile
      /\ row[u] = "none" /\ part[u] = up[u].written
  BY <1>1 DEF TypeOK, Staged, NoRecord
<1>3. CASE UNCHANGED op /\ Works
  <2>1. TypeOK'
    BY <1>1, <1>2, <1>3, StoreAssumption DEF TypeOK, Records, clock, errors, Works, Idle, Job
  <2>2. Staged'
    BY <1>1, <1>2, <1>3, StoreAssumption DEF Staged, TypeOK, Records, NoRecord, Idle, Job
  <2>3. Rows' /\ Making' /\ Walking' /\ Opening'
    BY <1>1, <1>3 DEF Rows, Making, Walking, Opening, clock, Idle, Job
  <2>4. OneUploadPerKey'
    BY <1>1, <1>2, <1>3 DEF OneUploadPerKey, TypeOK, Records, NoRecord, Idle, Job
  <2>5. QED
    BY <2>1, <2>2, <2>3, <2>4
<1>4. CASE Fails /\ op' = Job("chunk", "discard", u, {}) /\ UNCHANGED <<part, up, used>>
  <2>1. /\ op' \in Jobs /\ op'.at = "discard" /\ op'.kind = "chunk"
        /\ op'.id = u /\ op'.todo = {}
    BY <1>1, <1>4, JobFields DEF Ops, JobPlaces
  <2>2. TypeOK'
    BY <1>4, <2>1, StoreAssumption DEF TypeOK, clock, Fails
  <2>3. Staged' /\ Rows' /\ OneUploadPerKey'
    BY <1>1, <1>4 DEF Staged, Rows, clock, OneUploadPerKey
  <2>4. Making' /\ Walking' /\ Opening'
    BY <1>1, <1>2, <1>4, <2>1 DEF Making, Walking, Opening
  <2>5. QED
    BY <2>2, <2>3, <2>4
<1>5. QED
  BY <1>3, <1>4

LEMMA AbortKeeps ==
  ASSUME IInv, NEW u \in Uploads, Abort(u)
  PROVE  IInv'
<1> USE DEF IInv, Abort, disk, tables, clock, errors
<1>1. op.at = "idle" /\ u \in Files /\ row[u] = "none" /\ phase = "open"
  BY DEF Ready, Idle, Files, Staged
<1>2. /\ op' \in Jobs /\ op'.at = "discard" /\ op'.kind = "abort"
      /\ op'.id = u /\ op'.todo = {}
  BY <1>1, JobFields DEF Ops, JobPlaces
<1>3. TypeOK'
  BY <1>2 DEF TypeOK
<1>4. Staged' /\ Rows' /\ OneUploadPerKey'
  BY <1>1, <1>2 DEF Staged, Rows, OneUploadPerKey
<1>5. Making' /\ Walking' /\ Opening'
  BY <1>1, <1>2 DEF Making, Walking, Opening
<1>6. QED
  BY <1>3, <1>4, <1>5

LEMMA CommitKeeps ==
  ASSUME IInv, NEW u \in Uploads, Commit(u)
  PROVE  IInv'
<1> USE DEF IInv, Commit, disk, tables, clock, errors
<1>1. /\ op.at = "idle" /\ u \in Files /\ row[u] = "none" /\ phase = "open"
      /\ size[u] > 0 /\ part[u] = size[u]
  BY DEF Ready, Idle, Files, Staged, Complete
<1>2. /\ op' \in Jobs /\ op'.at = "rename" /\ op'.kind = "commit"
      /\ op'.id = u /\ op'.todo = {}
  BY <1>1, JobFields DEF Ops, JobPlaces
<1>3. TypeOK'
  BY <1>2 DEF TypeOK
<1>4. Staged' /\ Rows' /\ OneUploadPerKey'
  BY <1>1, <1>2 DEF Staged, Rows, OneUploadPerKey
<1>5. Making' /\ Walking' /\ Opening'
  BY <1>1, <1>2 DEF Making, Walking, Opening
<1>6. QED
  BY <1>3, <1>4, <1>5

LEMMA RenameKeeps ==
  ASSUME IInv, Rename
  PROVE  IInv'
<1> USE DEF IInv, Rename, At, tables, clock
<1>1. /\ op \in Jobs /\ op.id \in Uploads /\ op.id \in Files /\ op.kind # "publish"
      /\ row[op.id] = "none" /\ size[op.id] > 0 /\ part[op.id] = size[op.id]
  BY JobShape DEF JobPlaces, Making, Files
<1>2. CASE /\ Works /\ Go("chmod")
           /\ final' = [final EXCEPT ![op.id] = part[op.id]]
           /\ part' = [part EXCEPT ![op.id] = 0]
  <2>1. op' \in Jobs /\ op'.at = "chmod" /\ op'.kind = op.kind /\ op'.id = op.id
    BY <1>1, <1>2, GoShape DEF JobPlaces
  <2>2. TypeOK'
    BY <1>1, <1>2, <2>1, StoreAssumption DEF TypeOK, Works, errors
  <2>3. Staged'
    BY <1>1, <1>2, <2>1 DEF Staged, TypeOK
  <2>4. Rows' /\ OneUploadPerKey'
    BY <1>1, <1>2 DEF Rows, OneUploadPerKey, TypeOK
  <2>5. final'[op.id] = size[op.id]
    BY <1>1, <1>2 DEF TypeOK
  <2>6. Making'
    BY <1>1, <1>2, <2>1, <2>5 DEF Making
  <2>7. op'.todo = {}
    BY <1>1, <1>2, GoShape DEF JobPlaces, Walking
  <2>8. Walking' /\ Opening'
    BY <1>1, <1>2, <2>1, <2>7 DEF Walking, Opening
  <2>9. QED
    BY <2>2, <2>3, <2>4, <2>6, <2>8
<1>3. CASE Fails /\ Go("discard") /\ UNCHANGED <<final, part>>
  <2>1. /\ op' \in Jobs /\ op'.at = "discard" /\ op'.kind = op.kind /\ op'.id = op.id
        /\ op'.todo = op.todo
    BY <1>1, <1>3, GoShape DEF JobPlaces
  <2>2. TypeOK'
    BY <1>3, <2>1, StoreAssumption DEF TypeOK, Fails
  <2>3. Staged' /\ Rows' /\ OneUploadPerKey'
    BY <1>3, <2>1 DEF Staged, Rows, OneUploadPerKey
  <2>4. Making' /\ Opening'
    BY <1>1, <1>3, <2>1 DEF Making, Opening
  <2>5. Walking'
    BY <1>1, <1>3, <2>1 DEF Walking
  <2>6. QED
    BY <2>2, <2>3, <2>4, <2>5
<1>4. QED
  BY <1>2, <1>3

LEMMA ChmodKeeps ==
  ASSUME IInv, Chmod
  PROVE  IInv'
<1> USE DEF IInv, Chmod, At, disk, tables, clock
<1>1. /\ op \in Jobs /\ op.id \in Uploads /\ op.kind # "publish" /\ op.todo = {}
      /\ row[op.id] = "none" /\ size[op.id] > 0 /\ final[op.id] = size[op.id]
  BY JobShape DEF JobPlaces, Making, Walking
<1>2. PICK at \in {"row", "discard"} : Go(at)
  OBVIOUS
<1>3. /\ op' \in Jobs /\ op'.at = at /\ op'.kind = op.kind /\ op'.id = op.id
      /\ op'.todo = {}
  BY <1>1, <1>2, GoShape DEF JobPlaces
<1>4. TypeOK'
  BY <1>3, ErrorsShape DEF TypeOK
<1>5. Staged' /\ Rows' /\ OneUploadPerKey'
  BY <1>2, <1>3 DEF Staged, Rows, OneUploadPerKey
<1>6. Making'
  BY <1>1, <1>2, <1>3 DEF Making
<1>7. Walking' /\ Opening'
  BY <1>1, <1>2, <1>3 DEF Walking, Opening
<1>8. QED
  BY <1>4, <1>5, <1>6, <1>7

LEMMA RowKeeps ==
  ASSUME IInv, Row
  PROVE  IInv'
<1> USE DEF IInv, Row, At, clock
<1>1. /\ op \in Jobs /\ op.id \in Files /\ op.kind \in Ops /\ op.todo = {}
      /\ row[op.id] = "none" /\ size[op.id] > 0 /\ final[op.id] = size[op.id]
      /\ op.id \in (IF op.kind = "publish" THEN Artifacts ELSE Uploads)
  BY JobShape DEF JobPlaces, Making, Walking
<1>2. CASE Works /\ op' = Idle /\ row' = [row EXCEPT ![op.id] = "ready"] /\ Recorded(op.id)
  <2>1. op'.at = "idle"
    BY <1>2, IdleFields
  <2>2. row' \in [Files -> States] /\ cache' \in [Files -> States]
    BY <1>1, <1>2 DEF TypeOK, States, Recorded
  <2>3. used' \in Nat
    BY <1>1, <1>2, StoreAssumption DEF TypeOK, Recorded
  <2>4. \/ up' = up
        \/ /\ op.id \in Uploads /\ up[op.id] \in Records
           /\ up' = [up EXCEPT ![op.id].state = "committed"]
    BY <1>1, <1>2 DEF TypeOK, Recorded
  <2>5. up' \in [Uploads -> {NoRecord} \cup Records]
    BY <2>4 DEF TypeOK, Records
  <2>6. TypeOK'
    BY <1>2, <2>2, <2>3, <2>5 DEF TypeOK, Works, errors
  <2>7. Staged'
    <3> SUFFICES ASSUME NEW u \in Uploads, up'[u].state = "open"
                 PROVE  /\ row'[u] = "none" /\ size'[u] > 0 /\ up'[u].written <= size'[u]
                        /\ part'[u] = up'[u].written
      BY DEF Staged
    <3>1. u # op.id
      <4>1. CASE op.kind = "publish"
        BY <1>1, <4>1, StoreAssumption
      <4>2. CASE op.kind # "publish"
        BY <1>1, <1>2, <4>2 DEF Recorded, TypeOK, NoRecord, Records
      <4>3. QED
        BY <4>1, <4>2
    <3>2. up'[u] = up[u] /\ row'[u] = row[u] /\ u \in Files
      BY <1>1, <1>2, <2>4, <3>1 DEF TypeOK, Files
    <3>3. QED
      BY <3>1, <3>2 DEF Staged
  <2>8. Rows'
    BY <1>1, <1>2 DEF Rows, TypeOK, Recorded
  <2>9. OneUploadPerKey'
    <3>1. CASE up' = up
      BY <3>1 DEF OneUploadPerKey
    <3>2. CASE /\ op.id \in Uploads /\ up[op.id] \in Records
               /\ up' = [up EXCEPT ![op.id].state = "committed"]
      <4>1. /\ up[op.id] # NoRecord /\ up'[op.id].key = up[op.id].key
            /\ \A u \in Uploads : u # op.id => up'[u] = up[u]
        BY <3>2 DEF TypeOK, Records, NoRecord
      <4>2. QED
        BY <4>1 DEF OneUploadPerKey
    <3>3. QED
      BY <2>4, <3>1, <3>2
  <2>10. Making' /\ Walking' /\ Opening'
    <3>1. up = NoUploads => up' = up
      BY <2>4 DEF NoUploads, NoRecord, Records
    <3>2. QED
      BY <2>1, <3>1 DEF Making, Walking, Opening
  <2>11. QED
    BY <2>6, <2>7, <2>8, <2>9, <2>10
<1>3. CASE Fails /\ Go("unlink") /\ UNCHANGED <<row, cache, up, used>>
  <2>1. /\ op' \in Jobs /\ op'.at = "unlink" /\ op'.kind = op.kind /\ op'.id = op.id
        /\ op'.todo = {}
    BY <1>1, <1>3, GoShape DEF JobPlaces
  <2>2. TypeOK'
    BY <1>3, <2>1, StoreAssumption DEF TypeOK, Fails
  <2>3. Staged' /\ Rows' /\ OneUploadPerKey'
    BY <1>3, <2>1 DEF Staged, Rows, OneUploadPerKey
  <2>4. Making' /\ Walking' /\ Opening'
    BY <1>1, <1>3, <2>1 DEF Making, Walking, Opening
  <2>5. QED
    BY <2>2, <2>3, <2>4
<1>4. QED
  BY <1>2, <1>3

LEMMA UnlinkKeeps ==
  ASSUME IInv, Unlink
  PROVE  IInv'
<1> USE DEF IInv, Unlink, At, tables, clock
<1>1. /\ op \in Jobs /\ op.id \in Files /\ op.kind \in Ops /\ op.todo = {}
      /\ row[op.id] = "none"
      /\ op.id \in (IF op.kind = "publish" THEN Artifacts ELSE Uploads)
  BY JobShape DEF JobPlaces, Making, Walking
<1>2. /\ size' \in [Files -> 0..MaxFile] /\ final' \in [Files -> 0..MaxFile]
      /\ \A f \in Files : f # op.id => size'[f] = size[f] /\ final'[f] = final[f]
      /\ op.kind # "publish" => size' = size
  BY <1>1, StoreAssumption DEF TypeOK
<1>3. \/ op.kind = "publish" /\ op' = Idle /\ op'.at = "idle"
      \/ /\ op.kind # "publish" /\ op' \in Jobs /\ op'.at = "discard"
         /\ op'.kind = op.kind /\ op'.id = op.id /\ op'.todo = {}
  BY <1>1, GoShape, IdleFields DEF JobPlaces
<1>4. TypeOK'
  <2>1. /\ faults' \in 0..MaxFaults /\ slip' \in BOOLEAN /\ loose' \in BOOLEAN
    BY ErrorsShape
  <2>2. QED
    BY <1>2, <1>3, <2>1 DEF TypeOK
<1>5. Staged'
  BY <1>1, <1>2, <1>3, StoreAssumption DEF Staged, Files
<1>6. Rows' /\ OneUploadPerKey'
  BY <1>1, <1>2 DEF Rows, OneUploadPerKey
<1>7. Making' /\ Walking' /\ Opening'
  BY <1>1, <1>3 DEF Making, Walking, Opening
<1>8. QED
  BY <1>4, <1>5, <1>6, <1>7

LEMMA DiscardKeeps ==
  ASSUME IInv, Discard
  PROVE  IInv'
<1> USE DEF IInv, Discard, At, clock
<1>1. /\ op \in Jobs /\ op.id \in Uploads /\ op.id \in Files /\ op.kind \in Ops
      /\ op.todo \in SUBSET Files /\ row[op.id] = "none"
  BY JobShape DEF JobPlaces, Making, Files
<1>2. /\ part' \in [Uploads -> 0..MaxFile] /\ size' \in [Files -> 0..MaxFile]
      /\ \A u \in Uploads : u # op.id => part'[u] = part[u]
      /\ \A f \in Files : f # op.id => size'[f] = size[f]
  BY <1>1, StoreAssumption DEF TypeOK
<1>3. /\ up' \in [Uploads -> {NoRecord} \cup Records] /\ up'[op.id] = NoRecord
      /\ \A u \in Uploads : u # op.id => up'[u] = up[u]
  BY <1>1 DEF TypeOK
<1>4. \/ op' = Idle /\ op'.at = "idle"
      \/ /\ op.kind = "sweep" /\ op' \in Walks /\ op'.at = "look"
         /\ op'.kind = "sweep" /\ op'.todo = op.todo
  BY <1>1, WalkFields, IdleFields
<1>5. TypeOK'
  <2>1. /\ faults' \in 0..MaxFaults /\ slip' \in BOOLEAN /\ loose' \in BOOLEAN
    BY ErrorsShape
  <2>2. used' \in Nat
    BY <1>1, StoreAssumption DEF TypeOK, Less, Records, NoRecord
  <2>3. index' \in [Keys -> Uploads \cup {NoUpload}]
    BY DEF TypeOK
  <2>4. QED
    BY <1>2, <1>3, <1>4, <2>1, <2>2, <2>3 DEF TypeOK
<1>6. Staged'
  BY <1>1, <1>2, <1>3 DEF Staged, NoRecord, Files
<1>7. Rows'
  BY <1>1, <1>2 DEF Rows
<1>8. OneUploadPerKey'
  <2> SUFFICES ASSUME NEW u \in Uploads, up'[u] # NoRecord
               PROVE  index'[up'[u].key] = u
    BY DEF OneUploadPerKey
  <2>1. u # op.id /\ up'[u] = up[u] /\ up[u] \in Records
    BY <1>3 DEF TypeOK
  <2>2. up[u].key \in Keys /\ index[up[u].key] = u
    BY <2>1 DEF OneUploadPerKey, Records
  <2>3. QED
    BY <2>1, <2>2
<1>9. Making' /\ Walking'
  BY <1>1, <1>4 DEF Making, Walking
<1>10. Opening'
  <2>1. up = NoUploads => up' = up
    BY <1>1, <1>3 DEF NoUploads, TypeOK
  <2>2. QED
    BY <1>4, <2>1 DEF Opening
<1>11. QED
  BY <1>5, <1>6, <1>7, <1>8, <1>9, <1>10

-----------------------------------------------------------------------------
(***************************************************************************)
(* Artifacts.                                                              *)
(***************************************************************************)
LEMMA PublishKeeps ==
  ASSUME IInv, NEW a \in Artifacts, NEW n \in Sizes, NEW m \in Sizes, Publish(a, n, m)
  PROVE  IInv'
<1> USE DEF IInv, Publish, tables, clock
<1>1. /\ op.at = "idle" /\ a \in Files /\ a \notin Uploads /\ phase = "open"
      /\ size[a] = 0 /\ row[a] = "none" /\ n \in 0..MaxFile /\ n > 0
  BY StoreAssumption DEF Ready, Idle, Files, Unused, Rows, Sizes
<1>2. /\ op' \in Jobs /\ op'.at = "copy" /\ op'.kind = "publish"
      /\ op'.id = a /\ op'.todo = {}
  BY <1>1, JobFields DEF Ops, JobPlaces
<1>3. loose' \in BOOLEAN
  OBVIOUS
<1>4. TypeOK'
  BY <1>1, <1>2, <1>3 DEF TypeOK
<1>5. Staged' /\ OneUploadPerKey'
  BY <1>1, <1>2 DEF Staged, OneUploadPerKey, TypeOK
<1>6. Rows'
  BY <1>1 DEF Rows, TypeOK
<1>7. Making'
  BY <1>1, <1>2 DEF Making, TypeOK
<1>8. Walking' /\ Opening'
  BY <1>1, <1>2 DEF Walking, Opening
<1>9. QED
  BY <1>4, <1>5, <1>6, <1>7, <1>8

LEMMA CopyKeeps ==
  ASSUME IInv, Copy
  PROVE  IInv'
<1> USE DEF IInv, Copy, At, tables, clock, errors
<1>1. /\ op \in Jobs /\ op.id \in Artifacts /\ op.id \in Files /\ op.kind = "publish"
      /\ row[op.id] = "none" /\ size[op.id] > 0 /\ op.todo = {}
  BY JobShape DEF JobPlaces, Making, Walking
<1>2. PICK n \in 0..MaxSource, at \in {"place", "scrap"} :
        /\ temp' = [temp EXCEPT ![op.id] = n] /\ Go(at)
        /\ at = "place" => n = size[op.id]
  OBVIOUS
<1>3. /\ op' \in Jobs /\ op'.at = at /\ op'.kind = op.kind /\ op'.id = op.id
      /\ op'.todo = op.todo
  BY <1>1, <1>2, GoShape DEF JobPlaces
<1>4. /\ temp' \in [Artifacts -> 0..MaxSource]
      /\ at = "place" => temp'[op.id] = size[op.id]
  BY <1>1, <1>2 DEF TypeOK
<1>5. TypeOK'
  BY <1>3, <1>4 DEF TypeOK
<1>6. Staged' /\ Rows' /\ OneUploadPerKey'
  BY DEF Staged, Rows, OneUploadPerKey
<1>7. Making' /\ Walking' /\ Opening'
  BY <1>1, <1>2, <1>3, <1>4 DEF Making, Walking, Opening
<1>8. QED
  BY <1>5, <1>6, <1>7

LEMMA PlaceKeeps ==
  ASSUME IInv, Place
  PROVE  IInv'
<1> USE DEF IInv, Place, At, tables, clock
<1>1. /\ op \in Jobs /\ op.id \in Artifacts /\ op.id \in Files /\ op.id \notin Uploads
      /\ op.kind = "publish" /\ op.todo = {}
      /\ row[op.id] = "none" /\ size[op.id] > 0 /\ temp[op.id] = size[op.id]
  BY JobShape, StoreAssumption DEF JobPlaces, Making, Walking
<1>2. CASE /\ Works /\ Go("row")
           /\ final' = [final EXCEPT ![op.id] = temp[op.id]]
           /\ temp' = [temp EXCEPT ![op.id] = 0]
  <2>1. /\ op' \in Jobs /\ op'.at = "row" /\ op'.kind = op.kind /\ op'.id = op.id
        /\ op'.todo = op.todo
    BY <1>1, <1>2, GoShape DEF JobPlaces
  <2>2. /\ temp' \in [Artifacts -> 0..MaxSource] /\ final' \in [Files -> 0..MaxFile]
        /\ final'[op.id] = size[op.id]
        /\ \A f \in Files : f # op.id => final'[f] = final[f]
    BY <1>1, <1>2, StoreAssumption DEF TypeOK
  <2>3. TypeOK'
    BY <1>2, <2>1, <2>2, ErrorsShape DEF TypeOK
  <2>4. Staged' /\ Rows' /\ OneUploadPerKey'
    BY <1>1, <2>2 DEF Staged, Rows, OneUploadPerKey
  <2>5. Making'
    BY <1>1, <2>1, <2>2 DEF Making
  <2>6. Walking' /\ Opening'
    BY <1>1, <2>1 DEF Walking, Opening
  <2>7. QED
    BY <2>3, <2>4, <2>5, <2>6
<1>3. CASE Fails /\ Go("scrap") /\ UNCHANGED <<final, temp>>
  <2>1. op' \in Jobs /\ op'.at = "scrap" /\ op'.kind = op.kind /\ op'.id = op.id
    BY <1>1, <1>3, GoShape DEF JobPlaces
  <2>2. TypeOK'
    BY <1>3, <2>1, ErrorsShape DEF TypeOK
  <2>3. Staged' /\ Rows' /\ OneUploadPerKey'
    BY <1>3 DEF Staged, Rows, OneUploadPerKey
  <2>4. Making' /\ Walking' /\ Opening'
    BY <1>1, <1>3, <2>1 DEF Making, Walking, Opening
  <2>5. QED
    BY <2>2, <2>3, <2>4
<1>4. QED
  BY <1>2, <1>3

LEMMA ScrapKeeps ==
  ASSUME IInv, Scrap
  PROVE  IInv'
<1> USE DEF IInv, Scrap, At, tables, clock
<1>1. /\ op.id \in Artifacts /\ op.id \in Files /\ op.id \notin Uploads
      /\ row[op.id] = "none"
  BY JobShape, StoreAssumption DEF JobPlaces, Making
<1>2. op'.at = "idle"
  BY IdleFields
<1>3. /\ temp' \in [Artifacts -> 0..MaxSource] /\ size' \in [Files -> 0..MaxFile]
      /\ \A f \in Files : f # op.id => size'[f] = size[f]
  BY <1>1, StoreAssumption DEF TypeOK
<1>4. TypeOK'
  BY <1>3, ErrorsShape DEF TypeOK
<1>5. Staged' /\ Rows' /\ OneUploadPerKey'
  BY <1>1, <1>3 DEF Staged, Rows, OneUploadPerKey, Files
<1>6. Making' /\ Walking' /\ Opening'
  BY <1>2 DEF Making, Walking, Opening
<1>7. QED
  BY <1>4, <1>5, <1>6

-----------------------------------------------------------------------------
(***************************************************************************)
(* Walks.                                                                  *)
(***************************************************************************)
LEMMA BegunKeeps ==
  ASSUME IInv, NEW kind \in Ops \ {"open"}, NEW todo \in SUBSET Files,
         \A f \in todo : row[f] # "none" \/ (kind = "sweep" /\ f \in Uploads),
         Begun(Walk(kind, todo))
  PROVE  IInv'
<1> USE DEF IInv, Begun, disk, tables, clock, errors
<1>1. op.at = "idle" /\ phase = "open"
  BY DEF Ready, Idle
<1>2. op' \in Walks /\ op'.at = "look" /\ op'.kind = kind /\ op'.todo = todo
  BY WalkFields
<1>3. TypeOK'
  BY <1>2 DEF TypeOK
<1>4. Staged' /\ Rows' /\ OneUploadPerKey'
  BY <1>1 DEF Staged, Rows, OneUploadPerKey
<1>5. Making' /\ Walking' /\ Opening'
  BY <1>1, <1>2 DEF Making, Walking, Opening
<1>6. QED
  BY <1>3, <1>4, <1>5

LEMMA WalksKeep ==
  ASSUME IInv, Resolve \/ Read \/ List \/ Cleanup
  PROVE  IInv'
<1>1. \A f \in Files : Manifest(f) # "none" => row[f] # "none"
  BY DEF IInv, Rows, Manifest
<1>2. CASE Resolve
  <2>1. PICK S \in SUBSET Known(Uploads) : Begun(Walk("strict", S))
    BY <1>2 DEF Resolve
  <2>2. S \in SUBSET Files /\ \A f \in S : row[f] # "none"
    BY <1>1 DEF Known, Files
  <2>3. QED
    BY <2>1, <2>2, BegunKeeps DEF Ops
<1>3. CASE Read
  <2>1. PICK a \in Known(Artifacts) : Begun(Walk("strict", {a}))
    BY <1>3 DEF Read
  <2>2. {a} \in SUBSET Files /\ \A f \in {a} : row[f] # "none"
    BY <1>1 DEF Known, Files
  <2>3. QED
    BY <2>1, <2>2, BegunKeeps DEF Ops
<1>4. CASE List
  <2> DEFINE S == {a \in Artifacts : row[a] # "none"}
  <2>1. S \in SUBSET Files /\ \A f \in S : row[f] # "none"
    BY DEF Files
  <2>2. Begun(Walk("list", S))
    BY <1>4 DEF List
  <2>3. QED
    BY <2>1, <2>2, BegunKeeps DEF Ops
<1>5. CASE Cleanup
  <2>1. PICK idle \in SUBSET Active : Begun(Walk("sweep", idle \cup Visited))
    BY <1>5 DEF Cleanup
  <2>2. /\ idle \cup Visited \in SUBSET Files
        /\ \A f \in idle \cup Visited : row[f] # "none" \/ f \in Uploads
    BY DEF Active, Visited, Files
  <2>3. QED
    BY <2>1, <2>2, BegunKeeps DEF Ops
<1>6. QED
  BY <1>2, <1>3, <1>4, <1>5

LEMMA SeesShape ==
  ASSUME TypeOK, NEW f \in Files, NEW state \in States, Sees(f, state)
  PROVE  /\ harmed' \in SUBSET Files /\ harmed \subseteq harmed'
         /\ faults' \in 0..MaxFaults /\ slip' \in BOOLEAN /\ loose' \in BOOLEAN
         /\ state # "none"
         /\ state = "expired" => f \in aged
         /\ state = "missing" => f \in harmed' \/ final[f] = 0
<1>1. faults' \in 0..MaxFaults /\ slip' \in BOOLEAN /\ loose' \in BOOLEAN
  BY ErrorsShape DEF Sees
<1>2. harmed' \in SUBSET Files /\ harmed \subseteq harmed'
  BY DEF Sees, TypeOK
<1>3. QED
  BY <1>1, <1>2, StoreAssumption DEF Sees, StateOf, TypeOK

LEMMA LookKeeps ==
  ASSUME IInv, NEW f \in Files, Look(f)
  PROVE  IInv'
<1> USE DEF IInv, Look, At, disk, tables
<1>1. /\ op \in Walks /\ op.kind \in Ops /\ op.todo \in SUBSET Files
      /\ op.kind # "open" /\ row[f] # "none"
      /\ \A g \in op.todo \ {f} : row[g] # "none" \/ (op.kind = "sweep" /\ g \in Uploads)
  BY WalkShape DEF WalkPlaces, Walking
<1>2. PICK state \in States : Look(f)!2!(state)
  OBVIOUS
<1>3. /\ harmed' \in SUBSET Files /\ harmed \subseteq harmed'
      /\ faults' \in 0..MaxFaults /\ slip' \in BOOLEAN /\ loose' \in BOOLEAN
      /\ state # "none" /\ (state = "expired" => f \in aged)
  BY <1>2, SeesShape
<1>4. Was(f) \in States /\ Was(f) # "none"
  BY <1>1 DEF Was, Manifest, TypeOK, Rows
<1>5. /\ cache' \in [Files -> States] /\ used' \in Nat
      /\ \A g \in Files : g # f => cache'[g] = cache[g]
  BY <1>2, <1>4, StoreAssumption DEF TypeOK, Retired, Less, States
<1>6. \/ /\ op' \in Walks /\ op'.at = "look" /\ op'.kind = op.kind
         /\ op'.todo = op.todo \ {f}
      \/ /\ state \in {"expired", "missing"}
         /\ op' \in Jobs /\ op'.kind = op.kind /\ op'.id = f /\ op'.todo = op.todo \ {f}
         /\ op'.at = IF state = "expired" THEN "delete" ELSE "note"
  <2>1. CASE state = "ready"
    BY <1>1, <1>2, <2>1 DEF Walks
  <2>2. CASE state # "ready"
    BY <1>1, <1>2, <2>2, JobFields DEF JobPlaces
  <2>3. QED
    BY <2>1, <2>2
<1>7. state = "missing" => cache'[f] = "missing"
  BY <1>2 DEF Retired, TypeOK
<1>8. TypeOK'
  BY <1>3, <1>5, <1>6 DEF TypeOK
<1>9. Staged' /\ Rows' /\ OneUploadPerKey'
  BY <1>1, <1>3, <1>5 DEF Staged, Rows, OneUploadPerKey
<1>10. Making'
  BY <1>6 DEF Making
<1>11. Walking'
  BY <1>1, <1>3, <1>6, <1>7 DEF Walking
<1>12. Opening'
  BY <1>1, <1>6 DEF Opening
<1>13. QED
  BY <1>8, <1>9, <1>10, <1>11, <1>12

LEMMA ExpelKeeps ==
  ASSUME IInv, NEW u \in Uploads, Expel(u)
  PROVE  IInv'
<1> USE DEF IInv, Expel, At, disk, tables, clock, errors
<1>1. op.at = "look" /\ op.todo \in SUBSET Files /\ u \in op.todo /\ u \in Files
  BY WalkShape DEF WalkPlaces, Files
<1>2. \A g \in op.todo : row[g] # "none" \/ (op.kind = "sweep" /\ g \in Uploads)
  BY <1>1 DEF Walking
<1>3. op.kind = "sweep" /\ row[u] = "none"
  BY <1>1, <1>2
<1>4. /\ op' \in Jobs /\ op'.at = "discard" /\ op'.kind = "sweep"
      /\ op'.id = u /\ op'.todo = op.todo \ {u}
  <2>1. op.todo \ {u} \in SUBSET Files /\ u \in Files
    BY <1>1
  <2>2. "sweep" \in Ops /\ "discard" \in JobPlaces
    BY DEF Ops, JobPlaces
  <2>3. QED
    BY <2>1, <2>2, JobFields
<1>5. TypeOK'
  BY <1>4 DEF TypeOK
<1>6. Staged' /\ Rows' /\ OneUploadPerKey'
  BY <1>4 DEF Staged, Rows, OneUploadPerKey
<1>7. Making' /\ Walking' /\ Opening'
  BY <1>1, <1>4, <1>2, <1>3 DEF Making, Walking, Opening
<1>8. QED
  BY <1>5, <1>6, <1>7

LEMMA DeleteKeeps ==
  ASSUME IInv, Delete
  PROVE  IInv'
<1> USE DEF IInv, Delete, At, tables, clock
<1>1. /\ op \in Jobs /\ op.id \in Files /\ op.kind \in Ops /\ op.todo \in SUBSET Files
      /\ row[op.id] # "none" /\ op.id \in aged \cup harmed
  BY JobShape DEF JobPlaces, Walking
<1>2. /\ final' \in [Files -> 0..MaxFile]
      /\ \A f \in Files : f # op.id => final'[f] = final[f]
  BY <1>1, StoreAssumption DEF TypeOK
<1>3. /\ op.kind # "open" => cache' = [cache EXCEPT ![op.id] = "expired"]
      /\ op.kind = "open" => cache' = cache
  BY DEF Retired
<1>4. /\ cache' \in [Files -> States] /\ cache'[op.id] # "none"
      /\ \A f \in Files : f # op.id => cache'[f] = cache[f]
  BY <1>1, <1>3 DEF TypeOK, States, Walking
<1>5. used' \in Nat
  BY <1>1, StoreAssumption DEF TypeOK, Retired, Less
<1>6. \/ /\ op' \in Jobs /\ op'.at = "note" /\ op'.kind = op.kind /\ op'.id = op.id
         /\ op'.todo = op.todo
      \/ /\ op' \in Walks /\ op'.at = "look" /\ op'.kind = op.kind /\ op'.todo = op.todo
  <2>1. CASE Go("note")
    BY <1>1, <2>1, GoShape DEF JobPlaces
  <2>2. CASE op.kind = "open" /\ op' = Walk("open", op.todo)
    BY <1>1, <2>2, WalkFields
  <2>3. QED
    BY <2>1, <2>2 DEF Go
<1>7. TypeOK'
  BY <1>2, <1>4, <1>5, <1>6, ErrorsShape DEF TypeOK
<1>8. Staged' /\ OneUploadPerKey'
  BY <1>1 DEF Staged, OneUploadPerKey
<1>9. Rows'
  BY <1>1, <1>2, <1>4 DEF Rows
<1>10. Making'
  BY <1>6 DEF Making
<1>11. Walking'
  BY <1>1, <1>4, <1>6 DEF Walking
<1>12. Opening'
  BY <1>1, <1>6 DEF Opening
<1>13. QED
  BY <1>7, <1>8, <1>9, <1>10, <1>11, <1>12

LEMMA NoteKeeps ==
  ASSUME IInv, Note
  PROVE  IInv'
<1> USE DEF IInv, Note, At, tables, clock
<1>1. /\ op \in Jobs /\ op.id \in Files /\ op.kind \in Ops /\ op.todo \in SUBSET Files
      /\ row[op.id] # "none" /\ cache[op.id] # "none"
  BY JobShape DEF JobPlaces, Walking
<1>2. /\ row' \in [Files -> States]
      /\ \A f \in Files : row'[f] = "none" <=> row[f] = "none"
  BY <1>1 DEF TypeOK
<1>3. \/ op' = Idle /\ op'.at = "idle"
      \/ /\ op' \in Walks /\ op'.at = "look" /\ op'.kind = op.kind /\ op'.todo = op.todo
         /\ phase' = phase
  BY <1>1, WalkFields, IdleFields
<1>4. phase' = phase \/ (op.kind = "open" /\ phase' = "broken")
  OBVIOUS
<1>5. TypeOK'
  BY <1>2, <1>3, <1>4, ErrorsShape DEF TypeOK
<1>6. Staged'
  BY <1>1, <1>2 DEF Staged, Files
<1>7. Rows' /\ OneUploadPerKey'
  BY <1>2 DEF Rows, OneUploadPerKey
<1>8. Making'
  BY <1>3 DEF Making
<1>9. Walking'
  <2>1. CASE op'.at = "idle"
    BY <2>1 DEF Walking
  <2>2. CASE op'.at = "look" /\ op'.kind = op.kind /\ op'.todo = op.todo
    BY <1>1, <1>2, <2>2 DEF Walking
  <2>3. QED
    BY <1>3, <2>1, <2>2
<1>10. Opening'
  BY <1>1, <1>3, <1>4 DEF Opening
<1>11. QED
  BY <1>5, <1>6, <1>7, <1>8, <1>9, <1>10

LEMMA DoneKeeps ==
  ASSUME IInv, Done
  PROVE  IInv'
<1> USE DEF IInv, Done, At, disk, tables, clock, errors
<1>1. op \in Walks /\ op.kind \in Ops
  BY WalkShape DEF WalkPlaces
<1>2. \/ op' = Idle /\ op'.at = "idle"
      \/ /\ op' \in Walks /\ op'.at = "orphans" /\ op'.kind = op.kind /\ op.kind = "open"
  BY <1>1, IdleFields DEF Walks
<1>3. TypeOK'
  BY <1>2 DEF TypeOK
<1>4. Staged' /\ Rows' /\ OneUploadPerKey'
  BY DEF Staged, Rows, OneUploadPerKey
<1>5. Making' /\ Walking' /\ Opening'
  BY <1>2 DEF Making, Walking, Opening
<1>6. QED
  BY <1>3, <1>4, <1>5

-----------------------------------------------------------------------------
(***************************************************************************)
(* open(), the process and the world.                                      *)
(***************************************************************************)
LEMMA OpenKeeps ==
  ASSUME IInv, Open
  PROVE  IInv'
<1> USE DEF IInv, Open, disk, tables, clock, errors
<1>1. op' \in Walks /\ op'.at = "clear" /\ op'.kind = "open" /\ op'.todo = {}
  BY DEF Walks, Ops
<1>2. TypeOK'
  BY <1>1 DEF TypeOK
<1>3. \A u \in Uploads : up[u] = NoRecord
  BY DEF Opening, NoUploads
<1>4. Staged' /\ Rows' /\ OneUploadPerKey'
  BY <1>3 DEF Staged, Rows, OneUploadPerKey, NoRecord
<1>5. Making' /\ Walking' /\ Opening'
  BY <1>1 DEF Making, Walking, Opening
<1>6. QED
  BY <1>2, <1>4, <1>5

LEMMA ClearKeeps ==
  ASSUME IInv, Clear
  PROVE  IInv'
<1> USE DEF IInv, Clear, At, tables, clock
<1>1. op.kind = "open" /\ op.at # "idle" /\ phase = "opening"
  BY DEF Opening
<1>2. \A u \in Uploads : up[u].state = "none"
  BY <1>1 DEF Opening, NoUploads, NoRecord
<1>3. /\ op' \in Walks /\ op'.at = "look" /\ op'.kind = "open"
      /\ \A f \in op'.todo : row[f] # "none"
  <2> DEFINE S == {f \in Files : row[f] # "none"}
  <2>1. S \in SUBSET Files /\ "open" \in Ops /\ op' = Walk("open", S)
    BY DEF Ops
  <2>2. op' \in Walks /\ op'.at = "look" /\ op'.kind = "open" /\ op'.todo = S
    BY <2>1, WalkFields
  <2>3. QED
    BY <2>2
<1>4. part' \in [Uploads -> 0..MaxFile] /\ temp' \in [Artifacts -> 0..MaxSource]
  BY StoreAssumption DEF TypeOK, Zero
<1>5. TypeOK'
  BY <1>3, <1>4, ErrorsShape DEF TypeOK
<1>6. Staged' /\ Rows' /\ OneUploadPerKey'
  BY <1>2 DEF Staged, Rows, OneUploadPerKey
<1>7. Making' /\ Walking' /\ Opening'
  BY <1>1, <1>3 DEF Making, Walking, Opening
<1>8. QED
  BY <1>5, <1>6, <1>7

LEMMA LoadKeeps ==
  ASSUME IInv, NEW f \in Files, Load(f)
  PROVE  IInv'
<1> USE DEF IInv, Load, At, disk, tables
<1>1. /\ op \in Walks /\ op.kind = "open" /\ op.at # "idle" /\ op.todo \in SUBSET Files
      /\ \A g \in op.todo : row[g] # "none"
  BY WalkShape DEF WalkPlaces, Walking
<1>2. row[f] # "none" /\ op.todo \ {f} \in SUBSET Files /\ "open" \in Ops
  BY <1>1 DEF Ops
<1>3. PICK state \in States : Load(f)!2!(state)
  OBVIOUS
<1>4. /\ harmed' \in SUBSET Files /\ harmed \subseteq harmed'
      /\ faults' \in 0..MaxFaults /\ slip' \in BOOLEAN /\ loose' \in BOOLEAN
      /\ state # "none" /\ (state = "expired" => f \in aged)
      /\ (state = "missing" => f \in harmed' \/ final[f] = 0)
  BY <1>3, SeesShape
<1>5. /\ cache' \in [Files -> States] /\ cache'[f] = state
      /\ \A g \in Files : g # f => cache'[g] = cache[g]
  BY <1>3 DEF TypeOK
<1>6. used' \in Nat
  BY <1>3, StoreAssumption DEF TypeOK
<1>7. \/ /\ op' \in Walks /\ op'.at = "look" /\ op'.kind = "open"
         /\ op'.todo = op.todo \ {f}
      \/ /\ op' \in Jobs /\ op'.kind = "open" /\ op'.id = f /\ op'.todo = op.todo \ {f}
         /\ op'.at = IF state = "ready" THEN "note" ELSE "delete"
  <2> HIDE DEF IInv, Load
  <2>1. CASE op' = Walk("open", op.todo \ {f})
    BY <1>2, <2>1, WalkFields
  <2>2. CASE state # "ready" /\ op' = Job("open", "delete", f, op.todo \ {f})
    BY <1>2, <2>2 DEF Job, Jobs
  <2>3. CASE state = "ready" /\ op' = Job("open", "note", f, op.todo \ {f})
    BY <1>2, <2>3 DEF Job, Jobs
  <2>4. QED
    BY <1>3, <2>1, <2>2, <2>3 DEF Load
<1>8. TypeOK'
  BY <1>4, <1>5, <1>6, <1>7 DEF TypeOK
<1>9. Staged' /\ Rows' /\ OneUploadPerKey'
  BY <1>2, <1>4, <1>5 DEF Staged, Rows, OneUploadPerKey
<1>10. Making' /\ Opening'
  BY <1>1, <1>7 DEF Making, Opening
<1>11. state # "ready" => f \in aged \cup harmed'
  <2>1. final[f] = 0 => f \in aged \cup harmed
    BY <1>2, StoreAssumption DEF Rows, TypeOK
  <2>2. state = "missing" => f \in aged \cup harmed'
    BY <1>4, <2>1
  <2>3. QED
    BY <1>4, <2>2 DEF States
<1>12. Walking'
  BY <1>1, <1>2, <1>4, <1>5, <1>7, <1>11 DEF Walking
<1>13. QED
  BY <1>8, <1>9, <1>10, <1>12

LEMMA OrphansKeeps ==
  ASSUME IInv, Orphans
  PROVE  IInv'
<1> USE DEF IInv, Orphans, At, tables, clock
<1>1. op.kind = "open" /\ op.at # "idle" /\ phase = "opening"
  BY DEF Opening
<1>2. \A u \in Uploads : up[u] = NoRecord
  BY <1>1 DEF Opening, NoUploads
<1>3. op'.at = "idle"
  BY IdleFields
<1>4. /\ final' \in [Files -> 0..MaxFile] /\ size' \in [Files -> 0..MaxFile]
      /\ \A f \in Files : row[f] # "none" => final'[f] = final[f] /\ size'[f] = size[f]
  BY StoreAssumption DEF TypeOK, Orphan
<1>5. TypeOK'
  BY <1>4, ErrorsShape DEF TypeOK
<1>6. Staged' /\ OneUploadPerKey'
  BY <1>2 DEF Staged, OneUploadPerKey, NoRecord
<1>7. Rows'
  BY <1>4 DEF Rows
<1>8. Making' /\ Walking' /\ Opening'
  BY <1>3 DEF Making, Walking, Opening
<1>9. QED
  BY <1>5, <1>6, <1>7, <1>8

LEMMA CloseKeeps ==
  ASSUME IInv, Close
  PROVE  IInv'
<1> USE DEF IInv, Close, disk, clock, errors
<1>1. \A u \in Uploads : up'[u] = NoRecord /\ up'[u].state = "none"
  BY DEF NoUploads, NoRecord
<1>2. TypeOK'
  <2>1. up' \in [Uploads -> {NoRecord} \cup Records]
    BY DEF NoUploads
  <2>2. index' \in [Keys -> Uploads \cup {NoUpload}]
    BY DEF NoIndex
  <2>3. QED
    BY <2>1, <2>2 DEF TypeOK
<1>3. Staged' /\ Rows' /\ OneUploadPerKey'
  BY <1>1 DEF Staged, Rows, OneUploadPerKey
<1>4. Making' /\ Walking' /\ Opening'
  BY DEF Making, Walking, Opening
<1>5. QED
  BY <1>2, <1>3, <1>4

LEMMA DownKeeps ==
  ASSUME IInv, Down
  PROVE  IInv'
<1> USE DEF IInv, Down, disk, clock
<1>1. \A u \in Uploads : up'[u] = NoRecord /\ up'[u].state = "none"
  BY DEF NoUploads, NoRecord
<1>2. op'.at = "idle"
  BY IdleFields
<1>3. TypeOK'
  <2>1. up' \in [Uploads -> {NoRecord} \cup Records]
    BY DEF NoUploads
  <2>2. index' \in [Keys -> Uploads \cup {NoUpload}]
    BY DEF NoIndex
  <2>3. cache' \in [Files -> States]
    BY DEF NoManifests, States
  <2>4. crashes' \in 0..MaxCrashes
    BY StoreAssumption DEF TypeOK
  <2>5. QED
    BY <2>1, <2>2, <2>3, <2>4 DEF TypeOK
<1>4. Staged' /\ OneUploadPerKey'
  BY <1>1 DEF Staged, OneUploadPerKey
<1>5. Rows'
  BY DEF Rows, NoManifests
<1>6. Making' /\ Walking' /\ Opening'
  BY <1>2 DEF Making, Walking, Opening
<1>7. QED
  BY <1>3, <1>4, <1>5, <1>6

LEMMA AgeKeeps ==
  ASSUME IInv, NEW f \in Files, Age(f)
  PROVE  IInv'
<1> USE DEF IInv, Age, disk, memory, errors
<1>1. TypeOK'
  BY DEF TypeOK
<1>2. Staged' /\ Rows' /\ OneUploadPerKey'
  BY DEF Staged, Rows, OneUploadPerKey
<1>3. Making' /\ Walking' /\ Opening'
  BY DEF Making, Walking, Opening
<1>4. QED
  BY <1>1, <1>2, <1>3

LEMMA VanishKeeps ==
  ASSUME IInv, NEW f \in Files, Vanish(f)
  PROVE  IInv'
<1> USE DEF IInv, Vanish, memory
<1>1. op.at = "idle" /\ op' = op
  BY DEF Idle
<1>2. final' \in [Files -> 0..MaxFile]
  BY StoreAssumption DEF TypeOK
<1>3. harmed' \in SUBSET Files
  BY DEF TypeOK
<1>4. TypeOK'
  BY <1>2, <1>3, ErrorsShape DEF TypeOK
<1>5. Staged' /\ Rows' /\ OneUploadPerKey'
  BY DEF Staged, Rows, OneUploadPerKey, TypeOK
<1>6. Making' /\ Walking' /\ Opening'
  BY <1>1 DEF Making, Walking, Opening
<1>7. QED
  BY <1>4, <1>5, <1>6

-----------------------------------------------------------------------------
(***************************************************************************)
(* The inductive invariant and what follows from it.                       *)
(***************************************************************************)
LEMMA AnyIn == ASSUME NEW S, NEW x \in Any(S) PROVE x \in S
BY DEF Any

LEMMA CallKeeps == ASSUME IInv, Call PROVE IInv'
<1>1. CASE \E k \in Any({x \in Keys : Free(x)}), u \in Any(Uploads \cap Unused),
              n \in Sizes : Begin(k, u, n)
  <2>1. PICK k \in Any({x \in Keys : Free(x)}), u \in Any(Uploads \cap Unused),
             n \in Sizes : Begin(k, u, n)
    BY <1>1
  <2>2. k \in Keys /\ u \in Uploads
    BY AnyIn
  <2>3. QED
    BY <2>1, <2>2, BeginKeeps
<1>2. CASE \E u \in Uploads : Chunk(u) \/ Abort(u) \/ Commit(u)
  BY <1>2, ChunkKeeps, AbortKeeps, CommitKeeps
<1>3. CASE \E a \in Any(Artifacts \cap Unused), n, m \in Sizes : Publish(a, n, m)
  <2>1. PICK a \in Any(Artifacts \cap Unused), n \in Sizes, m \in Sizes : Publish(a, n, m)
    BY <1>3
  <2>2. a \in Artifacts
    BY AnyIn
  <2>3. QED
    BY <2>1, <2>2, PublishKeeps
<1>4. CASE Resolve \/ Read \/ List
  BY <1>4, WalksKeep
<1>5. QED
  BY <1>1, <1>2, <1>3, <1>4 DEF Call, Served, Deliver

LEMMA NextKeeps == ASSUME IInv, [Next]_vars PROVE IInv'
<1>1. CASE Call \/ Cleanup
  BY <1>1, CallKeeps, WalksKeep
<1>2. CASE Step
  BY <1>2, RenameKeeps, ChmodKeeps, RowKeeps, UnlinkKeeps, DiscardKeeps, CopyKeeps,
     PlaceKeeps, ScrapKeeps, LookKeeps, LoadKeeps, ExpelKeeps, DeleteKeeps, NoteKeeps,
     DoneKeeps, ClearKeeps, OrphansKeeps DEF Step
<1>3. CASE Open \/ World
  BY <1>3, OpenKeeps, CloseKeeps, DownKeeps, AgeKeeps, VanishKeeps DEF World
<1>4. CASE UNCHANGED vars
  <2>1. UNCHANGED <<part, temp, final, row, size, phase, op, up, index, cache, used,
                    aged, harmed, slip, loose, faults, crashes>>
    BY <1>4 DEF vars, disk, memory, clock, errors
  <2>2. TypeOK'
    BY <2>1 DEF IInv, TypeOK
  <2>3. Staged' /\ Rows' /\ OneUploadPerKey'
    BY <2>1 DEF IInv, Staged, Rows, OneUploadPerKey
  <2>4. Making' /\ Walking' /\ Opening'
    BY <2>1 DEF IInv, Making, Walking, Opening
  <2>5. QED
    BY <2>2, <2>3, <2>4 DEF IInv
<1>5. QED
  BY <1>1, <1>2, <1>3, <1>4 DEF Next

THEOREM Invariance == Spec => []IInv
<1>1. IInv /\ [Next]_vars => IInv'
  BY NextKeeps
<1>2. QED
  BY InitIInv, <1>1, PTL DEF Spec

(***************************************************************************)
(* TypeOK, for any files, sizes, limits and number of failures.            *)
(***************************************************************************)
THEOREM TypeCorrect == Spec => []TypeOK
<1>1. IInv => TypeOK
  BY DEF IInv
<1>2. QED
  BY <1>1, Invariance, PTL

(***************************************************************************)
(* WholeUntilExpired: no interleaving of calls, failures, crashes and      *)
(* reconciliations leaves a manifest without its bytes before it expires.  *)
(***************************************************************************)
THEOREM Wholeness == Spec => []WholeUntilExpired
<1>1. IInv => WholeUntilExpired
  BY DEF IInv, Rows, WholeUntilExpired
<1>2. QED
  BY <1>1, Invariance, PTL

(***************************************************************************)
(* OneUploadPerKey: a repeated beginUpload() finds the upload it began.    *)
(***************************************************************************)
THEOREM RetryFinds == Spec => []OneUploadPerKey
<1>1. IInv => OneUploadPerKey
  BY DEF IInv
<1>2. QED
  BY <1>1, Invariance, PTL

-----------------------------------------------------------------------------
(***************************************************************************)
(* The refinement: only the manifest's write makes a file appear, only the *)
(* deletion of lapsed bytes makes it go.                                   *)
(***************************************************************************)
V == [f \in Files |-> Kept(f)]
L == aged \cup harmed

LEMMA SameFiles ==
  ASSUME L' = L,
         \A f \in Files : /\ row'[f] = "none" <=> row[f] = "none"
                          /\ row[f] # "none" => (final'[f] > 0 <=> final[f] > 0)
  PROVE  UNCHANGED <<V, L>>
BY DEF V, Kept

LEMMA RowRefines ==
  ASSUME IInv, Row
  PROVE  Vault!Next \/ UNCHANGED <<V, L>>
<1>1. /\ op.id \in Files /\ row[op.id] = "none" /\ final[op.id] > 0 /\ final' = final
      /\ L' = L
  <2>1. op.at = "row"
    BY DEF Row, At
  <2>2. op.id \in Files
    BY <2>1, JobShape DEF IInv, JobPlaces
  <2>3. QED
    BY <2>1, <2>2 DEF IInv, Making, Row, L, clock
<1>2. CASE row' = row
  BY <1>1, <1>2, SameFiles
<1>3. CASE row' = [row EXCEPT ![op.id] = "ready"]
  <2>1. row \in [Files -> States]
    BY DEF IInv, TypeOK
  <2>2. V[op.id] = "absent" /\ V' = [V EXCEPT ![op.id] = "kept"]
    BY <1>1, <1>3, <2>1 DEF V, Kept
  <2>3. Vault!Keep(op.id)
    BY <1>1, <2>2 DEF Vault!Keep, V, L
  <2>4. QED
    BY <1>1, <2>3 DEF Vault!Next
<1>4. QED
  BY <1>2, <1>3 DEF Row

LEMMA SeesRefines ==
  ASSUME IInv, NEW f \in Files, Look(f) \/ Load(f)
  PROVE  Vault!Next \/ UNCHANGED <<V, L>>
<1>1. V' = V /\ aged' = aged /\ harmed' \in {harmed, harmed \cup {f}}
  BY DEF Look, Load, Sees, V, Kept, disk
<1>2. L' = L \/ L' = L \cup {f}
  BY <1>1 DEF L
<1>3. L' = L \cup {f} => Vault!Lapse(f)
  BY <1>1 DEF Vault!Lapse, V, L
<1>4. QED
  BY <1>1, <1>2, <1>3 DEF Vault!Next

LEMMA DropRefines ==
  ASSUME IInv, NEW f \in Files, row[f] # "none", row' = row, L' \in {L, L \cup {f}},
         f \in L', final' = [final EXCEPT ![f] = 0] \/ final' = final
  PROVE  Vault!Next \/ UNCHANGED <<V, L>>
<1>1. final \in [Files -> 0..MaxFile]
  BY DEF IInv, TypeOK
<1>2. CASE final' = final \/ ~(final[f] > 0)
  <2>1. \A g \in Files : final'[g] > 0 <=> final[g] > 0
    BY <1>1, <1>2, StoreAssumption
  <2>2. V' = V
    BY <2>1 DEF V, Kept
  <2>3. CASE L' = L
    BY <2>2, <2>3
  <2>4. CASE L' = L \cup {f}
    BY <2>2, <2>4 DEF Vault!Next, Vault!Lapse, V, L
  <2>5. QED
    BY <2>3, <2>4
<1>3. CASE final' = [final EXCEPT ![f] = 0] /\ final[f] > 0
  <2>1. final'[f] = 0 /\ \A g \in Files : g # f => final'[g] = final[g]
    BY <1>1, <1>3
  <2>2. V[f] = "kept" /\ V'[f] = "gone" /\ \A g \in Files : g # f => V'[g] = V[g]
    BY <1>3, <2>1 DEF V, Kept
  <2>3. V' = [V EXCEPT ![f] = "gone"]
    <3>1. V = [g \in Files |-> V[g]] /\ V' = [g \in Files |-> V'[g]]
      BY Zenon DEF V
    <3>2. QED
      BY <2>2, <3>1
  <2>4. Vault!Drop(f)
    BY <2>2, <2>3 DEF Vault!Drop, V, L
  <2>5. QED
    BY <2>4 DEF Vault!Next
<1>4. QED
  BY <1>2, <1>3

\* Bytes that no manifest names come and go unseen.
LEMMA UnnamedRefines ==
  ASSUME IInv, Rename \/ Unlink \/ Place \/ Orphans
  PROVE  UNCHANGED <<V, L>>
<1>1. row' = row /\ L' = L
  BY DEF Rename, Unlink, Place, Orphans, L, clock
<1>2. \A f \in Files : row[f] # "none" => final'[f] = final[f]
  <2>1. CASE Orphans
    BY <2>1 DEF Orphans, Orphan
  <2>2. CASE Rename \/ Unlink \/ Place
    <3>1. op.at \in {"rename", "unlink", "place"}
      BY <2>2 DEF Rename, Unlink, Place, At
    <3>2. op.id \in Files /\ row[op.id] = "none"
      BY <3>1, JobShape DEF IInv, JobPlaces, Making
    <3>3. QED
      BY <2>2, <3>2 DEF Rename, Unlink, Place, IInv, TypeOK
  <2>3. QED
    BY <2>1, <2>2
<1>3. QED
  BY <1>1, <1>2, SameFiles

LEMMA QuietRefines ==
  ASSUME UNCHANGED <<row, final, aged, harmed>>
  PROVE  UNCHANGED <<V, L>>
BY DEF V, L, Kept

LEMMA StepRefines ==
  ASSUME IInv, [Next]_vars
  PROVE  Vault!Next \/ UNCHANGED <<V, L>>
<1>1. CASE Call \/ Cleanup
  BY <1>1, QuietRefines DEF Call, Served, Deliver, Cleanup, Begin, Chunk, Abort, Commit, Publish, Resolve,
     Read, List, Begun, disk, clock
<1>2. CASE Row
  BY <1>2, RowRefines
<1>3. CASE Rename \/ Unlink \/ Place \/ Orphans
  BY <1>3, UnnamedRefines
<1>4. CASE \E f \in Files : Look(f) \/ Load(f)
  BY <1>4, SeesRefines
<1>5. CASE Delete
  <2>1. op.id \in Files /\ row[op.id] # "none" /\ op.id \in L
    BY <1>5, JobShape DEF IInv, JobPlaces, Walking, Delete, At, L
  <2>2. row' = row /\ L' = L /\ (final' = [final EXCEPT ![op.id] = 0] \/ final' = final)
    BY <1>5 DEF Delete, L, clock
  <2>3. QED
    BY <2>1, <2>2, DropRefines
<1>6. CASE Note
  <2>1. op.id \in Files /\ row[op.id] # "none" /\ cache[op.id] # "none"
    BY <1>6, JobShape DEF IInv, JobPlaces, Walking, Note, At
  <2>2. /\ final' = final /\ L' = L
        /\ \A f \in Files : row'[f] = "none" <=> row[f] = "none"
    BY <1>6, <2>1 DEF Note, L, clock, IInv, TypeOK
  <2>3. QED
    BY <2>2, SameFiles
<1>7. CASE \/ Chmod \/ Discard \/ Copy \/ Scrap \/ Done \/ Clear \/ Open \/ Close \/ Down
           \/ \E u \in Uploads : Expel(u)
  BY <1>7, QuietRefines DEF Chmod, Discard, Copy, Scrap, Done, Clear, Open, Close, Down,
     Expel, disk, clock
<1>8. CASE \E f \in Files : Age(f)
  <2>1. PICK f \in Files : Age(f)
    BY <1>8
  <2>2. V' = V /\ L' = L \cup {f}
    BY <2>1 DEF Age, V, Kept, L, disk
  <2>3. QED
    BY <2>2 DEF Vault!Next, Vault!Lapse, V, L
<1>9. CASE \E f \in Files : Vanish(f)
  <2>1. PICK f \in Files : Vanish(f)
    BY <1>9
  <2>2. /\ row[f] # "none" /\ row' = row /\ L' = L \cup {f}
        /\ final' = [final EXCEPT ![f] = 0]
    BY <2>1 DEF Vanish, L
  <2>3. QED
    BY <2>2, DropRefines
<1>10. CASE UNCHANGED vars
  BY <1>10, QuietRefines DEF vars, disk, clock
<1>11. QED
  BY <1>1, <1>2, <1>3, <1>4, <1>5, <1>6, <1>7, <1>8, <1>9, <1>10 DEF Next, Step, World

(***************************************************************************)
(* VaultSpec: the store implements FileVault, whatever fails and whenever  *)
(* the process dies.                                                       *)
(***************************************************************************)
THEOREM Refinement == Spec => VaultSpec
<1>1. Init => Vault!Init
  BY DEF Init, Vault!Init, Kept, NoManifests
<1>2. IInv /\ [Next]_vars => [Vault!Next]_<<[f \in Files |-> Kept(f)], aged \cup harmed>>
  BY StepRefines DEF V, L
<1>3. QED
  BY <1>1, <1>2, Invariance, PTL DEF Spec, VaultSpec, Vault!Spec

=============================================================================
