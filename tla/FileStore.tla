------------------------------- MODULE FileStore ------------------------------
(***************************************************************************)
(* The session file store of src/src/files/store.ts: uploads received in   *)
(* chunks and committed into attachments, artifacts copied from the        *)
(* workspace, their manifests, the byte count that the quota is tested     *)
(* with, expiry, and the reconciliation of a new process with what the     *)
(* last one left on disk.                                                  *)
(*                                                                         *)
(* A step makes one durable call, which may fail; the process may die      *)
(* between any two.  Every operation runs on the store's one queue, so at  *)
(* most one is under way.  Sizes are in chunks.  One session; an upload    *)
(* and the attachment it becomes share their id, since an upload whose     *)
(* commit got as far as a new attachment id is either committed or gone.   *)
(***************************************************************************)
EXTENDS FiniteSets, Integers

CONSTANTS
  Uploads, Artifacts,  \* the UUIDs
  Keys,                \* client upload ids
  NoUpload,            \* no upload
  MaxFile,             \* maxFileBytes
  MaxSource,           \* bound: what a source grows to while it is copied
  Limit,               \* storageLimitBytes
  MaxActive,           \* maxActiveUploads
  MaxFaults,           \* bound: durable calls that fail
  MaxCrashes           \* bound: restarts

ASSUME StoreAssumption ==
  /\ Uploads \cap Artifacts = {} /\ NoUpload \notin Uploads
  /\ IsFiniteSet(Uploads) /\ IsFiniteSet(Artifacts)
  /\ MaxFile \in Nat /\ MaxSource \in Nat /\ MaxFile <= MaxSource
  /\ Limit \in Nat /\ MaxActive \in Nat
  /\ MaxFaults \in Nat /\ MaxCrashes \in Nat

Files == Uploads \cup Artifacts
Sizes == 1..MaxFile

VARIABLES
  \* the disk: chunks under each name, and each manifest
  part,      \* incoming/<id>.part
  temp,      \* artifacts/<id>.tmp-<uuid>
  final,     \* attachments/<id>, artifacts/<id>
  row,       \* manifests/.../<id>.json: its state
  size,      \* the size declared, or recorded there; 0 when the id names nothing
  \* the process
  phase,     \* "down", "opening", "broken" (open() rejected), "open" or "closed"
  op,        \* the operation under way, at its next durable call
  up,        \* #uploads
  index,     \* #clientIndex
  cache,     \* #manifestCache: the state of each manifest
  used,      \* #usedBytes
  \* the rest
  aged,      \* files past expiresAt
  harmed,    \* history: files whose stat failed, or that were removed by hand
  slip,      \* history: the count went wrong since this process started
  loose,     \* history: it ever did, or the source of a copy was replaced
  faults, crashes

disk == <<part, temp, final, row, size>>
tables == <<up, index>>
memory == <<phase, op, up, index, cache, used>>
clock == <<aged, harmed>>
errors == <<slip, loose, faults>>
vars == <<disk, memory, clock, errors, crashes>>

Idle == [at |-> "idle"]
Walk(kind, todo) == [kind |-> kind, at |-> "look", todo |-> todo]
Job(kind, at, f, todo) == [kind |-> kind, at |-> at, id |-> f, todo |-> todo]
Ops == {"open", "chunk", "abort", "commit", "publish", "strict", "list", "sweep"}
Walks == [kind : Ops, at : {"clear", "look", "orphans"}, todo : SUBSET Files]
Jobs == [kind : Ops, id : Files, todo : SUBSET Files,
         at : {"rename", "chmod", "copy", "place", "scrap", "row", "unlink",
               "discard", "delete", "note"}]
States == {"none", "ready", "expired", "missing"}
NoRecord == [state |-> "none"]
Records == [state : {"open", "committed"}, key : Keys, written : 0..MaxFile]

(***************************************************************************)
(* Every variable keeps its type.                                          *)
(***************************************************************************)
TypeOK ==
  /\ part \in [Uploads -> 0..MaxFile] /\ temp \in [Artifacts -> 0..MaxSource]
  /\ final \in [Files -> 0..MaxFile] /\ size \in [Files -> 0..MaxFile]
  /\ row \in [Files -> States] /\ cache \in [Files -> States]
  /\ phase \in {"down", "opening", "broken", "open", "closed"}
  /\ op \in {Idle} \cup Walks \cup Jobs
  /\ up \in [Uploads -> {NoRecord} \cup Records]
  /\ index \in [Keys -> Uploads \cup {NoUpload}]
  /\ used \in Nat
  /\ aged \subseteq Files /\ harmed \subseteq Files
  /\ slip \in BOOLEAN /\ loose \in BOOLEAN
  /\ faults \in 0..MaxFaults /\ crashes \in 0..MaxCrashes

Zero(S) == [f \in S |-> 0]

NoUploads == [u \in Uploads |-> NoRecord]
NoIndex == [k \in Keys |-> NoUpload]
NoManifests == [f \in Files |-> "none"]

Init ==
  /\ part = Zero(Uploads) /\ temp = Zero(Artifacts) /\ final = Zero(Files)
  /\ size = Zero(Files) /\ row = NoManifests
  /\ phase = "down" /\ op = Idle
  /\ up = NoUploads /\ index = NoIndex /\ cache = NoManifests /\ used = 0
  /\ aged = {} /\ harmed = {}
  /\ slip = FALSE /\ loose = FALSE /\ faults = 0 /\ crashes = 0

-----------------------------------------------------------------------------
(***************************************************************************)
(* Durable calls.                                                          *)
(***************************************************************************)
Works == UNCHANGED errors

\* It fails, and the code undoes what it had done.
Fails ==
  /\ faults < MaxFaults
  /\ faults' = faults + 1
  /\ UNCHANGED <<slip, loose>>

\* It fails, and the error is swallowed or leaves bytes that nobody counts.
Slips ==
  /\ faults < MaxFaults
  /\ faults' = faults + 1
  /\ slip' = TRUE /\ loose' = TRUE

\* A count that is not kept from going below zero.
Less_bare(n, m) == n - m
Less(n, m) == IF m <= n THEN n - m ELSE 0

\* The room for n more: or only for what is there.
Room_late(n) == used <= Limit
Room(n) == used + n <= Limit

\* The chunks under the names of h, each with its place in the file.
Chunks(h) == {c \in (DOMAIN h) \X (1..MaxSource) : c[2] <= h[c[1]]}
Held(h) == Cardinality(Chunks(h))

\* What stands on the disk.
Occupied == Held(part) + Held(temp) + Held(final)

Ready == phase = "open" /\ op = Idle
Active == {u \in Uploads : up[u].state = "open"}
Bytes(f) == final[f] + (IF f \in Uploads THEN part[f] ELSE temp[f])
Unused == {f \in Files : size[f] = 0 /\ Bytes(f) = 0}

\* One of S: an unused id, and one client upload id, is as good as another.
Any(S) == IF S = {} THEN {} ELSE {CHOOSE x \in S : TRUE}

\* #stateOf(), when stat answers.
StateOf(f) ==
  IF f \in aged THEN "expired" ELSE IF final[f] > 0 THEN "ready" ELSE "missing"

\* #attachmentManifest(), #artifactManifest(): the cache first.
Manifest(f) == IF cache[f] # "none" THEN cache[f] ELSE row[f]

-----------------------------------------------------------------------------
(***************************************************************************)
(* Uploads.                                                                *)
(***************************************************************************)

\* A client upload id without an upload: or with one that has nothing yet.
Free_empty(k) ==
  IF index[k] = NoUpload THEN TRUE ELSE up[index[k]].written = 0
Free(k) == index[k] = NoUpload

\* beginUpload(): a client upload id in use finds its upload and changes
\* nothing; the quota is tested and nothing is reserved.
Begin(k, u, n) ==
  /\ Ready /\ Free(k)
  /\ u \in Unused
  /\ Cardinality(Active) < MaxActive /\ Room(n)
  /\ size' = [size EXCEPT ![u] = n]
  /\ up' = [up EXCEPT ![u] = [state |-> "open", key |-> k, written |-> 0]]
  /\ index' = [index EXCEPT ![k] = u]
  /\ UNCHANGED <<part, temp, final, row, phase, op, cache, used, clock, errors, crashes>>

\* writeChunk() at the offset reached; at an earlier one it compares only.
Chunk(u) ==
  /\ Ready /\ up[u].state = "open" /\ up[u].written < size[u]
  /\ Room(1)
  /\ \/ /\ part' = [part EXCEPT ![u] = @ + 1]
        /\ up' = [up EXCEPT ![u].written = @ + 1]
        /\ used' = used + 1
        /\ UNCHANGED op /\ Works
     \/ /\ Fails
        /\ op' = Job("chunk", "discard", u, {})
        /\ UNCHANGED <<part, up, used>>
  /\ UNCHANGED <<temp, final, row, size, phase, index, cache, clock, crashes>>

\* abortUpload()
Abort(u) ==
  /\ Ready /\ up[u].state = "open"
  /\ op' = Job("abort", "discard", u, {})
  /\ UNCHANGED <<disk, phase, tables, cache, used, clock, errors, crashes>>

\* All of its bytes are here: or some.
Complete_some(u) == up[u].written > 0
Complete(u) == up[u].written = size[u]

\* commitUpload(), its checks; a committed upload answers with its reference
\* again.
Commit(u) ==
  /\ Ready /\ up[u].state = "open" /\ Complete(u)
  /\ op' = Job("commit", "rename", u, {})
  /\ UNCHANGED <<disk, phase, tables, cache, used, clock, errors, crashes>>

At(at) == op.at = at
Go(at) == op' = [op EXCEPT !.at = at]

\* The staged bytes take their final name, and are made private.
Rename ==
  /\ At("rename")
  /\ \/ /\ Works /\ Go("chmod")
        /\ final' = [final EXCEPT ![op.id] = part[op.id]]
        /\ part' = [part EXCEPT ![op.id] = 0]
     \/ /\ Fails /\ Go("discard")
        /\ UNCHANGED <<final, part>>
  /\ UNCHANGED <<temp, row, size, phase, tables, cache, used, clock, crashes>>

Chmod ==
  /\ At("chmod")
  /\ (Works /\ Go("row")) \/ (Slips /\ Go("discard"))
  /\ UNCHANGED <<disk, phase, tables, cache, used, clock, crashes>>

\* What follows the manifest: an upload is committed unless close() has dropped
\* it, an artifact is counted.
Recorded(f) ==
  /\ cache' = [cache EXCEPT ![f] = "ready"]
  /\ IF op.kind = "publish"
     THEN used' = used + size[f] /\ UNCHANGED up
     ELSE /\ up' = IF up[f] = NoRecord THEN up ELSE [up EXCEPT ![f].state = "committed"]
          /\ UNCHANGED used

\* The manifest of a new file; the caller is given its reference.
Row ==
  /\ At("row")
  /\ \/ /\ Works /\ op' = Idle
        /\ row' = [row EXCEPT ![op.id] = "ready"]
        /\ Recorded(op.id)
     \/ /\ Fails /\ Go("unlink")
        /\ UNCHANGED <<row, cache, up, used>>
  /\ UNCHANGED <<part, temp, final, size, phase, index, clock, crashes>>

\* No manifest: the bytes go, if they can.
Unlink ==
  /\ At("unlink")
  /\ IF op.kind = "publish"
     THEN op' = Idle /\ size' = [size EXCEPT ![op.id] = 0]
     ELSE Go("discard") /\ UNCHANGED size
  /\ \/ Works /\ final' = [final EXCEPT ![op.id] = 0]
     \/ Slips /\ UNCHANGED final
  /\ UNCHANGED <<part, temp, row, phase, tables, cache, used, clock, crashes>>

\* #discardUpload(): a close() may have dropped the record already.
Discard ==
  /\ At("discard")
  /\ op' = IF op.kind = "sweep" THEN Walk("sweep", op.todo) ELSE Idle
  /\ used' = IF up[op.id].state = "open" THEN Less(used, up[op.id].written) ELSE used
  /\ up' = [up EXCEPT ![op.id] = NoRecord]
  /\ index' = [k \in Keys |-> IF index[k] = op.id THEN NoUpload ELSE index[k]]
  /\ \/ Works /\ part' = [part EXCEPT ![op.id] = 0]
     \/ Slips /\ UNCHANGED part
  /\ size' = [size EXCEPT ![op.id] = 0]
  /\ UNCHANGED <<temp, final, row, phase, cache, clock, crashes>>

-----------------------------------------------------------------------------
(***************************************************************************)
(* Artifacts.                                                              *)
(***************************************************************************)

\* publishArtifact(): the file that is open has n chunks.  The quota is tested
\* with the m that its path has by then.
Publish(a, n, m) ==
  /\ Ready /\ a \in Unused
  /\ Room(m)
  /\ size' = [size EXCEPT ![a] = n]
  /\ op' = Job("publish", "copy", a, {})
  /\ loose' = (loose \/ n > m)
  /\ UNCHANGED <<part, temp, final, row, phase, tables, cache, used, clock,
                 slip, faults, crashes>>

\* The copy, its sync and chmod: it reads to the end of the source and looks
\* only then whether that is what was there before.  Or a call failed.
Copy ==
  /\ At("copy")
  /\ \E n \in 0..MaxSource :
       /\ temp' = [temp EXCEPT ![op.id] = n]
       /\ (n = size[op.id] /\ Go("place")) \/ Go("scrap")
  /\ UNCHANGED <<part, final, row, size, phase, tables, cache, used, clock, errors, crashes>>

Place ==
  /\ At("place")
  /\ \/ /\ Works /\ Go("row")
        /\ final' = [final EXCEPT ![op.id] = temp[op.id]]
        /\ temp' = [temp EXCEPT ![op.id] = 0]
     \/ /\ Fails /\ Go("scrap")
        /\ UNCHANGED <<final, temp>>
  /\ UNCHANGED <<part, row, size, phase, tables, cache, used, clock, crashes>>

Scrap ==
  /\ At("scrap") /\ op' = Idle
  /\ \/ Works /\ temp' = [temp EXCEPT ![op.id] = 0]
     \/ Slips /\ UNCHANGED temp
  /\ size' = [size EXCEPT ![op.id] = 0]
  /\ UNCHANGED <<part, final, row, phase, tables, cache, used, clock, crashes>>

-----------------------------------------------------------------------------
(***************************************************************************)
(* Walks: resolveAttachments() and readArtifactChunk() stop at a file that *)
(* is not ready, listArtifacts() and cleanup() go on.                      *)
(***************************************************************************)
Known(S) == {f \in S : Manifest(f) # "none"}

Begun(walk) ==
  /\ Ready /\ op' = walk
  /\ UNCHANGED <<disk, phase, tables, cache, used, clock, errors, crashes>>

Resolve == \E S \in SUBSET Known(Uploads) : S # {} /\ Begun(Walk("strict", S))
Read == \E a \in Known(Artifacts) : Begun(Walk("strict", {a}))
List == Begun(Walk("list", {a \in Artifacts : row[a] # "none"}))

\* The manifests it visits: or artifacts only.
Visited_half == {f \in Artifacts : row[f] = "ready"}
Visited == {f \in Files : row[f] = "ready"}

\* cleanup(): any of the open uploads may have been idle for long enough.
Cleanup ==
  \E idle \in SUBSET Active : Begun(Walk("sweep", idle \cup Visited))

\* What a walk takes the manifest to say.
Was(f) == IF op.kind = "sweep" THEN row[f] ELSE Manifest(f)

\* #stateOf() at f; an error of stat means "missing".
Sees(f, state) ==
  \/ state = StateOf(f) /\ Works /\ UNCHANGED harmed
  \/ /\ state = "missing" /\ f \notin aged /\ Slips
     /\ harmed' = harmed \cup {f}

\* The manifest's bytes no longer count, and the cache says why.
Retired(f, state) ==
  /\ used' = IF Was(f) = "ready" THEN Less(used, size[f]) ELSE used
  /\ cache' = [cache EXCEPT ![f] = state]

\* One file: #expireManifest() deletes the bytes first, #markMissing() has none.
Look(f) ==
  /\ At("look") /\ op.kind # "open" /\ f \in op.todo /\ row[f] # "none"
  /\ \E state \in States :
       /\ Sees(f, state)
       /\ \/ /\ state = "ready"
             /\ op' = [op EXCEPT !.todo = @ \ {f}]
             /\ cache' = [cache EXCEPT ![f] = Was(f)]
             /\ UNCHANGED used
          \/ /\ state = "expired"
             /\ op' = Job(op.kind, "delete", f, op.todo \ {f})
             /\ UNCHANGED <<used, cache>>
          \/ /\ state = "missing"
             /\ op' = Job(op.kind, "note", f, op.todo \ {f})
             /\ Retired(f, "missing")
  /\ UNCHANGED <<disk, phase, tables, aged, crashes>>

\* cleanup() at an upload.
Expel(u) ==
  /\ At("look") /\ u \in op.todo /\ row[u] = "none"
  /\ op' = Job("sweep", "discard", u, op.todo \ {u})
  /\ UNCHANGED <<disk, phase, tables, cache, used, clock, errors, crashes>>

\* #deleteBytes(): a failure is swallowed.
Delete ==
  /\ At("delete")
  /\ \/ Works /\ final' = [final EXCEPT ![op.id] = 0]
     \/ Slips /\ UNCHANGED final
  /\ IF op.kind = "open"
     THEN /\ op' = IF row[op.id] = cache[op.id] THEN Walk("open", op.todo)
                   ELSE [op EXCEPT !.at = "note"]
          /\ UNCHANGED <<used, cache>>
     ELSE Go("note") /\ Retired(op.id, "expired")
  /\ UNCHANGED <<part, temp, row, size, phase, tables, clock, crashes>>

\* The manifest says so too: a failure is swallowed, and rejects open().
Note ==
  /\ At("note")
  /\ \/ /\ Works /\ UNCHANGED phase
        /\ row' = [row EXCEPT ![op.id] = cache[op.id]]
        /\ op' = IF op.kind = "strict" THEN Idle ELSE Walk(op.kind, op.todo)
     \/ /\ op.kind # "open" /\ Slips /\ UNCHANGED <<row, phase>>
        /\ op' = IF op.kind = "strict" THEN Idle ELSE Walk(op.kind, op.todo)
     \/ /\ op.kind = "open" /\ Fails /\ UNCHANGED row
        /\ op' = Idle /\ phase' = "broken"
  /\ UNCHANGED <<part, temp, final, size, tables, cache, used, clock, crashes>>

Done ==
  /\ At("look") /\ op.todo = {}
  /\ op' = IF op.kind = "open" THEN [op EXCEPT !.at = "orphans"] ELSE Idle
  /\ UNCHANGED <<disk, phase, tables, cache, used, clock, errors, crashes>>

-----------------------------------------------------------------------------
(***************************************************************************)
(* open(): once for each process.                                          *)
(***************************************************************************)
Open ==
  /\ phase = "down"
  /\ phase' = "opening" /\ op' = [kind |-> "open", at |-> "clear", todo |-> {}]
  /\ UNCHANGED <<disk, tables, cache, used, clock, errors, crashes>>

\* #clearDirectory(), #removeTemps(): a file that cannot be removed stays.
Clear ==
  /\ At("clear")
  /\ op' = Walk("open", {f \in Files : row[f] # "none"})
  /\ \/ Works /\ part' = Zero(Uploads) /\ temp' = Zero(Artifacts)
     \/ /\ Slips
        /\ \E f \in Files :
             /\ part' = [u \in Uploads |-> IF u = f THEN part[u] ELSE 0]
             /\ temp' = [a \in Artifacts |-> IF a = f THEN temp[a] ELSE 0]
  /\ UNCHANGED <<final, row, size, phase, tables, cache, used, clock, crashes>>

\* #loadAttachmentManifests(), #loadArtifactManifests(): one manifest.
Load(f) ==
  /\ At("look") /\ op.kind = "open" /\ f \in op.todo
  /\ \E state \in States :
       /\ Sees(f, state)
       /\ cache' = [cache EXCEPT ![f] = state]
       /\ used' = IF state = "ready" THEN used + size[f] ELSE used
       /\ op' = IF state # "ready" THEN Job("open", "delete", f, op.todo \ {f})
                ELSE IF row[f] # "ready" THEN Job("open", "note", f, op.todo \ {f})
                ELSE Walk("open", op.todo \ {f})
  /\ UNCHANGED <<disk, phase, tables, aged, crashes>>

\* Bytes that no manifest names: or none, or those that manifests/uploads/,
\* always empty by now, does not name.
Orphan_never(f) == FALSE
Orphan_upload(f) == f \in Uploads
Orphan(f) == row[f] = "none"

\* #removeOrphanBytes()
Orphans ==
  /\ At("orphans") /\ op' = Idle /\ phase' = "open"
  /\ \/ Works /\ final' = [f \in Files |-> IF Orphan(f) THEN 0 ELSE final[f]]
     \/ /\ Slips
        /\ \E kept \in Files :
             final' = [f \in Files |-> IF Orphan(f) /\ f # kept THEN 0 ELSE final[f]]
  /\ size' = [f \in Files |-> IF row[f] = "none" THEN 0 ELSE size[f]]
  /\ UNCHANGED <<part, temp, row, tables, cache, used, clock, crashes>>

-----------------------------------------------------------------------------
(***************************************************************************)
(* The process and the world.                                              *)
(***************************************************************************)

\* close(): not on the queue, so an operation may be under way and goes on.  An
\* assumption: it ends, or is cut off, before another store opens; nothing in
\* the code waits for it.
Close ==
  /\ phase = "open" /\ crashes < MaxCrashes
  /\ phase' = "closed"
  /\ up' = NoUploads /\ index' = NoIndex
  /\ UNCHANGED <<disk, op, cache, used, clock, errors, crashes>>

\* The process ends.  A store whose open() was rejected stays so until then.
Down ==
  /\ phase # "down"
  /\ IF phase = "broken" THEN UNCHANGED crashes
     ELSE crashes < MaxCrashes /\ crashes' = crashes + 1
  /\ phase' = "down" /\ op' = Idle /\ slip' = FALSE
  /\ up' = NoUploads /\ index' = NoIndex /\ cache' = NoManifests /\ used' = 0
  /\ UNCHANGED <<disk, clock, loose, faults>>

\* expiresAt passes; between operations, since each looks once at a file and
\* so cannot tell.
Age(f) ==
  /\ op = Idle /\ row[f] # "none" /\ f \notin aged
  /\ aged' = aged \cup {f}
  /\ UNCHANGED <<disk, memory, harmed, errors, crashes>>

\* Somebody removes a stored file; between operations for the same reason.
Vanish(f) ==
  /\ op = Idle /\ row[f] # "none" /\ final[f] > 0
  /\ final' = [final EXCEPT ![f] = 0]
  /\ harmed' = harmed \cup {f} /\ Slips
  /\ UNCHANGED <<part, temp, row, size, memory, aged, crashes>>

\* SessionFilesOwner: what the Gateway calls for the remote client.
Served ==
  \/ \E k \in Any({x \in Keys : Free(x)}), u \in Any(Uploads \cap Unused),
       n \in Sizes : Begin(k, u, n)
  \/ \E u \in Uploads : Chunk(u) \/ Abort(u) \/ Commit(u)
  \/ Resolve \/ Read \/ List

\* The agent's tool, once the session and its directory are known.
Deliver == \E a \in Any(Artifacts \cap Unused), n, m \in Sizes : Publish(a, n, m)

Call == Served \/ Deliver

Step ==
  \/ Rename \/ Chmod \/ Row \/ Unlink \/ Discard
  \/ Copy \/ Place \/ Scrap
  \/ \E f \in Files : Look(f) \/ Load(f)
  \/ \E u \in Uploads : Expel(u)
  \/ Delete \/ Note \/ Done \/ Clear \/ Orphans

World == Close \/ Down \/ \E f \in Files : Age(f) \/ Vanish(f)

Next == Call \/ Cleanup \/ Step \/ Open \/ World

Spec == Init /\ [][Next]_vars

\* A durable call returns; a caller opens the store; the ten-minute timer of
\* index.ts queues a cleanup and the queue is served in order, however many
\* calls it holds.
Fairness == WF_vars(Step) /\ WF_vars(Open) /\ SF_vars(Cleanup)
FairSpec == Spec /\ Fairness

-----------------------------------------------------------------------------
(***************************************************************************)
(* Properties.                                                             *)
(***************************************************************************)

(***************************************************************************)
(* #usedBytes is what the disk holds whenever no operation is under way:   *)
(* over every order of uploads, copies, expiry and cleanup, after a crash  *)
(* at any durable call, and after every failure that the code undoes.      *)
(***************************************************************************)
Accounting == Ready /\ ~slip => used = Occupied

\* Of a copy, the chunks whose room was tested; the rest is what its source
\* has grown by.
Tested ==
  [a \in Artifacts |-> IF temp[a] <= size[a] THEN temp[a] ELSE size[a]]

(***************************************************************************)
(* The disk never holds more than storageLimitBytes, staged and temporary  *)
(* bytes included, although beginUpload() reserves nothing and a crash     *)
(* forgets what was counted; but for what a source grows by while it is    *)
(* copied, which nothing caps.  That excess is gone when the copy has been *)
(* given up, or when the next open() has cleared what a crash left of it.  *)
(***************************************************************************)
QuotaHeld ==
  \/ loose
  \/ /\ Held(part) + Held(Tested) + Held(final) <= Limit
     /\ \A a \in Artifacts :
          temp[a] > size[a] =>
            phase = "down" \/ At("clear") \/ (At("scrap") /\ op.id = a)

(***************************************************************************)
(* A file that a manifest names has all its bytes until it expires, after  *)
(* every later crash, failed call and reconciliation.  A reference is given *)
(* out only once the manifest stands.                                      *)
(***************************************************************************)
WholeUntilExpired ==
  \A f \in Files :
    row[f] # "none" => \/ f \in aged \cup harmed
                       \/ final[f] = size[f] /\ size[f] > 0

(***************************************************************************)
(* At most one live upload answers to a client upload id, and the index    *)
(* finds it: a caller that lost the answer of beginUpload() asks again and *)
(* goes on where it was, whatever was discarded in between.                *)
(***************************************************************************)
OneUploadPerKey ==
  \A u \in Uploads : up[u] # NoRecord => index[up[u].key] = u

\* The files as FileVault has them.
Kept(f) ==
  IF row[f] = "none" THEN "absent" ELSE IF final[f] > 0 THEN "kept" ELSE "gone"

Vault == INSTANCE FileVault
  WITH vault <- [f \in Files |-> Kept(f)], lapsed <- aged \cup harmed

(***************************************************************************)
(* The store implements FileVault: a file appears with its manifest, whole *)
(* or not at all; bytes go only after expiresAt (or a failed stat), and no *)
(* restart brings back what was gone.                                      *)
(***************************************************************************)
VaultSpec == Vault!Spec

(***************************************************************************)
(* The bytes of an expired file are eventually deleted, by whichever of    *)
(* cleanup(), a reader and open() comes first, unless a durable call fails *)
(* or the store is closed.                                                 *)
(***************************************************************************)
Reclaimed ==
  \A f \in Files :
    (f \in aged /\ final[f] > 0) ~> (final[f] = 0 \/ faults > 0 \/ phase = "closed")

=============================================================================
