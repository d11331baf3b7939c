----------------------------- MODULE NodeLifecycle -----------------------------
(***************************************************************************)
(* The plugin's life: apply() and DshNodeHost of src/src/index.ts with     *)
(* NodeConfigService of src/src/config-service.ts and the identity file of *)
(* src/src/identity.ts.  A save writes the file and rebuilds the host on   *)
(* the boot queue; the connection button writes its decision and calls the *)
(* host outside that queue; disposal stops what is there and closes the    *)
(* usage queue; the process may die anywhere.                              *)
(*                                                                         *)
(* A step runs to the next await.  The host's call that follows a written  *)
(* decision is part of that step, since only microtasks come between.  The *)
(* link of a host is what its connector was told; Connector has the rest.  *)
(***************************************************************************)
EXTENDS NodeConfig, Naturals, Sequences, FiniteSets

CONSTANTS
  Calls,        \* HTTP requests that write; one that was answered may come again
  Wishes,       \* what each may ask for: submissions and decisions
  Files,        \* what may stand in the configuration file at first
  Slots,        \* host objects; one that was stopped is used again
  NodeIds,      \* what generateNodeId() returns
  Overlap       \* bound: whether the calls of a disposed service and those of the
                \* next one may be under way together

NoHost == "no host"
Decisions == {[intent |-> i] : i \in Intents}
NoWish == [intent |-> "none"]

ASSUME LifeAssumption ==
  /\ Wishes \in [Calls -> SUBSET (Submissions \cup Decisions)] /\ Files \subseteq Documents
  /\ NoHost \notin Slots /\ NodeIds \cap {Absent, "torn"} = {}
  /\ Overlap \in BOOLEAN

VARIABLES
  file, ident, \* the configuration and the identity file; "torn" between create and write
  phase,       \* "on"; then "disposing", "withdrawing", "closing" and "off"
  \* the configuration service
  stored,      \* the document last read or written
  saves,       \* its queue; the first call is under way
  at,          \* where each call is
  want,        \* what each call asks for
  draft,       \* the document that the first call writes
  \* the boot queue
  boots,       \* tasks; the first is under way
  step,        \* its next step
  read,        \* what the initial task read
  \* the hosts
  cur, old,    \* the current one, and the one being stopped
  host,
  mounted,     \* hosts whose endpoints are registered
  \* the usage queue and its observer
  queue, collector,
  \* the rest
  wanted,      \* history: the operator's last accepted decision
  told,        \* history: identities that a host has gone by
  astray,      \* history: this run could not read the file, or folded before it had
  \* the service that was disposed last, with the calls that it has left
  prior,
  overtaken    \* history: one of them wrote the file after this run had read it

config == <<stored, saves, at, want, draft>>
booting == <<boots, step, read>>
hosts == <<cur, old, host, mounted>>
usage == <<queue, collector>>
late == <<prior, overtaken>>
lifeVars == <<file, ident, phase, config, booting, hosts, usage, wanted, told, astray, late>>

Gone == [link |-> "gone"]
Hosts == [conf : Resolutions, intent : Intents, id : NodeIds \cup {Absent},
          link : {"none", "idle", "up"}]     \* no connector, not running, running
Tasks == {"init", "reboot", "dispose"}
InFlight == {"queued", "writing", "applying", "closing"}

(***************************************************************************)
(* Every variable keeps its type; what is stored is a document, whatever   *)
(* was submitted.                                                          *)
(***************************************************************************)
LifeTypeOK ==
  /\ {file, stored, draft, read} \subseteq Documents
  /\ ident \in NodeIds \cup {Absent, "torn"} /\ told \subseteq NodeIds
  /\ phase \in {"on", "disposing", "withdrawing", "closing", "off"}
  /\ saves \in Seq(Calls) /\ boots \in Seq(Tasks)
  /\ at \in [Calls -> InFlight \cup {"idle"}]
  /\ want \in [Calls -> Submissions \cup Decisions \cup {NoWish}]
  /\ step \in {"next", "read", "seed", "closing", "boot", "identity", "mint", "fill"}
  /\ cur \in Slots \cup {NoHost} /\ old \in Slots \cup {NoHost}
  /\ host \in [Slots -> Hosts \cup {Gone}] /\ mounted \subseteq Slots
  /\ queue \in {"none", "open"} /\ collector \in BOOLEAN
  /\ wanted \in Intents /\ astray \in BOOLEAN /\ overtaken \in BOOLEAN
  /\ prior \in [stored : Documents, saves : Seq(Calls), draft : Documents]

NothingLeft == [stored |-> Empty, saves |-> <<>>, draft |-> Empty]

LifeInit ==
  /\ file \in Files /\ ident = Absent
  /\ phase = "off"
  /\ stored = Empty /\ saves = <<>> /\ draft = Empty
  /\ at = [c \in Calls |-> "idle"] /\ want = [c \in Calls |-> NoWish]
  /\ boots = <<>> /\ step = "next" /\ read = Empty
  /\ cur = NoHost /\ old = NoHost /\ host = [h \in Slots |-> Gone] /\ mounted = {}
  /\ queue = "none" /\ collector = FALSE
  /\ wanted = First(file.intent, "active") /\ told = {} /\ astray = FALSE
  /\ prior = NothingLeft /\ overtaken = FALSE

-----------------------------------------------------------------------------
\* The first task of the boot queue, and its end, by which the next may begin.
Task(t) == boots # <<>> /\ Head(boots) = t
TaskDone == boots' = Tail(boots) /\ step' = "next"

\* The first call of the configuration queue is answered, well or not.  Or a
\* rejection is not caught and the queue stays behind it.
Freed_wedged(well) == IF well THEN Tail(saves) ELSE saves
Freed(well) == Tail(saves)
CallDone(c, well) ==
  /\ saves' = Freed(well)
  /\ at' = [at EXCEPT ![c] = "idle"] /\ want' = [want EXCEPT ![c] = NoWish]
  /\ draft' = Empty

\* What the operator last decided, as far as a run can be told: the file's word
\* after one that went astray or was overtaken.
Known == IF astray \/ overtaken THEN First(file.intent, "active") ELSE wanted

\* The initial task of this run has not seeded the service.
Unseeded == Task("init") /\ step \in {"read", "seed"}

-----------------------------------------------------------------------------
(***************************************************************************)
(* Booting.                                                                *)
(***************************************************************************)

\* apply(), of a plugin that is disposed or new.  Disposal has waited for the boot
\* queue and not for the calls of the configuration service, which go on.  Bound:
\* of the last service only.  The run counts as overtaken at once by calls that an
\* astray or overtaken one has left.
Apply ==
  /\ phase = "off" /\ prior.saves = <<>>
  /\ Overlap \/ saves = <<>> \/ ~(astray \/ overtaken)
  /\ phase' = "on"
  /\ boots' = <<"init">> /\ step' = "read"
  /\ prior' = IF saves = <<>> THEN NothingLeft
              ELSE [stored |-> stored, saves |-> saves, draft |-> draft]
  /\ stored' = Empty /\ saves' = <<>> /\ draft' = Empty
  /\ astray' = FALSE /\ overtaken' = ((astray \/ overtaken) /\ saves # <<>>)
  /\ wanted' = Known
  /\ UNCHANGED <<file, ident, at, want, read, hosts, usage, told>>

\* initialise(), up to readConfigFile(); a file that cannot be read is ignored.
ReadFile ==
  /\ Task("init") /\ step = "read" /\ step' = "seed"
  /\ \/ read' = file /\ UNCHANGED astray
     \/ read' = Empty /\ astray' = TRUE
  /\ UNCHANGED <<file, ident, phase, config, boots, hosts, usage, wanted, told, late>>

\* ensureUsage(), installCollector(): a queue that cannot be opened is tried again
\* by the next boot; the llm service may be there or not.
EnsureUsage ==
  \/ queue' = "open" /\ collector' \in {collector, TRUE}
  \/ queue = "none" /\ UNCHANGED <<queue, collector>>

\* bootNow() does nothing once the plugin was disposed.
MayBoot == phase = "on"

\* The DshNodeHost of a document: made, and not started.
NewHost(doc) ==
  [conf |-> Resolved(doc), intent |-> First(doc.intent, "active"), id |-> Absent, link |-> "none"]

\* bootNow(), up to the first await of host.start().
Boot(doc) ==
  /\ EnsureUsage
  /\ \E h \in Slots : host[h] = Gone
  /\ LET h == CHOOSE h \in Slots : host[h] = Gone IN
     /\ host' = [host EXCEPT ![h] = NewHost(doc)]
     /\ mounted' = mounted \cup {h}
     /\ cur' = h
  /\ step' = "identity"
  /\ UNCHANGED <<boots, old>>

\* initialise() goes on: seed() and bootNow().
Seed ==
  /\ Task("init") /\ step = "seed"
  /\ stored' = read /\ read' = Empty
  /\ IF MayBoot THEN Boot(read) ELSE TaskDone /\ UNCHANGED <<hosts, usage>>
  /\ UNCHANGED <<file, ident, phase, saves, at, want, draft, wanted, told, astray, late>>

\* The boot that was under way ends, and with it the save that asked for it.
Booted ==
  /\ TaskDone
  /\ IF Task("reboot") THEN CallDone(Head(saves), host'[cur].link # "none")
     ELSE UNCHANGED <<saves, at, want, draft>>

\* start() goes on with an identity or without.  It is looked for without a
\* configuration too, and then decides nothing.
Started(id) ==
  /\ host' = [host EXCEPT ![cur] = [@ EXCEPT !.id = id, !.link =
       IF id = Absent \/ host[cur].conf.status # "ok" THEN "none"
       ELSE IF host[cur].intent = "active" THEN "up" ELSE "idle"]]
  /\ told' = told \cup ({id} \ {Absent})
  /\ Booted
  /\ UNCHANGED <<stored, read, cur, old, mounted>>

-----------------------------------------------------------------------------
(***************************************************************************)
(* loadOrCreateIdentity().  A profile that names the node goes without it. *)
(***************************************************************************)

\* readIdentity(): what cannot be parsed is moved aside.
ReadIdentity ==
  /\ step = "identity"
  /\ \/ Started(Absent) /\ UNCHANGED ident
     \/ ident \in NodeIds /\ Started(ident) /\ UNCHANGED ident
     \/ /\ ident \notin NodeIds /\ step' = "mint"
        /\ ident' \in {ident, Absent}
        /\ UNCHANGED <<config, boots, read, hosts, told>>
  /\ UNCHANGED <<file, phase, usage, wanted, astray, late>>

\* createIdentity(): the exclusive create.  The file that is still in the way is
\* read once more, and no use.
CreateIdentity ==
  /\ step = "mint"
  /\ \/ /\ ident = Absent
        /\ ident' = "torn" /\ step' = "fill"
        /\ UNCHANGED <<config, boots, read, hosts, told>>
     \/ Started(Absent) /\ ident' \in {ident, Absent}
  /\ UNCHANGED <<file, phase, usage, wanted, astray, late>>

\* generateNodeId()
NewId == CHOOSE n \in NodeIds : n \notin told

\* The identity that the caller gets.  Or it gets one that was not written.
Minted_anyway(n, well) == n
Minted(n, well) == IF well THEN n ELSE Absent

\* createIdentity(): the write.
FillIdentity ==
  /\ step = "fill" /\ NodeIds \ told # {}
  /\ LET n == NewId IN
       \/ ident' = n /\ Started(Minted(n, TRUE))
       \/ UNCHANGED ident /\ Started(Minted(n, FALSE))
  /\ UNCHANGED <<file, phase, usage, wanted, astray, late>>

-----------------------------------------------------------------------------
(***************************************************************************)
(* The configuration queue.                                                *)
(***************************************************************************)

\* write(), setConnectionIntent(): a request joins the queue.  Bound: a run that
\* went astray takes no more of them, nor one of two services that overlap.
Ask(c, w) ==
  /\ phase = "on" /\ at[c] = "idle" /\ ~astray
  /\ Overlap \/ (prior.saves = <<>> /\ ~overtaken)
  /\ at' = [at EXCEPT ![c] = "queued"] /\ want' = [want EXCEPT ![c] = w]
  /\ saves' = Append(saves, c)
  /\ UNCHANGED <<file, ident, phase, stored, draft, booting, hosts, usage,
                 wanted, told, astray, late>>

\* The document that a call would leave.
Proposed(doc, w) == IF w \in Decisions THEN [doc EXCEPT !.intent = w.intent] ELSE Fold(doc, w)

\* The first call begins: a submission is folded and judged.
Take(c) ==
  /\ saves # <<>> /\ Head(saves) = c /\ at[c] = "queued"
  /\ IF want[c] \in Decisions \/ Acceptable(stored, want[c])
     THEN /\ at' = [at EXCEPT ![c] = "writing"] /\ draft' = Proposed(stored, want[c])
          /\ astray' = (astray \/ Unseeded)
          /\ UNCHANGED <<saves, want>>
     ELSE CallDone(c, FALSE) /\ UNCHANGED astray
  /\ UNCHANGED <<file, ident, phase, stored, booting, hosts, usage, wanted, told, late>>

\* connect() and disconnect() of the host that is current once the decision is
\* written: it may be without a connector, and then keeps the decision only.
\* disconnect() waits for connector.stop().
TellHost(i) ==
  IF cur = NoHost THEN UNCHANGED host
  ELSE host' = [host EXCEPT ![cur] = [@ EXCEPT !.intent = i, !.link =
         IF host[cur].link = "none" THEN "none"
         ELSE IF i = "active" THEN "up" ELSE "idle"]]
Awaits(i) == i = "paused" /\ cur # NoHost /\ host[cur].link # "none"

\* The write of a connection decision, and what the handler does with it once
\* the queue has let it go.
Decide(c, i) ==
  /\ want[c] = [intent |-> i]
  /\ TellHost(i)
  /\ IF Awaits(i)
     THEN /\ saves' = Freed(TRUE) /\ at' = [at EXCEPT ![c] = "closing"]
          /\ draft' = Empty /\ UNCHANGED want
     ELSE CallDone(c, TRUE)
  /\ wanted' = i
  /\ UNCHANGED boots

\* The write of a submission; apply() joins the boot queue.
Rebuild(c) ==
  /\ want[c] \in Submissions
  /\ at' = [at EXCEPT ![c] = "applying"] /\ boots' = Append(boots, "reboot")
  /\ UNCHANGED <<saves, want, draft, host, wanted>>

\* writeConfigFile() settles.  The rename leaves the old document or the new one.
Write(c) ==
  /\ saves # <<>> /\ Head(saves) = c /\ at[c] = "writing"
  /\ \/ /\ file' = draft /\ stored' = draft
        /\ Rebuild(c) \/ \E i \in Intents : Decide(c, i)
     \/ CallDone(c, FALSE) /\ UNCHANGED <<file, stored, boots, host, wanted>>
  /\ UNCHANGED <<ident, phase, step, read, cur, old, mounted, usage, told, astray, late>>

\* connector.stop() is over for the call that disconnected.
Disconnected(c) ==
  /\ at[c] = "closing"
  /\ at' = [at EXCEPT ![c] = "idle"] /\ want' = [want EXCEPT ![c] = NoWish]
  /\ UNCHANGED <<file, ident, phase, stored, saves, draft, booting, hosts, usage,
                 wanted, told, astray, late>>

-----------------------------------------------------------------------------
(***************************************************************************)
(* The calls of a service that was disposed.  They fold over its own       *)
(* document and write the file.  The host that they would tell is no more, *)
(* and their boot queue stops nothing and boots nothing, without an await  *)
(* of its own: a save that was written is answered at once.                *)
(***************************************************************************)
Leaving(doc) ==
  IF Tail(prior.saves) = <<>> THEN NothingLeft
  ELSE [stored |-> doc, saves |-> Tail(prior.saves), draft |-> Empty]
Leave(c, doc) ==
  /\ prior' = Leaving(doc)
  /\ at' = [at EXCEPT ![c] = "idle"] /\ want' = [want EXCEPT ![c] = NoWish]

LateTake(c) ==
  /\ prior.saves # <<>> /\ Head(prior.saves) = c /\ at[c] = "queued"
  /\ IF want[c] \in Decisions \/ Acceptable(prior.stored, want[c])
     THEN /\ at' = [at EXCEPT ![c] = "writing"] /\ UNCHANGED want
          /\ prior' = [prior EXCEPT !.draft = Proposed(prior.stored, want[c])]
     ELSE Leave(c, prior.stored)
  /\ UNCHANGED <<file, ident, phase, stored, saves, draft, booting, hosts, usage,
                 wanted, told, astray, overtaken>>

\* The plugin has not read the file yet.
Unread == Task("init") /\ step = "read"

LateWrite(c) ==
  /\ prior.saves # <<>> /\ Head(prior.saves) = c /\ at[c] = "writing"
  /\ \/ /\ file' = prior.draft /\ Leave(c, prior.draft)
        /\ overtaken' = (overtaken \/ ~Unread)
        /\ wanted' = IF want[c] \in Decisions THEN want[c].intent ELSE wanted
     \/ Leave(c, prior.stored) /\ UNCHANGED <<file, wanted, overtaken>>
  /\ UNCHANGED <<ident, phase, stored, saves, draft, booting, hosts, usage, told, astray>>

\* `the node was not rebuilt`
LateApplied(c) ==
  /\ prior.saves # <<>> /\ Head(prior.saves) = c /\ at[c] = "applying"
  /\ Leave(c, prior.stored)
  /\ UNCHANGED <<file, ident, phase, stored, saves, draft, booting, hosts, usage,
                 wanted, told, astray, overtaken>>

-----------------------------------------------------------------------------
(***************************************************************************)
(* Shutting down.                                                          *)
(***************************************************************************)
Replacing == step = "next" /\ (Task("reboot") \/ Task("dispose"))

\* shutdownNow(): the host is withdrawn and told to stop.  Its start() is over,
\* since the task that booted it is.
Withdraw ==
  /\ Replacing
  /\ cur' = NoHost /\ old' = cur
  /\ IF cur = NoHost THEN step' = "boot" /\ UNCHANGED host
     ELSE /\ step' = "closing"
          /\ host' = [host EXCEPT ![cur] = [@ EXCEPT !.link =
               IF host[cur].link = "up" THEN "idle" ELSE host[cur].link]]
  /\ UNCHANGED <<file, ident, phase, config, boots, read, mounted, usage,
                 wanted, told, astray, late>>

\* stop() is over; disposeAdmin().  Or stop() is not awaited and the connector
\* lives on.
Stopped_unawaited(h) == [host EXCEPT ![h] = @]
Stopped(h) == [host EXCEPT ![h] = Gone]
StopReturns ==
  /\ step = "closing" /\ step' = "boot"
  /\ host' = Stopped(old) /\ mounted' = mounted \ {old} /\ old' = NoHost
  /\ UNCHANGED <<file, ident, phase, config, boots, read, cur, usage,
                 wanted, told, astray, late>>

\* The task of apply() goes on: bootNow(), or `the node was not rebuilt`.
Reboot ==
  /\ Task("reboot") /\ step = "boot"
  /\ IF MayBoot THEN Boot(draft) /\ UNCHANGED <<saves, at, want, draft>>
     ELSE TaskDone /\ CallDone(Head(saves), FALSE) /\ UNCHANGED <<hosts, usage>>
  /\ UNCHANGED <<file, ident, phase, stored, read, wanted, told, astray, late>>

\* The plugin is disposed; its last task waits for the initial one, if that is
\* under way.
LastTask == phase' = "withdrawing" /\ boots' = Append(boots, "dispose")
Dispose ==
  /\ phase = "on"
  /\ IF Task("init") THEN phase' = "disposing" /\ UNCHANGED boots ELSE LastTask
  /\ UNCHANGED <<file, ident, config, step, read, hosts, usage, wanted, told, astray, late>>
QueueDispose ==
  /\ phase = "disposing" /\ ~Task("init") /\ LastTask
  /\ UNCHANGED <<file, ident, config, step, read, hosts, usage, wanted, told, astray, late>>

\* The observer goes before the queue that it writes to.
DisposeCollector ==
  /\ Task("dispose") /\ step = "boot" /\ TaskDone
  /\ phase' = "closing" /\ collector' = FALSE
  /\ UNCHANGED <<file, ident, config, read, hosts, queue, wanted, told, astray, late>>
CloseUsage ==
  /\ phase = "closing" /\ phase' = "off" /\ queue' = "none"
  /\ UNCHANGED <<file, ident, config, booting, hosts, collector,
                 wanted, told, astray, late>>

-----------------------------------------------------------------------------
\* The llm service appears once the queue is open.
LlmAppears ==
  /\ phase = "on" /\ queue = "open" /\ ~collector /\ collector' = TRUE
  /\ UNCHANGED <<file, ident, phase, config, booting, hosts, queue,
                 wanted, told, astray, late>>

\* The process dies: the two files remain, and what the operator knows of them.
Crash ==
  /\ phase # "off" \/ \E c \in Calls : at[c] # "idle"
  /\ phase' = "off"
  /\ stored' = Empty /\ saves' = <<>> /\ draft' = Empty
  /\ at' = [c \in Calls |-> "idle"] /\ want' = [c \in Calls |-> NoWish]
  /\ boots' = <<>> /\ step' = "next" /\ read' = Empty
  /\ cur' = NoHost /\ old' = NoHost /\ host' = [h \in Slots |-> Gone] /\ mounted' = {}
  /\ queue' = "none" /\ collector' = FALSE /\ prior' = NothingLeft
  /\ astray' = FALSE /\ overtaken' = FALSE /\ wanted' = Known
  /\ UNCHANGED <<file, ident, told>>

Saving == \E c \in Calls : Take(c) \/ Write(c)
LateSaving == \E c \in Calls : LateTake(c) \/ LateWrite(c) \/ LateApplied(c)
Closing == \E c \in Calls : Disconnected(c)
Booting == ReadFile \/ Seed \/ ReadIdentity \/ CreateIdentity \/ FillIdentity
           \/ Withdraw \/ StopReturns \/ Reboot \/ DisposeCollector
Disposing == QueueDispose \/ CloseUsage

Asking == \E c \in Calls : \E w \in Wishes[c] : Ask(c, w)

LifeStep == Asking \/ Saving \/ LateSaving \/ Closing \/ Booting \/ Dispose \/ Disposing \/ LlmAppears
=============================================================================
