------------------------------ MODULE Node_proofs -----------------------------
(***************************************************************************)
(* Proofs about Node, for every configuration, set of requests and set of  *)
(* questions.  The inductive invariant IInv relates the boot queue and the *)
(* step of its first task to the hosts and to the phase of the plugin, and *)
(* what was saved to what runs.                                            *)
(***************************************************************************)
EXTENDS Node, TLAPS

(***************************************************************************)
(* The inductive invariant.                                                *)
(***************************************************************************)
Places == 1..Len(boots)
Rebuilding == \E i \in Places : boots[i] = "reboot"
Identifying == step \in {"identity", "mint", "fill"}

Held == {"queued", "writing", "applying"}

\* The boot queue: one initial task, first; one task of a save, which waits for
\* it at the head of the other queue; one last task.
Tasking ==
  /\ \A i \in Places : boots[i] = "init" => i = 1 /\ phase \in {"on", "disposing"}
  /\ \A i \in Places : boots[i] = "dispose" => phase = "withdrawing"
  /\ \A i, j \in Places : boots[i] = boots[j] => i = j
  /\ Rebuilding => saves # <<>> /\ at[Head(saves)] = "applying"

\* The configuration queue, and that of the service disposed before: no call is in
\* them twice, the first alone is under way, and each asks for something.
InLine(q, a) ==
  /\ \A i \in 1..Len(q) : a[q[i]] \in (IF i = 1 THEN Held ELSE {"queued"})
  /\ \A i, j \in 1..Len(q) : q[i] = q[j] => i = j
Apart(p, q) == \A i \in 1..Len(p), j \in 1..Len(q) : p[i] # q[j]
Queueing ==
  /\ InLine(saves, at) /\ InLine(prior.saves, at) /\ Apart(saves, prior.saves)
  /\ \A c \in Calls : at[c] \in Held => want[c] # NoWish

\* The step of the first task, and the hosts that it finds.
Stepping ==
  /\ boots = <<>> => step = "next"
  /\ Task("init") => step \in {"read", "seed", "identity", "mint", "fill"}
  /\ step \in {"read", "seed"} => Task("init") /\ cur = NoHost
  /\ step \in {"closing", "boot"} => (Task("reboot") \/ Task("dispose")) /\ cur = NoHost
  /\ Identifying => (Task("init") \/ Task("reboot")) /\ cur # NoHost
  /\ old # NoHost <=> step = "closing"

\* Where the hosts are, and the phases in which there may be one.
Housed ==
  /\ mounted = {h \in Slots : Live(h)}
  /\ \A h \in Slots : Live(h) => h \in {cur, old}
  /\ cur # NoHost => Live(cur)
  /\ old # NoHost => Live(old) /\ host[old].link # "up"
Housing ==
  /\ Housed
  /\ cur # NoHost \/ old # NoHost => phase \in {"on", "disposing", "withdrawing"}
  /\ collector => queue = "open"
  /\ phase \in {"closing", "off"} => ~collector
  /\ phase = "off" => queue = "none"

Naming ==
  /\ SameIdentity
  /\ step \in {"mint", "fill"} => told = {}

\* What was saved and what runs.
Loaded == ~astray /\ ~Unseeded /\ (phase # "off" \/ saves # <<>>)
Begun == saves # <<>> /\ at[Head(saves)] # "queued"
Drafting == saves # <<>> /\ at[Head(saves)] = "writing"
Trusted == ~astray /\ ~overtaken

Synced == Loaded /\ ~overtaken => stored = file
Chosen == Trusted => wanted = First(file.intent, "active")
Reading == ~astray /\ Unseeded => ~Begun /\ (step = "seed" /\ ~overtaken => read = file)
Drawn ==
  ~astray /\ Drafting =>
    /\ want[Head(saves)] \in Submissions => draft.intent = stored.intent
    /\ want[Head(saves)] \in Decisions =>
         draft = [stored EXCEPT !.intent = want[Head(saves)].intent]
Pending == ~astray /\ Rebuilding => draft = stored

\* What a disposed service left, while the new run has not read the file.
Heir == Trusted /\ Unread /\ prior.saves # <<>>
Left ==
  Heir =>
    /\ prior.stored.intent = file.intent
    /\ at[Head(prior.saves)] = "writing" =>
         /\ want[Head(prior.saves)] \in Submissions => prior.draft.intent = file.intent
         /\ want[Head(prior.saves)] \in Decisions =>
              prior.draft.intent = want[Head(prior.saves)].intent

Intended == First(stored.intent, "active")
Reached(h) ==
  IF Identifying \/ host[h].conf.status # "ok" \/ host[h].id = Absent THEN "none"
  ELSE IF Intended = "active" THEN "up" ELSE "idle"
Running ==
  ~astray /\ cur # NoHost =>
    /\ host[cur].intent = Intended
    /\ host[cur].conf = Resolved(stored) \/ (Rebuilding /\ ~(Identifying /\ Task("reboot")))
    /\ host[cur].link = Reached(cur)
Filled == phase = "on" /\ cur = NoHost => step \in {"read", "seed", "closing", "boot"}
Following ==
  Synced /\ Chosen /\ Reading /\ Drawn /\ Pending /\ Left /\ Running /\ Filled

IInv == 
  /\ NodeTypeOK /\ Tasking /\ Queueing /\ Stepping /\ Housing /\ Naming
  /\ NoStrayQuestion /\ Following

-----------------------------------------------------------------------------
(***************************************************************************)
(* The documents.                                                          *)
(***************************************************************************)

\* What the layers resolve to has its type, and does not look at the decision.
LEMMA ResolvedType ==
  ASSUME NEW doc \in Documents
  PROVE  Resolved(doc) \in Resolutions
<1>1. /\ Merge(doc).url \in Addresses \cup {Absent}
      /\ Merge(doc).token \in Tokens \cup {Absent}
      /\ Merge(doc).label \in Labels \cup {Absent}
  BY ConfigAssumption DEF Merge, First, Documents
<1>2. /\ First(Merge(doc).url, Env.url) \in Addresses \cup {Absent}
      /\ First(Merge(doc).token, Env.token) \in Tokens \cup {Absent}
  BY <1>1, ConfigAssumption DEF First
<1> QED BY <1>1, <1>2 DEF Resolved, Resolve, Address, Credential, Accepted, Errors, Resolutions, Addresses

LEMMA ResolvedIgnoresIntent ==
  ASSUME NEW doc \in Documents, NEW i
  PROVE  Resolved([doc EXCEPT !.intent = i]) = Resolved(doc)
BY DEF Resolved, Resolve, Address, Credential, Accepted, Errors, Merge, Documents

\* A field that is folded is a value or nothing, never a mark of the request.
LEMMA FoldedType ==
  ASSUME NEW V, V \cap Marks = {}, NEW was \in V \cup {Absent},
         NEW raw \in V \cup (Marks \ {Absent}), raw # "odd", NEW clears
  PROVE  Folded(was, raw, clears) \in V \cup {Absent}
BY DEF Folded, Marks

\* A save that is let through leaves a document, with the decision that stood.
LEMMA FoldType ==
  ASSUME NEW doc \in Documents, NEW input \in Submissions, ~Malformed(input)
  PROVE  Fold(doc, input) \in Documents /\ Fold(doc, input).intent = doc.intent
<1>1. /\ Addresses \cap Marks = {} /\ Tokens \cap Marks = {} /\ Labels \cap Marks = {}
  BY ConfigAssumption
<1>2. /\ input.url \in Addresses \cup (Marks \ {Absent}) /\ input.url # "odd"
      /\ input.token \in Tokens \cup (Marks \ {Absent}) /\ input.token # "odd"
      /\ input.label \in Labels \cup (Marks \ {Absent}) /\ input.label # "odd"
  BY DEF Submissions, Malformed
<1>3. /\ doc.url \in Addresses \cup {Absent} /\ doc.token \in Tokens \cup {Absent}
      /\ doc.label \in Labels \cup {Absent} /\ doc.intent \in Intents \cup {Absent}
  BY DEF Documents
<1>4. Folded(doc.url, input.url, FALSE) \in Addresses \cup {Absent}
  BY <1>1, <1>2, <1>3, FoldedType
<1>5. Folded(doc.token, input.token, FALSE) \in Tokens \cup {Absent}
  BY <1>1, <1>2, <1>3, FoldedType
<1>6. Folded(doc.label, input.label, TRUE) \in Labels \cup {Absent}
  BY <1>1, <1>2, <1>3, FoldedType
<1> QED BY <1>3, <1>4, <1>5, <1>6 DEF Fold, Documents

(***************************************************************************)
(* A save that names a URL or a token takes effect: it is what the next    *)
(* boot resolves to, whatever the profile and the environment say.         *)
(***************************************************************************)
THEOREM SavedWins ==
  ASSUME NEW doc \in Documents, NEW input \in Submissions, Acceptable(doc, input)
  PROVE  /\ input.url \in Addresses => Resolved(Fold(doc, input)).url = input.url
         /\ input.token \in Tokens => Resolved(Fold(doc, input)).token = input.token
<1>1. /\ Addresses \cap Marks = {} /\ Tokens \cap Marks = {}
  BY ConfigAssumption
<1>2. ASSUME input.url \in Addresses
      PROVE  Resolved(Fold(doc, input)).url = input.url
  <2>1. Fold(doc, input).url = input.url /\ input.url # Absent
    BY <1>1, <1>2 DEF Fold, Folded, Marks
  <2>2. First(Merge(Fold(doc, input)).url, Env.url) = input.url
    BY <2>1 DEF Merge, First
  <2>3. input.url \notin BadUrls
    BY <2>2 DEF Acceptable, Resolved, Resolve, Address, Credential, Accepted, Errors
  <2> QED BY <2>2, <2>3 DEF Resolved, Resolve, Address, Credential, Accepted, Errors
<1>3. ASSUME input.token \in Tokens
      PROVE  Resolved(Fold(doc, input)).token = input.token
  <2>1. Fold(doc, input).token = input.token /\ input.token # Absent
    BY <1>1, <1>3 DEF Fold, Folded, Marks
  <2> QED BY <2>1 DEF Resolved, Resolve, Address, Credential, Accepted, Errors, Merge, First
<1> QED BY <1>2, <1>3

(***************************************************************************)
(* The layer that sourceOf() names for the URL is the one whose value the  *)
(* node uses, and so it is for the token when the panel has saved one or   *)
(* the profile has none.  A profile's token that is in use is told to be   *)
(* the environment's, or nobody's.                                         *)
(***************************************************************************)
Layer(doc, f) ==
  CASE SourceOf(doc, f) = "panel" -> doc[f]
    [] SourceOf(doc, f) = "profile" -> Profile[f]
    [] SourceOf(doc, f) = "environment" -> Env[f]
    [] SourceOf(doc, f) = "none" -> Absent
Unnamed(doc) == doc.token = Absent /\ Profile.token # Absent

THEOREM SourceNamed ==
  ASSUME NEW doc \in Documents, Resolved(doc).status = "ok"
  PROVE  /\ Resolved(doc).url = Layer(doc, "url")
         /\ ~Unnamed(doc) => Resolved(doc).token = Layer(doc, "token")
         /\ Unnamed(doc) => /\ Resolved(doc).token = Profile.token
                            /\ SourceOf(doc, "token") \in {"environment", "none"}
<1>1. First(Merge(doc).url, Env.url) \notin BadUrls
  BY DEF Resolved, Resolve, Address, Credential, Accepted, Errors
<1>2. /\ Resolved(doc).url = First(Merge(doc).url, Env.url)
      /\ Resolved(doc).token = First(Merge(doc).token, Env.token)
  BY <1>1 DEF Resolved, Resolve, Address, Credential, Accepted, Errors
<1>3. /\ Merge(doc).url = First(doc.url, Profile.url)
      /\ Merge(doc).token = First(doc.token, Profile.token)
  BY DEF Merge
<1>4. Resolved(doc).url = Layer(doc, "url")
  BY <1>2, <1>3 DEF Layer, SourceOf, First
<1>5. CASE Unnamed(doc)
  BY <1>2, <1>3, <1>4, <1>5 DEF Unnamed, SourceOf, First
<1>6. CASE ~Unnamed(doc)
  BY <1>2, <1>3, <1>4, <1>6 DEF Unnamed, Layer, SourceOf, First
<1> QED BY <1>5, <1>6

-----------------------------------------------------------------------------
(***************************************************************************)
(* Types.                                                                  *)
(***************************************************************************)

LEMMA EmptyIsDocument == Empty \in Documents
BY DEF Empty, Documents

LEMMA IntentType ==
  ASSUME NEW doc \in Documents
  PROVE  First(doc.intent, "active") \in Intents
BY DEF First, Documents, Intents, Absent

\* A request that is answered leaves the first place of its queue.
LEMMA CallDoneType ==
  ASSUME LifeTypeOK, NEW c, NEW well, saves # <<>>, CallDone(c, well)
  PROVE  /\ saves' = Tail(saves) /\ saves' \in Seq(Calls)
         /\ at' \in [Calls -> InFlight \cup {"idle"}]
         /\ want' \in [Calls -> Submissions \cup Decisions \cup {NoWish}]
         /\ draft' = Empty /\ draft' \in Documents
<1>1. saves' = Tail(saves) /\ draft' = Empty
  BY DEF CallDone, Freed
<1>2. saves' \in Seq(Calls)
  BY <1>1 DEF LifeTypeOK
<1>3. at' \in [Calls -> InFlight \cup {"idle"}]
  BY DEF LifeTypeOK, CallDone
<1>4. want' \in [Calls -> Submissions \cup Decisions \cup {NoWish}]
  BY DEF LifeTypeOK, CallDone
<1> QED BY <1>1, <1>2, <1>3, <1>4, EmptyIsDocument

\* A task that is over leaves the first place of its own.
LEMMA DoneType ==
  ASSUME LifeTypeOK, TaskDone, boots # <<>>
  PROVE  boots' \in Seq(Tasks) /\ step' = "next" /\ boots' = Tail(boots)
BY DEF LifeTypeOK, TaskDone

\* A new host.
LEMMA BootType ==
  ASSUME LifeTypeOK, NEW doc \in Documents, Boot(doc)
  PROVE  /\ cur' \in Slots /\ host[cur'] = Gone
         /\ host' = [host EXCEPT ![cur'] =
              [conf |-> Resolved(doc), intent |-> First(doc.intent, "active"),
               id |-> Absent, link |-> "none"]]
         /\ host' \in [Slots -> Hosts \cup {Gone}]
         /\ mounted' = mounted \cup {cur'} /\ mounted' \subseteq Slots
         /\ queue' \in {"none", "open"} /\ collector' \in BOOLEAN
         /\ step' = "identity" /\ old' = old /\ boots' = boots
<1>1. cur' \in Slots /\ host[cur'] = Gone
  BY DEF Boot, NewHost
<1>2. Resolved(doc) \in Resolutions /\ First(doc.intent, "active") \in Intents
  BY ResolvedType, IntentType
<1>3. [conf |-> Resolved(doc), intent |-> First(doc.intent, "active"),
       id |-> Absent, link |-> "none"] \in Hosts
  BY <1>2 DEF Hosts
<1>4. host' = [host EXCEPT ![cur'] =
        [conf |-> Resolved(doc), intent |-> First(doc.intent, "active"),
         id |-> Absent, link |-> "none"]]
      /\ mounted' = mounted \cup {cur'} /\ step' = "identity" /\ old' = old /\ boots' = boots
  BY DEF Boot, NewHost
<1>5. queue' \in {"none", "open"} /\ collector' \in BOOLEAN
  BY DEF Boot, EnsureUsage, LifeTypeOK
<1> QED BY <1>1, <1>3, <1>4, <1>5 DEF LifeTypeOK

\* The end of start().
LEMMA StartedType ==
  ASSUME LifeTypeOK, NEW id \in NodeIds \cup {Absent}, Started(id),
         cur \in Slots, Live(cur), boots # <<>>, Task("reboot") => saves # <<>>
  PROVE  /\ host' \in [Slots -> Hosts \cup {Gone}]
         /\ told' \subseteq NodeIds
         /\ boots' = Tail(boots) /\ boots' \in Seq(Tasks) /\ step' = "next"
         /\ saves' \in Seq(Calls)
         /\ at' \in [Calls -> InFlight \cup {"idle"}]
         /\ want' \in [Calls -> Submissions \cup Decisions \cup {NoWish}]
         /\ draft' \in Documents
<1>1. host[cur] \in Hosts
  BY DEF LifeTypeOK, Live
<1>2. host' \in [Slots -> Hosts \cup {Gone}]
  <2> DEFINE link == IF id = Absent \/ host[cur].conf.status # "ok" THEN "none"
                     ELSE IF host[cur].intent = "active" THEN "up" ELSE "idle"
  <2>1. [host[cur] EXCEPT !.id = id, !.link = link] \in Hosts
    BY <1>1 DEF Hosts
  <2>2. host' = [host EXCEPT ![cur] = [host[cur] EXCEPT !.id = id, !.link = link]]
    BY DEF LifeTypeOK, Started
  <2> QED BY <2>1, <2>2 DEF LifeTypeOK
<1>3. told' \subseteq NodeIds
  BY DEF LifeTypeOK, Started
<1>4. boots' = Tail(boots) /\ boots' \in Seq(Tasks) /\ step' = "next"
  BY DEF LifeTypeOK, Started, Booted, TaskDone
<1>5. /\ saves' \in Seq(Calls)
      /\ at' \in [Calls -> InFlight \cup {"idle"}]
      /\ want' \in [Calls -> Submissions \cup Decisions \cup {NoWish}]
      /\ draft' \in Documents
  <2>1. CASE Task("reboot")
    BY <2>1, CallDoneType DEF Started, Booted
  <2>2. CASE ~Task("reboot")
    BY <2>2 DEF LifeTypeOK, Started, Booted
  <2> QED BY <2>1, <2>2
<1> QED BY <1>2, <1>3, <1>4, <1>5

\* What it leaves has its type.
LEMMA StartedStep ==
  ASSUME LifeTypeOK, NEW id \in NodeIds \cup {Absent}, Started(id),
         cur \in Slots, Live(cur), boots # <<>>, Task("reboot") => saves # <<>>,
         ident' \in NodeIds \cup {Absent, "torn"}, UNCHANGED <<file, phase, usage, wanted, astray, late>>
  PROVE  LifeTypeOK'
<1>1. /\ host' \in [Slots -> Hosts \cup {Gone}]
      /\ told' \subseteq NodeIds
      /\ boots' \in Seq(Tasks) /\ step' = "next"
      /\ saves' \in Seq(Calls)
      /\ at' \in [Calls -> InFlight \cup {"idle"}]
      /\ want' \in [Calls -> Submissions \cup Decisions \cup {NoWish}]
      /\ draft' \in Documents
  BY StartedType
<1>2. UNCHANGED <<stored, read, cur, old, mounted>>
  BY DEF Started
<1> QED BY <1>1, <1>2 DEF LifeTypeOK, usage, late

\* What the current host is told.
LEMMA TellType ==
  ASSUME LifeTypeOK, Housing, NEW i \in Intents, TellHost(i)
  PROVE  host' \in [Slots -> Hosts \cup {Gone}]
<1>1. CASE cur = NoHost
  BY <1>1 DEF TellHost, LifeTypeOK
<1>2. CASE cur # NoHost
  <2>1. cur \in Slots /\ host[cur] \in Hosts
    BY <1>2 DEF LifeTypeOK, Housing, Housed, Live
  <2> DEFINE link == IF host[cur].link = "none" THEN "none" ELSE IF i = "active" THEN "up" ELSE "idle"
  <2>2. [host[cur] EXCEPT !.intent = i, !.link = link] \in Hosts
    BY <2>1 DEF Hosts
  <2>3. host' = [host EXCEPT ![cur] = [host[cur] EXCEPT !.intent = i, !.link = link]]
    BY <1>2 DEF TellHost, LifeTypeOK
  <2> QED BY <2>1, <2>2, <2>3 DEF LifeTypeOK
<1> QED BY <1>1, <1>2

\* What a host that is withdrawn keeps.
LEMMA WithdrawType ==
  ASSUME LifeTypeOK, Housing, Withdraw
  PROVE  /\ host' \in [Slots -> Hosts \cup {Gone}]
         /\ cur # NoHost => /\ cur \in Slots /\ host[cur] \in Hosts
                           /\ host' = [host EXCEPT ![cur] =
                                [host[cur] EXCEPT !.link =
                                  IF host[cur].link = "up" THEN "idle" ELSE host[cur].link]]
                           /\ host'[cur] \in Hosts /\ host'[cur].link # "up"
<1>1. CASE cur = NoHost
  BY <1>1 DEF Withdraw, LifeTypeOK
<1>2. CASE cur # NoHost
  <2>1. cur \in Slots /\ host[cur] \in Hosts
    BY <1>2 DEF LifeTypeOK, Housing, Housed, Live
  <2> DEFINE link == IF host[cur].link = "up" THEN "idle" ELSE host[cur].link
  <2>2. [host[cur] EXCEPT !.link = link] \in Hosts /\ link # "up"
    BY <2>1 DEF Hosts
  <2>3. host' = [host EXCEPT ![cur] = [host[cur] EXCEPT !.link = link]]
    BY <1>2 DEF Withdraw, LifeTypeOK
  <2>4. host'[cur] = [host[cur] EXCEPT !.link = link]
    BY <2>1, <2>3 DEF LifeTypeOK
  <2>5. host'[cur].link = link
    BY <2>1, <2>4 DEF Hosts
  <2> QED BY <2>1, <2>2, <2>3, <2>4, <2>5 DEF LifeTypeOK
<1> QED BY <1>1, <1>2

\* The document that a call will write.
LEMMA DraftType ==
  ASSUME NEW doc \in Documents, NEW w \in Submissions \cup Decisions,
         w \in Decisions \/ Acceptable(doc, w)
  PROVE  /\ Proposed(doc, w) \in Documents
         /\ w \in Decisions => Proposed(doc, w) = [doc EXCEPT !.intent = w.intent]
         /\ w \in Decisions => Proposed(doc, w).intent = w.intent
         /\ w \in Submissions => Proposed(doc, w).intent = doc.intent
<1>1. \A v \in Submissions : v \notin Decisions
  BY DEF Submissions, Decisions
<1>2. CASE w \in Decisions
  <2>1. w.intent \in Intents
    BY <1>2 DEF Decisions
  <2> QED BY <1>1, <1>2, <2>1 DEF Proposed, Documents
<1>3. CASE w \notin Decisions
  <2>1. w \in Submissions /\ ~Malformed(w) /\ Proposed(doc, w) = Fold(doc, w)
    BY <1>3 DEF Acceptable, Proposed
  <2> QED BY <1>1, <1>3, <2>1, FoldType
<1> QED BY <1>2, <1>3

\* The calls of a service that was disposed, and what they leave alone.
Late(c) == LateTake(c) \/ LateWrite(c) \/ LateApplied(c)
Docs == [stored : Documents, saves : Seq(Calls), draft : Documents]

LEMMA LateSame ==
  ASSUME NEW c, Late(c)
  PROVE  /\ UNCHANGED <<ident, phase, stored, saves, draft, booting, hosts, usage, told, astray>>
         /\ prior.saves # <<>> /\ c = Head(prior.saves)
         /\ UNCHANGED <<file, wanted, overtaken>> \/ LateWrite(c)
         /\ \/ \E doc \in {prior.stored, prior.draft} : Leave(c, doc)
            \/ at' = [at EXCEPT ![c] = "writing"] /\ LateTake(c) /\ want' = want
               /\ prior' = [prior EXCEPT !.draft = Proposed(prior.stored, want[c])]
<1>1. CASE LateTake(c)
  BY <1>1 DEF LateTake
<1>2. CASE LateWrite(c) \/ LateApplied(c)
  BY <1>2 DEF LateWrite, LateApplied
<1> QED BY <1>1, <1>2 DEF Late

LEMMA LeaveType ==
  ASSUME LifeTypeOK, NEW c, prior.saves # <<>>, NEW doc \in Documents, Leave(c, doc)
  PROVE  /\ prior' \in Docs
         /\ prior'.saves = Tail(prior.saves)
         /\ prior'.saves # <<>> => prior'.stored = doc
         /\ at' = [at EXCEPT ![c] = "idle"] /\ want' = [want EXCEPT ![c] = NoWish]
         /\ at' \in [Calls -> InFlight \cup {"idle"}]
         /\ want' \in [Calls -> Submissions \cup Decisions \cup {NoWish}]
<1>0. prior.saves \in Seq(Calls) /\ <<>> \in Seq(Calls)
  BY DEF LifeTypeOK
<1>1. Tail(prior.saves) \in Seq(Calls)
  BY <1>0
<1>2. /\ at' = [at EXCEPT ![c] = "idle"] /\ want' = [want EXCEPT ![c] = NoWish]
      /\ at' \in [Calls -> InFlight \cup {"idle"}]
      /\ want' \in [Calls -> Submissions \cup Decisions \cup {NoWish}]
  BY DEF Leave, LifeTypeOK
<1> SUFFICES /\ prior' \in Docs /\ prior'.saves = Tail(prior.saves)
             /\ prior'.saves # <<>> => prior'.stored = doc
  BY <1>2
<1>3. CASE Tail(prior.saves) = <<>>
  <2>1. prior' = [stored |-> Empty, saves |-> <<>>, draft |-> Empty]
    BY <1>3 DEF Leave, Leaving, NothingLeft
  <2> QED BY <1>0, <1>1, <1>3, <2>1, EmptyIsDocument DEF Docs
<1>4. CASE Tail(prior.saves) # <<>>
  <2>1. prior' = [stored |-> doc, saves |-> Tail(prior.saves), draft |-> Empty]
    BY <1>4 DEF Leave, Leaving
  <2> QED BY <1>1, <2>1, EmptyIsDocument DEF Docs
<1> QED BY <1>3, <1>4

LEMMA LateType ==
  ASSUME LifeTypeOK, Queueing, NEW c \in Calls, Late(c)
  PROVE  LifeTypeOK'
<1>1. prior.stored \in Documents /\ prior.draft \in Documents /\ prior.saves \in Seq(Calls)
  BY DEF LifeTypeOK
<1>2. /\ UNCHANGED <<ident, phase, stored, saves, draft, booting, hosts, usage, told, astray>>
      /\ prior.saves # <<>>
  BY LateSame
<1>3. file' \in Documents /\ overtaken' \in BOOLEAN /\ wanted' \in Intents
  <2>1. file \in Documents /\ overtaken \in BOOLEAN /\ wanted \in Intents
    BY DEF LifeTypeOK
  <2>2. want[c] \in Decisions => want[c].intent \in Intents
    BY DEF Decisions
  <2>3. CASE LateWrite(c)
    BY <1>1, <2>1, <2>2, <2>3 DEF LateWrite
  <2> QED BY <2>1, <2>3, LateSame
<1>4. /\ prior' \in Docs /\ at' \in [Calls -> InFlight \cup {"idle"}]
      /\ want' \in [Calls -> Submissions \cup Decisions \cup {NoWish}]
  <2>1. CASE Leave(c, prior.stored) \/ Leave(c, prior.draft)
    BY <1>1, <1>2, <2>1, LeaveType
  <2>2. CASE ~(Leave(c, prior.stored) \/ Leave(c, prior.draft))
    <3>1. /\ at[c] = "queued" /\ at' = [at EXCEPT ![c] = "writing"] /\ want' = want
          /\ want[c] \in Decisions \/ Acceptable(prior.stored, want[c])
          /\ prior' = [prior EXCEPT !.draft = Proposed(prior.stored, want[c])]
      BY <2>2 DEF Late, LateTake, LateWrite, LateApplied
    <3>2. want[c] \in Submissions \cup Decisions
      BY <3>1 DEF Queueing, Held, LifeTypeOK
    <3>3. Proposed(prior.stored, want[c]) \in Documents
      BY <1>1, <3>1, <3>2, DraftType
    <3> QED BY <3>1, <3>3 DEF LifeTypeOK, Docs, InFlight
  <2> QED BY <2>1, <2>2
<1> QED BY <1>2, <1>3, <1>4 DEF LifeTypeOK, Docs, booting, hosts, usage

\* The end of the plugin: its last task is queued, or waits for the initial one.
LEMMA DisposeSteps ==
  ASSUME Dispose \/ QueueDispose
  PROVE  /\ UNCHANGED <<file, ident, config, step, read, hosts, usage, wanted, told, astray, late>>
         /\ phase \in {"on", "disposing"} /\ phase' \in {"disposing", "withdrawing"}
         /\ \/ phase' = "disposing" /\ phase = "on" /\ boots' = boots
            \/ ~Task("init") /\ phase' = "withdrawing" /\ boots' = Append(boots, "dispose")
BY DEF Dispose, QueueDispose, LastTask

\* The questions keep their types, whatever happens to them.
LEMMA AskTypeStep ==
  ASSUME AskTypeOK, \/ UNCHANGED askVars \/ NewBridge \/ LoseBridge \/ DisposeBridge
                    \/ Local \/ Remote
  PROVE  AskTypeOK'
<1>1. CASE UNCHANGED askVars
  BY <1>1 DEF AskTypeOK, askVars
<1>2. CASE NewBridge \/ LoseBridge \/ DisposeBridge
  BY <1>2 DEF AskTypeOK, NewBridge, LoseBridge, DisposeBridge
<1>3. CASE Local \/ Remote
  BY <1>3 DEF AskTypeOK, Local, Remote, Request, LocalSettles, NoProvider, GiveUp, Lapse, Look,
              Reply, Settle, Bridge
<1> QED BY <1>1, <1>2, <1>3

LEMMA TypeStep ==
  ASSUME IInv, [NodeNext]_vars
  PROVE  NodeTypeOK'
<1> USE DEF NodeTypeOK
<1>0. LifeTypeOK /\ AskTypeOK /\ Tasking /\ Queueing /\ Stepping /\ Housing
  BY DEF IInv
<1>1. AskTypeOK'
  BY <1>0, AskTypeStep DEF NodeNext, Start, Die, Life, Unload, Questioned, vars
<1>2. LifeTypeOK'
  <2> USE <1>0
  <2>0. /\ {file, stored, draft, read} \subseteq Documents
        /\ Task("reboot") => saves # <<>>
        /\ Identifying => cur \in Slots /\ Live(cur) /\ boots # <<>>
        /\ Empty \in Documents
    BY EmptyIsDocument DEF LifeTypeOK, Tasking, Rebuilding, Places, Task, Stepping, Housing, Housed
  <2>1. CASE Start
    <3>1. wanted' \in Intents
      BY <2>0, <2>1, IntentType DEF Start, Apply, Known, LifeTypeOK
    <3>2. boots' \in Seq(Tasks) /\ step' = "read" /\ stored' = Empty /\ astray' = FALSE
          /\ saves' \in Seq(Calls) /\ draft' = Empty
      BY <2>1 DEF Start, Apply, Tasks
    <3>3. prior' \in Docs /\ overtaken' \in BOOLEAN
      BY <2>0, <2>1 DEF Start, Apply, NothingLeft, LifeTypeOK, Docs
    <3> QED BY <2>0, <2>1, <3>1, <3>2, <3>3 DEF Start, Apply, LifeTypeOK, Docs, hosts, usage
  <2>2. CASE Die
    <3>1. boots' = <<>> /\ boots' \in Seq(Tasks) /\ saves' = <<>> /\ saves' \in Seq(Calls)
      BY <2>2 DEF Die, Crash
    <3>2. at' \in [Calls -> InFlight \cup {"idle"}]
          /\ want' \in [Calls -> Submissions \cup Decisions \cup {NoWish}]
      BY <2>2 DEF Die, Crash
    <3>3. host' \in [Slots -> Hosts \cup {Gone}] /\ mounted' \subseteq Slots
      BY <2>2 DEF Die, Crash
    <3>4. {file', stored', draft', read'} \subseteq Documents
      BY <2>0, <2>2 DEF Die, Crash
    <3>5. wanted' \in Intents /\ astray' \in BOOLEAN /\ overtaken' \in BOOLEAN
      BY <2>0, <2>2, IntentType DEF Die, Crash, Known, LifeTypeOK
    <3>6. prior' \in Docs
      BY <2>0, <2>2 DEF Die, Crash, NothingLeft, Docs
    <3> QED BY <2>2, <3>1, <3>2, <3>3, <3>4, <3>5, <3>6 DEF Die, Crash, LifeTypeOK, Docs
  <2>3. CASE Life(Asking)
    <3> SUFFICES ASSUME NEW c \in Calls, NEW w \in Wishes[c], Ask(c, w) PROVE LifeTypeOK'
      BY <2>3 DEF Asking, Life
    <3>1. w \in Submissions \cup Decisions
      BY LifeAssumption
    <3>2. saves' \in Seq(Calls) /\ at' \in [Calls -> InFlight \cup {"idle"}]
      BY DEF Ask, LifeTypeOK, InFlight
    <3>3. want' \in [Calls -> Submissions \cup Decisions \cup {NoWish}]
      BY <3>1 DEF Ask, LifeTypeOK
    <3> QED BY <3>2, <3>3 DEF Ask, LifeTypeOK, booting, hosts, usage, late
  <2>4. ASSUME NEW c \in Calls, Take(c) PROVE LifeTypeOK'
    <3>0. want[c] \in Submissions \cup Decisions /\ saves # <<>>
      BY <2>4 DEF LifeTypeOK, Queueing, Held, Take
    <3>1. CASE want[c] \in Decisions \/ Acceptable(stored, want[c])
      <4>1. draft' \in Documents
        <5>1. draft' = Proposed(stored, want[c])
          BY <2>4, <3>1 DEF Take
        <5>2. stored \in Documents
          BY DEF LifeTypeOK
        <5> QED BY <3>0, <3>1, <5>1, <5>2, DraftType
      <4>2. at' \in [Calls -> InFlight \cup {"idle"}]
        BY <2>4, <3>1 DEF Take, LifeTypeOK, InFlight
      <4>3. astray' \in BOOLEAN
        BY <2>4, <3>1 DEF Take, LifeTypeOK, Unseeded, Task
      <4>4. UNCHANGED <<saves, want, file, ident, phase, stored, booting, hosts, usage, wanted, told, late>>
        BY <2>4, <3>1 DEF Take
      <4> QED BY <4>1, <4>2, <4>3, <4>4 DEF LifeTypeOK, booting, hosts, usage, late
    <3>2. CASE ~(want[c] \in Decisions \/ Acceptable(stored, want[c]))
      <4>1. CallDone(c, FALSE) /\ UNCHANGED <<file, ident, phase, stored, booting, hosts, usage,
                                              wanted, told, astray, late>>
        BY <2>4, <3>2 DEF Take
      <4>2. /\ saves' \in Seq(Calls) /\ draft' \in Documents
            /\ at' \in [Calls -> InFlight \cup {"idle"}]
            /\ want' \in [Calls -> Submissions \cup Decisions \cup {NoWish}]
        BY <3>0, <4>1, CallDoneType
      <4> QED BY <4>1, <4>2 DEF LifeTypeOK, booting, hosts, usage, late
    <3> QED BY <3>1, <3>2
  <2>5. ASSUME NEW c \in Calls, Write(c) PROVE LifeTypeOK'
    <3>0. saves # <<>> /\ want[c] \in Submissions \cup Decisions
      BY <2>5 DEF LifeTypeOK, Queueing, Held, Write
    <3>u. UNCHANGED <<ident, phase, step, read, cur, old, mounted, usage, told, astray, late>>
      BY <2>5 DEF Write
    <3>1. CASE Rebuild(c) /\ file' = draft /\ stored' = draft
      <4>1. boots' \in Seq(Tasks) /\ at' \in [Calls -> InFlight \cup {"idle"}]
        BY <3>1 DEF Rebuild, LifeTypeOK, Tasks, InFlight
      <4>2. {file', stored', draft', read'} \subseteq Documents
        BY <2>0, <3>u, <3>1 DEF Rebuild
      <4> QED BY <3>u, <3>1, <4>1, <4>2 DEF Rebuild, LifeTypeOK, usage, late
    <3>2. ASSUME NEW i \in Intents, Decide(c, i), file' = draft, stored' = draft
          PROVE  LifeTypeOK'
      <4>1. host' \in [Slots -> Hosts \cup {Gone}] /\ wanted' \in Intents /\ boots' = boots
        BY <3>2, TellType DEF Decide
      <4>2. /\ saves' \in Seq(Calls) /\ draft' \in Documents
            /\ at' \in [Calls -> InFlight \cup {"idle"}]
            /\ want' \in [Calls -> Submissions \cup Decisions \cup {NoWish}]
        <5>1. CASE Awaits(i)
          <6>1. /\ saves' = Tail(saves) /\ draft' = Empty /\ want' = want
                /\ at' = [at EXCEPT ![c] = "closing"]
            BY <3>2, <5>1 DEF Decide, Freed
          <6>2. at' \in [Calls -> InFlight \cup {"idle"}]
            BY <6>1 DEF LifeTypeOK, InFlight
          <6>3. saves' \in Seq(Calls)
            BY <3>0, <6>1 DEF LifeTypeOK
          <6> QED BY <2>0, <6>1, <6>2, <6>3 DEF LifeTypeOK
        <5>2. CASE ~Awaits(i)
          <6>1. CallDone(c, TRUE)
            BY <3>2, <5>2 DEF Decide
          <6> QED BY <3>0, <6>1, CallDoneType
        <5> QED BY <5>1, <5>2
      <4>3. {file', stored', draft', read'} \subseteq Documents
        BY <2>0, <3>u, <3>2, <4>2
      <4> QED BY <3>u, <4>1, <4>2, <4>3 DEF LifeTypeOK, usage, late
    <3>3. CASE CallDone(c, FALSE) /\ UNCHANGED <<file, stored, boots, host, wanted>>
      <4>1. /\ saves' \in Seq(Calls) /\ draft' \in Documents
            /\ at' \in [Calls -> InFlight \cup {"idle"}]
            /\ want' \in [Calls -> Submissions \cup Decisions \cup {NoWish}]
        BY <3>0, <3>3, CallDoneType
      <4> QED BY <3>u, <3>3, <4>1 DEF LifeTypeOK, usage, late
    <3> QED BY <2>5, <3>1, <3>2, <3>3 DEF Write
  <2>6. ASSUME NEW c \in Calls, Disconnected(c) PROVE LifeTypeOK'
    <3>1. at' \in [Calls -> InFlight \cup {"idle"}]
          /\ want' \in [Calls -> Submissions \cup Decisions \cup {NoWish}]
      BY <2>6 DEF Disconnected, LifeTypeOK
    <3> QED BY <2>6, <3>1 DEF Disconnected, LifeTypeOK, booting, hosts, usage, late
  <2>7. CASE ReadFile
    BY <2>0, <2>7 DEF ReadFile, LifeTypeOK, config, hosts, usage, late
  <2>8. CASE Seed
    <3>1. stored' \in Documents /\ read' \in Documents
      BY <2>0, <2>8 DEF Seed
    <3>2. CASE MayBoot
      <4>1. Boot(read)
        BY <2>8, <3>2 DEF Seed
      <4>2. /\ host' \in [Slots -> Hosts \cup {Gone}] /\ mounted' \subseteq Slots
            /\ cur' \in Slots /\ old' = old
            /\ queue' \in {"none", "open"} /\ collector' \in BOOLEAN
            /\ step' = "identity" /\ boots' = boots
        BY <2>0, <4>1, BootType
      <4> QED BY <2>8, <3>1, <4>2 DEF Seed, LifeTypeOK, late
    <3>3. CASE ~MayBoot
      <4>1. TaskDone /\ boots # <<>> /\ UNCHANGED <<hosts, usage>>
        BY <2>8, <3>3 DEF Seed, Task
      <4>2. boots' \in Seq(Tasks) /\ step' = "next"
        BY <4>1, DoneType
      <4> QED BY <2>8, <3>1, <4>1, <4>2 DEF Seed, LifeTypeOK, hosts, usage, late
    <3> QED BY <3>2, <3>3
  <2>9. CASE ReadIdentity
    <3>1. ASSUME NEW id \in NodeIds \cup {Absent}, Started(id), UNCHANGED ident
          PROVE  LifeTypeOK'
      <4>1. ident' \in NodeIds \cup {Absent, "torn"}
        BY <3>1 DEF LifeTypeOK
      <4>2. cur \in Slots /\ Live(cur) /\ boots # <<>> /\ UNCHANGED <<file, phase, usage, wanted, astray, late>>
        BY <2>0, <2>9 DEF ReadIdentity, Identifying
      <4> QED BY <2>0, <3>1, <4>1, <4>2, StartedStep
    <3>2. CASE step' = "mint" /\ ident' \in {ident, Absent}
               /\ UNCHANGED <<config, boots, read, hosts, told>>
      BY <2>9, <3>2 DEF ReadIdentity, LifeTypeOK, config, hosts, usage, late
    <3> QED BY <2>9, <3>1, <3>2 DEF ReadIdentity
  <2>10. CASE CreateIdentity
    <3>1. CASE Started(Absent) /\ ident' \in {ident, Absent}
      <4>1. ident' \in NodeIds \cup {Absent, "torn"}
        BY <3>1 DEF LifeTypeOK
      <4> QED BY <2>0, <2>10, <3>1, <4>1, StartedStep DEF CreateIdentity, Identifying
    <3>2. CASE ident' = "torn" /\ step' = "fill" /\ UNCHANGED <<config, boots, read, hosts, told>>
      BY <2>10, <3>2 DEF CreateIdentity, LifeTypeOK, config, hosts, usage, late
    <3> QED BY <2>10, <3>1, <3>2 DEF CreateIdentity
  <2>11. CASE FillIdentity
    <3>1. NewId \in NodeIds
      BY <2>11 DEF FillIdentity, NewId
    <3>2. PICK id \in NodeIds \cup {Absent} : Started(id) /\ ident' \in NodeIds \cup {ident}
      BY <2>11, <3>1 DEF FillIdentity, Minted
    <3>3. ident' \in NodeIds \cup {Absent, "torn"}
      BY <3>2 DEF LifeTypeOK
    <3> QED BY <2>0, <2>11, <3>2, <3>3, StartedStep DEF FillIdentity, Identifying
  <2>12. CASE Withdraw
    BY <2>12, WithdrawType DEF Withdraw, LifeTypeOK, config, usage, late
  <2>13. CASE StopReturns
    <3>1. mounted' \subseteq Slots
      BY <2>13 DEF StopReturns, LifeTypeOK
    <3>2. host' \in [Slots -> Hosts \cup {Gone}]
      BY <2>13 DEF StopReturns, Stopped, LifeTypeOK
    <3> QED BY <2>13, <3>1, <3>2 DEF StopReturns, LifeTypeOK, config, usage, late
  <2>14. CASE Reboot
    <3>1. CASE MayBoot
      <4>1. Boot(draft)
        BY <2>14, <3>1 DEF Reboot
      <4>2. /\ host' \in [Slots -> Hosts \cup {Gone}] /\ mounted' \subseteq Slots
            /\ cur' \in Slots /\ old' = old
            /\ queue' \in {"none", "open"} /\ collector' \in BOOLEAN
            /\ step' = "identity" /\ boots' = boots
        BY <2>0, <4>1, BootType
      <4> QED BY <2>14, <3>1, <4>2 DEF Reboot, LifeTypeOK, late
    <3>2. CASE ~MayBoot
      <4>1. CallDone(Head(saves), FALSE)
        BY <2>14, <3>2 DEF Reboot
      <4>2. /\ saves' \in Seq(Calls) /\ draft' \in Documents
            /\ at' \in [Calls -> InFlight \cup {"idle"}]
            /\ want' \in [Calls -> Submissions \cup Decisions \cup {NoWish}]
        BY <2>0, <2>14, <4>1, CallDoneType DEF Reboot
      <4>3. boots' \in Seq(Tasks) /\ step' = "next"
        <5>1. TaskDone /\ boots # <<>>
          BY <2>14, <3>2 DEF Reboot, Task
        <5> QED BY <5>1, DoneType
      <4> QED BY <2>14, <3>2, <4>2, <4>3 DEF Reboot, LifeTypeOK, hosts, usage, late
    <3> QED BY <3>1, <3>2
  <2>15. CASE DisposeCollector
    <3>1. TaskDone /\ boots # <<>>
      BY <2>15 DEF DisposeCollector, Task
    <3>2. boots' \in Seq(Tasks) /\ step' = "next"
      BY <3>1, DoneType
    <3> QED BY <2>15, <3>2 DEF DisposeCollector, Task, TaskDone, LifeTypeOK, config, hosts, late
  <2>16. CASE Dispose \/ QueueDispose
    <3>1. boots' \in Seq(Tasks)
      <4>1. boots' = boots \/ boots' = Append(boots, "dispose")
        BY <2>16, DisposeSteps
      <4>2. boots \in Seq(Tasks) /\ "dispose" \in Tasks
        BY DEF LifeTypeOK, Tasks
      <4> QED BY <4>1, <4>2
    <3>2. phase' \in {"on", "disposing", "withdrawing", "closing", "off"}
      BY <2>16, DisposeSteps
    <3>3. UNCHANGED <<file, ident, config, step, read, hosts, usage, wanted, told, astray, late>>
      BY <2>16, DisposeSteps
    <3> QED BY <3>1, <3>2, <3>3 DEF LifeTypeOK, config, hosts, usage, late
  <2>17. CASE CloseUsage \/ LlmAppears
    BY <2>17 DEF CloseUsage, LlmAppears, LifeTypeOK, config, booting, hosts, usage, late
  <2>18. CASE UNCHANGED lifeVars
    BY <2>18 DEF LifeTypeOK, lifeVars, config, booting, hosts, usage, late
  <2>19. ASSUME NEW c \in Calls, Late(c) PROVE LifeTypeOK'
    BY <2>19, LateType
  <2> QED
    BY <2>1, <2>2, <2>3, <2>4, <2>5, <2>6, <2>7, <2>8, <2>9, <2>10, <2>11, <2>12, <2>13, <2>14,
       <2>15, <2>16, <2>17, <2>18, <2>19
    DEF NodeNext, Life, LifeStep, Saving, LateSaving, Late, Closing, Booting, Disposing, Unload, Questioned, vars
<1> QED BY <1>1, <1>2

\* What a step may be.
LEMMA Steps ==
  ASSUME [NodeNext]_vars
  PROVE  \/ Start \/ Die
         \/ \E c \in Calls : \/ \E w \in Wishes[c] : Ask(c, w)
                             \/ Take(c) \/ Write(c) \/ Disconnected(c) \/ Late(c)
         \/ ReadFile \/ Seed \/ ReadIdentity \/ CreateIdentity \/ FillIdentity
         \/ Withdraw \/ StopReturns \/ Reboot \/ DisposeCollector
         \/ QueueDispose \/ CloseUsage \/ Dispose \/ LlmAppears \/ UNCHANGED lifeVars
BY DEF NodeNext, Life, LifeStep, Asking, Saving, LateSaving, Late, Closing, Booting, Disposing, Unload, Questioned, vars

-----------------------------------------------------------------------------
(***************************************************************************)
(* The queues.                                                             *)
(***************************************************************************)

\* A queue that loses its first, and one that grows.
LEMMA Tails ==
  ASSUME NEW S, NEW q \in Seq(S), q # <<>>
  PROVE  /\ Len(Tail(q)) = Len(q) - 1
         /\ \A i \in 1..Len(Tail(q)) : i + 1 \in 1..Len(q) /\ i + 1 # 1 /\ Tail(q)[i] = q[i + 1]
         /\ 1 \in 1..Len(q) /\ Head(q) = q[1]
<1>1. Len(q) \in Nat \ {0} /\ Len(Tail(q)) = Len(q) - 1
  OBVIOUS
<1>2. \A i \in 1..Len(Tail(q)) : Tail(q)[i] = q[i + 1]
  OBVIOUS
<1> QED BY <1>1, <1>2

LEMMA Appends ==
  ASSUME NEW S, NEW q \in Seq(S), NEW e \in S
  PROVE  /\ Len(Append(q, e)) = Len(q) + 1
         /\ \A i \in 1..Len(q) : Append(q, e)[i] = q[i]
         /\ Append(q, e)[Len(q) + 1] = e /\ Append(q, e) # <<>>
         /\ q # <<>> => Head(Append(q, e)) = Head(q)
         /\ q = <<>> => Head(Append(q, e)) = e
OBVIOUS

\* What a change of one place does to a queue of calls: a call that is answered
\* makes room for one that is queued, the first one moves on, one joins, and one
\* that is elsewhere changes nothing.
Places2 == [Calls -> InFlight \cup {"idle"}]

LEMMA LineTail ==
  ASSUME NEW q \in Seq(Calls), q # <<>>, NEW a \in Places2, InLine(q, a), NEW s
  PROVE  /\ InLine(Tail(q), [a EXCEPT ![Head(q)] = s])
         /\ Tail(q) # <<>> => [a EXCEPT ![Head(q)] = s][Head(Tail(q))] = "queued"
         /\ \A i \in 1..Len(Tail(q)) : Tail(q)[i] # Head(q)
<1> DEFINE b == [a EXCEPT ![Head(q)] = s]
<1>1. Head(q) \in Calls /\ Tail(q) \in Seq(Calls)
  OBVIOUS
<1>2. /\ Len(Tail(q)) = Len(q) - 1 /\ Len(q) \in Nat
      /\ \A i \in 1..Len(Tail(q)) : /\ i + 1 \in 1..Len(q) /\ i + 1 # 1
                                    /\ Tail(q)[i] = q[i + 1] /\ Tail(q)[i] \in Calls
      /\ 1 \in 1..Len(q) /\ Head(q) = q[1]
  BY Tails
<1>3. \A i \in 1..Len(Tail(q)) : Tail(q)[i] # Head(q) /\ b[Tail(q)[i]] = "queued"
  <2> TAKE i \in 1..Len(Tail(q))
  <2>1. Tail(q)[i] # q[1] /\ a[q[i + 1]] = "queued"
    BY <1>2 DEF InLine
  <2> QED BY <1>1, <1>2, <2>1 DEF Places2
<1>4. \A i, j \in 1..Len(Tail(q)) : Tail(q)[i] = Tail(q)[j] => i = j
  <2> TAKE i, j \in 1..Len(Tail(q))
  <2>1. q[i + 1] = q[j + 1] => i + 1 = j + 1
    BY <1>2 DEF InLine
  <2> QED BY <1>2, <2>1
<1>5. Tail(q) # <<>> => b[Head(Tail(q))] = "queued"
  BY <1>1, <1>3, Tails
<1> QED BY <1>3, <1>4, <1>5 DEF InLine, Held

LEMMA LineHead ==
  ASSUME NEW q \in Seq(Calls), q # <<>>, NEW a \in Places2, InLine(q, a), NEW s \in Held
  PROVE  InLine(q, [a EXCEPT ![Head(q)] = s])
<1>1. Head(q) = q[1] /\ 1 \in 1..Len(q) /\ \A i \in 1..Len(q) : q[i] \in Calls
  BY Tails
<1>2. \A i \in 1..Len(q) : i # 1 => q[i] # Head(q)
  BY <1>1 DEF InLine
<1> QED BY <1>1, <1>2 DEF InLine, Places2

LEMMA LineElsewhere ==
  ASSUME NEW q \in Seq(Calls), NEW a \in Places2, InLine(q, a), NEW c, NEW s,
         \A i \in 1..Len(q) : q[i] # c
  PROVE  InLine(q, [a EXCEPT ![c] = s])
<1>1. \A i \in 1..Len(q) : q[i] \in Calls /\ [a EXCEPT ![c] = s][q[i]] = a[q[i]]
  BY DEF Places2
<1> QED BY <1>1 DEF InLine

LEMMA LineAppend ==
  ASSUME NEW q \in Seq(Calls), NEW a \in Places2, InLine(q, a), NEW c \in Calls, a[c] \notin Held
  PROVE  InLine(Append(q, c), [a EXCEPT ![c] = "queued"])
<1> DEFINE b == [a EXCEPT ![c] = "queued"]
           r == Append(q, c)
<1>1. \A i \in 1..Len(q) : q[i] # c /\ q[i] \in Calls
  BY DEF InLine, Held
<1>2. /\ Len(r) = Len(q) + 1 /\ Len(q) \in Nat
      /\ \A i \in 1..Len(q) : r[i] = q[i]
      /\ r[Len(q) + 1] = c
  OBVIOUS
<1>3. \A i \in 1..Len(r) : b[r[i]] \in (IF i = 1 THEN Held ELSE {"queued"})
  <2> TAKE i \in 1..Len(r)
  <2>1. CASE i = Len(q) + 1
    BY <1>2, <2>1 DEF Held, Places2
  <2>2. CASE i \in 1..Len(q)
    <3>1. b[r[i]] = a[q[i]]
      BY <1>1, <1>2, <2>2 DEF Places2
    <3> QED BY <2>2, <3>1 DEF InLine
  <2> QED BY <1>2, <2>1, <2>2
<1>4. \A i, j \in 1..Len(r) : r[i] = r[j] => i = j
  BY <1>1, <1>2 DEF InLine
<1> QED BY <1>3, <1>4 DEF InLine

\* Two queues stay apart when one loses its first.
LEMMA ApartTail ==
  ASSUME NEW p \in Seq(Calls), NEW q \in Seq(Calls), Apart(p, q)
  PROVE  /\ q # <<>> => Apart(p, Tail(q)) /\ \A i \in 1..Len(p) : p[i] # Head(q)
         /\ p # <<>> => Apart(Tail(p), q) /\ \A i \in 1..Len(q) : q[i] # Head(p)
BY Tails DEF Apart

\* A call of the configuration service that is answered.
LEMMA QueueingTail ==
  ASSUME LifeTypeOK, Queueing, saves # <<>>, saves' = Tail(saves), UNCHANGED prior,
         NEW s, s \notin Held, at' = [at EXCEPT ![Head(saves)] = s],
         \A c \in Calls : c # Head(saves) => want'[c] = want[c]
  PROVE  /\ Queueing'
         /\ saves' # <<>> => at'[Head(saves')] = "queued"
<1>1. saves \in Seq(Calls) /\ Head(saves) \in Calls /\ at \in Places2 /\ prior.saves \in Seq(Calls)
  BY DEF LifeTypeOK, Places2
<1>2. /\ InLine(Tail(saves), at')
      /\ Tail(saves) # <<>> => at'[Head(Tail(saves))] = "queued"
  BY <1>1, LineTail DEF Queueing
<1>3. Apart(Tail(saves), prior.saves) /\ \A i \in 1..Len(prior.saves) : prior.saves[i] # Head(saves)
  BY <1>1, ApartTail DEF Queueing
<1>4. InLine(prior.saves, at')
  BY <1>1, <1>3, LineElsewhere DEF Queueing
<1>5. \A c \in Calls : at'[c] \in Held => want'[c] # NoWish
  BY <1>1 DEF Queueing, Places2
<1> QED BY <1>2, <1>3, <1>4, <1>5 DEF Queueing

\* The end of the first call of the configuration queue.
Ends(s) ==
  /\ saves # <<>> /\ saves' = Tail(saves) /\ draft' = Empty /\ UNCHANGED late
  /\ at' = [at EXCEPT ![Head(saves)] = s]
  /\ \A c \in Calls : c # Head(saves) => want'[c] = want[c]

LEMMA DoneEnds ==
  ASSUME LifeTypeOK, saves # <<>>, NEW well, CallDone(Head(saves), well), UNCHANGED late
  PROVE  Ends("idle")
BY DEF CallDone, Freed, Ends, LifeTypeOK

LEMMA HeadTask ==
  ASSUME LifeTypeOK, NEW t, Task(t)
  PROVE  boots # <<>> /\ 1 \in Places /\ boots[1] = t
<1>1. boots \in Seq(Tasks) /\ boots # <<>> /\ Head(boots) = t
  BY DEF LifeTypeOK, Task
<1> QED BY <1>1, Tails DEF Places

\* Nobody wishes for nothing.
LEMMA WishIsNot == NoWish \notin Submissions \cup Decisions
<1>1. NoWish \notin Decisions
  <2>1. NoWish.intent \notin Intents
    BY DEF NoWish, Intents
  <2> QED BY <2>1 DEF Decisions
<1>2. NoWish \notin Submissions
  BY DEF NoWish, Submissions
<1> QED BY <1>1, <1>2

\* A write that fails, or one of a decision.
LEMMA WriteEnds ==
  ASSUME LifeTypeOK, NEW c \in Calls, Write(c), ~Rebuild(c)
  PROVE  \E s \in {"idle", "closing"} : Ends(s) /\ at[Head(saves)] # "applying"
<1>1. saves # <<>> /\ c = Head(saves) /\ at[Head(saves)] # "applying" /\ UNCHANGED late
  BY DEF Write
<1>2. CASE \E i \in Intents : Decide(c, i) /\ Awaits(i)
  <2>1. Ends("closing")
    BY <1>1, <1>2 DEF Decide, Freed, Ends
  <2> QED BY <1>1, <2>1
<1>3. CASE \E well : CallDone(c, well)
  BY <1>1, <1>3, DoneEnds
<1> QED BY <1>2, <1>3 DEF Write, Decide

\* What a step does to the configuration queue.
LEMMA SaveSteps ==
  ASSUME IInv, [NodeNext]_vars
  PROVE  \/ UNCHANGED <<saves, at, want, draft>>
         \/ Start \/ Die
         \/ \E c \in Calls : \E w \in Wishes[c] : Ask(c, w)
         \/ \E c \in Calls : Late(c)
         \/ \E c \in Calls : \/ /\ Take(c) /\ at' = [at EXCEPT ![c] = "writing"]
                                /\ draft' = Proposed(stored, want[c]) /\ UNCHANGED <<saves, want>>
                             \/ Write(c) /\ Rebuild(c)
                             \/ Disconnected(c)
         \/ \E s \in {"idle", "closing"} :
              /\ Ends(s)
              /\ at[Head(saves)] # "applying" \/ (Task("reboot") /\ TaskDone)
<1>0. LifeTypeOK /\ Tasking /\ Stepping
  BY DEF IInv, NodeTypeOK
<1>1. ASSUME NEW c \in Calls, Take(c)
      PROVE  \/ at' = [at EXCEPT ![c] = "writing"] /\ draft' = Proposed(stored, want[c])
                /\ UNCHANGED <<saves, want>>
             \/ Ends("idle") /\ at[Head(saves)] # "applying"
  BY <1>0, <1>1, DoneEnds DEF Take
<1>2. ASSUME NEW c \in Calls, Write(c), ~Rebuild(c)
      PROVE  \E s \in {"idle", "closing"} : Ends(s) /\ at[Head(saves)] # "applying"
  BY <1>0, <1>2, WriteEnds
<1>3. ASSUME NEW id, Started(id), step \in {"identity", "mint", "fill"}, UNCHANGED late
      PROVE  \/ UNCHANGED <<saves, at, want, draft>>
             \/ Ends("idle") /\ Task("reboot") /\ TaskDone
  <2>1. CASE Task("reboot")
    <3>1. saves # <<>>
      BY <1>0, <2>1, HeadTask DEF Tasking, Rebuilding
    <3> QED BY <1>0, <1>3, <2>1, <3>1, DoneEnds DEF Started, Booted
  <2>2. CASE ~Task("reboot")
    BY <1>3, <2>2 DEF Started, Booted
  <2> QED BY <2>1, <2>2
<1>4. CASE ReadIdentity \/ CreateIdentity \/ FillIdentity
  BY <1>3, <1>4 DEF ReadIdentity, CreateIdentity, FillIdentity, config
<1>5. CASE Reboot
  <2>1. saves # <<>>
    BY <1>0, <1>5, HeadTask DEF Reboot, Tasking, Rebuilding
  <2>2. CASE MayBoot
    BY <1>5, <2>2 DEF Reboot
  <2>3. CASE ~MayBoot
    BY <1>0, <1>5, <2>1, <2>3, DoneEnds DEF Reboot
  <2> QED BY <2>2, <2>3
<1>6. CASE ReadFile \/ Seed \/ Withdraw \/ StopReturns \/ DisposeCollector
           \/ QueueDispose \/ CloseUsage \/ Dispose \/ LlmAppears \/ UNCHANGED lifeVars
  BY <1>6 DEF ReadFile, Seed, Withdraw, StopReturns, DisposeCollector,
              QueueDispose, CloseUsage, Dispose, LlmAppears, lifeVars, config
<1> QED BY <1>1, <1>2, <1>4, <1>5, <1>6, Steps

\* A call of the earlier service leaves the first one of this one where it is.
LEMMA LateElsewhere ==
  ASSUME LifeTypeOK, Queueing, NEW c \in Calls, Late(c), saves # <<>>
  PROVE  /\ saves' = saves /\ draft' = draft /\ Head(saves) \in Calls
         /\ at'[Head(saves)] = at[Head(saves)] /\ want'[Head(saves)] = want[Head(saves)]
<1>1. /\ saves' = saves /\ draft' = draft /\ prior.saves # <<>> /\ c = Head(prior.saves)
      /\ \/ at' = [at EXCEPT ![c] = "idle"] /\ want' = [want EXCEPT ![c] = NoWish]
         \/ at' = [at EXCEPT ![c] = "writing"] /\ want' = want
  BY LateSame DEF Leave
<1>2. saves \in Seq(Calls) /\ prior.saves \in Seq(Calls) /\ Head(saves) = saves[1] /\ 1 \in 1..Len(saves)
  BY Tails DEF LifeTypeOK
<1>3. Head(saves) # c /\ Head(saves) \in Calls
  BY <1>1, <1>2, ApartTail DEF Queueing
<1> QED BY <1>1, <1>3 DEF LifeTypeOK

LEMMA PriorSteps ==
  ASSUME [NodeNext]_vars
  PROVE  UNCHANGED late \/ Start \/ Die \/ \E c \in Calls : Late(c)
<1>1. CASE ReadIdentity \/ CreateIdentity \/ FillIdentity
  BY <1>1 DEF ReadIdentity, CreateIdentity, FillIdentity
<1>2. ASSUME NEW c \in Calls, Take(c) \/ Disconnected(c) \/ Write(c) \/ \E w \in Wishes[c] : Ask(c, w)
      PROVE  UNCHANGED late
  BY <1>2 DEF Take, Disconnected, Write, Ask
<1>3. CASE ReadFile \/ Seed \/ Withdraw \/ StopReturns \/ Reboot \/ DisposeCollector
           \/ QueueDispose \/ CloseUsage \/ Dispose \/ LlmAppears \/ UNCHANGED lifeVars
  BY <1>3 DEF ReadFile, Seed, Withdraw, StopReturns, Reboot, DisposeCollector,
     QueueDispose, CloseUsage, Dispose, LlmAppears, lifeVars
<1> QED BY <1>1, <1>2, <1>3, Steps

LEMMA QueueingStep ==
  ASSUME IInv, [NodeNext]_vars
  PROVE  Queueing'
<1>0. /\ LifeTypeOK /\ Queueing /\ saves \in Seq(Calls) /\ prior.saves \in Seq(Calls)
      /\ at \in Places2
  BY DEF IInv, NodeTypeOK, LifeTypeOK, Places2
<1>u. ASSUME UNCHANGED <<saves, at, want, late>> PROVE Queueing'
  BY <1>0, <1>u DEF Queueing, late
<1>2. CASE Start
  <2>1. /\ UNCHANGED <<at, want>> /\ saves' = <<>>
        /\ prior'.saves = saves
    BY <1>2 DEF Start, Apply, NothingLeft
  <2> QED BY <1>0, <2>1 DEF Queueing, InLine, Apart
<1>3. CASE Die
  BY <1>3 DEF Die, Crash, NothingLeft, Queueing, InLine, Apart, Held
<1>4. ASSUME NEW c \in Calls, NEW w \in Wishes[c], Ask(c, w)
      PROVE  Queueing'
  <2>1. w # NoWish
    BY LifeAssumption, WishIsNot
  <2>2. /\ saves' = Append(saves, c) /\ at' = [at EXCEPT ![c] = "queued"]
        /\ want' = [want EXCEPT ![c] = w] /\ prior' = prior /\ at[c] \notin Held
    BY <1>4 DEF Ask, Held, late
  <2>3. \A i \in 1..Len(prior.saves) : prior.saves[i] # c
    BY <1>0, <2>2 DEF Queueing, InLine, Held
  <2>4. InLine(saves', at') /\ InLine(prior'.saves, at')
    BY <1>0, <2>2, <2>3, LineAppend, LineElsewhere DEF Queueing
  <2>5. Apart(saves', prior'.saves)
    <3>1. \A i \in 1..Len(saves') : saves'[i] = c \/ (i \in 1..Len(saves) /\ saves'[i] = saves[i])
      BY <1>0, <2>2
    <3> QED BY <1>0, <2>2, <2>3, <3>1 DEF Queueing, Apart
  <2>6. \A d \in Calls : at'[d] \in Held => want'[d] # NoWish
    BY <1>0, <2>1, <2>2 DEF Queueing, LifeTypeOK, Places2
  <2> QED BY <2>4, <2>5, <2>6 DEF Queueing
<1>5. ASSUME NEW c \in Calls, saves # <<>>, c = Head(saves), NEW s \in Held, at[c] \in Held,
             at' = [at EXCEPT ![c] = s], UNCHANGED <<saves, want, late>>
      PROVE  Queueing'
  <2>1. \A i \in 1..Len(prior.saves) : prior.saves[i] # c
    BY <1>0, <1>5, ApartTail DEF Queueing
  <2>2. InLine(saves, at') /\ InLine(prior.saves, at')
    BY <1>0, <1>5, <2>1, LineHead, LineElsewhere DEF Queueing
  <2> QED BY <1>0, <1>5, <2>2 DEF Queueing, Places2, late
<1>6. ASSUME NEW c \in Calls, Disconnected(c)
      PROVE  Queueing'
  <2>1. /\ at' = [at EXCEPT ![c] = "idle"] /\ want' = [want EXCEPT ![c] = NoWish]
        /\ saves' = saves /\ prior' = prior /\ at[c] = "closing"
    BY <1>6 DEF Disconnected, late
  <2>2. /\ \A i \in 1..Len(saves) : saves[i] # c
        /\ \A i \in 1..Len(prior.saves) : prior.saves[i] # c
    BY <1>0, <2>1 DEF Queueing, InLine, Held
  <2>3. InLine(saves, at') /\ InLine(prior.saves, at')
    BY <1>0, <2>1, <2>2, LineElsewhere DEF Queueing
  <2>4. \A d \in Calls : at'[d] \in Held => want'[d] # NoWish
    BY <1>0, <2>1 DEF Queueing, LifeTypeOK, Held, Places2
  <2> QED BY <1>0, <2>1, <2>3, <2>4 DEF Queueing
<1>7. ASSUME NEW s \in {"idle", "closing"}, Ends(s)
      PROVE  Queueing'
  BY <1>0, <1>7, QueueingTail DEF Ends, Held, late
<1>8. ASSUME NEW c \in Calls, Late(c)
      PROVE  Queueing'
  <2>1. saves' = saves /\ prior.saves # <<>> /\ c = Head(prior.saves)
    BY <1>8, LateSame
  <2>2. \A i \in 1..Len(saves) : saves[i] # c
    BY <1>0, <2>1, ApartTail DEF Queueing
  <2>3. CASE \E doc \in {prior.stored, prior.draft} : Leave(c, doc)
    <3>1. /\ at' = [at EXCEPT ![c] = "idle"] /\ want' = [want EXCEPT ![c] = NoWish]
          /\ prior'.saves = Tail(prior.saves)
      BY <1>0, <2>1, <2>3, LeaveType DEF LifeTypeOK
    <3>2. /\ InLine(saves, at') /\ InLine(prior'.saves, at') /\ Apart(saves, prior'.saves)
      <4>1. InLine(saves, at')
        BY <1>0, <2>1, <2>2, <3>1, LineElsewhere DEF Queueing
      <4>2. "idle" \notin Held
        BY DEF Held
      <4>3. InLine(Tail(prior.saves), at')
        BY <1>0, <2>1, <3>1, <4>2, LineTail DEF Queueing
      <4>4. Apart(saves, Tail(prior.saves))
        BY <1>0, <2>1, ApartTail DEF Queueing
      <4> QED BY <3>1, <4>1, <4>3, <4>4
    <3>3. \A d \in Calls : at'[d] \in Held => want'[d] # NoWish
      BY <1>0, <3>1 DEF Queueing, LifeTypeOK, Held, Places2
    <3> QED BY <2>1, <3>2, <3>3 DEF Queueing
  <2>4. CASE /\ at' = [at EXCEPT ![c] = "writing"] /\ LateTake(c) /\ want' = want
             /\ prior' = [prior EXCEPT !.draft = Proposed(prior.stored, want[c])]
    <3>0. prior'.saves = prior.saves
      BY <2>4 DEF LifeTypeOK
    <3>1. InLine(saves, at') /\ InLine(prior.saves, at')
      BY <1>0, <2>1, <2>2, <2>4, LineHead, LineElsewhere DEF Queueing, Held
    <3>2. \A d \in Calls : at'[d] \in Held => want'[d] # NoWish
      BY <1>0, <2>4 DEF Queueing, LifeTypeOK, Held, Places2, LateTake
    <3> QED BY <1>0, <2>1, <3>0, <3>1, <3>2 DEF Queueing
  <2> QED BY <1>8, <2>3, <2>4, LateSame
<1>9. UNCHANGED <<saves, at, want, draft>> => UNCHANGED late \/ Start \/ Die \/ \E c \in Calls : Late(c)
  BY PriorSteps
<1> QED
  BY <1>u, <1>2, <1>3, <1>4, <1>5, <1>6, <1>7, <1>8, <1>9, SaveSteps DEF Take, Write, Rebuild, Held

\* The tasks behind the first one.
LEMMA BootsTail ==
  ASSUME LifeTypeOK, Tasking, boots # <<>>, boots' = Tail(boots)
  PROVE  /\ \A i \in Places' : /\ i + 1 \in Places /\ boots'[i] = boots[i + 1]
                               /\ boots'[i] # "init" /\ boots'[i] # Head(boots)
         /\ \A i, j \in Places' : boots'[i] = boots'[j] => i = j
         /\ Rebuilding' => Rebuilding /\ Head(boots) # "reboot"
         /\ ~Task("init")'
<1>1. /\ \A i \in Places' : i + 1 \in Places /\ i + 1 # 1 /\ boots'[i] = boots[i + 1]
      /\ 1 \in Places /\ Head(boots) = boots[1]
  BY Tails DEF LifeTypeOK, Places
<1>2. \A i \in Places' : boots'[i] # "init" /\ boots'[i] # Head(boots)
  <2> TAKE i \in Places'
  <2>1. boots[i + 1] = "init" => i + 1 = 1
    BY <1>1 DEF Tasking
  <2>2. boots[i + 1] = boots[1] => i + 1 = 1
    BY <1>1 DEF Tasking
  <2> QED BY <1>1, <2>1, <2>2
<1>3. \A i, j \in Places' : boots'[i] = boots'[j] => i = j
  <2> TAKE i, j \in Places'
  <2>1. boots[i + 1] = boots[j + 1] => i + 1 = j + 1
    BY <1>1 DEF Tasking
  <2> QED BY <1>1, <2>1 DEF Places
<1>4. Rebuilding' => Rebuilding /\ Head(boots) # "reboot"
  BY <1>1, <1>2 DEF Rebuilding
<1>5. ~Task("init")'
  <2>1. boots' \in Seq(Tasks)
    BY DEF LifeTypeOK
  <2>2. boots' # <<>> => 1 \in Places' /\ Head(boots') = boots'[1]
    BY <2>1, Tails DEF Places
  <2> QED BY <1>2, <2>2 DEF Task
<1> QED BY <1>1, <1>2, <1>3, <1>4, <1>5

\* A task that is put behind the others.
LEMMA BootsAppend ==
  ASSUME LifeTypeOK, Tasking, NEW t \in Tasks, boots' = Append(boots, t),
         \A i \in Places : boots[i] # t
  PROVE  /\ \A i \in Places' : \/ i \in Places /\ boots'[i] = boots[i]
                               \/ i = Len(boots) + 1 /\ boots'[i] = t
         /\ Len(boots) + 1 \in Places'
         /\ \A i, j \in Places' : boots'[i] = boots'[j] => i = j
         /\ boots # <<>> => Head(boots') = Head(boots)
         /\ boots = <<>> => Head(boots') = t
         /\ boots' # <<>>
<1>1. boots \in Seq(Tasks)
  BY DEF LifeTypeOK
<1>2. /\ Len(boots') = Len(boots) + 1 /\ Len(boots) \in Nat
      /\ \A i \in 1..Len(boots) : boots'[i] = boots[i]
      /\ boots'[Len(boots) + 1] = t /\ boots' # <<>>
      /\ boots # <<>> => Head(boots') = Head(boots)
      /\ boots = <<>> => Head(boots') = t
  BY <1>1, Appends
<1>3. \A i \in Places' : \/ i \in Places /\ boots'[i] = boots[i]
                         \/ i = Len(boots) + 1 /\ boots'[i] = t
  BY <1>2 DEF Places
<1>4. \A i, j \in Places' : boots'[i] = boots'[j] => i = j
  BY <1>3 DEF Tasking
<1> QED BY <1>2, <1>3, <1>4 DEF Places

\* What a step does to the boot queue.
LEMMA TaskSteps ==
  ASSUME IInv, [NodeNext]_vars
  PROVE  \/ UNCHANGED <<boots, phase>> \/ Start \/ Die
         \/ \E c \in Calls : Write(c) /\ Rebuild(c)
         \/ boots # <<>> /\ boots' = Tail(boots) /\ (phase' = phase \/ DisposeCollector)
         \/ Dispose \/ QueueDispose
         \/ CloseUsage /\ UNCHANGED <<boots, saves, at>>
<1>0. LifeTypeOK /\ Stepping
  BY DEF IInv, NodeTypeOK
<1>1. ASSUME NEW id, Started(id), step \in {"identity", "mint", "fill"}
      PROVE  boots # <<>> /\ boots' = Tail(boots)
  BY <1>0, <1>1 DEF Started, Booted, TaskDone, Stepping, Identifying, Task
<1>2. CASE ReadIdentity \/ CreateIdentity \/ FillIdentity
  BY <1>1, <1>2 DEF ReadIdentity, CreateIdentity, FillIdentity
<1>3. CASE Seed \/ Reboot \/ DisposeCollector
  BY <1>3 DEF Seed, Reboot, DisposeCollector, Boot, Task, TaskDone
<1>4. ASSUME NEW c \in Calls, Write(c), ~Rebuild(c)
      PROVE  UNCHANGED <<boots, phase>>
  BY <1>4 DEF Write, Decide
<1>5. ASSUME NEW c \in Calls, Take(c) \/ Disconnected(c) \/ \E w \in Wishes[c] : Ask(c, w)
      PROVE  UNCHANGED <<boots, phase>>
  BY <1>5 DEF Take, Disconnected, Ask, booting
<1>6. CASE ReadFile \/ Withdraw \/ StopReturns \/ LlmAppears \/ UNCHANGED lifeVars
  BY <1>6 DEF ReadFile, Withdraw, StopReturns, LlmAppears, lifeVars, booting
<1>7. CASE CloseUsage
  BY <1>7 DEF CloseUsage, config, booting
<1>8. ASSUME NEW c \in Calls, Late(c)
      PROVE  UNCHANGED <<boots, phase>>
  BY <1>8, LateSame DEF booting
<1> QED BY <1>2, <1>3, <1>4, <1>5, <1>6, <1>7, <1>8, Steps

LEMMA RebuildingStep ==
  ASSUME IInv, [NodeNext]_vars
  PROVE  Rebuilding' => Rebuilding \/ \E c \in Calls : Write(c) /\ Rebuild(c)
<1>0. LifeTypeOK /\ Tasking
  BY DEF IInv, NodeTypeOK
<1>1. CASE boots' = boots
  BY <1>1 DEF Rebuilding, Places
<1>2. CASE boots # <<>> /\ boots' = Tail(boots)
  BY <1>0, <1>2, BootsTail
<1>3. CASE Start \/ Die
  BY <1>3 DEF Start, Apply, Die, Crash, Rebuilding, Places
<1>4. CASE Dispose \/ QueueDispose
  <2>1. (boots' = Append(boots, "dispose") \/ boots' = boots)
        /\ boots \in Seq(Tasks) /\ "dispose" \in Tasks
    BY <1>0, <1>4, DisposeSteps DEF LifeTypeOK, Tasks
  <2> QED BY <2>1, Appends DEF Rebuilding, Places
<1> QED BY <1>1, <1>2, <1>3, <1>4, TaskSteps

LEMMA TaskingStep ==
  ASSUME IInv, [NodeNext]_vars
  PROVE  Tasking'
<1>0. LifeTypeOK /\ Tasking /\ Queueing /\ Stepping /\ Housing
  BY DEF IInv, NodeTypeOK
<1>1. /\ \A i \in Places' : boots'[i] = "init" => i = 1 /\ phase' \in {"on", "disposing"}
      /\ \A i \in Places' : boots'[i] = "dispose" => phase' = "withdrawing"
      /\ \A i, j \in Places' : boots'[i] = boots'[j] => i = j
  <2>1. CASE UNCHANGED <<boots, phase>>
    BY <1>0, <2>1 DEF Tasking, Places
  <2>2. CASE Start
    BY <2>2 DEF Start, Apply, Places
  <2>3. CASE Die
    BY <2>3 DEF Die, Crash, Places
  <2>4. ASSUME NEW c \in Calls, Write(c), Rebuild(c)
        PROVE  /\ \A i \in Places' : boots'[i] = "init" => i = 1 /\ phase' \in {"on", "disposing"}
               /\ \A i \in Places' : boots'[i] = "dispose" => phase' = "withdrawing"
               /\ \A i, j \in Places' : boots'[i] = boots'[j] => i = j
    <3>1. boots' = Append(boots, "reboot") /\ phase' = phase /\ "reboot" \in Tasks
      BY <2>4 DEF Write, Rebuild, Tasks
    <3>2. \A i \in Places : boots[i] # "reboot"
      BY <1>0, <2>4 DEF Write, Tasking, Rebuilding
    <3> QED BY <1>0, <3>1, <3>2, BootsAppend DEF Tasking
  <2>5. CASE boots # <<>> /\ boots' = Tail(boots) /\ (phase' = phase \/ DisposeCollector)
    <3>1. DisposeCollector => Head(boots) = "dispose" /\ phase = "withdrawing"
      BY <1>0, HeadTask DEF DisposeCollector, Task, Tasking
    <3>2. \A i \in Places' : /\ boots'[i] # "init" /\ boots'[i] # Head(boots)
                             /\ i + 1 \in Places /\ boots'[i] = boots[i + 1]
      BY <1>0, <2>5, BootsTail
    <3>3. \A i \in Places' : boots'[i] = "dispose" => phase' = "withdrawing"
      BY <1>0, <2>5, <3>1, <3>2 DEF Tasking
    <3> QED BY <1>0, <2>5, <3>2, <3>3, BootsTail
  <2>6. CASE (Dispose \/ QueueDispose) /\ phase' = "withdrawing"
    <3>1. boots' = Append(boots, "dispose") /\ phase \in {"on", "disposing"} /\ ~Task("init")
          /\ "dispose" \in Tasks
      BY <2>6, DisposeSteps DEF Tasks
    <3>2. \A i \in Places : boots[i] # "dispose" /\ boots[i] # "init"
      <4> TAKE i \in Places
      <4>1. boots[i] # "dispose" /\ (boots[i] = "init" => i = 1)
        BY <1>0, <3>1 DEF Tasking
      <4>2. boots # <<>> /\ Head(boots) = boots[1]
        <5>1. boots \in Seq(Tasks) /\ Len(boots) # 0
          BY <1>0 DEF LifeTypeOK, Places
        <5> QED BY <5>1, Tails
      <4> QED BY <3>1, <4>1, <4>2 DEF Task
    <3> QED BY <1>0, <2>6, <3>1, <3>2, BootsAppend
  <2>7. CASE (Dispose \/ QueueDispose) /\ phase' # "withdrawing"
    <3>1. boots' = boots /\ phase = "on" /\ phase' = "disposing"
      BY <2>7, DisposeSteps
    <3> QED BY <1>0, <3>1 DEF Tasking, Places
  <2>8. CASE CloseUsage /\ UNCHANGED <<boots, saves, at>>
    BY <1>0, <2>8 DEF CloseUsage, Tasking, Places
  <2> QED BY <2>1, <2>2, <2>3, <2>4, <2>5, <2>6, <2>7, <2>8, TaskSteps
<1>2. Rebuilding' => Rebuilding \/ \E c \in Calls : Write(c) /\ Rebuild(c)
  BY RebuildingStep
<1>3. ASSUME Rebuilding', Rebuilding
      PROVE  saves' # <<>> /\ at'[Head(saves')] = "applying"
  <2>1. saves # <<>> /\ at[Head(saves)] = "applying" /\ Head(saves) \in Calls
        /\ saves \in Seq(Calls) /\ at \in [Calls -> InFlight \cup {"idle"}]
    BY <1>0, <1>3 DEF Tasking, LifeTypeOK
  <2>2. ASSUME NEW c \in Calls, NEW w \in Wishes[c], Ask(c, w)
        PROVE  saves' # <<>> /\ at'[Head(saves')] = "applying"
    <3>1. saves' # <<>> /\ Head(saves') = Head(saves)
      BY <2>1, <2>2, Appends DEF Ask
    <3> QED BY <2>1, <2>2, <3>1 DEF Ask
  <2>3. ASSUME NEW c \in Calls, Disconnected(c)
        PROVE  saves' # <<>> /\ at'[Head(saves')] = "applying"
    BY <2>1, <2>3 DEF Disconnected
  <2>4. ~Die /\ ~Start
    BY <1>3 DEF Die, Crash, Start, Apply, Rebuilding, Places
  <2>5. ~(Task("reboot") /\ TaskDone)
    BY <1>0, <1>3, HeadTask, BootsTail DEF TaskDone, Task
  <2>6. ASSUME NEW c \in Calls, Late(c)
        PROVE  saves' # <<>> /\ at'[Head(saves')] = "applying"
    BY <2>1, <2>6, LateElsewhere DEF IInv, NodeTypeOK
  <2> QED BY <2>1, <2>2, <2>3, <2>4, <2>5, <2>6, SaveSteps DEF Take, Write
<1>4. ASSUME NEW c \in Calls, Write(c), Rebuild(c)
      PROVE  saves' # <<>> /\ at'[Head(saves')] = "applying"
  BY <1>0, <1>4 DEF Write, Rebuild, LifeTypeOK
<1> QED BY <1>1, <1>2, <1>3, <1>4 DEF Tasking

-----------------------------------------------------------------------------
(***************************************************************************)
(* The hosts.                                                              *)
(***************************************************************************)

\* The first task stays the first when another is put behind it.
LEMMA SameTask ==
  ASSUME LifeTypeOK, NEW t \in Tasks, boots' = Append(boots, t)
  PROVE  /\ boots' # <<>>
         /\ \A u : Task(u)' <=> (Task(u) \/ (boots = <<>> /\ u = t))
<1>1. boots \in Seq(Tasks)
  BY DEF LifeTypeOK
<1> QED BY <1>1, Appends DEF Task

\* The three ends of start().
LEMMA StartSteps ==
  ASSUME ReadIdentity \/ CreateIdentity \/ FillIdentity
  PROVE  /\ Identifying
         /\ UNCHANGED <<file, phase, wanted, astray, stored, read, cur, old, mounted, usage, late>>
         /\ \/ step' \in {"mint", "fill"} /\ UNCHANGED <<config, boots, hosts, told>>
            \/ \E id : Started(id)
<1>1. ASSUME NEW id, Started(id)
      PROVE  UNCHANGED <<stored, read, cur, old, mounted>>
  BY <1>1 DEF Started
<1>2. CASE ReadIdentity
  BY <1>1, <1>2 DEF ReadIdentity, Identifying, config, hosts
<1>3. CASE CreateIdentity
  BY <1>1, <1>3 DEF CreateIdentity, Identifying, config, hosts
<1>4. CASE FillIdentity
  BY <1>1, <1>4 DEF FillIdentity, Identifying
<1> QED BY <1>2, <1>3, <1>4

LEMMA SteppingStep ==
  ASSUME IInv, [NodeNext]_vars
  PROVE  Stepping'
<1>0. LifeTypeOK /\ LifeTypeOK' /\ Tasking /\ Stepping /\ Housing /\ NoHost \notin Slots
  BY TypeStep, LifeAssumption DEF IInv, NodeTypeOK
<1>1. ASSUME UNCHANGED <<boots, step, cur, old>>
      PROVE  Stepping'
  BY <1>0, <1>1 DEF Stepping, Task, Identifying
<1>2. CASE Start
  BY <1>0, <1>2 DEF Start, Apply, Stepping, Housing, Task, Identifying, hosts
<1>3. CASE Die
  BY <1>3 DEF Die, Crash, Stepping, Task, Identifying
<1>4. ASSUME NEW c \in Calls, Write(c), Rebuild(c)
      PROVE  Stepping'
  <2>1. boots' = Append(boots, "reboot") /\ "reboot" \in Tasks /\ UNCHANGED <<step, cur, old>>
    BY <1>4 DEF Write, Rebuild, Tasks
  <2> QED BY <1>0, <2>1, SameTask DEF Stepping, Identifying
<1>5. ASSUME NEW c \in Calls, Write(c), ~Rebuild(c)
      PROVE  UNCHANGED <<boots, step, cur, old>>
  BY <1>5 DEF Write, Decide
<1>6. ASSUME NEW c \in Calls, Take(c) \/ Disconnected(c) \/ \E w \in Wishes[c] : Ask(c, w)
      PROVE  UNCHANGED <<boots, step, cur, old>>
  BY <1>6 DEF Take, Disconnected, Ask, booting, hosts
<1>7. CASE ReadFile
  BY <1>0, <1>7 DEF ReadFile, Stepping, Task, Identifying, hosts
<1>8. ASSUME boots # <<>>, boots' = Tail(boots), step' = "next", UNCHANGED old, step # "closing"
      PROVE  Stepping'
  <2>1. ~Task("init")'
    BY <1>0, <1>8, BootsTail
  <2> QED BY <1>0, <1>8, <2>1 DEF Stepping, Identifying
<1>9. ASSUME NEW doc \in Documents, Boot(doc), Task("init") \/ Task("reboot"), step # "closing"
      PROVE  Stepping'
  <2>1. boots' = boots /\ step' = "identity" /\ cur' \in Slots /\ old' = old
    BY <1>0, <1>9, BootType
  <2> QED BY <1>0, <1>9, <2>1 DEF Stepping, Identifying, Task
<1>10. CASE Seed
  BY <1>0, <1>8, <1>9, <1>10 DEF Seed, Task, TaskDone, LifeTypeOK, hosts
<1>11. CASE Reboot
  <2>1. draft \in Documents
    BY <1>0 DEF LifeTypeOK
  <2> QED BY <1>8, <1>9, <1>11, <2>1 DEF Reboot, Task, TaskDone, hosts
<1>12. CASE ReadIdentity \/ CreateIdentity \/ FillIdentity
  <2>1. ASSUME NEW id, Started(id)
        PROVE  Stepping'
    <3>1. boots # <<>> /\ boots' = Tail(boots) /\ step' = "next"
      BY <1>0, <1>12, <2>1, StartSteps DEF Started, Booted, TaskDone, Stepping, Task
    <3> QED BY <1>8, <1>12, <3>1, StartSteps DEF Identifying
  <2>2. CASE step' \in {"mint", "fill"} /\ UNCHANGED <<config, boots, hosts, told>>
    BY <1>0, <1>12, <2>2, StartSteps DEF Stepping, Task, Identifying, hosts
  <2> QED BY <1>12, <2>1, <2>2, StartSteps
<1>13. CASE Withdraw
  BY <1>0, <1>13 DEF Withdraw, Replacing, Stepping, Task, Identifying
<1>14. CASE StopReturns
  BY <1>0, <1>14 DEF StopReturns, Stepping, Task, Identifying
<1>15. CASE DisposeCollector
  BY <1>8, <1>15 DEF DisposeCollector, Task, TaskDone, hosts
<1>16. CASE Dispose \/ QueueDispose
  <2>1. UNCHANGED <<step, cur, old>> /\ "dispose" \in Tasks
        /\ (boots' = boots \/ boots' = Append(boots, "dispose"))
    BY <1>16, DisposeSteps DEF Tasks, hosts
  <2>2. CASE boots' = Append(boots, "dispose")
    BY <1>0, <2>1, <2>2, SameTask DEF Stepping, Identifying
  <2> QED BY <1>1, <2>1, <2>2
<1>17. CASE CloseUsage \/ LlmAppears \/ UNCHANGED lifeVars
  BY <1>1, <1>17 DEF CloseUsage, LlmAppears, lifeVars, booting, hosts
<1>18. ASSUME NEW c \in Calls, Late(c)
       PROVE  UNCHANGED <<boots, step, cur, old>>
  BY <1>18, LateSame DEF booting, hosts
<1> QED BY <1>1, <1>2, <1>3, <1>4, <1>5, <1>6, <1>7, <1>10, <1>11, <1>12, <1>13, <1>14, <1>15,
           <1>16, <1>17, <1>18, Steps

\* A host is not what a stopped one leaves.
LEMMA HostIsNotGone ==
  /\ \A r \in Hosts : r # Gone /\ r.link \in {"none", "idle", "up"}
<1>1. \A r \in Hosts : r.link \in {"none", "idle", "up"}
  BY DEF Hosts
<1>2. Gone.link = "gone"
  BY DEF Gone
<1> QED BY <1>1, <1>2

\* start() ends on a host that lives.
LEMMA StartedLive ==
  ASSUME LifeTypeOK, cur \in Slots, Live(cur), NEW id, Started(id), cur' = cur
  PROVE  Live(cur)'
<1>1. host'[cur].link \in {"none", "up", "idle"}
  <2>1. host[cur] \in Hosts
    BY DEF LifeTypeOK, Live
  <2>2. host'[cur] = [host[cur] EXCEPT !.id = id, !.link =
          IF id = Absent \/ host[cur].conf.status # "ok" THEN "none"
          ELSE IF host[cur].intent = "active" THEN "up" ELSE "idle"]
    BY DEF LifeTypeOK, Started
  <2> QED BY <2>1, <2>2 DEF Hosts
<1> QED BY <1>1 DEF Live, Gone

\* A change of the current host leaves them there.
LEMMA HousedSame ==
  ASSUME LifeTypeOK, Housed, Stepping, cur \in Slots, NEW r \in Hosts,
         host' = [host EXCEPT ![cur] = r], UNCHANGED <<cur, old, mounted>>
  PROVE  Housed'
<1>1. NoHost \notin Slots
  BY LifeAssumption
<1>2. \A h \in Slots : Live(h)' <=> Live(h)
  <2>1. Live(cur) /\ r # Gone
    BY <1>1, HostIsNotGone DEF Housed
  <2> QED BY <2>1 DEF LifeTypeOK, Live
<1>3. old = NoHost
  BY <1>1 DEF Stepping, LifeTypeOK
<1>4. (mounted = {h \in Slots : Live(h)})'
  BY <1>2 DEF Housed
<1> QED BY <1>1, <1>2, <1>3, <1>4 DEF Housed

LEMMA HousedStep ==
  ASSUME IInv, [NodeNext]_vars
  PROVE  Housed'
<1>0. LifeTypeOK /\ LifeTypeOK' /\ Tasking /\ Stepping /\ Housing /\ Housed /\ NoHost \notin Slots
  BY TypeStep, LifeAssumption DEF IInv, NodeTypeOK, Housing, Housed
<1>1. ASSUME UNCHANGED <<host, mounted, cur, old>>
      PROVE  Housed'
  BY <1>0, <1>1 DEF Housed, Live
<1>2. CASE Start \/ ReadFile \/ DisposeCollector \/ QueueDispose \/ CloseUsage \/ Dispose
           \/ LlmAppears \/ UNCHANGED lifeVars
  BY <1>1, <1>2, DisposeSteps DEF Start, Apply, ReadFile, DisposeCollector, CloseUsage, LlmAppears, lifeVars, hosts
<1>3. CASE Die
  BY <1>3 DEF Die, Crash, Housed, Live
<1>4. ASSUME NEW c \in Calls,
             Take(c) \/ Disconnected(c) \/ Late(c) \/ \E w \in Wishes[c] : Ask(c, w)
      PROVE  Housed'
  BY <1>1, <1>4, LateSame DEF Take, Disconnected, Ask, hosts
<1>5. ASSUME NEW i \in Intents, TellHost(i), UNCHANGED <<mounted, cur, old>>
      PROVE  Housed'
  <2>1. CASE cur = NoHost
    BY <1>1, <1>5, <2>1 DEF TellHost
  <2>2. CASE cur # NoHost
    <3>1. cur \in Slots /\ host'[cur] \in Hosts
      <4>1. cur \in Slots /\ host[cur] \in Hosts
        BY <1>0, <2>2 DEF Housed, Live, LifeTypeOK
      <4>2. host' = [host EXCEPT ![cur] = [host[cur] EXCEPT !.intent = i, !.link =
              IF host[cur].link = "none" THEN "none" ELSE IF i = "active" THEN "up" ELSE "idle"]]
        BY <1>5, <2>2 DEF TellHost
      <4> QED BY <1>0, <4>1, <4>2 DEF LifeTypeOK, Hosts
    <3>2. host' = [host EXCEPT ![cur] = host'[cur]]
      BY <1>0, <1>5, <2>2, <3>1 DEF TellHost, LifeTypeOK
    <3> QED BY <1>0, <1>5, <3>1, <3>2, HousedSame
  <2> QED BY <2>1, <2>2
<1>6. ASSUME NEW c \in Calls, Write(c)
      PROVE  Housed'
  BY <1>1, <1>5, <1>6 DEF Write, Rebuild, Decide
<1>7. ASSUME NEW doc \in Documents, Boot(doc), cur = NoHost, step # "closing"
      PROVE  Housed'
  <2>1. old = NoHost /\ \A h \in Slots : ~Live(h)
    BY <1>0, <1>7 DEF Stepping, Housed
  <2> DEFINE r == [conf |-> Resolved(doc), intent |-> First(doc.intent, "active"),
                   id |-> Absent, link |-> "none"]
  <2>2. /\ cur' \in Slots /\ host' = [host EXCEPT ![cur'] = r]
        /\ mounted' = mounted \cup {cur'} /\ old' = old
    BY <1>0, <1>7, BootType
  <2>3. r \in Hosts
    BY ResolvedType, IntentType DEF Hosts
  <2>4. \A h \in Slots : Live(h)' <=> h = cur'
    BY <1>0, <2>1, <2>2, <2>3, HostIsNotGone DEF Live, LifeTypeOK
  <2>5. mounted' = {cur'}
    BY <1>0, <2>1, <2>2 DEF Housed
  <2> QED BY <1>0, <2>1, <2>2, <2>4, <2>5 DEF Housed
<1>8. CASE Seed
  BY <1>0, <1>1, <1>7, <1>8 DEF Seed, Stepping, LifeTypeOK, hosts
<1>9. CASE Reboot
  <2>1. draft \in Documents
    BY <1>0 DEF LifeTypeOK
  <2> QED BY <1>0, <1>1, <1>7, <1>9, <2>1 DEF Reboot, Stepping, hosts
<1>10. CASE ReadIdentity \/ CreateIdentity \/ FillIdentity
  <2>1. ASSUME NEW id, Started(id)
        PROVE  Housed'
    <3>1. cur \in Slots /\ host'[cur] \in Hosts /\ UNCHANGED <<cur, old, mounted>>
      <4>1. cur \in Slots /\ UNCHANGED <<cur, old, mounted>>
        BY <1>0, <1>10, StartSteps DEF Stepping, LifeTypeOK
      <4>2. Live(cur)'
        BY <1>0, <2>1, <4>1, StartedLive DEF Housed
      <4> QED BY <1>0, <4>1, <4>2 DEF LifeTypeOK, Live
    <3>2. host' = [host EXCEPT ![cur] = host'[cur]]
      BY <1>0, <2>1, <3>1 DEF Started, LifeTypeOK
    <3> QED BY <1>0, <3>1, <3>2, HousedSame
  <2>2. CASE UNCHANGED hosts
    BY <1>1, <2>2 DEF hosts
  <2> QED BY <1>10, <2>1, <2>2, StartSteps
<1>11. CASE Withdraw
  <2>1. old = NoHost
    BY <1>0, <1>11 DEF Stepping, Withdraw, Replacing
  <2>2. cur' = NoHost /\ old' = cur /\ mounted' = mounted
    BY <1>11 DEF Withdraw
  <2>3. CASE cur = NoHost
    BY <1>0, <1>11, <2>1, <2>2, <2>3 DEF Withdraw, Housed, Live
  <2>4. CASE cur # NoHost
    <3>1. cur \in Slots /\ host'[cur] \in Hosts /\ host'[cur].link # "up"
          /\ \A h \in Slots : h # cur => host'[h] = host[h]
      BY <1>0, <1>11, <2>4, WithdrawType DEF LifeTypeOK
    <3>2. \A h \in Slots : Live(h)' <=> Live(h)
      BY <1>0, <2>4, <3>1, HostIsNotGone DEF Housed, Live
    <3>3. (mounted = {h \in Slots : Live(h)})'
      BY <1>0, <2>2, <3>2 DEF Housed
    <3> QED BY <1>0, <2>1, <2>2, <2>4, <3>1, <3>2, <3>3 DEF Housed
  <2> QED BY <2>3, <2>4
<1>12. CASE StopReturns
  <2>1. cur = NoHost /\ old \in Slots
    BY <1>0, <1>12 DEF Stepping, StopReturns, LifeTypeOK
  <2>2. host' = [host EXCEPT ![old] = Gone] /\ mounted' = mounted \ {old}
        /\ old' = NoHost /\ cur' = NoHost
    BY <1>12, <2>1 DEF StopReturns, Stopped
  <2>3. \A h \in Slots : ~Live(h)'
    BY <1>0, <2>1, <2>2 DEF Housed, Live, LifeTypeOK
  <2>4. mounted' = {}
    BY <1>0, <2>1, <2>2 DEF Housed
  <2> QED BY <1>0, <2>2, <2>3, <2>4 DEF Housed
<1> QED BY <1>2, <1>3, <1>4, <1>6, <1>8, <1>9, <1>10, <1>11, <1>12, Steps

\* When the plugin may have a host, and the usage queue its observer.
LEMMA HousingStep ==
  ASSUME IInv, [NodeNext]_vars
  PROVE  Housing'
<1>0. LifeTypeOK /\ Tasking /\ Stepping /\ Housing
  BY DEF IInv, NodeTypeOK
<1> DEFINE Phased == cur # NoHost \/ old # NoHost => phase \in {"on", "disposing", "withdrawing"}
           Metered == /\ collector => queue = "open"
                      /\ phase \in {"closing", "off"} => ~collector
                      /\ phase = "off" => queue = "none"
<1> SUFFICES Phased' /\ Metered'
  BY HousedStep DEF Housing
<1>1. Phased /\ Metered
  BY <1>0 DEF Housing
<1>2. CASE UNCHANGED <<phase, cur, old, usage>>
  BY <1>1, <1>2 DEF usage
<1>3. CASE Start
  BY <1>1, <1>3 DEF Start, Apply, usage, hosts
<1>4. CASE Die
  BY <1>4 DEF Die, Crash
<1>5. ASSUME NEW doc \in Documents, Boot(doc), phase = "on", phase' = "on"
      PROVE  Phased' /\ Metered'
  <2>1. EnsureUsage
    BY <1>5 DEF Boot
  <2>2. queue' = "open" \/ UNCHANGED <<queue, collector>>
    BY <2>1 DEF EnsureUsage
  <2>3. collector' => queue' = "open"
    BY <1>1, <2>2
  <2> QED BY <1>5, <2>3
<1>6. CASE Seed
  BY <1>0, <1>1, <1>5, <1>6 DEF Seed, MayBoot, LifeTypeOK, hosts, usage
<1>7. CASE Reboot
  BY <1>0, <1>1, <1>5, <1>7 DEF Reboot, MayBoot, LifeTypeOK, hosts, usage
<1>8. CASE Withdraw
  BY <1>1, <1>8 DEF Withdraw, usage
<1>9. CASE StopReturns
  BY <1>1, <1>9 DEF StopReturns, usage
<1>10. CASE DisposeCollector
  BY <1>0, <1>1, <1>10 DEF DisposeCollector, Stepping, hosts
<1>11. CASE Dispose \/ QueueDispose
  BY <1>1, <1>11, DisposeSteps DEF hosts, usage
<1>12. CASE CloseUsage
  BY <1>1, <1>12 DEF CloseUsage, hosts
<1>13. CASE LlmAppears
  BY <1>1, <1>13 DEF LlmAppears, hosts
<1>14. CASE ReadFile \/ UNCHANGED lifeVars
  BY <1>2, <1>14 DEF ReadFile, lifeVars, hosts, usage
<1>15. ASSUME NEW c \in Calls, \/ Take(c) \/ Disconnected(c) \/ Write(c) \/ Late(c)
                               \/ \E w \in Wishes[c] : Ask(c, w)
       PROVE  UNCHANGED <<phase, cur, old, usage>>
  BY <1>15, LateSame DEF Take, Disconnected, Write, Ask, hosts
<1>16. CASE ReadIdentity \/ CreateIdentity \/ FillIdentity
  BY <1>2, <1>16, StartSteps
<1> QED
  BY <1>2, <1>3, <1>4, <1>6, <1>7, <1>8, <1>9, <1>10, <1>11, <1>12, <1>13, <1>14, <1>15, <1>16, Steps

-----------------------------------------------------------------------------
(***************************************************************************)
(* The identity, and the questions.                                        *)
(***************************************************************************)
LEMMA NamingStep ==
  ASSUME IInv, [NodeNext]_vars
  PROVE  Naming'
<1>0. LifeTypeOK /\ Naming
  BY DEF IInv, NodeTypeOK
<1>1. ASSUME UNCHANGED <<ident, told>>, step' = step \/ step' \notin {"mint", "fill"}
      PROVE  Naming'
  BY <1>0, <1>1 DEF Naming, SameIdentity
<1>2. ASSUME NEW id, Started(id)
      PROVE  step' = "next" /\ told' = told \cup ({id} \ {Absent})
  BY <1>2 DEF Started, Booted, TaskDone
<1>3. CASE ReadIdentity
  <2>1. CASE ident \in NodeIds /\ Started(ident) /\ UNCHANGED ident
    BY <1>0, <1>2, <2>1 DEF Naming, SameIdentity
  <2>2. CASE Started(Absent) /\ UNCHANGED ident
    BY <1>0, <1>2, <2>2 DEF Naming, SameIdentity
  <2>3. CASE ident \notin NodeIds /\ UNCHANGED told
    <3>1. told = {}
      BY <1>0, <2>3 DEF Naming, SameIdentity, LifeTypeOK
    <3> QED BY <2>3, <3>1 DEF Naming, SameIdentity
  <2> QED BY <1>3, <2>1, <2>2, <2>3 DEF ReadIdentity
<1>4. CASE CreateIdentity
  <2>1. told = {}
    BY <1>0, <1>4 DEF Naming, CreateIdentity
  <2>2. told' = {}
    BY <1>2, <1>4, <2>1 DEF CreateIdentity
  <2> QED BY <2>2 DEF Naming, SameIdentity
<1>5. CASE FillIdentity
  <2>1. told = {}
    BY <1>0, <1>5 DEF Naming, FillIdentity
  <2>2. \/ ident' = NewId /\ Started(NewId)
        \/ Started(Absent)
    BY <1>5 DEF FillIdentity, Minted
  <2> QED BY <1>2, <2>1, <2>2 DEF Naming, SameIdentity
<1>6. CASE Start \/ Die \/ ReadFile \/ Seed \/ Withdraw \/ StopReturns \/ Reboot \/ DisposeCollector
           \/ QueueDispose \/ CloseUsage \/ Dispose \/ LlmAppears \/ UNCHANGED lifeVars
  BY <1>1, <1>6 DEF Start, Apply, Die, Crash, ReadFile, Seed, Withdraw, StopReturns, Reboot,
     DisposeCollector, QueueDispose, CloseUsage, Dispose, LlmAppears, lifeVars, Boot, TaskDone,
     config, booting
<1>7. ASSUME NEW c \in Calls, \/ Take(c) \/ Disconnected(c) \/ Write(c) \/ Late(c)
                              \/ \E w \in Wishes[c] : Ask(c, w)
      PROVE  Naming'
  BY <1>1, <1>7, LateSame DEF Take, Disconnected, Write, Ask, booting
<1> QED BY <1>3, <1>4, <1>5, <1>6, <1>7, Steps

LEMMA StrayStep ==
  ASSUME IInv, [NodeNext]_vars
  PROVE  NoStrayQuestion'
<1>0. AskTypeOK /\ NoStrayQuestion
  BY DEF IInv, NodeTypeOK
<1>1. CASE UNCHANGED askVars
  BY <1>0, <1>1 DEF NoStrayQuestion, askVars
<1>2. CASE NewBridge
  BY <1>0, <1>2 DEF NoStrayQuestion, NewBridge, AskTypeOK
<1>3. CASE LoseBridge \/ DisposeBridge
  BY <1>0, <1>3 DEF NoStrayQuestion, LoseBridge, DisposeBridge, AskTypeOK
<1>4. ASSUME NEW q \in Questions, UNCHANGED disposed,
             \/ Settle(q)
             \/ Bridge(q) /\ asked[q] # "remote"
             \/ /\ asked[q] # "remote" /\ UNCHANGED pending
                /\ \E a \in {"idle", "local", "given up"} : asked' = [asked EXCEPT ![q] = a]
      PROVE  NoStrayQuestion'
  BY <1>0, <1>4 DEF NoStrayQuestion, AskTypeOK, Bridge, Settle, Refused
<1>5. ASSUME NEW q \in Questions, Request(q) \/ LocalSettles(q) \/ NoProvider(q) \/ GiveUp(q) \/ Reply(q)
      PROVE  NoStrayQuestion'
  <2>1. CASE Request(q)
    BY <1>4, <2>1 DEF Request
  <2>2. CASE LocalSettles(q)
    BY <1>4, <2>2 DEF LocalSettles
  <2>3. CASE NoProvider(q)
    BY <1>4, <2>3 DEF NoProvider
  <2>4. CASE GiveUp(q)
    BY <1>4, <2>4 DEF GiveUp
  <2>5. CASE Reply(q)
    BY <1>4, <2>5 DEF Reply
  <2> QED BY <1>5, <2>1, <2>2, <2>3, <2>4, <2>5
<1>6. ASSUME NEW s \in Sessions, Look(s) \/ Lapse(s)
      PROVE  NoStrayQuestion'
  BY <1>0, <1>6 DEF NoStrayQuestion, Look, Lapse
<1> QED BY <1>1, <1>2, <1>3, <1>5, <1>6 DEF NodeNext, Start, Die, Life, Unload, Questioned, Local, Remote, vars

-----------------------------------------------------------------------------
(***************************************************************************)
(* What was saved and what runs.                                           *)
(***************************************************************************)

\* Which steps move what the parts of Following speak of.
LEMMA AstrayStep ==
  ASSUME [NodeNext]_vars, ~astray'
  PROVE  ~astray \/ Start \/ Die
<1>1. CASE ReadIdentity \/ CreateIdentity \/ FillIdentity
  BY <1>1, StartSteps
<1>2. ASSUME NEW c \in Calls, \/ Take(c) \/ Disconnected(c) \/ Write(c) \/ Late(c)
                              \/ \E w \in Wishes[c] : Ask(c, w)
      PROVE  ~astray
  BY <1>2, LateSame DEF Take, Disconnected, Write, Ask
<1>3. CASE ReadFile \/ Seed \/ Withdraw \/ StopReturns \/ Reboot \/ DisposeCollector
           \/ QueueDispose \/ CloseUsage \/ Dispose \/ LlmAppears \/ UNCHANGED lifeVars
  BY <1>3 DEF ReadFile, Seed, Withdraw, StopReturns, Reboot, DisposeCollector,
     QueueDispose, CloseUsage, Dispose, LlmAppears, lifeVars
<1> QED BY <1>1, <1>2, <1>3, Steps

LEMMA OvertakenStep ==
  ASSUME [NodeNext]_vars, ~overtaken'
  PROVE  ~overtaken \/ Start \/ Die
<1>1. ASSUME NEW c \in Calls, Late(c)
      PROVE  ~overtaken
  BY <1>1 DEF Late, LateTake, LateWrite, LateApplied
<1> QED BY <1>1, PriorSteps DEF late

LEMMA FileStep ==
  ASSUME [NodeNext]_vars
  PROVE  \/ UNCHANGED <<file, stored, wanted>>
         \/ Start \/ Die \/ Seed \/ \E c \in Calls : Write(c) \/ (LateWrite(c) /\ stored' = stored)
<1>1. CASE ReadIdentity \/ CreateIdentity \/ FillIdentity
  BY <1>1, StartSteps
<1>2. ASSUME NEW c \in Calls, Take(c) \/ Disconnected(c) \/ \E w \in Wishes[c] : Ask(c, w)
      PROVE  UNCHANGED <<file, stored, wanted>>
  BY <1>2 DEF Take, Disconnected, Ask
<1>3. CASE ReadFile \/ Withdraw \/ StopReturns \/ Reboot \/ DisposeCollector
           \/ QueueDispose \/ CloseUsage \/ Dispose \/ LlmAppears \/ UNCHANGED lifeVars
  BY <1>3 DEF ReadFile, Withdraw, StopReturns, Reboot, DisposeCollector,
     QueueDispose, CloseUsage, Dispose, LlmAppears, lifeVars, config
<1>4. ASSUME NEW c \in Calls, Late(c)
      PROVE  UNCHANGED <<file, stored, wanted>> \/ (LateWrite(c) /\ stored' = stored)
  BY <1>4, LateSame
<1> QED BY <1>1, <1>2, <1>3, <1>4, Steps

LEMMA UnseededStep ==
  ASSUME IInv, [NodeNext]_vars
  PROVE  /\ Start => Unseeded' /\ step' = "read"
         /\ Unseeded' => Start \/ Unseeded
         /\ Unseeded => Unseeded' \/ Seed \/ Die
         /\ Unseeded' /\ step' = "seed" => ReadFile \/ (step = "seed" /\ read' = read)
         /\ Unread' => Start \/ Unread
<1>0. LifeTypeOK /\ Tasking /\ Stepping
  BY DEF IInv, NodeTypeOK
<1>1. ASSUME UNCHANGED <<boots, step, read>>
      PROVE  /\ Unseeded' <=> Unseeded
             /\ Unseeded' /\ step' = "seed" => step = "seed" /\ read' = read
             /\ Unread' => Unread
  BY <1>1 DEF Unseeded, Unread, Task
<1>2. ASSUME NEW c \in Calls, Take(c) \/ Disconnected(c) \/ (Write(c) /\ ~Rebuild(c)) \/ Late(c)
                              \/ \E w \in Wishes[c] : Ask(c, w)
      PROVE  UNCHANGED <<boots, step, read>>
  BY <1>2, LateSame DEF Take, Disconnected, Ask, Write, Decide, booting
<1>3. ASSUME NEW t \in Tasks \ {"init"}, boots' = Append(boots, t), UNCHANGED <<step, read>>
      PROVE  /\ Unseeded' <=> Unseeded
             /\ Unseeded' /\ step' = "seed" => step = "seed" /\ read' = read
             /\ Unread' => Unread
  BY <1>0, <1>3, SameTask DEF Unseeded, Unread
<1>4. ASSUME NEW c \in Calls, Write(c), Rebuild(c)
      PROVE  boots' = Append(boots, "reboot") /\ UNCHANGED <<step, read>>
  BY <1>4 DEF Write, Rebuild
<1>5. Dispose \/ QueueDispose => /\ boots' = Append(boots, "dispose") \/ boots' = boots
                                /\ UNCHANGED <<step, read>>
  BY DisposeSteps
<1>6. CloseUsage \/ LlmAppears \/ UNCHANGED lifeVars => UNCHANGED <<boots, step, read>>
  BY DEF CloseUsage, LlmAppears, lifeVars, booting
<1>7. ReadIdentity \/ CreateIdentity \/ FillIdentity \/ Withdraw \/ StopReturns \/ Reboot
        \/ DisposeCollector \/ Seed \/ Die => step' \notin {"read", "seed"}
  <2>1. ASSUME NEW id, Started(id)
        PROVE  step' \notin {"read", "seed"}
    BY <2>1 DEF Started, Booted, TaskDone
  <2>2. ReadIdentity \/ CreateIdentity \/ FillIdentity => step' \notin {"read", "seed"}
    BY <2>1, StartSteps
  <2> QED BY <2>2 DEF Withdraw, StopReturns, Reboot, DisposeCollector, Seed, Die, Crash, Boot, TaskDone
<1>8. ReadIdentity \/ CreateIdentity \/ FillIdentity \/ Withdraw \/ StopReturns \/ Reboot
        \/ DisposeCollector => step \notin {"read", "seed"}
  BY <1>0, StartSteps DEF Identifying, Withdraw, Replacing, StopReturns, Reboot, DisposeCollector
<1>9. ReadFile => Unseeded /\ Unseeded' /\ ~Unread'
  BY DEF ReadFile, Unseeded, Unread, Task
<1>10. Start => Unseeded' /\ step' = "read"
  BY DEF Start, Apply, Unseeded, Task
<1>11. "reboot" \in Tasks \ {"init"} /\ "dispose" \in Tasks \ {"init"}
  BY DEF Tasks
<1> QED BY <1>1, <1>2, <1>3, <1>4, <1>5, <1>6, <1>7, <1>8, <1>9, <1>10, <1>11, Steps DEF Unseeded, Unread

\* A call that is about to write has just been taken, or nothing of it changes.
LEMMA DraftingStep ==
  ASSUME IInv, [NodeNext]_vars, Drafting'
  PROVE  /\ saves # <<>> /\ Head(saves') = Head(saves) /\ Head(saves) \in Calls
         /\ want'[Head(saves)] = want[Head(saves)]
         /\ \/ Drafting /\ draft' = draft /\ \A c \in Calls : ~Write(c)
            \/ Take(Head(saves)) /\ draft' = Proposed(stored, want[Head(saves)])
<1>0. /\ LifeTypeOK /\ Queueing /\ saves \in Seq(Calls) /\ at \in [Calls -> InFlight \cup {"idle"}]
      /\ want \in [Calls -> Submissions \cup Decisions \cup {NoWish}]
  BY DEF IInv, NodeTypeOK, LifeTypeOK
<1>1. saves' # <<>> /\ at'[Head(saves')] = "writing"
  BY DEF Drafting
<1>2. \A s \in {"idle", "closing"} : ~Ends(s)
  <2> SUFFICES ASSUME NEW s \in {"idle", "closing"}, Ends(s) PROVE FALSE
    OBVIOUS
  <2>1. s \notin Held
    BY DEF Held
  <2>2. at'[Head(saves')] = "queued"
    BY <1>0, <1>1, <2>1, QueueingTail DEF Ends, late
  <2> QED BY <1>1, <2>2
<1>3. \A c \in Calls : ~Write(c)
  <2> SUFFICES ASSUME NEW c \in Calls, Write(c), Rebuild(c) PROVE FALSE
    BY <1>0, <1>2, WriteEnds
  <2>1. saves' = saves /\ c = Head(saves) /\ at' = [at EXCEPT ![c] = "applying"]
    BY DEF Write, Rebuild
  <2> QED BY <1>0, <1>1, <2>1
<1>4. CASE UNCHANGED <<saves, at, want, draft>>
  BY <1>0, <1>1, <1>3, <1>4 DEF Drafting
<1>5. ~Die /\ ~Start
  BY <1>1 DEF Die, Crash, Start, Apply
<1>6. ASSUME NEW c \in Calls, NEW w \in Wishes[c], Ask(c, w)
      PROVE  /\ saves # <<>> /\ Head(saves') = Head(saves) /\ Head(saves) \in Calls
             /\ want'[Head(saves)] = want[Head(saves)]
             /\ Drafting /\ draft' = draft
  <2>1. saves' = Append(saves, c) /\ at' = [at EXCEPT ![c] = "queued"]
        /\ want' = [want EXCEPT ![c] = w] /\ draft' = draft
    BY <1>6 DEF Ask
  <2>2. saves # <<>>
    BY <1>0, <1>1, <2>1, Appends
  <2>3. Head(saves') = Head(saves) /\ Head(saves) \in Calls
    BY <1>0, <2>1, <2>2, Appends
  <2>4. Head(saves) # c
    BY <1>0, <1>1, <2>1, <2>3
  <2> QED BY <1>0, <1>1, <2>1, <2>2, <2>3, <2>4 DEF Drafting
<1>7. ASSUME NEW c \in Calls, Disconnected(c)
      PROVE  /\ saves # <<>> /\ Head(saves') = Head(saves) /\ Head(saves) \in Calls
             /\ want'[Head(saves)] = want[Head(saves)]
             /\ Drafting /\ draft' = draft
  <2>1. saves' = saves /\ at' = [at EXCEPT ![c] = "idle"]
        /\ want' = [want EXCEPT ![c] = NoWish] /\ draft' = draft
    BY <1>7 DEF Disconnected
  <2>2. Head(saves) # c /\ Head(saves) \in Calls
    BY <1>0, <1>1, <2>1
  <2> QED BY <1>0, <1>1, <2>1, <2>2 DEF Drafting
<1>8. ASSUME NEW c \in Calls, Take(c), draft' = Proposed(stored, want[c]), UNCHANGED <<saves, want>>
      PROVE  /\ saves # <<>> /\ Head(saves') = Head(saves) /\ Head(saves) \in Calls
             /\ want'[Head(saves)] = want[Head(saves)]
             /\ Take(Head(saves)) /\ draft' = Proposed(stored, want[Head(saves)])
  <2>1. c = Head(saves)
    BY <1>8 DEF Take
  <2> QED BY <1>1, <1>8, <2>1
<1>9. ASSUME NEW c \in Calls, Late(c)
      PROVE  /\ saves # <<>> /\ Head(saves') = Head(saves) /\ Head(saves) \in Calls
             /\ want'[Head(saves)] = want[Head(saves)]
             /\ Drafting /\ draft' = draft
  <2>1. saves # <<>>
    BY <1>1, <1>9, LateSame
  <2> QED BY <1>0, <1>1, <1>9, <2>1, LateElsewhere DEF Drafting
<1> QED BY <1>2, <1>3, <1>4, <1>5, <1>6, <1>7, <1>8, <1>9, SaveSteps

\* A call that is about to write, in a run that is not astray, has read the file.
LEMMA DraftingSynced ==
  ASSUME IInv, Drafting, ~astray
  PROVE  ~Unseeded /\ (~overtaken => stored = file)
<1>1. Begun
  BY DEF Drafting, Begun
<1> QED BY <1>1 DEF IInv, Following, Reading, Synced, Loaded, Drafting

LEMMA ChosenStep ==
  ASSUME IInv, [NodeNext]_vars
  PROVE  Chosen'
<1>0. /\ LifeTypeOK /\ LifeTypeOK' /\ Queueing /\ Chosen /\ Drawn /\ Left
      /\ Drafting /\ Trusted => stored = file
  BY TypeStep, DraftingSynced DEF IInv, NodeTypeOK, Following, Trusted
<1> SUFFICES ASSUME Trusted' PROVE wanted' = First(file'.intent, "active")
  BY DEF Chosen
<1>1. CASE Start \/ Die
  BY <1>0, <1>1 DEF Start, Apply, Die, Crash, Known, Trusted, Chosen
<1>2. ~Start /\ ~Die => Trusted
  BY AstrayStep, OvertakenStep DEF Trusted
<1>3. CASE UNCHANGED <<file, wanted>> /\ Trusted
  BY <1>0, <1>3 DEF Chosen
<1>4. ASSUME NEW i \in Intents, file'.intent = i, wanted' = i
      PROVE  wanted' = First(file'.intent, "active")
  BY <1>4 DEF First, Intents, Absent
<1>5. ASSUME NEW c \in Calls, Write(c), Trusted
      PROVE  wanted' = First(file'.intent, "active")
  <2>1. /\ saves # <<>> /\ c = Head(saves) /\ Drafting /\ stored = file
        /\ want[c] \in Submissions => draft.intent = file.intent
        /\ want[c] \in Decisions => draft = [stored EXCEPT !.intent = want[c].intent]
    BY <1>0, <1>5 DEF Write, Drafting, Drawn, Trusted
  <2>2. CASE Rebuild(c) /\ file' = draft
    BY <1>0, <1>5, <2>1, <2>2 DEF Rebuild, Chosen
  <2>3. ASSUME NEW i \in Intents, Decide(c, i), file' = draft
        PROVE  wanted' = First(file'.intent, "active")
    <3>1. want[c] \in Decisions /\ want[c].intent = i /\ wanted' = i
      BY <2>3 DEF Decide, Decisions
    <3>2. file'.intent = i
      BY <1>0, <2>1, <2>3, <3>1 DEF LifeTypeOK, Documents
    <3> QED BY <1>4, <3>1, <3>2
  <2>4. CASE UNCHANGED <<file, wanted>>
    BY <1>3, <1>5, <2>4
  <2> QED BY <1>5, <2>2, <2>3, <2>4 DEF Write
<1>6. ASSUME NEW c \in Calls, LateWrite(c), Trusted
      PROVE  wanted' = First(file'.intent, "active")
  <2>1. CASE UNCHANGED <<file, wanted>>
    BY <1>3, <1>6, <2>1
  <2>2. CASE /\ file' = prior.draft /\ overtaken' = (overtaken \/ ~Unread)
             /\ wanted' = IF want[c] \in Decisions THEN want[c].intent ELSE wanted
    <3>1. Heir /\ c = Head(prior.saves) /\ at[c] = "writing"
      BY <1>6, <2>2 DEF LateWrite, Trusted, Heir, Unread, Task
    <3>2. want[c] \in Submissions \cup Decisions
      BY <1>0, <3>1 DEF Queueing, Held, LifeTypeOK
    <3>3. CASE want[c] \in Decisions
      <4>1. file'.intent = want[c].intent /\ wanted' = want[c].intent /\ want[c].intent \in Intents
        <5>1. want[c].intent \in Intents
          BY <3>3 DEF Decisions
        <5>2. prior.draft.intent = want[c].intent
          BY <1>0, <3>1, <3>3 DEF Left
        <5> QED BY <2>2, <3>3, <5>1, <5>2
      <4> QED BY <1>4, <4>1
    <3>4. CASE want[c] \notin Decisions
      BY <1>0, <1>6, <2>2, <3>1, <3>2, <3>4 DEF Left, Chosen
    <3> QED BY <3>3, <3>4
  <2> QED BY <1>6, <2>1, <2>2 DEF LateWrite
<1>7. CASE Seed /\ Trusted
  BY <1>3, <1>7 DEF Seed
<1> QED BY <1>1, <1>2, <1>3, <1>5, <1>6, <1>7, FileStep

LEMMA SyncedStep ==
  ASSUME IInv, [NodeNext]_vars
  PROVE  Synced'
<1>0. LifeTypeOK /\ Tasking /\ Synced /\ Reading
  BY DEF IInv, NodeTypeOK, Following
<1> SUFFICES ASSUME Loaded', ~overtaken' PROVE stored' = file'
  BY DEF Synced
<1>1. CASE Die
  BY <1>1 DEF Die, Crash, Loaded
<1>2. ~Start /\ (~Die => ~astray /\ ~overtaken)
  BY AstrayStep, OvertakenStep, UnseededStep DEF Loaded
<1>3. CASE Seed /\ ~Die
  BY <1>0, <1>2, <1>3 DEF Seed, Reading, Unseeded
<1>4. ASSUME NEW c \in Calls, Write(c), ~UNCHANGED <<file, stored>>
      PROVE  stored' = file'
  BY <1>4 DEF Write
<1>5. CASE UNCHANGED <<file, stored>> /\ ~Seed /\ ~Die
  <2>1. ~Unseeded
    BY <1>5, UnseededStep DEF Loaded
  <2>2. phase # "off" \/ saves # <<>>
    <3>1. phase' # "off" => phase # "off"
      <4>1. DisposeCollector => phase = "withdrawing"
        BY <1>0, HeadTask DEF DisposeCollector, Tasking
      <4>2. Dispose \/ QueueDispose => phase # "off"
        BY DisposeSteps
      <4> QED BY <1>2, <1>5, <4>1, <4>2, TaskSteps DEF CloseUsage, Write
    <3>2. saves' # <<>> => saves # <<>> \/ phase = "on"
      <4>1. \A c \in Calls : Late(c) => saves' = saves
        BY LateSame
      <4> QED BY <1>2, <1>5, <4>1, SaveSteps DEF Ask, Take, Write, Disconnected, Ends
    <3> QED BY <3>1, <3>2 DEF Loaded
  <2> QED BY <1>0, <1>2, <1>5, <2>1, <2>2 DEF Synced, Loaded
<1>6. ASSUME NEW c \in Calls, LateWrite(c), ~UNCHANGED <<file, stored>>, stored' = stored
      PROVE  FALSE
  <2>1. Unread /\ booting' = booting
    BY <1>6 DEF LateWrite
  <2> QED BY <2>1 DEF Loaded, Unseeded, Unread, Task, booting
<1> QED BY <1>1, <1>2, <1>3, <1>4, <1>5, <1>6, FileStep

LEMMA ReadingStep ==
  ASSUME IInv, [NodeNext]_vars
  PROVE  Reading'
<1>0. LifeTypeOK /\ Queueing /\ Reading
  BY DEF IInv, NodeTypeOK, Following
<1> SUFFICES ASSUME ~astray', Unseeded'
             PROVE  ~Begun' /\ (step' = "seed" /\ ~overtaken' => read' = file')
  BY DEF Reading
<1>1. CASE Start
  BY <1>1, UnseededStep DEF Start, Apply, Begun
<1>2. ~Die
  BY DEF Die, Crash, Unseeded, Task
<1>3. CASE ~Start
  <2>1. ~astray /\ Unseeded /\ ~Begun
    BY <1>0, <1>2, <1>3, AstrayStep, UnseededStep DEF Reading
  <2>2. \A c \in Calls : ~Write(c)
    BY <2>1 DEF Write, Begun
  <2>3. ASSUME NEW c \in Calls, Take(c)
        PROVE  Ends("idle")
    BY <1>0, <2>1, <2>3, DoneEnds DEF Take
  <2>4. ~Begun'
    <3>1. /\ saves \in Seq(Calls) /\ at \in [Calls -> InFlight \cup {"idle"}]
          /\ saves # <<>> => Head(saves) \in Calls
      BY <1>0 DEF LifeTypeOK
    <3>2. ASSUME NEW s \in {"idle", "closing"}, Ends(s)
          PROVE  ~Begun'
      BY <1>0, <3>2, QueueingTail DEF Ends, Held, Begun, late
    <3>3. ASSUME NEW c \in Calls, NEW w \in Wishes[c], Ask(c, w)
          PROVE  ~Begun'
      <4>1. saves' = Append(saves, c) /\ at' = [at EXCEPT ![c] = "queued"]
        BY <3>3 DEF Ask
      <4>2. saves # <<>> => Head(saves') = Head(saves)
        BY <3>1, <4>1, Appends
      <4>3. saves = <<>> => Head(saves') = c
        BY <3>1, <4>1, Appends
      <4> QED BY <2>1, <3>1, <4>1, <4>2, <4>3 DEF Begun
    <3>4. ASSUME NEW c \in Calls, Disconnected(c)
          PROVE  ~Begun'
      <4>1. saves' = saves /\ at' = [at EXCEPT ![c] = "idle"] /\ at[c] = "closing"
        BY <3>4 DEF Disconnected
      <4> QED BY <2>1, <3>1, <4>1 DEF Begun
    <3>5. ASSUME NEW c \in Calls, Late(c)
          PROVE  ~Begun'
      BY <1>0, <2>1, <3>5, LateElsewhere, LateSame DEF Begun
    <3> QED
      BY <1>2, <1>3, <2>1, <2>2, <2>3, <3>2, <3>3, <3>4, <3>5, SaveSteps DEF Begun
  <2>5. step' = "seed" /\ ~overtaken' => read' = file'
    <3>1. ReadFile => read' = file'
      BY DEF ReadFile
    <3>2. step' = "seed" /\ ~overtaken' /\ ~ReadFile => step = "seed" /\ read' = read /\ read = file
      BY <1>0, <1>2, <1>3, <2>1, OvertakenStep, UnseededStep DEF Reading
    <3>3. ASSUME NEW c \in Calls, LateWrite(c), ~overtaken', step = "seed"
          PROVE  file' = file
      BY <3>3 DEF LateWrite, Unread
    <3>4. step = "seed" /\ ~overtaken' => file' = file
      BY <1>2, <1>3, <2>2, <3>3, FileStep DEF Seed
    <3> QED BY <3>1, <3>2, <3>4
  <2> QED BY <2>4, <2>5
<1> QED BY <1>1, <1>3

LEMMA DrawnStep ==
  ASSUME IInv, [NodeNext]_vars
  PROVE  Drawn'
<1>0. /\ LifeTypeOK /\ Queueing /\ Reading' /\ Drawn /\ stored \in Documents
      /\ want \in [Calls -> Submissions \cup Decisions \cup {NoWish}]
  BY ReadingStep DEF IInv, NodeTypeOK, LifeTypeOK, Following
<1> SUFFICES ASSUME ~astray', Drafting'
             PROVE  /\ want'[Head(saves')] \in Submissions => draft'.intent = stored'.intent
                    /\ want'[Head(saves')] \in Decisions =>
                         draft' = [stored' EXCEPT !.intent = want'[Head(saves')].intent]
  BY DEF Drawn
<1> DEFINE c == Head(saves)
<1>1. /\ saves # <<>> /\ Head(saves') = c /\ c \in Calls /\ want'[c] = want[c]
      /\ \/ Drafting /\ draft' = draft /\ \A d \in Calls : ~Write(d)
         \/ Take(c) /\ draft' = Proposed(stored, want[c])
  BY DraftingStep
<1>2. ~Unseeded'
  BY <1>0 DEF Reading, Begun, Drafting
<1>3. ~Start /\ ~Die /\ ~astray
  <2>1. ~Start /\ ~Die
    BY DEF Start, Apply, Die, Crash, Drafting
  <2> QED BY <2>1, AstrayStep
<1>4. CASE Drafting /\ draft' = draft /\ \A d \in Calls : ~Write(d)
  <2>1. stored' = stored
    <3>1. ~Seed
      <4>1. ~Unseeded
        BY <1>3, <1>4, DraftingSynced
      <4> QED BY <4>1 DEF Seed, Unseeded
    <3> QED BY <1>3, <1>4, <3>1, FileStep
  <2> QED BY <1>0, <1>1, <1>3, <1>4, <2>1 DEF Drawn
<1>5. CASE Take(c) /\ draft' = Proposed(stored, want[c])
  <2>1. stored' = stored
    BY <1>5 DEF Take
  <2>2. want[c] \in Decisions \/ Acceptable(stored, want[c])
    <3>1. CallDone(c, FALSE) /\ UNCHANGED late => Ends("idle")
      BY <1>0, <1>1, DoneEnds
    <3>2. "idle" \notin Held
      BY DEF Held
    <3> QED BY <1>0, <1>5, <3>1, <3>2, QueueingTail DEF Take, Ends, Drafting, late
  <2>3. want[c] \in Submissions \cup Decisions
    BY <1>0, <1>1, <1>5 DEF Queueing, Held, Take
  <2> QED BY <1>0, <1>1, <1>5, <2>1, <2>2, <2>3, DraftType
<1> QED BY <1>1, <1>4, <1>5

LEMMA PendingStep ==
  ASSUME IInv, [NodeNext]_vars
  PROVE  Pending'
<1>0. LifeTypeOK /\ Tasking /\ Queueing /\ Pending /\ Reading
  BY DEF IInv, NodeTypeOK, Following
<1> SUFFICES ASSUME ~astray', Rebuilding' PROVE draft' = stored'
  BY DEF Pending
<1>1. ~Start /\ ~Die
  BY DEF Start, Apply, Die, Crash, Rebuilding, Places
<1>2. ~astray
  BY <1>1, AstrayStep
<1>3. ASSUME NEW c \in Calls, Write(c), Rebuild(c)
      PROVE  draft' = stored'
  <2>1. saves' = saves /\ saves # <<>> /\ draft' = draft
    BY <1>3 DEF Write, Rebuild
  <2>2. CASE stored' = draft
    BY <2>1, <2>2
  <2>3. CASE CallDone(c, FALSE)
    <3>1. saves' = Tail(saves)
      BY <2>3 DEF CallDone, Freed
    <3> QED BY <1>0, <2>1, <3>1, Tails DEF LifeTypeOK
  <2> QED BY <1>3, <2>2, <2>3 DEF Write
<1>4. CASE Rebuilding
  <2>1. saves # <<>> /\ at[Head(saves)] = "applying"
    BY <1>0, <1>4 DEF Tasking
  <2>2. \A c \in Calls : ~Write(c) /\ ~Take(c)
    BY <2>1 DEF Write, Take
  <2>3. stored' = stored
    <3>1. ~Seed
      <4>1. ~Unseeded
        BY <1>0, <1>2, <2>1 DEF Reading, Begun
      <4> QED BY <4>1 DEF Seed, Unseeded
    <3> QED BY <1>1, <2>2, <3>1, FileStep
  <2>4. ~(Task("reboot") /\ TaskDone)
    BY <1>0, HeadTask, BootsTail DEF TaskDone, Task
  <2>5. draft' = draft
    <3>1. \A c \in Calls : Late(c) => draft' = draft
      BY LateSame
    <3> QED BY <1>1, <2>1, <2>2, <2>4, <3>1, SaveSteps DEF Ask, Disconnected
  <2> QED BY <1>0, <1>2, <1>4, <2>3, <2>5 DEF Pending
<1> QED BY <1>3, <1>4, RebuildingStep

LEMMA LeftStep ==
  ASSUME IInv, [NodeNext]_vars
  PROVE  Left'
<1>0. /\ LifeTypeOK /\ Tasking /\ Queueing /\ Synced /\ Drawn /\ Left /\ Reading
      /\ prior.saves \in Seq(Calls) /\ saves \in Seq(Calls) /\ at \in Places2
      /\ want \in [Calls -> Submissions \cup Decisions \cup {NoWish}]
      /\ prior.stored \in Documents /\ prior.draft \in Documents
  BY DEF IInv, NodeTypeOK, Following, LifeTypeOK, Places2
<1> SUFFICES ASSUME Heir' PROVE Left'
  BY DEF Left
<1>1. CASE Start
  <2>1. /\ saves # <<>> /\ phase = "off" /\ Trusted /\ UNCHANGED <<file, at, want>>
        /\ prior' = [stored |-> stored, saves |-> saves, draft |-> draft]
    BY <1>1 DEF Start, Apply, Heir, Trusted, NothingLeft
  <2>2. ~Unseeded
    BY <1>0, <2>1, HeadTask DEF Unseeded, Tasking
  <2>3. stored = file
    BY <1>0, <2>1, <2>2 DEF Synced, Loaded, Trusted
  <2>4. at[Head(saves)] = "writing" => Drafting
    BY <2>1 DEF Drafting
  <2>5. \A i : [stored EXCEPT !.intent = i].intent = i
    BY <1>0 DEF LifeTypeOK, Documents
  <2>6. ~astray /\ prior'.stored = stored /\ prior'.saves = saves /\ prior'.draft = draft
    BY <2>1 DEF Trusted
  <2> QED BY <1>0, <2>1, <2>3, <2>4, <2>5, <2>6 DEF Left, Drawn
<1>2. ~Die
  BY DEF Die, Crash, Heir, NothingLeft
<1>3. ~Start => Trusted /\ Unread /\ Unseeded
  BY <1>2, AstrayStep, OvertakenStep, UnseededStep DEF Heir, Trusted, Unread, Unseeded
<1>4. ASSUME NEW c \in Calls, Late(c), ~Start
      PROVE  Left'
  <2>1. Heir /\ c = Head(prior.saves)
    BY <1>3, <1>4, LateSame DEF Heir
  <2>2. ASSUME NEW doc \in Documents, Leave(c, doc), doc.intent = file'.intent
        PROVE  Left'
    <3>1. prior'.saves = Tail(prior.saves) /\ prior'.stored = doc /\ at' = [at EXCEPT ![c] = "idle"]
      BY <1>0, <2>1, <2>2, LeaveType DEF Heir
    <3>2. at'[Head(prior'.saves)] = "queued"
      BY <1>0, <2>1, <3>1, LineTail DEF Heir, Queueing
    <3> QED BY <2>2, <3>1, <3>2 DEF Left
  <2>3. CASE Leave(c, prior.stored) /\ file' = file
    BY <1>0, <2>1, <2>2, <2>3 DEF Left
  <2>4. CASE Leave(c, prior.draft) /\ file' = prior.draft
    BY <1>0, <2>2, <2>4
  <2>5. CASE /\ at[c] = "queued" /\ at' = [at EXCEPT ![c] = "writing"] /\ want' = want /\ file' = file
             /\ want[c] \in Decisions \/ Acceptable(prior.stored, want[c])
             /\ prior' = [prior EXCEPT !.draft = Proposed(prior.stored, want[c])]
    <3>1. prior'.saves = prior.saves /\ prior'.stored = prior.stored
          /\ prior'.draft = Proposed(prior.stored, want[c])
      BY <1>0, <2>5 DEF LifeTypeOK
    <3>2. want[c] \in Submissions \cup Decisions
      BY <1>0, <2>5 DEF Queueing, Held
    <3> QED BY <1>0, <2>1, <2>5, <3>1, <3>2, DraftType DEF Left
  <2> QED BY <1>4, <2>3, <2>4, <2>5 DEF Late, LateTake, LateWrite, LateApplied
<1>5. CASE ~Start /\ \A c \in Calls : ~Late(c)
  <2>1. prior' = prior /\ overtaken' = overtaken /\ Heir
    BY <1>2, <1>3, <1>5, PriorSteps DEF Heir, late
  <2>2. \A c \in Calls : ~Write(c)
    BY <1>0, <1>3, <1>5 DEF Reading, Begun, Write, Trusted
  <2>3. file' = file
    <3>1. \A c \in Calls : LateWrite(c) => Late(c)
      BY DEF Late
    <3> QED BY <1>2, <1>5, <2>2, <3>1, FileStep DEF Seed
  <2> DEFINE h == Head(prior.saves)
  <2>4. h \in Calls /\ at[h] \in Held /\ 1 \in 1..Len(prior.saves) /\ h = prior.saves[1]
    <3>1. 1 \in 1..Len(prior.saves) /\ h = prior.saves[1] /\ h \in Calls
      BY <1>0, <2>1, Tails DEF Heir
    <3> QED BY <1>0, <3>1 DEF Queueing, InLine
  <2>5. saves # <<>> => Head(saves) # h /\ Head(saves) \in Calls
    BY <1>0, <2>4, ApartTail DEF Queueing
  <2>6. at'[h] = at[h] /\ want'[h] = want[h]
    <3>1. CASE UNCHANGED <<saves, at, want, draft>>
      BY <3>1
    <3>2. ASSUME NEW c \in Calls, NEW w \in Wishes[c], Ask(c, w)
          PROVE  at'[h] = at[h] /\ want'[h] = want[h]
      <4>1. c # h
        BY <2>4, <3>2 DEF Ask, Held
      <4> QED BY <1>0, <2>4, <3>2, <4>1 DEF Ask, Places2
    <3>3. ASSUME NEW c \in Calls, Take(c), at' = [at EXCEPT ![c] = "writing"], UNCHANGED want
          PROVE  at'[h] = at[h] /\ want'[h] = want[h]
      BY <1>0, <2>4, <2>5, <3>3 DEF Take, Places2
    <3>4. ASSUME NEW c \in Calls, Disconnected(c)
          PROVE  at'[h] = at[h] /\ want'[h] = want[h]
      <4>1. c # h
        BY <2>4, <3>4 DEF Disconnected, Held
      <4> QED BY <1>0, <2>4, <3>4, <4>1 DEF Disconnected, Places2
    <3>5. ASSUME NEW s, Ends(s)
          PROVE  at'[h] = at[h] /\ want'[h] = want[h]
      BY <1>0, <2>4, <2>5, <3>5 DEF Ends, Places2
    <3> QED BY <1>2, <1>5, <2>2, <3>1, <3>2, <3>3, <3>4, <3>5, SaveSteps
  <2> QED BY <1>0, <2>1, <2>3, <2>6 DEF Left
<1> QED BY <1>1, <1>4, <1>5

LEMMA FilledStep ==
  ASSUME IInv, [NodeNext]_vars
  PROVE  Filled'
<1>0. LifeTypeOK /\ Stepping /\ Filled /\ NoHost \notin Slots
  BY LifeAssumption DEF IInv, NodeTypeOK, Following
<1>1. ASSUME NEW doc \in Documents, Boot(doc)
      PROVE  Filled'
  BY <1>0, <1>1, BootType DEF Filled
<1>2. CASE Seed \/ Reboot
  BY <1>0, <1>1, <1>2 DEF Seed, Reboot, MayBoot, LifeTypeOK, Filled
<1>3. CASE ReadIdentity \/ CreateIdentity \/ FillIdentity
  BY <1>0, <1>3, StartSteps DEF Stepping, Filled
<1>4. CASE Start \/ Die \/ ReadFile \/ Withdraw \/ StopReturns \/ DisposeCollector \/ CloseUsage
  BY <1>4 DEF Start, Apply, Die, Crash, ReadFile, Withdraw, StopReturns, DisposeCollector,
     CloseUsage, Filled
<1>5. CASE Dispose \/ QueueDispose
  BY <1>5, DisposeSteps DEF Filled
<1>6. ASSUME \/ LlmAppears \/ UNCHANGED lifeVars
             \/ \E c \in Calls : \/ Take(c) \/ Disconnected(c) \/ Write(c) \/ Late(c)
                                 \/ \E w \in Wishes[c] : Ask(c, w)
      PROVE  UNCHANGED <<phase, step, cur>>
  BY <1>6, LateSame DEF LlmAppears, lifeVars, Take, Disconnected, Write, Ask, booting, hosts
<1>7. ASSUME UNCHANGED <<phase, step, cur>>
      PROVE  Filled'
  BY <1>0, <1>7 DEF Filled
<1> QED BY <1>2, <1>3, <1>4, <1>5, <1>6, <1>7, Steps

\* A task of a save that is not the first stays.
LEMMA RebuildingLater ==
  ASSUME LifeTypeOK, boots # <<>>, boots' = Tail(boots), Rebuilding, ~Task("reboot")
  PROVE  Rebuilding'
<1>1. boots \in Seq(Tasks)
  BY DEF LifeTypeOK
<1>2. PICK i \in Places : boots[i] = "reboot"
  BY DEF Rebuilding
<1>3. i # 1 /\ i \in Nat /\ Len(boots) \in Nat /\ Len(boots') = Len(boots) - 1
  BY <1>1, <1>2, Tails DEF Task, Places
<1>4. i - 1 \in 1..Len(boots') /\ boots'[i - 1] = boots[i]
  BY <1>1, <1>2, <1>3, Tails DEF Places
<1> QED BY <1>2, <1>4 DEF Rebuilding, Places

\* What runs, when neither the host nor the document changes.
LEMMA RunningSame ==
  ASSUME Running, ~astray' => ~astray, UNCHANGED <<cur, host, stored>>,
         Identifying' <=> Identifying, Rebuilding => Rebuilding',
         Identifying /\ Task("reboot")' => Task("reboot")
  PROVE  Running'
BY DEF Running, Reached, Intended

\* What runs, once a host was made of the document.
LEMMA RunningNew ==
  ASSUME LifeTypeOK, NEW doc \in Documents, Boot(doc), stored' = doc
  PROVE  Running'
<1> DEFINE r == [conf |-> Resolved(doc), intent |-> First(doc.intent, "active"),
                 id |-> Absent, link |-> "none"]
<1>1. cur' \in Slots /\ host' = [host EXCEPT ![cur'] = r] /\ step' = "identity"
  BY BootType
<1>2. host'[cur'] = r
  BY <1>1 DEF LifeTypeOK
<1> QED BY <1>1, <1>2 DEF Running, Reached, Intended, Identifying

\* What runs, once its start() is over.
LEMMA RunningStarted ==
  ASSUME LifeTypeOK, Tasking, Stepping, Running, NEW id, Started(id), Identifying,
         cur \in Slots, Live(cur), UNCHANGED <<stored, cur, astray>>
  PROVE  Running'
<1> SUFFICES ASSUME ~astray PROVE Running'
  BY DEF Running
<1>1. /\ boots # <<>> /\ boots' = Tail(boots) /\ step' = "next"
      /\ Task("init") \/ Task("reboot")
  BY DEF Stepping, Task, Started, Booted, TaskDone
<1> DEFINE link == IF id = Absent \/ host[cur].conf.status # "ok" THEN "none"
                   ELSE IF host[cur].intent = "active" THEN "up" ELSE "idle"
<1>2. host'[cur] = [host[cur] EXCEPT !.id = id, !.link = link] /\ host[cur] \in Hosts
  BY DEF LifeTypeOK, Live, Started
<1>3. /\ host'[cur].intent = host[cur].intent /\ host'[cur].conf = host[cur].conf
      /\ host'[cur].id = id /\ host'[cur].link = link
  BY <1>2 DEF Hosts
<1>4. ~Identifying' /\ Intended' = Intended
  BY <1>1 DEF Identifying, Intended
<1>5. host[cur].intent = Intended
      /\ (host[cur].conf = Resolved(stored) \/ (Rebuilding /\ ~Task("reboot")))
  BY LifeAssumption DEF Running
<1>6. Rebuilding /\ ~Task("reboot") => Rebuilding'
  BY <1>1, RebuildingLater
<1> QED BY <1>3, <1>4, <1>5, <1>6 DEF Running, Reached

\* What runs, once the operator's decision was written and told.
LEMMA RunningTold ==
  ASSUME LifeTypeOK, Running, Housed, ~astray, ~Rebuilding, NEW i \in Intents, TellHost(i),
         stored' = [stored EXCEPT !.intent = i], UNCHANGED <<cur, step>>
  PROVE  Running'
<1> SUFFICES ASSUME cur # NoHost
             PROVE  /\ host'[cur].intent = Intended'
                    /\ host'[cur].conf = Resolved(stored')
                    /\ host'[cur].link = Reached(cur)'
  BY DEF Running
<1> DEFINE link == IF host[cur].link = "none" THEN "none" ELSE IF i = "active" THEN "up" ELSE "idle"
<1>1. cur \in Slots /\ host[cur] \in Hosts
  BY DEF LifeTypeOK, Housed, Live
<1>2. host'[cur] = [host[cur] EXCEPT !.intent = i, !.link = link]
  BY <1>1 DEF TellHost, LifeTypeOK
<1>3. /\ host'[cur].intent = i /\ host'[cur].conf = host[cur].conf
      /\ host'[cur].id = host[cur].id /\ host'[cur].link = link
  BY <1>1, <1>2 DEF Hosts
<1>4. host[cur].conf = Resolved(stored) /\ host[cur].link = Reached(cur)
  BY DEF Running
<1>5. Resolved(stored') = Resolved(stored)
  BY ResolvedIgnoresIntent DEF LifeTypeOK
<1>6. Identifying' <=> Identifying
  BY DEF Identifying
<1>7. Intended' = i
  <2>1. stored'.intent = i
    BY DEF LifeTypeOK, Documents
  <2> QED BY <2>1 DEF Intended, First, Intents, Absent
<1>8. link = Reached(cur)'
  <2>1. host[cur].link = "none" <=>
          Identifying \/ host[cur].conf.status # "ok" \/ host[cur].id = Absent
    BY <1>4 DEF Reached
  <2> QED BY <1>3, <1>6, <1>7, <2>1 DEF Reached
<1> QED BY <1>3, <1>4, <1>5, <1>7, <1>8

LEMMA RunningStep ==
  ASSUME IInv, [NodeNext]_vars
  PROVE  Running'
<1>0. /\ LifeTypeOK /\ Tasking /\ Stepping /\ Housing /\ Housed /\ Running
      /\ Drawn /\ Pending /\ NoHost \notin Slots
  BY LifeAssumption DEF IInv, NodeTypeOK, Housing, Following
<1>1. ~Start /\ ~Die /\ ~astray' => ~astray
  BY AstrayStep
<1>2. CASE cur' = NoHost
  BY <1>2 DEF Running
<1>3. Start \/ Die \/ ReadFile \/ Withdraw \/ StopReturns \/ DisposeCollector => cur' = NoHost
  <2>1. Start => cur' = NoHost
    BY <1>0 DEF Start, Apply, Housing, hosts
  <2> QED BY <1>0, <2>1 DEF Die, Crash, ReadFile, Withdraw, StopReturns, DisposeCollector,
     Stepping, hosts
<1>4. CASE Seed /\ cur' # NoHost
  <2>1. Boot(read) /\ stored' = read /\ read \in Documents
    BY <1>0, <1>4 DEF Seed, Stepping, hosts, LifeTypeOK
  <2> QED BY <1>0, <2>1, RunningNew
<1>5. CASE Reboot /\ cur' # NoHost
  <2>1. Boot(draft) /\ draft \in Documents /\ stored' = stored /\ astray' = astray
    BY <1>0, <1>5 DEF Reboot, Stepping, hosts, LifeTypeOK
  <2>2. Rebuilding
    BY <1>0, <1>5, HeadTask DEF Reboot, Rebuilding
  <2>3. CASE ~astray
    BY <1>0, <2>1, <2>2, <2>3, RunningNew DEF Pending
  <2>4. CASE astray
    BY <2>1, <2>4 DEF Running
  <2> QED BY <2>3, <2>4
<1>6. CASE ReadIdentity \/ CreateIdentity \/ FillIdentity
  <2>1. /\ Identifying /\ UNCHANGED <<stored, cur, astray>>
        /\ cur \in Slots /\ Live(cur)
    BY <1>0, <1>6, StartSteps DEF Stepping, Housed, LifeTypeOK
  <2>2. ASSUME NEW id, Started(id)
        PROVE  Running'
    BY <1>0, <2>1, <2>2, RunningStarted
  <2>3. CASE step' \in {"mint", "fill"} /\ UNCHANGED <<config, boots, hosts, told>>
    BY <1>0, <2>1, <2>3, RunningSame DEF Identifying, Rebuilding, Places, Task, hosts
  <2> QED BY <1>6, <2>2, <2>3, StartSteps
<1>7. ASSUME NEW c \in Calls, Write(c)
      PROVE  Running'
  <2>1. UNCHANGED <<cur, step, astray>> /\ saves # <<>> /\ c = Head(saves) /\ Drafting
    BY <1>7 DEF Write, Drafting
  <2>2. ~Rebuilding
    BY <1>0, <2>1 DEF Tasking, Drafting
  <2>3. ~astray =>
          /\ want[c] \in Submissions => draft.intent = stored.intent
          /\ want[c] \in Decisions => draft = [stored EXCEPT !.intent = want[c].intent]
    BY <1>0, <2>1 DEF Drawn
  <2>4. CASE astray
    BY <2>1, <2>4 DEF Running
  <2>5. CASE ~astray /\ Rebuild(c) /\ stored' = draft
    <3>1. UNCHANGED host /\ boots' = Append(boots, "reboot") /\ want[c] \in Submissions
      BY <2>5 DEF Rebuild
    <3>2. Rebuilding'
      BY <1>0, <3>1, Appends DEF Rebuilding, Places, LifeTypeOK, Tasks
    <3>3. ~(Identifying' /\ Task("reboot")')
      <4>1. ~Task("reboot")
        BY <1>0, <2>2, HeadTask DEF Rebuilding
      <4>2. Identifying => boots # <<>>
        BY <1>0 DEF Stepping, Task
      <4>3. "reboot" \in Tasks
        BY DEF Tasks
      <4> QED BY <1>0, <2>1, <3>1, <4>1, <4>2, <4>3, SameTask DEF Identifying
    <3>4. Intended' = Intended
      BY <2>3, <2>5, <3>1 DEF Intended
    <3>5. cur # NoHost => host[cur].link = Reached(cur) /\ host[cur].intent = Intended
      BY <1>0, <2>5 DEF Running
    <3>6. Reached(cur)' = Reached(cur)
      BY <2>1, <3>1, <3>4 DEF Reached, Identifying
    <3> QED BY <2>1, <3>1, <3>2, <3>3, <3>4, <3>5, <3>6 DEF Running
  <2>6. ASSUME ~astray, NEW i \in Intents, Decide(c, i), stored' = draft
        PROVE  Running'
    <3>1. want[c] \in Decisions /\ want[c].intent = i /\ TellHost(i)
      BY <2>6 DEF Decide, Decisions
    <3> QED BY <1>0, <2>1, <2>2, <2>3, <2>6, <3>1, RunningTold
  <2>7. CASE ~astray /\ UNCHANGED <<stored, boots, host>>
    BY <1>0, <2>1, <2>7, RunningSame DEF Identifying, Rebuilding, Places, Task
  <2> QED BY <1>7, <2>4, <2>5, <2>6, <2>7 DEF Write
<1>8. ASSUME UNCHANGED <<boots, step, hosts, stored>>, ~Start, ~Die
      PROVE  Running'
  BY <1>0, <1>1, <1>8, RunningSame DEF Identifying, Rebuilding, Places, Task, hosts
<1>9. ASSUME NEW c \in Calls, \/ Take(c) \/ Disconnected(c) \/ Late(c)
                              \/ \E w \in Wishes[c] : Ask(c, w)
      PROVE  UNCHANGED <<boots, step, hosts, stored>>
  BY <1>9, LateSame DEF Take, Disconnected, Ask, booting
<1>10. CASE Dispose \/ QueueDispose
  <2>1. UNCHANGED <<cur, host, stored, step, astray>> /\ "dispose" \in Tasks
        /\ (boots' = boots \/ boots' = Append(boots, "dispose"))
    BY <1>10, DisposeSteps DEF config, hosts, Tasks
  <2>2. Rebuilding => Rebuilding'
    <3>1. CASE boots' = boots
      BY <3>1 DEF Rebuilding, Places
    <3>2. CASE boots' = Append(boots, "dispose") /\ Rebuilding
      <4>1. boots \in Seq(Tasks)
        BY <1>0 DEF LifeTypeOK
      <4>2. PICK i \in 1..Len(boots) : boots[i] = "reboot"
        BY <3>2 DEF Rebuilding, Places
      <4>3. i \in 1..Len(boots') /\ boots'[i] = "reboot"
        BY <2>1, <3>2, <4>1, <4>2, Appends
      <4> QED BY <4>3 DEF Rebuilding, Places
    <3> QED BY <2>1, <3>1, <3>2
  <2>3. Identifying /\ Task("reboot")' => Task("reboot")
    <3>1. Identifying => boots # <<>>
      BY <1>0 DEF Stepping, Task
    <3>2. CASE boots' = boots
      BY <3>2 DEF Task
    <3> QED BY <1>0, <2>1, <3>1, <3>2, SameTask
  <2> QED BY <1>0, <2>1, <2>2, <2>3, RunningSame DEF Identifying
<1>11. CloseUsage \/ LlmAppears \/ UNCHANGED lifeVars => UNCHANGED <<boots, step, hosts, stored>>
  BY DEF CloseUsage, LlmAppears, lifeVars, config, booting
<1> QED BY <1>2, <1>3, <1>4, <1>5, <1>6, <1>7, <1>8, <1>9, <1>10, <1>11, Steps

-----------------------------------------------------------------------------
(***************************************************************************)
(* The theorems.                                                           *)
(***************************************************************************)
LEMMA InitInv ==
  ASSUME NodeInit
  PROVE  IInv
<1>1. LifeTypeOK
  <2>1. file \in Documents /\ stored \in Documents /\ draft \in Documents /\ read \in Documents
    BY LifeAssumption, EmptyIsDocument DEF NodeInit, LifeInit
  <2>2. wanted \in Intents
    BY <2>1, IntentType DEF NodeInit, LifeInit
  <2>3. at \in [Calls -> InFlight \cup {"idle"}]
        /\ want \in [Calls -> Submissions \cup Decisions \cup {NoWish}]
        /\ host \in [Slots -> Hosts \cup {Gone}]
    BY DEF NodeInit, LifeInit
  <2>4. saves \in Seq(Calls) /\ boots \in Seq(Tasks)
    BY DEF NodeInit, LifeInit
  <2>5. prior \in [stored : Documents, saves : Seq(Calls), draft : Documents]
    BY EmptyIsDocument DEF NodeInit, LifeInit, NothingLeft
  <2> QED BY <2>1, <2>2, <2>3, <2>4, <2>5 DEF NodeInit, LifeInit, LifeTypeOK
<1>2. AskTypeOK /\ NoStrayQuestion
  BY DEF NodeInit, AskInit, AskTypeOK, NoStrayQuestion
<1>3. Tasking /\ Stepping
  BY DEF NodeInit, LifeInit, Tasking, Stepping, Places, Rebuilding, Task, Identifying
<1>4. Queueing
  BY DEF NodeInit, LifeInit, Queueing, InLine, Apart, Held, NothingLeft
<1>5. Housing /\ Naming
  BY DEF NodeInit, LifeInit, Housing, Housed, Live, Naming, SameIdentity
<1>6. Following
  BY DEF NodeInit, LifeInit, Following, Synced, Chosen, Reading, Drawn, Pending, Left, Running,
         Filled, Loaded, Drafting, Unseeded, Heir, Unread, Trusted, Task, Rebuilding, Places
<1> QED BY <1>1, <1>2, <1>3, <1>4, <1>5, <1>6 DEF IInv, NodeTypeOK

LEMMA Inductive ==
  ASSUME IInv, [NodeNext]_vars
  PROVE  IInv'
BY TypeStep, TaskingStep, QueueingStep, SteppingStep, HousingStep, NamingStep, StrayStep,
   SyncedStep, ChosenStep, ReadingStep, DrawnStep, PendingStep, LeftStep, RunningStep, FilledStep
DEF IInv, Following

\* Every reachable state satisfies the inductive invariant.
THEOREM Invariance == NodeSpec => []IInv
<1>1. NodeInit => IInv
  BY InitInv
<1>2. IInv /\ [NodeNext]_vars => IInv'
  BY Inductive
<1> QED BY <1>1, <1>2, PTL DEF NodeSpec

(***************************************************************************)
(* Every variable keeps its type.                                          *)
(***************************************************************************)
THEOREM TypeCorrect == NodeSpec => []NodeTypeOK
<1>1. IInv => NodeTypeOK
  BY DEF IInv
<1> QED BY <1>1, Invariance, PTL

(***************************************************************************)
(* When nothing is under way, the host runs what the service's document    *)
(* resolves to, and the file and the operator's last decision agree with   *)
(* it, unless a call of the disposed service wrote the file after this run *)
(* had read it (applySubmission(), setConnectionIntent(), bootNow(), the   *)
(* disposal of index.ts).  Whether two services' calls overlap or not.     *)
(***************************************************************************)
THEOREM QuietAgreement == NodeSpec => []Agreement
<1>1. IInv => Agreement
  <2> SUFFICES ASSUME IInv, Quiet
               PROVE  /\ overtaken \/ (stored = file /\ wanted = First(stored.intent, "active"))
                      /\ cur # NoHost /\ Live(cur) /\ mounted = {cur}
                      /\ host[cur].conf = Resolved(stored)
                      /\ host[cur].intent = First(stored.intent, "active")
                      /\ host[cur].link =
                           IF host[cur].conf.status # "ok" \/ host[cur].id = Absent THEN "none"
                           ELSE IF host[cur].intent = "active" THEN "up" ELSE "idle"
    BY DEF Agreement
  <2>1. ~astray /\ phase = "on" /\ boots = <<>> /\ ~Unseeded
    BY DEF Quiet, Unseeded, Task
  <2>2. step = "next" /\ ~Rebuilding /\ ~Identifying
    BY <2>1 DEF IInv, Stepping, Rebuilding, Places, Identifying
  <2>3. cur # NoHost /\ old = NoHost
    BY <2>1, <2>2 DEF IInv, Following, Filled, Stepping
  <2>4. cur \in Slots /\ NoHost \notin Slots /\ mounted = {h \in Slots : Live(h)}
        /\ Live(cur) /\ \A h \in Slots : Live(h) => h = cur
    BY <2>3, LifeAssumption DEF IInv, NodeTypeOK, LifeTypeOK, Housing, Housed
  <2>5. mounted = {cur}
    BY <2>4
  <2>6. overtaken \/ (stored = file /\ wanted = First(stored.intent, "active"))
    BY <2>1 DEF IInv, Following, Synced, Loaded, Chosen, Trusted
  <2>7. Running
    BY DEF IInv, Following
  <2> QED BY <2>1, <2>2, <2>3, <2>4, <2>5, <2>6, <2>7 DEF Running, Reached, Intended
<1> QED BY <1>1, Invariance, PTL

(***************************************************************************)
(* At most one host exists, and the one being stopped is not up; its       *)
(* endpoints and the usage observer never outlive it and the queue         *)
(* (shutdownNow(), dispose()).                                             *)
(***************************************************************************)
THEOREM OneHost == NodeSpec => []OneNode
<1>1. IInv => OneNode
  <2> SUFFICES ASSUME IInv PROVE OneNode
    OBVIOUS
  <2>1. Housed /\ Housing /\ Stepping /\ NoHost \notin Slots
    BY LifeAssumption DEF IInv, Housing
  <2>2. old # NoHost => cur = NoHost
    BY <2>1 DEF Stepping
  <2>3. \A g, h \in Slots : Live(g) /\ Live(h) => g = h
    BY <2>1, <2>2 DEF Housed
  <2>4. phase = "off" => cur = NoHost /\ old = NoHost
    BY <2>1 DEF Housing
  <2>5. phase = "off" => mounted = {}
    BY <2>1, <2>4 DEF Housed
  <2> QED BY <2>1, <2>2, <2>3, <2>4, <2>5 DEF OneNode, Housing, Housed
<1> QED BY <1>1, Invariance, PTL

(***************************************************************************)
(* The node goes by one identity for ever (loadOrCreateIdentity()).        *)
(***************************************************************************)
THEOREM OneIdentity == NodeSpec => []SameIdentity
<1>1. IInv => SameIdentity
  BY DEF IInv, Naming
<1> QED BY <1>1, Invariance, PTL

(***************************************************************************)
(* The remote UI is offered exactly the questions that wait for it, and    *)
(* none once the bridge is disposed (NodeQuestionBridge).                  *)
(***************************************************************************)
THEOREM NoneStray == NodeSpec => []NoStrayQuestion
<1>1. IInv => NoStrayQuestion
  BY DEF IInv
<1> QED BY <1>1, Invariance, PTL

=============================================================================
