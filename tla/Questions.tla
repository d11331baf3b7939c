------------------------------ MODULE Questions -------------------------------
(***************************************************************************)
(* The agents' questions: NodeQuestionBridge of src/src/user-questions.ts  *)
(* and its place in the waterfall of answerers, installQuestionFallback()  *)
(* of src/src/index.ts.  A question goes to the remote UI when its session *)
(* is viewed there, or when no local answerer would have it; then an       *)
(* answer, a cancellation, the agent's abort signal and the disposal of    *)
(* the bridge race for it.  A settled question may be asked again.         *)
(***************************************************************************)
CONSTANTS Questions, Sessions, SessionOf

ASSUME AskAssumption == SessionOf \in [Questions -> Sessions]

VARIABLES
  asked,     \* "idle", with the "local" answerers (or "given up" there), or "remote"
  pending,   \* the bridge's #pending
  viewed,    \* sessions whose view lease runs
  disposed   \* there is no bridge, or it was disposed

askVars == <<asked, pending, viewed, disposed>>

(***************************************************************************)
(* Every variable keeps its type.                                          *)
(***************************************************************************)
AskTypeOK ==
  /\ asked \in [Questions -> {"idle", "local", "given up", "remote"}]
  /\ pending \subseteq Questions /\ viewed \subseteq Sessions
  /\ disposed \in BOOLEAN

AskInit ==
  /\ asked = [q \in Questions |-> "idle"]
  /\ pending = {} /\ viewed = {} /\ disposed = TRUE

-----------------------------------------------------------------------------
\* What ask() refuses.  Or it looks at the agent's signal only.
Refused_signal(q) == asked[q] = "given up"
Refused(q) == disposed \/ asked[q] = "given up"

\* ask()
Bridge(q) ==
  IF Refused(q) THEN asked' = [asked EXCEPT ![q] = "idle"] /\ UNCHANGED pending
  ELSE asked' = [asked EXCEPT ![q] = "remote"] /\ pending' = pending \cup {q}

\* #settle(): the entry and the waiter go together.
Settle(q) == asked' = [asked EXCEPT ![q] = "idle"] /\ pending' = pending \ {q}

\* The listener of `user-questions/request`, up to its await of next().
Request(q) ==
  /\ ~disposed /\ asked[q] = "idle"
  /\ IF SessionOf[q] \in viewed THEN Bridge(q)
     ELSE asked' = [asked EXCEPT ![q] = "local"] /\ UNCHANGED pending
  /\ UNCHANGED <<viewed, disposed>>

\* next() settles, with an answer or an error; or there is no provider, whatever
\* happened to the bridge meanwhile.
LocalSettles(q) ==
  /\ asked[q] \in {"local", "given up"} /\ asked' = [asked EXCEPT ![q] = "idle"]
  /\ UNCHANGED <<pending, viewed, disposed>>
NoProvider(q) ==
  /\ asked[q] \in {"local", "given up"} /\ Bridge(q)
  /\ UNCHANGED <<viewed, disposed>>

\* The agent's signal: onAbort() of a pending question.
GiveUp(q) ==
  /\ \/ asked[q] = "remote" /\ q \in pending /\ Settle(q)
     \/ asked[q] = "local" /\ asked' = [asked EXCEPT ![q] = "given up"] /\ UNCHANGED pending
  /\ UNCHANGED <<viewed, disposed>>

\* pending(): the view of a session is renewed; SESSION_VIEW_LEASE_MS later it lapses.
Look(s) == viewed' = viewed \cup {s} /\ UNCHANGED <<asked, pending, disposed>>
Lapse(s) == s \in viewed /\ viewed' = viewed \ {s} /\ UNCHANGED <<asked, pending, disposed>>

\* answer() with an answer to each of its questions, or cancel().
Reply(q) == q \in pending /\ Settle(q) /\ UNCHANGED <<viewed, disposed>>

\* dispose(), once the listener is off.
DisposeBridge ==
  /\ ~disposed /\ disposed' = TRUE
  /\ viewed' = {} /\ pending' = {}
  /\ asked' = [q \in Questions |-> IF q \in pending THEN "idle" ELSE asked[q]]

\* A new bridge.  What the earlier one's listener still waits for, that bridge
\* will refuse.
NewBridge ==
  /\ disposed /\ disposed' = FALSE
  /\ asked' = [q \in Questions |-> IF asked[q] = "local" THEN "given up" ELSE asked[q]]
  /\ viewed' = {} /\ UNCHANGED pending

LoseBridge ==
  /\ disposed' = TRUE /\ viewed' = {} /\ pending' = {}
  /\ asked' = [q \in Questions |-> "idle"]

Local == \/ \E q \in Questions : Request(q) \/ LocalSettles(q) \/ NoProvider(q) \/ GiveUp(q)
         \/ \E s \in Sessions : Lapse(s)
Remote == (\E q \in Questions : Reply(q)) \/ (\E s \in Sessions : Look(s))
=============================================================================
