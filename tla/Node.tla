--------------------------------- MODULE Node ---------------------------------
(***************************************************************************)
(* The plugin as a whole: NodeLifecycle and Questions.  The bridge lives   *)
(* as long as the plugin, whatever saves rebuild; its remote calls come    *)
(* through the endpoints and the link of the host of the day.              *)
(***************************************************************************)
EXTENDS NodeLifecycle, Questions

vars == <<lifeVars, askVars>>

NodeTypeOK == LifeTypeOK /\ AskTypeOK

Live(h) == host[h] # Gone
Reachable == \E h \in mounted : host[h].link = "up"

NodeInit == LifeInit /\ AskInit

Start == Apply /\ NewBridge
Die == Crash /\ LoseBridge
Life(A) == A /\ UNCHANGED askVars
Unload == phase # "on" /\ DisposeBridge /\ UNCHANGED lifeVars
Questioned == (Local \/ (Reachable /\ Remote)) /\ UNCHANGED lifeVars

NodeNext == Start \/ Die \/ Life(LifeStep) \/ Unload \/ Questioned

\* Timers, promises and the file system go on; nobody is made to apply, to ask,
\* to dispose or to answer.
Fairness ==
  /\ WF_vars(Life(Saving \/ Booting \/ Disposing)) /\ WF_vars(Life(LateSaving))
  /\ \A c \in Calls : WF_vars(Life(Disconnected(c)))

NodeSpec == NodeInit /\ [][NodeNext]_vars /\ Fairness

-----------------------------------------------------------------------------
(***************************************************************************)
(* Safety.                                                                 *)
(***************************************************************************)

(***************************************************************************)
(* When nothing is under way, the host runs what the service's document    *)
(* resolves to, and the file and the operator's last accepted decision     *)
(* agree with both, whichever saves, failures, reboots and crashes came    *)
(* between.  The latter not when a call of the disposed service overtook   *)
(* this run, and nothing for a run that folded before it had read the file.*)
(***************************************************************************)
Quiet == phase = "on" /\ boots = <<>> /\ saves = <<>> /\ ~astray
Agreement ==
  Quiet =>
    /\ overtaken \/ (stored = file /\ wanted = First(stored.intent, "active"))
    /\ cur # NoHost /\ Live(cur) /\ mounted = {cur}
    /\ host[cur].conf = Resolved(stored)
    /\ host[cur].intent = First(stored.intent, "active")
    /\ host[cur].link =
         IF host[cur].conf.status # "ok" \/ host[cur].id = Absent THEN "none"
         ELSE IF host[cur].intent = "active" THEN "up" ELSE "idle"

(***************************************************************************)
(* At most one host exists, however saves, decisions and disposal overlap: *)
(* its predecessor is stopped and its endpoints are withdrawn first.  A    *)
(* host that is being stopped is not up, the observer never outlives the   *)
(* usage queue it writes to, and a plugin that is off leaves nothing.      *)
(***************************************************************************)
OneNode ==
  /\ \A g, h \in Slots : Live(g) /\ Live(h) => g = h
  /\ \A h \in Slots : Live(h) => h \in {cur, old}
  /\ mounted = {h \in Slots : Live(h)}
  /\ old # NoHost => cur = NoHost /\ host[old].link # "up"
  /\ collector => queue = "open"
  /\ phase = "off" => cur = NoHost /\ mounted = {} /\ queue = "none"

(***************************************************************************)
(* The node goes by one identity for ever: none is used that is not in the *)
(* file, and none in the file is replaced, wherever a first start failed   *)
(* or died.                                                                *)
(***************************************************************************)
SameIdentity == \A n \in told : ident = n

(***************************************************************************)
(* The remote UI is offered exactly the questions that wait for it, and    *)
(* none once the bridge is disposed, even for an agent whose local         *)
(* answerers gave up after that.                                           *)
(***************************************************************************)
NoStrayQuestion ==
  /\ pending = {q \in Questions : asked[q] = "remote"}
  /\ disposed => pending = {}

(***************************************************************************)
(* Liveness.                                                               *)
(***************************************************************************)

(***************************************************************************)
(* Every save and every decision is answered, unless the process dies: a   *)
(* refused one, a failed write, a disposal in the middle of a reboot hold  *)
(* up none behind it.                                                      *)
(***************************************************************************)
CallsEnd == \A c \in Calls : (at[c] # "idle") ~> (at[c] = "idle")
=============================================================================
