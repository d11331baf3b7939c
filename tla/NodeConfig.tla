------------------------------- MODULE NodeConfig ------------------------------
(***************************************************************************)
(* How the node's configuration is made of its layers: the document that   *)
(* the panel saves (src/src/config-file.ts), the profile's bootstrap and   *)
(* the environment, folded by src/src/config-service.ts and resolved by    *)
(* src/src/config.ts.  A value is trimmed and never empty; nodeName and    *)
(* role follow one rule and are one field, `label`.                        *)
(***************************************************************************)
CONSTANTS
  Urls, BadUrls,   \* Coordinator URLs: accepted, and refused by the resolver
  Tokens, Labels,
  Profile,         \* the Loader's bootstrap; `odd`: its other fields that are unusable
  Env              \* DSH_NODE_COORDINATOR_URL and DSH_NODE_TOKEN

Absent == "absent"
Marks == {Absent, "keep", "null", "blank", "odd"}
Intents == {"active", "paused"}
Addresses == Urls \cup BadUrls
OtherFields == {"mode", "reconnect", "bounds", "roots", "usage", "identityFile"}

ASSUME ConfigAssumption ==
  /\ (Addresses \cup Tokens \cup Labels) \cap Marks = {}
  /\ Urls \cap BadUrls = {}
  /\ Profile \in [url : Addresses \cup {Absent}, token : Tokens \cup {Absent},
                  label : Labels \cup {Absent}, odd : SUBSET OtherFields]
  /\ Env \in [url : Addresses \cup {Absent}, token : Tokens \cup {Absent}]

\* StoredNodeConfig
Documents == [url : Addresses \cup {Absent}, token : Tokens \cup {Absent},
              label : Labels \cup {Absent}, intent : Intents \cup {Absent}]
Empty == [url |-> Absent, token |-> Absent, label |-> Absent, intent |-> Absent]

\* The body of a save: a field left out, null, '' or blank, not a string, or a
\* value.
Submissions == [url : Addresses \cup (Marks \ {Absent}), token : Tokens \cup (Marks \ {Absent}),
                label : Labels \cup (Marks \ {Absent})]

Resolutions == [status : {"ok", "unconfigured", "invalid"}, url : Urls \cup {Absent},
                token : Tokens \cup {Absent}, label : Labels \cup {Absent}]

First(a, b) == IF a # Absent THEN a ELSE b

\* mergeNodeConfig(): the document over the profile.
Merge(doc) ==
  [url |-> First(doc.url, Profile.url), token |-> First(doc.token, Profile.token),
   label |-> First(doc.label, Profile.label)]

\* resolveCoordinatorUrl(), before it judges; resolveToken(): an explicit value,
\* then the environment.
Address(boot) == First(boot.url, Env.url)
Credential(boot) == First(boot.token, Env.token)

\* A URL that is refused is an error, never a reason to look further.
Accepted(url) == IF url \in BadUrls THEN Absent ELSE url

\* The fields that are refused; each of the others falls back to its default and
\* is reported all the same.
Errors(boot) ==
  Profile.odd \cup (IF Address(boot) \in BadUrls THEN {"coordinatorUrl"} ELSE {})

\* resolveNodeConfig()
Resolve(boot) ==
  [status |-> IF Errors(boot) # {} THEN "invalid"
              ELSE IF Absent \in {Address(boot), Credential(boot)} THEN "unconfigured" ELSE "ok",
   url |-> Accepted(Address(boot)), token |-> Credential(boot), label |-> boot.label]

Resolved(doc) == Resolve(Merge(doc))

\* readSubmission()
Malformed(input) == "odd" \in {input.url, input.token, input.label}
Folded(old, raw, blankClears) ==
  IF raw = "keep" \/ (raw = "blank" /\ ~blankClears) THEN old
  ELSE IF raw \in {"null", "blank"} THEN Absent
  ELSE raw

\* foldSubmission(): the manual connection decision is carried over.  Or the null
\* of a field is stored, or the decision is not carried over.
Fold_null(doc, input) ==
  [url |-> Folded(doc.url, input.url, FALSE),
   token |-> IF input.token = "null" THEN "null" ELSE Folded(doc.token, input.token, FALSE),
   label |-> Folded(doc.label, input.label, TRUE),
   intent |-> doc.intent]
Fold_fresh(doc, input) ==
  [url |-> Folded(doc.url, input.url, FALSE),
   token |-> Folded(doc.token, input.token, FALSE),
   label |-> Folded(doc.label, input.label, TRUE),
   intent |-> Absent]
Fold(doc, input) ==
  [url |-> Folded(doc.url, input.url, FALSE),
   token |-> Folded(doc.token, input.token, FALSE),
   label |-> Folded(doc.label, input.label, TRUE),
   intent |-> doc.intent]

\* What applySubmission() lets through.
Acceptable(doc, input) ==
  ~Malformed(input) /\ Resolved(Fold(doc, input)).status = "ok"

\* sourceOf(): the layer that the panel names for a field.  The profile's token is
\* looked for under `token`, and the profile has it under `auth`: it is not found.
SourceOf(doc, f) ==
  IF doc[f] # Absent THEN "panel"
  ELSE IF f = "url" /\ Profile.url # Absent THEN "profile"
  ELSE IF Env[f] # Absent THEN "environment" ELSE "none"

=============================================================================
