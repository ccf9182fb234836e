---------------------------- MODULE PlatformConfig ----------------------------
(***************************************************************************)
(* The platform's configuration: one document that platform admins edit, a *)
(* field of which falls back to the environment while it is unset, and the *)
(* copy of it in the server's memory that every other part reads.  An      *)
(* update writes the document and then loads it again, in two calls.       *)
(***************************************************************************)
EXTENDS Naturals

CONSTANTS
  Fields,
  Secrets,       \* fields the view of the configuration does not show
  Values,
  Unset,
  Env,           \* the value of a field in the environment
  Updates,       \* what updates are made
  MaxConfigFaults

ASSUME ConfigAssumption ==
  /\ Secrets \subseteq Fields
  /\ Unset \notin Values
  /\ Env \in [Fields -> Values \cup {Unset}]
  /\ MaxConfigFaults \in Nat

VARIABLES
  doc,           \* the PlatformConfig document, all unset if there is none
  cache,         \* the resolved configuration in memory
  update,        \* how far an update is, the admin's form, and what was loaded
  configFaults,
  astray         \* auxiliary: whether the last loading failed or overlapped another

configVars == <<doc, cache, update, configFaults, astray>>

Config == [Fields -> Values \cup {Unset}]

resolve(d) == [f \in Fields |-> IF d[f] = Unset THEN Env[f] ELSE d[f]]

NoConfig == [f \in Fields |-> Unset]

ConfigInit ==
  /\ doc = NoConfig
  /\ cache = resolve(NoConfig)
  /\ update = [u \in Updates |-> [at |-> "idle", form |-> NoConfig, loaded |-> NoConfig,
                                  overlap |-> FALSE]]
  /\ configFaults = 0
  /\ astray = FALSE

Loading(u) == update[u].at \in {"load", "assign"}

(* The form is filled with what the view shows, environment included.      *)
OpenForm(u) ==
  /\ update[u].at = "idle"
  /\ update' = [update EXCEPT ![u].at = "editing", ![u].form = resolve(doc)]
  /\ UNCHANGED <<doc, cache, configFaults, astray>>

(* The fields save() sends, once field f is edited to v: all those shown,  *)
(* and of the secrets those that are typed.  What is left blank is cleared *)
(* to the environment's.                                                   *)
Sent(form, f, v) ==
  [g \in (Fields \ Secrets) \cup (IF v = Unset THEN {} ELSE {f}) |->
     IF g = f THEN v ELSE form[g]]

Patched(d, patch) == [g \in Fields |-> IF g \in DOMAIN patch THEN patch[g] ELSE d[g]]

WriteConfig(u, f, v) ==
  /\ update[u].at = "editing"
  /\ doc' = Patched(doc, Sent(update[u].form, f, v))
  /\ LET Others == {w \in Updates \ {u} : Loading(w)} IN
       update' = [w \in Updates |->
                    CASE w = u -> [update[u] EXCEPT !.at = "load", !.overlap = Others # {}]
                      [] w \in Others -> [update[w] EXCEPT !.overlap = TRUE]
                      [] OTHER -> update[w]]
  /\ UNCHANGED <<cache, configFaults, astray>>

(* loadPlatformConfig: the answer may arrive after that to a later query.  *)
LoadConfig(u) ==
  /\ update[u].at = "load"
  /\ update' = [update EXCEPT ![u].at = "assign", ![u].loaded = doc]
  /\ UNCHANGED <<doc, cache, configFaults, astray>>

(* Mutant: the document is cached as it is.                                *)
AssignCache_Unresolved(u) ==
  /\ update[u].at = "assign"
  /\ cache' = update[u].loaded
  /\ update' = [update EXCEPT ![u].at = "done"]
  /\ astray' = update[u].overlap
  /\ UNCHANGED <<doc, configFaults>>

AssignCache(u) ==
  /\ update[u].at = "assign"
  /\ cache' = resolve(update[u].loaded)
  /\ update' = [update EXCEPT ![u].at = "done"]
  /\ astray' = update[u].overlap
  /\ UNCHANGED <<doc, configFaults>>

(* The update is rejected, with the document written.                      *)
FailLoad(u) ==
  /\ configFaults < MaxConfigFaults
  /\ update[u].at = "load"
  /\ configFaults' = configFaults + 1
  /\ update' = [update EXCEPT ![u].at = "failed"]
  /\ astray' = TRUE
  /\ UNCHANGED <<doc, cache>>

(* The process dies and starts again, which loads the configuration before *)
(* any request is accepted.                                                *)
Reboot ==
  /\ configFaults < MaxConfigFaults
  /\ configFaults' = configFaults + 1
  /\ cache' = resolve(doc)
  /\ update' = [u \in Updates |->
                  IF Loading(u) THEN [update[u] EXCEPT !.at = "failed"] ELSE update[u]]
  /\ astray' = FALSE
  /\ UNCHANGED doc

ConfigNext ==
  \E u \in Updates :
    \/ OpenForm(u)
    \/ \E f \in Fields, v \in Values \cup {Unset} : WriteConfig(u, f, v)
    \/ LoadConfig(u)
    \/ AssignCache(u)
    \/ FailLoad(u)

----------------------------------------------------------------------------
ConfigTypeOK ==
  /\ {doc, cache} \subseteq Config
  /\ update \in [Updates -> [at : {"idle", "editing", "load", "assign", "done", "failed"},
                             form : Config, loaded : Config, overlap : BOOLEAN]]
  /\ configFaults \in 0 .. MaxConfigFaults
  /\ astray \in BOOLEAN

(* While no update is loading it, what the server runs on is what is       *)
(* stored - unless the last to load failed, or overlapped another, whose   *)
(* older answer may have come last.  (platformConfig.ts:133-134 writes and *)
(* loads; its comment promises the new values "on the very next request".) *)
CacheSettles ==
  (\A u \in Updates : ~Loading(u)) /\ ~astray => cache = resolve(doc)
=============================================================================
