------------------------------ MODULE SpecDesk ------------------------------
(***************************************************************************)
(* Specification profiles and versions under concurrent edits:               *)
(* hyc_api/routes/specs.py over the tables and triggers of migration 0002.    *)
(*                                                                         *)
(* A call is a transaction.  It takes its row locks one after another (the    *)
(* join of _version locks the version, then its profile), looks at the rows,  *)
(* writes, and commits; a write that leaves a version active takes the        *)
(* advisory lock of the scope in the trigger.  What a call wrote is seen by   *)
(* the others when it commits.  A window is the set of days a version covers. *)
(***************************************************************************)
EXTENDS NoValue, Naturals

CONSTANTS
  Profiles, Revisions,   \* identities of profiles and of versions
  Scopes,                \* material, supplier and model a profile is for
  Windows,               \* sets of days, each an interval
  VersionNumbers,
  SpecEditors,           \* who calls
  MaxSpecVersion,        \* bound of the model: no call starts on a version row past it
  MaxProfileVersion      \* the same of a profile

VARIABLES
  profiles,    \* spec_profiles: profile -> [scope, lock], or None
  revisions,   \* spec_versions: version -> its row, or None
  call,        \* steward -> the call it makes, or None
  held         \* steward -> the locks of its transaction

specVars == <<profiles, revisions, call, held>>

ProfileRow == [scope : Scopes, lock : Nat]
RevisionRow ==
  [profile : Profiles, number : VersionNumbers, status : {"DRAFT", "ACTIVE", "RETIRED"},
   window : Windows, lock : Nat]
Edits == {"update", "activate", "retire"}
Call ==
  [op : Edits \cup {"create"}, revision : Revisions, profile : Profiles, seen : Nat,
   number : VersionNumbers, window : Windows,
   step : {"revision", "profile", "sibling", "write", "commit"}]
  \cup [op : {"rescope"}, profile : Profiles, seen : Nat, scope : Scopes,
        step : {"profile", "write", "commit"}]

ASSUME SpecAssumption == None \notin ProfileRow /\ None \notin RevisionRow /\ None \notin Call

SpecTypeOK ==
  /\ profiles \in [Profiles -> ProfileRow \cup {None}]
  /\ revisions \in [Revisions -> RevisionRow \cup {None}]
  /\ call \in [SpecEditors -> Call \cup {None}]

InitSpecs ==
  /\ profiles = [p \in Profiles |-> None]
  /\ revisions = [v \in Revisions |-> None]
  /\ call = [u \in SpecEditors |-> None]
  /\ held = [u \in SpecEditors |-> {}]

-----------------------------------------------------------------------------
(* What the call of u writes, and what it waits for.                          *)
Active(v) == revisions[v] # None /\ revisions[v].status = "ACTIVE"
Siblings(v, p) == {w \in Revisions \ {v} : Active(w) /\ revisions[w].profile = p}

Written(u) ==
  LET c == call[u]
      row == revisions[c.revision]
  IN CASE c.op = "create" ->
            [profile |-> c.profile, number |-> c.number, status |-> "DRAFT",
             window |-> c.window, lock |-> 1]
       [] c.op = "update" ->
            [row EXCEPT !.number = c.number, !.window = c.window, !.lock = @ + 1]
       [] c.op = "activate" -> [row EXCEPT !.status = "ACTIVE", !.lock = @ + 1]
       [] c.op = "retire" -> [row EXCEPT !.status = "RETIRED", !.lock = @ + 1]

WritesActive(u) == call[u].op \in Edits \cup {"create"} /\ Written(u).status = "ACTIVE"
Unserialised(u) == {}                                     \* mutant
ScopeLock(u) ==
  IF WritesActive(u) THEN {<<"scope", profiles[call[u].profile].scope>>} ELSE {}

Wanted(u) ==
  LET c == call[u] IN
  CASE c.step = "revision" -> {<<"revision", c.revision>>}
    [] c.step = "profile" -> {<<"profile", c.profile>>}
    [] c.step = "sibling" ->
         {<<"revision", w>> : w \in Siblings(c.revision, c.profile)}
    [] c.step = "write" -> ScopeLock(u)
    [] c.step = "commit" -> {}

Blocks(w, u) == w # u /\ call[u] # None /\ Wanted(u) \cap held[w] # {}
FreeToGo(u) == \A w \in SpecEditors : ~Blocks(w, u)

-----------------------------------------------------------------------------
Finish(u) ==
  /\ call' = [call EXCEPT ![u] = None]
  /\ held' = [held EXCEPT ![u] = {}]
Refuse(u) == Finish(u) /\ UNCHANGED <<profiles, revisions>>
Go(u, step) ==
  /\ call' = [call EXCEPT ![u].step = step]
  /\ held' = [held EXCEPT ![u] = @ \cup Wanted(u)]
  /\ UNCHANGED <<profiles, revisions>>

CreateProfile(p, scope) ==
  /\ profiles[p] = None
  /\ profiles' = [profiles EXCEPT ![p] = [scope |-> scope, lock |-> 1]]
  /\ UNCHANGED <<revisions, call, held>>

Begin(u, c) ==
  /\ call[u] = None
  /\ call' = [call EXCEPT ![u] = c]
  /\ UNCHANGED <<profiles, revisions, held>>
AskEdit(u, op, v, number, window) ==
  /\ revisions[v] # None /\ revisions[v].lock <= MaxSpecVersion    \* bound of the model
  /\ op # "update" => number = revisions[v].number /\ window = revisions[v].window
  /\ Begin(u, [op |-> op, revision |-> v, profile |-> revisions[v].profile,
               seen |-> revisions[v].lock, number |-> number, window |-> window,
               step |-> "revision"])
AskCreate(u, v, p, number, window) ==
  /\ revisions[v] = None /\ profiles[p] # None
  /\ \A w \in SpecEditors : call[w] # None /\ call[w].op = "create" => call[w].revision # v
  /\ Begin(u, [op |-> "create", revision |-> v, profile |-> p, seen |-> 0,
               number |-> number, window |-> window, step |-> "profile"])
AskRescope(u, p, scope) ==
  /\ profiles[p] # None /\ profiles[p].lock <= MaxProfileVersion   \* bound of the model
  /\ Begin(u, [op |-> "rescope", profile |-> p, seen |-> profiles[p].lock,
               scope |-> scope, step |-> "profile"])

(* _version(lock=True): the row of the version, then the row of its profile.  *)
LockRevision(u) ==
  /\ call[u] # None /\ call[u].step = "revision" /\ FreeToGo(u)
  /\ Go(u, "profile")

(* _profile(lock=True), _require_current_version and the transition check.    *)
Legal(c) ==
  CASE c.op = "rescope" -> profiles[c.profile].lock = c.seen
    [] c.op = "create" -> TRUE
    [] c.op \in Edits ->
         /\ revisions[c.revision].lock = c.seen
         /\ (c.op = "activate" => revisions[c.revision].status = "DRAFT")
         /\ (c.op = "retire" => revisions[c.revision].status = "ACTIVE")
LockProfile(u) ==
  /\ call[u] # None /\ call[u].step = "profile" /\ FreeToGo(u)
  /\ IF ~Legal(call[u]) THEN Refuse(u)
     ELSE Go(u, IF call[u].op = "activate" THEN "sibling" ELSE "write")

(* activate_spec_version: no other version of the profile may be active.      *)
LockSibling(u) ==
  /\ call[u] # None /\ call[u].step = "sibling" /\ FreeToGo(u)
  /\ IF Wanted(u) # {} THEN Refuse(u) ELSE Go(u, "write")

(* The flush: uq_spec_versions_profile_version, hyc_prevent_active_spec_overlap *)
(* and hyc_prevent_bound_spec_scope_mutation.                                 *)
NumberTaken(v, p, number) ==
  \E w \in Revisions \ {v} :
    revisions[w] # None /\ revisions[w].profile = p /\ revisions[w].number = number
Overlapping(v, row) ==
  {w \in Revisions \ {v} :
     /\ Active(w) /\ revisions[w].window \cap row.window # {}
     /\ profiles[revisions[w].profile].scope = profiles[row.profile].scope}
Bound(p) == \E v \in Revisions : revisions[v] # None /\ revisions[v].profile = p

ScopeAlways(u) ==                                         \* mutant
  CASE call[u].op = "rescope" -> TRUE
    [] call[u].op # "rescope" ->
         /\ ~NumberTaken(call[u].revision, call[u].profile, Written(u).number)
         /\ (WritesActive(u) => Overlapping(call[u].revision, Written(u)) = {})
Writable(u) ==
  CASE call[u].op = "rescope" ->
         call[u].scope = profiles[call[u].profile].scope \/ ~Bound(call[u].profile)
    [] call[u].op # "rescope" ->
         /\ ~NumberTaken(call[u].revision, call[u].profile, Written(u).number)
         /\ (WritesActive(u) => Overlapping(call[u].revision, Written(u)) = {})
WriteSpec(u) ==
  /\ call[u] # None /\ call[u].step = "write" /\ FreeToGo(u)
  /\ IF Writable(u) THEN Go(u, "commit") ELSE Refuse(u)

CommitSpec(u) ==
  /\ call[u] # None /\ call[u].step = "commit"
  /\ IF call[u].op = "rescope"
     THEN /\ profiles' = [profiles EXCEPT ![call[u].profile] =
                            [scope |-> call[u].scope, lock |-> @.lock + 1]]
          /\ UNCHANGED revisions
     ELSE /\ revisions' = [revisions EXCEPT ![call[u].revision] = Written(u)]
          /\ UNCHANGED profiles
  /\ Finish(u)

(* Two transactions that wait for each other: the database aborts one.        *)
AbortSpec(u) ==
  /\ \E w \in SpecEditors : Blocks(w, u) /\ Blocks(u, w)
  /\ Refuse(u)

NextSpecs ==
  \/ \E p \in Profiles, scope \in Scopes : CreateProfile(p, scope)
  \/ \E u \in SpecEditors :
       \/ \E v \in Revisions, number \in VersionNumbers, window \in Windows :
            \/ \E op \in Edits : AskEdit(u, op, v, number, window)
            \/ \E p \in Profiles : AskCreate(u, v, p, number, window)
       \/ \E p \in Profiles, scope \in Scopes : AskRescope(u, p, scope)
       \/ LockRevision(u) \/ LockProfile(u) \/ LockSibling(u)
       \/ WriteSpec(u) \/ CommitSpec(u) \/ AbortSpec(u)

SpecsSpec == InitSpecs /\ [][NextSpecs]_specVars

-----------------------------------------------------------------------------
(* No day has two specifications in force for one scope, whatever calls run    *)
(* side by side: profiles of the same scope share nothing but the advisory     *)
(* lock of the trigger, and a rescheduled or rescoped version is checked too.  *)
OneSpecInForce ==
  \A v, w \in Revisions :
    v # w /\ Active(v) /\ Active(w)
    /\ profiles[revisions[v].profile].scope = profiles[revisions[w].profile].scope =>
      revisions[v].window \cap revisions[w].window = {}

(* A version was written for the scope its profile still has: a profile is     *)
(* moved to another scope only while it has no version, and not under a call   *)
(* that is creating one.                                                      *)
BoundScopeStays ==
  [][\A p \in Profiles : Bound(p) => profiles'[p].scope = profiles[p].scope]_specVars
=============================================================================
