--------------------------- MODULE SpecDeskProofs ---------------------------
(***************************************************************************)
(* Proofs about SpecDesk: no day has two specifications in force for one      *)
(* scope, and a profile that has a version keeps its scope.  The argument: a  *)
(* lock has one holder; a call that is about to commit holds the locks of its *)
(* version and profile, so that what it checked of them still holds, and the  *)
(* lock of its scope if it leaves a version active, so that no other can make *)
(* one active there between its check and its commit.                         *)
(***************************************************************************)
EXTENDS SpecDesk, TLAPS

Rooted == \A v \in Revisions : revisions[v] # None => profiles[revisions[v].profile] # None

Ready(u) ==
  IF call[u].op = "rescope"
  THEN call[u].scope = profiles[call[u].profile].scope \/ ~Bound(call[u].profile)
  ELSE WritesActive(u) => /\ <<"scope", profiles[call[u].profile].scope>> \in held[u]
                          /\ Overlapping(call[u].revision, Written(u)) = {}
Sound(u) ==
  /\ profiles[call[u].profile] # None
  /\ call[u].op \in Edits =>
       /\ revisions[call[u].revision] # None
       /\ revisions[call[u].revision].profile = call[u].profile
       /\ call[u].step # "revision" => <<"revision", call[u].revision>> \in held[u]
  /\ call[u].op = "create" => revisions[call[u].revision] = None
  /\ call[u].step \in {"sibling", "write", "commit"} => <<"profile", call[u].profile>> \in held[u]
  /\ call[u].step = "commit" => Ready(u)
SoundCalls == \A u \in SpecEditors : call[u] # None => Sound(u)

Creators ==
  \A u, w \in SpecEditors :
    /\ u # w /\ call[u] # None /\ call[u].op = "create"
    /\ call[w] # None /\ call[w].op = "create"
    => call[u].revision # call[w].revision
Exclusive ==
  /\ held = [u \in SpecEditors |-> held[u]]
  /\ \A u, w \in SpecEditors : u # w => held[u] \cap held[w] = {}

SpecInvariant ==
  SpecTypeOK /\ Rooted /\ SoundCalls /\ Creators /\ Exclusive /\ OneSpecInForce

-----------------------------------------------------------------------------
LEMMA CallFields ==
  ASSUME NEW c \in Call
  PROVE  /\ c # None /\ c.op \in Edits \cup {"create", "rescope"} /\ c.profile \in Profiles
         /\ c.op # "rescope" => c.revision \in Revisions /\ c.number \in VersionNumbers
                                /\ c.window \in Windows
         /\ c.op = "rescope" => c.scope \in Scopes /\ c.step \in {"profile", "write", "commit"}
BY SpecAssumption DEF Call, Edits, SpecAssumption

LEMMA RevisionFields ==
  ASSUME NEW row \in RevisionRow
  PROVE  row # None /\ row.profile \in Profiles /\ row.lock \in Nat /\ row.window \in Windows
BY SpecAssumption DEF RevisionRow, SpecAssumption

LEMMA ProfileFields ==
  ASSUME NEW row \in ProfileRow
  PROVE  row # None /\ row.scope \in Scopes /\ row.lock \in Nat
BY SpecAssumption DEF ProfileRow, SpecAssumption

LEMMA SpecsBegin == InitSpecs => SpecInvariant
<1> SUFFICES ASSUME InitSpecs PROVE SpecInvariant
  OBVIOUS
<1>1. SpecTypeOK /\ Rooted /\ SoundCalls /\ Creators /\ OneSpecInForce
  BY DEF InitSpecs, SpecTypeOK, Rooted, SoundCalls, Creators, OneSpecInForce, Active
<1>2. Exclusive
  BY DEF InitSpecs, Exclusive
<1> QED
  BY <1>1, <1>2 DEF SpecInvariant

(* What a call of an editor is.                                               *)
LEMMA CallOfEditor ==
  ASSUME SpecInvariant, NEW u \in SpecEditors, call[u] # None
  PROVE  /\ call[u] \in Call /\ Sound(u) /\ call[u].profile \in Profiles
         /\ call[u].op # "rescope" => call[u].revision \in Revisions
         /\ call[u].op \in Edits \cup {"create", "rescope"}
         /\ profiles[call[u].profile] \in ProfileRow
BY CallFields DEF SpecInvariant, SoundCalls, SpecTypeOK, Sound

(* What a call writes is a row of its profile.                                *)
LEMMA WrittenRow ==
  ASSUME SpecInvariant, NEW u \in SpecEditors, call[u] # None, call[u].op # "rescope"
  PROVE  Written(u) \in RevisionRow /\ Written(u).profile = call[u].profile
<1> DEFINE c == call[u]
<1>1. c \in Call /\ Sound(u) /\ c.profile \in Profiles /\ c.revision \in Revisions
      /\ c.number \in VersionNumbers /\ c.window \in Windows
      /\ c.op \in Edits \cup {"create"}
  BY CallOfEditor, CallFields
<1>2. CASE c.op = "create"
  BY <1>1, <1>2 DEF Written, RevisionRow
<1>3. CASE c.op \in Edits
  <2>1. PICK row \in RevisionRow : row = revisions[c.revision] /\ row.profile = c.profile
    BY <1>1, <1>3 DEF Sound, SpecInvariant, SpecTypeOK
  <2>2. row.lock + 1 \in Nat
    BY RevisionFields
  <2>3. CASE c.op = "update"
    <3>1. Written(u) = [row EXCEPT !.number = c.number, !.window = c.window, !.lock = row.lock + 1]
      BY <2>1, <2>3 DEF Written, RevisionRow
    <3> QED
      BY <1>1, <2>1, <2>2, <3>1 DEF RevisionRow
  <2>4. CASE c.op = "activate"
    <3>1. Written(u) = [row EXCEPT !.status = "ACTIVE", !.lock = row.lock + 1]
      BY <2>1, <2>4 DEF Written, RevisionRow
    <3> QED
      BY <2>1, <2>2, <3>1 DEF RevisionRow
  <2>5. CASE c.op = "retire"
    <3>1. Written(u) = [row EXCEPT !.status = "RETIRED", !.lock = row.lock + 1]
      BY <2>1, <2>5 DEF Written, RevisionRow
    <3> QED
      BY <2>1, <2>2, <3>1 DEF RevisionRow
  <2> QED
    BY <1>3, <2>3, <2>4, <2>5 DEF Edits
<1> QED
  BY <1>1, <1>2, <1>3

-----------------------------------------------------------------------------
(* While the tables and its own locks stay, a call stays sound.               *)
LEMMA WrittenStays ==
  ASSUME NEW u \in SpecEditors, call[u].op \in Edits \cup {"create"},
         call'[u].op = call[u].op, call'[u].revision = call[u].revision,
         call'[u].profile = call[u].profile, call'[u].number = call[u].number,
         call'[u].window = call[u].window,
         call[u].op = "create" \/ revisions'[call[u].revision] = revisions[call[u].revision]
  PROVE  Written(u)' = Written(u)
<1>1. CASE call[u].op = "create"
  BY <1>1 DEF Written
<1>2. CASE call[u].op = "update"
  BY <1>2 DEF Written
<1>3. CASE call[u].op = "activate"
  BY <1>3 DEF Written
<1>4. CASE call[u].op = "retire"
  BY <1>4 DEF Written
<1> QED
  BY <1>1, <1>2, <1>3, <1>4 DEF Edits

LEMMA SoundStays ==
  ASSUME SpecInvariant, NEW u \in SpecEditors, call[u] # None, call'[u] = call[u],
         held[u] \subseteq held'[u], UNCHANGED <<profiles, revisions>>
  PROVE  Sound(u)'
<1>1. /\ Sound(u) /\ call[u].profile \in Profiles
      /\ call[u].op \in Edits \cup {"create", "rescope"}
  BY CallOfEditor
<1>2. call[u].step = "commit" => Ready(u)'
  <2> SUFFICES ASSUME call[u].step = "commit" PROVE Ready(u)'
    OBVIOUS
  <2>1. Ready(u)
    BY <1>1 DEF Sound
  <2>2. CASE call[u].op = "rescope"
    BY <2>1, <2>2 DEF Ready, Bound
  <2>3. CASE call[u].op # "rescope"
    <3>1. Written(u)' = Written(u)
      BY <1>1, <2>3, WrittenStays
    <3>2. PICK row, v : row = Written(u) /\ v = call[u].revision
      OBVIOUS
    <3>3. Overlapping(v, row)' = Overlapping(v, row)
      BY DEF Overlapping, Active
    <3>4. WritesActive(u)' <=> WritesActive(u)
      BY <3>1 DEF WritesActive
    <3> QED
      BY <2>1, <2>3, <3>1, <3>2, <3>3, <3>4 DEF Ready
  <2> QED
    BY <2>2, <2>3
<1> QED
  BY <1>1, <1>2 DEF Sound

(* A step of one call that leaves the tables as they are.                     *)
LEMMA TablesStay ==
  ASSUME SpecInvariant, NEW u \in SpecEditors, NEW c \in Call \cup {None}, NEW locks,
         call' = [call EXCEPT ![u] = c], held' = [held EXCEPT ![u] = locks],
         UNCHANGED <<profiles, revisions>>,
         c # None => Sound(u)',
         \A w \in SpecEditors \ {u} : locks \cap held[w] = {},
         c # None /\ c.op = "create" =>
           \A w \in SpecEditors \ {u} :
             call[w] # None /\ call[w].op = "create" => call[w].revision # c.revision
  PROVE  SpecInvariant'
<1>1. SpecTypeOK /\ Exclusive
  BY DEF SpecInvariant
<1>2. /\ call'[u] = c /\ \A w \in SpecEditors \ {u} : call'[w] = call[w]
  BY <1>1 DEF SpecTypeOK
<1>3. /\ held' = [w \in SpecEditors |-> held'[w]]
      /\ held'[u] = locks /\ \A w \in SpecEditors \ {u} : held'[w] = held[w]
  <2>1. held = [w \in SpecEditors |-> held[w]]
    BY <1>1 DEF Exclusive
  <2> QED
    BY <2>1
<1>4. SpecTypeOK'
  BY <1>1 DEF SpecTypeOK
<1>5. Exclusive'
  <2>1. ASSUME NEW v \in SpecEditors, NEW w \in SpecEditors, v # w
        PROVE  held'[v] \cap held'[w] = {}
    BY <1>1, <1>3, <2>1 DEF Exclusive
  <2> QED
    BY <1>3, <2>1 DEF Exclusive
<1>6. SoundCalls'
  <2> SUFFICES ASSUME NEW w \in SpecEditors, call'[w] # None PROVE Sound(w)'
    BY DEF SoundCalls
  <2>1. CASE w = u
    BY <1>2, <2>1
  <2>2. CASE w # u
    BY <1>2, <1>3, <2>2, SoundStays
  <2> QED
    BY <2>1, <2>2
<1>7. Creators'
  BY <1>2 DEF Creators, SpecInvariant
<1>8. Rooted' /\ OneSpecInForce'
  BY DEF Rooted, OneSpecInForce, Active, SpecInvariant
<1> QED
  BY <1>4, <1>5, <1>6, <1>7, <1>8 DEF SpecInvariant

LEMMA RefusingKeeps ==
  ASSUME SpecInvariant, NEW u \in SpecEditors, Refuse(u)
  PROVE  SpecInvariant'
BY TablesStay DEF Refuse, Finish

(* A new call holds nothing yet that it needs.                                *)
LEMMA BeginningKeeps ==
  ASSUME SpecInvariant, NEW u \in SpecEditors, NEW c \in Call, Begin(u, c),
         profiles[c.profile] # None,
         c.op \in Edits => /\ revisions[c.revision] # None
                            /\ revisions[c.revision].profile = c.profile
                            /\ c.step = "revision",
         c.op = "create" =>
           /\ revisions[c.revision] = None
           /\ \A w \in SpecEditors \ {u} :
                call[w] # None /\ call[w].op = "create" => call[w].revision # c.revision,
         c.step \in {"revision", "profile"}
  PROVE  SpecInvariant'
<1>1. /\ call' = [call EXCEPT ![u] = c] /\ UNCHANGED <<profiles, revisions>>
      /\ held' = held
  BY DEF Begin
<1>2. held' = [held EXCEPT ![u] = held[u]]
  <2>1. held = [w \in SpecEditors |-> held[w]]
    BY DEF SpecInvariant, Exclusive
  <2> QED
    BY <1>1, <2>1
<1>3. call'[u] = c
  BY <1>1 DEF SpecInvariant, SpecTypeOK
<1>4. Sound(u)'
  BY <1>1, <1>3 DEF Sound
<1>5. \A w \in SpecEditors \ {u} : held[u] \cap held[w] = {}
  BY DEF SpecInvariant, Exclusive
<1> QED
  BY <1>1, <1>2, <1>4, <1>5, TablesStay

LEMMA AskingKeeps ==
  ASSUME SpecInvariant, NEW u \in SpecEditors, NEW v \in Revisions,
         NEW number \in VersionNumbers, NEW window \in Windows
  PROVE  /\ \A op \in Edits : AskEdit(u, op, v, number, window) => SpecInvariant'
         /\ \A p \in Profiles : AskCreate(u, v, p, number, window) => SpecInvariant'
<1>1. ASSUME NEW op \in Edits, AskEdit(u, op, v, number, window) PROVE SpecInvariant'
  <2>1. revisions[v] \in RevisionRow
    BY <1>1 DEF AskEdit, SpecInvariant, SpecTypeOK
  <2>2. PICK c : c = [op |-> op, revision |-> v, profile |-> revisions[v].profile,
                      seen |-> revisions[v].lock, number |-> number, window |-> window,
                      step |-> "revision"]
    OBVIOUS
  <2>3. revisions[v].profile \in Profiles /\ revisions[v].lock \in Nat
    BY <2>1, RevisionFields
  <2>4. c \in Call
    BY <2>2, <2>3 DEF Call
  <2>5. /\ c.op = op /\ c.revision = v /\ c.profile = revisions[v].profile
        /\ c.step = "revision"
    BY <2>2
  <2>6. Begin(u, c) /\ revisions[v] # None
    BY <1>1, <2>2 DEF AskEdit
  <2>7. profiles[c.profile] # None
    BY <2>5, <2>6 DEF SpecInvariant, Rooted
  <2>8. c.op # "create"
    BY <2>5 DEF Edits
  <2> QED
    BY <2>4, <2>5, <2>6, <2>7, <2>8, BeginningKeeps
<1>2. ASSUME NEW p \in Profiles, AskCreate(u, v, p, number, window) PROVE SpecInvariant'
  <2>1. PICK c : c = [op |-> "create", revision |-> v, profile |-> p, seen |-> 0,
                      number |-> number, window |-> window, step |-> "profile"]
    OBVIOUS
  <2>2. c \in Call
    BY <2>1 DEF Call
  <2>3. c.op = "create" /\ c.revision = v /\ c.profile = p /\ c.step = "profile"
    BY <2>1
  <2>4. Begin(u, c) /\ revisions[v] = None /\ profiles[p] # None
        /\ \A w \in SpecEditors : call[w] # None /\ call[w].op = "create" => call[w].revision # v
    BY <1>2, <2>1 DEF AskCreate
  <2>5. c.op \notin Edits
    BY <2>3 DEF Edits
  <2> QED
    BY <2>2, <2>3, <2>4, <2>5, BeginningKeeps
<1> QED
  BY <1>1, <1>2

LEMMA AskingToRescopeKeeps ==
  ASSUME SpecInvariant, NEW u \in SpecEditors, NEW p \in Profiles, NEW scope \in Scopes,
         AskRescope(u, p, scope)
  PROVE  SpecInvariant'
<1>1. profiles[p] \in ProfileRow /\ profiles[p] # None
  BY DEF AskRescope, SpecInvariant, SpecTypeOK
<1>2. PICK c : c = [op |-> "rescope", profile |-> p, seen |-> profiles[p].lock,
                    scope |-> scope, step |-> "profile"]
  OBVIOUS
<1>3. c \in Call
  BY <1>1, <1>2, ProfileFields DEF Call
<1>4. c.op = "rescope" /\ c.profile = p /\ c.step = "profile"
  BY <1>2
<1>5. Begin(u, c)
  BY <1>2 DEF AskRescope
<1>6. c.op \notin Edits /\ c.op # "create"
  BY <1>4 DEF Edits
<1> QED
  BY <1>1, <1>3, <1>4, <1>5, <1>6, BeginningKeeps

-----------------------------------------------------------------------------
(* A step to the next statement of a call, whose locks it was granted.        *)
LEMMA GoingKeeps ==
  ASSUME SpecInvariant, NEW u \in SpecEditors, call[u] # None, NEW step, Go(u, step), FreeToGo(u),
         [call[u] EXCEPT !.step = step] \in Call,
         call[u].op \in Edits /\ step # "revision" =>
           <<"revision", call[u].revision>> \in held[u] \cup Wanted(u),
         step \in {"sibling", "write", "commit"} =>
           <<"profile", call[u].profile>> \in held[u] \cup Wanted(u),
         step = "commit" => Ready(u)'
  PROVE  SpecInvariant'
<1>1. PICK c \in Call : c = [call[u] EXCEPT !.step = step]
  OBVIOUS
<1>2. PICK locks : locks = held[u] \cup Wanted(u)
  OBVIOUS
<1>3. /\ call' = [call EXCEPT ![u] = c] /\ held' = [held EXCEPT ![u] = locks]
      /\ UNCHANGED <<profiles, revisions>>
  BY <1>1, <1>2 DEF Go
<1>4. /\ call[u] \in Call /\ Sound(u)
  BY CallOfEditor
<1>5. /\ c.op = call[u].op /\ c.profile = call[u].profile /\ c.step = step
      /\ c.op # "rescope" => c.revision = call[u].revision
  BY <1>1, <1>4 DEF Call, Edits
<1>6. call'[u] = c /\ held'[u] = locks
  BY <1>3 DEF SpecInvariant, SpecTypeOK, Exclusive
<1>7. Sound(u)'
  BY <1>2, <1>3, <1>4, <1>5, <1>6 DEF Sound, Edits
<1>8. \A w \in SpecEditors \ {u} : locks \cap held[w] = {}
  <2> SUFFICES ASSUME NEW w \in SpecEditors \ {u} PROVE locks \cap held[w] = {}
    OBVIOUS
  <2>1. Wanted(u) \cap held[w] = {}
    BY DEF FreeToGo, Blocks
  <2>2. held[u] \cap held[w] = {}
    BY DEF SpecInvariant, Exclusive
  <2> QED
    BY <1>2, <2>1, <2>2
<1>9. c.op = "create" =>
        \A w \in SpecEditors \ {u} :
          call[w] # None /\ call[w].op = "create" => call[w].revision # c.revision
  BY <1>5 DEF SpecInvariant, Creators
<1> QED
  BY <1>3, <1>7, <1>8, <1>9, TablesStay

LEMMA LockingRevisionKeeps ==
  ASSUME SpecInvariant, NEW u \in SpecEditors, LockRevision(u)
  PROVE  SpecInvariant'
<1>1. call[u] # None /\ call[u].step = "revision" /\ FreeToGo(u) /\ Go(u, "profile")
  BY DEF LockRevision
<1>2. call[u] \in Call
  BY <1>1, CallOfEditor
<1>3. [call[u] EXCEPT !.step = "profile"] \in Call
  BY <1>1, <1>2 DEF Call
<1>4. <<"revision", call[u].revision>> \in Wanted(u)
  BY <1>1 DEF Wanted
<1> QED
  BY <1>1, <1>3, <1>4, GoingKeeps

LEMMA LockingProfileKeeps ==
  ASSUME SpecInvariant, NEW u \in SpecEditors, LockProfile(u)
  PROVE  SpecInvariant'
<1>1. call[u] # None /\ call[u].step = "profile" /\ FreeToGo(u)
  BY DEF LockProfile
<1>2. call[u] \in Call /\ Sound(u)
  BY <1>1, CallOfEditor
<1>3. CASE Refuse(u)
  BY <1>3, RefusingKeeps
<1>4. CASE Go(u, IF call[u].op = "activate" THEN "sibling" ELSE "write")
  <2>1. PICK step \in {"sibling", "write"} :
          step = IF call[u].op = "activate" THEN "sibling" ELSE "write"
    OBVIOUS
  <2>2. [call[u] EXCEPT !.step = step] \in Call
    BY <1>1, <1>2, <2>1 DEF Call, Edits
  <2>3. <<"profile", call[u].profile>> \in Wanted(u)
    BY <1>1 DEF Wanted
  <2>4. call[u].op \in Edits => <<"revision", call[u].revision>> \in held[u]
    BY <1>1, <1>2 DEF Sound
  <2>5. Go(u, step)
    BY <1>4, <2>1
  <2> QED
    BY <1>1, <2>2, <2>3, <2>4, <2>5, GoingKeeps
<1> QED
  BY <1>3, <1>4 DEF LockProfile

LEMMA LockingSiblingKeeps ==
  ASSUME SpecInvariant, NEW u \in SpecEditors, LockSibling(u)
  PROVE  SpecInvariant'
<1>1. call[u] # None /\ call[u].step = "sibling" /\ FreeToGo(u)
  BY DEF LockSibling
<1>2. call[u] \in Call /\ Sound(u)
  BY <1>1, CallOfEditor
<1>3. CASE Refuse(u)
  BY <1>3, RefusingKeeps
<1>4. CASE Go(u, "write")
  <2>1. [call[u] EXCEPT !.step = "write"] \in Call
    BY <1>1, <1>2 DEF Call
  <2>2. <<"profile", call[u].profile>> \in held[u]
        /\ (call[u].op \in Edits => <<"revision", call[u].revision>> \in held[u])
    BY <1>1, <1>2 DEF Sound
  <2> QED
    BY <1>1, <1>4, <2>1, <2>2, GoingKeeps
<1> QED
  BY <1>3, <1>4 DEF LockSibling

(* The flush: what its triggers check is what the commit relies on.           *)
LEMMA WritingKeeps ==
  ASSUME SpecInvariant, NEW u \in SpecEditors, WriteSpec(u)
  PROVE  SpecInvariant'
<1>1. call[u] # None /\ call[u].step = "write" /\ FreeToGo(u)
  BY DEF WriteSpec
<1>2. /\ call[u] \in Call /\ Sound(u) /\ call[u].op \in Edits \cup {"create", "rescope"}
  BY <1>1, CallOfEditor
<1>3. CASE Refuse(u)
  BY <1>3, RefusingKeeps
<1>4. CASE Writable(u) /\ Go(u, "commit")
  <2>1. [call[u] EXCEPT !.step = "commit"] \in Call
    BY <1>1, <1>2 DEF Call
  <2>2. <<"profile", call[u].profile>> \in held[u]
        /\ (call[u].op \in Edits => <<"revision", call[u].revision>> \in held[u])
    BY <1>1, <1>2 DEF Sound
  <2>3. /\ UNCHANGED <<profiles, revisions>>
        /\ call'[u] = [call[u] EXCEPT !.step = "commit"]
        /\ held'[u] = held[u] \cup Wanted(u)
    BY <1>4 DEF Go, SpecInvariant, SpecTypeOK, Exclusive
  <2>4. Ready(u)'
    <3>1. CASE call[u].op = "rescope"
      <4>1. /\ call'[u].op = "rescope" /\ call'[u].scope = call[u].scope
            /\ call'[u].profile = call[u].profile
        BY <1>2, <2>3, <3>1 DEF Call
      <4>2. call[u].scope = profiles[call[u].profile].scope \/ ~Bound(call[u].profile)
        BY <1>4, <3>1 DEF Writable
      <4> QED
        BY <2>3, <4>1, <4>2 DEF Ready, Bound
    <3>2. CASE call[u].op # "rescope"
      <4>1. /\ call'[u].op = call[u].op /\ call'[u].revision = call[u].revision
            /\ call'[u].profile = call[u].profile /\ call'[u].number = call[u].number
            /\ call'[u].window = call[u].window
        BY <1>2, <2>3, <3>2 DEF Call
      <4>2. Written(u)' = Written(u)
        BY <1>2, <2>3, <3>2, <4>1, WrittenStays
      <4>3. WritesActive(u)' <=> WritesActive(u)
        BY <4>1, <4>2 DEF WritesActive
      <4>4. PICK row, v : row = Written(u) /\ v = call[u].revision
        OBVIOUS
      <4>5. Overlapping(v, row)' = Overlapping(v, row)
        BY <2>3 DEF Overlapping, Active
      <4>6. WritesActive(u) => Overlapping(v, row) = {}
        BY <1>4, <3>2, <4>4 DEF Writable
      <4>7. WritesActive(u) => <<"scope", profiles[call[u].profile].scope>> \in held'[u]
        BY <1>1, <2>3 DEF Wanted, ScopeLock
      <4> QED
        BY <2>3, <3>2, <4>1, <4>2, <4>3, <4>4, <4>5, <4>6, <4>7 DEF Ready
    <3> QED
      BY <3>1, <3>2
  <2> QED
    BY <1>1, <1>4, <2>1, <2>2, <2>4, GoingKeeps
<1> QED
  BY <1>3, <1>4 DEF WriteSpec

LEMMA CreatingProfileKeeps ==
  ASSUME SpecInvariant, NEW p \in Profiles, NEW scope \in Scopes, CreateProfile(p, scope)
  PROVE  SpecInvariant'
<1>1. PICK row : row = [scope |-> scope, lock |-> 1]
  OBVIOUS
<1>2. row \in ProfileRow /\ row # None
  BY <1>1, ProfileFields DEF ProfileRow
<1>3. /\ profiles[p] = None /\ profiles' = [profiles EXCEPT ![p] = row]
      /\ UNCHANGED <<revisions, call, held>> /\ SpecTypeOK
  BY <1>1 DEF CreateProfile, SpecInvariant
<1>4. profiles'[p] = row /\ \A q \in Profiles \ {p} : profiles'[q] = profiles[q]
  BY <1>3 DEF SpecTypeOK
<1>5. SpecTypeOK'
  BY <1>2, <1>3 DEF SpecTypeOK
<1>6. \A v \in Revisions : revisions[v] # None =>
        revisions[v].profile \in Profiles \ {p}
  BY <1>3, RevisionFields DEF SpecInvariant, Rooted, SpecTypeOK
<1>7. Rooted'
  BY <1>3, <1>4, <1>6 DEF SpecInvariant, Rooted
<1>8. OneSpecInForce'
  BY <1>3, <1>4, <1>6 DEF SpecInvariant, OneSpecInForce, Active
<1>9. SoundCalls'
  <2> SUFFICES ASSUME NEW u \in SpecEditors, call[u] # None PROVE Sound(u)'
    BY <1>3 DEF SoundCalls
  <2>1. /\ Sound(u) /\ call[u].profile \in Profiles /\ call[u].profile # p
        /\ call[u].op \in Edits \cup {"create", "rescope"}
    BY <1>3, CallOfEditor DEF Sound
  <2>2. call[u].step = "commit" => Ready(u)'
    <3> SUFFICES ASSUME call[u].step = "commit" PROVE Ready(u)'
      OBVIOUS
    <3>1. Ready(u)
      BY <2>1 DEF Sound
    <3>2. CASE call[u].op = "rescope"
      BY <1>3, <1>4, <2>1, <3>1, <3>2 DEF Ready, Bound
    <3>3. CASE call[u].op # "rescope"
      <4>1. Written(u)' = Written(u) /\ Written(u).profile = call[u].profile
        BY <1>3, <2>1, <3>3, WrittenStays, WrittenRow
      <4>2. PICK row2, v : row2 \in RevisionRow /\ row2 = Written(u) /\ v = call[u].revision
        BY <3>3, WrittenRow
      <4>3. row2.profile # p /\ row2.profile \in Profiles
        BY <2>1, <4>1, <4>2
      <4>4. Overlapping(v, row2)' = Overlapping(v, row2)
        BY <1>3, <1>4, <1>6, <4>3 DEF Overlapping, Active
      <4>5. WritesActive(u)' <=> WritesActive(u)
        BY <1>3, <4>1 DEF WritesActive
      <4> QED
        BY <1>3, <1>4, <2>1, <3>1, <3>3, <4>1, <4>2, <4>4, <4>5 DEF Ready
    <3> QED
      BY <3>2, <3>3
  <2> QED
    BY <1>2, <1>3, <1>4, <2>1, <2>2 DEF Sound
<1>10. Creators' /\ Exclusive'
  BY <1>3 DEF SpecInvariant, Creators, Exclusive
<1> QED
  BY <1>5, <1>7, <1>8, <1>9, <1>10 DEF SpecInvariant

-----------------------------------------------------------------------------
(* The commit of a version.  The calls under way keep what they rely on: one   *)
(* that is past its first lock is of another version, one about to write       *)
(* another scope's active version holds another scope's lock.                  *)
LEMMA CommittedRow ==
  ASSUME SpecInvariant, NEW u \in SpecEditors, CommitSpec(u), call[u].op # "rescope"
  PROVE  \E v \in Revisions, row \in RevisionRow :
           /\ v = call[u].revision /\ row = Written(u) /\ row # None
           /\ row.profile = call[u].profile /\ row.profile \in Profiles
           /\ revisions'[v] = row
           /\ \A x \in Revisions \ {v} : revisions'[x] = revisions[x]
           /\ revisions' \in [Revisions -> RevisionRow \cup {None}]
           /\ profiles' = profiles
           /\ row.status = "ACTIVE" =>
                /\ <<"scope", profiles[row.profile].scope>> \in held[u]
                /\ Overlapping(v, row) = {}
<1>1. /\ call[u] # None /\ call[u].step = "commit"
      /\ revisions' = [revisions EXCEPT ![call[u].revision] = Written(u)]
      /\ profiles' = profiles
  BY DEF CommitSpec
<1>2. /\ Sound(u) /\ Ready(u) /\ call[u].revision \in Revisions
      /\ call[u].op \in Edits \cup {"create"}
  BY <1>1, CallOfEditor DEF Sound
<1>3. PICK v \in Revisions, row \in RevisionRow :
        v = call[u].revision /\ row = Written(u) /\ row.profile = call[u].profile
  BY <1>1, <1>2, WrittenRow
<1>4. row # None /\ row.profile \in Profiles
  BY RevisionFields
<1>5. revisions \in [Revisions -> RevisionRow \cup {None}]
  BY DEF SpecInvariant, SpecTypeOK
<1>6. /\ revisions'[v] = row /\ \A x \in Revisions \ {v} : revisions'[x] = revisions[x]
      /\ revisions' \in [Revisions -> RevisionRow \cup {None}]
  BY <1>1, <1>3, <1>5
<1>7. row.status = "ACTIVE" =>
        /\ <<"scope", profiles[row.profile].scope>> \in held[u]
        /\ Overlapping(v, row) = {}
  BY <1>2, <1>3 DEF Ready, WritesActive
<1> QED
  BY <1>1, <1>3, <1>4, <1>6, <1>7

LEMMA OthersStaySound ==
  ASSUME SpecInvariant, NEW u \in SpecEditors, CommitSpec(u), call[u].op # "rescope",
         NEW w \in SpecEditors, w # u, call[w] # None
  PROVE  Sound(w)'
<1>1. PICK v \in Revisions, row \in RevisionRow :
           /\ v = call[u].revision /\ row = Written(u) /\ row # None
           /\ row.profile = call[u].profile /\ row.profile \in Profiles
           /\ revisions'[v] = row
           /\ \A x \in Revisions \ {v} : revisions'[x] = revisions[x]
           /\ profiles' = profiles
           /\ row.status = "ACTIVE" =>
                /\ <<"scope", profiles[row.profile].scope>> \in held[u]
                /\ Overlapping(v, row) = {}
  BY CommittedRow
<1>2. /\ call[u] # None /\ call[u].step = "commit" /\ Finish(u)
  BY DEF CommitSpec
<1>3. call'[w] = call[w] /\ held'[w] = held[w]
  BY <1>2 DEF Finish, SpecInvariant, SpecTypeOK, Exclusive
<1>4. /\ Sound(u) /\ call[u].op \in Edits \cup {"create"}
  BY <1>2, CallOfEditor
<1>5. /\ Sound(w) /\ call[w].op \in Edits \cup {"create", "rescope"}
      /\ call[w].profile \in Profiles
      /\ call[w].op # "rescope" => call[w].revision \in Revisions
  BY CallOfEditor
<1>6. held[u] \cap held[w] = {}
  BY DEF SpecInvariant, Exclusive
<1>7. call[w].op = "create" => call[w].revision # v
  <2>1. CASE call[u].op = "create"
    BY <1>1, <1>2, <2>1 DEF SpecInvariant, Creators
  <2>2. CASE call[u].op \in Edits
    BY <1>1, <1>4, <1>5, <2>2 DEF Sound
  <2> QED
    BY <1>4, <2>1, <2>2
<1>8. call[w].op \in Edits => revisions'[call[w].revision] # None
                             /\ revisions'[call[w].revision].profile = call[w].profile
  <2> SUFFICES ASSUME call[w].op \in Edits
               PROVE  revisions'[call[w].revision] # None
                      /\ revisions'[call[w].revision].profile = call[w].profile
    OBVIOUS
  <2>1. /\ revisions[call[w].revision] # None
        /\ revisions[call[w].revision].profile = call[w].profile
        /\ call[w].revision \in Revisions
    BY <1>5 DEF Sound, Edits
  <2>2. CASE call[w].revision # v
    BY <1>1, <2>1, <2>2
  <2>3. CASE call[w].revision = v
    BY <1>1, <1>4, <2>1, <2>3 DEF Sound
  <2> QED
    BY <2>2, <2>3
<1>9. call[w].op \in Edits /\ call[w].step # "revision" => call[w].revision # v
  <2> SUFFICES ASSUME call[w].op \in Edits, call[w].step # "revision", call[w].revision = v
               PROVE  FALSE
    OBVIOUS
  <2>1. <<"revision", v>> \in held[w] /\ revisions[v] # None
    BY <1>5 DEF Sound
  <2>2. call[u].op \in Edits
    BY <1>1, <1>4, <2>1 DEF Sound
  <2>3. <<"revision", v>> \in held[u]
    BY <1>1, <1>2, <1>4, <2>2 DEF Sound
  <2> QED
    BY <1>6, <2>1, <2>3
<1>10. call[w].step = "commit" => Ready(w)'
  <2> SUFFICES ASSUME call[w].step = "commit" PROVE Ready(w)'
    OBVIOUS
  <2>1. Ready(w)
    BY <1>5 DEF Sound
  <2>2. CASE call[w].op = "rescope"
    <3>1. call[w].profile # row.profile
      BY <1>1, <1>2, <1>4, <1>5, <1>6 DEF Sound
    <3>2. PICK p \in Profiles : p = call[w].profile
      BY <1>5
    <3>3. Bound(p)' => Bound(p)
      BY <1>1, <3>1, <3>2 DEF Bound
    <3> QED
      BY <1>1, <1>3, <2>1, <2>2, <3>2, <3>3 DEF Ready
  <2>3. CASE call[w].op # "rescope"
    <3>1. call[w].revision # v /\ call[w].op \in Edits \cup {"create"}
      BY <1>5, <1>7, <1>9, <2>3
    <3>2. revisions'[call[w].revision] = revisions[call[w].revision]
      BY <1>1, <1>5, <2>3, <3>1
    <3>3. Written(w)' = Written(w)
      BY <1>3, <3>1, <3>2, WrittenStays
    <3>4. WritesActive(w)' <=> WritesActive(w)
      BY <1>3, <3>3 DEF WritesActive
    <3>5. PICK mine, x :
            /\ mine \in RevisionRow /\ mine = Written(w)
            /\ x = call[w].revision /\ mine.profile = call[w].profile
      BY <2>3, WrittenRow
    <3>6. ASSUME WritesActive(w) PROVE Overlapping(x, mine)' = {}
      <4>1. /\ <<"scope", profiles[mine.profile].scope>> \in held[w]
            /\ Overlapping(x, mine) = {}
        BY <2>1, <2>3, <3>5, <3>6 DEF Ready
      <4> SUFFICES ASSUME NEW y \in Overlapping(x, mine)' PROVE FALSE
        OBVIOUS
      <4>2. /\ y \in Revisions \ {x} /\ revisions'[y] # None /\ revisions'[y].status = "ACTIVE"
            /\ revisions'[y].window \cap mine.window # {}
            /\ profiles[revisions'[y].profile].scope = profiles[mine.profile].scope
        BY <1>1 DEF Overlapping, Active
      <4>3. CASE y = v
        <5>1. <<"scope", profiles[row.profile].scope>> \in held[u]
          BY <1>1, <4>2, <4>3
        <5> QED
          BY <1>1, <1>6, <4>1, <4>2, <4>3, <5>1
      <4>4. CASE y # v
        <5>1. y \in Overlapping(x, mine)
          BY <1>1, <4>2, <4>4 DEF Overlapping, Active
        <5> QED
          BY <4>1, <5>1
      <4> QED
        BY <4>3, <4>4
    <3> QED
      BY <1>1, <1>3, <2>1, <2>3, <3>3, <3>4, <3>5, <3>6 DEF Ready
  <2> QED
    BY <2>2, <2>3
<1>11. call[w].op = "create" => revisions'[call[w].revision] = None
  BY <1>1, <1>5, <1>7 DEF Sound
<1> QED
  BY <1>1, <1>3, <1>5, <1>8, <1>10, <1>11 DEF Sound

LEMMA CommittingVersionKeeps ==
  ASSUME SpecInvariant, NEW u \in SpecEditors, CommitSpec(u), call[u].op # "rescope"
  PROVE  SpecInvariant'
<1>1. PICK v \in Revisions, row \in RevisionRow :
           /\ v = call[u].revision /\ row = Written(u) /\ row # None
           /\ row.profile = call[u].profile /\ row.profile \in Profiles
           /\ revisions'[v] = row
           /\ \A x \in Revisions \ {v} : revisions'[x] = revisions[x]
           /\ revisions' \in [Revisions -> RevisionRow \cup {None}]
           /\ profiles' = profiles
           /\ row.status = "ACTIVE" =>
                /\ <<"scope", profiles[row.profile].scope>> \in held[u]
                /\ Overlapping(v, row) = {}
  BY CommittedRow
<1>2. /\ call[u] # None /\ call[u].step = "commit" /\ Finish(u)
  BY DEF CommitSpec
<1>3. SpecTypeOK /\ Rooted /\ OneSpecInForce /\ Creators /\ Exclusive
  BY DEF SpecInvariant
<1>4. call'[u] = None /\ \A w \in SpecEditors \ {u} : call'[w] = call[w]
  BY <1>2, <1>3 DEF Finish, SpecTypeOK
<1>5. SpecTypeOK'
  BY <1>1, <1>2, <1>3 DEF Finish, SpecTypeOK
<1>6. Rooted'
  <2>1. profiles[row.profile] # None
    BY <1>1, <1>2, CallOfEditor DEF Sound
  <2> QED
    BY <1>1, <1>3, <2>1 DEF Rooted
<1>7. SoundCalls'
  BY <1>4, OthersStaySound DEF SoundCalls
<1>8. Creators'
  BY <1>3, <1>4 DEF Creators
<1>9. Exclusive'
  BY <1>2, <1>3 DEF Finish, Exclusive
<1>10. OneSpecInForce'
  <2> SUFFICES ASSUME NEW x \in Revisions, NEW y \in Revisions, x # y,
                      Active(x)', Active(y)',
                      profiles[revisions'[x].profile].scope = profiles[revisions'[y].profile].scope
               PROVE  revisions'[x].window \cap revisions'[y].window = {}
    BY <1>1 DEF OneSpecInForce
  <2>1. CASE x # v /\ y # v
    BY <1>1, <1>3, <2>1 DEF OneSpecInForce, Active
  <2>2. ASSUME NEW z \in Revisions \ {v}, Active(v)', Active(z)',
               profiles[row.profile].scope = profiles[revisions'[z].profile].scope
        PROVE  row.window \cap revisions'[z].window = {}
    <3>1. z \notin Overlapping(v, row)
      BY <1>1, <2>2 DEF Active
    <3> QED
      BY <1>1, <2>2, <3>1 DEF Overlapping, Active
  <2> QED
    BY <1>1, <2>1, <2>2
<1> QED
  BY <1>5, <1>6, <1>7, <1>8, <1>9, <1>10 DEF SpecInvariant

-----------------------------------------------------------------------------
(* The commit of a profile: its scope changes only while it has no version.    *)
LEMMA RescopedRow ==
  ASSUME SpecInvariant, NEW u \in SpecEditors, CommitSpec(u), call[u].op = "rescope"
  PROVE  \E p \in Profiles :
           /\ p = call[u].profile /\ profiles'[p] # None /\ revisions' = revisions
           /\ profiles' \in [Profiles -> ProfileRow \cup {None}]
           /\ Bound(p) => profiles'[p].scope = profiles[p].scope
           /\ \A q \in Profiles \ {p} : profiles'[q] = profiles[q]
           /\ <<"profile", p>> \in held[u]
<1>1. call[u] # None /\ call[u].step = "commit"
  BY DEF CommitSpec
<1>2. /\ Sound(u) /\ call[u] \in Call /\ call[u].profile \in Profiles
      /\ profiles[call[u].profile] \in ProfileRow
  BY <1>1, CallOfEditor
<1>3. PICK p \in Profiles, old \in ProfileRow, s \in Scopes :
        p = call[u].profile /\ old = profiles[p] /\ s = call[u].scope
  BY <1>2, CallFields
<1>4. PICK new : new = [scope |-> s, lock |-> old.lock + 1]
  OBVIOUS
<1>5. old.lock \in Nat /\ old.lock + 1 \in Nat
  BY ProfileFields
<1>6. new \in ProfileRow /\ new.scope = s
  BY <1>4, <1>5 DEF ProfileRow
<1>7. profiles' = [profiles EXCEPT ![p] = new] /\ revisions' = revisions
  BY <1>3, <1>4 DEF CommitSpec
<1>8. profiles \in [Profiles -> ProfileRow \cup {None}]
  BY DEF SpecInvariant, SpecTypeOK
<1>9. /\ profiles' \in [Profiles -> ProfileRow \cup {None}] /\ profiles'[p] = new
      /\ \A q \in Profiles \ {p} : profiles'[q] = profiles[q]
  BY <1>6, <1>7, <1>8
<1>10. Bound(p) => s = old.scope
  BY <1>1, <1>2, <1>3 DEF Sound, Ready
<1>11. <<"profile", p>> \in held[u]
  BY <1>1, <1>2, <1>3 DEF Sound
<1>12. new # None
  BY <1>6, ProfileFields
<1> QED
  BY <1>3, <1>6, <1>7, <1>9, <1>10, <1>11, <1>12

LEMMA RescopingKeeps ==
  ASSUME SpecInvariant, NEW u \in SpecEditors, CommitSpec(u), call[u].op = "rescope"
  PROVE  SpecInvariant'
<1>1. PICK p \in Profiles :
           /\ p = call[u].profile /\ profiles'[p] # None /\ revisions' = revisions
           /\ profiles' \in [Profiles -> ProfileRow \cup {None}]
           /\ Bound(p) => profiles'[p].scope = profiles[p].scope
           /\ \A q \in Profiles \ {p} : profiles'[q] = profiles[q]
           /\ <<"profile", p>> \in held[u]
  BY RescopedRow
<1>2. call[u] # None /\ Finish(u)
  BY DEF CommitSpec
<1>3. SpecTypeOK /\ Rooted /\ OneSpecInForce /\ Creators /\ Exclusive
  BY DEF SpecInvariant
<1>4. call'[u] = None /\ \A w \in SpecEditors \ {u} : call'[w] = call[w] /\ held'[w] = held[w]
  BY <1>2, <1>3 DEF Finish, SpecTypeOK, Exclusive
<1>5. SpecTypeOK'
  BY <1>1, <1>2, <1>3 DEF Finish, SpecTypeOK
<1>6. ASSUME NEW x \in Revisions, revisions[x] # None
      PROVE  /\ profiles'[revisions[x].profile].scope = profiles[revisions[x].profile].scope
             /\ profiles'[revisions[x].profile] # None
             /\ revisions[x].profile \in Profiles
  <2>1. revisions[x].profile \in Profiles
    BY <1>3, <1>6, RevisionFields DEF SpecTypeOK
  <2>2. CASE revisions[x].profile = p
    <3>1. Bound(p)
      BY <1>6, <2>2 DEF Bound
    <3> QED
      BY <1>1, <2>2, <3>1
  <2>3. CASE revisions[x].profile # p
    BY <1>1, <1>3, <1>6, <2>1, <2>3 DEF Rooted
  <2> QED
    BY <2>1, <2>2, <2>3
<1>7. Rooted' /\ OneSpecInForce'
  BY <1>1, <1>3, <1>6 DEF Rooted, OneSpecInForce, Active
<1>8. Creators'
  BY <1>3, <1>4 DEF Creators
<1>9. Exclusive'
  BY <1>2, <1>3 DEF Finish, Exclusive
<1>10. SoundCalls'
  <2> SUFFICES ASSUME NEW w \in SpecEditors \ {u}, call[w] # None PROVE Sound(w)'
    BY <1>4 DEF SoundCalls
  <2>1. /\ Sound(w) /\ call[w].op \in Edits \cup {"create", "rescope"}
        /\ call[w].profile \in Profiles
    BY CallOfEditor
  <2>2. profiles'[call[w].profile] # None
    BY <1>1, <2>1 DEF Sound
  <2>3. call[w].step = "commit" => Ready(w)'
    <3> SUFFICES ASSUME call[w].step = "commit" PROVE Ready(w)'
      OBVIOUS
    <3>1. Ready(w) /\ <<"profile", call[w].profile>> \in held[w]
      BY <2>1 DEF Sound
    <3>2. call[w].profile # p
      BY <1>1, <1>3, <3>1 DEF Exclusive
    <3>3. profiles'[call[w].profile] = profiles[call[w].profile]
      BY <1>1, <2>1, <3>2
    <3>4. CASE call[w].op = "rescope"
      BY <1>1, <1>4, <3>1, <3>3, <3>4 DEF Ready, Bound
    <3>5. CASE call[w].op # "rescope"
      <4>1. Written(w)' = Written(w) /\ Written(w).profile = call[w].profile
        BY <1>1, <1>4, <2>1, <3>5, WrittenStays, WrittenRow
      <4>2. PICK mine, x : mine = Written(w) /\ x = call[w].revision
        OBVIOUS
      <4>3. profiles'[mine.profile] = profiles[mine.profile]
        BY <3>3, <4>1, <4>2
      <4>4. Overlapping(x, mine)' = Overlapping(x, mine)
        BY <1>1, <1>6, <4>3 DEF Overlapping, Active
      <4>5. WritesActive(w)' <=> WritesActive(w)
        BY <1>4, <4>1 DEF WritesActive
      <4> QED
        BY <1>4, <3>1, <3>3, <3>5, <4>1, <4>2, <4>4, <4>5 DEF Ready
    <3> QED
      BY <3>4, <3>5
  <2> QED
    BY <1>1, <1>4, <2>1, <2>2, <2>3 DEF Sound
<1> QED
  BY <1>5, <1>7, <1>8, <1>9, <1>10 DEF SpecInvariant

-----------------------------------------------------------------------------
LEMMA SpecSteps == SpecInvariant /\ [NextSpecs]_specVars => SpecInvariant'
<1> SUFFICES ASSUME SpecInvariant, [NextSpecs]_specVars PROVE SpecInvariant'
  OBVIOUS
<1>1. CASE UNCHANGED specVars
  <2>1. UNCHANGED <<profiles, revisions, call, held>>
    BY <1>1 DEF specVars
  <2>2. SoundCalls'
    BY <2>1, SoundStays DEF SoundCalls
  <2> QED
    BY <2>1, <2>2 DEF SpecInvariant, SpecTypeOK, Rooted, Creators, Exclusive, OneSpecInForce,
                      Active
<1>2. ASSUME NEW p \in Profiles, NEW scope \in Scopes, CreateProfile(p, scope)
      PROVE  SpecInvariant'
  BY <1>2, CreatingProfileKeeps
<1>3. ASSUME NEW u \in SpecEditors, NEW v \in Revisions, NEW number \in VersionNumbers,
             NEW window \in Windows,
             (\E op \in Edits : AskEdit(u, op, v, number, window))
             \/ (\E p \in Profiles : AskCreate(u, v, p, number, window))
      PROVE  SpecInvariant'
  BY <1>3, AskingKeeps
<1>4. ASSUME NEW u \in SpecEditors, NEW p \in Profiles, NEW scope \in Scopes,
             AskRescope(u, p, scope)
      PROVE  SpecInvariant'
  BY <1>4, AskingToRescopeKeeps
<1>5. ASSUME NEW u \in SpecEditors,
             LockRevision(u) \/ LockProfile(u) \/ LockSibling(u) \/ WriteSpec(u)
      PROVE  SpecInvariant'
  BY <1>5, LockingRevisionKeeps, LockingProfileKeeps, LockingSiblingKeeps, WritingKeeps
<1>6. ASSUME NEW u \in SpecEditors, CommitSpec(u) PROVE SpecInvariant'
  BY <1>6, CommittingVersionKeeps, RescopingKeeps
<1>7. ASSUME NEW u \in SpecEditors, AbortSpec(u) PROVE SpecInvariant'
  BY <1>7, RefusingKeeps DEF AbortSpec
<1> QED
  BY <1>1, <1>2, <1>3, <1>4, <1>5, <1>6, <1>7 DEF NextSpecs

(* The tables and the calls under way agree after every step: a call that is   *)
(* about to commit holds what keeps its checks true.                           *)
THEOREM SpecsAgree == SpecsSpec => []SpecInvariant
BY SpecsBegin, SpecSteps, PTL DEF SpecsSpec

(* The tables and the calls of hyc_api/routes/specs.py keep their types.       *)
THEOREM SpecTypes == SpecsSpec => []SpecTypeOK
BY SpecsAgree, PTL DEF SpecInvariant

(* No day has two specifications in force for one scope, however many profiles,*)
(* versions and callers there are (hyc_prevent_active_spec_overlap).           *)
THEOREM OneInForce == SpecsSpec => []OneSpecInForce
BY SpecsAgree, PTL DEF SpecInvariant

(* What one step does to the scope of a profile that has a version.            *)
LEMMA ScopesStay ==
  ASSUME SpecInvariant, [NextSpecs]_specVars, NEW p \in Profiles, Bound(p)
  PROVE  profiles'[p].scope = profiles[p].scope
<1>1. profiles[p] # None
  BY DEF Bound, SpecInvariant, Rooted
<1>2. CASE UNCHANGED profiles
  BY <1>2
<1>3. ASSUME NEW q \in Profiles, NEW scope \in Scopes, CreateProfile(q, scope)
      PROVE  profiles'[p].scope = profiles[p].scope
  BY <1>1, <1>3 DEF CreateProfile, SpecInvariant, SpecTypeOK
<1>4. ASSUME NEW u \in SpecEditors, CommitSpec(u)
      PROVE  profiles'[p].scope = profiles[p].scope
  <2>1. CASE call[u].op = "rescope"
    BY <1>4, <2>1, RescopedRow
  <2>2. CASE call[u].op # "rescope"
    BY <1>4, <2>2 DEF CommitSpec
  <2> QED
    BY <2>1, <2>2
<1> QED
  BY <1>2, <1>3, <1>4 DEF NextSpecs, specVars, AskEdit, AskCreate, AskRescope, Begin,
     LockRevision, LockProfile, LockSibling, WriteSpec, AbortSpec, Go, Refuse

(* A profile with a version keeps its scope                                    *)
(* (hyc_prevent_bound_spec_scope_mutation).                                    *)
THEOREM ScopeIsKept == SpecsSpec => BoundScopeStays
<1>1. SpecInvariant /\ [NextSpecs]_specVars =>
        [\A p \in Profiles : Bound(p) => profiles'[p].scope = profiles[p].scope]_specVars
  BY ScopesStay
<1> QED
  BY <1>1, SpecsAgree, PTL DEF SpecsSpec, BoundScopeStays
=============================================================================
