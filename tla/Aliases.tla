------------------------------ MODULE Aliases ------------------------------
(***************************************************************************)
(* Aliases of the standard test items (hyc_api/routes/aliases.py): each is    *)
(* valid in a scope - a supplier, a material, a model, or any of them left    *)
(* open - and a lookup lists the aliases of a text whose scope covers what is *)
(* looked up.  Eight partial unique indexes of the migration 0006, one for    *)
(* each set of given references, keep the scopes apart.                       *)
(***************************************************************************)
EXTENDS NoValue, Naturals, Sequences, FiniteSets

CONSTANTS
  TestItems,        \* standard test items
  Texts,            \* alias texts
  References,       \* of "supplier", "material", "model"
  Targets,          \* the rows a reference can name
  Priorities,       \* priorities
  Registrars,       \* who edits aliases
  MaxAliases,       \* bound of the model: aliases ever made
  MaxAliasVersion   \* bound of the model: the versions an alias reaches

ASSUME AliasAssumption ==
  /\ None \notin Targets /\ Priorities \subseteq Nat
  /\ MaxAliases \in Nat /\ MaxAliasVersion \in Nat \ {0}

VARIABLES
  aliases,   \* the aliases, in the order of their ids
  withdrawn, \* <<reference, row>> for the rows that are deleted now
  readAlias  \* registrar -> the alias it read and its version, or None

aliasVars == <<aliases, withdrawn, readAlias>>

AliasScopes == [References -> Targets \cup {None}]
AliasBodies == [item : TestItems, text : Texts, scope : AliasScopes, priority : Priorities,
                active : BOOLEAN]
Unversioned(body) == [body |-> body, deleted |-> FALSE, version |-> 0]   \* mutant
AliasRow(body) == [body |-> body, deleted |-> FALSE, version |-> 1]

AliasTypeOK ==
  /\ aliases \in Seq([body : AliasBodies, deleted : BOOLEAN, version : 1 .. MaxAliasVersion])
  /\ Len(aliases) <= MaxAliases
  /\ withdrawn \subseteq References \X Targets
  /\ \A r \in Registrars : readAlias[r] # None =>
       /\ readAlias[r].id \in DOMAIN aliases
       /\ readAlias[r].version <= aliases[readAlias[r].id].version

InitAlias ==
  /\ aliases = <<>> /\ withdrawn = {}
  /\ readAlias = [r \in Registrars |-> None]

-----------------------------------------------------------------------------
Given(scope) == {r \in References : scope[r] # None}
(* What each of the eight indexes compares, deleted aliases included: the     *)
(* text and the references that both have given.                             *)
FullScopesOnly(a, b) ==                                   \* mutant
  /\ Given(a.scope) = References /\ Given(b.scope) = References
  /\ a.text = b.text /\ a.scope = b.scope
SameIndexEntry(a, b) ==
  /\ Given(a.scope) = Given(b.scope) /\ a.text = b.text
  /\ \A r \in Given(a.scope) : a.scope[r] = b.scope[r]

ScopeFree(body, id) ==
  \A i \in DOMAIN aliases \ {id} : ~SameIndexEntry(aliases[i].body, body)
ReferencesExist(body) == \A r \in Given(body.scope) : <<r, body.scope[r]>> \notin withdrawn

CreateAlias(body) ==
  /\ Len(aliases) < MaxAliases                            \* bound of the model
  /\ ReferencesExist(body) /\ ScopeFree(body, 0)
  /\ aliases' = Append(aliases, AliasRow(body))
  /\ UNCHANGED <<withdrawn, readAlias>>

ReadAlias(r, i) ==
  /\ ~aliases[i].deleted
  /\ readAlias' = [readAlias EXCEPT ![r] = [id |-> i, version |-> aliases[i].version,
                                            body |-> aliases[i].body]]
  /\ UNCHANGED <<aliases, withdrawn>>

AnyAliasVersion(i, version) == ~aliases[i].deleted        \* mutant
Current(i, version) == ~aliases[i].deleted /\ aliases[i].version = version

UpdateAlias(r, body) ==
  /\ readAlias[r] # None
  /\ LET i == readAlias[r].id IN
     /\ Current(i, readAlias[r].version) /\ ReferencesExist(body) /\ ScopeFree(body, i)
     /\ body # aliases[i].body
     /\ aliases[i].version < MaxAliasVersion              \* bound of the model
     /\ aliases' = [aliases EXCEPT ![i].body = body, ![i].version = aliases[i].version + 1]
  /\ UNCHANGED <<withdrawn, readAlias>>

DeleteAlias(r) ==
  /\ readAlias[r] # None
  /\ LET i == readAlias[r].id IN
     /\ Current(i, readAlias[r].version)
     /\ aliases[i].version < MaxAliasVersion              \* bound of the model
     /\ aliases' = [aliases EXCEPT ![i].deleted = TRUE, ![i].version = aliases[i].version + 1]
  /\ UNCHANGED <<withdrawn, readAlias>>

(* A supplier, a material or a model is deleted, by the revert of an import,  *)
(* whatever refers to it.                                                    *)
WithdrawReference(r, t) ==
  /\ <<r, t>> \notin withdrawn
  /\ withdrawn' = withdrawn \cup {<<r, t>>}
  /\ UNCHANGED <<aliases, readAlias>>

NextAlias ==
  \/ \E body \in AliasBodies : CreateAlias(body)
  \/ \E r \in Registrars :
       \/ \E i \in DOMAIN aliases : ReadAlias(r, i)
       \/ \E body \in AliasBodies : UpdateAlias(r, body)
       \/ DeleteAlias(r)
  \/ \E r \in References, t \in Targets : WithdrawReference(r, t)

AliasSpec == InitAlias /\ [][NextAlias]_aliasVars

-----------------------------------------------------------------------------
(* lookup_aliases: a reference that is not looked up matches only an alias    *)
(* that leaves it open.                                                      *)
OpenMatchesAll(own, asked) == asked = None \/ own \in {None, asked}      \* mutant
ScopeMatch(own, asked) == IF asked = None THEN own = None ELSE own \in {None, asked}
Found(text, asked) ==
  {i \in DOMAIN aliases :
     /\ ~aliases[i].deleted /\ aliases[i].body.active /\ aliases[i].body.text = text
     /\ \A r \in References : ScopeMatch(aliases[i].body.scope[r], asked[r])}

(* By priority, then by id: the text is the same.                            *)
Before(i, j) ==
  \/ aliases[i].body.priority < aliases[j].body.priority
  \/ aliases[i].body.priority = aliases[j].body.priority /\ i < j
Rank(i, found) == Cardinality({j \in found : Before(j, i)}) + 1
Lookup(text, asked) ==
  LET found == Found(text, asked) IN
  [n \in 1 .. Cardinality(found) |-> CHOOSE i \in found : Rank(i, found) = n]

(* Two aliases of one text and one scope are never both there, the scope      *)
(* that leaves every reference open included - where a plain unique index     *)
(* would take two NULLs for different.                                       *)
OneAliasPerScope ==
  \A i, j \in DOMAIN aliases :
    aliases[i].body.text = aliases[j].body.text
      /\ aliases[i].body.scope = aliases[j].body.scope => i = j

Narrower(p, q) == \A r \in References : p[r] # None => q[r] = p[r]
(* An alias never leaves its scope, and looking a text up for more references *)
(* loses nothing that is found for fewer.                                    *)
LookupKeepsScope ==
  \A text \in Texts, asked \in AliasScopes :
    LET list == Lookup(text, asked) IN
    /\ \A n \in DOMAIN list : Narrower(aliases[list[n]].body.scope, asked)
    /\ \A more \in AliasScopes : Narrower(asked, more) =>
         Found(text, asked) \subseteq Found(text, more)
    /\ \A m, n \in DOMAIN list : m < n =>
         aliases[list[m]].body.priority <= aliases[list[n]].body.priority

(* A scope keeps its aliases to itself, in the table and in what is found.    *)
ScopesStayApart == OneAliasPerScope /\ LookupKeepsScope

(* Nobody edits or deletes an alias in a form other than the one it read.     *)
AliasChangesWereRead ==
  [][\A i \in DOMAIN aliases : aliases'[i] # aliases[i] =>
       \E r \in Registrars : readAlias[r] # None /\ readAlias[r].id = i
         /\ readAlias[r].body = aliases[i].body]_aliasVars
=============================================================================
