------------------------------ MODULE DataScope -----------------------------
(***************************************************************************)
(* Whose records a Vendra user reaches: the organisation tree, the widest  *)
(* data scope of a user's roles, and the checks that the lists, the single *)
(* records and the creation of records make, each written on its own in    *)
(* the code.  One SQL statement per step; tree and roles change at any     *)
(* time.                                                                   *)
(***************************************************************************)
EXTENDS Naturals, SequencesExt

CONSTANTS Staff,         \* users
          Orgs,          \* rows of organizations
          Assets,        \* rows of suppliers and of business objects
          RoleScopes,    \* sets of data scopes that the roles of a user may have
          NoOrg

ASSUME ScopeAssumption == NoOrg \notin Orgs \cup Staff

Scopes == <<"own", "department", "division", "company">>

VARIABLES org,      \* organizations: parent and path of ids
          staff,    \* users: organization, and data scopes of the roles held
          asset     \* records: owner, organization (supplier: the one it hangs from)

scopeVars == <<org, staff, asset>>

NoRow == [made |-> FALSE, parent |-> NoOrg, path |-> <<>>]
NoAsset == [owner |-> NoOrg, org |-> NoOrg, made |-> FALSE]

\* The highest of max(CASE data_scope ...); without a role it is 'own'.
ScopeOf(u) ==
    LET held == {i \in 1 .. Len(Scopes) : Scopes[i] \in staff[u].scopes} IN
    IF held = {} THEN "own" ELSE Scopes[CHOOSE i \in held : \A j \in held : j <= i]

\* path || id || '/'
Below(o) == Append(org[o].path, o)

\* vendra_org_in_scope, the function
OrgInScope(item, scope, mine) ==
    \/ scope = "company"
    \/ /\ item # NoOrg /\ mine # NoOrg
       /\ \/ scope = "department" /\ item = mine
          \/ scope = "division" /\ IsPrefix(Below(mine), Below(item))

\* orgInScope, the same condition written out in every list; a comparison with NULL is
\* not true, and the sub-select finds nothing.
ListedOrg(item, scope, mine) ==
    \/ scope = "company"
    \/ scope = "department" /\ item = mine /\ mine # NoOrg
    \/ /\ scope = "division"
       /\ \E vo \in {o \in Orgs : org[o].made} : vo = item /\ mine # NoOrg /\ IsPrefix(Below(mine), Below(vo))

\* Mutant: the check without the tree, as it is for the other scopes.
CanAccess_NoTree(u, a) ==
    LET mine == staff[u].org IN
    CASE ScopeOf(u) = "company" -> TRUE
      [] ScopeOf(u) \in {"department", "division"} -> mine # NoOrg /\ asset[a].org = mine
      [] OTHER -> asset[a].owner = u

\* canAccessObject, canAccessSupplier: of a single record.
CanAccess(u, a) ==
    LET mine == staff[u].org IN
    CASE ScopeOf(u) = "company" -> TRUE
      [] ScopeOf(u) = "division" -> mine # NoOrg /\ asset[a].org # NoOrg /\ OrgInScope(asset[a].org, "division", mine)
      [] ScopeOf(u) = "department" -> mine # NoOrg /\ asset[a].org = mine
      [] OTHER -> asset[a].owner = u

\* The WHERE of listObjects and listSuppliers.
Listed(u, a) ==
    \/ ListedOrg(asset[a].org, ScopeOf(u), staff[u].org)
    \/ ScopeOf(u) = "own" /\ asset[a].owner = u

\* Mutant: the caller may attach a record to any organisation.
MayAttach_Anywhere(u, o) == TRUE

\* objectScopeAllowed on the organisation a record is attached to.
MayAttach(u, o) ==
    \/ ScopeOf(u) = "company"
    \/ o = NoOrg
    \/ staff[u].org # NoOrg /\ OrgInScope(o, ScopeOf(u), staff[u].org)

-----------------------------------------------------------------------------
\* SELECT path||id||'/' of the parent
PathUnder(parent) == IF parent = NoOrg THEN <<>> ELSE Below(parent)

\* createOrganization, one transaction; nothing moves an organisation afterwards.
CreateOrganization(o, parent) ==
    /\ ~org[o].made
    /\ parent # NoOrg => org[parent].made
    /\ org' = [org EXCEPT ![o] = [made |-> TRUE, parent |-> parent, path |-> PathUnder(parent)]]
    /\ UNCHANGED <<staff, asset>>

\* updateUser: an organisation can be replaced and not taken away; the roles are replaced
\* as a whole.
UpdateStaff(u, o, scopes) ==
    /\ o # NoOrg => org[o].made
    /\ staff' = [staff EXCEPT ![u] = [org |-> IF o = NoOrg THEN @.org ELSE o, scopes |-> scopes]]
    /\ UNCHANGED <<org, asset>>

\* createObject.  A record without an organisation gets its author's, else the one of the
\* supplier it is attached to, which has to be within reach; without an owner the author's.
CreateAsset(u, a, owner, given, supplier) ==
    LET wanted == IF given = NoOrg THEN staff[u].org ELSE given IN
    /\ ~asset[a].made
    /\ given # NoOrg => org[given].made
    /\ supplier # NoOrg => asset[supplier].made
    /\ MayAttach(u, wanted)
    /\ supplier # NoOrg /\ ScopeOf(u) # "company" => CanAccess(u, supplier)
    /\ asset' = [asset EXCEPT ![a] =
           [made |-> TRUE, owner |-> owner,
            org |-> IF wanted # NoOrg THEN wanted ELSE IF supplier # NoOrg THEN asset[supplier].org ELSE NoOrg]]
    /\ UNCHANGED <<org, staff>>

ScopeInit ==
    /\ org = [o \in Orgs |-> NoRow]
    /\ staff = [u \in Staff |-> [org |-> NoOrg, scopes |-> {}]]
    /\ asset = [a \in Assets |-> NoAsset]

ScopeNext ==
    \/ \E o \in Orgs, parent \in Orgs \cup {NoOrg} : CreateOrganization(o, parent)
    \/ \E u \in Staff, o \in Orgs \cup {NoOrg}, scopes \in RoleScopes : UpdateStaff(u, o, scopes)
    \/ \E u, owner \in Staff, a \in Assets, given \in Orgs \cup {NoOrg}, s \in Assets \cup {NoOrg} :
         CreateAsset(u, a, owner, given, s)

ScopeSpec == ScopeInit /\ [][ScopeNext]_scopeVars

-----------------------------------------------------------------------------
\* A record is in somebody's list when he may open it, and only then: the condition written
\* out in the lists (orgInScope), the database function and the checks on one record agree,
\* whatever the tree looks like and wherever organisations are missing (listObjects,
\* getObject, canAccessObject).
ListsAgree == \A u \in Staff, a \in {x \in Assets : asset[x].made} : CanAccess(u, a) <=> Listed(u, a)

\* Nobody files a record of his own where he cannot see it (objectScopeAllowed: "it entered
\* that organisation's lists ... while staying invisible to its author"), as long as he
\* belongs to an organisation.
AuthorSees ==
    [][\A u \in Staff, a \in Assets :
         /\ asset'[a] # asset[a]
         /\ \E given \in Orgs \cup {NoOrg}, s \in Assets \cup {NoOrg} : CreateAsset(u, a, u, given, s)
         /\ staff[u].org # NoOrg
         => CanAccess(u, a)']_scopeVars
=============================================================================
