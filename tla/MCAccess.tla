------------------------------- MODULE MCAccess ------------------------------
(***************************************************************************)
(* Model checking who gets into Vendra and how far: the lockout of logins, *)
(* sessions and passwords, the single sign-on, keys and tokens, the data   *)
(* scope and the delegations.  They are checked side by side: a behaviour  *)
(* is one of the component it picks at first, and the others rest.         *)
(***************************************************************************)
EXTENDS LoginGuard, AccountSessions, SingleSignOn, Credentials, DataScope, Delegations, TLC

CONSTANTS Components,  \* those to check
          v1, v2, t1

VARIABLE component

MCVars == <<guardVars, sessionVars, ssoVars, keyVars, scopeVars, grantVars, component>>

\* The limit of an address is cut, the window is the default one.
MCProtection == [maxFailures |-> 1, window |-> 4, lockout |-> 2, maxAddressFailures |-> 9]
MCDefault == [maxFailures |-> 2, window |-> 2, lockout |-> 1, maxAddressFailures |-> 2]

MCSsoValues == {[on |-> TRUE, autoLogin |-> TRUE, autoCreate |-> TRUE, requireVerified |-> TRUE]}

MCDoors == {<<"*", "read">>, <<"portal", "*">>, <<"supplier", "read">>, <<"supplier", "update">>,
            <<"contract", "amount", "read">>}
\* "*.*" is granted by nothing but itself, and grants "*.read".
MCLists == {{<<"supplier", "*">>}, {<<"*", "read">>}, {<<"*", "*">>},
            {<<"contract", "amount", "read">>, <<"supplier", "update">>}, {<<"openid">>}}

MCRoleScopes == {{}, {"own"}, {"department"}, {"own", "division"}, {"company"}}

\* v1 and v2 are suppliers, t1 is a contract; v2 is in the scope of everybody.
MCTypeOf == [x \in Things |-> IF x = t1 THEN "contract" ELSE "supplier"]
MCOwnWords == [u \in Delegates |-> {<<"supplier", "read">>}]
MCDelegateReach == [u \in Delegates |-> {v2}]
Entered(word, type, thing, method, from, until) ==
    {[to |-> u, word |-> word, type |-> type, thing |-> thing, method |-> method, from |-> from, until |-> until]
       : u \in Delegates}
MCOffered ==
    Entered(<<"supplier", "update">>, "supplier", v1, Everything, 0, 1)
      \cup Entered(<<"supplier", "update">>, "supplier", Everything, Everything, 0, 2)
      \cup Entered(<<Everything, "read">>, Everything, Everything, Everything, 0, 2)
      \cup Entered(<<"contract", "read">>, "contract", Everything, "read", 1, 2)
      \cup Entered(<<"contract", Everything>>, Everything, t1, "read", 0, 2)

MCInit ==
    /\ component \in Components
    /\ GuardInit /\ SessionsInit /\ SsoInit /\ KeysInit /\ ScopeInit /\ DelegationsInit
    \* What the others start from makes no difference.
    /\ component # "sessions" => password = [u \in Users |-> CHOOSE p \in Passwords : TRUE]
    /\ component # "credentials" => /\ role = [x \in Roles |-> CHOOSE words \in Lists : TRUE]
                                     /\ holds = [u \in Holders |-> {}]

MCNext ==
    \/ component = "guard" /\ GuardNext /\ UNCHANGED <<sessionVars, ssoVars, keyVars, scopeVars, grantVars, component>>
    \/ component = "sessions" /\ SessionsNext /\ UNCHANGED <<guardVars, ssoVars, keyVars, scopeVars, grantVars, component>>
    \/ component = "sso" /\ SsoNext /\ UNCHANGED <<guardVars, sessionVars, keyVars, scopeVars, grantVars, component>>
    \/ component = "credentials" /\ KeysNext /\ UNCHANGED <<guardVars, sessionVars, ssoVars, scopeVars, grantVars, component>>
    \/ component = "scope" /\ ScopeNext /\ UNCHANGED <<guardVars, sessionVars, ssoVars, keyVars, grantVars, component>>
    \/ component = "delegations" /\ DelegationsNext /\ UNCHANGED <<guardVars, sessionVars, ssoVars, keyVars, scopeVars, component>>

MCSpec == MCInit /\ [][MCNext]_MCVars
=============================================================================
