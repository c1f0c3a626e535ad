------------------------------ MODULE MCLogins ------------------------------
EXTENDS Logins, TLC
CONSTANTS ann, bob, app, c1, c2, x0

\* ann is an administrator; bob's account is young, and Discord may report him
\* as staff at one time and not at another.
LoginRoles == [u \in Users |-> IF u = ann THEN {{"deleter", "god"}}
                                          ELSE {{}, {"staff"}}]
LoginScopes == [a \in Apps |-> Scopes]
LoginOpen == {[secret |-> x0, uid |-> ann, scope |-> {"all"}]}
\* ann has let the application act for her.
LoginCodes == {[state |-> "pending", uid |-> ann, app |-> app, scope |-> Scopes]}
LoginOwner == [a \in Apps |-> ann]
LoginSymmetry == Permutations(Clients) \cup Permutations(Secrets \ {x0})
                 \cup Permutations(Nonces)
=============================================================================
